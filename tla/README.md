# A TLA+ model of pinetime-dev-tools

`ptlab` is the Python laboratory around InfiniTime, a firmware for the PineTime
watch. It starts the InfiniSim simulator (with an X server of its own when it runs
headless), drives it over two TCP bridges, runs acceptance scenarios against it under
a deadline, and drives real watches over Bluetooth with checkpointed runs. This
directory holds TLA+ modules that model the parts of `ptlab` in which something can go
wrong between two steps, TLC configurations that check them on small instances, and
proofs that hold for every instance. Paths below are relative to the repository root;
`ptlab` modules are in `src/ptlab/`.

`PROJECT.json` is the machine-readable index: components, runs, seeded faults
("mutants"), the map from definitions to source lines, findings, hazards, theorems.

## 1. Inventory

### Components

| Component | Source | State it keeps | Operations | What makes it correct |
|---|---|---|---|---|
| Simulator lifecycle | `sim.py` | `state.json` of a layout (pids, ports, display); locals of a call | `start`, `stop`, `kill`, `restart`, `rebuild` | A recorded simulator stays findable until it ends; a failed start leaves nothing; the reported result is what is on disk |
| Process control | `processes.py` | none; the kernel's process table | `process_is_alive`, `terminate_process_groups`, `terminate_pids` | SIGTERM first, SIGKILL only after the grace period; ends even if SIGTERM is ignored |
| Resource allocation | `allocation.py` | none; the kernel's ports and displays | `allocate_tcp_port`, `display_is_active` | Two runs never share a port; a listener that answers is the simulator just started |
| Scenario runner | `scenario.py`, `cli.py` | `result` (status, assertions), interval timer, `result.json`, `junit.xml` | `run_scenario`, `check`, `require`, `run_command`, `scenario_deadline` | Processes stop whatever the outcome; the verdict is earned; a report is written; the deadline ends every run and touches nothing else |
| Artifacts | `artifacts.py`, `transcript.py` | files of a run | `JsonResultWriter.write`, `write_junit`, event logs | A reader never finds a half-written result |
| GATT bridge client | `gatt.py` | parser buffer, response queue, notification queue | `request`, `next_notification` | Responses match requests; no notification is lost or reordered; the parser finds every frame however the stream is cut |
| BLE-control client | `control.py` | line buffer, queued lines | `command`, `query` | Lines match commands until a timeout, and never shuffle after it |
| Wire protocol, family sync | `wire.py`, `generated/` | none; the watch's digest, records, staged and pending lists | `pull_records`, `push_records`, `wait_family_commit` | What is pulled is one version; a status belongs to the commit it is taken for |
| Scenario definitions | `scenarios.py` | bonds, radio policy, ownership (in the firmware) | eight scenario functions | A faulty watch passes no scenario that is meant to find the fault; a sound one fails none |
| Hardware acceptance | `hardware.py` | acceptance, soak and advertising reports, checkpoints | `probe`, `accept`, `soak`, `advertise` | No eviction from a full watch without consent; evidence of done steps survives an interrupt |
| Command line | `cli.py` | exit code | `sim`, `run`, `hardware`, `protocol` commands | The exit code reflects the verdicts |
| Workspace, protocol check | `workspace.py`, `protocol.py` | none | lookup; run a generator and compare | - (pure I/O) |
| Companion scripts | `companion-cli.mjs`, `bridge-test.mjs`, ... | a local copy of the records | pull, edit, push | No lost update |
| Shell and navigation helpers | `*.sh`, `simnav.py`, `simctl.py` | none | straight-line scripts | - |

### Interactions

* Every `ptlab sim ...` command is a Python process of its own. Commands of one
  workspace share one layout directory; the only thing they share is `state.json`, and
  they take no lock. The simulators and X servers they spawn are session leaders: they
  outlive the command, and a Ctrl-C at the terminal reaches the command but not them.
* `run_scenario` gives every run a private layout, calls `Simulator.start` before and
  `Simulator.stop` in the `finally` clause after the scenario function. One scenario
  (`raw_flash_power_loss`) calls `kill`, `start` and `stop` on its own simulator
  inside the function.
* The deadline is a SIGALRM handler that raises `ScenarioTimeout`, an ordinary
  `Exception`, between any two bytecodes of the function, nested simulator calls
  included. Ctrl-C raises `KeyboardInterrupt`, which `except Exception` lets pass but
  `run_scenario`'s `except BaseException` catches.
* `GattClient` and `BleControlClient` each own a TCP connection. Answers have no
  request number; whatever arrives first is the answer. Every wait is bounded per
  `recv`, and the connection stays usable after a timeout.

### What is hard here

Overlapping commands with no lock; a Popen whose result is not yet assigned; an
exception from outside inside a cleanup; non-atomic file writes; zombies that look
alive; late answers after a timeout; a checked value that is stale when used. The list
with source lines is `hazards` in `PROJECT.json`, each with the properties that would
catch it or the reason none does yet.

## 2. Modules

    Simulator            processes, state.json, one call of start/stop/kill/restart
      |-- SimulatorProofs      lemmas about a call, whoever makes it
      |-- SimCommands          the calls as overlapping command-line commands
      |     |-- SimCommandsMC      small instance, symmetry
      |     `-- SimCommandsProofs  (also extends SimulatorProofs)
      `-- ScenarioRunner       the calls inside run_scenario, with deadline and Ctrl-C
            |-- ScenarioRunnerMC   small instance
            `-- ScenarioRunnerProofs  (also extends SimulatorProofs)
    Ports                TCP ports between allocation, bind, probe, stop and kill
      |-- PortsMC            small instance, symmetry
      `-- PortsProofs
    GattFrameParser      GattFrameParser.feed as a function  --.
    LineParser           LineParser.feed as a function       --+-- BridgeClients
    Framing              abstract: what a stream parser owes --'   both clients on a connection
            `-- BridgeClientsProofs   what feed returns, then the connection
    FamilyStore          abstract: atomic edits of the family's list
    FamilyWatch          the watch behind the bridge: staged, pending and live lists
      `-- FamilySync         the companions; implements FamilyStore
            |-- FamilySyncMC     small instances
            `-- FamilySyncProofs
    BondStore            the virtual watch's bonds, with faults
      `-- BondScenarios      bond_lifecycle, persistence_faults --.
    LinkAuth             link_auth, a watch with faults         --+-- ScenarioSuite
    RadioPolicy          radio_policy, a watch with faults      --'   one scenario of a run
      `-- ScenarioSuiteProofs  (extends ScenarioSuite)
    Acceptance           a plan of peers on a real watch: probe, operator, checkpoints
      |-- AcceptanceMC       two small plans
      `-- Hardware           accept, soak or advertise: one hardware command
            |-- HardwareMC       small instance
            `-- HardwareProofs
    Observation          soak and advertise: scan windows for days, checkpoints

### Simulator

The kernel's part is `proc` (each pid is `free`, running, sent SIGTERM (`term`), sent
SIGKILL (`kill`) or a `zombie`) and `parent` (who may still wait for it). A process may
ignore SIGTERM and may end on its own at any moment. A zombie keeps its pid until its
spawner reaps it, which happens as in CPython: in `poll()`, in the next `Popen` (which
polls abandoned children), or at exit. A free pid may be handed out again at once, so
a stale pid in `state.json` or in a local may come to name another simulator's
process.

`file` is `state.json`: absent, torn (truncated and not yet rewritten), or a record of
pids. `linked` remembers whose open descriptor still is the directory's file, so a
write that lands after an unlink is lost.

A call is a program counter `pc[c]` with one label per system call another process
could observe, and the local variables that matter (`sim`, `xvfb`, and the process
groups `refs` that a terminate call still waits for). `then` says where the shared stop
code returns to: a stop of its own, the replacement of an unhealthy simulator in
`start`, the first half of `restart`, or `start`'s `except` clause.

| Code | Definitions |
|---|---|
| `stop`, `kill` | `StopCheck`, `StopLoad`, `KillNow`, `Unlink` |
| `terminate_process_groups` | `Signal`, `GraceWait`, `GraceExpired` |
| `start` before its `try` | `StartCheck`, `StartLoad` (`existing_state_is_healthy`), `Validate` |
| `start` inside its `try` | `SpawnXvfb`, `XvfbReady`, `XvfbFailed`, `SpawnSim`, `SimAssigned`, `SimReady`, `SimExited`, `StartFailed`, `DumpOpen`, `DumpWrite` |
| the `except Exception` clause | `Cleanup`, then `Signal` ... `Unlink` with `then = "cleanup"` |
| `KeyboardInterrupt` or death of the command | `Interrupt` |

### SimCommands

Any number of commands (`Cmd`), each running one operation and exiting
(`CommandExit` hands its children to init). Two history variables: `alone[c]` says
that no other command has overlapped `c`; `clean` is the set of live pids that a start
which ran alone put in the state file.

Why `clean`: two overlapping starts both find no state file, both spawn, and one
overwrites the other's record. The code has no lock and promises nothing there, so a
property about every process would be false and one about a single command shallow.
What one does rely on is that a simulator *properly* recorded stays findable whatever
any later, overlapping, failing or interrupted commands do. That is `Tracked`.

### ScenarioRunner

One Python process, `Runner`, that runs scenario after scenario (`cli.main`'s loop)
with the same `Simulator` steps. `stage` follows `run_scenario`, from the first write of
`result.json` to the last; `timer` is `ITIMER_REAL`; `fired` and `cut` are history: the
deadline has raised in this run; an exception from outside struck inside
`simulator.start` where no `except` clause covers the children. `DeadlineFires` may
happen at any step while the timer is armed, `CtrlC` at any step at all, both also
inside a cleanup and inside the `finally` clause. `StopEndsProcess` covers the
cleanup of a failed start as well as `stop`; it excepts an exception from outside inside
such a cleanup (`cut`), which nothing repeats, and one that leaves the `finally` clause
(`stage = "aborted"`).

### Ports

`allocate_tcp_port` binds port 0, closes the socket and returns the number
(`AllocateBridge`, `AllocateControl`); until the simulator binds it, the port is
anybody's. `Probe` and `Ready` are the two halves of a turn of
`wait_for_tcp_listener`: something accepts, and then the child is alive. A bind that
fails either ends the simulator or leaves it without that listener, because InfiniSim is
another repository; both happen in the model. Nobody waits after SIGKILL: `kill` sends
it at once, `stop` and the cleanup of a failed start when the grace after SIGTERM is
over, and all three return while the process may still hold its ports (`SigKill`;
`proc` is `killed` until `Dies`). `killed` remembers whom it was sent to.

### BridgeClients

One connection of either client, chosen by `protocol`. The two classes are the same
loop: send, then recv, feed and queue until the queue that the call waits for is not
empty. `wire` holds bytes, and one `Receive` takes any number of them through
`FeedFrames` or `FeedLines`, which are `feed` of either parser as a function of the
buffer: what it returns, what it keeps, whether it raises. Each byte carries, for the
properties alone, the number of the item that it was written for; `answers` pairs each
request with the item that it returned. `Dispatch` is the loop in `_receive` (a
notification with an unknown characteristic raises and the rest of the chunk is lost).
Requests without response (`mute`), notifications and empty lines are mixed in. The
payloads that the bridge may send have the sizes in `Sizes`, of two bytes each, and
`MaxPayload` may be any number: what is too large is raised upon, not cut.

`Framing` is what a parser owes its caller: the items written, whole, once each and in
order, until one of them is unacceptable. `ParsesTheStream` says that the byte-level
model implements it (`Stream == INSTANCE Framing WITH sent <- ..., got <- parsed`),
up to the parser's first error, after which nothing is promised.

### FamilyStore, FamilyWatch, FamilySync

`FamilyWatch` is external: one served connection (`owner`), a staged list, commits that
are accepted first (`pending`), then on flash (`durable`, `status`), then live. What it
does with a request is what `wire.py`, `scenarios.py` and the companion scripts rely
on; a refused select leaves the old index (`bridge-test.mjs:258` and `:325` to `:343`).
`FamilySync` adds the companions, one request and its answer per step: `ReadDigest`,
`Select` and `ReadRecord` are `pull_records`; `Begin`, `Push` and `Commit` are
`push_records`; `WaitStatus`, `WaitDigest` and `GiveUp` are `wait_family_commit`, the
digest confirmation and the deadline of either. Sessions in `Wire` are ptlab's, the
others are `companion-cli.mjs`, which does not look at the status of a select and waits
for the digest only. Connections end, commits fail, power is cut at any time. A session
may raise at any request (`Raise`: a refusal, a Ctrl-C); what it does if nobody answers
differs: a request of ptlab has a time limit (`TimesOut`), one of `companion-cli.mjs`
(`:48`) waits until its connection is gone (`Lost`), which rejects it, or leaves node
with nothing to wait for. `Alone` is what a session does without an answer.

`FamilyStore` is the abstract specification: each session's edit is merged into
whatever the list is at that moment, at once, at most once, and before the session is
told how it ended. `MergesAtomically` says that sessions which wait for their commits
implement it, with `store <- live`. Sessions that leave early (`impatient`) do not: a
commit that lands after its companion has left overwrites what the next one pulled.
`ConfirmedSurvives` is what holds for them too.

### BondStore, BondScenarios, LinkAuth, RadioPolicy, ScenarioSuite

These modules ask of a scenario what one asks of a test: does it find the faults it is
there for, and nothing else? The watch is external and may have any set of the faults
that the scenario's checks are about. `BondScenarios` has one action per phase of
`bond_lifecycle` and `persistence_faults` (the commands up to a query, and the checks
made of the answer). Where `bond_lifecycle` reconnects over GATT (`scenarios.py:134` and
`:150`), the bridge notices each close before the next `ADVANCE`, before the next
connection, or later still (`Notices`): a connection that comes too early hears BUSY,
which fails the battery check, or leaves `parse_companion_status` with nothing to parse
(`ResetUnread`); an `ADVANCE` that comes too early settles nothing (`Reconnect`).
`LinkAuth` is line by line, since the bridge notices a closed
connection in its own time and a line that comes earlier hears BUSY. `RadioPolicy`
runs the virtual clock to the millisecond (`Advance`) and has two races with real time:
the five seconds for the commit of the beacon key, after which the scenario raises as it
does when the watch refuses the key or the mode (`BeaconRaises`), and the sleep after the
beacon request. `hurried` remembers that the scenario was quicker than the watch or the
bridge, `early` that all `ADVANCE`s after a reconnect came before its link was down.
`ScenarioSuite` is a `ptlab run` of one of them.

### Acceptance

The watch is external: the bonded centrals in LRU order (`retained`), those with a
stored CCCD, and a reset counter; a new central evicts the least recently used one when
the watch is full. `at` follows `run_acceptance_plan` and, inside a Linux step, `probe`
with its three connections: `ReadPublic` (public status, rejection of the unpaired
verify read, refusal of a full watch), `Pair` / `Verify` / `Subscribe`, and `Readback`.
Between the connections phones and companions outside the plan connect and pair
(`OtherConnects`), and at any time somebody may reset the watch (`ForgetAll`). Every
failure inside a probe (`ProbeFails`) is a failed step and the run goes on.

A checkpoint is two steps, as in `write_hardware_result`: `Stage` writes the temporary
sibling, `Save` replaces the result. `Resume` says where the run continues after it.
`PlanIdentity` is what the plan's validation compares, `Central` what the watch sees.
The history variables record that an unpaired read was rejected (`gate`), that another
central paired since the public read (`raced`), and that the watch dropped the probed
central since it paired (`lost`).

### Observation

`soak` (two watches, `run_soak` with `observe_pair`; two battery readings at either
end) and `advertise` (one watch, `_hardware_main` with `observe_advertising`). A
checkpoint may fail (`SaveFails`): inside the `try` block (`Protected`) the failure is
handled like a radio error, elsewhere it ends the run. Elsewhere is in three places
(`Uncovered`): the first checkpoint (`cli.py:241`, `hardware.py:807`), the failure report
of the `except` clause itself, and the verdict of `advertise` (`cli.py:264`). `cut` is
Ctrl-C's alone.

### Hardware

One hardware command per process: `accept`, or one of the two observations, each with
a result file of its own behind `write_hardware_result`.

### Definitions named `X_Y`

A definition such as `Signal_Silent` or `Verdict_Blind`, marked "seeded fault", is
never used by a specification. It is the definition `X` with a plausible bug.
`PROJECT.json` pairs each checked property with one such fault under which TLC finds
the property violated, which shows that the property depends on the code it is about.

## 3. Runs

| Run | Checks | Shows |
|---|---|---|
| `sim_commands` | `TypeOK`, `Tracked`, `FailedStartLeavesNothing`, `ResultMatchesDisk`, `GraceBeforeKill` | Two overlapping, interruptible commands, with and without a display, never lose a recorded simulator; a failed start leaves nothing behind; results agree with the disk; only `kill` skips SIGTERM |
| `scenario_runner` | `TypeOK`, `StoppedUnlessCut`, `VerdictEarned`, `AbortNeedsInterrupt`, `TimerConfined`, `RunEnds`, `StopEndsProcess` | Consecutive runs under crashes, deadlines in nested calls and two Ctrl-C; every run ends, and what a stop was told to end does end |
| `scenario_leak` | `ProcessesStopped`, violated | finding 1 |
| `hardware` | `HardwareTypeOK`, `AcceptanceEvidence`, `ObservationEvidence`, `ResultEarned`, `FailureRecorded`, `EvictionNeedsRace`, `PassedKeptBond` | Finished steps and scan windows are on disk before the next radio operation; a passed result was earned; an error ends in a report that says so, but for a failing save outside the `try` block; only a race evicts without consent; a passed probe kept its bond |
| `acceptance_eviction` | `EvictionPermitted`, violated | finding 2 |
| `acceptance_alias` | `PassedOnTwoCentrals`, violated | finding 3 |
| `clients` | `TypeOK`, `MatchedUntilTrouble`, `NeverShuffled`, `NotesKept`, `NothingWithheld`, `ParsesTheStream`, `EveryCallEnds` | Answers match until a call raises and never shuffle after it; no notification is lost before it; both parsers implement the abstract stream in every split; every call ends |
| `family` | `TypeOK`, `ConfirmedSurvives`, `ConfirmedIsLive`, `DurableWhenTold`, `AdoptsTheWatch`, `MergesAtomically`, `SessionsEnd` | What a companion was told is on the watch is lost by no other; patient sessions are atomic edits; sessions end once their connection is gone, those of ptlab also if nobody answers |
| `family_mixed_pull` | `AdoptsEachRecordOnce`, violated | finding 4 |
| `ports` | `TypeOK`, `MetItsOwn` | A start meets its own simulator, unless a port was handed out twice or what it met was sent SIGKILL and not waited for |
| `scenario_suite` | `SuiteTypeOK`, `BondsDetect`, `LinkDetects`, `RadioDetects`, `SuiteNoFalseAlarm` | No combination of faults passes its scenario (but writes on each reconnect, if every `ADVANCE` comes too early); a sound watch fails none, unless the scenario is too quick for it or its bridge |
| `link_cleanup` | `CleanupShown`, violated | finding 5 |

### Bounds, and why they are enough

* Simulator: three pids hold a simulator and its X server and one process of a
  competing start; with two pids a competing start could only fail to fork. Two
  commands overlap; commands repeat for ever, so the number of calls is not bounded.
  The theorems below hold for any number of both.
* Scenario runner: `MaxInterrupts` bounds Ctrl-C at two, enough for one in the body
  and one in the `finally` clause; the number of scenarios is not bounded. Layouts are
  private and the runs of one process are sequential, so one runner suffices. Two pids
  are a simulator and its X server, or a simulator and one of an earlier call that
  lingers; liveness is checked in the same run, hence no symmetry.
* Ports: two runs and three ports, one more than a run needs, so that allocations may
  or may not overlap; `MaxStarts = 2` gives each run a second start on the same ports.
* Clients: a payload limit of one byte and a line limit of two reach every case below,
  at and above the limit (`Sizes = {0, 1, 2}`); frames have three to six bytes and a
  chunk may end between any two. Two requests let a late answer be taken for the next request;
  one notification (or empty line) may come before, between and after. Payload sizes
  do not reach the second size byte in this run; the proofs cover it.
  Reconnecting starts over, any number of times.
* Family: three sessions let one of them overtake two others; one record at first and
  up to three on the watch. `family_mixed_pull` needs two records and two sessions.
* Scenario suite: all sets of up to five of eighteen bond faults, all 64 sets of link
  faults, all 32768 sets of radio faults; all 27 patterns of when the bridge notices the
  three reconnects of `bond_lifecycle`.

* Acceptance: a watch with two places instead of five is full after two pairings, so
  that a plan of three peers and one other companion reaches every order of filling,
  evicting and refusing; the code compares only the count with the capacity. `load`
  asks for six peers in a plan with a capacity check, one more than the watch retains,
  which becomes three here. `MaxResets = 1` resets before, inside or after a probe. All
  initial contents of the watch are tried, the plan's own adapters included.
* Observation: three windows are a first, a middle and a last one.

All configurations but `SimCommands.cfg` switch deadlock checking off: a run that has
ended is the end of the Python process, and the bounded ones end at their bounds.

### Fairness

* Scenario runner: the Python process runs (`WF(Run)`), and an armed interval timer
  goes off. Every wait in the code is a bounded `recv` or a poll with a deadline;
  `GraceExpired`, `XvfbFailed` and `StartFailed` stand for those deadlines, which is why
  weak fairness of the whole step suffices: the polling turn (`GraceWait`) changes
  nothing once it has nothing new to see, so it cannot starve the deadline. A process
  that was sent SIGKILL ends (the kernel's promise); no fairness is assumed of one that
  was sent SIGTERM, or of start-up. The scenario function itself may loop for ever.
* Clients: the client takes steps (`WF(Client)`), since its socket has a timeout;
  nothing is assumed of the server, which may never answer. `EveryCallEnds` needs the
  bound on notifications: the timeout is one per `recv`, and a bridge that sends
  notifications for ever keeps a request waiting for ever.
* Family: weak fairness of `Alone(s)` for each session, and nothing of the watch or the
  bridge, which may never answer: a gone connection is seen, ptlab's time limits pass,
  and a session with nothing to send goes on. `SessionsEnd` says that a session ends
  once its connection is gone, and that one of ptlab which may give up its wait ends
  whatever happens. For `companion-cli.mjs` this needs a bridge that answers, and the
  property says so (`WF_vars(Companion(s)) => ...`): its `request` has no timeout.

### Findings

1. `README.md:28` says "Process groups are stopped after pass, failure, or timeout."
   The deadline may strike in a nested start, between fork and assignment
   (`sim.py:394`) or inside start's own cleanup; nothing then knows the child, and
   the run ends as timed out with its simulator running. A Ctrl-C inside
   `Simulator.start` has the same effect: it passes by `except Exception`
   (`sim.py:452`). `StoppedUnlessCut` states that nothing else leaks.
2. `.memory/context.md:32` says "Full-watch pairing requires explicit eviction
   permission." `probe` reads the peer count over one connection and pairs over the
   next (`hardware.py:241`, `:249`); a companion that takes the last place in between
   makes it evict a peer without permission. `EvictionNeedsRace` is what does hold.
3. `hardware.py:581` says "each acceptance peer must use an independent Android serial
   or BlueZ adapter". The plan's validation compares adapters as written (`:573`), so a
   peer without adapter and one on `hci0` count as two although they are one central.
4. `companion-cli.mjs:13` says "it adopts whatever is on the watch". Its pull ignores
   the status of a select (`:106`): when a commit of a companion that has left makes the
   list shorter meanwhile, it reads one record twice and pushes it twice.
   `pull_records` checks the status and raises.
5. `scenarios.py:302` claims "disconnect cleanup aborts schedule staging" of a check
   that passes on every watch: a commit of one record out of two is refused whether
   the staging was aborted or not.

Two more that the models show but no run of their own: two runs that start at the same
time can be given the same port and then share a control server
(`MetItsOwn` excludes exactly that; `.memory/context.md:28` says ports are private), and
scenario results are written in place (`artifacts.py:27`), so that an interrupt leaves
`result.json` unreadable, although `.memory/lessons.md:19` prescribes a temporary
sibling.

## 4. Proofs

Each theorem holds for every value of the constants that satisfies the named
assumptions; TLC evaluates the assumptions in every run. Every inductive invariant was
checked by TLC on the instances of its component's runs before it was proved. The
proof that a step keeps it has one step per action, and under it one per conjunct that
the action can disturb; what a shared step does is a lemma.

| Module | Theorem | States |
|---|---|---|
| `SimCommandsProofs` | `TypeCorrect` | `Spec => []TypeOK` |
| | `TrackedHolds` | `Spec => []Tracked` |
| | `FailedStartIsClean` | `Spec => []FailedStartLeavesNothing` |
| | `ResultIsTrue` | `Spec => []ResultMatchesDisk` |
| | `KillOnlyAfterGrace` | `Spec => GraceBeforeKill` |
| `ScenarioRunnerProofs` | `RunnerTyped` | `Spec => []TypeOK` |
| | `DeadlineConfined` | `Spec => []TimerConfined` |
| | `VerdictIsEarned` | `Spec => []VerdictEarned` |
| | `RunReports` | `Spec => []AbortNeedsInterrupt` |
| | `NothingLeftRunning` | `Spec => []StoppedUnlessCut` |
| `PortsProofs` | `PortsTyped` | `Spec => []TypeOK` |
| | `StartMeetsItsOwn` | `Spec => []MetItsOwn` |
| `HardwareProofs` | `HardwareTyped` | `HardwareSpec => []HardwareTypeOK` |
| | `StepsStayOnDisk` | `HardwareSpec => []AcceptanceEvidence` |
| | `SamplesStayOnDisk` | `HardwareSpec => []ObservationEvidence` |
| | `PassedIsEarned` | `HardwareSpec => []ResultEarned` |
| | `FailuresAreRecorded` | `HardwareSpec => []FailureRecorded` |
| | `EvictionIsARace` | `HardwareSpec => EvictionNeedsRace` |
| | `ProbePassesOnItsBond` | `HardwareSpec => PassedKeptBond` |
| `FamilySyncProofs` | `FamilyTyped` | `Spec => []TypeOK` |
| | `ConfirmedRecordsSurvive` | `Spec => []ConfirmedSurvives` |
| | `ConfirmedListsAreLive` | `Spec => []ConfirmedIsLive` |
| | `DurableIsTrue` | `Spec => []DurableWhenTold` |
| | `PullAdoptsTheWatch` | `Spec => []AdoptsTheWatch` |
| | `SessionsAreAtomic` | `Spec => MergesAtomically` |
| `BridgeClientsProofs` | `TypeCorrect` | `Spec => []TypeOK` |
| | `AnswersMatch` | `Spec => []MatchedUntilTrouble` |
| | `AnswersInOrder` | `Spec => []NeverShuffled` |
| | `NotificationsKept` | `Spec => []NotesKept` |
| | `FeedWithholdsNothing` | `Spec => []NothingWithheld` |
| | `ParsersDeliver` | `Spec => ParsesTheStream` |
| `ScenarioSuiteProofs` | `SuiteTyped` | `SuiteSpec => []SuiteTypeOK` |
| | `BondFaultsFound` | `SuiteSpec => []BondsDetect` |
| | `LinkFaultsFound` | `SuiteSpec => []LinkDetects` |
| | `RadioFaultsFound` | `SuiteSpec => []RadioDetects` |
| | `SoundWatchPasses` | `SuiteSpec => []SuiteNoFalseAlarm` |

### Assumptions

Constants are arbitrary sets and numbers but for what the code or the encoding needs:
`SimulatorAssumption`, `PortsAssumption` and `FamilyWatch`'s `WatchAssumption` say that
the markers for "none" are none of the values they stand beside. `HeadlessAssumption`,
`RunnerAssumption`, `SyncAssumption` and `WindowsAssumption` give the ranges of options
and bounds (an observation has at least one window). `PlanAssumption` is what
`load_acceptance_plan` validates before a run, and that a peer is either a phone or a
Linux adapter; `Acceptance`'s `WatchAssumption`, that companions outside the plan are
none of its peers.
`ClientsAssumption` says that the sizes which the bridge sends fit the two bytes of its
header; `PayloadAssumption` and `LineAssumption`, that the limits are numbers and a line
may have at least one byte. `BondAssumption` says that the number of faults of one watch
is a number.

### SimCommands

`Tracked` is not inductive: a command in the middle of a stop is about to
unlink the file, and nothing in `Tracked` says that it has dealt with what the file
names. The strengthening `IInv` rests on one observation: a process enters `clean` only
while its writer is alone, so every other command that is active later began after the
record was complete. Such a command has either found that process in the file and
still holds it in `refs` (`HeldInv`), or has already sent it SIGKILL, or has not come
to the point where it could unlink the file (`ChargeInv`). `AloneInv` ties the history
variable to the program counters, `LinkedInv` says whose descriptor may still be the
file, `CleanExists` that members of `clean` are alive, `GraceInv` that what a
terminate call is waiting for was sent SIGTERM, `LocalsInv` what each label implies
for the locals, and `DoneInv` what an ended call has left behind.

### ScenarioRunner

`StoppedUnlessCut` needs to know at every point of every call who could still stop a
living process: `Holds` names, by label, the locals and files from which the process
will be found, and `HeldInv` says that they cover everything alive. `FileInv` makes
`state.json` trustworthy between two steps of a call (only the call itself changes it;
nothing but an exception from outside leaves it torn), `PhaseInv` ties `stage` to the
call in progress. `FiredInv` is the one about the deadline: once it has fired, no
label is reachable from which the run could pass, so that `VerdictInv` holds when the
verdict is written. `TimerInv` confines the armed timer to the scenario function for
runs without Ctrl-C; with a Ctrl-C in the wrong place nothing of that kind is true.

### Ports

A start meets its own simulator because a port that was handed out once has only one
run that could listen on it. `PlacedInv` says when a run has its ports, `ListenerInv`
that whoever listens on a port, or is still to bind it, belongs to a run that was given
it, `SoleInv` that at most one simulator of a run is alive without having been sent
SIGKILL, that of its latest start, and none when the next is spawned, and `FutureInv`
that later ones do not run yet.

### Hardware

The acceptance run and the two observations are proved separately and joined in
`HardwareInv`. `FilesInv` and `StagedInv` say that the temporary sibling holds what is
about to be saved, so that the replacement is the moment at which evidence appears;
`RunInv`, `UnderwayInv` and `ReadingsInv` say what is already done where a run stands.
`EarnedInv` and `VerdictInv` are what a verdict rests on, `NoVerdictInv` that the disk
holds none before an observation is over, `UncoveredInv` that a save outside the `try`
block is one of the three that `FailureRecorded` excepts, `GateInv` that nothing is
probed behind a gate that was not seen to hold. For the two action properties:
`RaceInv` says that between the public read and the pairing a place is only lost to a
race, and `BondInv` that what the watch dropped is not there to be verified.

### FamilySync

`SessionInv`, `StagedInv` and `CommitInv` say what a session has at each point: what is
staged is the beginning of its list, what is pending is its list, and it commits once.
`StatusInv` is what a status on the watch is worth, `WaitInv` that nothing is committed
behind a session that waits, which together give `DurableWhenTold`. For
`ConfirmedSurvives`, `KeptInv` extends the claim to everything that may become
the watch's list: a confirmed list is the beginning of the live list, of every pending
one, and of whatever a serving session is reading record by record (`Respects`: the
index that the watch has selected may lag behind the list). `PatientInv` says that
without impatience a session has the watch to itself from its digest to its commit
(`Mirrors`); it gives `AdoptsTheWatch` and the refinement.

`SessionsAreAtomic` is the refinement of `FamilyStore`: `MergeStep` (the watch makes a
commit live), `TellStep` (a session ends) and `HiddenStep` (everything else) are what
each step maps to. What a `delete` leaves, the recursive function `Without`, is shown to
be a list of records for every list (`WithoutTyped`) by induction over its length;
`LeastNumber` and `SetInduction` state that induction with a set of numbers, which
first-order provers can use.

### BridgeClients

Each byte knows which item it was written for and its place there, so "the stream" is a
predicate of a sequence of bytes (`Streams`): what follows a byte is the next byte of
its item, what follows the last the first of the next. It is true of
`Ahead == buffer \o wire` in every state, parser errors included, because both
parsers only ever drop from the front.

`feed` is a recursive function of the number of bytes left. Both functions are first
shown to exist (`FramesExist`, `LinesExist`), then everything about them follows by
strong induction (`StrongInduction`, again with a set of numbers) from one turn:
whatever the bytes are, `feed` returns what it cut out of them
(`FramesTyped`, `LinesTyped`); of a stream that begins with an item it returns
the items whose bytes are all there, up to one that raises (`FramesExact`,
`LinesExact`); and of a stream that begins anywhere the line parser's lines are in
order (`LineOrderStep`), which is why `NeverShuffled` excludes the frame parser alone.
`Result` states it with a count: how many of the items to be returned (`Carried`)
lie before a place of the stream.

The connection's invariant `IInv` has, beside `TypeOK` and `NotesKept`: `WireInv` (a
parser that has not raised stands between two items and withholds nothing),
`ServerInv` (requests are served in their order, and answered once), `OrderInv`
(numbers ascend from `answers` over `responses` to what is still ahead), `MatchInv`
(until a call raises, whatever is still to be served, to be parsed or queued as an
answer is for the request in progress) and `ParsedInv` (what has been parsed is the
beginning of `Carried`, whole). A recv is `Took`: what is ahead moves on to some
place, and the queues get what lies before it. The other actions leave the stream alone
(`Unparsed`) or add one item to its end (`WritesFacts`).

`ParsersDeliver` is the refinement of `Framing`: a write is `Write` (or a stutter, for
an empty line), a recv is `Deliver`, `Break` or, after
an error, `Garbled`, a reconnect `Reopen`.

### ScenarioSuite

That a scenario finds a fault is a statement about its end, and so is not inductive. The
invariant of each scenario says in addition what every check so far has ruled out and
where the watch is if none has failed. TLC tries sets of up to five bond faults;
`BondFaultsFound` holds for all 2^18, since `MaxFaults` is any number.

`BondInv` has `BondFound(k)` (the faults that are ruled out before the k-th phase; the
sixth phase, for one, does not find a dropped CCCD on a watch that writes its snapshot
at every reconnect, which only the seventh rules out, and not if `early`) and `BondPlace(k, x, s)` (the
bonds in their LRU order, the snapshot and the epoch that the next phase relies on;
where that phase begins with a RESET, only what survives one). Below it are lemmas of
what each request makes of any watch with any faults (`ConnectedFacts`, `SettledFacts`,
`RebootedFacts`, `ClearedFacts`), of five-element lists under a touch or an eviction
(`FiveFacts`, `FirstLast`, `NextFive`), and one per phase. `BondStep` is what they have
in common. `BridgeInv` is about the reconnects: a close goes unnoticed no longer than
until the reset, and writes on each reconnect are ruled out unless `early`. Whatever the
bridge's delays are, the watch is one that peer 9 has used last (`ReconnectVisits`), and
a sound one has written nothing (`CalmReconnect`).

`LinkInv` has `LinkHeld` (who has the link, and that a connection which is served is alone
with it), `LinkEarly` and `LinkFound` (what the lines passed have ruled out), and
`LinkSound` (a watch without faults that is given its time). A line may find the
connection served, waiting or dropped, and `Release` may come before any line.

`RadioInv` has `RadioFound` and `RadioPlace` (how many of the injected starts have failed
and when the next retry is due, to the millisecond). `Elapsed`, the virtual clock, is a
recursive function of the milliseconds left: that it exists and satisfies its equation is
proved by strong induction (`ElapsedTurns`), after which `AdvanceStep` computes it one
timer at a time.

### Only model-checked

Liveness (`StopEndsProcess`, `RunEnds`, `EveryCallEnds`, `SessionsEnd`), since it needs
fairness and ENABLED. Every safety property and every refinement that a passing run
checks is also proved. The properties of runs that expect a violation are refuted, so
there is nothing to prove.

## 5. Abstractions and limits

* One SIGTERM round over the groups is one step, and so is one polling turn. The
  members of a group are its leader. The guard against signalling the caller's own
  group never fires, because every spawned process starts a session of its own.
* Processes that are not simulators or X servers are not modelled: a pid recycled to a
  foreign process, or a reboot with a `state.json` left behind. The code cannot tell
  them apart and signals them; no document claims otherwise.
* In `Simulator`, `Validate` and `StartFailed` stand for every way a port can be in the
  way; which listener a probe meets is the module `Ports`. With a display,
  `existing_state_is_healthy` may find a slow X server dead, which is why a live record
  may be judged unhealthy.
* Two open descriptors writing to the same file at once are two whole writes in either
  order; the records have about the same length, but an interleaving of bytes is not
  modelled.
* `rebuild` is a restart behind a compiler run that changes nothing in the model's
  state. Input commands (`tap`, `shot`, ...) change nothing but the simulator's screen.
* Results hold a status, not their other fields; an assertion is its outcome. A
  scenario with no check at all passes, as in the code.
* Sends are whole: a timeout inside `sendall`, after which the server has half a
  request, is not modelled. What a payload or a line says is not modelled, so an answer
  that `parse_control_line` rejects is one that was returned.
* After an oversized payload the frame parser takes whatever follows for a header, for
  the rest of the connection; the line parser finds the next newline.
  `NeverShuffled` and `Framing` claim nothing of the former after the error.
* A request to the watch and its answer are one step in `FamilySync`; only the
  connection that is served may ask. Versions and tokens are distinct, as the scripts
  choose them; a 32-bit collision is not modelled, nor are two sessions that push equal
  lists, whose tokens are equal. Records are atoms.
* A `companion-cli.mjs` whose bridge stays connected and never answers waits for ever, as
  does a client of either bridge whose server never stops sending notifications; no
  property claims otherwise.
* The faults in `BondStore`, `LinkAuth` and `RadioPolicy` are this project's reading of
  what each check is there for; a fault that no check is about is not among them.

* On the watch one central is connected at a time; an eviction counter is left out (only
  a reset lowers it, and `reset_epoch` is compared). Radio errors are one disjunct per
  call. The operator says PASS only for a phone that the watch retains.
* ADB command lines and the battery preflight's numbers are not modelled.

Not modelled, and why: workspace discovery, the protocol generator check, the shell
scripts and the navigation helpers are straight-line I/O without state of their own;
the byte layouts in `wire.py` and `generated/` are data; `allocate_display` only serves
interactive commands; the DFU scenario and the regression scenario run another program
or repeat the requests of the other scenarios.

## 6. Plan

What is left, in this order:

1. Lemmas that several proof modules state alike (`LeastNumber`, `StrongInduction`,
   `SetInduction`) in one module of their own.
2. `companion-cli.mjs` reads its connection without telling notifications from
   responses (`:32`); a third protocol of `BridgeClients`. The DFU scenario.
3. Two overlapping starts (`sim.py:450`), once the code has a lock to be modelled.
