------------------------------- MODULE RadioPolicy -------------------------------
(***************************************************************************)
(* The scenario radio_policy: the virtual watch's advertising against a     *)
(* virtual clock, to the millisecond, and its way from a connection into   *)
(* beacon mode, for which the scenario waits in real time.  A watch may     *)
(* have any of the faults below; a phase is one action, as in BondScenarios. *)
(***************************************************************************)
EXTENDS Naturals, Sequences

VARIABLES
    faults,    \* what is wrong with this watch
    at,        \* the next phase
    radio,     \* the watch as QUERY shows it, and its virtual timer
    failed,    \* the checks that failed
    hurried    \* history: the watch needed longer than the scenario waits

vars == <<faults, at, radio, failed, hurried>>

Fault ==
    {"stays fast", "starts twice", "never stops", "claims to be on",
     "retries early", "retries late", "never backs off", "gives up",
     "retries into slow", "ignores beacon", "keeps link", "writes the key",
     "writes at once", "never writes", "refuses beacon"}
Has(f) == f \in faults

Radio == [actual : {"Off", "Fast", "Slow", "Beacon"}, timer : Nat, failures : Nat,
          injected : 0..4, starts : Nat, stops : Nat, terminates : Nat,
          link : BOOLEAN, dirty : BOOLEAN, writes : Nat]

Phases == <<"slow", "retry", "backoff", "delay 1", "delay 2", "delay 3", "delay 4",
            "recover", "beacon", "settle", "done">>

\* The checks, of which some are made in several phases.
Check == {"begins fast", "slow", "one stop", "one start", "off", "waits", "fast",
          "fires once", "recovers", "accepted", "link down", "beacon", "terminated",
          "no bond writes", "one bond write"}

FastTime == 30000
Delays == <<250, 1000, 4000, 60000>>
Minute == 60000

TypeOK ==
    /\ faults \subseteq Fault
    /\ at \in 1..Len(Phases)
    /\ radio \in Radio /\ radio.timer <= Delays[Len(Delays)] + 1
    /\ failed \subseteq (1..Len(Phases)) \X Check
    /\ hurried \in BOOLEAN

Booted ==
    [actual |-> "Fast", timer |-> FastTime, failures |-> 0, injected |-> 0,
     starts |-> 1, stops |-> 0, terminates |-> 0, link |-> FALSE, dirty |-> FALSE,
     writes |-> 0]

Init ==
    /\ faults \in SUBSET Fault
    /\ at = 1 /\ radio = Booted /\ failed = {} /\ hurried = FALSE

-----------------------------------------------------------------------------
(* The watch (InfiniTime) and its virtual clock (InfiniSim).                 *)

\* The time until the k-th retry.
Delay(k) ==
    LET due == IF Has("never backs off") THEN Delays[1]
               ELSE Delays[IF k < Len(Delays) THEN k ELSE Len(Delays)]
    IN  IF Has("retries early") THEN due - 1
        ELSE IF Has("retries late") THEN due + 1 ELSE due

\* A GAP start, which fails as long as failures are injected.
Started(x, mode) ==
    LET more == IF mode = "Slow" /\ Has("starts twice") THEN 2 ELSE 1
    IN  IF x.injected > 0
        THEN [x EXCEPT !.starts = @ + more, !.injected = @ - 1, !.failures = @ + 1,
                       !.actual = IF Has("claims to be on") THEN mode ELSE "Off",
                       !.timer = IF Has("gives up") THEN 0 ELSE Delay(x.failures + 1)]
        ELSE [x EXCEPT !.starts = @ + more, !.failures = 0, !.actual = mode,
                       !.timer = IF mode = "Fast" THEN FastTime ELSE 0]

\* The virtual timer has run out.
Due(x) ==
    IF x.failures > 0
    THEN Started(x, IF Has("retries into slow") THEN "Slow" ELSE "Fast")
    ELSE IF Has("stays fast") THEN [x EXCEPT !.timer = FastTime]
    ELSE Started([x EXCEPT !.stops = @ + IF Has("never stops") THEN 0 ELSE 1], "Slow")

\* ADVANCE: everything that is due, in order.
Elapsed[left \in Nat] ==
    [x \in Radio |->
        IF x.timer = 0 THEN x
        ELSE IF left < x.timer THEN [x EXCEPT !.timer = @ - left]
        ELSE Elapsed[left - x.timer][Due(x)]]

Advance(x, n) == Elapsed[n][x]

\* RESET, then as many failing starts.
Reset(x, failures) == [Booted EXCEPT !.injected = failures, !.writes = x.writes]

\* A connected peer has paired, provisioned the beacon key and asked for beacon
\* mode; prompt if the link is down and the radio has changed in time.
Beaconing(x, prompt) ==
    [x EXCEPT !.timer = 0,
              !.dirty = TRUE,
              !.writes = @ + (IF Has("writes the key") THEN 1 ELSE 0)
                           + (IF Has("writes at once") THEN 1 ELSE 0),
              !.actual = IF prompt /\ ~Has("ignores beacon") THEN "Beacon" ELSE @,
              !.terminates = @ + IF prompt /\ ~Has("ignores beacon") /\ ~Has("keeps link")
                                 THEN 1 ELSE 0,
              !.link = ~prompt]

\* ADVANCE by the settling time once the link is down.
Settled(x) ==
    IF x.link \/ ~x.dirty THEN x
    ELSE [x EXCEPT !.dirty = FALSE,
                   !.writes = @ + IF Has("never writes") \/ Has("writes at once") THEN 0 ELSE 1]

-----------------------------------------------------------------------------
(* The scenario.                                                             *)

Phase(name, x, checks) ==
    /\ Phases[at] = name
    /\ at' = at + 1
    /\ radio' = x
    /\ failed' = failed \cup {<<at, c[1]>> : c \in {d \in checks : ~d[2]}}
    /\ UNCHANGED faults

TurnsSlow ==
    LET x == Advance(radio, FastTime)
    IN  /\ Phase("slow", x,
                 {<<"begins fast", radio.actual = "Fast">>,
                  <<"slow", x.actual = "Slow">>,
                  <<"one stop", x.stops = radio.stops + 1>>,
                  <<"one start", x.starts = radio.starts + 1>>})
        /\ UNCHANGED hurried

RetriesOnce ==
    LET y == Advance(Reset(radio, 1), FastTime)
        z == Advance(y, Delays[1] - 1)
        x == Advance(z, 1)
    IN  /\ Phase("retry", x,
                 {<<"off", y.actual = "Off">>,
                  <<"waits", z.starts = y.starts>>,
                  <<"fast", x.actual = "Fast">>})
        /\ UNCHANGED hurried

FailsFourTimes ==
    /\ Phase("backoff", Advance(Reset(radio, 4), FastTime), {})
    /\ UNCHANGED hurried

Retries(k) ==
    LET y == Advance(radio, Delays[k] - 1)
        x == Advance(y, 1)
    IN  /\ Phase(Phases[k + 3], x,
                 {<<"waits", y.starts = radio.starts>>,
                  <<"fires once", x.starts = radio.starts + 1>>})
        /\ UNCHANGED hurried

Recovers ==
    LET x == Advance(radio, Minute)
    IN  /\ Phase("recover", x, {<<"recovers", x.actual \in {"Fast", "Slow"}>>})
        /\ UNCHANGED hurried

\* Seeded fault: the link being down is taken for the watch's doing.
TurnsBeacon_ByLink ==
    \E prompt \in BOOLEAN :
        LET x == Beaconing(radio, prompt)
        IN  /\ ~Has("refuses beacon")
            /\ Phase("beacon", x,
                     {<<"link down", ~x.link>>,
                      <<"beacon", x.actual = "Beacon">>,
                      <<"no bond writes", x.writes = radio.writes>>})
            /\ hurried' = ~prompt

\* The connection is closed after a sleep, which takes the link down whether the
\* watch does so or not; QUERY may come before either is done.
TurnsBeacon ==
    \E prompt \in BOOLEAN :
        LET x == Beaconing(radio, prompt)
        IN  /\ ~Has("refuses beacon")
            /\ Phase("beacon", x,
                     {<<"link down", ~x.link>>,
                      <<"beacon", x.actual = "Beacon">>,
                      <<"terminated", x.terminates >= 1>>,
                      <<"no bond writes", x.writes = radio.writes>>})
            /\ hurried' = ~prompt

\* The key or beacon mode is refused, or the key's commit takes longer than five
\* seconds: an exception, and none of the checks that follow are made.
BeaconRaises ==
    \E slow \in BOOLEAN :
        /\ slow \/ Has("refuses beacon")
        /\ Phases[at] = "beacon"
        /\ at' = Len(Phases)
        /\ failed' = failed \cup {<<at, "accepted">>}
        /\ hurried' = slow
        /\ UNCHANGED <<faults, radio>>

Settles ==
    LET x == Settled(radio)
    IN  /\ Phase("settle", x, {<<"one bond write", x.writes = Booted.writes + 1>>})
        /\ UNCHANGED hurried

Next ==
    \/ TurnsSlow \/ RetriesOnce \/ FailsFourTimes
    \/ \E k \in DOMAIN Delays : Retries(k)
    \/ Recovers \/ TurnsBeacon \/ BeaconRaises \/ Settles

Spec == Init /\ [][Next]_vars

-----------------------------------------------------------------------------
(* Properties.                                                              *)

\* A radio_policy that passes has found every fault, off by a millisecond or not,
\* in every combination.
Detects == Phases[at] = "done" /\ failed = {} => faults = {}

\* Of watches without faults only one slower than the scenario waits fails a check.
NoFalseAlarm == faults = {} /\ ~hurried => failed = {}

=============================================================================
