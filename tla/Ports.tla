---------------------------------- MODULE Ports ----------------------------------
(***************************************************************************)
(* The TCP ports of concurrent runs.  allocate_tcp_port binds port 0 and    *)
(* closes the socket again; the number is the run's until its simulator     *)
(* binds it only by luck.  start believes that its simulator is ready when *)
(* something accepts on the control port while its child is alive.  Nobody *)
(* waits for a child that was sent SIGKILL: by kill, by stop or a failed    *)
(* start once the grace after SIGTERM is over.                              *)
(***************************************************************************)
EXTENDS Naturals

CONSTANTS
    Run,         \* processes that start simulators
    Port,        \* ephemeral ports
    NoPort,      \* not yet allocated
    Free,        \* no listener
    MaxStarts    \* bound: starts of one run on its ports

ASSUME PortsAssumption ==
    /\ NoPort \notin Port
    /\ Free \notin Run \X (1..MaxStarts)
    /\ MaxStarts \in Nat \ {0}

Proc == Run \X (1..MaxStarts)

VARIABLES
    at,        \* where a run is
    bridge,    \* its bridge_port
    control,   \* its ble_control_port
    starts,    \* how many simulators it has spawned
    proc,      \* simulators: none, running, killed (SIGKILL is pending), gone
    todo,      \* the ports that a simulator has yet to bind
    holder,    \* the listener on a port
    answered,  \* the listener that the readiness probe met
    killed     \* history: simulators that were sent SIGKILL

vars == <<at, bridge, control, starts, proc, todo, holder, answered, killed>>

Current(r) == <<r, starts[r]>>

TypeOK ==
    /\ at \in [Run -> {"new", "bridge", "ports", "starting", "probed", "ready",
                       "stopping", "stopped", "failed"}]
    /\ bridge \in [Run -> Port \cup {NoPort}]
    /\ control \in [Run -> Port \cup {NoPort}]
    /\ \A r \in Run : control[r] # NoPort => control[r] # bridge[r]
    /\ starts \in [Run -> 0..MaxStarts]
    /\ proc \in [Proc -> {"none", "running", "killed", "gone"}]
    /\ todo \in [Proc -> SUBSET Port]
    /\ holder \in [Port -> Proc \cup {Free}]
    /\ \A p \in Port : holder[p] # Free => proc[holder[p]] \in {"running", "killed"}
    /\ answered \in [Run -> Proc \cup {Free}]
    /\ killed \subseteq Proc

Init ==
    /\ at = [r \in Run |-> "new"]
    /\ bridge = [r \in Run |-> NoPort]
    /\ control = [r \in Run |-> NoPort]
    /\ starts = [r \in Run |-> 0]
    /\ proc = [x \in Proc |-> "none"]
    /\ todo = [x \in Proc |-> {}]
    /\ holder = [p \in Port |-> Free]
    /\ answered = [r \in Run |-> Free]
    /\ killed = {}

Goto(r, l) == at' = [at EXCEPT ![r] = l]
Unbound == {p \in Port : holder[p] = Free}

\* A process ends: its listeners are closed with it.
Ends(x) ==
    /\ proc' = [proc EXCEPT ![x] = "gone"]
    /\ todo' = [todo EXCEPT ![x] = {}]
    /\ holder' = [p \in Port |-> IF holder[p] = x THEN Free ELSE holder[p]]

-----------------------------------------------------------------------------
(* Simulator.start, stop and kill.                                          *)

\* allocate_tcp_port: a port that is free just now.
AllocateBridge(r) ==
    /\ at[r] = "new"
    /\ \E p \in Unbound : bridge' = [bridge EXCEPT ![r] = p]
    /\ Goto(r, "bridge")
    /\ UNCHANGED <<control, starts, proc, todo, holder, answered, killed>>

\* Seeded fault: the two ports are not compared.
AllocateControl_Any(r) ==
    /\ at[r] = "bridge"
    /\ \E p \in Unbound : control' = [control EXCEPT ![r] = p]
    /\ Goto(r, "ports")
    /\ UNCHANGED <<bridge, starts, proc, todo, holder, answered, killed>>

AllocateControl(r) ==
    /\ at[r] = "bridge"
    /\ \E p \in Unbound \ {bridge[r]} : control' = [control EXCEPT ![r] = p]
    /\ Goto(r, "ports")
    /\ UNCHANGED <<bridge, starts, proc, todo, holder, answered, killed>>

\* SIGKILL is sent to a simulator that has not ended, and not waited for.
SigKill(x) ==
    /\ proc' = [proc EXCEPT ![x] = IF @ = "running" THEN "killed" ELSE @]
    /\ todo' = [todo EXCEPT ![x] = {}]
    /\ killed' = IF proc[x] = "running" THEN killed \cup {x} ELSE killed

\* The first start, or one on the ports of the last, which may have failed.
Spawn(r) ==
    /\ at[r] \in {"ports", "stopped", "failed"}
    /\ starts[r] < MaxStarts
    /\ starts' = [starts EXCEPT ![r] = @ + 1]
    /\ proc' = [proc EXCEPT ![<<r, starts[r] + 1>>] = "running"]
    /\ todo' = [todo EXCEPT ![<<r, starts[r] + 1>>] = {bridge[r], control[r]}]
    /\ Goto(r, "starting")
    /\ UNCHANGED <<bridge, control, holder, answered, killed>>

\* wait_for_tcp_listener: something accepts on the control port.
Probe(r) ==
    /\ at[r] = "starting"
    /\ proc[Current(r)] = "running"
    /\ holder[control[r]] # Free
    /\ answered' = [answered EXCEPT ![r] = holder[control[r]]]
    /\ Goto(r, "probed")
    /\ UNCHANGED <<bridge, control, starts, proc, todo, holder, killed>>

\* The child is looked at once more after the probe.
Ready(r) ==
    /\ at[r] = "probed"
    /\ proc[Current(r)] = "running"
    /\ Goto(r, "ready")
    /\ UNCHANGED <<bridge, control, starts, proc, todo, holder, answered, killed>>

\* The child has exited, or nothing accepted in time; what has not ended by
\* SIGTERM within a second is sent SIGKILL.
StartFails(r) ==
    /\ \/ at[r] = "starting"
       \/ at[r] = "probed" /\ proc[Current(r)] = "gone"
    /\ SigKill(Current(r))
    /\ Goto(r, "failed")
    /\ UNCHANGED <<bridge, control, starts, holder, answered>>

\* SIGTERM; the simulator may end from now on.
Stop(r) ==
    /\ at[r] = "ready"
    /\ Goto(r, "stopping")
    /\ UNCHANGED <<bridge, control, starts, proc, todo, holder, answered, killed>>

\* Seeded fault: stop returns as soon as it has sent its first signal.
StopReturns_AtOnce(r) ==
    /\ at[r] = "stopping"
    /\ Goto(r, "stopped")
    /\ UNCHANGED <<bridge, control, starts, proc, todo, holder, answered, killed>>

\* terminate_process_groups: it has ended, or the grace is over.
StopReturns(r) ==
    /\ at[r] = "stopping"
    /\ SigKill(Current(r))
    /\ Goto(r, "stopped")
    /\ UNCHANGED <<bridge, control, starts, holder, answered>>

Kill(r) ==
    /\ at[r] = "ready"
    /\ SigKill(Current(r))
    /\ Goto(r, "stopped")
    /\ UNCHANGED <<bridge, control, starts, holder, answered>>

-----------------------------------------------------------------------------
(* The simulators and the kernel.                                            *)

\* A bind that fails ends the simulator, or leaves it without this listener.
Bind(x, p) ==
    /\ proc[x] = "running"
    /\ p \in todo[x]
    /\ \/ /\ holder' = IF holder[p] = Free THEN [holder EXCEPT ![p] = x] ELSE holder
          /\ todo' = [todo EXCEPT ![x] = @ \ {p}]
          /\ UNCHANGED proc
       \/ holder[p] # Free /\ Ends(x)
    /\ UNCHANGED <<at, bridge, control, starts, answered, killed>>

\* A crash, or a signal takes effect.
Dies(x) ==
    /\ proc[x] \in {"running", "killed"}
    /\ Ends(x)
    /\ UNCHANGED <<at, bridge, control, starts, answered, killed>>

Command(r) ==
    \/ AllocateBridge(r) \/ AllocateControl(r) \/ Spawn(r) \/ Probe(r) \/ Ready(r)
    \/ StartFails(r) \/ Stop(r) \/ StopReturns(r) \/ Kill(r)

Next ==
    \/ \E r \in Run : Command(r)
    \/ \E x \in Proc : Dies(x) \/ \E p \in Port : Bind(x, p)

Spec == Init /\ [][Next]_vars

-----------------------------------------------------------------------------
(* Properties.                                                              *)

PortsOf(r) == {bridge[r], control[r]} \ {NoPort}

\* A start that returns has met its own simulator, not the one before it on the
\* same ports and not a stranger's, unless another run was given one of its ports
\* or what it met was sent SIGKILL, by kill or because it outlived the grace of
\* stop or of a failed start, and was not waited for.
MetItsOwn ==
    \A r \in Run :
        at[r] \in {"probed", "ready"} /\ answered[r] # Current(r) =>
            answered[r] \in killed \/ \E s \in Run \ {r} : PortsOf(r) \cap PortsOf(s) # {}

=============================================================================
