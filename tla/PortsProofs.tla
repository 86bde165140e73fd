------------------------------- MODULE PortsProofs -------------------------------
(***************************************************************************)
(* A start meets its own simulator, for any number of runs, of ports and   *)
(* of starts.                                                               *)
(***************************************************************************)
EXTENDS Ports, TLAPS

Placed == {"ports", "starting", "probed", "ready", "stopping", "stopped", "failed"}

\* A run is given its two ports before it spawns anything, and keeps them.
PlacedInv ==
    \A r \in Run :
        /\ at[r] = "new" => bridge[r] = NoPort
        /\ at[r] \in {"new", "bridge"} => control[r] = NoPort /\ starts[r] = 0
        /\ at[r] = "bridge" => bridge[r] \in Port
        /\ at[r] \in Placed => bridge[r] \in Port /\ control[r] \in Port
        /\ at[r] \in Placed \ {"ports"} => starts[r] \in 1..MaxStarts

\* Who listens on a port, or is still to bind it, belongs to a run that was given it.
ListenerInv ==
    \A x \in Proc :
        /\ todo[x] \subseteq PortsOf(x[1])
        /\ \A p \in Port : holder[p] = x => p \in PortsOf(x[1])

\* At most one simulator of a run has not been sent SIGKILL, that of its last
\* start, and none when the next one is spawned.
SoleInv ==
    \A r \in Run, k \in 1..MaxStarts :
        /\ proc[<<r, k>>] = "running" =>
              k = starts[r] /\ at[r] \in {"starting", "probed", "ready", "stopping"}
        /\ proc[<<r, k>>] = "killed" => <<r, k>> \in killed

\* Simulators that are still to be spawned do not run yet.
FutureInv ==
    \A r \in Run, k \in 1..MaxStarts : k > starts[r] => proc[<<r, k>>] = "none"

IInv == TypeOK /\ PlacedInv /\ ListenerInv /\ SoleInv /\ FutureInv /\ MetItsOwn

\* Pairs of a run and a number, taken apart.
LEMMA ProcPairs ==
    /\ \A r \in Run, k \in 1..MaxStarts :
          /\ <<r, k>> \in Proc
          /\ <<r, k>>[1] = r
          /\ <<r, k>> # Free
    /\ \A x \in Proc : \E r \in Run, k \in 1..MaxStarts : x = <<r, k>>
    /\ \A r, s \in Run, k, l \in 1..MaxStarts : <<r, k>> = <<s, l>> <=> r = s /\ k = l
  BY PortsAssumption DEF Proc

\* Nothing is allocated, nothing runs.
LEMMA InitIInv == Init => IInv
  BY PortsAssumption, ProcPairs
  DEF Init, IInv, TypeOK, PlacedInv, Placed, ListenerInv, PortsOf, SoleInv, FutureInv, MetItsOwn

\* Every step keeps the state well typed.
LEMMA TypeStep ==
    ASSUME IInv, Next
    PROVE  TypeOK'
<1> USE PortsAssumption, ProcPairs DEF IInv, TypeOK, Goto, Current, Unbound
<1>1. ASSUME NEW r \in Run, AllocateBridge(r) PROVE TypeOK'
  BY <1>1 DEF AllocateBridge, PlacedInv
<1>2. ASSUME NEW r \in Run, AllocateControl(r) PROVE TypeOK'
  BY <1>2 DEF AllocateControl, PlacedInv
<1>3. ASSUME NEW r \in Run, Spawn(r) PROVE TypeOK'
  BY <1>3 DEF Spawn, PlacedInv, Placed, FutureInv
<1>4. ASSUME NEW r \in Run, Probe(r) PROVE TypeOK'
  <2>1. control[r] \in Port
    BY <1>4 DEF Probe, PlacedInv, Placed
  <2> QED
    BY <1>4, <2>1 DEF Probe
<1>5. ASSUME NEW r \in Run, Ready(r) \/ Stop(r) PROVE TypeOK'
  <2>1. /\ \E l \in {"ready", "stopping"} : at' = [at EXCEPT ![r] = l]
        /\ UNCHANGED <<bridge, control, starts, proc, todo, holder, answered, killed>>
    BY <1>5 DEF Ready, Stop
  <2> QED
    BY <2>1
<1>6. ASSUME NEW r \in Run, StartFails(r) \/ StopReturns(r) \/ Kill(r) PROVE TypeOK'
  <2>1. Current(r) \in Proc
    BY <1>6 DEF StartFails, StopReturns, Kill, PlacedInv, Placed
  <2>2. /\ \E l \in {"failed", "stopped"} : at' = [at EXCEPT ![r] = l]
        /\ SigKill(Current(r))
        /\ UNCHANGED <<bridge, control, starts, holder, answered>>
    BY <1>6 DEF StartFails, StopReturns, Kill
  <2> DEFINE x == Current(r)
  <2>3. /\ x \in Proc
        /\ proc' = [proc EXCEPT ![x] = IF @ = "running" THEN "killed" ELSE @]
        /\ todo' = [todo EXCEPT ![x] = {}]
        /\ killed' = IF proc[x] = "running" THEN killed \cup {x} ELSE killed
    BY <2>1, <2>2 DEF SigKill
  <2> HIDE DEF x
  <2>4. \A y \in Proc :
           /\ proc'[y] \in {"none", "running", "killed", "gone"}
           /\ proc[y] \in {"running", "killed"} => proc'[y] \in {"running", "killed"}
    BY <2>3
  <2> QED
    BY <2>2, <2>3, <2>4
<1>7. ASSUME NEW x \in Proc, Dies(x) PROVE TypeOK'
  BY <1>7 DEF Dies, Ends
<1>8. ASSUME NEW x \in Proc, NEW p \in Port, Bind(x, p) PROVE TypeOK'
  <2>1. proc[x] = "running" /\ UNCHANGED <<at, bridge, control, starts, answered, killed>>
    BY <1>8 DEF Bind
  <2>2. CASE Ends(x)
    BY <2>1, <2>2 DEF Ends
  <2>3. CASE /\ holder' = IF holder[p] = Free THEN [holder EXCEPT ![p] = x] ELSE holder
             /\ todo' = [todo EXCEPT ![x] = @ \ {p}]
             /\ UNCHANGED proc
    BY <2>1, <2>3
  <2> QED
    BY <1>8, <2>2, <2>3 DEF Bind
<1> QED
  BY <1>1, <1>2, <1>3, <1>4, <1>5, <1>6, <1>7, <1>8 DEF Next, Command

\* Ports are given once and never taken back.
LEMMA PlacedStep ==
    ASSUME IInv, Next
    PROVE  PlacedInv' /\ \A r \in Run : PortsOf(r) \subseteq PortsOf(r)'
<1> USE PortsAssumption DEF IInv, TypeOK, Goto, Current, Unbound, PlacedInv, Placed, PortsOf
<1>1. ASSUME NEW r \in Run, Command(r)
      PROVE  PlacedInv' /\ \A s \in Run : PortsOf(s) \subseteq PortsOf(s)'
  BY <1>1
  DEF Command, AllocateBridge, AllocateControl, Spawn, Probe, Ready, StartFails, Stop,
      StopReturns, Kill, SigKill
<1>2. ASSUME NEW x \in Proc, Dies(x) \/ \E p \in Port : Bind(x, p)
      PROVE  PlacedInv' /\ \A s \in Run : PortsOf(s) \subseteq PortsOf(s)'
  BY <1>2 DEF Dies, Bind, Ends
<1> QED
  BY <1>1, <1>2 DEF Next

\* A simulator is told the ports of its run and binds no others.
LEMMA ListenerStep ==
    ASSUME IInv, Next
    PROVE  ListenerInv'
<1>1. \A r \in Run : PortsOf(r) \subseteq PortsOf(r)'
  BY PlacedStep
<1> USE PortsAssumption, ProcPairs DEF IInv, TypeOK, Current, ListenerInv
<1>2. ASSUME NEW r \in Run, Spawn(r) PROVE ListenerInv'
  <2>1. {bridge[r], control[r]} \subseteq PortsOf(r)'
    BY <1>2 DEF Spawn, PlacedInv, Placed, PortsOf
  <2> QED
    BY <1>1, <1>2, <2>1 DEF Spawn
<1>3. ASSUME NEW r \in Run, Command(r), ~Spawn(r) PROVE ListenerInv'
  <2>1. CASE StartFails(r) \/ StopReturns(r) \/ Kill(r)
    <3>1. UNCHANGED holder /\ todo' = [todo EXCEPT ![Current(r)] = {}]
      BY <2>1 DEF StartFails, StopReturns, Kill, SigKill
    <3>2. \A x \in Proc : todo'[x] \in {todo[x], {}}
      BY <3>1
    <3> HIDE DEF TypeOK, IInv
    <3> QED
      BY <1>1, <3>1, <3>2 DEF IInv
  <2>2. CASE ~(StartFails(r) \/ StopReturns(r) \/ Kill(r))
    <3>1. UNCHANGED <<holder, todo>>
      BY <1>3, <2>2 DEF Command, AllocateBridge, AllocateControl, Probe, Ready, Stop
    <3> HIDE DEF TypeOK, IInv
    <3> QED
      BY <1>1, <3>1 DEF IInv
  <2> QED
    BY <2>1, <2>2
<1>4. ASSUME NEW x \in Proc, Dies(x) \/ \E p \in Port : Bind(x, p) PROVE ListenerInv'
  <2>1. CASE Ends(x)
    <3>1. /\ \A y \in Proc : todo'[y] \in {todo[y], {}}
          /\ \A p \in Port : holder'[p] \in {holder[p], Free}
      BY <2>1 DEF Ends
    <3> HIDE DEF TypeOK, IInv
    <3> QED
      BY <1>1, <3>1 DEF IInv
  <2>2. ASSUME NEW p \in Port, p \in todo[x],
               holder' = IF holder[p] = Free THEN [holder EXCEPT ![p] = x] ELSE holder,
               todo' = [todo EXCEPT ![x] = @ \ {p}]
        PROVE  ListenerInv'
    <3>1. /\ \A y \in Proc : todo'[y] \subseteq todo[y]
          /\ \A q \in Port : holder'[q] = holder[q] \/ (q = p /\ holder'[q] = x)
          /\ p \in PortsOf(x[1])
      BY <2>2
    <3> HIDE DEF TypeOK, IInv
    <3> QED
      BY <1>1, <3>1 DEF IInv
  <2> QED
    BY <1>4, <2>1, <2>2 DEF Dies, Bind
<1> QED
  BY <1>2, <1>3, <1>4 DEF Next

\* stop, kill and a failed start leave no simulator that was not sent SIGKILL.
LEMMA SoleStep ==
    ASSUME IInv, Next
    PROVE  SoleInv' /\ FutureInv'
<1> USE PortsAssumption, ProcPairs DEF IInv, TypeOK, Goto, Current, SoleInv, FutureInv
<1>1. ASSUME NEW r \in Run, Spawn(r) PROVE SoleInv' /\ FutureInv'
  BY <1>1 DEF Spawn
<1>2. ASSUME NEW r \in Run, StartFails(r) \/ StopReturns(r) \/ Kill(r)
      PROVE  SoleInv' /\ FutureInv'
  <2>1. /\ at[r] \in {"starting", "probed", "ready", "stopping"}
        /\ \E l \in {"failed", "stopped"} : at' = [at EXCEPT ![r] = l]
        /\ SigKill(<<r, starts[r]>>)
        /\ UNCHANGED starts
    BY <1>2 DEF StartFails, StopReturns, Kill
  <2>2. starts[r] \in 1..MaxStarts
    BY <2>1 DEF PlacedInv, Placed
  <2> DEFINE x == <<r, starts[r]>>
  <2>5. /\ x \in Proc
        /\ proc' = [proc EXCEPT ![x] = IF @ = "running" THEN "killed" ELSE @]
        /\ killed' = IF proc[x] = "running" THEN killed \cup {x} ELSE killed
        /\ \A s \in Run, k \in 1..MaxStarts : <<s, k>> = x <=> s = r /\ k = starts[r]
    BY <2>1, <2>2 DEF SigKill
  <2> HIDE DEF x
  <2>6. \A y \in Proc :
           /\ y # x => proc'[y] = proc[y]
           /\ proc'[x] # "running" /\ (proc[x] = "none" => proc'[x] = "none")
           /\ proc'[x] = "killed" /\ proc[x] # "killed" => x \in killed'
           /\ y \in killed => y \in killed'
    BY <2>5
  <2>3. SoleInv'
    <3> SUFFICES ASSUME NEW s \in Run, NEW k \in 1..MaxStarts
                 PROVE  /\ proc'[<<s, k>>] = "running" =>
                              /\ k = starts'[s]
                              /\ at'[s] \in {"starting", "probed", "ready", "stopping"}
                        /\ proc'[<<s, k>>] = "killed" => <<s, k>> \in killed'
      OBVIOUS
    <3> DEFINE y == <<s, k>>
    <3>1. y \in Proc /\ (y = x <=> s = r /\ k = starts[r])
      BY <2>5
    <3>2. CASE y = x
      BY <2>5, <2>6, <3>1, <3>2
    <3>3. CASE y # x
      <4>1. proc'[y] = proc[y] /\ (y \in killed => y \in killed')
        BY <2>6, <3>1, <3>3
      <4>2. proc[y] = "running" => k = starts[s] /\ s # r
        BY <3>1, <3>3
      <4> QED
        BY <2>1, <4>1, <4>2
    <3> QED
      BY <3>2, <3>3
  <2>4. FutureInv'
    BY <2>1, <2>5, <2>6
  <2> QED
    BY <2>3, <2>4
<1>4. ASSUME NEW r \in Run,
             AllocateBridge(r) \/ AllocateControl(r) \/ Probe(r) \/ Ready(r) \/ Stop(r)
      PROVE  SoleInv' /\ FutureInv'
  <2>1. /\ \E l \in {"bridge", "ports", "probed", "ready", "stopping"} :
              /\ l \in {"bridge", "ports"} => at[r] \in {"new", "bridge"}
              /\ at' = [at EXCEPT ![r] = l]
        /\ UNCHANGED <<starts, proc, killed>>
    BY <1>4 DEF AllocateBridge, AllocateControl, Probe, Ready, Stop
  <2>4. \A k \in 1..MaxStarts : at[r] \in {"new", "bridge"} => proc[<<r, k>>] # "running"
    OBVIOUS
  <2>5. at[r] \in {"new", "bridge"} \/
           (at[r] \in {"starting", "probed", "ready"} /\ at'[r] \in {"probed", "ready", "stopping"})
    BY <1>4 DEF AllocateBridge, AllocateControl, Probe, Ready, Stop
  <2>6. /\ \A s \in Run \ {r} : at'[s] = at[s]
        /\ \A s \in Run, k \in 1..MaxStarts :
              /\ proc'[<<s, k>>] = proc[<<s, k>>] /\ starts'[s] = starts[s]
              /\ <<s, k>> \in killed' <=> <<s, k>> \in killed
    BY <2>1
  <2>2. SoleInv'
    <3> SUFFICES ASSUME NEW s \in Run, NEW k \in 1..MaxStarts
                 PROVE  /\ proc'[<<s, k>>] = "running" =>
                              /\ k = starts'[s]
                              /\ at'[s] \in {"starting", "probed", "ready", "stopping"}
                        /\ proc'[<<s, k>>] = "killed" => <<s, k>> \in killed'
      OBVIOUS
    <3>1. CASE s = r
      BY <2>4, <2>5, <2>6, <3>1
    <3>2. CASE s # r
      BY <2>6, <3>2
    <3> QED
      BY <3>1, <3>2
  <2>3. FutureInv'
    BY <2>1
  <2> QED
    BY <2>2, <2>3
<1>5. ASSUME NEW x \in Proc, Dies(x) \/ \E p \in Port : Bind(x, p)
      PROVE  SoleInv' /\ FutureInv'
  BY <1>5 DEF Dies, Bind, Ends
<1> QED
  BY <1>1, <1>2, <1>4, <1>5 DEF Next, Command

\* The listener that a probe meets runs, on the run's control port: it is the
\* run's current simulator, or it was sent SIGKILL, or another run was given that
\* port.
LEMMA MetStep ==
    ASSUME IInv, Next
    PROVE  MetItsOwn'
<1>1. \A r \in Run : PortsOf(r) \subseteq PortsOf(r)'
  BY PlacedStep
<1> USE DEF MetItsOwn
<1>2. ASSUME NEW r \in Run, Probe(r) PROVE MetItsOwn'
  <2> DEFINE x == holder[control[r]]
  <2>1. x \in Proc /\ control[r] \in Port /\ proc[x] \in {"running", "killed"}
    BY <1>2 DEF Probe, IInv, TypeOK, PlacedInv, Placed
  <2>2. control[r] \in PortsOf(x[1]) /\ control[r] \in PortsOf(r)
    BY <2>1, PortsAssumption DEF IInv, ListenerInv, PortsOf
  <2>3. x[1] \in Run
    BY <2>1, ProcPairs
  <2>4. x[1] # r => \E s \in Run \ {r} : PortsOf(r) \cap PortsOf(s) # {}
    BY <2>2, <2>3
  <2>5. x[1] = r => x = Current(r) \/ x \in killed
    BY <2>1, ProcPairs DEF IInv, SoleInv, Current
  <2>6. answered'[r] = x /\ \A s \in Run \ {r} : answered'[s] = answered[s] /\ at'[s] = at[s]
    BY <1>2 DEF Probe, Goto, IInv, TypeOK
  <2>7. UNCHANGED <<starts, killed>>
    BY <1>2 DEF Probe
  <2> QED
    BY <1>1, <2>4, <2>5, <2>6, <2>7 DEF IInv, Current
<1>3. ASSUME NEW r \in Run, Command(r), ~Probe(r) PROVE MetItsOwn'
  BY <1>1, <1>3
  DEF Command, AllocateBridge, AllocateControl, Spawn, Ready, StartFails, Stop,
      StopReturns, Kill, SigKill, Goto, IInv, TypeOK, Current
<1>4. ASSUME NEW x \in Proc, Dies(x) \/ \E p \in Port : Bind(x, p) PROVE MetItsOwn'
  BY <1>1, <1>4 DEF Dies, Bind, Ends, IInv, Current
<1> QED
  BY <1>2, <1>3, <1>4 DEF Next

LEMMA Invariance == Spec => []IInv
<1>1. IInv /\ [Next]_vars => IInv'
  <2> SUFFICES ASSUME IInv, [Next]_vars PROVE IInv'
    OBVIOUS
  <2>1. CASE Next
    BY <2>1, TypeStep, PlacedStep, ListenerStep, SoleStep, MetStep DEF IInv
  <2>2. CASE UNCHANGED vars
    <3> USE <2>2 DEF vars, IInv
    <3>1. TypeOK'
      BY DEF TypeOK
    <3>2. PlacedInv'
      BY DEF PlacedInv
    <3>3. ListenerInv' /\ MetItsOwn'
      BY DEF ListenerInv, MetItsOwn, PortsOf, Current
    <3>4. SoleInv' /\ FutureInv'
      BY DEF SoleInv, FutureInv
    <3> QED
      BY <3>1, <3>2, <3>3, <3>4
  <2> QED
    BY <2>1, <2>2
<1> QED
  BY <1>1, InitIInv, PTL DEF Spec

-----------------------------------------------------------------------------

\* The state is well typed: no port has a listener that is not running, and the two
\* ports of a run differ.
THEOREM PortsTyped == Spec => []TypeOK
  BY Invariance, PTL DEF IInv

\* For any number of runs that start at once, stop, kill and start again, a start
\* that returns has met its own simulator, unless another run was given one of
\* its ports or what it met was sent SIGKILL, by kill, stop or a failed start, none
\* of which waits for the process after that.
THEOREM StartMeetsItsOwn == Spec => []MetItsOwn
  BY Invariance, PTL DEF IInv

=============================================================================
