------------------------------ MODULE BondScenarios ------------------------------
(***************************************************************************)
(* The scenarios bond_lifecycle and persistence_faults, run one after the   *)
(* other on a watch with an arbitrary set of faults: does the suite find    *)
(* what it is there to find, and nothing else?  A phase is one action: the *)
(* commands up to the next query, and the checks made of the answer.  The   *)
(* commands of BLE control are carried out in order; the bridge notices the *)
(* end of a GATT connection in its own time, as in LinkAuth.                *)
(***************************************************************************)
EXTENDS BondStore

VARIABLES
    at,       \* the next phase
    w,        \* the watch's bonds
    seen,     \* what the scenario remembers of an earlier answer
    failed,   \* the checks that failed
    occupied, \* the bridge has not noticed that a connection was closed
    hurried,  \* history: a connection was asked for while it was occupied
    early     \* history: each ADVANCE after a reconnect came before its link was down

bridge == <<occupied, hurried, early>>
vars == <<faults, at, w, seen, failed, bridge>>

Phases == <<"fresh", "five", "reboot", "lru", "replace", "cccd", "reconnect", "reset",
            "write failure", "read failure",
            "BEFORE_REPLACE", "AFTER_PARTIAL_STAGED_WRITE", "AFTER_STAGED_WRITE",
            "promote", "invalid", "recover", "done">>

TypeOK ==
    /\ faults \subseteq Fault /\ Cardinality(faults) <= MaxFaults
    /\ at \in 1..Len(Phases)
    /\ w \in Bonds /\ seen \in File
    /\ w.inject = "NONE" /\ w.cut = "NONE"
    /\ \A i, j \in DOMAIN w.bonds : i # j => w.bonds[i] # w.bonds[j]
    /\ occupied \in BOOLEAN /\ hurried \in BOOLEAN /\ early \in BOOLEAN
    /\ occupied => Phases[at] = "reset"

Init ==
    /\ faults \in UNION {kSubset(k, Fault) : k \in 0..MaxFaults}
    /\ at = 1 /\ w = Fresh /\ seen = None /\ failed = {}
    /\ occupied = FALSE /\ hurried = FALSE /\ early = FALSE

-----------------------------------------------------------------------------

\* _connect_and_disconnect: a link of its own, then the settling time.
\* Seeded fault: nobody waits for the settling time.
Visit_Hasty(x, p, replace) == Connected(x, p, replace)

Visit(x, p, replace) == Settled(Connected(x, p, replace))

Visits(x, p, q) == Visit(Visit(x, p, FALSE), q, FALSE)

Inject(x, failure) == [x EXCEPT !.inject = failure]
Cut(x, point) == [x EXCEPT !.cut = point]

\* The phase leaves the watch at x; context.check records and goes on.
Phase(name, x, checks) ==
    /\ Phases[at] = name
    /\ at' = at + 1
    /\ w' = x
    /\ failed' = failed \cup {c[1] : c \in {d \in checks : ~d[2]}}
    /\ UNCHANGED faults

Has(x, p) == p \in Retained(x)

FreshStore ==
    /\ Phase("fresh", w,
             {<<"initializes empty", w.boot = "initialized_empty">>,
              <<"no peers", Retained(w) = {}>>})
    /\ UNCHANGED <<seen, bridge>>

FivePeers ==
    LET x == Visit(Visits(Visits(w, 1, 2), 3, 4), 5, FALSE)
    IN  /\ Phase("five", x, {<<"five retained", Retained(x) = 1..5>>})
        /\ UNCHANGED <<seen, bridge>>

Restores ==
    LET x == Rebooted(w)
    IN  /\ Phase("reboot", x,
                 {<<"restores", x.boot = "restored">>,
                  <<"restores all five", Cardinality(Retained(x)) = 5>>})
        /\ UNCHANGED <<seen, bridge>>

EvictsOldest ==
    LET x == Visits(w, 1, 6)
    IN  /\ Phase("lru", x,
                 {<<"one eviction", x.evictions = 1>>,
                  <<"touched survives", Has(x, 1)>>,
                  <<"new survives", Has(x, 6)>>,
                  <<"oldest evicted", ~Has(x, 2)>>})
        /\ UNCHANGED <<seen, bridge>>

Replaces ==
    LET x == Visit(Visit(w, 6, FALSE), 1, TRUE)
    IN  /\ Phase("replace", x,
                 {<<"capacity kept", Cardinality(Retained(x)) = 5>>,
                  <<"no further eviction", x.evictions = 1>>})
        /\ UNCHANGED <<seen, bridge>>

\* Seeded fault: the answer is taken from memory only.
KeepsCccd_NoReboot ==
    LET y == Settled(Subscribed(Connected(w, 1, FALSE), 1))
    IN  /\ Phase("cccd", y, {<<"cccd persisted", Cardinality(y.cccds) = 1>>})
        /\ UNCHANGED <<seen, bridge>>

KeepsCccd ==
    LET y == Settled(Subscribed(Connected(w, 1, FALSE), 1))
        x == Rebooted(y)
    IN  /\ Phase("cccd", x,
                 {<<"cccd persisted", Cardinality(y.cccds) = 1>>,
                  <<"cccd restored", Cardinality(x.cccds) = 1>>})
        /\ UNCHANGED <<seen, bridge>>

\* When the bridge notices that a connection was closed: before the ADVANCE that
\* follows it, before the next connection, or only after that one heard BUSY.
Notices == {"advance", "connection", "later"}

\* A battery read over GATT: whether it is served, and the watch after ADVANCE.
Reconnect(x, busy, noticed) ==
    LET y == IF busy THEN x ELSE Connected(x, 9, FALSE)
    IN  IF noticed = "advance" THEN Settled(y) ELSE y

\* The battery reads of a companion that reconnects.
ReconnectsSilently ==
    \E n \in [1..3 -> Notices] :
        LET v == Visit(Cleared(w), 9, FALSE)
            y == Reconnect(v, FALSE, n[1])
            z == Reconnect(y, n[1] = "later", n[2])
            x == Reconnect(z, n[2] = "later", n[3])
            public == n[1] # "later" /\ n[2] # "later"
        IN  /\ Phase("reconnect", x,
                     {<<"battery public", public>>,
                      <<"no flash writes", x.writes = v.writes>>})
            /\ occupied' = (n[3] = "later")
            /\ hurried' = (hurried \/ ~public)
            /\ early' = (\A i \in 1..3 : n[i] # "advance")
            /\ UNCHANGED seen

\* The status is read without authentication, which leaves the bonds alone.
ResetsForGood ==
    LET y == Cleared(w)
        x == Rebooted(y)
    IN  /\ ~occupied
        /\ Phase("reset", x,
                 {<<"epoch advances", y.epoch > 0>>,
                  <<"registry empty", Retained(y) = {}>>,
                  <<"empty restored", x.boot = "restored" /\ Retained(x) = {}>>})
        /\ UNCHANGED <<seen, bridge>>

\* parse_companion_status raises on the empty answer of BUSY: bond_lifecycle is over.
ResetUnread ==
    /\ occupied
    /\ Phase("reset", Cleared(w), {<<"status readable", FALSE>>})
    /\ occupied' = FALSE
    /\ hurried' = TRUE
    /\ UNCHANGED <<seen, early>>

-----------------------------------------------------------------------------
(* persistence_faults, in a simulator of its own with the same faults.       *)

SurvivesWriteFailure ==
    LET old == Visit(Cleared(Fresh), 1, FALSE)
        y   == Visit(Inject(old, "WRITE"), 2, FALSE)
        x   == Rebooted(Inject(y, "NONE"))
    IN  /\ Phase("write failure", x,
                 {<<"failure counted", y.failures >= 1>>,
                  <<"live preserved", y.live = old.live>>,
                  <<"old state restored", Has(x, 1) /\ ~Has(x, 2)>>})
        /\ UNCHANGED <<seen, bridge>>

FailsClosed ==
    LET x == Rebooted(Inject(w, "READ"))
    IN  /\ Phase("read failure", Inject(x, "NONE"),
                 {<<"restore failed", x.boot = "restore_failed">>,
                  <<"writes disabled", ~x.enabled>>})
        /\ UNCHANGED <<seen, bridge>>

StagedAsExpected(point, x) ==
    CASE point = "BEFORE_REPLACE" -> x.next = None
      [] point = "AFTER_PARTIAL_STAGED_WRITE" -> x.next = Torn
      [] point = "AFTER_STAGED_WRITE" -> x.next # None  \* more than twenty bytes

\* Seeded fault: the power cut stays armed.
PowerCut_Armed(point) ==
    LET old == Visit(Cleared(w), 10, FALSE)
        y   == Visit(Cut(old, point), 11, FALSE)
        x   == Rebooted(y)
    IN  /\ Phase(point, x, {<<"cut counted", y.failures >= 1>>})
        /\ seen' = y.next
        /\ UNCHANGED bridge

PowerCut(point) ==
    LET old == Visit(Cleared(w), 10, FALSE)
        y   == Visit(Cut(old, point), 11, FALSE)
        x   == Rebooted(Cut(y, "NONE"))
    IN  /\ Phase(point, x,
                 {<<"cut counted", y.failures >= 1>>,
                  <<"live exact", y.live = old.live>>,
                  <<"staged", StagedAsExpected(point, y)>>,
                  <<"old snapshot restored", Has(x, 10) /\ ~Has(x, 11)>>})
        /\ seen' = y.next
        /\ UNCHANGED bridge

\* The full staged candidate, if there is one, is put in place.
Promotes ==
    LET x == IF seen = None THEN w ELSE Rebooted([w EXCEPT !.live = seen])
    IN  /\ Phase("promote", x,
                 {<<"candidate complete", seen # None => x.boot = "restored" /\ Has(x, 11)>>})
        /\ UNCHANGED <<seen, bridge>>

KeepsEvidence ==
    LET y == Rebooted([Visit(Cleared(w), 20, FALSE) EXCEPT !.live = Torn])
        x == Visit(y, 21, FALSE)
    IN  /\ Phase("invalid", x,
                 {<<"invalid", y.boot = "invalid">>,
                  <<"writes disabled", ~y.enabled>>,
                  <<"evidence kept", x.live = y.live>>})
        /\ UNCHANGED <<seen, bridge>>

Recovers ==
    LET y == Cleared(w)
        x == Rebooted(y)
    IN  /\ Phase("recover", x,
                 {<<"recovers", y.boot = "initialized_empty">>,
                  <<"empty and writable", y.enabled /\ Retained(y) = {}>>,
                  <<"restores normally", x.boot = "restored">>})
        /\ UNCHANGED <<seen, bridge>>

Next ==
    \/ FreshStore \/ FivePeers \/ Restores \/ EvictsOldest \/ Replaces \/ KeepsCccd
    \/ ReconnectsSilently \/ ResetsForGood \/ ResetUnread \/ SurvivesWriteFailure \/ FailsClosed
    \/ \E point \in {"BEFORE_REPLACE", "AFTER_PARTIAL_STAGED_WRITE", "AFTER_STAGED_WRITE"} :
          PowerCut(point)
    \/ Promotes \/ KeepsEvidence \/ Recovers

Spec == Init /\ [][Next]_vars

-----------------------------------------------------------------------------
(* Properties.                                                              *)

Finished == Phases[at] = "done"

\* The two scenarios find every fault they are written for, in every combination:
\* no fault hides another one from all the checks.  But a watch that writes on each
\* reconnect passes if every ADVANCE comes before the link is down, for nothing has
\* settled when the writes are counted; such writes hide a lost subscription, too.
Detects ==
    Finished /\ failed = {} =>
        \/ faults = {}
        \/ early /\ faults \in SUBSET {"writes on reconnect", "drops cccds"}
              /\ "writes on reconnect" \in faults

\* On a watch without faults no check fails: no phase depends on what an earlier
\* one left behind, or on state that has not settled yet; unless the scenario was
\* too quick for the bridge and heard BUSY.
NoFalseAlarm == faults = {} /\ ~hurried => failed = {}

=============================================================================
