-------------------------------- MODULE BondStore --------------------------------
(***************************************************************************)
(* The virtual watch's bonds as the scenarios see them through BLE control  *)
(* and in the run directory: at most five peers in LRU order, a snapshot   *)
(* replaced atomically when the link has settled, a boot that fails closed. *)
(* InfiniSim and InfiniTime are other repositories; a watch may have any of *)
(* the faults below, each of them what a check of a scenario is there for.  *)
(***************************************************************************)
EXTENDS Naturals, Sequences, FiniteSets, SequencesExt

CONSTANT MaxFaults   \* bound: faults of one watch

ASSUME BondAssumption == MaxFaults \in Nat

Peer == 1..21
Capacity == 5

Fault ==
    {"unbounded", "forgets touch", "evicts on replace", "drops cccds",
     "writes on reconnect", "loses on reboot", "keeps on reset", "same epoch",
     "reset in memory",
     "failure replaces", "failure uncounted", "reads on", "tears live",
     "invents staged", "half staged", "decodes invalid", "overwrites invalid",
     "stays closed"}

VARIABLE faults   \* those of this watch

\* A file in the run directory.
File == [is : {"whole", "torn", "none"}, bonds : Seq(Peer), cccds : SUBSET Peer]
Empty == [is |-> "whole", bonds |-> <<>>, cccds |-> {}]
Torn == [Empty EXCEPT !.is = "torn"]
None == [Empty EXCEPT !.is = "none"]

Bonds == [boot : {"initialized_empty", "restored", "restore_failed", "invalid"},
          bonds : Seq(Peer), cccds : SUBSET Peer, evictions : Nat, epoch : Nat,
          dirty : BOOLEAN, live : File, next : File, writes : Nat, failures : Nat,
          enabled : BOOLEAN, inject : {"NONE", "READ", "WRITE"},
          cut : {"NONE", "BEFORE_REPLACE", "AFTER_PARTIAL_STAGED_WRITE", "AFTER_STAGED_WRITE"}]

Fresh ==
    [boot |-> "initialized_empty", bonds |-> <<>>, cccds |-> {}, evictions |-> 0,
     epoch |-> 0, dirty |-> FALSE, live |-> Empty, next |-> None, writes |-> 0,
     failures |-> 0, enabled |-> TRUE, inject |-> "NONE", cut |-> "NONE"]

Retained(w) == ToSet(w.bonds)

\* A peer connects and pairs: it is the most recently used one from now on.
Connected(w, p, replace) ==
    LET evicts == \/ p \notin Retained(w) /\ Len(w.bonds) = Capacity /\ "unbounded" \notin faults
                  \/ replace /\ "evicts on replace" \in faults
        moves  == p \notin Retained(w) \/ replace \/ "forgets touch" \notin faults
        kept   == IF evicts THEN Tail(w.bonds) ELSE w.bonds
        bonds  == IF moves THEN Append(RemoveFirst(kept, p), p) ELSE w.bonds
    IN  [w EXCEPT !.bonds = bonds,
                  !.cccds = @ \cap ToSet(bonds),
                  !.evictions = @ + (IF evicts THEN 1 ELSE 0),
                  !.dirty = @ \/ bonds # w.bonds \/ replace
                              \/ "writes on reconnect" \in faults]

\* A subscription is bond state as well.
Subscribed(w, p) ==
    [w EXCEPT !.cccds = @ \cup {p}, !.dirty = @ \/ "drops cccds" \notin faults]

Image(w) == [is |-> "whole", bonds |-> w.bonds, cccds |-> w.cccds]

\* The link is down and the settling time has passed: replace the snapshot.
Settled(w) ==
    LET closed  == ~w.enabled /\ ~(w.boot = "invalid" /\ "overwrites invalid" \in faults)
        injured == w.inject = "WRITE" \/ w.cut # "NONE"
        counted == IF "failure uncounted" \in faults THEN w.failures ELSE w.failures + 1
        staged  == CASE w.cut = "BEFORE_REPLACE" ->
                            IF "invents staged" \in faults THEN Torn ELSE w.next
                     [] w.cut = "AFTER_PARTIAL_STAGED_WRITE" -> Torn
                     [] w.cut = "AFTER_STAGED_WRITE" ->
                            IF "half staged" \in faults THEN Torn ELSE Image(w)
                     [] w.cut = "NONE" -> w.next
        live    == CASE w.inject = "WRITE" /\ "failure replaces" \in faults -> Image(w)
                     [] w.cut = "AFTER_PARTIAL_STAGED_WRITE" /\ "tears live" \in faults -> Torn
                     [] OTHER -> w.live
    IN  CASE ~w.dirty \/ closed -> w
          [] w.dirty /\ ~closed /\ injured ->
                [w EXCEPT !.failures = counted, !.next = staged, !.live = live]
          [] w.dirty /\ ~closed /\ ~injured ->
                [w EXCEPT !.live = Image(w), !.writes = @ + 1, !.dirty = FALSE]

Booted(w, boot, image, enabled) ==
    [w EXCEPT !.boot = boot, !.bonds = image.bonds, !.cccds = image.cccds,
              !.dirty = FALSE, !.enabled = enabled]

Rebooted(w) ==
    CASE w.inject = "READ" -> Booted(w, "restore_failed", Empty, "reads on" \in faults)
      [] w.inject # "READ" /\ w.live = Torn ->
            IF "decodes invalid" \in faults THEN Booted(w, "restored", Empty, TRUE)
            ELSE Booted(w, "invalid", Empty, FALSE)
      [] w.inject # "READ" /\ w.live # Torn ->
            Booted(w, "restored", IF "loses on reboot" \in faults THEN Empty ELSE w.live, TRUE)

\* Forget all: at once, and on flash.
Cleared(w) ==
    LET image == IF "keeps on reset" \in faults THEN Image(w) ELSE Empty
    IN  [Booted(w, "initialized_empty", image,
                w.enabled \/ "stays closed" \notin faults)
           EXCEPT !.evictions = 0,
                  !.epoch = IF "same epoch" \in faults THEN @ ELSE @ + 1,
                  !.live = IF "reset in memory" \in faults THEN @ ELSE image]

=============================================================================
