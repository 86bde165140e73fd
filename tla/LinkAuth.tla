-------------------------------- MODULE LinkAuth --------------------------------
(***************************************************************************)
(* The scenario link_auth: who may use the watch's one link, what a peer   *)
(* without authentication may do, and what becomes of an unfinished sync   *)
(* when its link goes down.  The bridge notices the end of a connection in *)
(* its own time; a connection made before that only hears BUSY.            *)
(***************************************************************************)
EXTENDS Naturals, Sequences

VARIABLES
    faults,     \* what is wrong with this watch, or its bridge
    at,         \* the next line of the script
    conn,       \* the scenario's connection: none, served, busy or dropped
    secure,     \* the link is authenticated
    link,       \* the watch has a link
    occupied,   \* the bridge has not noticed that a connection was closed
    staged,     \* records staged of the list begun, of how many
    failed,     \* a check has failed, or the scenario was aborted
    hurried     \* history: a link was asked for while the bridge was occupied

vars == <<faults, at, conn, secure, link, occupied, staged, failed, hurried>>
watch == <<secure, link, staged>>

Fault == {"serves two", "skips authentication", "authenticates everything",
          "denies everyone", "ignores force", "keeps staging"}
Has(f) == f \in faults

Answers == {"ok", "auth", "refused", "busy", "closed"}

\* A line of the script: an operation, the answers that pass, and whether any
\* other one aborts the scenario (require); a closed connection raises anyhow.
Line(op, want) == [op |-> op, want |-> want, must |-> FALSE]
Do(op) == Line(op, Answers)
Must(op) == [op |-> op, want |-> {"ok"}, must |-> TRUE]

\* What is staged, and that the disconnect undoes it.
Staging ==
    <<Line("begin two", {"ok"}), Must("record"), Do("close"),
      Do("connect secure"), Line("commit two", Answers \ {"ok"}), Do("close")>>

\* Seeded fault: the unauthenticated peer tries nothing that is protected.
Script_Public ==
    <<Do("connect"), Line("second", {"busy"}), Line("status", {"ok"}),
      Do("force off"), Line("battery", {"closed"}), Do("close"),
      Do("connect secure"), Line("verify", {"ok"})>> \o Staging
    \o <<Do("connect secure")>> \o Staging
    \o <<Do("force on"), Line("linked", {"ok"}), Do("force off"), Line("unlinked", {"ok"})>>

Script ==
    <<Do("connect"), Line("second", {"busy"}),
      Line("begin none", {"auth"}), Line("status", {"ok"}), Line("verify", {"auth"}),
      Do("force off"), Line("battery", {"closed"}), Do("close"),
      Do("connect secure"), Line("verify", {"ok"})>> \o Staging
    \o <<Do("connect secure")>> \o Staging
    \o <<Do("force on"), Line("linked", {"ok"}), Do("force off"), Line("unlinked", {"ok"})>>

TypeOK ==
    /\ faults \subseteq Fault
    /\ at \in 1..Len(Script) + 1
    /\ conn \in {"none", "served", "busy", "dropped"}
    /\ (conn = "served" => link) /\ (at > Len(Script) => conn = "none")
    /\ secure \in BOOLEAN /\ link \in BOOLEAN /\ occupied \in BOOLEAN
    /\ staged \in [have : 0..2, of : {0, 2}]
    /\ failed \in BOOLEAN /\ hurried \in BOOLEAN

Nothing == [have |-> 0, of |-> 0]

Init ==
    /\ faults \in SUBSET Fault
    /\ at = 1 /\ conn = "none" /\ secure = FALSE /\ link = FALSE
    /\ occupied = FALSE /\ staged = Nothing
    /\ failed = FALSE /\ hurried = FALSE

-----------------------------------------------------------------------------
(* The watch and its bridge (InfiniTime, InfiniSim).                         *)

\* Whether a request is turned down for want of authentication.
Demands(protected) ==
    IF protected
    THEN IF secure THEN Has("denies everyone") ELSE ~Has("skips authentication")
    ELSE ~secure /\ Has("authenticates everything")

\* What a request hears; `protected` ones need an authenticated link.
Hears(protected, answer) ==
    CASE conn = "busy"    -> "busy"
      [] conn = "dropped" -> "closed"
      [] OTHER            -> IF Demands(protected) THEN "auth" ELSE answer

Answer(op) ==
    CASE op = "second" -> IF Has("serves two") THEN "ok" ELSE "busy"
      [] op = "status" -> Hears(FALSE, "ok")
      [] op = "battery" -> Hears(FALSE, "ok")
      [] op \in {"verify", "begin none", "begin two", "record"} -> Hears(TRUE, "ok")
      [] op = "commit two" ->
            Hears(TRUE, IF staged.have = 2 /\ staged.of = 2 THEN "ok" ELSE "refused")
      [] op = "linked" -> IF link THEN "ok" ELSE "refused"
      [] op = "unlinked" -> IF link THEN "refused" ELSE "ok"
      [] OTHER -> "ok"

\* The link goes down, and with it what it has staged.
Down ==
    /\ link' = FALSE
    /\ secure' = FALSE
    /\ staged' = IF Has("keeps staging") THEN staged ELSE Nothing

Connect(secured) ==
    /\ hurried' = (hurried \/ occupied)
    /\ IF occupied
       THEN conn' = "busy" /\ UNCHANGED watch
       ELSE /\ conn' = "served" /\ link' = TRUE /\ secure' = secured
            /\ UNCHANGED staged
    /\ UNCHANGED occupied

Close ==
    /\ conn' = "none"
    /\ occupied' = (occupied \/ conn = "served")
    /\ UNCHANGED <<watch, hurried>>

ForceOff ==
    /\ IF Has("ignores force") THEN UNCHANGED <<watch, conn>>
       ELSE Down /\ conn' = IF conn = "served" THEN "dropped" ELSE conn
    /\ UNCHANGED <<occupied, hurried>>

ForceOn ==
    /\ link' = (link \/ ~Has("ignores force"))
    /\ hurried' = (hurried \/ occupied)
    /\ UNCHANGED <<secure, staged, conn, occupied>>

Request(op) ==
    /\ staged' = IF Answer(op) # "ok" THEN staged
                 ELSE CASE op = "begin two" -> [have |-> 0, of |-> 2]
                        [] op = "begin none" -> Nothing
                        [] op = "record" -> [staged EXCEPT !.have = @ + 1]
                        [] OTHER -> staged
    /\ UNCHANGED <<secure, link, conn, occupied, hurried>>

\* The bridge notices the end of the connection that it served.
Release ==
    /\ occupied
    /\ occupied' = FALSE
    /\ Down
    /\ UNCHANGED <<faults, at, conn, failed, hurried>>

-----------------------------------------------------------------------------
(* The scenario.                                                             *)

Step ==
    /\ at <= Len(Script)
    /\ LET line  == Script[at]
           heard == Answer(line.op)
           fails == heard \notin line.want
       IN  /\ failed' = (failed \/ fails)
           /\ IF fails /\ (line.must \/ heard = "closed")
              THEN Close /\ at' = Len(Script) + 1
              ELSE /\ at' = at + 1
                   /\ CASE line.op = "connect"        -> Connect(FALSE)
                        [] line.op = "connect secure" -> Connect(TRUE)
                        [] line.op = "close"          -> Close
                        [] line.op = "force off"      -> ForceOff
                        [] line.op = "force on"       -> ForceOn
                        [] OTHER                      -> Request(line.op)
    /\ UNCHANGED faults

Next == Step \/ Release

Spec == Init /\ [][Next]_vars

-----------------------------------------------------------------------------
(* Properties.                                                              *)

Passed == at > Len(Script) /\ ~failed

\* A link_auth that passes has found every fault but one, also where it was too
\* quick for the bridge and some of its requests were answered with BUSY.
Detects == Passed => faults \subseteq {"keeps staging"}

\* "disconnect cleanup aborts schedule staging", says the check, and passes: the
\* watch has dropped what was staged.  That a commit of one record out of two is
\* refused shows nothing of the kind.
CleanupShown == Passed /\ ~hurried => ~Has("keeps staging")

\* On a watch without faults only haste makes a check fail.
NoFalseAlarm == faults = {} /\ ~hurried => ~failed

=============================================================================
