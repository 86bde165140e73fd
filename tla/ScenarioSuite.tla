------------------------------ MODULE ScenarioSuite ------------------------------
(***************************************************************************)
(* `ptlab run <scenario>` for the scenarios that are scripts of requests   *)
(* and checks: the pair bond_lifecycle and persistence_faults, link_auth, or *)
(* radio_policy, against a watch with faults that it may or may not find.   *)
(***************************************************************************)
EXTENDS BondScenarios

VARIABLES
    scenario,   \* which one runs
    conn, secure, link, staged,   \* link_auth's, which shares occupied and hurried
    radio       \* radio_policy's, which shares hurried

Link == INSTANCE LinkAuth
Adverts == INSTANCE RadioPolicy

bonds == <<w, seen, early>>
links == <<conn, secure, link, staged>>
suiteVars == <<vars, scenario, links, radio>>

NoLink == conn = "none" /\ secure = FALSE /\ link = FALSE /\ staged = Link!Nothing
NoBonds == w = Fresh /\ seen = None /\ early = FALSE

SuiteInit ==
    \/ /\ scenario = "bonds"
       /\ Init
       /\ NoLink /\ radio = Adverts!Booted
    \/ /\ scenario = "link_auth"
       /\ Link!Init
       /\ NoBonds /\ radio = Adverts!Booted
    \/ /\ scenario = "radio_policy"
       /\ Adverts!Init
       /\ NoBonds /\ NoLink /\ occupied = FALSE

RunBonds ==
    /\ scenario = "bonds"
    /\ Next
    /\ UNCHANGED <<scenario, links, radio>>

RunLinkAuth ==
    /\ scenario = "link_auth"
    /\ Link!Next
    /\ UNCHANGED <<scenario, bonds, radio>>

RunRadioPolicy ==
    /\ scenario = "radio_policy"
    /\ Adverts!Next
    /\ UNCHANGED <<scenario, bonds, links, occupied>>

SuiteNext == RunBonds \/ RunLinkAuth \/ RunRadioPolicy

SuiteSpec == SuiteInit /\ [][SuiteNext]_suiteVars

-----------------------------------------------------------------------------
(* Properties.                                                              *)

\* The state of each scenario is well typed.
SuiteTypeOK ==
    /\ scenario \in {"bonds", "link_auth", "radio_policy"}
    /\ scenario = "bonds" => TypeOK
    /\ scenario = "link_auth" => Link!TypeOK
    /\ scenario = "radio_policy" => Adverts!TypeOK

\* bond_lifecycle and persistence_faults, passed, have found every fault they are
\* written for, in every combination: no fault hides another one from all checks,
\* but for writes on reconnect if no ADVANCE waited for the link to be down.
BondsDetect == scenario = "bonds" => Detects

\* link_auth, passed, has found every fault but one; also where it was too quick
\* for the bridge and some of its requests were answered with BUSY.
LinkDetects == scenario = "link_auth" => Link!Detects

\* radio_policy, passed, has found every fault, off by a millisecond or not, in
\* every combination.
RadioDetects == scenario = "radio_policy" => Adverts!Detects

\* On a watch without faults no check fails: no phase depends on what an earlier
\* one left behind or on state that has not settled; where the watch or the bridge
\* needs longer than the scenario waits, if it does, only that makes one fail.
SuiteNoFalseAlarm ==
    /\ scenario = "bonds" => NoFalseAlarm
    /\ scenario = "link_auth" => Link!NoFalseAlarm
    /\ scenario = "radio_policy" => Adverts!NoFalseAlarm

=============================================================================
