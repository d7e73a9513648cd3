------------------------------ MODULE MCLanding ------------------------------
(***************************************************************************)
(* Instances of Landing.  MCSpec has one conversion on route C of any kind, *)
(* or up to two in a row, on either route, whose deposits the sponsor may   *)
(* claim.                                                                   *)
(***************************************************************************)
EXTENDS Landing
BothRoutes == {"B", "C"}
OnlyB == {"B"}
OnlyC == {"C"}
Relayed == {"relayer"}
Refused == {"refused"}
AnyKind == Kind

MCStart == \/ lastId' = lastId
           \/ \A j \in job \cup job' : j.dep.kind \in Relayed
           \/ lastId' = 1 /\ \A j \in job' : j.dep.route = "C"
MCSpec == Init /\ [][Next /\ MCStart]_vars /\ Fairness
=============================================================================
