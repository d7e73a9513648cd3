------------------------------- MODULE OneLedger -------------------------------
(***************************************************************************)
(* What a deployment of several hosting processes promises: one ledger,     *)
(* that takes a request's effect at most once and never loses it, and       *)
(* answers that are true of it (tools/wallet-worker.js:7-9 and 262,         *)
(* tools/funding.js:163).  WalletWorker implements it.                      *)
(***************************************************************************)
EXTENDS Naturals

CONSTANT Requests

VARIABLES
  ledger,  \* [Requests -> times its effect is in the ledger]
  answer,  \* [Requests -> what its sender was told]
  split    \* two processes may be writing: nothing is promised any more

vars == <<ledger, answer, split>>

Refusals == {"starting", "unreachable"}
Answers == {"none", "ok", "lost"} \cup Refusals

Init ==
  /\ ledger = [r \in Requests |-> 0]
  /\ answer = [r \in Requests |-> "none"]
  /\ split = FALSE

\* A sender whose answer was lost may find its request done later, but only once; one
\* that was refused never does.
Apply(r) ==
  /\ ~split /\ ledger[r] = 0 /\ answer[r] \in {"none", "lost"}
  /\ ledger' = [ledger EXCEPT ![r] = 1] /\ UNCHANGED <<answer, split>>

\* Success is told of what is in the ledger, a refusal of what is not and never will be.
Tell(r) ==
  /\ ~split /\ answer[r] = "none"
  /\ \E a \in {"ok"} \cup Refusals :
       /\ a = "ok" => ledger[r] = 1
       /\ a \in Refusals => ledger[r] = 0
       /\ answer' = [answer EXCEPT ![r] = a]
  /\ UNCHANGED <<ledger, split>>

\* The answers of some requests are lost, whatever has become of these.
Lose ==
  /\ ~split
  /\ \E R \in SUBSET Requests :
       answer' = [r \in Requests |->
                    IF r \in R /\ answer[r] = "none" THEN "lost" ELSE answer[r]]
  /\ UNCHANGED <<ledger, split>>

Split ==
  /\ split' = TRUE
  /\ ledger' \in [Requests -> Nat] /\ answer' \in [Requests -> Answers]

Next == Split \/ Lose \/ \E r \in Requests : Apply(r) \/ Tell(r)

Spec == Init /\ [][Next]_vars

\* A request is never in the ledger twice, and nobody is told otherwise than it is.
Truthful ==
  \/ split
  \/ \A r \in Requests : /\ ledger[r] \in 0..1
                         /\ answer[r] = "ok" => ledger[r] = 1
                         /\ answer[r] \in Refusals => ledger[r] = 0
=============================================================================
