------------------------------- MODULE MCDapp -------------------------------
(***************************************************************************)
(* DappRelay with two sessions, two wallets and two requests, from two      *)
(* kinds of states a running wallet is in: two websites are connected, to   *)
(* the same wallet or to two; or one website opens a session while two      *)
(* wallets scan its code, after another one's requests were declined.       *)
(***************************************************************************)
EXTENDS DappRelay

BothConnected ==
  /\ \E a \in Accounts : sess = [s \in Sessions |-> [st |-> "open", addr |-> a]]
  /\ req = [r \in Requests |-> NoRequest]

Declined(s, a) == [NoRequest EXCEPT !.s = s, !.a = a, !.st = "rejected", !.live = TRUE]
Pairing ==
  \E gone \in Sessions, a \in Accounts :
    /\ sess = [s \in Sessions |-> IF s = gone THEN [st |-> "gone", addr |-> a]
                                  ELSE [st |-> "new", addr |-> None]]
    /\ req = [r \in Requests |-> Declined(gone, a)]

MCInit == InitRest /\ (BothConnected \/ Pairing)
MCSpec == MCInit /\ [][Next]_vars

Symmetric == Permutations(Calls) \cup Permutations(Sessions) \cup Permutations(Accounts)
             \cup Permutations(Requests)
=============================================================================
