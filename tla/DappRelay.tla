------------------------------ MODULE DappRelay ------------------------------
(***************************************************************************)
(* Connected websites: sessions, the passkey handshake, preparing and       *)
(* approving transaction requests, and paying for them with the sponsor's   *)
(* mana (tools/dapp-relay.js, dapp-policy.js, dapp-auth.js, dapp-review.js, *)
(* dapp-launch.js, server.js:193-403, and the co-signing pipeline of        *)
(* tools/chain.js).                                                         *)
(*                                                                          *)
(* Everything up to an await is one step.  The relay keeps its state in     *)
(* memory: a restart loses it, but not the budget file nor the chain.       *)
(***************************************************************************)
EXTENDS Naturals, Sequences, FiniteSets, SequencesExt

CONSTANTS
  Sessions, Accounts, None,
  Calls,         \* concurrent HTTP calls of the wallet
  Requests,      \* ids of signing requests
  AccountLimit,  \* budget of one account, in signed ceilings
  MaxOwn,        \* bound: transactions the accounts send by other ways
  MaxFaults      \* bound: sessions and requests that end early, failovers, restarts

ASSUME Bounds == /\ AccountLimit \in Nat /\ MaxOwn \in Nat /\ MaxFaults \in Nat
                 /\ None \notin Accounts

VARIABLES
  sess,      \* sessions: [st, addr]
  conn,      \* dappConnect calls between the two address checks
  prep,      \* the dappRequest or dappLaunch call of a session: [at, payer]
  locked,    \* accounts in "preparing"
  req,       \* signing requests: [s, a, payer, nonce, st, live]
  call,      \* dappApprove calls: [at, r]
  line,      \* queueTx: calls in the order of their broadcasts
  spent,     \* the budget file, in signed ceilings
  pool,      \* requests in the mempool
  hist,      \* each account's transactions: [r, ok, std]
  view,      \* how much of it the Koinos node in use has applied
  sends,     \* ghost: how many times a request was broadcast
  faults

relay == <<sess, conn, prep, locked, req, call, line>>
chain == <<pool, hist, view>>
vars == <<relay, spent, chain, sends, faults>>

Idle == [at |-> "idle", r |-> None]
NoPrep == [at |-> "idle", payer |-> "wallet"]
NoRequest == [s |-> None, a |-> None, payer |-> "wallet", nonce |-> 0,
              st |-> "none", live |-> FALSE]

Live(s) == sess[s].st = "open"
\* A request the relay still finds: its session is live and it did not expire.
Found(r) == req[r].live /\ Live(req[r].s)

\* The account runs the standard code with its two modules after n transactions.
Standard(a, n) == IF n = 0 THEN TRUE ELSE hist[a][n].std
\* It executed in its place, and was not reverted.
Executed(r) == \E n \in 1..Len(hist[req[r].a]) :
                  hist[req[r].a][n].r = r /\ hist[req[r].a][n].ok
Reverted(r) == \E n \in 1..Len(hist[req[r].a]) :
                  hist[req[r].a][n].r = r /\ ~hist[req[r].a][n].ok

Fault == faults < MaxFaults /\ faults' = faults + 1

InitRest ==
  /\ conn = [c \in Calls |-> None]
  /\ prep = [s \in Sessions |-> NoPrep] /\ locked = {}
  /\ call = [c \in Calls |-> Idle] /\ line = <<>>
  /\ spent = [a \in Accounts |-> 0]
  /\ pool = {} /\ hist = [a \in Accounts |-> <<>>] /\ view = [a \in Accounts |-> 0]
  /\ sends = [r \in Requests |-> 0] /\ faults = 0

Init ==
  /\ sess = [s \in Sessions |-> [st |-> "new", addr |-> None]]
  /\ req = [r \in Requests |-> NoRequest]
  /\ InitRest

-----------------------------------------------------------------------------
(* Connecting. *)

Create(s) ==
  /\ sess[s].st = "new"
  /\ sess' = [sess EXCEPT ![s].st = "open"]
  /\ UNCHANGED <<conn, prep, locked, req, call, line, spent, chain, sends, faults>>

\* dappChallenge for this account, and dappConnect with the signed challenge up to
\* the read of the registered passkeys.  A challenge is good for one call.
Connect(c, s, a) ==
  /\ conn[c] = None /\ call[c] = Idle
  /\ Live(s) /\ sess[s].addr = None
  /\ conn' = [conn EXCEPT ![c] = [s |-> s, a |-> a]]
  /\ UNCHANGED <<sess, prep, locked, req, call, line, spent, chain, sends, faults>>

MayBind(s) == Live(s) /\ sess[s].addr = None

\* The proof is good and nobody else connected meanwhile, or the call fails.
Connected(c) ==
  /\ conn[c] # None
  /\ conn' = [conn EXCEPT ![c] = None]
  /\ \/ /\ MayBind(conn[c].s)
        /\ sess' = [sess EXCEPT ![conn[c].s].addr = conn[c].a]
     \/ sess' = sess
  /\ UNCHANGED <<prep, locked, req, call, line, spent, chain, sends, faults>>

\* MUTANT of Unlocked: a disconnect frees the account.
UnlockedAtOnce(s) == locked \ {sess[s].addr}

\* The accounts that stay locked when the session goes: all of them.
Unlocked(s) == locked

\* dappDisconnect, or prune() once the session's time is over.
Drop(s) ==
  /\ Fault /\ Live(s)
  /\ sess' = [sess EXCEPT ![s].st = "gone"]
  /\ locked' = Unlocked(s)
  /\ UNCHANGED <<conn, prep, req, call, line, spent, chain, sends>>

\* prune() removes a request whose time is over, whatever its status.
ExpireRequest(r) ==
  /\ Fault /\ Found(r)
  /\ req' = [req EXCEPT ![r].live = FALSE]
  /\ UNCHANGED <<sess, conn, prep, locked, call, line, spent, chain, sends>>

-----------------------------------------------------------------------------
(* Preparing a request: dappRequest and dappLaunch. *)

Busy(a) == \E r \in Requests : /\ Found(r) /\ req[r].a = a
                               /\ req[r].st \in {"pending", "submitting"}

\* assertAvailable()
Available(s) == Live(s) /\ sess[s].addr # None /\ ~Busy(sess[s].addr)

BeginPrepare(s) ==
  /\ prep[s] = NoPrep
  /\ Available(s) /\ sess[s].addr \notin locked
  /\ locked' = locked \cup {sess[s].addr}
  /\ prep' = [prep EXCEPT ![s].at = "review"]
  /\ UNCHANGED <<sess, conn, req, call, line, spent, chain, sends, faults>>

\* One bucket of three: the site's and the shared one are checked and charged in
\* the same step.
WithinBudget(a) == spent[a] < AccountLimit

\* Ready and reviewed: the sponsor pays if it may and can, else the account.
Reviewed(s) ==
  /\ prep[s].at = "review"
  /\ \E payer \in {"sponsor", "wallet", "app"} :
       /\ payer = "sponsor" => /\ WithinBudget(sess[s].addr)
                               /\ Standard(sess[s].addr, view[sess[s].addr])
       /\ prep' = [prep EXCEPT ![s] = [at |-> "build", payer |-> payer]]
  /\ UNCHANGED <<sess, conn, locked, req, call, line, spent, chain, sends, faults>>

EndPrepare(s) == /\ prep' = [prep EXCEPT ![s] = NoPrep]
                 /\ locked' = locked \ {sess[s].addr}

\* The transaction carries the account's next nonce and waits for approval.
AddRequest(s, r) ==
  /\ prep[s].at = "build" /\ Available(s) /\ req[r].st = "none"
  /\ req' = [req EXCEPT ![r] = [s |-> s, a |-> sess[s].addr, payer |-> prep[s].payer,
                                nonce |-> view[sess[s].addr], st |-> "pending", live |-> TRUE]]
  /\ EndPrepare(s)
  /\ UNCHANGED <<sess, conn, call, line, spent, chain, sends, faults>>

PrepareFails(s) ==
  /\ prep[s] # NoPrep /\ EndPrepare(s)
  /\ UNCHANGED <<sess, conn, req, call, line, spent, chain, sends, faults>>

Reject(r) ==
  /\ Found(r) /\ req[r].st = "pending"
  /\ req' = [req EXCEPT ![r].st = "rejected"]
  /\ UNCHANGED <<sess, conn, prep, locked, call, line, spent, chain, sends, faults>>

-----------------------------------------------------------------------------
(* Approving: dappApprove, from one await to the next. *)

At(c, where) == call[c].at = where
Go(c, where) == call' = [call EXCEPT ![c].at = where]
Acc(c) == req[call[c].r].a

Approve(c, r) ==
  /\ call[c] = Idle /\ conn[c] = None
  /\ Found(r) /\ req[r].st = "pending"
  /\ call' = [call EXCEPT ![c] = [at |-> "proof", r |-> r]]
  /\ UNCHANGED <<sess, conn, prep, locked, req, line, spent, chain, sends, faults>>

\* MUTANT of MaySubmit: what was checked before the passkey proof still counts.
MaySubmitAsSeen(r) == Live(req[r].s) /\ req[r].a \notin locked

MaySubmit(r) == Found(r) /\ req[r].st = "pending" /\ req[r].a \notin locked

\* The proof is good: lock the account, and branch on who pays.
Proven(c) ==
  /\ At(c, "proof") /\ MaySubmit(call[c].r)
  /\ locked' = locked \cup {Acc(c)}
  /\ req' = [req EXCEPT ![call[c].r].st = "submitting"]
  /\ Go(c, CASE req[call[c].r].payer = "sponsor" -> "nonce"
             [] req[call[c].r].payer = "wallet" -> "preflight"
             [] req[call[c].r].payer = "app" -> "signed")
  /\ UNCHANGED <<sess, conn, prep, line, spent, chain, sends, faults>>

\* The proof is bad, or the request is no longer there to be approved.
NotProven(c) ==
  /\ At(c, "proof")
  /\ call' = [call EXCEPT ![c] = Idle]
  /\ UNCHANGED <<sess, conn, prep, locked, req, line, spent, chain, sends, faults>>

\* MUTANT of SameNonce: the account's code is read without its nonce.
AnyNonce(c) == TRUE

\* checkNonce() of assertSponsorAccount
SameNonce(c) == view[Acc(c)] = req[call[c].r].nonce

NonceChecked(c) ==
  /\ At(c, "nonce") /\ SameNonce(c) /\ Go(c, "code")
  /\ UNCHANGED <<sess, conn, prep, locked, req, line, spent, chain, sends, faults>>

CodeChecked(c) ==
  /\ At(c, "code") /\ Standard(Acc(c), view[Acc(c)]) /\ Go(c, "again")
  /\ UNCHANGED <<sess, conn, prep, locked, req, line, spent, chain, sends, faults>>

NonceCheckedAgain(c) ==
  /\ At(c, "again") /\ SameNonce(c) /\ Go(c, "capacity")
  /\ UNCHANGED <<sess, conn, prep, locked, req, line, spent, chain, sends, faults>>

\* MUTANT of Charge: the budget is charged when the transaction is in a block.
ChargeLater(c) == UNCHANGED spent

Charge(c) == spent' = [spent EXCEPT ![Acc(c)] = @ + 1]

\* The sponsor has the mana and the session is live: charge before co-signing.
Sponsored(c) ==
  /\ At(c, "capacity") /\ Live(req[call[c].r].s)
  /\ WithinBudget(Acc(c)) /\ Charge(c) /\ Go(c, "preflight")
  /\ UNCHANGED <<sess, conn, prep, locked, req, line, chain, sends, faults>>

\* The passkey's signature verifies on the chain: wait for the send queue.
Preflight(c) ==
  /\ At(c, "preflight") /\ line' = Append(line, c) /\ Go(c, "queued")
  /\ UNCHANGED <<sess, conn, prep, locked, req, spent, chain, sends, faults>>

\* sendTolerant(): accepted, or a transient error after it was or was not accepted.
Send(c) ==
  /\ At(c, "queued") /\ Head(line) = c /\ Go(c, "mining")
  /\ sends' = [sends EXCEPT ![call[c].r] = @ + 1]
  /\ \/ /\ Len(hist[Acc(c)]) = req[call[c].r].nonce
        /\ pool' = pool \cup {call[c].r}
     \/ pool' = pool
  /\ UNCHANGED <<sess, conn, prep, locked, req, line, spent, hist, view, faults>>

\* settle() and the finally block.
Settled(c, st) ==
  /\ req' = [req EXCEPT ![call[c].r].st = st]
  /\ call' = [call EXCEPT ![c] = Idle] /\ line' = Remove(line, c)
  /\ locked' = locked \ {Acc(c)}

Signed(c) ==
  /\ At(c, "signed") /\ Settled(c, "signed")
  /\ UNCHANGED <<sess, conn, prep, spent, chain, sends, faults>>

\* waitMined(): a canonical block holds it and it was not reverted.
Proof(r) == Executed(r)

Approved(c) ==
  /\ At(c, "mining") /\ Proof(call[c].r) /\ Settled(c, "approved")
  /\ UNCHANGED <<sess, conn, prep, spent, chain, sends, faults>>

\* Any await of an approval may throw or time out; no result is "not sent".
Failed(c) ==
  /\ call[c].at \in {"nonce", "code", "again", "capacity", "preflight", "queued", "mining"}
  /\ At(c, "queued") => Head(line) = c
  /\ Settled(c, "failed")
  /\ UNCHANGED <<sess, conn, prep, spent, chain, sends, faults>>

-----------------------------------------------------------------------------
(* The chain, and restarts. *)

OwnTxs(a) == Cardinality({n \in 1..Len(hist[a]) : hist[a][n].r = None})

\* The account of a session sends a transaction from the wallet itself; it may
\* change or restore the account's code.
OwnTx(a) ==
  /\ OwnTxs(a) < MaxOwn /\ \E s \in Sessions : sess[s].addr = a
  /\ \E std \in BOOLEAN :
       hist' = [hist EXCEPT ![a] = Append(@, [r |-> None, ok |-> TRUE, std |-> std])]
  /\ UNCHANGED <<relay, spent, pool, view, sends, faults>>

\* Included, if ever: nothing is said of when.
Mine(r) ==
  /\ r \in pool /\ Len(hist[req[r].a]) = req[r].nonce
  /\ \E ok \in BOOLEAN :
       hist' = [hist EXCEPT ![req[r].a] =
                  Append(@, [r |-> r, ok |-> ok, std |-> Standard(req[r].a, Len(@))])]
  /\ pool' = pool \ {r}
  /\ UNCHANGED <<relay, spent, view, sends, faults>>

\* The node in use applies a block of the account.
Follow(a) ==
  /\ view[a] < Len(hist[a]) /\ view' = [view EXCEPT ![a] = @ + 1]
  /\ UNCHANGED <<relay, spent, pool, hist, sends, faults>>

Bracketed(a) == \E c \in Calls : call[c].at \in {"code", "again"} /\ Acc(c) = a

\* Failover to a node that is a block behind, outside the bracketed reads.
Failover(a) ==
  /\ Fault /\ view[a] > 0 /\ view[a] = Len(hist[a]) /\ ~Bracketed(a)
  /\ view' = [view EXCEPT ![a] = @ - 1]
  /\ UNCHANGED <<relay, spent, pool, hist, sends>>

\* Only the budget file survives a restart.
Crash ==
  /\ Fault
  /\ sess' = [s \in Sessions |-> IF sess[s].st = "new" THEN sess[s]
                                 ELSE [sess[s] EXCEPT !.st = "gone"]]
  /\ conn' = [c \in Calls |-> None]
  /\ prep' = [s \in Sessions |-> NoPrep] /\ locked' = {}
  /\ req' = [r \in Requests |-> [req[r] EXCEPT !.live = FALSE]]
  /\ call' = [c \in Calls |-> Idle] /\ line' = <<>>
  /\ UNCHANGED <<spent, chain, sends>>

-----------------------------------------------------------------------------
Connecting ==
  \/ \E s \in Sessions : Create(s) \/ Drop(s)
  \/ \E c \in Calls : Connected(c) \/ \E s \in Sessions, a \in Accounts : Connect(c, s, a)

Preparing ==
  \/ \E s \in Sessions : BeginPrepare(s) \/ Reviewed(s) \/ PrepareFails(s)
  \/ \E s \in Sessions, r \in Requests : AddRequest(s, r)
  \/ \E r \in Requests : Reject(r) \/ ExpireRequest(r)

Handle(c) == Proven(c) \/ NotProven(c) \/ NonceChecked(c) \/ CodeChecked(c)
             \/ NonceCheckedAgain(c) \/ Sponsored(c) \/ Preflight(c) \/ Send(c)
             \/ Signed(c) \/ Approved(c) \/ Failed(c)

Chain == \/ \E a \in Accounts : OwnTx(a) \/ Follow(a) \/ Failover(a)
         \/ \E r \in Requests : Mine(r)

Next == \/ Connecting \/ Preparing \/ Chain \/ Crash
        \/ \E c \in Calls : Handle(c) \/ \E r \in Requests : Approve(c, r)

Spec == Init /\ [][Next]_vars

-----------------------------------------------------------------------------
TypeOK ==
  /\ sess \in [Sessions -> [st : {"new", "open", "gone"}, addr : Accounts \cup {None}]]
  /\ \A c \in Calls : /\ conn[c] = None \/ conn[c] \in [s : Sessions, a : Accounts]
                      /\ call[c].r \in Requests \cup {None}
                      /\ (call[c].r = None) = At(c, "idle")
  /\ locked \subseteq Accounts /\ pool \subseteq Requests
  /\ \A r \in Requests : req[r].st \in {"none", "pending", "submitting", "approved",
                                        "rejected", "failed", "signed"}
  /\ ToSet(line) = {c \in Calls : call[c].at \in {"queued", "mining"}}
  /\ \A a \in Accounts : view[a] \in 0..Len(hist[a]) /\ spent[a] \in 0..AccountLimit

Submitting(c) == call[c].at \notin {"idle", "proof"}

\* What an account has under way: preparations, requests that can be approved,
\* and approvals after the proof, even of a session that is gone.
UnderWay(a) ==
  {<<"prepare", s>> : s \in {t \in Sessions : prep[t].at # "idle" /\ sess[t].addr = a}}
  \cup {<<"request", r>> : r \in {q \in Requests : /\ req[q].a = a /\ Found(q)
                                                   /\ req[q].st \in {"pending", "submitting"}}}
  \cup {<<"request", call[c].r>> : c \in {d \in Calls : Submitting(d) /\ Acc(d) = a}}

\* "Only one pending/preparing/submitting request is allowed per connected
\* account, including across website sessions" (docs/website-integration.md:242),
\* also while a session disconnects or expires during its broadcast.
OneAtATime == \A a \in Accounts : Cardinality(UnderWay(a)) <= 1

\* A request is broadcast at most once, and only one that was not rejected while
\* its passkey proof was being checked (server.js:335-341).
HandledOnce ==
  \A r \in Requests : /\ sends[r] <= 1
                      /\ sends[r] = 1 => req[r].st \in {"submitting", "approved", "failed"}

SponsoredSends(a) == {r \in Requests : req[r].a = a /\ req[r].payer = "sponsor" /\ sends[r] > 0}

\* What the sponsor co-signed is within the day's budget, failed and ambiguous
\* submissions and restarts included (dapp-policy.js:71-73).
SponsoredWithinBudget ==
  \A a \in Accounts : Cardinality(SponsoredSends(a)) <= AccountLimit

\* A co-signed transaction only ever executes on the standard account code: the
\* code may change between preparation, approval and execution, and the node that
\* answers may be behind (dapp-policy.js:47-69).
SponsoredOnStandard ==
  \A a \in Accounts : \A n \in 1..Len(hist[a]) :
    hist[a][n].r # None /\ req[hist[a][n].r].payer = "sponsor" => Standard(a, n - 1)

=============================================================================
