--------------------------- MODULE DappRelayProofs ---------------------------
(***************************************************************************)
(* Theorems about DappRelay: one request of an account at a time, each     *)
(* submitted once, sponsored within the budget and only on the standard    *)
(* account code.  The invariant says what the lock of an account protects, *)
(* what a call of dappApprove knows at each of its awaits, and what the    *)
(* budget file has counted.                                                *)
(***************************************************************************)
EXTENDS DappRelay, FiniteSetTheorems, SequenceTheorems, TLAPS

Payers == {"sponsor", "wallet", "app"}
Stages == {"proof", "nonce", "code", "again", "capacity", "preflight", "signed",
           "queued", "mining"}
States == {"none", "pending", "submitting", "approved", "rejected", "failed", "signed"}
Entries == [r : Requests \cup {None}, ok : BOOLEAN, std : BOOLEAN]

Session == [st : {"new", "open", "gone"}, addr : Accounts \cup {None}]
Prep == {NoPrep} \cup [at : {"review", "build"}, payer : Payers]
Request == [s : Sessions \cup {None}, a : Accounts \cup {None}, payer : Payers,
            nonce : Nat, st : States, live : BOOLEAN]
Call == {Idle} \cup [at : Stages, r : Requests]

Typed ==
  /\ sess \in [Sessions -> Session]
  /\ conn \in [Calls -> {None} \cup [s : Sessions, a : Accounts]]
  /\ prep \in [Sessions -> Prep]
  /\ locked \subseteq Accounts
  /\ req \in [Requests -> Request]
  /\ call \in [Calls -> Call]
  /\ spent \in [Accounts -> Nat]
  /\ pool \subseteq Requests
  /\ hist \in [Accounts -> Seq(Entries)]
  /\ view \in [Accounts -> Nat]
  /\ sends \in [Requests -> Nat]

\* A session is bound after it opened, a request belongs to a bound session.
Bound ==
  /\ \A s \in Sessions : sess[s].st = "new" => sess[s].addr = None
  /\ \A r \in Requests :
       IF req[r].st = "none" THEN ~req[r].live
       ELSE /\ req[r].s \in Sessions /\ req[r].a \in Accounts
            /\ sess[req[r].s].st # "new"

\* Requests that occupy their account.
Current(r) == Found(r) /\ req[r].st \in {"pending", "submitting"}
InPrep(s) == prep[s].at # "idle"

\* What occupies an account, other than a request waiting for its passkey, holds
\* its lock; and nothing else occupies it.
Exclusive ==
  /\ \A s \in Sessions : InPrep(s) => sess[s].addr \in locked
  /\ \A c \in Calls : Submitting(c) =>
       Acc(c) \in locked /\ req[call[c].r].st = "submitting"
  /\ \A s, t \in Sessions : InPrep(s) /\ InPrep(t) /\ sess[s].addr = sess[t].addr => s = t
  /\ \A c, d \in Calls : Submitting(c) /\ Submitting(d) /\ Acc(c) = Acc(d) => c = d
  /\ \A s \in Sessions, c \in Calls : InPrep(s) /\ Submitting(c) => sess[s].addr # Acc(c)
  /\ \A q, r \in Requests : Current(q) /\ Current(r) /\ req[q].a = req[r].a => q = r
  /\ \A s \in Sessions, r \in Requests : InPrep(s) /\ Current(r) => sess[s].addr # req[r].a
  /\ \A c \in Calls, r \in Requests :
       Submitting(c) /\ Current(r) /\ Acc(c) = req[r].a => call[c].r = r

\* A request is broadcast by the last await of the one call that submits it.
Submitted ==
  /\ HandledOnce
  /\ \A c \in Calls : Submitting(c) /\ call[c].at # "mining" => sends[call[c].r] = 0

\* Requests the sponsor co-signed, or has been charged for and will.
Funded == {"preflight", "queued", "mining"}
Covered(r) == sends[r] > 0 \/ \E c \in Calls : call[c].at \in Funded /\ call[c].r = r
Charged(a) == {r \in Requests : req[r].a = a /\ req[r].payer = "sponsor" /\ Covered(r)}

Budgeted ==
  \A a \in Accounts :
    /\ IsFiniteSet(Charged(a)) /\ Cardinality(Charged(a)) <= spent[a]
    /\ spent[a] <= AccountLimit

\* The transaction's place in the account's history is reached, on standard code.
OnStandard(r) ==
  /\ req[r].nonce <= Len(hist[req[r].a])
  /\ Standard(req[r].a, req[r].nonce)

\* The two nonce reads around the code read pin it to the transaction's place.
Pinned(c) ==
  /\ call[c].at \in {"code", "again"} => view[Acc(c)] >= req[call[c].r].nonce
  /\ call[c].at = "again" =>
       (view[Acc(c)] = req[call[c].r].nonce => Standard(Acc(c), req[call[c].r].nonce))
  /\ call[c].at \in {"capacity"} \cup Funded /\ req[call[c].r].payer = "sponsor" =>
       OnStandard(call[c].r)

Bracket ==
  /\ \A a \in Accounts : view[a] <= Len(hist[a])
  /\ \A c \in Calls : Pinned(c)

\* What is on its way to the chain, or there, was broadcast; and was standard.
OnChain ==
  /\ \A r \in pool : sends[r] > 0 /\ (req[r].payer = "sponsor" => OnStandard(r))
  /\ \A a \in Accounts : \A n \in 1..Len(hist[a]) :
       hist[a][n].r # None => sends[hist[a][n].r] > 0
  /\ SponsoredOnStandard

RelayInv == Typed /\ Bound /\ Exclusive /\ Submitted /\ Budgeted /\ Bracket /\ OnChain

-----------------------------------------------------------------------------
(* What the definitions say of well-typed states. *)

LEMMA RecordTypes ==
  ASSUME Typed
  PROVE  /\ \A s \in Sessions : /\ sess[s].st \in {"new", "open", "gone"}
                                /\ sess[s].addr \in Accounts \cup {None}
                                /\ prep[s].at \in {"idle", "review", "build"}
                                /\ prep[s].payer \in Payers
                                /\ InPrep(s) <=> prep[s] # NoPrep
         /\ \A r \in Requests : /\ req[r].s \in Sessions \cup {None}
                                /\ req[r].a \in Accounts \cup {None}
                                /\ req[r].payer \in Payers /\ req[r].nonce \in Nat
                                /\ req[r].st \in States /\ req[r].live \in BOOLEAN
         /\ \A c \in Calls : /\ call[c].at \in Stages \cup {"idle"}
                             /\ call[c].at # "idle" => call[c].r \in Requests
                             /\ call[c].at # "idle" <=> call[c] # Idle
                             /\ conn[c] # None => conn[c].s \in Sessions /\ conn[c].a \in Accounts
<1>1. \A s \in Sessions : /\ sess[s].st \in {"new", "open", "gone"}
                          /\ sess[s].addr \in Accounts \cup {None}
  BY DEF Typed, Session
<1>2. \A s \in Sessions : /\ prep[s].at \in {"idle", "review", "build"}
                          /\ prep[s].payer \in Payers
                          /\ InPrep(s) <=> prep[s] # NoPrep
  BY DEF Typed, Prep, NoPrep, InPrep, Payers
<1>3. \A r \in Requests : /\ req[r].s \in Sessions \cup {None}
                          /\ req[r].a \in Accounts \cup {None}
                          /\ req[r].payer \in Payers /\ req[r].nonce \in Nat
                          /\ req[r].st \in States /\ req[r].live \in BOOLEAN
  BY DEF Typed, Request
<1>4. \A c \in Calls : /\ call[c].at \in Stages \cup {"idle"}
                       /\ call[c].at # "idle" => call[c].r \in Requests
                       /\ call[c].at # "idle" <=> call[c] # Idle
  BY DEF Typed, Call, Idle, Stages
<1>5. \A c \in Calls : conn[c] # None => conn[c].s \in Sessions /\ conn[c].a \in Accounts
  BY DEF Typed
<1> QED BY <1>1, <1>2, <1>3, <1>4, <1>5

LEMMA HistTypes ==
  ASSUME Typed, NEW a \in Accounts
  PROVE  /\ hist[a] \in Seq(Entries) /\ Len(hist[a]) \in Nat
         /\ \A n \in 1..Len(hist[a]) : hist[a][n] \in Entries
BY LenProperties, ElementOfSeq DEF Typed

LEMMA StandardType ==
  ASSUME Typed, NEW a \in Accounts, NEW n \in 0..Len(hist[a])
  PROVE  Standard(a, n) \in BOOLEAN
<1>1. Len(hist[a]) \in Nat BY HistTypes
<1>2. CASE n = 0 BY <1>2 DEF Standard
<1>3. CASE n # 0
  <2>1. n \in 1..Len(hist[a]) BY <1>1, <1>3
  <2>2. hist[a][n] \in Entries BY <2>1, HistTypes
  <2> QED BY <1>3, <2>2 DEF Standard, Entries
<1> QED BY <1>2, <1>3

LEMMA InitRelay == Init => RelayInv
<1> SUFFICES ASSUME Init PROVE RelayInv
  OBVIOUS
<1>1. Typed
  <2>1. NoRequest \in Request BY DEF NoRequest, Request, Payers, States
  <2>2. <<>> \in Seq(Entries) BY EmptySeq
  <2>3. sess \in [Sessions -> Session] BY DEF Init, Session
  <2> QED BY <2>1, <2>2, <2>3 DEF Init, InitRest, Typed, Prep, Call
<1>2. Bound BY DEF Init, Bound, NoRequest
<1>3. \A s \in Sessions : ~InPrep(s) BY DEF Init, InitRest, InPrep, NoPrep
<1>4. \A c \in Calls : call[c].at = "idle" BY DEF Init, InitRest, Idle
<1>5. \A r \in Requests : req[r].st = "none" /\ sends[r] = 0
  BY DEF Init, InitRest, NoRequest
<1>6. Exclusive BY <1>3, <1>4, <1>5 DEF Exclusive, Submitting, Current
<1>7. Submitted BY <1>4, <1>5 DEF Submitted, Submitting, HandledOnce
<1>8. \A a \in Accounts : Charged(a) = {} BY <1>4, <1>5 DEF Charged, Covered, Funded
<1>9. Budgeted
  <2>1. \A a \in Accounts : spent[a] = 0 BY DEF Init, InitRest
  <2>2. 0 <= AccountLimit BY Bounds
  <2>3. IsFiniteSet({}) /\ Cardinality({}) = 0 BY FS_EmptySet
  <2> QED BY <1>8, <2>1, <2>2, <2>3 DEF Budgeted
<1>10. \A a \in Accounts : hist[a] = <<>> /\ view[a] = 0 BY DEF Init, InitRest
<1>11. \A a \in Accounts : Len(hist[a]) = 0 BY <1>10, EmptySeq
<1>12. Bracket BY <1>4, <1>10, <1>11 DEF Bracket, Pinned, Funded
<1>13. OnChain BY <1>11 DEF Init, InitRest, OnChain, SponsoredOnStandard
<1> QED BY <1>1, <1>2, <1>6, <1>7, <1>9, <1>12, <1>13 DEF RelayInv

-----------------------------------------------------------------------------
(* Types and sessions. *)

\* A call at an await goes on to another.
LEMMA CallUpdate ==
  ASSUME Typed, NEW c \in Calls, call[c].at # "idle", NEW v \in Stages, Go(c, v)
  PROVE  call' \in [Calls -> Call]
<1>1. call[c] \in [at : Stages, r : Requests] BY DEF Typed, Call, Idle
<1>2. [call[c] EXCEPT !.at = v] \in Call BY <1>1 DEF Call
<1>3. call' = [call EXCEPT ![c] = [call[c] EXCEPT !.at = v]] BY DEF Go
<1> QED BY <1>2, <1>3 DEF Typed

LEMMA ConnectingTyped == ASSUME Typed, Connecting PROVE Typed'
<1>1. ASSUME NEW s \in Sessions, Create(s) PROVE Typed'
  <2>1. sess' \in [Sessions -> Session] BY <1>1 DEF Create, Typed, Session
  <2> QED BY <1>1, <2>1 DEF Create, Typed, chain
<1>2. ASSUME NEW s \in Sessions, Drop(s) PROVE Typed'
  <2>1. sess' \in [Sessions -> Session] BY <1>2 DEF Drop, Typed, Session
  <2> QED BY <1>2, <2>1 DEF Drop, Unlocked, Typed, chain
<1>3. ASSUME NEW c \in Calls, NEW s \in Sessions, NEW a \in Accounts, Connect(c, s, a)
      PROVE  Typed'
  BY <1>3 DEF Connect, Typed, chain
<1>4. ASSUME NEW c \in Calls, Connected(c) PROVE Typed'
  <2> DEFINE s == conn[c].s
             a == conn[c].a
  <2>1. /\ s \in Sessions /\ a \in Accounts
        /\ sess' = [sess EXCEPT ![s].addr = a] \/ sess' = sess
    BY <1>4, RecordTypes DEF Connected
  <2> HIDE DEF s, a
  <2>2. sess' \in [Sessions -> Session]
    <3>0. sess[s] \in Session BY <2>1 DEF Typed
    <3>1. [sess[s] EXCEPT !.addr = a] \in Session BY <2>1, <3>0 DEF Session
    <3>2. sess' = [sess EXCEPT ![s] = [sess[s] EXCEPT !.addr = a]] \/ sess' = sess
      BY <2>1
    <3> QED BY <3>1, <3>2 DEF Typed
  <2>3. conn' \in [Calls -> {None} \cup [s : Sessions, a : Accounts]]
    BY <1>4 DEF Connected, Typed
  <2> QED BY <1>4, <2>2, <2>3 DEF Connected, Typed, chain
<1> QED BY <1>1, <1>2, <1>3, <1>4 DEF Connecting

LEMMA PreparingTyped == ASSUME Typed, Preparing PROVE Typed'
<1>1. ASSUME NEW s \in Sessions, BeginPrepare(s) PROVE Typed'
  <2>1. sess[s].addr \in Accounts BY <1>1, RecordTypes DEF BeginPrepare, Available
  <2>2. [prep[s] EXCEPT !.at = "review"] \in Prep
    BY <1>1 DEF BeginPrepare, NoPrep, Prep, Payers
  <2>3. prep' = [prep EXCEPT ![s] = [prep[s] EXCEPT !.at = "review"]]
    BY <1>1 DEF BeginPrepare
  <2>4. prep' \in [Sessions -> Prep] BY <2>2, <2>3 DEF Typed
  <2> QED BY <1>1, <2>1, <2>4 DEF BeginPrepare, Typed, chain
<1>2. ASSUME NEW s \in Sessions, Reviewed(s) PROVE Typed'
  <2>1. PICK p \in Payers : prep' = [prep EXCEPT ![s] = [at |-> "build", payer |-> p]]
    BY <1>2 DEF Reviewed, Payers
  <2>2. prep' \in [Sessions -> Prep] BY <2>1 DEF Typed, Prep
  <2> QED BY <1>2, <2>2 DEF Reviewed, Typed, chain
<1>3. ASSUME NEW s \in Sessions, EndPrepare(s)
      PROVE  prep' \in [Sessions -> Prep] /\ locked' \subseteq Accounts
  BY <1>3 DEF EndPrepare, Typed, Prep
<1>4. ASSUME NEW s \in Sessions, PrepareFails(s) PROVE Typed'
  <2>1. EndPrepare(s) BY <1>4 DEF PrepareFails
  <2> QED BY <1>3, <1>4, <2>1 DEF PrepareFails, Typed, chain
<1>5. ASSUME NEW s \in Sessions, NEW r \in Requests, AddRequest(s, r) PROVE Typed'
  <2>1. sess[s].addr \in Accounts BY <1>5, RecordTypes DEF AddRequest, Available
  <2>2. prep[s].payer \in Payers /\ view[sess[s].addr] \in Nat
    BY <2>1, RecordTypes DEF Typed
  <2>3. [s |-> s, a |-> sess[s].addr, payer |-> prep[s].payer, nonce |-> view[sess[s].addr],
         st |-> "pending", live |-> TRUE] \in Request
    BY <2>1, <2>2 DEF Request, States
  <2>4. req' \in [Requests -> Request] BY <1>5, <2>3 DEF AddRequest, Typed
  <2>5. EndPrepare(s) BY <1>5 DEF AddRequest
  <2> QED BY <1>3, <1>5, <2>4, <2>5 DEF AddRequest, Typed, chain
<1>6. ASSUME NEW r \in Requests, Reject(r) PROVE Typed'
  <2>1. req' \in [Requests -> Request] BY <1>6 DEF Reject, Typed, Request, States
  <2> QED BY <1>6, <2>1 DEF Reject, Typed, chain
<1>7. ASSUME NEW r \in Requests, ExpireRequest(r) PROVE Typed'
  <2>1. req' \in [Requests -> Request] BY <1>7 DEF ExpireRequest, Typed, Request
  <2> QED BY <1>7, <2>1 DEF ExpireRequest, Typed, chain
<1> QED BY <1>1, <1>2, <1>4, <1>5, <1>6, <1>7 DEF Preparing

LEMMA HandleTyped == ASSUME Typed, Bound, NEW c \in Calls, Handle(c) PROVE Typed'
<1>1. call[c].at # "idle"
  BY DEF Handle, Proven, NotProven, NonceChecked, CodeChecked, NonceCheckedAgain,
         Sponsored, Preflight, Send, Signed, Approved, Failed, At
<1> DEFINE r == call[c].r
<1>2. r \in Requests BY <1>1, RecordTypes
<1>3. req[r].payer \in Payers BY <1>2, RecordTypes
<1> HIDE DEF r
<1>4. ASSUME NEW st \in States, req' = [req EXCEPT ![r].st = st]
      PROVE  req' \in [Requests -> Request]
  BY <1>2, <1>4 DEF Typed, Request
<1>5. ASSUME NEW st \in States, Settled(c, st)
      PROVE  /\ req' \in [Requests -> Request] /\ call' \in [Calls -> Call]
             /\ locked' \subseteq Accounts
  <2>1. req' = [req EXCEPT ![r].st = st] BY <1>5 DEF Settled, r
  <2> QED BY <1>4, <1>5, <2>1 DEF Settled, Typed, Call
<1>6. CASE Proven(c)
  <2>1. \E v \in Stages : Go(c, v)
    BY <1>3, <1>6 DEF Proven, Payers, Stages, r
  <2>2. call' \in [Calls -> Call] BY <1>1, <2>1, CallUpdate
  <2>3. req' = [req EXCEPT ![r].st = "submitting"] BY <1>6 DEF Proven, r
  <2>4. req' \in [Requests -> Request] BY <1>4, <2>3 DEF States
  <2>5. req[r].a \in Accounts BY <1>2, <1>6 DEF Proven, MaySubmit, Bound, r
  <2>6. locked' = locked \cup {req[r].a} BY <1>6 DEF Proven, Acc, r
  <2> QED BY <1>6, <2>2, <2>4, <2>5, <2>6 DEF Proven, Typed, chain
<1>7. CASE NotProven(c) BY <1>7 DEF NotProven, Typed, chain, Call
<1>8. CASE NonceChecked(c) \/ CodeChecked(c) \/ NonceCheckedAgain(c) \/ Preflight(c)
  <2>1. \E v \in Stages : Go(c, v)
    BY <1>8 DEF NonceChecked, CodeChecked, NonceCheckedAgain, Preflight, Stages
  <2>2. call' \in [Calls -> Call] BY <1>1, <2>1, CallUpdate
  <2> QED BY <1>8, <2>2
      DEF NonceChecked, CodeChecked, NonceCheckedAgain, Preflight, Typed, chain
<1>9. CASE Sponsored(c)
  <2>1. call' \in [Calls -> Call] BY <1>1, <1>9, CallUpdate DEF Sponsored, Stages
  <2> DEFINE a == Acc(c)
  <2>2. spent' = [spent EXCEPT ![a] = @ + 1] BY <1>9 DEF Sponsored, Charge
  <2> HIDE DEF a
  <2>3. spent' \in [Accounts -> Nat]
    <3> DEFINE k == spent[a] + 1
    <3>1. spent \in [Accounts -> Nat] BY DEF Typed
    <3>2. a \in Accounts => k \in Nat BY <3>1
    <3>3. spent' = [spent EXCEPT ![a] = k] BY <2>2
    <3> HIDE DEF k
    <3> QED BY <3>1, <3>2, <3>3
  <2> QED BY <1>9, <2>1, <2>3 DEF Sponsored, Typed, chain
<1>10. CASE Send(c)
  <2>1. call' \in [Calls -> Call] BY <1>1, <1>10, CallUpdate DEF Send, Stages
  <2>2. sends' = [sends EXCEPT ![r] = @ + 1] BY <1>10 DEF Send, r
  <2>3. sends' \in [Requests -> Nat]
    <3> DEFINE k == sends[r] + 1
    <3>1. sends \in [Requests -> Nat] BY DEF Typed
    <3>2. k \in Nat BY <1>2, <3>1
    <3>3. sends' = [sends EXCEPT ![r] = k] BY <2>2
    <3> HIDE DEF k
    <3> QED BY <3>1, <3>2, <3>3
  <2>4. pool' \subseteq Requests BY <1>2, <1>10 DEF Send, Typed, r
  <2> QED BY <1>10, <2>1, <2>3, <2>4 DEF Send, Typed
<1>11. CASE Signed(c) \/ Approved(c) \/ Failed(c)
  <2>1. \E st \in States : Settled(c, st) BY <1>11 DEF Signed, Approved, Failed, States
  <2>2. UNCHANGED <<sess, conn, prep, spent, chain, sends>>
    BY <1>11 DEF Signed, Approved, Failed
  <2> QED BY <1>5, <2>1, <2>2 DEF Typed, chain
<1> QED BY <1>6, <1>7, <1>8, <1>9, <1>10, <1>11 DEF Handle

\* What was broadcast is a request of an account.
LEMMA SentIsKnown ==
  ASSUME Typed, Bound, HandledOnce, NEW r \in Requests, sends[r] > 0
  PROVE  req[r].st \in {"submitting", "approved", "failed"} /\ req[r].a \in Accounts
<1>1. sends[r] \in Nat /\ sends[r] <= 1 BY DEF Typed, HandledOnce
<1>2. sends[r] = 1 BY <1>1
<1>3. req[r].st \in {"submitting", "approved", "failed"} BY <1>2 DEF HandledOnce
<1> QED BY <1>3 DEF Bound

\* A transaction of an account goes to the end of its history.
Appended(a, e) == hist' = [hist EXCEPT ![a] = Append(@, e)]

LEMMA OwnTxAppends ==
  ASSUME NEW a \in Accounts, OwnTx(a)
  PROVE  \E e \in Entries : e.r = None /\ Appended(a, e)
<1>1. PICK std \in BOOLEAN :
        hist' = [hist EXCEPT ![a] = Append(@, [r |-> None, ok |-> TRUE, std |-> std])]
  BY DEF OwnTx
<1> DEFINE e == [r |-> None, ok |-> TRUE, std |-> std]
<1>2. e \in Entries /\ e.r = None BY DEF Entries
<1>3. Appended(a, e) BY <1>1 DEF Appended
<1> QED BY <1>2, <1>3

LEMMA MineAppends ==
  ASSUME Typed, Bound, OnChain, HandledOnce, NEW r \in Requests, Mine(r)
  PROVE  /\ req[r].a \in Accounts /\ Len(hist[req[r].a]) = req[r].nonce
         /\ \E e \in Entries : /\ e.r = r /\ Appended(req[r].a, e)
                               /\ e.std = Standard(req[r].a, req[r].nonce)
<1> DEFINE a == req[r].a
           std == Standard(a, req[r].nonce)
<1>1. a \in Accounts BY SentIsKnown DEF Mine, OnChain
<1>2. Len(hist[a]) = req[r].nonce BY DEF Mine
<1>3. std \in BOOLEAN BY <1>1, <1>2, StandardType, HistTypes
<1>4. PICK ok \in BOOLEAN :
        hist' = [hist EXCEPT ![a] = Append(@, [r |-> r, ok |-> ok, std |-> Standard(a, Len(@))])]
  BY DEF Mine
<1> DEFINE e == [r |-> r, ok |-> ok, std |-> std]
<1>5. hist' = [hist EXCEPT ![a] = Append(@, e)] BY <1>2, <1>4
<1> HIDE DEF std
<1>6. e \in Entries /\ e.r = r /\ e.std = std BY <1>3 DEF Entries
<1>7. Appended(a, e) BY <1>5 DEF Appended
<1>8. \E f \in Entries : f.r = r /\ Appended(a, f) /\ f.std = std BY <1>6, <1>7
<1> QED BY <1>1, <1>2, <1>8 DEF std

LEMMA ChainTyped == ASSUME Typed, Bound, OnChain, HandledOnce, Chain PROVE Typed'
<1>0. ASSUME NEW a \in Accounts, NEW e \in Entries, Appended(a, e)
      PROVE  hist' \in [Accounts -> Seq(Entries)]
  <2>1. Append(hist[a], e) \in Seq(Entries) BY HistTypes, AppendProperties
  <2> QED BY <1>0, <2>1 DEF Appended, Typed
<1>1. ASSUME NEW a \in Accounts, OwnTx(a) PROVE Typed'
  <2>1. hist' \in [Accounts -> Seq(Entries)] BY <1>0, <1>1, OwnTxAppends
  <2> QED BY <1>1, <2>1 DEF OwnTx, Typed, relay
<1>2. ASSUME NEW a \in Accounts, Follow(a) PROVE Typed'
  <2>1. view' \in [Accounts -> Nat] BY <1>2 DEF Follow, Typed
  <2> QED BY <1>2, <2>1 DEF Follow, Typed, relay
<1>3. ASSUME NEW a \in Accounts, Failover(a) PROVE Typed'
  <2>1. view' = [view EXCEPT ![a] = @ - 1] /\ view[a] > 0 BY <1>3 DEF Failover
  <2>2. view' \in [Accounts -> Nat] BY <2>1 DEF Typed
  <2> QED BY <1>3, <2>2 DEF Failover, Typed, relay
<1>4. ASSUME NEW r \in Requests, Mine(r) PROVE Typed'
  <2>1. hist' \in [Accounts -> Seq(Entries)] BY <1>0, <1>4, MineAppends
  <2> QED BY <1>4, <2>1 DEF Mine, Typed, relay
<1> QED BY <1>1, <1>2, <1>3, <1>4 DEF Chain

LEMMA RestTyped ==
  ASSUME Typed, Crash \/ (\E c \in Calls, r \in Requests : Approve(c, r)) \/ UNCHANGED vars
  PROVE  Typed'
<1>1. CASE Crash
  <2>1. sess' \in [Sessions -> Session] BY <1>1 DEF Crash, Typed, Session
  <2>2. req' \in [Requests -> Request] BY <1>1 DEF Crash, Typed, Request
  <2> QED BY <1>1, <2>1, <2>2 DEF Crash, Typed, chain, Prep, Call
<1>2. ASSUME NEW c \in Calls, NEW r \in Requests, Approve(c, r) PROVE Typed'
  <2>1. [at |-> "proof", r |-> r] \in Call BY DEF Call, Stages
  <2> QED BY <1>2, <2>1 DEF Approve, Typed, chain
<1>3. CASE UNCHANGED vars BY <1>3 DEF vars, relay, chain, Typed
<1> QED BY <1>1, <1>2, <1>3

-----------------------------------------------------------------------------
(* What a step does to the requests, the calls and the histories. *)

\* A call at work submits a request of an account.
LEMMA CallsKnown ==
  ASSUME Typed, Bound, Exclusive
  PROVE  \A c \in Calls : Submitting(c) =>
           /\ call[c].r \in Requests /\ req[call[c].r].st = "submitting"
           /\ Acc(c) \in Accounts /\ Acc(c) \in locked
<1> SUFFICES ASSUME NEW c \in Calls, Submitting(c)
             PROVE  /\ call[c].r \in Requests /\ req[call[c].r].st = "submitting"
                    /\ Acc(c) \in Accounts /\ Acc(c) \in locked
  OBVIOUS
<1>1. call[c].r \in Requests BY RecordTypes DEF Submitting
<1>2. req[call[c].r].st = "submitting" /\ Acc(c) \in locked BY DEF Exclusive
<1> QED BY <1>1, <1>2 DEF Bound, Acc

\* A step of dappApprove after the proof, and the end of one.
LEMMA HandleCases ==
  ASSUME Typed, NEW c \in Calls, Handle(c)
  PROVE  \/ Proven(c)
         \/ NotProven(c)
         \/ /\ NonceChecked(c) \/ CodeChecked(c) \/ NonceCheckedAgain(c) \/ Sponsored(c)
               \/ Preflight(c) \/ Send(c)
            /\ \E v \in Stages \ {"proof"} : Go(c, v)
            /\ Submitting(c) /\ UNCHANGED <<sess, conn, prep, locked, req, hist, view>>
         \/ /\ Signed(c) \/ Approved(c) \/ Failed(c)
            /\ \E st \in {"signed", "approved", "failed"} :
                 Settled(c, st) /\ (st = "signed" => call[c].at = "signed")
            /\ Submitting(c)
            /\ UNCHANGED <<sess, conn, prep, spent, chain, sends, faults>>
<1>1. CASE NonceChecked(c) \/ CodeChecked(c) \/ NonceCheckedAgain(c) \/ Sponsored(c)
           \/ Preflight(c) \/ Send(c)
  BY <1>1 DEF NonceChecked, CodeChecked, NonceCheckedAgain, Sponsored, Preflight, Send,
              At, Stages, Submitting, chain
<1>2. CASE Signed(c) \/ Approved(c) \/ Failed(c)
  <2>1. CASE Signed(c) BY <2>1 DEF Signed, At, Submitting
  <2>2. CASE Approved(c) BY <2>2 DEF Approved, At, Submitting
  <2>3. CASE Failed(c) BY <2>3 DEF Failed, At, Submitting
  <2> QED BY <1>2, <2>1, <2>2, <2>3
<1> QED BY <1>1, <1>2 DEF Handle

\* A request that exists keeps its session, account, payer and nonce.
Kept(r) == /\ req'[r].st # "none" /\ req'[r].s = req[r].s /\ req'[r].a = req[r].a
           /\ req'[r].payer = req[r].payer /\ req'[r].nonce = req[r].nonce

LEMMA RequestsKept ==
  ASSUME Typed, Bound, Exclusive, [Next]_vars
  PROVE  \A r \in Requests : req[r].st # "none" => Kept(r)
<1>0. req \in [Requests -> Request] BY DEF Typed
<1>1. CASE UNCHANGED req BY <1>1 DEF Kept
<1>2. ASSUME NEW s \in Sessions, NEW r \in Requests, AddRequest(s, r)
      PROVE  \A q \in Requests : req[q].st # "none" => Kept(q)
  BY <1>0, <1>2 DEF AddRequest, Kept
<1>3. ASSUME NEW r \in Requests, NEW v, v # "none", req' = [req EXCEPT ![r].st = v]
      PROVE  \A q \in Requests : req[q].st # "none" => Kept(q)
  BY <1>0, <1>3 DEF Kept, Request
<1>4. ASSUME NEW r \in Requests, Reject(r) \/ ExpireRequest(r)
      PROVE  \A q \in Requests : req[q].st # "none" => Kept(q)
  BY <1>0, <1>4 DEF Reject, ExpireRequest, Kept, Request
<1>5. ASSUME NEW c \in Calls, Handle(c)
      PROVE  \A q \in Requests : req[q].st # "none" => Kept(q)
  <2> DEFINE r == call[c].r
  <2>1. CASE Proven(c)
    <3>1. r \in Requests BY <2>1, RecordTypes DEF Proven, At
    <3>2. req' = [req EXCEPT ![r].st = "submitting"] BY <2>1 DEF Proven
    <3> QED BY <1>3, <3>1, <3>2
  <2>2. CASE UNCHANGED req BY <2>2 DEF Kept
  <2>3. ASSUME NEW st \in {"signed", "approved", "failed"}, Settled(c, st), Submitting(c)
        PROVE  \A q \in Requests : req[q].st # "none" => Kept(q)
    <3>1. r \in Requests BY <2>3, CallsKnown
    <3>2. req' = [req EXCEPT ![r].st = st] BY <2>3 DEF Settled
    <3> QED BY <1>3, <3>1, <3>2
  <2>4. NotProven(c) => UNCHANGED req BY DEF NotProven
  <2> QED BY <1>5, <2>1, <2>2, <2>3, <2>4, HandleCases
<1>6. CASE Crash BY <1>0, <1>6 DEF Crash, Kept, Request
<1>7. Connecting \/ Chain \/ UNCHANGED vars => UNCHANGED req
  BY DEF Connecting, Create, Drop, Connected, Connect, Chain, OwnTx, Follow, Failover,
         Mine, relay, vars
<1>8. (\E c \in Calls, r \in Requests : Approve(c, r)) => UNCHANGED req BY DEF Approve
<1>9. Preparing => \/ UNCHANGED req
                   \/ \E s \in Sessions, r \in Requests : AddRequest(s, r)
                   \/ \E r \in Requests : Reject(r) \/ ExpireRequest(r)
  BY DEF Preparing, BeginPrepare, Reviewed, PrepareFails
<1> QED BY <1>1, <1>2, <1>4, <1>5, <1>6, <1>7, <1>8, <1>9 DEF Next

\* The history of an account only grows, at its end.
Extended(a) == /\ Len(hist[a]) <= Len(hist'[a])
               /\ \A n \in 1..Len(hist[a]) : hist'[a][n] = hist[a][n]

LEMMA HistoryGrows ==
  ASSUME Typed, Bound, OnChain, HandledOnce, [Next]_vars
  PROVE  \A a \in Accounts : Extended(a)
<1>0. \A a \in Accounts : hist[a] \in Seq(Entries) /\ Len(hist[a]) \in Nat BY HistTypes
<1>1. CASE UNCHANGED hist BY <1>0, <1>1 DEF Extended
<1>2. ASSUME NEW b \in Accounts, NEW e \in Entries, Appended(b, e)
      PROVE  \A a \in Accounts : Extended(a)
  <2> TAKE a \in Accounts
  <2>1. CASE a # b BY <1>0, <1>2, <2>1 DEF Extended, Typed, Appended
  <2>2. CASE a = b
    <3>1. hist'[a] = Append(hist[a], e) BY <1>2, <2>2 DEF Typed, Appended
    <3>2. /\ Len(hist'[a]) = Len(hist[a]) + 1
          /\ \A n \in 1..Len(hist[a]) : hist'[a][n] = hist[a][n]
      BY <1>0, <3>1, AppendProperties
    <3> QED BY <1>0, <3>2 DEF Extended
  <2> QED BY <2>1, <2>2
<1>3. \/ UNCHANGED hist
      \/ \E a \in Accounts : OwnTx(a)
      \/ \E r \in Requests : Mine(r)
  BY DEF Next, Connecting, Create, Drop, Connected, Connect, Preparing, BeginPrepare,
         Reviewed, PrepareFails, AddRequest, Reject, ExpireRequest, Chain, Follow,
         Failover, Crash, Approve, Handle, Proven, NotProven, NonceChecked, CodeChecked,
         NonceCheckedAgain, Sponsored, Preflight, Send, Signed, Approved, Failed, chain,
         relay, vars
<1> QED BY <1>1, <1>2, <1>3, OwnTxAppends, MineAppends

-----------------------------------------------------------------------------
(* Sessions and requests stay bound. *)

LEMMA BoundStep ==
  ASSUME Typed, Bound, Exclusive, [Next]_vars
  PROVE  Bound'
<1>0. /\ sess \in [Sessions -> Session] /\ req \in [Requests -> Request]
      /\ \A r \in Requests : req[r].st # "none" => Kept(r)
  BY RequestsKept DEF Typed
<1> DEFINE Opened(s) == /\ sess'[s].st = "new" => sess[s].st = "new"
                        /\ sess'[s].st = "new" => sess'[s].addr = sess[s].addr
           Idles(r) == req'[r].st = "none" /\ req'[r].live => req[r].live
           Fresh(r) == req[r].st = "none" /\ req'[r].st # "none" =>
                         /\ req'[r].s \in Sessions /\ req'[r].a \in Accounts
                         /\ sess'[req'[r].s].st # "new"
<1>1. ASSUME \A s \in Sessions : Opened(s), \A r \in Requests : Idles(r) /\ Fresh(r)
      PROVE  Bound'
  BY <1>0, <1>1 DEF Bound, Kept
<1>2. UNCHANGED sess => \A s \in Sessions : Opened(s) OBVIOUS
<1>3. UNCHANGED req => \A r \in Requests : Idles(r) /\ Fresh(r) OBVIOUS
<1>4. CASE Connecting
  <2>1. UNCHANGED req BY <1>4 DEF Connecting, Create, Drop, Connected, Connect
  <2>2. \A s \in Sessions : Opened(s)
    <3>1. ASSUME NEW s \in Sessions, Create(s) \/ Drop(s) PROVE \A t \in Sessions : Opened(t)
      BY <1>0, <3>1 DEF Create, Drop, Session
    <3>2. ASSUME NEW c \in Calls, Connected(c) PROVE \A t \in Sessions : Opened(t)
      <4> DEFINE s == conn[c].s
                 a == conn[c].a
      <4>1. s \in Sessions BY <3>2, RecordTypes DEF Connected
      <4>2. \/ sess[s].st = "open" /\ sess' = [sess EXCEPT ![s].addr = a]
            \/ sess' = sess
        BY <3>2 DEF Connected, MayBind, Live
      <4> HIDE DEF s, a
      <4>3. sess[s] \in Session BY <1>0, <4>1
      <4> QED BY <1>0, <4>1, <4>2, <4>3 DEF Session
    <3>3. (\E c \in Calls, s \in Sessions, a \in Accounts : Connect(c, s, a)) => UNCHANGED sess
      BY DEF Connect
    <3> QED BY <1>2, <1>4, <3>1, <3>2, <3>3 DEF Connecting
  <2> QED BY <1>1, <1>3, <2>1, <2>2
<1>5. CASE Preparing
  <2>1. UNCHANGED sess BY <1>5 DEF Preparing, BeginPrepare, Reviewed, PrepareFails, AddRequest,
                                   Reject, ExpireRequest
  <2>2. ASSUME NEW s \in Sessions, NEW r \in Requests, AddRequest(s, r)
        PROVE  \A q \in Requests : Idles(q) /\ Fresh(q)
    <3>1. sess[s].addr \in Accounts /\ sess[s].st = "open"
      BY <2>2, RecordTypes DEF AddRequest, Available, Live
    <3> QED BY <1>0, <2>1, <2>2, <3>1 DEF AddRequest
  <2>3. ASSUME NEW r \in Requests, Reject(r) \/ ExpireRequest(r)
        PROVE  \A q \in Requests : Idles(q) /\ Fresh(q)
    BY <1>0, <2>3 DEF Reject, ExpireRequest, Found, Bound, Request
  <2>4. (\E s \in Sessions : BeginPrepare(s) \/ Reviewed(s) \/ PrepareFails(s)) => UNCHANGED req
    BY DEF BeginPrepare, Reviewed, PrepareFails
  <2> QED BY <1>1, <1>2, <1>3, <1>5, <2>1, <2>2, <2>3, <2>4 DEF Preparing
<1>6. ASSUME NEW r \in Requests, NEW v, req[r].st # "none",
             req' = [req EXCEPT ![r].st = v], v # "none"
      PROVE  \A q \in Requests : Idles(q) /\ Fresh(q)
  BY <1>0, <1>6 DEF Request
<1>7. ASSUME NEW c \in Calls, Handle(c) PROVE Bound'
  <2>1. UNCHANGED sess BY <1>7, HandleCases DEF Proven, NotProven
  <2> DEFINE r == call[c].r
  <2>2. CASE Proven(c)
    <3>1. r \in Requests BY <2>2, RecordTypes DEF Proven, At
    <3>2. req' = [req EXCEPT ![r].st = "submitting"] /\ req[r].st = "pending"
      BY <2>2 DEF Proven, MaySubmit
    <3> QED BY <1>1, <1>2, <1>6, <2>1, <3>1, <3>2
  <2>3. ASSUME NEW st \in {"signed", "approved", "failed"}, Settled(c, st), Submitting(c)
        PROVE  Bound'
    <3>1. r \in Requests /\ req[r].st = "submitting" BY <2>3, CallsKnown
    <3>2. req' = [req EXCEPT ![r].st = st] BY <2>3 DEF Settled
    <3> QED BY <1>1, <1>2, <1>6, <2>1, <2>3, <3>1, <3>2
  <2>4. CASE UNCHANGED req BY <1>1, <1>2, <1>3, <2>1, <2>4
  <2>5. NotProven(c) => UNCHANGED req BY DEF NotProven
  <2> QED BY <1>7, <2>2, <2>3, <2>4, <2>5, HandleCases
<1>8. CASE Crash
  <2>1. \A s \in Sessions : Opened(s) BY <1>0, <1>8 DEF Crash, Session
  <2>2. \A r \in Requests : Idles(r) /\ Fresh(r) BY <1>0, <1>8 DEF Crash, Request
  <2> QED BY <1>1, <2>1, <2>2
<1>9. CASE Chain \/ (\E c \in Calls, r \in Requests : Approve(c, r)) \/ UNCHANGED vars
  <2>1. UNCHANGED <<sess, req>>
    BY <1>9 DEF Chain, OwnTx, Follow, Failover, Mine, relay, Approve, vars
  <2> QED BY <1>1, <1>2, <1>3, <2>1
<1> QED BY <1>4, <1>5, <1>7, <1>8, <1>9 DEF Next

-----------------------------------------------------------------------------
(* One at a time. *)

\* Who occupies an account after a step occupied it before.
LEMMA NobodyNew ==
  ASSUME Typed, Exclusive,
         \A s \in Sessions : InPrep(s)' =>
           InPrep(s) /\ sess'[s].addr = sess[s].addr /\ sess[s].addr \in locked',
         \A c \in Calls : Submitting(c)' =>
           /\ Submitting(c) /\ call'[c].r = call[c].r /\ Acc(c)' = Acc(c)
           /\ Acc(c) \in locked' /\ req'[call[c].r].st = "submitting",
         \A r \in Requests : Current(r)' => Current(r) /\ req'[r].a = req[r].a
  PROVE  Exclusive'
BY DEF Exclusive

\* The lock of what an account has under way is kept.
LEMMA LocksKept ==
  ASSUME Typed, Bound, Exclusive
  PROVE  /\ \A s \in Sessions : InPrep(s) => sess[s].addr \in locked /\ sess[s].addr # None
         /\ \A c \in Calls : Submitting(c) => Acc(c) \in locked
<1>1. None \notin locked BY Bounds DEF Typed
<1> QED BY <1>1 DEF Exclusive

LEMMA ConnectingExclusive ==
  ASSUME Typed, Bound, Exclusive, Connecting
  PROVE  Exclusive'
<1>0. sess \in [Sessions -> Session] BY DEF Typed
<1>1. UNCHANGED <<prep, locked, req, call>>
  BY DEF Connecting, Create, Drop, Unlocked, Connected, Connect
<1>2. \A s \in Sessions : sess'[s].addr = sess[s].addr \/ sess[s].addr = None
  <2>1. ASSUME NEW s \in Sessions, Create(s) \/ Drop(s)
        PROVE  \A t \in Sessions : sess'[t].addr = sess[t].addr
    BY <1>0, <2>1 DEF Create, Drop, Session
  <2>2. ASSUME NEW c \in Calls, Connected(c)
        PROVE  \A t \in Sessions : sess'[t].addr = sess[t].addr \/ sess[t].addr = None
    <3> DEFINE s == conn[c].s
               a == conn[c].a
    <3>1. s \in Sessions BY <2>2, RecordTypes DEF Connected
    <3>2. (sess[s].addr = None /\ sess' = [sess EXCEPT ![s].addr = a]) \/ sess' = sess
      BY <2>2 DEF Connected, MayBind
    <3> HIDE DEF s, a
    <3> QED BY <1>0, <3>1, <3>2 DEF Session
  <2>3. (\E c \in Calls, s \in Sessions, a \in Accounts : Connect(c, s, a)) => UNCHANGED sess
    BY DEF Connect
  <2> QED BY <2>1, <2>2, <2>3 DEF Connecting
<1>3. \A s \in Sessions : sess'[s].st = "open" => sess[s].st \in {"open", "new"}
  <2>1. ASSUME NEW s \in Sessions, Create(s) \/ Drop(s)
        PROVE  \A t \in Sessions : sess'[t].st = "open" => sess[t].st \in {"open", "new"}
    BY <1>0, <2>1 DEF Create, Drop, Session
  <2>2. ASSUME NEW c \in Calls, Connected(c)
        PROVE  \A t \in Sessions : sess'[t].st = "open" => sess[t].st \in {"open", "new"}
    <3> DEFINE s == conn[c].s
               a == conn[c].a
    <3>2. sess' = [sess EXCEPT ![s].addr = a] \/ sess' = sess BY <2>2 DEF Connected
    <3>1. s \in Sessions BY <2>2, RecordTypes DEF Connected
    <3> HIDE DEF s, a
    <3> QED BY <1>0, <3>1, <3>2 DEF Session
  <2>3. (\E c \in Calls, s \in Sessions, a \in Accounts : Connect(c, s, a)) => UNCHANGED sess
    BY DEF Connect
  <2> QED BY <2>1, <2>2, <2>3 DEF Connecting
<1>4. \A s \in Sessions : InPrep(s)' =>
        InPrep(s) /\ sess'[s].addr = sess[s].addr /\ sess[s].addr \in locked'
  BY <1>1, <1>2, LocksKept DEF InPrep
<1>5. \A c \in Calls : Submitting(c)' =>
        /\ Submitting(c) /\ call'[c].r = call[c].r /\ Acc(c)' = Acc(c)
        /\ Acc(c) \in locked' /\ req'[call[c].r].st = "submitting"
  BY <1>1 DEF Exclusive, Submitting, Acc
<1>6. \A r \in Requests : Current(r)' => Current(r) /\ req'[r].a = req[r].a
  BY <1>1, <1>3 DEF Current, Found, Live, Bound
<1> QED BY <1>4, <1>5, <1>6, NobodyNew

LEMMA PreparingExclusive ==
  ASSUME Typed, Bound, Exclusive, Preparing
  PROVE  Exclusive'
<1>0. prep \in [Sessions -> Prep] /\ req \in [Requests -> Request] BY DEF Typed
<1>1. UNCHANGED <<sess, call>>
  BY DEF Preparing, BeginPrepare, Reviewed, PrepareFails, AddRequest, Reject, ExpireRequest
<1>2. \A c \in Calls : Submitting(c) => call[c].r \in Requests BY CallsKnown
\* The request of a call at work is not taken for a new one, rejected or dropped from it.
<1>3. ASSUME UNCHANGED req
      PROVE  /\ \A r \in Requests : Current(r)' <=> Current(r)
             /\ \A c \in Calls : /\ Submitting(c)' <=> Submitting(c)
                                 /\ Acc(c)' = Acc(c) /\ call'[c].r = call[c].r
  BY <1>1, <1>3 DEF Current, Found, Live, Submitting, Acc
<1>4. ASSUME NEW s \in Sessions, BeginPrepare(s) PROVE Exclusive'
  <2>1. /\ UNCHANGED req /\ locked' = locked \cup {sess[s].addr}
        /\ sess[s].addr \notin locked /\ sess[s].addr # None
    BY <1>4 DEF BeginPrepare, Available
  <2>2. ~InPrep(s) /\ \A t \in Sessions : InPrep(t)' => InPrep(t) \/ t = s
    BY <1>0, <1>4 DEF BeginPrepare, InPrep, NoPrep
  <2>3. \A r \in Requests : Current(r) => req[r].a # sess[s].addr
    BY <1>4 DEF BeginPrepare, Available, Busy, Current
  <2> QED BY <1>1, <1>3, <2>1, <2>2, <2>3 DEF Exclusive
<1>5. ASSUME NEW s \in Sessions, EndPrepare(s), InPrep(s)
      PROVE  /\ \A t \in Sessions : InPrep(t)' =>
                  InPrep(t) /\ t # s /\ sess[t].addr # sess[s].addr /\ sess[t].addr \in locked'
             /\ \A c \in Calls : Submitting(c) => Acc(c) \in locked'
  <2>1. \A t \in Sessions : InPrep(t)' => InPrep(t) /\ t # s
    BY <1>0, <1>5 DEF EndPrepare, InPrep, NoPrep
  <2>2. locked' = locked \ {sess[s].addr} BY <1>5 DEF EndPrepare
  <2> QED BY <1>5, <2>1, <2>2 DEF Exclusive
<1>6. ASSUME NEW s \in Sessions, PrepareFails(s) PROVE Exclusive'
  <2>1. InPrep(s) /\ EndPrepare(s) BY <1>6, RecordTypes DEF PrepareFails
  <2>2. UNCHANGED req BY <1>6 DEF PrepareFails
  <2> QED BY <1>1, <1>3, <1>5, <2>1, <2>2, NobodyNew DEF Exclusive
<1>7. ASSUME NEW s \in Sessions, Reviewed(s) PROVE Exclusive'
  <2>1. UNCHANGED <<req, locked>> BY <1>7 DEF Reviewed
  <2>2. \A t \in Sessions : InPrep(t)' => InPrep(t)
    BY <1>0, <1>7 DEF Reviewed, InPrep
  <2> QED BY <1>1, <1>3, <2>1, <2>2, NobodyNew DEF Exclusive
<1>8. ASSUME NEW s \in Sessions, NEW r \in Requests, AddRequest(s, r) PROVE Exclusive'
  <2>1. /\ InPrep(s) /\ EndPrepare(s) /\ req[r].st = "none" BY <1>8 DEF AddRequest, InPrep
  <2>2. req'[r].a = sess[s].addr /\ \A q \in Requests \ {r} : req'[q] = req[q]
    BY <1>0, <1>8 DEF AddRequest
  <2>3. \A q \in Requests \ {r} : (Current(q)' <=> Current(q)) /\ req'[q].a = req[q].a
    BY <1>1, <2>2 DEF Current, Found, Live
  <2>4. \A q \in Requests \ {r} : Current(q) => req[q].a # sess[s].addr
    BY <2>1 DEF Exclusive
  <2>5. \A c \in Calls : Submitting(c)' =>
          /\ Submitting(c) /\ call[c].r # r /\ Acc(c)' = Acc(c) /\ Acc(c) # sess[s].addr
          /\ req'[call[c].r].st = "submitting" /\ call'[c].r = call[c].r
    BY <1>1, <1>2, <2>1, <2>2 DEF Exclusive, Submitting, Acc
  <2> QED BY <1>1, <1>5, <2>1, <2>2, <2>3, <2>4, <2>5 DEF Exclusive
<1>9. ASSUME NEW r \in Requests, Reject(r) \/ ExpireRequest(r) PROVE Exclusive'
  <2>1. UNCHANGED <<prep, locked>> BY <1>9 DEF Reject, ExpireRequest
  <2>2. \A q \in Requests : Current(q)' => Current(q) /\ req'[q].a = req[q].a
    BY <1>0, <1>1, <1>9 DEF Reject, ExpireRequest, Current, Found, Live, Request
  <2>3. \A q \in Requests : /\ req'[q].a = req[q].a
                            /\ req[q].st = "submitting" => req'[q].st = "submitting"
    BY <1>0, <1>9 DEF Reject, ExpireRequest, Request
  <2>4. \A c \in Calls : Submitting(c)' =>
          /\ Submitting(c) /\ Acc(c)' = Acc(c) /\ call'[c].r = call[c].r
          /\ req'[call[c].r].st = "submitting"
    BY <1>1, <1>2, <2>3 DEF Exclusive, Submitting, Acc
  <2>5. \A s \in Sessions : InPrep(s)' <=> InPrep(s) BY <2>1 DEF InPrep
  <2> QED BY <1>1, <2>1, <2>2, <2>4, <2>5, NobodyNew DEF Exclusive
<1> QED BY <1>4, <1>6, <1>7, <1>8, <1>9 DEF Preparing

LEMMA HandleExclusive ==
  ASSUME Typed, Bound, Exclusive, NEW c \in Calls, Handle(c)
  PROVE  Exclusive'
<1>0. req \in [Requests -> Request] /\ call \in [Calls -> Call] BY DEF Typed
<1>1. UNCHANGED <<sess, prep>> BY HandleCases DEF Proven, NotProven
<1>2. \A d \in Calls : Submitting(d) => call[d].r \in Requests /\ Acc(d) \in locked
  BY CallsKnown
<1> DEFINE r == call[c].r
<1>3. ASSUME NEW v, NEW q \in Requests, req' = [req EXCEPT ![q].st = v]
      PROVE  \A p \in Requests : /\ req'[p].a = req[p].a /\ (p # q => req'[p] = req[p])
                                 /\ req'[p].s = req[p].s /\ req'[p].live = req[p].live
                                 /\ req'[q].st = v
  BY <1>0, <1>3 DEF Request
<1>4. CASE Proven(c)
  <2>1. /\ r \in Requests /\ req[r].st = "pending" /\ Found(r) /\ req[r].a \notin locked
        /\ locked' = locked \cup {req[r].a} /\ req' = [req EXCEPT ![r].st = "submitting"]
    BY <1>4, RecordTypes DEF Proven, At, MaySubmit, Acc
  <2>2. PICK v : Go(c, v) BY <1>4 DEF Proven
  <2>3. \A d \in Calls : /\ call'[d].r = call[d].r
                         /\ d # c => call'[d] = call[d]
    BY <1>0, <2>2 DEF Go, Call, Idle
  <2>4. ~Submitting(c) BY <1>4 DEF Proven, At, Submitting
  <2>5. \A p \in Requests : req'[p].a = req[p].a /\ (Current(p)' <=> Current(p))
    BY <1>1, <1>3, <2>1 DEF Current, Found, Live
  <2>6. \A d \in Calls : Submitting(d) => call[d].r # r /\ Acc(d) # req[r].a
    BY <1>2, <2>1 DEF Exclusive
  <2>7. \A d \in Calls : Submitting(d)' =>
          /\ d # c => Submitting(d) /\ req'[call[d].r].st = "submitting"
          /\ Acc(d)' = Acc(d)
    <3>1. req'[r].a = req[r].a BY <2>1, <2>5
    <3>2. Acc(c)' = Acc(c) BY <2>3, <3>1 DEF Acc
    <3>3. ASSUME NEW d \in Calls, d # c, Submitting(d)'
          PROVE  Submitting(d) /\ call[d].r \in Requests /\ call[d].r # r
      BY <1>2, <2>3, <2>6, <3>3 DEF Submitting
    <3>4. ASSUME NEW d \in Calls, d # c, Submitting(d)'
          PROVE  Acc(d)' = Acc(d) /\ req'[call[d].r].st = "submitting"
      BY <1>3, <2>1, <2>3, <2>5, <3>3, <3>4 DEF Acc, Exclusive
    <3> QED BY <3>2, <3>3, <3>4
  <2>8. req'[r].st = "submitting" /\ Acc(c) = req[r].a BY <1>3, <2>1 DEF Acc
  <2>9. Current(r) BY <2>1 DEF Current
  <2>10. \A s \in Sessions : InPrep(s)' => InPrep(s) /\ sess'[s].addr # req[r].a
    BY <1>1, <2>1 DEF InPrep, Exclusive
  <2>11. \A d \in Calls : Submitting(d)' => Acc(d) \in locked'
    BY <1>2, <2>1, <2>7, <2>8
  <2>12. \A d, e \in Calls : Submitting(d)' /\ Submitting(e)' /\ Acc(d)' = Acc(e)' => d = e
    BY <2>6, <2>7, <2>8 DEF Exclusive
  <2>13. \A s \in Sessions, d \in Calls :
           InPrep(s)' /\ Submitting(d)' => sess'[s].addr # Acc(d)'
    BY <1>1, <2>7, <2>8, <2>10 DEF Exclusive
  <2>14. \A d \in Calls, p \in Requests :
           Submitting(d)' /\ Current(p)' /\ Acc(d)' = req'[p].a => call'[d].r = p
    BY <2>1, <2>3, <2>5, <2>7, <2>8, <2>9 DEF Exclusive
  <2>15. \A d \in Calls : Submitting(d)' => Acc(d)' \in locked' /\ req'[call'[d].r].st = "submitting"
    BY <2>3, <2>7, <2>8, <2>11
  <2> QED BY <1>1, <2>1, <2>5, <2>10, <2>12, <2>13, <2>14, <2>15 DEF Exclusive
<1>5. CASE NotProven(c)
  <2>1. UNCHANGED <<locked, req>> /\ call' = [call EXCEPT ![c] = Idle]
    BY <1>5 DEF NotProven
  <2>2. \A d \in Calls : Submitting(d)' => Submitting(d) /\ call'[d] = call[d]
    BY <1>0, <2>1 DEF Submitting, Idle
  <2> QED BY <1>1, <2>1, <2>2, NobodyNew
      DEF Exclusive, Acc, Current, Found, Live, InPrep
<1>6. ASSUME NEW v, Go(c, v), Submitting(c), UNCHANGED <<locked, req>> PROVE Exclusive'
  <2>1. \A d \in Calls : Submitting(d)' => Submitting(d) /\ call'[d].r = call[d].r
    BY <1>0, <1>6 DEF Submitting, Go, Call, Idle
  <2> QED BY <1>1, <1>6, <2>1, NobodyNew DEF Exclusive, Acc, Current, Found, Live, InPrep
<1>7. ASSUME NEW st \in {"signed", "approved", "failed"}, Settled(c, st), Submitting(c)
      PROVE  Exclusive'
  <2>1. /\ r \in Requests /\ req' = [req EXCEPT ![r].st = st]
        /\ call' = [call EXCEPT ![c] = Idle] /\ locked' = locked \ {Acc(c)}
    BY <1>2, <1>7 DEF Settled
  <2>2. \A d \in Calls : Submitting(d)' => Submitting(d) /\ d # c /\ call'[d] = call[d]
    BY <1>0, <2>1 DEF Submitting, Idle
  <2>3. \A d \in Calls : Submitting(d)' => Acc(d) # Acc(c) /\ call[d].r # r
    BY <1>7, <2>2 DEF Exclusive, Acc
  <2>4. \A d \in Calls : Submitting(d)' =>
          /\ Acc(d)' = Acc(d) /\ Acc(d) \in locked' /\ req'[call[d].r].st = "submitting"
    BY <1>2, <1>3, <2>1, <2>2, <2>3 DEF Acc, Exclusive
  <2>5. \A p \in Requests : Current(p)' => Current(p) /\ req'[p].a = req[p].a
    BY <1>1, <1>3, <2>1 DEF Current, Found, Live
  <2>6. \A s \in Sessions : InPrep(s)' =>
          InPrep(s) /\ sess'[s].addr = sess[s].addr /\ sess[s].addr \in locked'
    BY <1>1, <1>7, <2>1 DEF InPrep, Exclusive
  <2> QED BY <2>2, <2>4, <2>5, <2>6, NobodyNew
<1> QED BY <1>4, <1>5, <1>6, <1>7, HandleCases

LEMMA RestExclusive ==
  ASSUME Typed, Bound, Exclusive,
         Chain \/ Crash \/ (\E c \in Calls, r \in Requests : Approve(c, r)) \/ UNCHANGED vars
  PROVE  Exclusive'
<1>1. CASE Crash
  <2>1. (\A s \in Sessions : ~InPrep(s)') /\ (\A c \in Calls : ~Submitting(c)')
    BY <1>1 DEF Crash, InPrep, NoPrep, Submitting, Idle
  <2>2. \A r \in Requests : ~Current(r)' BY <1>1 DEF Crash, Current, Found, Typed, Request
  <2> QED BY <2>1, <2>2 DEF Exclusive
<1>2. CASE Chain \/ UNCHANGED vars
  <2>1. UNCHANGED relay BY <1>2 DEF Chain, OwnTx, Follow, Failover, Mine, vars
  <2> QED BY <2>1 DEF relay, Exclusive, InPrep, Submitting, Acc, Current, Found, Live
<1>3. ASSUME NEW c \in Calls, NEW r \in Requests, Approve(c, r) PROVE Exclusive'
  <2>1. UNCHANGED <<sess, prep, locked, req>> BY <1>3 DEF Approve
  <2>2. \A d \in Calls : Submitting(d)' => Submitting(d) /\ call'[d] = call[d]
    BY <1>3 DEF Approve, Submitting, Typed
  <2> QED BY <2>1, <2>2, NobodyNew DEF Exclusive, Acc, Current, Found, Live, InPrep
<1> QED BY <1>1, <1>2, <1>3

LEMMA ExclusiveStep ==
  ASSUME Typed, Bound, Exclusive, [Next]_vars
  PROVE  Exclusive'
BY ConnectingExclusive, PreparingExclusive, HandleExclusive, RestExclusive DEF Next

-----------------------------------------------------------------------------
(* Broadcast once. *)

LEMMA SubmittedStep ==
  ASSUME Typed, Bound, Exclusive, Submitted, [Next]_vars
  PROVE  Submitted'
<1>0. /\ req \in [Requests -> Request] /\ call \in [Calls -> Call]
      /\ sends \in [Requests -> Nat]
  BY DEF Typed
<1> DEFINE Before(c) == Submitting(c) /\ call[c].at # "mining"
           Sent == {"submitting", "approved", "failed"}
\* Nothing is broadcast: what was broadcast keeps its status, and what is on its way to
\* the broadcast was so already.
<1>1. ASSUME UNCHANGED sends,
             \A r \in Requests : req[r].st \in Sent => req'[r].st \in Sent \/ sends[r] = 0,
             \A c \in Calls : Before(c)' => sends[call'[c].r] = 0
      PROVE  Submitted'
  BY <1>0, <1>1 DEF Submitted, HandledOnce
<1>2. ASSUME UNCHANGED <<sends, call>>,
             \A r \in Requests : req[r].st \in Sent => req'[r].st \in Sent
      PROVE  Submitted'
  BY <1>1, <1>2 DEF Submitted, Submitting
<1>3. CASE Connecting
  <2>1. UNCHANGED <<sends, call, req>> BY <1>3 DEF Connecting, Create, Drop, Connected, Connect
  <2> QED BY <1>2, <2>1
<1>4. CASE Preparing
  <2>1. UNCHANGED <<sends, call>>
    BY <1>4 DEF Preparing, BeginPrepare, Reviewed, PrepareFails, AddRequest, Reject,
                ExpireRequest
  <2>2. \A r \in Requests : req[r].st \in Sent => req'[r].st \in Sent
    BY <1>0, <1>4 DEF Preparing, BeginPrepare, Reviewed, PrepareFails, AddRequest, Reject,
                      ExpireRequest, Request
  <2> QED BY <1>2, <2>1, <2>2
<1>5. ASSUME NEW c \in Calls, Proven(c) PROVE Submitted'
  <2> DEFINE r == call[c].r
  <2>1. /\ r \in Requests /\ req[r].st = "pending"
        /\ req' = [req EXCEPT ![r].st = "submitting"] /\ UNCHANGED sends
    BY <1>5, RecordTypes DEF Proven, At, MaySubmit, chain
  <2>2. sends[r] = 0
    <3>1. sends[r] \in Nat /\ sends[r] <= 1 /\ sends[r] # 1
      BY <1>0, <2>1 DEF Submitted, HandledOnce
    <3> QED BY <3>1
  <2>3. PICK v : Go(c, v) BY <1>5 DEF Proven
  <2>4. \A d \in Calls : call'[d].r = call[d].r /\ (d # c => call'[d] = call[d])
    BY <1>0, <2>3 DEF Go, Call, Idle
  <2>5. \A d \in Calls : Before(d)' => sends[call'[d].r] = 0
    BY <2>2, <2>4 DEF Submitted, Submitting
  <2>6. \A q \in Requests : req[q].st \in Sent => req'[q].st \in Sent
    BY <1>0, <2>1 DEF Request
  <2> QED BY <1>1, <2>1, <2>5, <2>6
<1>6. ASSUME NEW c \in Calls, NEW v, Go(c, v), Submitting(c), call[c].at # "mining",
             UNCHANGED <<req, sends>>
      PROVE  Submitted'
  <2>1. \A d \in Calls : call'[d].r = call[d].r /\ (Before(d)' => Before(d))
    BY <1>0, <1>6 DEF Go, Call, Idle, Submitting
  <2> QED BY <1>1, <1>6, <2>1 DEF Submitted
<1>7. ASSUME NEW c \in Calls, Send(c) PROVE Submitted'
  <2> DEFINE r == call[c].r
  <2>1. Before(c) BY <1>7 DEF Send, At, Submitting
  <2>2. r \in Requests /\ req[r].st = "submitting" /\ sends[r] = 0
    BY <2>1, CallsKnown DEF Submitted
  <2>3. UNCHANGED req /\ sends' = [sends EXCEPT ![r] = @ + 1] /\ Go(c, "mining")
    BY <1>7 DEF Send
  <2>4. sends' = [sends EXCEPT ![r] = 1] BY <2>2, <2>3
  <2>5. HandledOnce' BY <1>0, <2>2, <2>3, <2>4 DEF HandledOnce, Submitted
  <2>6. \A d \in Calls : Before(d)' => Before(d) /\ d # c /\ call'[d] = call[d]
    BY <1>0, <2>3 DEF Go, Call, Idle, Submitting
  <2>7. \A d \in Calls : Before(d)' => call[d].r \in Requests /\ call[d].r # r
    BY <2>1, <2>6, CallsKnown DEF Exclusive, Acc
  <2>8. \A d \in Calls : Before(d)' => sends'[call'[d].r] = 0
    BY <1>0, <2>4, <2>6, <2>7 DEF Submitted
  <2> QED BY <2>5, <2>8 DEF Submitted
<1>8. ASSUME NEW c \in Calls, NEW st \in {"signed", "approved", "failed"}, Settled(c, st),
             st = "signed" => call[c].at = "signed", Submitting(c), UNCHANGED sends
      PROVE  Submitted'
  <2> DEFINE r == call[c].r
  <2>1. r \in Requests /\ req' = [req EXCEPT ![r].st = st]
    BY <1>8, CallsKnown DEF Settled
  <2>2. \A q \in Requests : req[q].st \in Sent => req'[q].st \in Sent \/ sends[q] = 0
    BY <1>0, <1>8, <2>1 DEF Request, Submitted
  <2>3. \A d \in Calls : Before(d)' => Before(d) /\ call'[d] = call[d]
    BY <1>0, <1>8 DEF Settled, Idle, Submitting
  <2> QED BY <1>1, <1>8, <2>2, <2>3 DEF Submitted
<1>9. ASSUME NEW c \in Calls, Handle(c) PROVE Submitted'
  <2>1. CASE Proven(c) BY <1>5, <2>1
  <2>2. CASE NotProven(c)
    <3>1. UNCHANGED <<sends, req>> /\ call' = [call EXCEPT ![c] = Idle]
      BY <2>2 DEF NotProven, chain
    <3>2. \A d \in Calls : Before(d)' => Before(d) /\ call'[d] = call[d]
      BY <1>0, <3>1 DEF Idle, Submitting
    <3> QED BY <1>1, <3>1, <3>2 DEF Submitted
  <2>3. CASE NonceChecked(c) \/ CodeChecked(c) \/ NonceCheckedAgain(c) \/ Sponsored(c) \/ Preflight(c)
    <3>1. UNCHANGED <<req, sends>> /\ call[c].at # "mining" /\ Submitting(c) /\ \E v : Go(c, v)
      BY <2>3 DEF NonceChecked, CodeChecked, NonceCheckedAgain, Sponsored, Preflight, At,
                  Submitting
    <3> QED BY <1>6, <3>1
  <2>4. CASE Send(c) BY <1>7, <2>4
  <2>5. CASE Signed(c) \/ Approved(c) \/ Failed(c)
    <3>1. \E st \in {"signed", "approved", "failed"} :
            Settled(c, st) /\ (st = "signed" => call[c].at = "signed")
      BY <2>5 DEF Signed, Approved, Failed, At
    <3>2. Submitting(c) /\ UNCHANGED sends
      BY <2>5 DEF Signed, Approved, Failed, At, Submitting
    <3> QED BY <1>8, <3>1, <3>2
  <2> QED BY <1>9, <2>1, <2>2, <2>3, <2>4, <2>5 DEF Handle
<1>10. CASE Crash
  <2>1. \A c \in Calls : ~Before(c)' BY <1>10 DEF Crash, Idle, Submitting
  <2>2. \A r \in Requests : req'[r].st = req[r].st /\ UNCHANGED sends
    BY <1>0, <1>10 DEF Crash, Request
  <2> QED BY <1>1, <1>10, <2>1, <2>2 DEF Crash
<1>11. ASSUME NEW c \in Calls, NEW r \in Requests, Approve(c, r) PROVE Submitted'
  <2>1. UNCHANGED <<sends, req>> BY <1>11 DEF Approve, chain
  <2>2. \A d \in Calls : Before(d)' => Before(d) /\ call'[d] = call[d]
    BY <1>0, <1>11 DEF Approve, Submitting
  <2> QED BY <1>1, <2>1, <2>2 DEF Submitted
<1>12. CASE Chain \/ UNCHANGED vars
  <2>1. UNCHANGED <<sends, call, req>>
    BY <1>12 DEF Chain, OwnTx, Follow, Failover, Mine, relay, vars
  <2> QED BY <1>2, <2>1
<1> QED BY <1>3, <1>4, <1>9, <1>10, <1>11, <1>12 DEF Next

-----------------------------------------------------------------------------
(* The budget of an account. *)

\* A request is charged once it waits to be sent; only Sponsored charges one more.
LEMMA BudgetedStep ==
  ASSUME Typed, Bound, Exclusive, Submitted, Budgeted, [Next]_vars
  PROVE  Budgeted'
<1>0. /\ req \in [Requests -> Request] /\ call \in [Calls -> Call]
      /\ sends \in [Requests -> Nat] /\ spent \in [Accounts -> Nat]
      /\ \A r \in Requests : req[r].st # "none" => Kept(r)
  BY RequestsKept DEF Typed
<1> DEFINE Paying(c) == call[c].at \in Funded
<1>1. \A r \in Requests : Covered(r) => req[r].st # "none" /\ Kept(r)
  <2>1. \A r \in Requests : sends[r] > 0 => req[r].st # "none"
    BY SentIsKnown DEF Submitted
  <2>2. \A c \in Calls : Paying(c) => req[call[c].r].st # "none"
    BY CallsKnown DEF Submitting, Funded
  <2> QED BY <1>0, <2>1, <2>2 DEF Covered
\* No request is charged that was not, and no charge is taken back.
<1>2. ASSUME UNCHANGED spent,
             \A r \in Requests : Covered(r)' =>
               Covered(r) \/ (req[r].st # "none" /\ req[r].payer # "sponsor")
      PROVE  Budgeted'
  <2> SUFFICES ASSUME NEW a \in Accounts
               PROVE  /\ IsFiniteSet(Charged(a)') /\ Cardinality(Charged(a)') <= spent[a]
                      /\ spent[a] <= AccountLimit
    BY <1>2 DEF Budgeted
  <2>1. IsFiniteSet(Charged(a)) /\ Cardinality(Charged(a)) <= spent[a] /\ spent[a] <= AccountLimit
    BY DEF Budgeted
  <2> DEFINE C == Charged(a)
             D == Charged(a)'
  <2>2. D \subseteq C BY <1>0, <1>1, <1>2 DEF Charged, Kept
  <2>3. IsFiniteSet(C) BY <2>1
  <2> HIDE DEF C, D
  <2>4. IsFiniteSet(D) /\ Cardinality(D) <= Cardinality(C) BY <2>2, <2>3, FS_Subset
  <2>5. Cardinality(C) \in Nat /\ Cardinality(D) \in Nat BY <2>3, <2>4, FS_CardinalityType
  <2>6. spent[a] \in Nat BY <1>0
  <2> QED BY <2>1, <2>4, <2>5, <2>6 DEF C, D
<1>3. ASSUME UNCHANGED <<spent, sends, call>> PROVE Budgeted'
  BY <1>2, <1>3 DEF Covered
<1>4. ASSUME UNCHANGED <<spent, sends>>,
             \A c \in Calls : Paying(c)' => Paying(c) /\ call'[c].r = call[c].r
      PROVE  Budgeted'
  BY <1>2, <1>4 DEF Covered
<1>5. CASE Connecting \/ Preparing \/ Chain \/ UNCHANGED vars
  <2>1. UNCHANGED <<spent, sends, call>>
    BY <1>5 DEF Connecting, Create, Drop, Connected, Connect, Preparing, BeginPrepare, Reviewed,
                PrepareFails, AddRequest, Reject, ExpireRequest, Chain, OwnTx, Follow,
                Failover, Mine, relay, vars
  <2> QED BY <1>3, <2>1
<1>6. CASE Crash
  BY <1>4, <1>6 DEF Crash, Funded, Idle
<1>7. ASSUME NEW c \in Calls, NEW r \in Requests, Approve(c, r) PROVE Budgeted'
  BY <1>0, <1>4, <1>7 DEF Approve, Funded
<1>8. ASSUME NEW c \in Calls, Proven(c) PROVE Budgeted'
  <2> DEFINE r == call[c].r
  <2>1. r \in Requests /\ req[r].st = "pending" /\ UNCHANGED <<spent, sends>>
    BY <1>8, RecordTypes DEF Proven, At, MaySubmit, chain
  <2>2. PICK v \in Stages : Go(c, v) /\ (v \in Funded => req[r].payer # "sponsor")
    <3>1. req[r].payer \in Payers BY <2>1, RecordTypes
    <3> QED BY <1>8, <3>1 DEF Proven, Payers, Stages, Funded
  <2>3. \A d \in Calls : /\ call'[d].r = call[d].r /\ (d # c => call'[d] = call[d])
                         /\ call'[c].at = v
    BY <1>0, <2>2 DEF Go, Call, Idle
  <2> QED BY <1>2, <2>1, <2>2, <2>3 DEF Covered
<1>9. ASSUME NEW c \in Calls, NEW v, Go(c, v), Paying(c) \/ v \notin Funded, UNCHANGED <<spent, sends>>
      PROVE  Budgeted'
  <2>1. \A d \in Calls : Paying(d)' => Paying(d) /\ call'[d].r = call[d].r
    BY <1>0, <1>9 DEF Go, Call, Idle
  <2> QED BY <1>4, <1>9, <2>1
<1>10. ASSUME NEW c \in Calls, Sponsored(c) PROVE Budgeted'
  <2> DEFINE r == call[c].r
             b == Acc(c)
  <2>1. /\ r \in Requests /\ b \in Accounts /\ req[r].a = b
    BY <1>10, CallsKnown DEF Sponsored, At, Submitting, Acc
  <2>2. /\ UNCHANGED <<sends, req>> /\ spent' = [spent EXCEPT ![b] = @ + 1]
        /\ spent[b] < AccountLimit /\ Go(c, "preflight")
    BY <1>10 DEF Sponsored, Charge, WithinBudget, chain
  <2>3. \A d \in Calls : /\ call'[d].r = call[d].r
                         /\ Paying(d)' => Paying(d) \/ d = c
    BY <1>0, <2>2 DEF Go, Call, Idle
  <2>4. \A q \in Requests : Covered(q)' => Covered(q) \/ q = r
    BY <2>2, <2>3 DEF Covered
  <2> HIDE DEF r, b
  <2> SUFFICES ASSUME NEW a \in Accounts
               PROVE  /\ IsFiniteSet(Charged(a)') /\ Cardinality(Charged(a)') <= spent'[a]
                      /\ spent'[a] <= AccountLimit
    BY DEF Budgeted
  <2> DEFINE C == Charged(a)
             D == Charged(a)'
  <2>5. IsFiniteSet(C) /\ Cardinality(C) <= spent[a] /\ spent[a] <= AccountLimit
    BY DEF Budgeted
  <2>6. D \subseteq C \cup {r} /\ (a # b => D \subseteq C)
    BY <2>1, <2>2, <2>4 DEF Charged
  <2>7. spent[a] \in Nat /\ AccountLimit \in Nat /\ spent'[a] = IF a = b THEN spent[a] + 1 ELSE spent[a]
    BY <1>0, <2>1, <2>2, Bounds
  <2> HIDE DEF C, D
  <2>8. IsFiniteSet(C \cup {r}) /\ Cardinality(C \cup {r}) <= Cardinality(C) + 1
    BY <2>5, FS_AddElement, FS_CardinalityType
  <2>9. /\ IsFiniteSet(D) /\ Cardinality(D) <= Cardinality(C \cup {r})
        /\ a # b => Cardinality(D) <= Cardinality(C)
    BY <2>5, <2>6, <2>8, FS_Subset
  <2>10. /\ Cardinality(C) \in Nat /\ Cardinality(D) \in Nat
         /\ Cardinality(C \cup {r}) \in Nat
    BY <2>5, <2>8, <2>9, FS_CardinalityType
  <2> QED BY <2>2, <2>5, <2>7, <2>8, <2>9, <2>10 DEF C, D
<1>11. ASSUME NEW c \in Calls, Send(c) PROVE Budgeted'
  <2> DEFINE r == call[c].r
  <2>1. /\ Paying(c) /\ r \in Requests /\ UNCHANGED spent
        /\ sends' = [sends EXCEPT ![r] = @ + 1] /\ Go(c, "mining")
    BY <1>11, RecordTypes DEF Send, At, Funded
  <2>2. \A d \in Calls : Paying(d)' => Paying(d) /\ call'[d].r = call[d].r
    BY <1>0, <2>1 DEF Go, Call, Idle
  <2>3. \A q \in Requests \ {r} : sends'[q] = sends[q] BY <1>0, <2>1
  <2>4. Covered(r) BY <2>1 DEF Covered
  <2> HIDE DEF r
  <2> QED BY <1>2, <2>1, <2>2, <2>3, <2>4 DEF Covered
<1>12. ASSUME NEW c \in Calls, Handle(c) PROVE Budgeted'
  <2>1. CASE NotProven(c) \/ Signed(c) \/ Approved(c) \/ Failed(c)
    <3>1. UNCHANGED <<spent, sends>> /\ call' = [call EXCEPT ![c] = Idle]
      BY <2>1 DEF NotProven, Signed, Approved, Failed, Settled, chain
    <3>2. \A d \in Calls : Paying(d)' => Paying(d) /\ call'[d].r = call[d].r
      BY <1>0, <3>1 DEF Idle, Funded
    <3> QED BY <1>4, <3>1, <3>2
  <2>2. CASE NonceChecked(c) \/ CodeChecked(c) \/ NonceCheckedAgain(c)
    BY <1>9, <2>2 DEF NonceChecked, CodeChecked, NonceCheckedAgain, Funded, chain
  <2>3. CASE Preflight(c) BY <1>9, <2>3 DEF Preflight, At, Funded, chain
  <2> QED BY <1>8, <1>10, <1>11, <1>12, <2>1, <2>2, <2>3 DEF Handle
<1> QED BY <1>5, <1>6, <1>7, <1>12 DEF Next

-----------------------------------------------------------------------------
(* The code of a sponsored account. *)

\* A node that is a block behind is never taken during the bracketed reads.
LEMMA ViewBehind ==
  ASSUME Typed, Typed', Bound, OnChain, HandledOnce, Bracket, [Next]_vars
  PROVE  \A a \in Accounts : /\ view'[a] <= Len(hist'[a])
                             /\ Bracketed(a) => view[a] <= view'[a]
<1> SUFFICES ASSUME NEW a \in Accounts
             PROVE  view'[a] <= Len(hist'[a]) /\ (Bracketed(a) => view[a] <= view'[a])
  OBVIOUS
<1>1. /\ view \in [Accounts -> Nat] /\ view[a] \in Nat /\ Len(hist[a]) \in Nat
      /\ view[a] <= Len(hist[a])
  BY HistTypes DEF Typed, Bracket
<1>2. Len(hist'[a]) \in Nat /\ Len(hist[a]) <= Len(hist'[a])
  <2>1. Len(hist'[a]) \in Nat BY LenProperties DEF Typed
  <2>2. Extended(a) BY HistoryGrows
  <2> QED BY <2>1, <2>2 DEF Extended
<1>3. CASE UNCHANGED view BY <1>1, <1>2, <1>3
<1>4. ASSUME NEW b \in Accounts, Follow(b)
      PROVE  view'[a] <= Len(hist'[a]) /\ (Bracketed(a) => view[a] <= view'[a])
  BY <1>1, <1>2, <1>4 DEF Follow
<1>5. ASSUME NEW b \in Accounts, Failover(b)
      PROVE  view'[a] <= Len(hist'[a]) /\ (Bracketed(a) => view[a] <= view'[a])
  <2>1. view' = [view EXCEPT ![b] = @ - 1] /\ ~Bracketed(b) BY <1>5 DEF Failover
  <2>2. CASE a = b
    <3>1. view'[a] = view[a] - 1 BY <1>1, <2>1, <2>2
    <3> QED BY <1>1, <1>2, <2>1, <2>2, <3>1
  <2>3. CASE a # b
    <3>1. view'[a] = view[a] BY <1>1, <2>1, <2>3
    <3> QED BY <1>1, <1>2, <3>1
  <2> QED BY <2>2, <2>3
<1>6. \/ UNCHANGED view
      \/ \E b \in Accounts : Follow(b) \/ Failover(b)
  BY DEF Next, Connecting, Create, Drop, Connected, Connect, Preparing, BeginPrepare,
         Reviewed, PrepareFails, AddRequest, Reject, ExpireRequest, Chain, OwnTx, Mine,
         Crash, Approve, Handle, Proven, NotProven, NonceChecked, CodeChecked,
         NonceCheckedAgain, Sponsored, Preflight, Send, Signed, Approved, Failed, chain,
         relay, vars
<1> QED BY <1>3, <1>4, <1>5, <1>6

LEMMA OnStandardStays ==
  ASSUME Typed, NEW r \in Requests, Kept(r), req[r].a \in Accounts, Extended(req[r].a),
         OnStandard(r)
  PROVE  OnStandard(r)'
<1> DEFINE a == req[r].a
           n == req[r].nonce
<1>1. n \in Nat /\ a \in Accounts /\ n <= Len(hist[a]) BY RecordTypes DEF OnStandard
<1>2. req'[r].a = a /\ req'[r].nonce = n BY DEF Kept
<1>3. Standard(a, n) /\ Extended(a) BY DEF OnStandard
<1> HIDE DEF a, n
<1>4. n <= Len(hist'[a]) /\ (n = 0 \/ hist'[a][n].std)
  BY <1>1, <1>3, HistTypes DEF Standard, Extended
<1> QED BY <1>2, <1>4 DEF OnStandard, Standard

\* A call that stays where it is stays pinned, whatever the chain does.
LEMMA PinnedStays ==
  ASSUME Typed, Typed', Bound, Exclusive, OnChain, HandledOnce, Bracket, [Next]_vars,
         NEW c \in Calls, Submitting(c), call'[c] = call[c]
  PROVE  Pinned(c)'
<1> DEFINE r == call[c].r
           a == req[r].a
           n == req[r].nonce
<1>1. r \in Requests /\ a \in Accounts /\ n \in Nat /\ Acc(c) = a
  BY CallsKnown, RecordTypes DEF Acc
<1>2. Kept(r) BY <1>1, RequestsKept, CallsKnown
<1>3. req'[r].a = a /\ req'[r].nonce = n /\ req'[r].payer = req[r].payer BY <1>2 DEF Kept
<1>4. Extended(a) BY <1>1, HistoryGrows
<1>5. OnStandard(r) => OnStandard(r)' BY <1>1, <1>2, <1>4, OnStandardStays
<1>6. Pinned(c) BY DEF Bracket
<1>7. view[a] \in Nat /\ view'[a] \in Nat /\ Len(hist[a]) \in Nat /\ view[a] <= Len(hist[a])
  BY <1>1, HistTypes DEF Typed, Bracket
<1>8. Bracketed(a) => view[a] <= view'[a] BY <1>1, ViewBehind
<1>9. call[c].at \in {"code", "again"} => Bracketed(a) BY <1>1 DEF Bracketed
<1>10. Acc(c)' = a /\ call'[c].r = r BY <1>3 DEF Acc
<1>11. call[c].at \in {"code", "again"} => view'[a] >= n
  BY <1>1, <1>6, <1>7, <1>8, <1>9 DEF Pinned
<1>12. call[c].at = "again" /\ view'[a] = n => Standard(a, n)'
  <2> SUFFICES ASSUME call[c].at = "again", view'[a] = n PROVE Standard(a, n)'
    OBVIOUS
  <2>1. view[a] = n BY <1>1, <1>6, <1>7, <1>8, <1>9 DEF Pinned
  <2>2. Standard(a, n) BY <1>1, <1>6, <2>1 DEF Pinned
  <2> HIDE DEF a, n
  <2>3. n = 0 \/ hist'[a][n].std
    BY <1>1, <1>4, <1>7, <2>1, <2>2 DEF Standard, Extended
  <2> QED BY <1>3, <2>3 DEF Standard, a, n
<1>13. call[c].at \in {"capacity"} \cup Funded /\ req[r].payer = "sponsor" => OnStandard(r)'
  BY <1>5, <1>6 DEF Pinned
<1> QED BY <1>3, <1>10, <1>11, <1>12, <1>13 DEF Pinned, Standard

LEMMA BracketStep ==
  ASSUME Typed, Typed', Bound, Exclusive, OnChain, HandledOnce, Bracket, [Next]_vars
  PROVE  Bracket'
<1>0. call \in [Calls -> Call] BY DEF Typed
<1> DEFINE Early(c) == call'[c].at \in {"idle", "proof"}
<1>1. \A c \in Calls : Early(c) => Pinned(c)' BY DEF Pinned, Funded
<1>2. ASSUME \A c \in Calls : Early(c) \/ call'[c] = call[c] \/ Pinned(c)'
      PROVE  Bracket'
  <2>1. ASSUME NEW c \in Calls PROVE Pinned(c)'
    <3>1. CASE call'[c] = call[c] /\ ~Early(c)
      <4>1. Submitting(c) BY <3>1 DEF Submitting
      <4> QED BY <3>1, <4>1, PinnedStays
    <3> QED BY <1>1, <1>2, <3>1
  <2> QED BY <2>1, ViewBehind DEF Bracket
<1>3. CASE Connecting \/ Preparing \/ Chain \/ UNCHANGED vars
  <2>1. UNCHANGED call
    BY <1>3 DEF Connecting, Create, Drop, Connected, Connect, Preparing, BeginPrepare, Reviewed,
                PrepareFails, AddRequest, Reject, ExpireRequest, Chain, OwnTx, Follow,
                Failover, Mine, relay, vars
  <2> QED BY <1>2, <2>1
<1>4. CASE Crash BY <1>2, <1>4 DEF Crash, Idle
<1>5. ASSUME NEW c \in Calls, NEW r \in Requests, Approve(c, r) PROVE Bracket'
  BY <1>0, <1>2, <1>5 DEF Approve
<1>6. ASSUME NEW c \in Calls, NEW v, Go(c, v), Pinned(c)' PROVE Bracket'
  BY <1>0, <1>2, <1>6 DEF Go
\* The request, the account's code and what the node says stay, while a call goes on.
<1>7. ASSUME NEW c \in Calls, NEW v, Go(c, v), call[c].at # "idle",
             UNCHANGED <<req, hist, view>>
      PROVE  /\ call'[c].at = v /\ call'[c].r = call[c].r /\ Acc(c)' = Acc(c)
             /\ \A r : OnStandard(r)' = OnStandard(r)
             /\ \A a, n : Standard(a, n)' = Standard(a, n)
  <2>1. call'[c].at = v /\ call'[c].r = call[c].r BY <1>0, <1>7 DEF Go, Call, Idle
  <2> QED BY <1>7, <2>1 DEF Acc, OnStandard, Standard
<1>8. ASSUME NEW c \in Calls, Proven(c) PROVE Bracket'
  <2> DEFINE r == call[c].r
  <2>1. /\ r \in Requests /\ req[r].st = "pending" BY <1>8, RecordTypes DEF Proven, At, MaySubmit
  <2>2. req[r].payer \in Payers /\ Kept(r) BY <2>1, RecordTypes, RequestsKept
  <2>3. PICK v \in Stages : /\ Go(c, v) /\ v \in {"nonce", "preflight", "signed"}
                            /\ v = "preflight" => req[r].payer # "sponsor"
    BY <1>8, <2>2 DEF Proven, Payers, Stages
  <2>4. call'[c].at = v /\ call'[c].r = r BY <1>0, <1>8, <2>3 DEF Go, Call, Idle, Proven, At
  <2>5. Pinned(c)' BY <2>2, <2>3, <2>4 DEF Pinned, Kept, Funded
  <2> QED BY <1>6, <2>3, <2>5
<1>9. ASSUME NEW c \in Calls, NonceChecked(c) PROVE Bracket'
  <2>1. /\ Go(c, "code") /\ call[c].at = "nonce" /\ UNCHANGED <<req, hist, view>>
        /\ view[Acc(c)] = req[call[c].r].nonce
    BY <1>9 DEF NonceChecked, At, SameNonce, chain
  <2>2. call[c].r \in Requests /\ req[call[c].r].nonce \in Nat BY <2>1, RecordTypes
  <2>3. call'[c].at = "code" /\ call'[c].r = call[c].r /\ Acc(c)' = Acc(c) BY <1>7, <2>1
  <2>4. Pinned(c)' BY <2>1, <2>2, <2>3 DEF Pinned, Funded
  <2> QED BY <1>6, <2>1, <2>4
<1>10. ASSUME NEW c \in Calls, CodeChecked(c) PROVE Bracket'
  <2>1. /\ Go(c, "again") /\ call[c].at = "code" /\ UNCHANGED <<req, hist, view>>
        /\ Standard(Acc(c), view[Acc(c)])
    BY <1>10 DEF CodeChecked, At, chain
  <2>2. view[Acc(c)] >= req[call[c].r].nonce BY <2>1 DEF Bracket, Pinned
  <2>3. call'[c].at = "again" /\ call'[c].r = call[c].r /\ Acc(c)' = Acc(c) BY <1>7, <2>1
  <2>4. Pinned(c)' BY <2>1, <2>2, <2>3 DEF Pinned, Funded, Standard
  <2> QED BY <1>6, <2>1, <2>4
<1>11. ASSUME NEW c \in Calls, NonceCheckedAgain(c) PROVE Bracket'
  <2>1. /\ Go(c, "capacity") /\ call[c].at = "again" /\ UNCHANGED <<req, hist, view>>
        /\ view[Acc(c)] = req[call[c].r].nonce
    BY <1>11 DEF NonceCheckedAgain, At, SameNonce, chain
  <2>2. Standard(Acc(c), req[call[c].r].nonce) BY <2>1 DEF Bracket, Pinned
  <2>3. Acc(c) \in Accounts BY <2>1, CallsKnown DEF Submitting
  <2>4. OnStandard(call[c].r) BY <2>1, <2>2, <2>3 DEF OnStandard, Bracket, Acc
  <2>5. call'[c].at = "capacity" /\ call'[c].r = call[c].r /\ OnStandard(call[c].r)' BY <1>7, <2>1, <2>4
  <2>6. Pinned(c)' BY <2>5 DEF Pinned
  <2> QED BY <1>6, <2>1, <2>6
<1>12. ASSUME NEW c \in Calls, NEW v \in Funded, Go(c, v),
              call[c].at \in {"capacity"} \cup Funded, UNCHANGED <<req, hist, view>>
       PROVE  Bracket'
  <2>1. Pinned(c) BY DEF Bracket
  <2>2. call'[c].at = v /\ call'[c].r = call[c].r BY <1>7, <1>12 DEF Funded
  <2>3. OnStandard(call[c].r)' = OnStandard(call[c].r) BY <1>7, <1>12 DEF Funded
  <2>4. Pinned(c)' BY <1>12, <2>1, <2>2, <2>3 DEF Pinned, Funded
  <2> QED BY <1>6, <1>12, <2>4
<1>13. ASSUME NEW c \in Calls, Handle(c) PROVE Bracket'
  <2>1. CASE NotProven(c) \/ Signed(c) \/ Approved(c) \/ Failed(c)
    <3>1. call' = [call EXCEPT ![c] = Idle]
      BY <2>1 DEF NotProven, Signed, Approved, Failed, Settled
    <3> QED BY <1>0, <1>2, <3>1 DEF Idle
  <2>2. CASE Sponsored(c) \/ Preflight(c) \/ Send(c)
    <3>1. /\ \E v \in Funded : Go(c, v)
          /\ call[c].at \in {"capacity"} \cup Funded /\ UNCHANGED <<req, hist, view>>
      BY <2>2 DEF Sponsored, Preflight, Send, At, Funded, chain
    <3> QED BY <1>12, <3>1
  <2> QED BY <1>8, <1>9, <1>10, <1>11, <1>13, <2>1, <2>2 DEF Handle
<1> QED BY <1>3, <1>4, <1>5, <1>13 DEF Next

\* What is in a pool or a history was broadcast, so it stays what it is.
LEMMA BroadcastKept ==
  ASSUME Typed, Bound, Exclusive, HandledOnce, [Next]_vars,
         NEW r \in Requests, sends[r] > 0
  PROVE  Kept(r) /\ req[r].a \in Accounts /\ sends'[r] > 0
<1>0. call \in [Calls -> Call] /\ sends \in [Requests -> Nat] BY DEF Typed
<1>1. req[r].st \in {"submitting", "approved", "failed"} /\ req[r].a \in Accounts
  BY SentIsKnown
<1>2. Kept(r) BY <1>1, RequestsKept
<1>3. ASSUME NEW c \in Calls, Send(c) PROVE sends'[r] > 0
  <2> DEFINE q == call[c].r
  <2>1. q \in Requests /\ sends' = [sends EXCEPT ![q] = @ + 1]
    BY <1>3, RecordTypes DEF Send, At
  <2> HIDE DEF q
  <2>2. sends'[r] = IF r = q THEN sends[r] + 1 ELSE sends[r] BY <1>0, <2>1
  <2>3. sends[r] \in Nat BY <1>0
  <2> QED BY <2>2, <2>3
<1>4. UNCHANGED sends \/ \E c \in Calls : Send(c)
  BY DEF Next, Connecting, Create, Drop, Connected, Connect, Preparing, BeginPrepare,
         Reviewed, PrepareFails, AddRequest, Reject, ExpireRequest, Chain, OwnTx, Mine,
         Follow, Failover, Crash, Approve, Handle, Proven, NotProven, NonceChecked,
         CodeChecked, NonceCheckedAgain, Sponsored, Preflight, Signed, Approved, Failed,
         chain, relay, vars
<1> QED BY <1>1, <1>2, <1>3, <1>4

LEMMA OnChainStep ==
  ASSUME Typed, Bound, Exclusive, HandledOnce, Bracket, OnChain, [Next]_vars
  PROVE  OnChain'
<1>0. /\ \A a \in Accounts : /\ Len(hist[a]) \in Nat /\ Extended(a)
                             /\ \A n \in 1..Len(hist[a]) : hist[a][n].r \in Requests \cup {None}
      /\ pool \subseteq Requests
  BY HistTypes, HistoryGrows DEF Typed, Entries
<1>1. \A r \in Requests : sends[r] > 0 => Kept(r) /\ req[r].a \in Accounts /\ sends'[r] > 0
  BY BroadcastKept
<1> DEFINE InPool(r) == sends'[r] > 0 /\ (req'[r].payer = "sponsor" => OnStandard(r)')
           InPlace(a, n) == hist'[a][n].r # None =>
             /\ sends'[hist'[a][n].r] > 0
             /\ req'[hist'[a][n].r].payer = "sponsor" => Standard(a, n - 1)'
<1>2. ASSUME \A r \in pool' : InPool(r),
             \A a \in Accounts : \A n \in 1..Len(hist'[a]) : InPlace(a, n)
      PROVE  OnChain'
  BY <1>2 DEF OnChain, SponsoredOnStandard
<1>3. \A r \in pool : InPool(r)
  <2> TAKE r \in pool
  <2>1. r \in Requests /\ sends[r] > 0 /\ (req[r].payer = "sponsor" => OnStandard(r))
    BY <1>0 DEF OnChain
  <2>2. Kept(r) /\ req[r].a \in Accounts /\ sends'[r] > 0 BY <1>1, <2>1
  <2>3. OnStandard(r) => OnStandard(r)' BY <1>0, <2>1, <2>2, OnStandardStays
  <2> QED BY <2>1, <2>2, <2>3 DEF Kept
<1>4. \A a \in Accounts : \A n \in 1..Len(hist[a]) : InPlace(a, n)
  <2> TAKE a \in Accounts
  <2> TAKE n \in 1..Len(hist[a])
  <2> DEFINE q == hist[a][n].r
  <2>1. hist'[a][n].r = q BY <1>0 DEF Extended
  <2> SUFFICES ASSUME q # None
               PROVE  sends'[q] > 0 /\ (req'[q].payer = "sponsor" => Standard(a, n - 1)')
    BY <2>1
  <2>2. q \in Requests /\ sends[q] > 0 BY <1>0 DEF OnChain
  <2>3. sends'[q] > 0 /\ req'[q].payer = req[q].payer BY <1>1, <2>2 DEF Kept
  <2>4. req[q].payer = "sponsor" => Standard(a, n - 1) BY DEF OnChain, SponsoredOnStandard
  <2> HIDE DEF q
  <2>5. Standard(a, n - 1) => Standard(a, n - 1)'
    <3>1. CASE n = 1 BY <3>1 DEF Standard
    <3>2. CASE n # 1
      <4>1. n - 1 \in 1..Len(hist[a]) BY <1>0, <3>2
      <4> QED BY <1>0, <3>2, <4>1 DEF Standard, Extended
    <3> QED BY <3>1, <3>2
  <2> QED BY <2>3, <2>4, <2>5
<1>5. ASSUME pool' \subseteq pool, UNCHANGED hist PROVE OnChain'
  BY <1>2, <1>3, <1>4, <1>5
<1>6. ASSUME NEW a \in Accounts, NEW e \in Entries, Appended(a, e), pool' \subseteq pool,
             e.r # None => /\ e.r \in pool
                           /\ req[e.r].payer = "sponsor" => Standard(a, Len(hist[a]))
      PROVE  OnChain'
  <2>0. PICK k \in Nat : k = Len(hist[a]) + 1 BY <1>0
  <2>1. hist'[a] = Append(hist[a], e) /\ \A b \in Accounts \ {a} : hist'[b] = hist[b]
    BY <1>6 DEF Appended, Typed
  <2>2. Len(hist'[a]) = k /\ hist'[a][k] = e
    BY <2>0, <2>1, HistTypes, AppendProperties
  <2>3. InPlace(a, k)
    <3> SUFFICES ASSUME e.r # None
                 PROVE  /\ sends'[e.r] > 0
                        /\ req'[e.r].payer = "sponsor" => Standard(a, k - 1)'
      BY <2>2
    <3>1. e.r \in Requests /\ sends[e.r] > 0 BY <1>0, <1>6 DEF OnChain
    <3>2. sends'[e.r] > 0 /\ req'[e.r].payer = req[e.r].payer BY <1>1, <3>1 DEF Kept
    <3>3. Standard(a, Len(hist[a])) => Standard(a, k - 1)'
      <4>1. k - 1 = Len(hist[a]) BY <1>0, <2>0
      <4>2. CASE k = 1 BY <4>2 DEF Standard
      <4>3. CASE k # 1
        <5>1. k - 1 \in 1..Len(hist[a]) BY <1>0, <4>1, <4>3
        <5> QED BY <1>0, <4>1, <4>3, <5>1 DEF Standard, Extended
      <4> QED BY <4>2, <4>3
    <3> QED BY <1>6, <3>2, <3>3
  <2>4. ASSUME NEW b \in Accounts, NEW n \in 1..Len(hist'[b]) PROVE InPlace(b, n)
    <3>1. CASE b = a /\ n = k BY <2>3, <3>1
    <3>2. CASE ~(b = a /\ n = k)
      <4>1. n \in 1..Len(hist[b]) BY <1>0, <2>0, <2>1, <2>2, <3>2
      <4> QED BY <1>4, <4>1
    <3> QED BY <3>1, <3>2
  <2> QED BY <1>2, <1>3, <1>6, <2>4
<1>7. ASSUME NEW a \in Accounts, OwnTx(a) PROVE OnChain'
  <2>1. pool' = pool BY <1>7 DEF OwnTx
  <2> QED BY <1>6, <1>7, <2>1, OwnTxAppends
<1>8. ASSUME NEW r \in Requests, Mine(r) PROVE OnChain'
  <2>1. r \in pool /\ pool' \subseteq pool /\ (req[r].payer = "sponsor" => OnStandard(r))
    BY <1>8 DEF Mine, OnChain
  <2>2. req[r].a \in Accounts /\ Len(hist[req[r].a]) = req[r].nonce BY <1>8, MineAppends
  <2>3. PICK e \in Entries : e.r = r /\ Appended(req[r].a, e) BY <1>8, MineAppends
  <2> QED BY <1>6, <2>1, <2>2, <2>3 DEF OnStandard
<1>9. ASSUME NEW c \in Calls, Send(c) PROVE OnChain'
  <2>0. PICK r \in Requests : r = call[c].r BY <1>9, RecordTypes DEF Send, At
  <2>1. /\ call[c].at = "queued" /\ pool' \subseteq pool \cup {r}
        /\ sends' = [sends EXCEPT ![r] = @ + 1] /\ UNCHANGED <<hist, req>>
    BY <1>9, <2>0 DEF Send, At
  <2>2. sends'[r] > 0
    <3>1. sends \in [Requests -> Nat] BY DEF Typed
    <3>2. sends'[r] = sends[r] + 1 /\ sends[r] \in Nat BY <2>1, <3>1
    <3> QED BY <3>2
  <2>3. req[r].payer = "sponsor" => OnStandard(r)
    BY <2>0, <2>1 DEF Bracket, Pinned, Funded
  <2>4. InPool(r) BY <2>1, <2>2, <2>3 DEF OnStandard, Standard
  <2> QED BY <1>2, <1>3, <1>4, <2>1, <2>4
<1>10. \/ pool' = pool /\ UNCHANGED hist
       \/ \E a \in Accounts : OwnTx(a)
       \/ \E r \in Requests : Mine(r)
       \/ \E c \in Calls : Send(c)
  BY DEF Next, Connecting, Create, Drop, Connected, Connect, Preparing, BeginPrepare,
         Reviewed, PrepareFails, AddRequest, Reject, ExpireRequest, Chain,
         Follow, Failover, Crash, Approve, Handle, Proven, NotProven, NonceChecked,
         CodeChecked, NonceCheckedAgain, Sponsored, Preflight, Signed, Approved, Failed,
         chain, relay, vars
<1> QED BY <1>5, <1>7, <1>8, <1>9, <1>10

-----------------------------------------------------------------------------
(* The invariant, and what follows from it. *)

LEMMA NextRelay == RelayInv /\ [Next]_vars => RelayInv'
<1> SUFFICES ASSUME Typed, Bound, Exclusive, Submitted, Budgeted, Bracket, OnChain, [Next]_vars
             PROVE  RelayInv'
  BY DEF RelayInv
<1>1. HandledOnce BY DEF Submitted
<1>2. Typed'
  <2>1. ASSUME NEW c \in Calls, Handle(c) PROVE Typed'
    BY <2>1, HandleTyped
  <2> QED BY <1>1, <2>1, ConnectingTyped, PreparingTyped, ChainTyped, RestTyped DEF Next
<1>3. Bound' BY BoundStep
<1>4. Exclusive' BY ExclusiveStep
<1>5. Submitted' BY SubmittedStep
<1>6. Budgeted' BY BudgetedStep
<1>7. Bracket' BY <1>1, <1>2, BracketStep
<1>8. OnChain' BY <1>1, OnChainStep
<1> QED BY <1>2, <1>3, <1>4, <1>5, <1>6, <1>7, <1>8 DEF RelayInv

\* The inductive invariant: who holds the lock of an account, what every call of
\* dappApprove has established at its await, and what the budget file has counted.
THEOREM RelayHolds == Spec => []RelayInv
<1>1. Init => RelayInv BY InitRelay
<1>2. RelayInv /\ [Next]_vars => RelayInv' BY NextRelay
<1> QED BY <1>1, <1>2, PTL DEF Spec

\* A set no two elements of which differ has at most one.
LEMMA AtMostOne ==
  ASSUME NEW S, \A x, y \in S : x = y
  PROVE  Cardinality(S) <= 1
<1>1. CASE S = {} BY <1>1, FS_EmptySet
<1>2. ASSUME NEW x \in S PROVE Cardinality(S) <= 1
  <2>1. S = {x} BY <1>2
  <2> QED BY <2>1, FS_Singleton
<1> QED BY <1>1, <1>2

\* One pending, preparing or submitting request of an account at a time, across
\* websites, and while a session disconnects or expires during its broadcast.
THEOREM OneRequestAtATime == Spec => []OneAtATime
<1>1. RelayInv => OneAtATime
  <2> SUFFICES ASSUME Typed, Exclusive, NEW a \in Accounts
               PROVE  Cardinality(UnderWay(a)) <= 1
    BY DEF RelayInv, OneAtATime
  <2>1. ASSUME NEW x \in UnderWay(a)
        PROVE  \/ \E s \in Sessions : x = <<"prepare", s>> /\ InPrep(s) /\ sess[s].addr = a
               \/ \E r \in Requests : x = <<"request", r>> /\ Current(r) /\ req[r].a = a
               \/ \E c \in Calls : x = <<"request", call[c].r>> /\ Submitting(c) /\ Acc(c) = a
    BY <2>1 DEF UnderWay, InPrep, Current
  <2>2. ASSUME NEW x \in UnderWay(a), NEW y \in UnderWay(a) PROVE x = y
    BY <2>1, <2>2 DEF Exclusive
  <2> QED BY <2>2, AtMostOne
<1> QED BY <1>1, RelayHolds, PTL

\* A request is broadcast at most once, and never one that was rejected while its
\* passkey proof was being checked.
THEOREM SubmittedOnce == Spec => []HandledOnce
<1>1. RelayInv => HandledOnce BY DEF RelayInv, Submitted
<1> QED BY <1>1, RelayHolds, PTL

\* What the sponsor co-signed is within the account's budget, failed and ambiguous
\* submissions and restarts included.
THEOREM SponsorWithinBudget == Spec => []SponsoredWithinBudget
<1>1. RelayInv => SponsoredWithinBudget
  <2> SUFFICES ASSUME Typed, Budgeted, NEW a \in Accounts
               PROVE  Cardinality(SponsoredSends(a)) <= AccountLimit
    BY DEF RelayInv, SponsoredWithinBudget
  <2>1. SponsoredSends(a) \subseteq Charged(a) BY DEF SponsoredSends, Charged, Covered
  <2>2. IsFiniteSet(Charged(a)) /\ Cardinality(Charged(a)) <= spent[a] /\ spent[a] <= AccountLimit
    BY DEF Budgeted
  <2> DEFINE C == Charged(a)
             D == SponsoredSends(a)
  <2> HIDE DEF C, D
  <2>3. IsFiniteSet(C) /\ D \subseteq C BY <2>1, <2>2 DEF C, D
  <2>4. IsFiniteSet(D) /\ Cardinality(D) <= Cardinality(C) BY <2>3, FS_Subset
  <2>5. Cardinality(C) \in Nat /\ Cardinality(D) \in Nat BY <2>3, <2>4, FS_CardinalityType
  <2>6. spent[a] \in Nat /\ AccountLimit \in Nat BY Bounds DEF Typed
  <2> QED BY <2>2, <2>4, <2>5, <2>6 DEF C, D
<1> QED BY <1>1, RelayHolds, PTL

\* A co-signed transaction only ever executes on the standard account code.
THEOREM SponsorOnStandardCode == Spec => []SponsoredOnStandard
<1>1. RelayInv => SponsoredOnStandard BY DEF RelayInv, OnChain
<1> QED BY <1>1, RelayHolds, PTL
===============================================================================
