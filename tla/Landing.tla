------------------------------- MODULE Landing -------------------------------
(***************************************************************************)
(* The landing of one account's conversions on Koinos: guardian polling,   *)
(* the sponsor's redeem and the passkey taps (tools/funding.js), with the  *)
(* awaits FundingV2 leaves out.  The tick's handlers and prepareTapOps     *)
(* read a job, await the network, and save {...j}: the snapshot they read. *)
(* Replies of submitted transactions finish whatever job the account has   *)
(* by then.  chain.js' queueTx sends one transaction at a time and holds   *)
(* the queue until it is mined or 90 seconds have passed.                  *)
(***************************************************************************)
EXTENDS Naturals

CONSTANTS
  Routes,   \* routes converted by: "B" ends in a KoinDX swap, "C" in KOIN
  Kinds,    \* who may claim a deposit's record, see Kind
  MaxJobs   \* bound: conversions started

\* "relayer": the record names the sponsor and the bridge lets it claim;
\* "refused": it names the sponsor, but the bridge asks for the recipient;
\* "recipient": it names nobody, so only the recipient's passkey may claim.
Kind == {"relayer", "refused", "recipient"}
Status == {"converting", "awaiting_signatures", "request_signatures",
           "awaiting_redeem", "awaiting_swap", "done", "error"}
Deposit == [id : 1..MaxJobs, route : {"B", "C"}, kind : Kind]
Job == [dep : Deposit, status : Status, failedAt : Status \cup {"none"}, needsTap : BOOLEAN]
Tx  == [dep : Deposit, step : {"redeem", "koindx"}, by : {"sponsor", "passkey"}]
Result == {"none", "ok", "already", "refused", "quorum", "slippage"}

ASSUME InstanceIsSmall == Routes \subseteq {"B", "C"} /\ Kinds \subseteq Kind /\ MaxJobs \in Nat

VARIABLES
  job,      \* S.store.jobs of the account: {} or one job; durable
  lastId,   \* conversions started
  driver,   \* BUSY: the tick's handler in flight and the job it read
  readers,  \* jobs that prepareTapOps calls in flight have read
  refs,     \* PREPARED: transactions waiting for their passkey signature
  queue,    \* queueTx: the transaction it is waiting for, if any
  pool,     \* transactions a Koinos node has accepted
  landed    \* transactions that succeeded on Koinos

memory == <<driver, readers, refs, queue>>
koinos == <<pool, landed>>
vars == <<job, lastId, driver, readers, refs, queue, pool, landed>>

Init ==
  /\ job = {} /\ lastId = 0
  /\ driver = {} /\ readers = {} /\ refs = {} /\ queue = {}
  /\ pool = {} /\ landed = {}

Save(k) == job' = {k}
Claimed(dep) == \E t \in landed : t.dep = dep /\ t.step = "redeem"
Swapped(dep) == \E t \in landed : t.dep = dep /\ t.step = "koindx"
WaitsForTap(j) ==
  j.status = "awaiting_swap" \/ (j.status = "awaiting_redeem" /\ j.needsTap)

-----------------------------------------------------------------------------
(* Up to the landing: the account's Ethereum leg, which FundingV2 models. *)

\* v2.start() through funding.start(): nothing may be in flight.
Start(route, kind) ==
  /\ lastId < MaxJobs
  /\ \A j \in job : j.status = "done"
  /\ lastId' = lastId + 1
  /\ Save([dep |-> [id |-> lastId + 1, route |-> route, kind |-> kind],
           status |-> "converting", failedAt |-> "none", needsTap |-> FALSE])
  /\ UNCHANGED <<memory, koinos>>

\* finish() of the bridge deposit, or of a request for new signatures.
Deposited(j) ==
  /\ driver = {}
  /\ j.status \in {"converting", "request_signatures"}
  /\ Save([j EXCEPT !.status = "awaiting_signatures"])
  /\ UNCHANGED <<lastId, memory, koinos>>

\* resume(): Retry.
Resume(j) ==
  /\ j.status = "error"
  /\ Save([j EXCEPT !.status = "awaiting_signatures", !.failedAt = "none", !.needsTap = FALSE])
  /\ UNCHANGED <<lastId, memory, koinos>>

-----------------------------------------------------------------------------
(* The tick: pollGuardians and autoRedeem. *)

\* A handler starts with the job the tick read.
Tick(j) ==
  /\ driver = {}
  /\ \/ j.status = "awaiting_signatures" /\ driver' = {[at |-> "poll", read |-> j]}
     \/ j.status = "awaiting_redeem" /\ ~j.needsTap /\ driver' = {[at |-> "quorum", read |-> j]}
  /\ UNCHANGED <<job, lastId, readers, refs, queue, koinos>>

\* The guardians' record is redeemable.
PollReady(d) ==
  /\ d.at = "poll"
  /\ Save([d.read EXCEPT !.status = "awaiting_redeem", !.needsTap = FALSE])
  /\ driver' = {}
  /\ UNCHANGED <<lastId, readers, refs, queue, koinos>>

\* There is no record yet, it lacks signatures, has expired, or time is up.
PollNotReady(d) ==
  /\ d.at = "poll"
  /\ \/ UNCHANGED job
     \/ Save(d.read)
     \/ Save([d.read EXCEPT !.status = "request_signatures"])
     \/ Save([d.read EXCEPT !.status = "error", !.failedAt = "awaiting_signatures"])
  /\ driver' = {}
  /\ UNCHANGED <<lastId, readers, refs, queue, koinos>>

\* autoRedeem has read the validator count: the record is still good and names
\* the sponsor as relayer.
RedeemChecked(d) ==
  /\ d.at = "quorum" /\ d.read.dep.kind # "recipient"
  /\ driver' = {[d EXCEPT !.at = "send"]}
  /\ UNCHANGED <<job, lastId, readers, refs, queue, koinos>>

RedeemTurnedDown(d) ==
  /\ d.at = "quorum"
  /\ \/ Save([d.read EXCEPT !.status = "awaiting_signatures", !.needsTap = FALSE])
     \/ d.read.dep.kind = "recipient" /\ Save([d.read EXCEPT !.needsTap = TRUE])
  /\ driver' = {}
  /\ UNCHANGED <<lastId, readers, refs, queue, koinos>>

\* queueTx runs a transaction: the broadcast's own reply is not trusted.
Enqueue(t) ==
  /\ queue = {}
  /\ queue' = {[tx |-> t, result |-> "none"]}
  /\ pool' \in {pool, pool \cup {t}}
  /\ UNCHANGED landed

RedeemSend(d) ==
  /\ d.at = "send"
  /\ Enqueue([dep |-> d.read.dep, step |-> "redeem", by |-> "sponsor"])
  /\ driver' = {[d EXCEPT !.at = "sent"]}
  /\ UNCHANGED <<job, lastId, readers, refs>>

Landed(j) == [j EXCEPT !.status = IF j.dep.route = "B" THEN "awaiting_swap" ELSE "done"]

\* MUTANT of RedeemResult: a transfer completed by an unseen attempt is an error.
RedeemResultUnread(j, result) ==
  CASE result = "ok"      -> {Landed(j)}
    [] result = "refused" -> {[j EXCEPT !.needsTap = TRUE]}
    [] result = "quorum"  -> {[j EXCEPT !.status = "awaiting_signatures", !.needsTap = FALSE]}
    [] OTHER              -> {j, [j EXCEPT !.status = "error", !.failedAt = "awaiting_redeem"]}

\* What the reply to the sponsor's redeem makes of the account's job.
RedeemResult(j, result) ==
  CASE result \in {"ok", "already"} -> {Landed(j)}
    [] result = "refused" -> {[j EXCEPT !.needsTap = TRUE]}
    [] result = "quorum"  -> {[j EXCEPT !.status = "awaiting_signatures", !.needsTap = FALSE]}
    [] OTHER              -> {j, [j EXCEPT !.status = "error", !.failedAt = "awaiting_redeem"]}

RedeemReply(d, q) ==
  /\ d.at = "sent"
  /\ \E j \in job : \E k \in RedeemResult(j, q.result) : Save(k)
  /\ driver' = {} /\ queue' = {}
  /\ UNCHANGED <<lastId, readers, refs, koinos>>

\* A handler throws while reading.
TickFails(d) ==
  /\ d.at \in {"poll", "quorum"}
  /\ \/ UNCHANGED job
     \/ \E j \in job : Save([j EXCEPT !.status = "error", !.failedAt = d.read.status])
  /\ driver' = {}
  /\ UNCHANGED <<lastId, readers, refs, queue, koinos>>

-----------------------------------------------------------------------------
(* The passkey: prepare, sign, submit. *)

\* prepareTapOps() up to its first await; an expired record is saved at once.
PrepareTap(j) ==
  /\ WaitsForTap(j)
  /\ \/ readers' = readers \cup {j} /\ UNCHANGED job
     \/ /\ j.status = "awaiting_redeem"
        /\ Save([j EXCEPT !.status = "awaiting_signatures"])
        /\ UNCHANGED readers
  /\ UNCHANGED <<lastId, driver, refs, queue, koinos>>

StepOf(j) == IF j.status = "awaiting_swap" THEN "koindx" ELSE "redeem"

\* The rest of it, and the ref the tab gets to sign.
Prepared(j) ==
  /\ readers' = readers \ {j}
  /\ refs' = refs \cup {[dep |-> j.dep, step |-> StepOf(j), by |-> "passkey"]}
  /\ UNCHANGED <<job, lastId, driver, queue, koinos>>

\* It throws instead: a redeem that lost its quorum goes back to polling.
PrepareFails(j) ==
  /\ readers' = readers \ {j}
  /\ \/ UNCHANGED job
     \/ /\ j.status = "awaiting_redeem"
        /\ Save([j EXCEPT !.status = "awaiting_signatures", !.needsTap = FALSE])
  /\ UNCHANGED <<lastId, driver, refs, queue, koinos>>

\* api.submit(): a ref is used once.
Submit(t) ==
  /\ refs' = refs \ {t}
  /\ Enqueue(t)
  /\ UNCHANGED <<job, lastId, driver, readers>>

\* The user does not sign, the signature is refused, or the ref expires.
Forget(t) ==
  /\ refs' = refs \ {t}
  /\ UNCHANGED <<job, lastId, driver, readers, queue, koinos>>

\* onTapDone(): finishRedeem for a redeem, the end for a swap.
OnTapDone(j, step) ==
  IF step = "redeem" THEN Landed(j) ELSE [j EXCEPT !.status = "done"]

\* MUTANT of TapReply: an unconfirmed transaction counts as confirmed.
TapReplyUnconfirmed(q) ==
  /\ q.tx.by = "passkey"
  /\ IF q.result \in {"ok", "none"}
     THEN \E j \in job : Save(OnTapDone(j, q.tx.step))
     ELSE UNCHANGED job
  /\ queue' = {}
  /\ UNCHANGED <<lastId, driver, readers, refs, koinos>>

TapReply(q) ==
  /\ q.tx.by = "passkey"
  /\ IF q.result = "ok"
     THEN \E j \in job : Save(OnTapDone(j, q.tx.step))
     ELSE UNCHANGED job
  /\ queue' = {}
  /\ UNCHANGED <<lastId, driver, readers, refs, koinos>>

-----------------------------------------------------------------------------
(* Koinos, and the death of the process. *)

\* What the bridge and KoinDX answer to t.
Results(t) ==
  IF t.step = "redeem"
  THEN IF Claimed(t.dep) THEN {"already"}
       ELSE IF t.by = "sponsor" /\ t.dep.kind # "relayer" THEN {"refused"}
       ELSE {"ok", "quorum"}
  ELSE IF Claimed(t.dep) /\ ~Swapped(t.dep) THEN {"ok", "slippage"} ELSE {"slippage"}

Mine(t) ==
  /\ pool' = pool \ {t}
  /\ \E r \in Results(t) :
       /\ landed' = IF r = "ok" THEN landed \cup {t} ELSE landed
       /\ queue' = {IF q.tx = t THEN [q EXCEPT !.result = r] ELSE q : q \in queue}
  /\ UNCHANGED <<job, lastId, driver, readers, refs>>

Drop(t) ==
  /\ pool' = pool \ {t}
  /\ UNCHANGED <<job, lastId, memory, landed>>

Crash ==
  /\ driver' = {} /\ readers' = {} /\ refs' = {} /\ queue' = {}
  /\ UNCHANGED <<job, lastId, koinos>>

Next ==
  \/ \E r \in Routes, k \in Kinds : Start(r, k)
  \/ \E j \in job : Deposited(j) \/ Resume(j) \/ Tick(j) \/ PrepareTap(j)
  \/ \E d \in driver :
       \/ PollReady(d) \/ PollNotReady(d) \/ TickFails(d)
       \/ RedeemChecked(d) \/ RedeemTurnedDown(d) \/ RedeemSend(d)
       \/ \E q \in queue : RedeemReply(d, q)
  \/ \E j \in readers : Prepared(j) \/ PrepareFails(j)
  \/ \E t \in refs : Submit(t) \/ Forget(t)
  \/ \E q \in queue : TapReply(q)
  \/ \E t \in pool : Mine(t) \/ Drop(t)
  \/ Crash

Spec == Init /\ [][Next]_vars

\* The transaction being waited for has reached a node.
Accepted == \A q \in queue : q.tx \in pool

\* The timer keeps ticking, the guardians sign in the end, a transaction that
\* is sent again and again is broadcast and mined while its sender waits, and
\* the user retries failures and answers every tap.
Fairness ==
  /\ SF_vars(\E j \in job : Deposited(j))
  /\ SF_vars(\E j \in job : Resume(j))
  /\ SF_vars(\E j \in job : Tick(j))
  /\ SF_vars(\E d \in driver : PollReady(d))
  /\ SF_vars(\E d \in driver : RedeemChecked(d))
  /\ SF_vars(\E d \in driver : d.at = "quorum" /\ d.read.dep.kind = "recipient"
                                 /\ RedeemTurnedDown(d))
  /\ SF_vars(\E d \in driver : RedeemSend(d) /\ Accepted')
  /\ SF_vars(\E t \in pool : Mine(t) /\ landed' # landed)
  /\ SF_vars(\E t \in pool : Mine(t) /\ queue' # queue)
  /\ SF_vars(\E d \in driver : \E q \in queue : q.result # "none" /\ RedeemReply(d, q))
  /\ SF_vars(\E j \in job : PrepareTap(j) /\ readers' # readers)
  /\ SF_vars(\E j \in readers : j \in job /\ Prepared(j))
  /\ SF_vars(\E t \in refs : Submit(t) /\ Accepted')
  /\ SF_vars(\E q \in queue : q.result # "none" /\ TapReply(q))
  /\ WF_vars(\E q \in queue : TapReply(q) \/ \E d \in driver : RedeemReply(d, q))

FairSpec == Spec /\ Fairness

-----------------------------------------------------------------------------
(* Properties. *)

\* The shape of the state; a stopped job names the step that Retry restores.
TypeOK ==
  /\ \A j \in job : j.status = "error" => j.failedAt # "none"
  /\ job \subseteq Job /\ readers \subseteq Job /\ lastId \in 0..MaxJobs
  /\ driver \subseteq [at : {"poll", "quorum", "send", "sent"}, read : Job]
  /\ refs \subseteq Tx /\ pool \subseteq Tx /\ landed \subseteq Tx
  /\ queue \subseteq [tx : Tx, result : Result]

\* A conversion says it landed only if it did: the bridge has paid out its
\* deposit and, on route B, the KoinDX swap of that deposit succeeded
\* (funding.js:902: never "the user is told their money landed when it has not").
SaidLandedHasLanded ==
  \A j \in job :
    /\ j.status \in {"awaiting_swap", "done"} => Claimed(j.dep)
    /\ j.status = "done" /\ j.dep.route = "B" => Swapped(j.dep)

\* A conversion in flight stays the account's job until it is done: no late
\* save of an earlier one takes its place.
LiveJobKept ==
  [][\A j \in job : j.status # "done" => \E k \in job' : k.dep = j.dep]_vars

\* Every conversion lands in the end; where the sponsor may claim, on its own.
Lands == \A i \in 1..MaxJobs :
  (\E j \in job : j.dep.id = i) ~> (\E j \in job : j.dep.id = i /\ j.status = "done")

LandsUnattended == \A i \in 1..MaxJobs :
  (\E j \in job : j.dep.id = i /\ j.dep.route = "C" /\ j.dep.kind = "relayer")
    ~> (\E j \in job : j.dep.id = i /\ j.status = "done")
=============================================================================
