----------------------------- MODULE LandingProofs -----------------------------
(***************************************************************************)
(* Theorems about Landing, for any number of conversions on any route      *)
(* whose deposits the sponsor may claim: what is said to have landed has,  *)
(* and no late save takes the place of a conversion in flight.  Where a    *)
(* passkey may claim too, both fail (README, findings).                    *)
(***************************************************************************)
EXTENDS Landing, TLAPS

Relayed == Kinds \subseteq {"relayer"}

Typed ==
  /\ job \subseteq Job /\ readers \subseteq Job /\ lastId \in Nat
  /\ driver \subseteq [at : {"poll", "quorum", "send", "sent"}, read : Job]
  /\ refs \subseteq Tx /\ pool \subseteq Tx /\ landed \subseteq Tx
  /\ queue \subseteq [tx : Tx, result : Result]

\* One job, whose deposit is the sponsor's to claim, and what its status says of Koinos.
JobTrue ==
  /\ \A j, k \in job : j = k
  /\ \A j \in job :
       /\ j.dep.kind = "relayer" /\ j.needsTap = FALSE
       /\ j.status = "awaiting_swap" => j.dep.route = "B" /\ Claimed(j.dep)
       /\ j.status = "done" => Claimed(j.dep) /\ (j.dep.route = "B" => Swapped(j.dep))

\* The handler in flight has read the job as it still is.
DriverCurrent ==
  /\ \A d, e \in driver : d = e
  /\ \A d \in driver :
       /\ d.read \in job
       /\ d.read.status = IF d.at = "poll" THEN "awaiting_signatures" ELSE "awaiting_redeem"

\* A job of this deposit waits for its swap, or the swap is done.
SwapIsDue(dep) ==
  /\ dep.route = "B" /\ dep.kind = "relayer" /\ Claimed(dep)
  /\ Swapped(dep) \/ \E j \in job : j.dep = dep /\ j.status = "awaiting_swap"

\* The sponsor's transactions redeem and the passkey's swap what is due.
TxSound(t) == /\ t.by = "sponsor" => t.step = "redeem" /\ t.dep.kind = "relayer"
              /\ t.by = "passkey" => t.step = "koindx" /\ SwapIsDue(t.dep)

TapsSound ==
  /\ \A j \in readers : j.status = "awaiting_swap" /\ SwapIsDue(j.dep)
  /\ \A t \in refs : t.by = "passkey"
  /\ \A t \in refs \cup pool : TxSound(t)

\* What the queue waits for, and what its result says.
SwapSeen(dep) == /\ Swapped(dep) /\ dep.route = "B" /\ Claimed(dep)
                 /\ \E j \in job : j.dep = dep /\ j.status = "awaiting_swap"

ReplySound(q) ==
  /\ TxSound(q.tx) /\ q.result # "refused"
  /\ q.tx.by = "sponsor" /\ q.result \in {"ok", "already"} => Claimed(q.tx.dep)
  /\ q.tx.by = "passkey" /\ q.result = "ok" => SwapSeen(q.tx.dep)

QueueSound ==
  /\ \A q \in queue : ReplySound(q)
  /\ \A d \in driver : d.at = "sent" =>
       /\ queue # {}
       /\ \A q \in queue : q.tx.by = "sponsor" /\ q.tx.dep = d.read.dep

LandingInv == Typed /\ JobTrue /\ DriverCurrent /\ TapsSound /\ QueueSound

-----------------------------------------------------------------------------
(* Frames. *)

LEMMA InitHolds == Init => LandingInv
  BY DEF Init, LandingInv, Typed, JobTrue, DriverCurrent, TapsSound, QueueSound

\* What Koinos has done stays done.
LEMMA LandedStays ==
  ASSUME NEW dep, landed \subseteq landed'
  PROVE  (Claimed(dep) => Claimed(dep)') /\ (Swapped(dep) => Swapped(dep)')
  BY DEF Claimed, Swapped

\* A swap stays due as long as its job waits for it, or it is done.
LEMMA DueStays ==
  ASSUME NEW dep, SwapIsDue(dep), landed \subseteq landed',
         \A j \in job : j.status = "awaiting_swap" =>
           Swapped(j.dep) \/ \E k \in job' : k.dep = j.dep /\ k.status = "awaiting_swap"
  PROVE  SwapIsDue(dep)'
<1>1. (Claimed(dep) => Claimed(dep)') /\ (Swapped(dep) => Swapped(dep)')
  BY LandedStays
<1>2. Swapped(dep) \/ \E k \in job' : k.dep = dep /\ k.status = "awaiting_swap"
  BY DEF SwapIsDue
<1> QED
  BY <1>1, <1>2 DEF SwapIsDue

LEMMA TxStays ==
  ASSUME NEW t, TxSound(t), landed \subseteq landed',
         \A j \in job : j.status = "awaiting_swap" =>
           Swapped(j.dep) \/ \E k \in job' : k.dep = j.dep /\ k.status = "awaiting_swap"
  PROVE  TxSound(t)'
  BY DueStays DEF TxSound

\* Steps that change neither the job nor Koinos: a handler, a tap or the queue goes on.
LEMMA QuietKeeps ==
  ASSUME LandingInv, UNCHANGED <<job, landed>>, Typed', DriverCurrent',
         \A j \in readers' : j \in readers \/ (j.status = "awaiting_swap" /\ SwapIsDue(j.dep)),
         \A t \in refs' : t \in refs \/ (t.by = "passkey" /\ TxSound(t)),
         \A t \in pool' : t \in pool \/ TxSound(t),
         \A q \in queue' : q \in queue \/ (TxSound(q.tx) /\ q.result = "none"),
         \A d \in driver' : d.at = "sent" =>
           queue' # {} /\ \A q \in queue' : q.tx.by = "sponsor" /\ q.tx.dep = d.read.dep
  PROVE  LandingInv'
<1> USE DEF LandingInv
<1>1. JobTrue'
  BY DEF JobTrue, Claimed, Swapped
<1>2. \A dep : (SwapIsDue(dep)' <=> SwapIsDue(dep)) /\ (Claimed(dep)' <=> Claimed(dep))
               /\ (SwapSeen(dep)' <=> SwapSeen(dep))
  BY DEF SwapIsDue, SwapSeen, Claimed, Swapped
<1>3. \A t : TxSound(t)' <=> TxSound(t)
  BY <1>2 DEF TxSound
<1>4. TapsSound'
  BY <1>2, <1>3 DEF TapsSound
<1>5. ASSUME NEW q \in queue' PROVE ReplySound(q)'
  <2>1. CASE q \in queue
    BY <1>2, <1>3, <2>1 DEF QueueSound, ReplySound
  <2>2. CASE TxSound(q.tx) /\ q.result = "none"
    BY <1>3, <2>2 DEF ReplySound
  <2> QED
    BY <2>1, <2>2
<1>6. QueueSound'
  BY <1>5 DEF QueueSound
<1> QED
  BY <1>1, <1>4, <1>6

\* A save of the account's job: the deposit stays, and what the status says is so.  Where
\* it ends a wait for a swap, the swap is done and nothing else is being waited for.
LEMMA SaveKeeps ==
  ASSUME LandingInv, NEW j \in job, NEW k \in Job, Save(k), k.dep = j.dep, k.needsTap = FALSE,
         k.status = "awaiting_swap" => k.dep.route = "B" /\ Claimed(k.dep),
         k.status = "done" => Claimed(k.dep) /\ (k.dep.route = "B" => Swapped(k.dep)),
         j.status = "awaiting_swap" => Swapped(j.dep) /\ queue' = {},
         UNCHANGED <<lastId, readers, refs, pool, landed>>,
         driver' = {}, queue' \in {queue, {}}
  PROVE  LandingInv'
<1> USE DEF LandingInv
<1>1. Typed' /\ DriverCurrent'
  BY DEF Typed, Save, DriverCurrent
<1>2. \A dep : (Claimed(dep)' <=> Claimed(dep)) /\ (Swapped(dep)' <=> Swapped(dep))
  BY DEF Claimed, Swapped
<1>3. JobTrue'
  BY <1>2 DEF JobTrue, Save
<1>4. \A i \in job : i.status = "awaiting_swap" => Swapped(i.dep)
  BY DEF JobTrue
<1>5. \A dep : SwapIsDue(dep) => SwapIsDue(dep)'
  BY <1>4, DueStays
<1>6. \A t : TxSound(t) => TxSound(t)'
  BY <1>5 DEF TxSound
<1>7. TapsSound'
  BY <1>5, <1>6 DEF TapsSound
<1>8. ASSUME NEW q \in queue' PROVE ReplySound(q)'
  <2>1. q \in queue /\ j.status # "awaiting_swap"
    OBVIOUS
  <2>2. ReplySound(q) /\ \A dep : ~SwapSeen(dep)
    BY <2>1 DEF QueueSound, SwapSeen, JobTrue
  <2> QED
    BY <1>2, <1>6, <2>2 DEF ReplySound
<1>9. QueueSound'
  BY <1>8 DEF QueueSound
<1> QED
  BY <1>1, <1>3, <1>7, <1>9

-----------------------------------------------------------------------------
(* Up to the landing. *)

\* A new conversion: the one before it is done, so no handler is in flight and every
\* swap that was due is done too.
LEMMA StartKeeps ==
  ASSUME Relayed, LandingInv, NEW route \in Routes, NEW kind \in Kinds, Start(route, kind)
  PROVE  LandingInv'
<1> USE DEF LandingInv
<1>0. PICK dep : dep = [id |-> lastId + 1, route |-> route, kind |-> kind]
  OBVIOUS
<1>1. PICK k : k = [dep |-> dep, status |-> "converting", failedAt |-> "none",
                    needsTap |-> FALSE]
  OBVIOUS
<1>2. job' = {k} /\ UNCHANGED <<driver, readers, refs, queue, pool, landed>>
      /\ \A j \in job : j.status = "done"
  BY <1>0, <1>1 DEF Start, Save, memory, koinos
<1>3. dep.kind = "relayer" /\ k.dep = dep /\ k.status = "converting" /\ k.needsTap = FALSE
  BY <1>0, <1>1 DEF Relayed
<1>4. driver = {}
  <2> SUFFICES ASSUME NEW d \in driver PROVE FALSE
    OBVIOUS
  <2>1. d.read \in job /\ d.read.status \in {"awaiting_signatures", "awaiting_redeem"}
    BY DEF DriverCurrent
  <2> QED
    BY <1>2, <2>1
<1>5. lastId + 1 \in 1..MaxJobs /\ lastId' \in Nat
  BY InstanceIsSmall DEF Start, Typed
<1>6. dep \in Deposit
  BY <1>0, <1>5, InstanceIsSmall DEF Deposit
<1>7. k \in Job
  BY <1>1, <1>6 DEF Job, Status
<1>8. Typed' /\ DriverCurrent'
  BY <1>2, <1>4, <1>5, <1>7 DEF Typed, DriverCurrent
<1>9. JobTrue'
  BY <1>2, <1>3 DEF JobTrue
<1>10. \A t : TxSound(t) => TxSound(t)'
  BY <1>2, TxStays
<1>11. \A x : SwapIsDue(x) => SwapIsDue(x)'
  BY <1>2, DueStays
<1>12. TapsSound'
  BY <1>2, <1>10, <1>11 DEF TapsSound
<1>13. ASSUME NEW q \in queue PROVE ReplySound(q)'
  <2>1. ~SwapSeen(q.tx.dep)
    BY <1>2 DEF SwapSeen
  <2>2. Claimed(q.tx.dep) => Claimed(q.tx.dep)'
    BY <1>2, LandedStays
  <2> QED
    BY <1>10, <2>1, <2>2 DEF QueueSound, ReplySound
<1> QED
  BY <1>2, <1>4, <1>8, <1>9, <1>12, <1>13 DEF QueueSound

LEMMA DepositedKeeps ==
  ASSUME LandingInv, NEW j \in job, Deposited(j) PROVE LandingInv'
<1>1. PICK k : k = [j EXCEPT !.status = "awaiting_signatures"]
  OBVIOUS
<1>2. j \in Job /\ j.needsTap = FALSE
  BY DEF LandingInv, Typed, JobTrue
<1>3. k \in Job /\ k.dep = j.dep /\ k.needsTap = FALSE /\ k.status = "awaiting_signatures"
  BY <1>1, <1>2 DEF Job, Status
<1> QED
  BY <1>1, <1>3, SaveKeeps DEF Deposited, memory, koinos

\* A job that stopped has no handler in flight.
LEMMA ResumeKeeps ==
  ASSUME LandingInv, NEW j \in job, Resume(j) PROVE LandingInv'
<1>1. PICK k : k = [j EXCEPT !.status = "awaiting_signatures", !.failedAt = "none",
                             !.needsTap = FALSE]
  OBVIOUS
<1>2. j \in Job /\ j.status = "error"
  BY DEF LandingInv, Typed, Resume
<1>3. k \in Job /\ k.dep = j.dep /\ k.needsTap = FALSE /\ k.status = "awaiting_signatures"
  BY <1>1, <1>2 DEF Job, Status
<1>4. driver = {}
  <2> SUFFICES ASSUME NEW d \in driver PROVE FALSE
    OBVIOUS
  <2>1. d.read = j /\ d.read.status \in {"awaiting_signatures", "awaiting_redeem"}
    BY DEF LandingInv, DriverCurrent, JobTrue
  <2> QED
    BY <1>2, <2>1
<1> QED
  BY <1>1, <1>2, <1>3, <1>4, SaveKeeps DEF Resume, memory, koinos

-----------------------------------------------------------------------------
(* The tick. *)

\* Only the handler in flight changes, and it has sent nothing.
LEMMA DriverKeeps ==
  ASSUME LandingInv, UNCHANGED <<job, lastId, readers, refs, queue, pool, landed>>,
         DriverCurrent', driver' \subseteq [at : {"poll", "quorum", "send", "sent"}, read : Job],
         \A d \in driver' : d.at # "sent"
  PROVE  LandingInv'
<1>1. Typed'
  BY DEF LandingInv, Typed
<1>0. readers' = readers /\ refs' = refs /\ pool' = pool /\ queue' = queue
  OBVIOUS
<1>2. \A j \in readers' : j \in readers \/ (j.status = "awaiting_swap" /\ SwapIsDue(j.dep))
  BY <1>0
<1>3. \A t \in refs' : t \in refs \/ (t.by = "passkey" /\ TxSound(t))
  BY <1>0
<1>4. \A t \in pool' : t \in pool \/ TxSound(t)
  BY <1>0
<1>5. \A q \in queue' : q \in queue \/ (TxSound(q.tx) /\ q.result = "none")
  BY <1>0
<1> QED
  BY <1>1, <1>2, <1>3, <1>4, <1>5, QuietKeeps

LEMMA TickKeeps ==
  ASSUME LandingInv, NEW j \in job, Tick(j) PROVE LandingInv'
<1>1. PICK at \in {"poll", "quorum"} :
        /\ driver = {} /\ driver' = {[at |-> at, read |-> j]}
        /\ j.status = IF at = "poll" THEN "awaiting_signatures" ELSE "awaiting_redeem"
  BY DEF Tick
<1>2. UNCHANGED <<job, lastId, readers, refs, queue, pool, landed>>
  BY DEF Tick, koinos
<1>3. j \in Job
  BY DEF LandingInv, Typed
<1>4. DriverCurrent'
  BY <1>1, <1>2 DEF DriverCurrent
<1> QED
  BY <1>1, <1>2, <1>3, <1>4, DriverKeeps

\* The handler in flight has read the job, and it is its turn.
LEMMA DriverReads ==
  ASSUME LandingInv, NEW d \in driver
  PROVE  /\ d.read \in job /\ d.read \in Job /\ job = {d.read}
         /\ d.read.dep.kind = "relayer" /\ d.read.needsTap = FALSE
         /\ d.read.status = IF d.at = "poll" THEN "awaiting_signatures" ELSE "awaiting_redeem"
  BY DEF LandingInv, DriverCurrent, Typed, JobTrue

\* A handler ends without a save.
LEMMA EndsQuietly ==
  ASSUME LandingInv, driver' = {}, UNCHANGED <<job, lastId, readers, refs, queue, koinos>>
  PROVE  LandingInv'
<1>1. DriverCurrent'
  BY DEF DriverCurrent
<1> QED
  BY <1>1, DriverKeeps DEF koinos

\* A handler ends and saves the job it read with another status, short of the landing.
LEMMA EndsWithSave ==
  ASSUME LandingInv, NEW d \in driver, NEW k \in Job, Save(k), k.dep = d.read.dep,
         k.needsTap = FALSE, k.status \notin {"awaiting_swap", "done"},
         driver' = {}, queue' \in {queue, {}}, UNCHANGED <<lastId, readers, refs, koinos>>
  PROVE  LandingInv'
  BY DriverReads, SaveKeeps DEF koinos

LEMMA PollKeeps ==
  ASSUME LandingInv, NEW d \in driver, PollReady(d) \/ PollNotReady(d) PROVE LandingInv'
<1>1. driver' = {} /\ UNCHANGED <<lastId, readers, refs, queue, koinos>>
  BY DEF PollReady, PollNotReady
<1>2. d.read \in Job /\ d.read.needsTap = FALSE /\ d.at = "poll"
      /\ d.read.status = "awaiting_signatures"
  BY DriverReads DEF PollReady, PollNotReady
<1>3. CASE UNCHANGED job
  BY <1>1, <1>3, EndsQuietly
<1>4. CASE Save(d.read)
  BY <1>1, <1>2, <1>4, EndsWithSave
<1>5. CASE Save([d.read EXCEPT !.status = "awaiting_redeem", !.needsTap = FALSE])
  <2>1. PICK k : k = [d.read EXCEPT !.status = "awaiting_redeem", !.needsTap = FALSE]
    OBVIOUS
  <2>2. k \in Job /\ k.dep = d.read.dep /\ k.needsTap = FALSE /\ k.status = "awaiting_redeem"
    BY <1>2, <2>1 DEF Job, Status
  <2> QED
    BY <1>1, <1>5, <2>1, <2>2, EndsWithSave
<1>6. CASE Save([d.read EXCEPT !.status = "request_signatures"])
  <2>1. PICK k : k = [d.read EXCEPT !.status = "request_signatures"]
    OBVIOUS
  <2>2. k \in Job /\ k.dep = d.read.dep /\ k.needsTap = FALSE /\ k.status = "request_signatures"
    BY <1>2, <2>1 DEF Job, Status
  <2> QED
    BY <1>1, <1>6, <2>1, <2>2, EndsWithSave
<1>7. CASE Save([d.read EXCEPT !.status = "error", !.failedAt = "awaiting_signatures"])
  <2>1. PICK k : k = [d.read EXCEPT !.status = "error", !.failedAt = "awaiting_signatures"]
    OBVIOUS
  <2>2. k \in Job /\ k.dep = d.read.dep /\ k.needsTap = FALSE /\ k.status = "error"
    BY <1>2, <2>1 DEF Job, Status
  <2> QED
    BY <1>1, <1>7, <2>1, <2>2, EndsWithSave
<1> QED
  BY <1>3, <1>4, <1>5, <1>6, <1>7 DEF PollReady, PollNotReady

LEMMA RedeemCheckedKeeps ==
  ASSUME LandingInv, NEW d \in driver, RedeemChecked(d) PROVE LandingInv'
<1>1. PICK e : e = [d EXCEPT !.at = "send"]
  OBVIOUS
<1>2. driver' = {e} /\ UNCHANGED <<job, lastId, readers, refs, queue, pool, landed>>
      /\ d.at = "quorum" /\ d \in [at : {"poll", "quorum", "send", "sent"}, read : Job]
  BY <1>1 DEF RedeemChecked, koinos, LandingInv, Typed
<1>3. e.at = "send" /\ e.read = d.read
      /\ e \in [at : {"poll", "quorum", "send", "sent"}, read : Job]
  BY <1>1, <1>2
<1>4. DriverCurrent'
  BY <1>2, <1>3, DriverReads DEF DriverCurrent
<1> QED
  BY <1>2, <1>3, <1>4, DriverKeeps

LEMMA RedeemTurnedDownKeeps ==
  ASSUME LandingInv, NEW d \in driver, RedeemTurnedDown(d) PROVE LandingInv'
<1>1. PICK k : k = [d.read EXCEPT !.status = "awaiting_signatures", !.needsTap = FALSE]
  OBVIOUS
<1>2. Save(k) /\ driver' = {} /\ UNCHANGED <<lastId, readers, refs, queue, koinos>>
  BY <1>1, DriverReads DEF RedeemTurnedDown
<1>3. k \in Job /\ k.dep = d.read.dep /\ k.needsTap = FALSE /\ k.status = "awaiting_signatures"
  BY <1>1, DriverReads DEF Job, Status
<1> QED
  BY <1>2, <1>3, EndsWithSave

\* A transaction that the queue starts to wait for.
LEMMA Enqueues ==
  ASSUME LandingInv, NEW t \in Tx, TxSound(t), Enqueue(t)
  PROVE  /\ queue = {} /\ UNCHANGED landed /\ pool' \subseteq Tx
         /\ queue' = {[tx |-> t, result |-> "none"]}
         /\ queue' \subseteq [tx : Tx, result : Result]
         /\ \A u \in pool' : u \in pool \/ TxSound(u)
         /\ \A q \in queue' : q.tx = t /\ TxSound(q.tx) /\ q.result = "none"
<1>1. queue = {} /\ UNCHANGED landed /\ pool' \subseteq pool \cup {t}
      /\ queue' = {[tx |-> t, result |-> "none"]}
  BY DEF Enqueue
<1>2. pool \subseteq Tx
  BY DEF LandingInv, Typed
<1>3. [tx |-> t, result |-> "none"] \in [tx : Tx, result : Result]
  BY DEF Result
<1> QED
  BY <1>1, <1>2, <1>3

LEMMA RedeemSendKeeps ==
  ASSUME LandingInv, NEW d \in driver, RedeemSend(d) PROVE LandingInv'
<1>1. PICK t : t = [dep |-> d.read.dep, step |-> "redeem", by |-> "sponsor"]
  OBVIOUS
<1>2. d.read.dep \in Deposit /\ d.read.dep.kind = "relayer"
  BY DriverReads DEF Job
<1>3. t \in Tx /\ TxSound(t) /\ t.by = "sponsor" /\ t.dep = d.read.dep
  BY <1>1, <1>2 DEF Tx, TxSound
<1>4. PICK e : e = [d EXCEPT !.at = "sent"]
  OBVIOUS
<1>5. driver' = {e} /\ UNCHANGED <<job, lastId, readers, refs>> /\ Enqueue(t)
      /\ d.at = "send" /\ d \in [at : {"poll", "quorum", "send", "sent"}, read : Job]
  BY <1>1, <1>4 DEF RedeemSend, LandingInv, Typed
<1>6. e.at = "sent" /\ e.read = d.read
      /\ e \in [at : {"poll", "quorum", "send", "sent"}, read : Job]
  BY <1>4, <1>5
<1>7. DriverCurrent'
  BY <1>5, <1>6, DriverReads DEF DriverCurrent
<1>8. /\ UNCHANGED landed /\ pool' \subseteq Tx
      /\ queue' = {[tx |-> t, result |-> "none"]}
      /\ queue' \subseteq [tx : Tx, result : Result]
      /\ \A u \in pool' : u \in pool \/ TxSound(u)
      /\ \A q \in queue' : q.tx = t /\ TxSound(q.tx) /\ q.result = "none"
  BY <1>3, <1>5, Enqueues
<1>9. Typed'
  BY <1>5, <1>6, <1>8 DEF LandingInv, Typed
<1>10. queue' # {} /\ \A q \in queue' : q.tx.by = "sponsor" /\ q.tx.dep = d.read.dep
  BY <1>3, <1>8
<1>11. /\ \A j \in readers' : j \in readers \/ (j.status = "awaiting_swap" /\ SwapIsDue(j.dep))
       /\ \A u \in refs' : u \in refs \/ (u.by = "passkey" /\ TxSound(u))
       /\ \A q \in queue' : q \in queue \/ (TxSound(q.tx) /\ q.result = "none")
       /\ \A f \in driver' : f.at = "sent" =>
            queue' # {} /\ \A q \in queue' : q.tx.by = "sponsor" /\ q.tx.dep = f.read.dep
  BY <1>5, <1>6, <1>8, <1>10
<1> QED
  BY <1>5, <1>7, <1>8, <1>9, <1>11, QuietKeeps

\* The reply to the sponsor's redeem is about the deposit of the job it was sent for.
LEMMA RedeemReplyKeeps ==
  ASSUME LandingInv, NEW d \in driver, NEW q \in queue, RedeemReply(d, q) PROVE LandingInv'
<1>1. d.at = "sent" /\ driver' = {} /\ queue' = {} /\ UNCHANGED <<lastId, readers, refs, koinos>>
  BY DEF RedeemReply
<1>2. PICK j \in job : \E k \in RedeemResult(j, q.result) : Save(k)
  BY DEF RedeemReply
<1>3. PICK k \in RedeemResult(j, q.result) : Save(k)
  BY <1>2
<1>4. j = d.read /\ j \in Job /\ j.needsTap = FALSE /\ j.status = "awaiting_redeem"
  BY <1>1, DriverReads
<1>5. q.tx.by = "sponsor" /\ q.tx.dep = j.dep /\ ReplySound(q)
  BY <1>1, <1>4 DEF LandingInv, QueueSound
<1>6. CASE q.result \in {"ok", "already"}
  <2>1. Claimed(j.dep)
    BY <1>5, <1>6 DEF ReplySound
  <2>2. k = [j EXCEPT !.status = IF j.dep.route = "B" THEN "awaiting_swap" ELSE "done"]
    BY <1>3, <1>6 DEF RedeemResult, Landed
  <2>3. k \in Job /\ k.dep = j.dep /\ k.needsTap = FALSE
        /\ k.status = IF j.dep.route = "B" THEN "awaiting_swap" ELSE "done"
    BY <1>4, <2>2 DEF Job, Status
  <2>4. /\ k.status = "awaiting_swap" => k.dep.route = "B" /\ Claimed(k.dep)
        /\ k.status = "done" => Claimed(k.dep) /\ (k.dep.route = "B" => Swapped(k.dep))
    BY <2>1, <2>3
  <2> QED
    BY <1>1, <1>3, <1>4, <2>3, <2>4, SaveKeeps DEF koinos
<1>7. CASE q.result = "quorum"
  <2>1. k = [j EXCEPT !.status = "awaiting_signatures", !.needsTap = FALSE]
    BY <1>3, <1>7 DEF RedeemResult
  <2>2. k \in Job /\ k.dep = j.dep /\ k.needsTap = FALSE /\ k.status = "awaiting_signatures"
    BY <1>4, <2>1 DEF Job, Status
  <2> QED
    BY <1>1, <1>3, <1>4, <2>2, EndsWithSave
<1>8. CASE q.result \notin {"ok", "already", "quorum"}
  <2>1. q.result # "refused"
    BY <1>5 DEF ReplySound
  <2>2. k \in {j, [j EXCEPT !.status = "error", !.failedAt = "awaiting_redeem"]}
    BY <1>3, <1>8, <2>1 DEF RedeemResult
  <2>3. k \in Job /\ k.dep = j.dep /\ k.needsTap = FALSE
        /\ k.status \in {"awaiting_redeem", "error"}
    BY <1>4, <2>2 DEF Job, Status
  <2> QED
    BY <1>1, <1>3, <1>4, <2>3, EndsWithSave
<1> QED
  BY <1>6, <1>7, <1>8

LEMMA TickFailsKeeps ==
  ASSUME LandingInv, NEW d \in driver, TickFails(d) PROVE LandingInv'
<1>1. driver' = {} /\ UNCHANGED <<lastId, readers, refs, queue, koinos>>
  BY DEF TickFails
<1>2. CASE UNCHANGED job
  BY <1>1, <1>2, EndsQuietly
<1>3. ASSUME NEW j \in job, Save([j EXCEPT !.status = "error", !.failedAt = d.read.status])
      PROVE  LandingInv'
  <2>1. PICK k : k = [j EXCEPT !.status = "error", !.failedAt = d.read.status]
    OBVIOUS
  <2>2. j = d.read /\ j \in Job /\ j.needsTap = FALSE
        /\ d.read.status \in {"awaiting_signatures", "awaiting_redeem"}
    BY DriverReads
  <2>3. k \in Job /\ k.dep = d.read.dep /\ k.needsTap = FALSE /\ k.status = "error"
    BY <2>1, <2>2 DEF Job, Status
  <2> QED
    BY <1>1, <1>3, <2>1, <2>3, EndsWithSave
<1> QED
  BY <1>2, <1>3 DEF TickFails

-----------------------------------------------------------------------------
(* The passkey. *)

\* Only swaps wait for a tap, and a swap that a job waits for is due.
LEMMA PrepareTapKeeps ==
  ASSUME LandingInv, NEW j \in job, PrepareTap(j) PROVE LandingInv'
<1>1. j.status = "awaiting_swap" /\ j \in Job /\ j.dep.kind = "relayer" /\ SwapIsDue(j.dep)
  BY DEF PrepareTap, WaitsForTap, LandingInv, Typed, JobTrue, SwapIsDue
<1>2. readers' = readers \cup {j} /\ UNCHANGED <<job, lastId, driver, refs, queue, pool, landed>>
  BY <1>1 DEF PrepareTap, koinos
<1>3. Typed' /\ DriverCurrent'
  BY <1>1, <1>2 DEF LandingInv, Typed, DriverCurrent
<1>4. /\ \A i \in readers' : i \in readers \/ (i.status = "awaiting_swap" /\ SwapIsDue(i.dep))
      /\ \A t \in refs' : t \in refs \/ (t.by = "passkey" /\ TxSound(t))
      /\ \A t \in pool' : t \in pool \/ TxSound(t)
      /\ \A q \in queue' : q \in queue \/ (TxSound(q.tx) /\ q.result = "none")
  BY <1>1, <1>2
<1>5. \A d \in driver' : d.at = "sent" =>
        queue' # {} /\ \A q \in queue' : q.tx.by = "sponsor" /\ q.tx.dep = d.read.dep
  BY <1>2 DEF LandingInv, QueueSound
<1> QED
  BY <1>2, <1>3, <1>4, <1>5, QuietKeeps

LEMMA PreparedKeeps ==
  ASSUME LandingInv, NEW j \in readers, Prepared(j) \/ PrepareFails(j) PROVE LandingInv'
<1>1. PICK t : t = [dep |-> j.dep, step |-> "koindx", by |-> "passkey"]
  OBVIOUS
<1>2. j.status = "awaiting_swap" /\ j \in Job /\ SwapIsDue(j.dep)
  BY DEF LandingInv, Typed, TapsSound
<1>3. t \in Tx /\ TxSound(t) /\ t.by = "passkey"
  BY <1>1, <1>2 DEF Job, Tx, TxSound
<1>4. readers' \subseteq readers /\ refs' \subseteq refs \cup {t}
      /\ UNCHANGED <<job, lastId, driver, queue, pool, landed>>
  BY <1>1, <1>2 DEF Prepared, PrepareFails, StepOf, koinos
<1>5. Typed' /\ DriverCurrent'
  BY <1>3, <1>4 DEF LandingInv, Typed, DriverCurrent
<1>6. /\ \A i \in readers' : i \in readers \/ (i.status = "awaiting_swap" /\ SwapIsDue(i.dep))
      /\ \A u \in refs' : u \in refs \/ (u.by = "passkey" /\ TxSound(u))
      /\ \A u \in pool' : u \in pool \/ TxSound(u)
      /\ \A q \in queue' : q \in queue \/ (TxSound(q.tx) /\ q.result = "none")
  BY <1>3, <1>4
<1>7. \A d \in driver' : d.at = "sent" =>
        queue' # {} /\ \A q \in queue' : q.tx.by = "sponsor" /\ q.tx.dep = d.read.dep
  BY <1>4 DEF LandingInv, QueueSound
<1> QED
  BY <1>4, <1>5, <1>6, <1>7, QuietKeeps

LEMMA SubmitKeeps ==
  ASSUME LandingInv, NEW t \in refs, Submit(t) PROVE LandingInv'
<1>1. t \in Tx /\ TxSound(t)
  BY DEF LandingInv, Typed, TapsSound
<1>2. refs' \subseteq refs /\ UNCHANGED <<job, lastId, driver, readers>> /\ Enqueue(t)
  BY DEF Submit
<1>3. /\ queue = {} /\ UNCHANGED landed /\ pool' \subseteq Tx
      /\ queue' \subseteq [tx : Tx, result : Result]
      /\ \A u \in pool' : u \in pool \/ TxSound(u)
      /\ \A q \in queue' : q.tx = t /\ TxSound(q.tx) /\ q.result = "none"
  BY <1>1, <1>2, Enqueues
<1>4. Typed' /\ DriverCurrent'
  BY <1>2, <1>3 DEF LandingInv, Typed, DriverCurrent
<1>5. \A d \in driver' : d.at # "sent"
  BY <1>2, <1>3 DEF LandingInv, QueueSound
<1>6. /\ \A i \in readers' : i \in readers \/ (i.status = "awaiting_swap" /\ SwapIsDue(i.dep))
      /\ \A u \in refs' : u \in refs \/ (u.by = "passkey" /\ TxSound(u))
      /\ \A q \in queue' : q \in queue \/ (TxSound(q.tx) /\ q.result = "none")
  BY <1>2, <1>3
<1> QED
  BY <1>2, <1>3, <1>4, <1>5, <1>6, QuietKeeps

\* Something is forgotten: a ref, a transaction of the pool, or all that is in memory.
LEMMA ForgettingKeeps ==
  ASSUME LandingInv, UNCHANGED <<job, lastId, landed>>,
         readers' \subseteq readers, refs' \subseteq refs, pool' \subseteq pool,
         UNCHANGED <<driver, queue>> \/ (driver' = {} /\ queue' = {})
  PROVE  LandingInv'
<1>1. driver' \subseteq driver /\ queue' \subseteq queue /\ (driver' = {} \/ queue' = queue)
  OBVIOUS
<1>2. Typed' /\ DriverCurrent'
  BY <1>1 DEF LandingInv, Typed, DriverCurrent
<1>3. \A d \in driver' : d.at = "sent" =>
        queue' # {} /\ \A q \in queue' : q.tx.by = "sponsor" /\ q.tx.dep = d.read.dep
  BY <1>1 DEF LandingInv, QueueSound
<1>4. /\ \A i \in readers' : i \in readers \/ (i.status = "awaiting_swap" /\ SwapIsDue(i.dep))
      /\ \A u \in refs' : u \in refs \/ (u.by = "passkey" /\ TxSound(u))
      /\ \A u \in pool' : u \in pool \/ TxSound(u)
      /\ \A q \in queue' : q \in queue \/ (TxSound(q.tx) /\ q.result = "none")
  BY <1>1
<1> QED
  BY <1>2, <1>3, <1>4, QuietKeeps

\* The reply to a swap ends the job it was signed for, once the swap is on Koinos.
LEMMA TapReplyKeeps ==
  ASSUME LandingInv, NEW q \in queue, TapReply(q) PROVE LandingInv'
<1>1. q.tx.by = "passkey" /\ queue' = {} /\ UNCHANGED <<lastId, driver, readers, refs, pool, landed>>
  BY DEF TapReply, koinos
<1>2. q.tx.step = "koindx" /\ (q.result = "ok" => SwapSeen(q.tx.dep))
  BY <1>1 DEF LandingInv, QueueSound, ReplySound, TxSound
<1>3. \A d \in driver : d.at # "sent"
  BY <1>1 DEF LandingInv, QueueSound
<1>4. CASE q.result # "ok"
  <2>1. UNCHANGED job
    BY <1>4 DEF TapReply
  <2>2. Typed' /\ DriverCurrent'
    BY <1>1, <2>1 DEF LandingInv, Typed, DriverCurrent
  <2>3. /\ \A i \in readers' : i \in readers \/ (i.status = "awaiting_swap" /\ SwapIsDue(i.dep))
        /\ \A u \in refs' : u \in refs \/ (u.by = "passkey" /\ TxSound(u))
        /\ \A u \in pool' : u \in pool \/ TxSound(u)
        /\ \A r \in queue' : r \in queue \/ (TxSound(r.tx) /\ r.result = "none")
        /\ \A d \in driver' : d.at # "sent"
    BY <1>1, <1>3
  <2> QED
    BY <1>1, <2>1, <2>2, <2>3, QuietKeeps
<1>5. CASE q.result = "ok"
  <2>1. PICK j \in job : Save(OnTapDone(j, q.tx.step))
    BY <1>5 DEF TapReply
  <2>2. j \in Job /\ j.needsTap = FALSE /\ j.dep = q.tx.dep /\ j.status = "awaiting_swap"
        /\ Claimed(j.dep) /\ Swapped(j.dep)
    BY <1>2, <1>5 DEF LandingInv, Typed, JobTrue, SwapSeen
  <2>3. driver = {}
    <3> SUFFICES ASSUME NEW d \in driver PROVE FALSE
      OBVIOUS
    <3>1. d.read = j /\ d.read.status \in {"awaiting_signatures", "awaiting_redeem"}
      BY DriverReads
    <3> QED
      BY <2>2, <3>1
  <2>4. PICK k : k = [j EXCEPT !.status = "done"]
    OBVIOUS
  <2>5. Save(k)
    BY <1>2, <2>1, <2>4 DEF OnTapDone
  <2>6. k \in Job /\ k.dep = j.dep /\ k.needsTap = FALSE /\ k.status = "done"
    BY <2>2, <2>4 DEF Job, Status
  <2> QED
    BY <1>1, <2>2, <2>3, <2>5, <2>6, SaveKeeps
<1> QED
  BY <1>4, <1>5

-----------------------------------------------------------------------------
(* Koinos, and the death of the process. *)

\* What the bridge and KoinDX answer to a transaction that is sound, and what is so then.
LEMMA ResultsTrue ==
  ASSUME NEW t \in Tx, TxSound(t), NEW r \in Results(t),
         landed' = IF r = "ok" THEN landed \cup {t} ELSE landed
  PROVE  /\ r \in Result \ {"none", "refused"}
         /\ t.by = "sponsor" /\ r \in {"ok", "already"} => Claimed(t.dep)'
         /\ t.by = "passkey" /\ r = "ok" =>
              ~Swapped(t.dep) /\ Swapped(t.dep)' /\ Claimed(t.dep)
<1>1. CASE t.by = "sponsor"
  <2>1. t.step = "redeem" /\ t.dep.kind = "relayer"
    BY <1>1 DEF TxSound
  <2>2. r \in {"already", "ok", "quorum"} /\ (r = "already" => Claimed(t.dep))
    BY <1>1, <2>1 DEF Results
  <2>3. r \in {"ok", "already"} => Claimed(t.dep)'
    BY <2>1, <2>2 DEF Claimed
  <2> QED
    BY <1>1, <2>2, <2>3 DEF Result
<1>2. CASE t.by = "passkey"
  <2>1. t.step = "koindx"
    BY <1>2 DEF TxSound
  <2>2. r \in {"ok", "slippage"} /\ (r = "ok" => Claimed(t.dep) /\ ~Swapped(t.dep))
    BY <2>1 DEF Results
  <2>3. r = "ok" => Swapped(t.dep)'
    BY <2>1 DEF Swapped
  <2> QED
    BY <1>2, <2>2, <2>3 DEF Result
<1> QED
  BY <1>1, <1>2 DEF Tx

LEMMA MineKeeps ==
  ASSUME LandingInv, NEW t \in pool, Mine(t) PROVE LandingInv'
<1> USE DEF LandingInv
<1>1. PICK r \in Results(t) :
        /\ landed' = IF r = "ok" THEN landed \cup {t} ELSE landed
        /\ queue' = {IF q.tx = t THEN [q EXCEPT !.result = r] ELSE q : q \in queue}
  BY DEF Mine
<1>2. pool' \subseteq pool /\ UNCHANGED <<job, lastId, driver, readers, refs>>
  BY DEF Mine
<1>3. t \in Tx /\ TxSound(t)
  BY DEF Typed, TapsSound
<1>4. /\ r \in Result \ {"none", "refused"}
      /\ t.by = "sponsor" /\ r \in {"ok", "already"} => Claimed(t.dep)'
      /\ t.by = "passkey" /\ r = "ok" =>
           ~Swapped(t.dep) /\ Swapped(t.dep)' /\ Claimed(t.dep)
  BY <1>1, <1>3, ResultsTrue
<1>5. landed \subseteq landed' /\ landed' \subseteq Tx
  BY <1>1, <1>3 DEF Typed
<1>6. \A dep : (Claimed(dep) => Claimed(dep)') /\ (Swapped(dep) => Swapped(dep)')
  BY <1>5, LandedStays
<1>7. \A j \in job : j.status = "awaiting_swap" =>
        Swapped(j.dep) \/ \E k \in job' : k.dep = j.dep /\ k.status = "awaiting_swap"
  BY <1>2
<1>8. (\A u : TxSound(u) => TxSound(u)') /\ (\A dep : SwapIsDue(dep) => SwapIsDue(dep)')
  BY <1>5, <1>7, TxStays, DueStays
<1>9. ASSUME NEW p \in queue' PROVE /\ p \in [tx : Tx, result : Result] /\ ReplySound(p)'
                                    /\ \E q \in queue : p.tx = q.tx
  <2>1. PICK q \in queue : p = IF q.tx = t THEN [q EXCEPT !.result = r] ELSE q
    BY <1>1
  <2>2. q \in [tx : Tx, result : Result] /\ ReplySound(q)
    BY DEF Typed, QueueSound
  <2>3. CASE q.tx # t
    <3>1. SwapSeen(q.tx.dep) => SwapSeen(q.tx.dep)'
      BY <1>2, <1>6 DEF SwapSeen
    <3>2. ReplySound(q)'
      BY <1>6, <1>8, <2>2, <3>1 DEF ReplySound
    <3> QED
      BY <2>1, <2>2, <2>3, <3>2
  <2>4. CASE q.tx = t
    <3>1. p.tx = t /\ p.result = r /\ p \in [tx : Tx, result : Result]
      BY <1>4, <2>1, <2>2, <2>4
    <3>2. t.by = "passkey" /\ r = "ok" => SwapSeen(t.dep)'
      <4> SUFFICES ASSUME t.by = "passkey", r = "ok" PROVE SwapSeen(t.dep)'
        OBVIOUS
      <4>1. SwapIsDue(t.dep) /\ ~Swapped(t.dep) /\ Swapped(t.dep)' /\ Claimed(t.dep)'
        BY <1>3, <1>4, <1>6 DEF TxSound
      <4> QED
        BY <1>2, <4>1 DEF SwapIsDue, SwapSeen
    <3>3. ReplySound(p)'
      BY <1>3, <1>4, <1>8, <3>1, <3>2 DEF ReplySound
    <3> QED
      BY <2>4, <3>1, <3>3
  <2> QED
    BY <2>3, <2>4
<1>10. Typed' /\ DriverCurrent'
  BY <1>2, <1>5, <1>9 DEF Typed, DriverCurrent
<1>11. JobTrue'
  BY <1>2, <1>6 DEF JobTrue
<1>12. TapsSound'
  BY <1>2, <1>8 DEF TapsSound
<1>13. QueueSound'
  <2>1. ASSUME NEW d \in driver', d.at = "sent"
        PROVE  queue' # {} /\ \A p \in queue' : p.tx.by = "sponsor" /\ p.tx.dep = d.read.dep
    <3>1. queue # {} /\ \A q \in queue : q.tx.by = "sponsor" /\ q.tx.dep = d.read.dep
      BY <1>2, <2>1 DEF QueueSound
    <3>2. queue' # {}
      BY <1>1, <3>1
    <3> QED
      BY <1>9, <3>1, <3>2
  <2> QED
    BY <1>9, <2>1 DEF QueueSound
<1> QED
  BY <1>10, <1>11, <1>12, <1>13

-----------------------------------------------------------------------------
(* Every step. *)

LEMMA StepKeepsInv == ASSUME Relayed PROVE LandingInv /\ [Next]_vars => LandingInv'
<1> SUFFICES ASSUME LandingInv, [Next]_vars PROVE LandingInv'
  OBVIOUS
<1>1. ASSUME NEW r \in Routes, NEW k \in Kinds, Start(r, k) PROVE LandingInv'
  BY <1>1, StartKeeps
<1>2. ASSUME NEW j \in job, Deposited(j) \/ Resume(j) \/ Tick(j) \/ PrepareTap(j)
      PROVE  LandingInv'
  BY <1>2, DepositedKeeps, ResumeKeeps, TickKeeps, PrepareTapKeeps
<1>3. ASSUME NEW d \in driver,
             \/ PollReady(d) \/ PollNotReady(d) \/ TickFails(d)
             \/ RedeemChecked(d) \/ RedeemTurnedDown(d) \/ RedeemSend(d)
             \/ \E q \in queue : RedeemReply(d, q)
      PROVE  LandingInv'
  BY <1>3, PollKeeps, TickFailsKeeps, RedeemCheckedKeeps, RedeemTurnedDownKeeps,
     RedeemSendKeeps, RedeemReplyKeeps
<1>4. ASSUME NEW j \in readers, Prepared(j) \/ PrepareFails(j) PROVE LandingInv'
  BY <1>4, PreparedKeeps
<1>5. ASSUME NEW t \in refs, Submit(t) \/ Forget(t) PROVE LandingInv'
  BY <1>5, SubmitKeeps, ForgettingKeeps DEF Forget, koinos
<1>6. ASSUME NEW q \in queue, TapReply(q) PROVE LandingInv'
  BY <1>6, TapReplyKeeps
<1>7. ASSUME NEW t \in pool, Mine(t) \/ Drop(t) PROVE LandingInv'
  BY <1>7, MineKeeps, ForgettingKeeps DEF Drop, memory
<1>8. CASE Crash
  BY <1>8, ForgettingKeeps DEF Crash, koinos
<1>9. CASE UNCHANGED vars
  BY <1>9, ForgettingKeeps DEF vars
<1> QED
  BY <1>1, <1>2, <1>3, <1>4, <1>5, <1>6, <1>7, <1>8, <1>9 DEF Next

\* The inductive invariant of the job, the handler in flight, the taps and the queue.
THEOREM LandingHolds == ASSUME Relayed PROVE Spec => []LandingInv
<1>1. Init => LandingInv
  BY InitHolds
<1>2. LandingInv /\ [Next]_vars => LandingInv'
  BY StepKeepsInv
<1> QED
  BY <1>1, <1>2, PTL DEF Spec

\* While the sponsor may claim the deposits, a conversion says it landed only if the
\* bridge has paid its deposit out and, on route B, its own swap succeeded, whatever is
\* mined late, dropped, tapped twice or forgotten in a crash (funding.js:902).
THEOREM SaidLandedHolds == ASSUME Relayed PROVE Spec => []SaidLandedHasLanded
<1>1. LandingInv => SaidLandedHasLanded
  BY DEF LandingInv, JobTrue, SaidLandedHasLanded
<1>2. Spec => []LandingInv
  BY LandingHolds
<1> QED
  BY <1>1, <1>2, PTL

\* A save with the same deposit keeps the conversion.
Kept(j) == \E k \in job' : k.dep = j.dep

LEMMA SavedIsKept == ASSUME NEW j, NEW k, Save(k), k.dep = j.dep PROVE Kept(j)
  BY DEF Save, Kept

LEMMA StayedIsKept == ASSUME NEW j \in job, UNCHANGED job PROVE Kept(j)
  BY DEF Kept

LEMMA StatusKept ==
  ASSUME NEW j \in Job, NEW s, Save([j EXCEPT !.status = s]) PROVE Kept(j)
<1>1. PICK k : k = [j EXCEPT !.status = s]
  OBVIOUS
<1>2. k.dep = j.dep
  BY <1>1 DEF Job
<1> QED
  BY <1>1, <1>2, SavedIsKept

LEMMA TapKept ==
  ASSUME NEW j \in Job, NEW n, Save([j EXCEPT !.needsTap = n]) PROVE Kept(j)
<1>1. PICK k : k = [j EXCEPT !.needsTap = n]
  OBVIOUS
<1>2. k.dep = j.dep
  BY <1>1 DEF Job
<1> QED
  BY <1>1, <1>2, SavedIsKept

LEMMA StatusTapKept ==
  ASSUME NEW j \in Job, NEW s, NEW n, Save([j EXCEPT !.status = s, !.needsTap = n])
  PROVE  Kept(j)
<1>1. PICK k : k = [j EXCEPT !.status = s, !.needsTap = n]
  OBVIOUS
<1>2. k.dep = j.dep
  BY <1>1 DEF Job
<1> QED
  BY <1>1, <1>2, SavedIsKept

LEMMA FailureKept ==
  ASSUME NEW j \in Job, NEW s, NEW f, Save([j EXCEPT !.status = s, !.failedAt = f])
  PROVE  Kept(j)
<1>1. PICK k : k = [j EXCEPT !.status = s, !.failedAt = f]
  OBVIOUS
<1>2. k.dep = j.dep
  BY <1>1 DEF Job
<1> QED
  BY <1>1, <1>2, SavedIsKept

LEMMA RetryKept ==
  ASSUME NEW j \in Job, Resume(j) PROVE Kept(j)
<1>1. PICK k : k = [j EXCEPT !.status = "awaiting_signatures", !.failedAt = "none",
                             !.needsTap = FALSE]
  OBVIOUS
<1>2. k.dep = j.dep
  BY <1>1 DEF Job
<1> QED
  BY <1>1, <1>2, SavedIsKept DEF Resume

LEMMA StepKeepsLiveJob ==
  ASSUME Relayed, LandingInv, [Next]_vars, NEW j \in job, j.status # "done"
  PROVE  Kept(j)
<1>1. j \in Job /\ job = {j}
  BY DEF LandingInv, Typed, JobTrue
<1>2. ASSUME NEW r \in Routes, NEW k \in Kinds, Start(r, k) PROVE FALSE
  BY <1>2 DEF Start
<1>3. ASSUME Deposited(j) \/ Resume(j) \/ Tick(j) \/ PrepareTap(j) PROVE Kept(j)
  BY <1>1, <1>3, StayedIsKept, StatusKept, RetryKept DEF Deposited, Tick, PrepareTap
<1>4. ASSUME NEW d \in driver,
             \/ PollReady(d) \/ PollNotReady(d) \/ TickFails(d)
             \/ RedeemChecked(d) \/ RedeemTurnedDown(d) \/ RedeemSend(d)
      PROVE  Kept(j)
  <2>1. d.read = j
    BY <1>1, DriverReads
  <2>2. CASE PollReady(d)
    BY <1>1, <2>1, <2>2, StatusTapKept DEF PollReady
  <2>3. CASE PollNotReady(d)
    BY <1>1, <2>1, <2>3, StayedIsKept, SavedIsKept, StatusKept, FailureKept DEF PollNotReady
  <2>4. CASE TickFails(d)
    BY <1>1, <2>4, StayedIsKept, FailureKept DEF TickFails
  <2>5. CASE RedeemChecked(d) \/ RedeemSend(d)
    BY <2>5, StayedIsKept DEF RedeemChecked, RedeemSend
  <2>6. CASE RedeemTurnedDown(d)
    BY <1>1, <2>1, <2>6, StatusTapKept, TapKept DEF RedeemTurnedDown
  <2> QED
    BY <1>4, <2>2, <2>3, <2>4, <2>5, <2>6
<1>5. ASSUME NEW d \in driver, NEW q \in queue, RedeemReply(d, q) PROVE Kept(j)
  <2>1. PICK k \in RedeemResult(j, q.result) : Save(k)
    BY <1>1, <1>5 DEF RedeemReply
  <2>2. CASE q.result \in {"ok", "already"}
    <3>1. Save([j EXCEPT !.status = IF j.dep.route = "B" THEN "awaiting_swap" ELSE "done"])
      BY <2>1, <2>2 DEF RedeemResult, Landed
    <3> QED
      BY <1>1, <3>1, StatusKept
  <2>3. CASE q.result = "refused"
    <3>1. Save([j EXCEPT !.needsTap = TRUE])
      BY <2>1, <2>3 DEF RedeemResult
    <3> QED
      BY <1>1, <3>1, TapKept
  <2>4. CASE q.result = "quorum"
    <3>1. Save([j EXCEPT !.status = "awaiting_signatures", !.needsTap = FALSE])
      BY <2>1, <2>4 DEF RedeemResult
    <3> QED
      BY <1>1, <3>1, StatusTapKept
  <2>5. CASE q.result \notin {"ok", "already", "refused", "quorum"}
    <3>1. k = j \/ Save([j EXCEPT !.status = "error", !.failedAt = "awaiting_redeem"])
      BY <2>1, <2>5 DEF RedeemResult
    <3> QED
      BY <1>1, <2>1, <3>1, SavedIsKept, FailureKept
  <2> QED
    BY <2>2, <2>3, <2>4, <2>5
<1>6. ASSUME NEW i \in readers, Prepared(i) \/ PrepareFails(i) PROVE Kept(j)
  <2>1. i.status = "awaiting_swap"
    BY DEF LandingInv, TapsSound
  <2> QED
    BY <1>6, <2>1, StayedIsKept DEF Prepared, PrepareFails
<1>7. ASSUME NEW t \in refs, Submit(t) \/ Forget(t) PROVE Kept(j)
  BY <1>7, StayedIsKept DEF Submit, Forget
<1>8. ASSUME NEW q \in queue, TapReply(q) PROVE Kept(j)
  <2>1. UNCHANGED job \/ Save(OnTapDone(j, q.tx.step))
    BY <1>1, <1>8 DEF TapReply
  <2> QED
    BY <1>1, <2>1, StayedIsKept, StatusKept DEF OnTapDone, Landed
<1>9. ASSUME NEW t \in pool, Mine(t) \/ Drop(t) PROVE Kept(j)
  BY <1>9, StayedIsKept DEF Mine, Drop
<1>10. CASE Crash \/ UNCHANGED vars
  BY <1>10, StayedIsKept DEF Crash, vars
<1> QED
  BY <1>1, <1>2, <1>3, <1>4, <1>5, <1>6, <1>7, <1>8, <1>9, <1>10 DEF Next

\* While the sponsor may claim the deposits, a conversion that is not done stays the
\* account's job: no handler, tap or reply of another takes its place (funding.js:626).
THEOREM LiveJobStays == ASSUME Relayed PROVE Spec => LiveJobKept
<1>1. LandingInv /\ [Next]_vars =>
        [\A j \in job : j.status # "done" => \E k \in job' : k.dep = j.dep]_vars
  BY StepKeepsLiveJob DEF Kept
<1>2. Spec => []LandingInv
  BY LandingHolds
<1> QED
  BY <1>1, <1>2, PTL DEF Spec, LiveJobKept
===============================================================================
