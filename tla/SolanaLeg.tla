------------------------------- MODULE SolanaLeg -------------------------------
(***************************************************************************)
(* The Solana leg of a SOL conversion: swap the deposit, bridge what it     *)
(* bought, fetch the guardians' message (tools/funding.js:1217-1337 and     *)
(* :736-870, tools/eth/funding-v2.js:704-716, tools/sol/).  A job with a v2 *)
(* plan journals a signature before it sends; one of an earlier release     *)
(* sends first, and looks for the money when it fails or is retried.        *)
(*                                                                          *)
(* Every read of a node is a step of its own.  A signed transaction can     *)
(* land until its blockhash lapses; a node may be one transaction behind.   *)
(***************************************************************************)
EXTENDS Naturals, FiniteSets, Sequences, SequencesExt

CONSTANTS
  Versions,   \* of the job: v2 (TRUE) or earlier (FALSE)
  Leftovers, LeftoversEarlier,  \* tokens at the address that are not a job's, an earlier one's
  MaxTx, MaxTxEarlier,          \* bound: transactions signed, of an earlier job
  MaxLapses, MaxLapsesEarlier,  \* bound: blockhashes that lapse, of an earlier job
  MaxFails,   \* bound: transactions that fail on the chain
  MaxLags     \* bound: reads that a node which is behind answers

ASSUME Bounds == /\ Versions \subseteq BOOLEAN /\ Leftovers \cup LeftoversEarlier \subseteq Nat
                 /\ {MaxTx, MaxLapses, MaxFails, MaxLags} \subseteq Nat
                 /\ MaxTxEarlier \in 0..MaxTx /\ MaxLapsesEarlier \in 0..MaxLapses

Tx == [n : 1..MaxTx, step : {"sol_swap", "sol_bridge"}, amount : Nat]
Step == {"sol_swap", "sol_bridge", "awaiting_vaa", "wh_redeem"}
Job == [v2 : BOOLEAN, status : Step \cup {"error", "reset"}, failedAt : Step \cup {"none"},
        pend : SUBSET Tx, before : Nat, sats : Nat, swap : SUBSET Tx,
        bridge : SUBSET Tx, msg : SUBSET Tx, resends : 0..MaxLapses, recoveries : 0..3]

VARIABLES
  job,     \* the account's job, durable
  tick,    \* the tick's handler between two awaits: {} or [at, of, tx, have]
  retry,   \* resume() of an earlier job: {} or the job it read and its answer
  signed,  \* how many transactions were signed
  pool,    \* transactions a node has taken and that have not landed
  lapsed,  \* transactions whose blockhash is too old to land
  landed,  \* what landed, in order: [tx, ok, have], have the tokens after it
  left,    \* tokens at the address that were there before
  vaa,     \* transfers the guardians have signed
  lags     \* ghost: reads answered by a node that is behind

solana == <<pool, lapsed, landed, left, vaa>>
vars == <<job, tick, retry, signed, solana, lags>>

AllSigned(j) == signed >= IF j.v2 THEN MaxTx ELSE MaxTxEarlier
AllLapsed(j) == Cardinality(lapsed) >= IF j.v2 THEN MaxLapses ELSE MaxLapsesEarlier

NewJob(v2, l) ==
  [v2 |-> v2, status |-> "sol_swap", failedAt |-> "none", pend |-> {}, before |-> l,
   sats |-> 0, swap |-> {}, bridge |-> {}, msg |-> {}, resends |-> 0, recoveries |-> 0]

Init ==
  /\ \E v2 \in Versions : \E l \in IF v2 THEN Leftovers ELSE LeftoversEarlier :
       job = {NewJob(v2, l)} /\ left = l
  /\ tick = {} /\ retry = {} /\ signed = 0
  /\ pool = {} /\ lapsed = {} /\ landed = << >> /\ vaa = {} /\ lags = 0

-----------------------------------------------------------------------------
(* What nodes answer. *)

Swapped(c) == {i \in DOMAIN c : c[i].ok /\ c[i].tx.step = "sol_swap"}
Bridged(c) == {i \in DOMAIN c : c[i].ok /\ c[i].tx.step = "sol_bridge"}
\* The tokens at the address; a swap buys one unit, a transfer takes what it was built for.
Tokens(c) == IF c = << >> THEN left ELSE Last(c).have
After(t, ok) == Tokens(landed) + (IF ok /\ t.step = "sol_swap" THEN 1 ELSE 0)
                               - (IF ok THEN t.amount ELSE 0)

Status(c, t) == IF \E i \in DOMAIN c : c[i].tx = t /\ c[i].ok THEN "ok"
                ELSE IF \E i \in DOMAIN c : c[i].tx = t THEN "failed" ELSE "unknown"

\* A read is answered by a current node, or by one that is behind.
Read(c) ==
  \/ c = landed /\ lags' = lags
  \/ landed # << >> /\ c = Front(landed) /\ lags < MaxLags /\ lags' = lags + 1
Answers == {landed} \cup (IF landed = << >> THEN {} ELSE {Front(landed)})

-----------------------------------------------------------------------------
(* The tick: advanceSol() and onSolConfirmed(). *)

Save(j) == job' = {j}
Busy(j, at, t, have) == tick' = {[at |-> at, of |-> j, tx |-> t, have |-> have]}
Goes == UNCHANGED <<job, retry, signed, solana>>

\* The pending signature is cleared.
Dropped(j) == [j EXCEPT !.pend = {}]

At(j, status) == [Dropped(j) EXCEPT !.status = status]

\* Where the money is: reconcileSol(), asked from the end of the route backwards, with
\* the record as it was read.  What it finds is put into the record as it is now.
Found(j, c, now) ==
  LET at == IF j.status = "error" THEN j.failedAt ELSE j.status
      posted == SelectSeq(c, LAMBDA e : e.ok /\ e.tx.step = "sol_bridge")
      sent == j.msg # {} \/ \E e \in ToSet(posted) : e.tx \in j.bridge
  IN CASE sent -> {At(now, "awaiting_vaa")}
       [] ~sent /\ Tokens(c) > 0 -> {[At(now, "sol_bridge") EXCEPT !.sats = Tokens(c)]}
       [] OTHER ->
            IF (at = "sol_bridge" \/ j.bridge # {}) /\ posted # << >>
            THEN {[At(now, "awaiting_vaa") EXCEPT !.bridge = {Last(posted).tx},
                                                  !.msg = {Last(posted).tx}]}
            ELSE {At(now, "sol_swap") : t \in {u \in j.pend : /\ at = "sol_swap" /\ j.swap = {}
                                                              /\ Status(c, u) # "ok"}}

\* failOrRecover(), of the step the handler had read: an earlier job that is found at
\* another step carries on there.
Fail(j) ==
  \E c \in Answers, now \in job :
    /\ Read(c) /\ tick' = {}
    /\ LET elsewhere == {p \in Found(j, c, now) : ~j.v2 /\ j.recoveries < 3 /\ p.status # j.status}
       IN IF elsewhere = {}
          THEN Save([now EXCEPT !.status = "error", !.failedAt = j.status])
          ELSE \E p \in elsewhere : Save([p EXCEPT !.recoveries = j.recoveries + 1])
    /\ UNCHANGED <<retry, signed, solana>>

Visits(j) == j.status \notin {"error", "wh_redeem", "reset"}

\* A pending signature is looked up first.
ReadStatus(j) ==
  /\ tick = {} /\ Visits(j)
  /\ \E t \in j.pend, c \in Answers :
       /\ Read(c)
       /\ \/ Status(c, t) = "ok" /\ Busy(j, "confirmed", t, 0)
          \/ Status(c, t) = "unknown" /\ Busy(j, "height", t, 0)
       /\ Goes

\* It failed on the chain: so does the step.
FailedOnChain(j) ==
  /\ tick = {} /\ Visits(j)
  /\ \E t \in j.pend : Status(landed, t) = "failed"
  /\ Fail(j)

\* MUTANT of CannotLand: a transaction the node does not know is given up.
CannotLandUnseen(t) == TRUE

\* The current height is past the last one at which it could land.
CannotLand(t) == t \in lapsed

\* An unknown transaction that has lapsed is dropped, another one is sent again.
ReadHeight ==
  \E h \in tick :
    /\ h.at = "height"
    /\ \/ /\ CannotLand(h.tx)
          /\ Save([Dropped(h.of) EXCEPT !.resends = @ + 1]) /\ tick' = {}
       \/ /\ ~CannotLand(h.tx) /\ UNCHANGED job
          /\ tick' = {[h EXCEPT !.at = "resend"] : x \in {y \in {1} : h.of.v2}}
    /\ UNCHANGED <<retry, signed, solana, lags>>

\* MUTANT of Bought: everything at the address is taken for the job's.
BoughtAll(j, have) == have

\* What the job's swap has added to the address.
Bought(j, have) == have - j.before

\* onSolConfirmed(): what deliveredByTx() says, or the balance without it.
Confirmed ==
  \E h \in tick :
    LET j == Dropped(h.of)
    IN /\ h.at = "confirmed" /\ tick' = {}
       /\ \/ /\ j.status = "sol_swap" /\ lags' = lags
             /\ Save([j EXCEPT !.status = "sol_bridge", !.swap = {h.tx}, !.sats = 1])
          \/ /\ j.status = "sol_swap"
             /\ \E c \in Answers :
                  /\ Read(c) /\ Tokens(c) > j.before
                  /\ Save([j EXCEPT !.status = "sol_bridge", !.swap = {h.tx},
                                    !.sats = Bought(j, Tokens(c))])
          \/ /\ j.status = "sol_bridge" /\ lags' = lags
             /\ Save([j EXCEPT !.status = "awaiting_vaa", !.bridge = {h.tx}])
       /\ UNCHANGED <<retry, signed, solana>>

\* The swap step reads the balance before it swaps.
ReadBalance(j) ==
  /\ tick = {} /\ j.status = "sol_swap" /\ j.pend = {}
  /\ \E c \in Answers :
       /\ Read(c)
       /\ \/ /\ Tokens(c) > j.before
             /\ Save([j EXCEPT !.status = "sol_bridge", !.sats = Bought(j, Tokens(c))])
             /\ UNCHANGED tick
          \/ /\ Tokens(c) <= j.before /\ j.swap = {} /\ j.resends <= 3
             /\ Busy(j, "swap", [n |-> 0, step |-> "sol_swap", amount |-> 0], Tokens(c))
             /\ UNCHANGED job
  /\ UNCHANGED <<retry, signed, solana>>

\* No swap again after one that confirmed, nor after four that lapsed.
SwapRefused(j) ==
  /\ tick = {} /\ j.status = "sol_swap" /\ j.pend = {}
  /\ Tokens(landed) <= j.before /\ (j.swap # {} \/ j.resends > 3)
  /\ Fail(j)

\* The bridge step reads the balance it is about to send.
ReadAmount(j) ==
  /\ tick = {} /\ j.status = "sol_bridge" /\ j.pend = {}
  /\ \E c \in Answers :
       LET have == Tokens(c)
           amount == IF j.v2 THEN j.sats ELSE have
       IN /\ Read(c) /\ have > 0 /\ amount > 0 /\ have >= amount
          /\ Busy(j, "bridge", [n |-> 0, step |-> "sol_bridge", amount |-> amount], have)
  /\ Goes

NothingToBridge(j) ==
  /\ tick = {} /\ j.status = "sol_bridge" /\ j.pend = {}
  /\ LET have == Tokens(landed) IN have <= 0 \/ (j.v2 /\ (j.sats <= 0 \/ have < j.sats))
  /\ Fail(j)

\* Signed bytes are saved before they are sent: in jobs with a v2 plan.
Journal(j) == j.v2

Pending(j, t, have) == [j EXCEPT !.pend = {t},
                          !.before = IF t.step = "sol_swap" THEN have ELSE @,
                          !.sats = IF t.step = "sol_bridge" THEN t.amount ELSE @]

\* The transaction is built and signed.
Sign ==
  \E h \in tick :
    /\ h.at \in {"swap", "bridge"} /\ ~AllSigned(h.of)
    /\ LET t == [h.tx EXCEPT !.n = signed + 1]
           j == IF Journal(h.of) THEN Pending(h.of, t, h.have) ELSE h.of
       IN Save(j) /\ Busy(j, "send", t, h.have)
    /\ signed' = signed + 1
    /\ UNCHANGED <<retry, solana, lags>>

\* A node takes what can still land.
Taken(h) == h.tx \notin lapsed /\ Status(landed, h.tx) = "unknown"

\* sendRaw(); its reply may be lost, and it may not get there.
SendRaw ==
  \E h \in tick :
    /\ h.at \in {"send", "resend"}
    /\ tick' = {[k EXCEPT !.at = "save"] : k \in {i \in tick : i.at = "send" /\ ~Journal(i.of)}}
    /\ pool' = pool \cup {t \in {h.tx} : Taken(h)}
    /\ UNCHANGED <<job, retry, signed, lapsed, landed, left, vaa, lags>>

\* An earlier job is saved after the send, as the handler had read it.
SaveSent ==
  \E h \in tick :
    /\ h.at = "save" /\ tick' = {}
    /\ Save(Pending(h.of, h.tx, h.have))
    /\ UNCHANGED <<retry, signed, solana, lags>>

\* The message of the job's transfer, then the guardians' signatures, checked
\* against the recipient and the token.
ReadMessage(j) ==
  /\ tick = {} /\ j.status = "awaiting_vaa"
  /\ \/ /\ j.msg = {} /\ \E t \in j.bridge : Status(landed, t) = "ok"
        /\ Save([j EXCEPT !.msg = j.bridge])
     \/ j.msg # {} /\ j.msg \subseteq vaa /\ Save([j EXCEPT !.status = "wh_redeem"])
  /\ UNCHANGED <<tick, retry, signed, solana, lags>>

\* A job that waits for the message of a transfer it has no record of: the node rejects
\* the question.
NothingToAsk(j) ==
  /\ tick = {} /\ j.status = "awaiting_vaa" /\ j.msg = {} /\ j.bridge = {}
  /\ Fail(j)

\* A read or a send throws; or the guardians take too long.  Messages that look
\* transient leave the job alone.
Throws(j) ==
  \/ \E h \in tick : Fail(h.of)
  \/ tick = {} /\ Visits(j) /\ Fail(j)
  \/ tick # {} /\ tick' = {} /\ UNCHANGED <<job, retry, signed, solana, lags>>

-----------------------------------------------------------------------------
(* Retry and reset. *)

\* resume() of a v2 job goes back to the step that failed.
Resumed(j) == [j EXCEPT !.status = j.failedAt, !.failedAt = "none"]

Resume(j) ==
  /\ j.v2 /\ j.status = "error"
  /\ Save(Resumed(j))
  /\ UNCHANGED <<tick, retry, signed, solana, lags>>

Clean(j) == [Dropped(j) EXCEPT !.failedAt = "none", !.resends = 0]
Answered(j, c) == {Clean(p) : p \in Found(j, c, j)}

\* MUTANT of Recorded: the step that failed is forgotten and not gone back to.
RecordedFailed(j) == {Clean(j)}

Recorded(j) == {Clean([j EXCEPT !.status = IF @ = "error" THEN j.failedAt ELSE @])}

\* Of an earlier job, failed or stalled: it reads where the money is, or goes by the
\* record ...
Retry(j) ==
  /\ ~j.v2 /\ retry = {} /\ j.status \notin {"wh_redeem", "reset"}
  /\ \E c \in Answers :
       /\ Read(c)
       /\ \/ Answered(j, c) # {} /\ retry' = Answered(j, c)
          \/ retry' = Recorded(j)
  /\ UNCHANGED <<job, tick, signed, solana>>

\* ... and saves what it found over the job it read.
Retried ==
  /\ retry # {} /\ job' = retry /\ retry' = {}
  /\ UNCHANGED <<tick, signed, solana, lags>>

\* reset(): refused for a v2 job that may have moved something.
Reset(j) ==
  /\ j.status = "error"
  /\ j.v2 => j.swap = {} /\ j.pend = {}
  /\ Save([j EXCEPT !.status = "reset"])
  /\ UNCHANGED <<tick, retry, signed, solana, lags>>

-----------------------------------------------------------------------------
(* Solana, the guardians and the process. *)

Land(t) ==
  /\ t \notin lapsed /\ pool' = pool \ {t}
  /\ \E ok \in BOOLEAN :
       /\ ok => t.amount <= Tokens(landed)
       /\ ~ok => Cardinality({i \in DOMAIN landed : ~landed[i].ok}) < MaxFails
                   \/ t.amount > Tokens(landed)
       /\ landed' = Append(landed, [tx |-> t, ok |-> ok, have |-> After(t, ok)])
  /\ UNCHANGED <<job, tick, retry, signed, lapsed, left, vaa, lags>>

\* Transactions that nobody will send again need not lapse.
Outstanding == UNION {j.pend : j \in job} \cup {h.tx : h \in tick} \cup pool
Lapse(t) ==
  /\ \A j \in job : ~AllLapsed(j)
  /\ t.n > 0 /\ t \notin lapsed
  /\ lapsed' = lapsed \cup {t} /\ pool' = pool \ {t}
  /\ UNCHANGED <<job, tick, retry, signed, landed, left, vaa, lags>>

Guardians ==
  /\ \E i \in Bridged(landed) : landed[i].tx \notin vaa /\ vaa' = vaa \cup {landed[i].tx}
  /\ UNCHANGED <<job, tick, retry, signed, pool, lapsed, landed, left, lags>>

Crash ==
  /\ tick # {} \/ retry # {}
  /\ tick' = {} /\ retry' = {}
  /\ UNCHANGED <<job, signed, solana, lags>>

Steps(j) == \/ ReadStatus(j) \/ FailedOnChain(j) \/ ReadHeight \/ Confirmed
            \/ ReadBalance(j) \/ SwapRefused(j) \/ ReadAmount(j) \/ NothingToBridge(j)
            \/ Sign \/ SaveSent \/ ReadMessage(j) \/ NothingToAsk(j)
            \/ SendRaw

Next ==
  \/ \E j \in job : Steps(j) \/ Throws(j) \/ Resume(j) \/ Retry(j) \/ Reset(j)
  \/ \E t \in pool : Land(t)
  \/ \E t \in Outstanding : Lapse(t)
  \/ Retried \/ Guardians \/ Crash

Spec == Init /\ [][Next]_vars

\* From some moment on reads succeed and nothing crashes; then the timer, the
\* chain and the guardians go on, and the user answers a failure with Retry.
Faults ==
  \/ lags' # lags
  \/ \E j \in job : \/ (Crash \/ Throws(j)) /\ ~Steps(j) /\ ~Retried
                    \/ Retry(j) /\ j.status # "error"
Fairness ==
  /\ <>[][~Faults]_vars
  /\ WF_vars(\E j \in job : Steps(j) /\ lags' = lags)
  /\ WF_vars(\E t \in pool : Land(t)) /\ WF_vars(Guardians)
  /\ WF_vars(\E j \in job : Resume(j)) /\ WF_vars(Retried)
  /\ SF_vars(\E j \in job : j.status = "error" /\ Retry(j) /\ lags' = lags
                                /\ retry' = IF Found(j, landed, j) = {} THEN Recorded(j)
                                              ELSE Answered(j, landed))

FairSpec == Spec /\ Fairness

-----------------------------------------------------------------------------
(* Properties. *)

TypeOK ==
  /\ Cardinality(job) = 1 /\ job \cup retry \subseteq Job
  /\ \A j \in job : j.status = "error" => j.failedAt # "none"
  /\ \A j \in job : (j.pend # {} /\ j.v2) =>
                     {j.status, j.failedAt} \cap {"sol_swap", "sol_bridge"} # {}
  /\ Cardinality(tick) <= 1 /\ Cardinality(retry) <= 1
  /\ signed \in 0..MaxTx /\ pool \cup lapsed \cup vaa \subseteq Tx /\ pool \cap lapsed = {}

Planned == \A j \in job : j.v2
LandedOk == {landed[i].tx : i \in {k \in DOMAIN landed : landed[k].ok}}

\* "The deposit must not be swapped twice" (funding.js:1252): whatever crashes, lapses
\* or is retried, unless a node that is behind answered.
SwappedOnce == Planned /\ lags = 0 => Cardinality(Swapped(landed)) <= 1

\* A transfer that landed although the job dropped it.
Overlooked(j) == {t \in LandedOk : t.step = "sol_bridge"} \ (j.pend \cup j.bridge) # {}

\* Tokens that were at the address before stay there, unless the job's own transfer
\* was overlooked: the bridge moves "this job's authorized amount" (funding.js:1287).
LeftoverKept == \A j \in job : j.v2 => Overlooked(j) \/ Tokens(landed) >= left

FailedForGood(j) == j.v2 /\ \E t \in j.pend : Status(landed, t) = "failed"
Exhausted(j) == j.v2 /\ j.resends > 3
Ended == \E j \in job : j.status \in {"wh_redeem", "reset"}

\* The instance's own limit: the leg asks for one more signature than it has.
Stopped == \E h \in tick : h.at \in {"swap", "bridge"} /\ AllSigned(h.of)

\* What failOrRecover() found out for the record it had read was put into one that a
\* Retry had saved meanwhile (funding.js:948): it waits for a message it cannot name.
Unrecorded(j) == ~j.v2 /\ j.status = "awaiting_vaa" /\ j.msg = {} /\ j.bridge = {}

\* The leg comes to its end, except that a v2 job stays behind for an operator when a
\* transaction failed on the chain, four signatures lapsed or its transfer landed
\* between the two reads of funding.js:1236 and :1242.  An earlier job ends by itself or
\* after Retry, unless its record lost the transfer.
ForOperator(j) == j.v2 /\ (FailedForGood(j) \/ Exhausted(j) \/ Overlooked(j))
SolSettles == <>(Ended \/ Stopped \/ \E j \in job : ForOperator(j) \/ Unrecorded(j))

\* An earlier job always ends: MCSolEarlier.cfg shows that it does not.
EarlierEnds == <>(Ended \/ Stopped)

\* "Retry re-reads the chain and resumes from where the money actually is"
\* (public/js/fund.js:615): so the leg comes to its end.
RetryResumes == <>(Ended \/ \E j \in job : AllSigned(j))
=============================================================================
