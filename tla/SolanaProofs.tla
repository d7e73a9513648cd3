----------------------------- MODULE SolanaProofs -----------------------------
(***************************************************************************)
(* Theorems about SolanaLeg, for any versions, leftovers and bounds: the    *)
(* deposit of a job with a v2 plan is swapped at most once while no node    *)
(* that is behind answered, and what lay at the address before stays there. *)
(***************************************************************************)
EXTENDS SolanaLeg, Integers, FiniteSetTheorems, TLAPS

(* An earlier job stays one, and none of the properties speaks of it. *)

Fields == {"v2", "status", "failedAt", "pend", "before", "sats", "swap", "bridge", "msg",
           "resends", "recoveries"}
Shaped(j) == DOMAIN j = Fields /\ j = [x \in DOMAIN j |-> j[x]]

Reading(h) == h = [at |-> h.at, of |-> h.of, tx |-> h.tx, have |-> h.have]
Old(j) == Shaped(j) /\ j.v2 = FALSE

EarlierInv == /\ job # {} /\ \A j \in job \cup retry : Old(j)
              /\ \A h \in tick : Reading(h) /\ Old(h.of)

-----------------------------------------------------------------------------
(* A job with a v2 plan. *)

StepOf(j) == IF j.status = "error" THEN j.failedAt ELSE j.status
Signed == [n : Nat, step : {"sol_swap", "sol_bridge"}, amount : Nat]
Entry == [tx : Signed, ok : BOOLEAN, have : Int]
Gained(c) == Cardinality(Swapped(c))

JobSound(j) ==
  /\ Shaped(j) /\ j.v2 = TRUE
  /\ StepOf(j) \in Step \cup {"reset"}
  /\ j.status = "error" => j.failedAt \in {"sol_swap", "sol_bridge", "awaiting_vaa"}
  /\ \A t \in j.pend : /\ t \in Signed /\ t.n <= signed /\ t.step = StepOf(j)
                       /\ t.step = "sol_swap" => t.amount = 0
  /\ \A t, u \in j.pend : t = u
  /\ StepOf(j) \in {"sol_swap", "sol_bridge"} => j.bridge = {}
  /\ StepOf(j) = "sol_swap" => j.swap = {} /\ j.before = left
  /\ StepOf(j) = "sol_bridge" =>
       j.sats \in Nat /\ j.sats <= Gained(landed) /\ \A t \in j.pend : t.amount = j.sats

OneJob == /\ retry = {} /\ job # {} /\ \A j, k \in job : j = k
          /\ \A j \in job : JobSound(j)

\* What the handler has read is still the job, and what it is about to sign fits.
TickSound ==
  /\ \A g, h \in tick : g = h
  /\ \A h \in tick :
       /\ Reading(h) /\ h.of \in job /\ Visits(h.of)
       /\ h.at \in {"confirmed", "height", "resend", "swap", "bridge", "send"}
       /\ h.at \notin {"swap", "bridge"} => h.tx \in h.of.pend
       /\ h.at = "confirmed" => \E i \in DOMAIN landed : landed[i].ok /\ landed[i].tx = h.tx
       /\ h.at = "swap" =>
            /\ h.of.status = "sol_swap" /\ h.of.pend = {} /\ h.have = left
            /\ h.tx = [n |-> 0, step |-> "sol_swap", amount |-> 0]
            /\ lags = 0 => Swapped(landed) = {}
       /\ h.at = "bridge" =>
            /\ h.of.status = "sol_bridge" /\ h.of.pend = {}
            /\ h.tx = [n |-> 0, step |-> "sol_bridge", amount |-> h.of.sats]

\* Only the journaled transaction can land, and once.
ChainSound ==
  /\ landed \in Seq(Entry)
  /\ left \in Nat /\ signed \in Nat /\ lags \in Nat
  /\ \A i \in DOMAIN landed : landed[i].tx.n <= signed
  /\ \A i, k \in DOMAIN landed : landed[i].tx = landed[k].tx => i = k
  /\ pool \subseteq UNION {j.pend : j \in job} /\ pool \cap lapsed = {}
  /\ \A i \in DOMAIN landed : landed[i].tx \notin pool

\* Before anything is bridged the tokens are what was there and what was bought, and
\* what landed of the swaps is the one in flight, if one is.
SwapStage ==
  \A j \in job : StepOf(j) = "sol_swap" =>
    /\ \A i \in DOMAIN landed : landed[i].tx.step = "sol_swap"
    /\ \A c \in Answers : Tokens(c) \in left..(left + Gained(landed))
    /\ lags = 0 /\ j.pend # {} => \A i \in Swapped(landed) : landed[i].tx \in j.pend

Once == lags = 0 => \A i, k \in Swapped(landed) : i = k

\* What was there stays: one transfer takes no more than was bought.
Keeps ==
  \A j \in job : \/ Overlooked(j)
                 \/ IF Bridged(landed) = {} THEN Tokens(landed) = left + Gained(landed)
                                            ELSE Tokens(landed) >= left

PlannedInv == OneJob /\ TickSound /\ ChainSound /\ SwapStage /\ Once /\ Keeps

SolInv == EarlierInv \/ PlannedInv

-----------------------------------------------------------------------------
(* Records. *)

LEMMA FieldSet ==
  ASSUME NEW j, Shaped(j), NEW f \in Fields, NEW v, NEW k, k = [j EXCEPT ![f] = v]
  PROVE  Shaped(k) /\ k[f] = v /\ \A g \in Fields \ {f} : k[g] = j[g]
  BY DEF Shaped

LEMMA OldSet ==
  ASSUME NEW j, Old(j), NEW f \in Fields \ {"v2"}, NEW v PROVE Old([j EXCEPT ![f] = v])
  BY FieldSet DEF Old, Fields

LEMMA AtBusy ==
  ASSUME NEW j, NEW at, NEW t, NEW have, Busy(j, at, t, have)
  PROVE  \A h \in tick' : Reading(h) /\ h.of = j /\ h.at = at /\ h.tx = t /\ h.have = have
  BY DEF Busy, Reading

LEMMA AtSet ==
  ASSUME NEW h, Reading(h), NEW at, NEW k, k = [h EXCEPT !.at = at]
  PROVE  Reading(k) /\ k.of = h.of /\ k.tx = h.tx /\ k.have = h.have /\ k.at = at
  BY DEF Reading

-----------------------------------------------------------------------------
(* An earlier job. *)

LEMMA OldPending == ASSUME NEW j, Old(j), NEW t, NEW have PROVE Old(Pending(j, t, have))
  BY DEF Pending, Old, Shaped, Fields

LEMMA OldDropped == ASSUME NEW j, Old(j) PROVE Old(Dropped(j))
  BY OldSet DEF Dropped, Fields

LEMMA OldAt == ASSUME NEW j, Old(j), NEW status PROVE Old(At(j, status))
  BY OldDropped, OldSet DEF At, Fields

LEMMA OldFound ==
  ASSUME NEW j, NEW c, NEW now, Old(now), NEW p \in Found(j, c, now) PROVE Old(p)
<1> DEFINE posted == SelectSeq(c, LAMBDA e : e.ok /\ e.tx.step = "sol_bridge")
           last == {Last(posted).tx}
<1>1. \/ \E status : p = At(now, status)
      \/ p = [At(now, "sol_bridge") EXCEPT !.sats = Tokens(c)]
      \/ p = [At(now, "awaiting_vaa") EXCEPT !.bridge = last, !.msg = last]
  BY DEF Found
<1> HIDE DEF last
<1>2. \A status : Old(At(now, status))
  BY OldAt
<1>3. Old([At(now, "sol_bridge") EXCEPT !.sats = Tokens(c)])
  BY <1>2, OldSet DEF Fields
<1>4. Old([At(now, "awaiting_vaa") EXCEPT !.bridge = last])
  BY <1>2, OldSet DEF Fields
<1>5. Old([At(now, "awaiting_vaa") EXCEPT !.bridge = last, !.msg = last])
  BY <1>4, OldSet DEF Fields
<1> QED
  BY <1>1, <1>2, <1>3, <1>5

LEMMA FailKeepsOld ==
  ASSUME EarlierInv, NEW j, Fail(j) PROVE EarlierInv'
<1>1. PICK c \in Answers, now \in job :
        LET elsewhere == {p \in Found(j, c, now) :
                            ~j.v2 /\ j.recoveries < 3 /\ p.status # j.status}
        IN  \/ Save([now EXCEPT !.status = "error", !.failedAt = j.status])
            \/ \E p \in elsewhere : Save([p EXCEPT !.recoveries = j.recoveries + 1])
  BY DEF Fail
<1>2. Old(now)
  BY DEF EarlierInv
<1>3. Old([now EXCEPT !.status = "error", !.failedAt = j.status])
  BY <1>2 DEF Old, Shaped, Fields
<1>4. ASSUME NEW p \in Found(j, c, now) PROVE Old([p EXCEPT !.recoveries = j.recoveries + 1])
  BY <1>2, <1>4, OldFound, OldSet DEF Fields
<1>5. \E k : Old(k) /\ job' = {k}
  BY <1>1, <1>3, <1>4 DEF Save
<1>6. tick' = {} /\ retry' = retry
  BY DEF Fail
<1> QED
  BY <1>5, <1>6 DEF EarlierInv

\* The handler saves a record, or goes on with the one it has read.
LEMMA OldStays ==
  ASSUME EarlierInv, retry' = retry, job' = job \/ \E k : Old(k) /\ job' = {k},
         \A h \in tick' : Reading(h) /\ Old(h.of)
  PROVE  EarlierInv'
  BY DEF EarlierInv

LEMMA StepKeepsOld ==
  ASSUME EarlierInv, NEW j \in job, Steps(j) PROVE EarlierInv'
<1>0. Old(j)
  BY DEF EarlierInv
<1>1. CASE ReadStatus(j)
  BY <1>0, <1>1, AtBusy, OldStays DEF ReadStatus, Goes
<1>2. CASE FailedOnChain(j) \/ SwapRefused(j) \/ NothingToBridge(j) \/ NothingToAsk(j)
  BY <1>2, FailKeepsOld DEF FailedOnChain, SwapRefused, NothingToBridge, NothingToAsk
<1>3. CASE ReadHeight
  <2>1. PICK h \in tick :
          \/ Save([Dropped(h.of) EXCEPT !.resends = @ + 1]) /\ tick' = {}
          \/ /\ tick' = {[h EXCEPT !.at = "resend"] : x \in {y \in {1} : h.of.v2}}
             /\ UNCHANGED job
    BY <1>3 DEF ReadHeight
  <2>2. Old(h.of)
    BY DEF EarlierInv
  <2>3. Old([Dropped(h.of) EXCEPT !.resends = @ + 1])
    BY <2>2, OldDropped, OldSet DEF Fields
  <2>4. tick' = {}
    BY <2>1, <2>2 DEF Old
  <2> QED
    BY <1>3, <2>1, <2>3, <2>4, OldStays DEF ReadHeight, Save
<1>4. CASE Confirmed
  <2>1. PICK h \in tick : \E v, s, b :
          \/ Save([Dropped(h.of) EXCEPT !.status = "sol_bridge", !.swap = v, !.sats = s])
          \/ Save([Dropped(h.of) EXCEPT !.status = "awaiting_vaa", !.bridge = b])
    BY <1>4 DEF Confirmed
  <2>2. Old(Dropped(h.of))
    BY OldDropped DEF EarlierInv
  <2>3. \A v, s, b :
           /\ Old([Dropped(h.of) EXCEPT !.status = "sol_bridge", !.swap = v, !.sats = s])
           /\ Old([Dropped(h.of) EXCEPT !.status = "awaiting_vaa", !.bridge = b])
    <3> TAKE v, s, b
    <3>1. Old([Dropped(h.of) EXCEPT !.status = "sol_bridge", !.swap = v, !.sats = s])
      BY <2>2 DEF Old, Shaped, Fields
    <3>2. Old([Dropped(h.of) EXCEPT !.status = "awaiting_vaa", !.bridge = b])
      BY <2>2 DEF Old, Shaped, Fields
    <3> QED
      BY <3>1, <3>2
  <2>4. tick' = {} /\ retry' = retry
    BY <1>4 DEF Confirmed
  <2> QED
    BY <2>1, <2>3, <2>4, OldStays DEF Save
<1>5. CASE ReadBalance(j)
  <2>1. \A s : Old([j EXCEPT !.status = "sol_bridge", !.sats = s])
    BY <1>0 DEF Old, Shaped, Fields
  <2>2. retry' = retry /\ tick = {}
    BY <1>5 DEF ReadBalance
  <2>3. \/ tick' = {} /\ \E s : job' = {[j EXCEPT !.status = "sol_bridge", !.sats = s]}
        \/ job' = job /\ \E t, have : Busy(j, "swap", t, have)
    BY <1>5, <2>2 DEF ReadBalance, Save
  <2> QED
    BY <1>0, <2>1, <2>2, <2>3, AtBusy, OldStays
<1>6. CASE ReadAmount(j)
  BY <1>0, <1>6, AtBusy, OldStays DEF ReadAmount, Goes
<1>7. CASE Sign
  <2>1. PICK h \in tick : \E t :
          LET k == IF Journal(h.of) THEN Pending(h.of, t, h.have) ELSE h.of
          IN  Save(k) /\ Busy(k, "send", t, h.have)
    BY <1>7 DEF Sign
  <2>2. Old(h.of)
    BY DEF EarlierInv
  <2>3. PICK t : Save(h.of) /\ Busy(h.of, "send", t, h.have)
    BY <2>1, <2>2 DEF Old, Journal
  <2>4. retry' = retry
    BY <1>7 DEF Sign
  <2> QED
    BY <2>2, <2>3, <2>4, AtBusy, OldStays DEF Save
<1>8. CASE SaveSent
  <2>1. PICK h \in tick : Save(Pending(h.of, h.tx, h.have))
    BY <1>8 DEF SaveSent
  <2>2. Old(Pending(h.of, h.tx, h.have))
    BY OldPending DEF EarlierInv
  <2> QED
    BY <1>8, <2>1, <2>2, OldStays DEF SaveSent, Save
<1>9. CASE ReadMessage(j)
  <2>1. Old([j EXCEPT !.msg = j.bridge]) /\ Old([j EXCEPT !.status = "wh_redeem"])
    BY <1>0, OldSet DEF Fields
  <2>2. \E k : Old(k) /\ job' = {k}
    BY <1>9, <2>1 DEF ReadMessage, Save
  <2> QED
    BY <1>9, <2>2, OldStays DEF ReadMessage
<1>10. CASE SendRaw
  <2>1. PICK h \in tick :
          tick' = {[k EXCEPT !.at = "save"] :
                     k \in {i \in tick : i.at = "send" /\ ~Journal(i.of)}}
    BY <1>10 DEF SendRaw
  <2>2. \A k \in tick' : Reading(k) /\ Old(k.of)
    BY <2>1, AtSet DEF EarlierInv
  <2> QED
    BY <1>10, <2>2, OldStays DEF SendRaw
<1> QED
  BY <1>1, <1>2, <1>3, <1>4, <1>5, <1>6, <1>7, <1>8, <1>9, <1>10 DEF Steps

LEMMA NextKeepsOld ==
  ASSUME EarlierInv, [Next]_vars PROVE EarlierInv'
<1>1. ASSUME NEW j \in job, Steps(j) PROVE EarlierInv'
  BY <1>1, StepKeepsOld
<1>2. ASSUME NEW j \in job, Throws(j) PROVE EarlierInv'
  BY <1>2, FailKeepsOld, OldStays DEF Throws
<1>3. ASSUME NEW j \in job, Resume(j) PROVE EarlierInv'
  BY <1>3 DEF Resume, EarlierInv, Old
<1>4. ASSUME NEW j \in job, Reset(j) PROVE EarlierInv'
  <2>1. Old([j EXCEPT !.status = "reset"])
    BY OldSet DEF EarlierInv, Fields
  <2> QED
    BY <1>4, <2>1 DEF Reset, Save, EarlierInv
<1>5. ASSUME NEW j \in job, Retry(j) PROVE EarlierInv'
  <2>1. Old(j)
    BY DEF EarlierInv
  <2>2. ASSUME NEW p, Old(p) PROVE Old(Clean(p))
    <3>1. Old(Dropped(p))
      BY <2>2, OldDropped
    <3> QED
      BY <3>1 DEF Clean, Old, Shaped, Fields
  <2>3. ASSUME NEW c, NEW r \in Answered(j, c) PROVE Old(r)
    BY <2>1, <2>2, <2>3, OldFound DEF Answered
  <2>4. \A s : Old([j EXCEPT !.status = s])
    BY <2>1, OldSet DEF Fields
  <2>5. \A r \in Recorded(j) : Old(r)
    BY <2>2, <2>4 DEF Recorded
  <2>6. \A r \in retry' : Old(r)
    BY <1>5, <2>3, <2>5 DEF Retry
  <2> QED
    BY <1>5, <2>6 DEF Retry, EarlierInv
<1>6. CASE Retried
  BY <1>6 DEF Retried, EarlierInv
<1>7. CASE Crash
  BY <1>7 DEF Crash, EarlierInv
<1>8. CASE Guardians \/ (\E t \in pool : Land(t)) \/ \E t \in Outstanding : Lapse(t)
  BY <1>8 DEF Guardians, Land, Lapse, EarlierInv
<1>9. CASE UNCHANGED vars
  BY <1>9 DEF vars, EarlierInv
<1> QED
  BY <1>1, <1>2, <1>3, <1>4, <1>5, <1>6, <1>7, <1>8, <1>9 DEF Next

-----------------------------------------------------------------------------
(* The chain. *)

LEMMA SwapsFinite ==
  ASSUME NEW c \in Seq(Entry) PROVE IsFiniteSet(Swapped(c)) /\ Gained(c) \in Nat
<1>1. IsFiniteSet(1..Len(c)) /\ Swapped(c) \subseteq 1..Len(c)
  BY FS_Interval DEF Swapped
<1>2. IsFiniteSet(Swapped(c))
  BY <1>1, FS_Subset
<1> QED
  BY <1>2, FS_CardinalityType DEF Gained

LEMMA SwapsCounted ==
  ASSUME NEW c \in Seq(Entry) PROVE Gained(c) = 0 <=> Swapped(c) = {}
  BY SwapsFinite, FS_EmptySet DEF Gained

\* One more entry, at the end.
OneMore(c, d, e) ==
  /\ d \in Seq(Entry) /\ d # << >> /\ Last(d) = e /\ Front(d) = c
  /\ DOMAIN d = 1..(Len(c) + 1) /\ DOMAIN c = 1..Len(c) /\ Len(c) \in Nat
  /\ d[Len(c) + 1] = e /\ \A i \in DOMAIN c : d[i] = c[i]

LEMMA Longer ==
  ASSUME NEW c \in Seq(Entry), NEW e \in Entry, NEW d, d = Append(c, e) PROVE OneMore(c, d, e)
<1>1. /\ d \in Seq(Entry) /\ d # << >> /\ Len(d) = Len(c) + 1 /\ Len(c) \in Nat
      /\ DOMAIN d = 1..(Len(c) + 1) /\ DOMAIN c = 1..Len(c)
      /\ d[Len(c) + 1] = e /\ \A i \in DOMAIN c : d[i] = c[i]
  OBVIOUS
<1>2. Last(d) = e
  BY <1>1 DEF Last
<1>3. Front(d) = c
  BY <1>1 DEF Front
<1> QED
  BY <1>1, <1>2, <1>3 DEF OneMore

Adds(e, step) == e.ok /\ e.tx.step = step
SwapsLonger(c, d, e) ==
  /\ Swapped(d) = Swapped(c) \cup {i \in {Len(c) + 1} : Adds(e, "sol_swap")}
  /\ Bridged(d) = Bridged(c) \cup {i \in {Len(c) + 1} : Adds(e, "sol_bridge")}
  /\ Gained(d) = Gained(c) + (IF Adds(e, "sol_swap") THEN 1 ELSE 0)

LEMMA CountLonger ==
  ASSUME NEW c \in Seq(Entry), NEW e \in Entry, NEW d, d = Append(c, e)
  PROVE  SwapsLonger(c, d, e)
<1>1. Swapped(d) = Swapped(c) \cup {i \in {Len(c) + 1} : Adds(e, "sol_swap")}
  BY Longer DEF OneMore, Swapped, Adds
<1>2. Bridged(d) = Bridged(c) \cup {i \in {Len(c) + 1} : Adds(e, "sol_bridge")}
  BY Longer DEF OneMore, Bridged, Adds
<1>3. Len(c) + 1 \notin Swapped(c)
  BY Longer DEF OneMore, Swapped
<1>4. IsFiniteSet(Swapped(c)) /\ Gained(c) \in Nat
  BY SwapsFinite
<1>5. CASE Adds(e, "sol_swap")
  <2>1. Swapped(d) = Swapped(c) \cup {Len(c) + 1}
    BY <1>1, <1>5
  <2>2. Gained(d) = Gained(c) + 1
    BY <2>1, <1>3, <1>4, FS_AddElement DEF Gained
  <2> QED
    BY <1>1, <1>2, <1>5, <2>2 DEF SwapsLonger
<1>6. CASE ~Adds(e, "sol_swap")
  <2>1. Swapped(d) = Swapped(c)
    BY <1>1, <1>6
  <2>2. Gained(d) = Gained(c)
    BY <2>1 DEF Gained
  <2> QED
    BY <1>1, <1>2, <1>4, <1>6, <2>2 DEF SwapsLonger
<1> QED
  BY <1>5, <1>6

\* What a node that is behind shows has landed.
LEMMA Behind ==
  ASSUME landed \in Seq(Entry), NEW c \in Answers
  PROVE  \A i \in DOMAIN c : i \in DOMAIN landed /\ c[i] = landed[i]
<1>1. CASE landed # << >> /\ c = Front(landed)
  BY <1>1 DEF Front
<1> QED
  BY <1>1 DEF Answers

\* Definitions that speak of what landed stay as they are when nothing lands.
LEMMA ChainSame ==
  ASSUME UNCHANGED <<landed, left>>
  PROVE  /\ Swapped(landed)' = Swapped(landed) /\ Bridged(landed)' = Bridged(landed)
         /\ Gained(landed)' = Gained(landed) /\ Answers' = Answers /\ LandedOk' = LandedOk
         /\ \A c : Tokens(c)' = Tokens(c)
         /\ \A j : Overlooked(j)' <=> Overlooked(j)
  BY DEF Swapped, Bridged, Gained, Answers, LandedOk, Tokens, Overlooked

LEMMA OverlookedIs ==
  \A j : Overlooked(j) <=> \E i \in Bridged(landed) : landed[i].tx \notin j.pend \cup j.bridge
  BY DEF Overlooked, LandedOk, Bridged

-----------------------------------------------------------------------------
(* A job with a v2 plan: what every step needs. *)

LEMMA TheJob ==
  ASSUME PlannedInv, NEW j \in job PROVE job = {j} /\ JobSound(j)
  BY DEF PlannedInv, OneJob

LEMMA SoundLater ==
  ASSUME NEW j, JobSound(j), UNCHANGED <<landed, left>>, signed \in Nat, signed' \in Nat,
         signed <= signed'
  PROVE  JobSound(j)'
<1>1. Gained(landed)' = Gained(landed)
  BY ChainSame
<1>2. \A t \in j.pend : t.n <= signed'
  BY DEF JobSound, Signed
<1> QED
  BY <1>1, <1>2 DEF JobSound, StepOf

LEMMA ChainStays ==
  ASSUME ChainSound, UNCHANGED <<landed, left, pool, lapsed>>,
         signed' \in Nat, signed <= signed', lags' \in Nat,
         pool \subseteq UNION {j.pend : j \in job'}
  PROVE  ChainSound'
<1>1. ASSUME NEW i \in DOMAIN landed PROVE landed[i].tx.n <= signed'
  <2>1. landed[i] \in Entry
    BY DEF ChainSound
  <2>2. landed[i].tx.n \in Nat /\ landed[i].tx.n <= signed /\ signed \in Nat
    BY <2>1 DEF ChainSound, Entry, Signed
  <2> QED
    BY <2>2
<1> QED
  BY <1>1 DEF ChainSound

\* A step in which nothing lands.
LEMMA SaveKeeps ==
  ASSUME PlannedInv, NEW j \in job, NEW k, job' = {k}, retry' = retry,
         UNCHANGED <<landed, left>>, lags' = 0 => lags = 0,
         JobSound(k)', TickSound', ChainSound',
         \A i \in Bridged(landed) :
           landed[i].tx \in k.pend \cup k.bridge => landed[i].tx \in j.pend \cup j.bridge,
         StepOf(k) = "sol_swap" =>
           /\ StepOf(j) = "sol_swap"
           /\ lags' = 0 /\ k.pend # {} => \A i \in Swapped(landed) : landed[i].tx \in k.pend
  PROVE  PlannedInv'
<1>1. OneJob'
  BY DEF OneJob, PlannedInv
<1>2. SwapStage'
  BY ChainSame DEF SwapStage, PlannedInv, StepOf
<1>3. Once'
  BY ChainSame DEF Once, PlannedInv
<1>4. Overlooked(j) => Overlooked(k)
  BY OverlookedIs
<1>5. Keeps'
  BY <1>4, ChainSame DEF Keeps, PlannedInv
<1> QED
  BY <1>1, <1>2, <1>3, <1>5 DEF PlannedInv

LEMMA QuietKeeps ==
  ASSUME PlannedInv, UNCHANGED <<job, retry, landed, left, signed>>, lags' = 0 => lags = 0,
         TickSound', ChainSound'
  PROVE  PlannedInv'
<1>1. PICK j : j \in job
  BY DEF PlannedInv, OneJob
<1>2. job = {j} /\ JobSound(j) /\ signed \in Nat
  BY <1>1, TheJob DEF PlannedInv, ChainSound
<1>3. JobSound(j)'
  BY <1>2, SoundLater
<1>4. lags' = 0 /\ j.pend # {} /\ StepOf(j) = "sol_swap" =>
        \A i \in Swapped(landed) : landed[i].tx \in j.pend
  BY <1>1 DEF PlannedInv, SwapStage
<1> QED
  BY <1>1, <1>2, <1>3, <1>4, SaveKeeps

LEMMA PoolStays ==
  ASSUME PlannedInv, UNCHANGED <<landed, left, pool, lapsed, job, signed>>, lags' \in Nat
  PROVE  ChainSound'
  BY ChainStays DEF PlannedInv, ChainSound

\* What a read does to the ghost; an up-to-date one is of all that landed.
LEMMA ReadFacts ==
  ASSUME PlannedInv, NEW c, Read(c)
  PROVE  lags' \in Nat /\ (lags' = 0 => lags = 0 /\ c = landed)
  BY DEF Read, PlannedInv, ChainSound

LEMMA IdleSound == ASSUME tick' = {} PROVE TickSound'
  BY DEF TickSound

LEMMA BusySound ==
  ASSUME NEW k, k \in job', Visits(k),
         NEW at \in {"confirmed", "height", "resend", "swap", "bridge", "send"},
         NEW t, NEW have, Busy(k, at, t, have),
         at \notin {"swap", "bridge"} => t \in k.pend,
         at = "confirmed" => \E i \in DOMAIN landed : landed[i].ok /\ landed[i].tx = t,
         at = "swap" =>
           /\ k.status = "sol_swap" /\ k.pend = {} /\ have = left
           /\ t = [n |-> 0, step |-> "sol_swap", amount |-> 0]
           /\ lags' = 0 => Swapped(landed) = {},
         at = "bridge" =>
           /\ k.status = "sol_bridge" /\ k.pend = {}
           /\ t = [n |-> 0, step |-> "sol_bridge", amount |-> k.sats],
         UNCHANGED <<landed, left>>
  PROVE  TickSound'
<1>1. \A h \in tick' : Reading(h) /\ h.of = k /\ h.at = at /\ h.tx = t /\ h.have = have
  BY AtBusy
<1>2. \A g, h \in tick' : g = h
  BY DEF Busy
<1>3. Swapped(landed)' = Swapped(landed)
  BY ChainSame
<1> QED
  BY <1>1, <1>2, <1>3 DEF TickSound, Visits, Reading

LEMMA ReaderOf ==
  ASSUME PlannedInv, NEW j \in job, NEW h \in tick
  PROVE  h.of = j /\ Visits(j) /\ tick = {h} /\ Reading(h)
<1>1. TickSound /\ job = {j}
  BY TheJob DEF PlannedInv
<1>2. Reading(h) /\ h.of \in job /\ Visits(h.of)
  BY <1>1 DEF TickSound
<1>3. tick = {h}
  BY <1>1 DEF TickSound
<1> QED
  BY <1>1, <1>2, <1>3

-----------------------------------------------------------------------------
(* The handler of a job with a v2 plan. *)

LEMMA FailKeeps ==
  ASSUME PlannedInv, NEW j \in job, Visits(j), Fail(j) PROVE PlannedInv'
<1>0. job = {j} /\ JobSound(j) /\ j.v2 = TRUE /\ Shaped(j)
  BY TheJob DEF JobSound
<1>1. PICK c \in Answers, now \in job :
        /\ Read(c)
        /\ LET elsewhere == {p \in Found(j, c, now) :
                               ~j.v2 /\ j.recoveries < 3 /\ p.status # j.status}
           IN  IF elsewhere = {}
               THEN Save([now EXCEPT !.status = "error", !.failedAt = j.status])
               ELSE \E p \in elsewhere : Save([p EXCEPT !.recoveries = j.recoveries + 1])
  BY DEF Fail
<1>2. PICK k : k = [j EXCEPT !.status = "error", !.failedAt = j.status]
  OBVIOUS
<1>3. job' = {k}
  BY <1>0, <1>1, <1>2 DEF Save
<1>4. /\ Shaped(k) /\ k.v2 = j.v2 /\ k.status = "error" /\ k.failedAt = j.status
      /\ k.pend = j.pend /\ k.bridge = j.bridge /\ k.swap = j.swap /\ k.before = j.before
      /\ k.sats = j.sats
  BY <1>0, <1>2 DEF Shaped, Fields
<1>5. j.status \in {"sol_swap", "sol_bridge", "awaiting_vaa"}
  BY <1>0 DEF JobSound, StepOf, Visits, Step
<1>6. StepOf(k) = StepOf(j) /\ StepOf(j) = j.status
  BY <1>4, <1>5 DEF StepOf
<1>7. JobSound(k)
  BY <1>0, <1>4, <1>5, <1>6 DEF JobSound
<1>8. UNCHANGED <<landed, left, pool, lapsed, signed, retry>> /\ tick' = {}
  BY DEF Fail, solana
<1>9. JobSound(k)'
  BY <1>7, <1>8, SoundLater DEF PlannedInv, ChainSound
<1>10. ChainSound'
  BY <1>0, <1>1, <1>3, <1>4, <1>8, ChainStays, ReadFacts DEF PlannedInv, ChainSound
<1>11. TickSound'
  BY <1>8, IdleSound
<1>12. lags' = 0 => lags = 0
  BY <1>1, ReadFacts
<1>13. lags' = 0 /\ k.pend # {} /\ StepOf(k) = "sol_swap" =>
         \A i \in Swapped(landed) : landed[i].tx \in k.pend
  BY <1>4, <1>6, <1>12 DEF PlannedInv, SwapStage
<1> QED
  BY <1>3, <1>4, <1>6, <1>8, <1>9, <1>10, <1>11, <1>12, <1>13, SaveKeeps

LEMMA ReadStatusKeeps ==
  ASSUME PlannedInv, NEW j \in job, ReadStatus(j) PROVE PlannedInv'
<1>1. PICK t \in j.pend, c \in Answers :
        /\ Read(c)
        /\ \/ Status(c, t) = "ok" /\ Busy(j, "confirmed", t, 0)
           \/ Busy(j, "height", t, 0)
  BY DEF ReadStatus
<1>2. Visits(j) /\ UNCHANGED <<job, retry, signed, pool, lapsed, landed, left>>
  BY DEF ReadStatus, Goes, solana
<1>3. Status(c, t) = "ok" => \E i \in DOMAIN landed : landed[i].ok /\ landed[i].tx = t
  <2>1. Status(c, t) = "ok" => \E i \in DOMAIN c : c[i].tx = t /\ c[i].ok
    BY DEF Status
  <2> QED
    BY <2>1, Behind DEF PlannedInv, ChainSound
<1>4. CASE Status(c, t) = "ok" /\ Busy(j, "confirmed", t, 0)
  <2>1. TickSound'
    BY <1>2, <1>3, <1>4, BusySound
  <2> QED
    BY <1>1, <1>2, <2>1, ReadFacts, PoolStays, QuietKeeps
<1>5. CASE Busy(j, "height", t, 0)
  <2>1. TickSound'
    BY <1>2, <1>5, BusySound
  <2> QED
    BY <1>1, <1>2, <2>1, ReadFacts, PoolStays, QuietKeeps
<1> QED
  BY <1>1, <1>4, <1>5

\* A signature that lapsed is dropped: a transfer that landed nevertheless is overlooked.
LEMMA ReadHeightKeeps ==
  ASSUME PlannedInv, NEW j \in job, ReadHeight PROVE PlannedInv'
<1>0. job = {j} /\ JobSound(j) /\ j.v2 = TRUE /\ Shaped(j)
  BY TheJob DEF JobSound
<1>1. PICK h \in tick :
        /\ h.at = "height"
        /\ \/ /\ CannotLand(h.tx) /\ Save([Dropped(h.of) EXCEPT !.resends = @ + 1])
              /\ tick' = {}
           \/ /\ UNCHANGED job
              /\ tick' = {[h EXCEPT !.at = "resend"] : x \in {y \in {1} : h.of.v2}}
  BY DEF ReadHeight
<1>2. h.of = j /\ Visits(j) /\ tick = {h} /\ Reading(h) /\ h.tx \in j.pend
  BY <1>1, ReaderOf DEF PlannedInv, TickSound
<1>3. UNCHANGED <<landed, left, pool, lapsed, signed, retry, lags>>
  BY DEF ReadHeight, solana
<1>4. CASE CannotLand(h.tx) /\ Save([Dropped(h.of) EXCEPT !.resends = @ + 1]) /\ tick' = {}
  <2>1. PICK k : k = [Dropped(j) EXCEPT !.resends = @ + 1]
    OBVIOUS
  <2>2. job' = {k}
    BY <1>2, <1>4, <2>1 DEF Save
  <2>3. /\ Shaped(k) /\ k.v2 = j.v2 /\ k.status = j.status /\ k.failedAt = j.failedAt
        /\ k.pend = {} /\ k.bridge = j.bridge /\ k.swap = j.swap /\ k.before = j.before
        /\ k.sats = j.sats
    BY <1>0, <2>1 DEF Shaped, Fields, Dropped
  <2>4. StepOf(k) = StepOf(j)
    BY <2>3 DEF StepOf
  <2>5. JobSound(k)
    BY <1>0, <2>3, <2>4 DEF JobSound
  <2>6. JobSound(k)'
    BY <1>3, <2>5, SoundLater DEF PlannedInv, ChainSound
  <2>7. pool = {}
    BY <1>0, <1>2, <1>4 DEF PlannedInv, ChainSound, JobSound, CannotLand
  <2>8. ChainSound'
    BY <1>3, <2>7, ChainStays DEF PlannedInv, ChainSound
  <2>9. TickSound'
    BY <1>4, IdleSound
  <2> QED
    BY <1>3, <2>2, <2>3, <2>4, <2>6, <2>8, <2>9, SaveKeeps
<1>5. CASE UNCHANGED job /\ tick' = {[h EXCEPT !.at = "resend"] : x \in {y \in {1} : h.of.v2}}
  <2>1. tick' = {[h EXCEPT !.at = "resend"]}
    BY <1>0, <1>2, <1>5
  <2>2. PICK k : k = [h EXCEPT !.at = "resend"]
    OBVIOUS
  <2>3. Reading(k) /\ k.of = j /\ k.tx = h.tx /\ k.at = "resend"
    BY <1>2, <2>2, AtSet
  <2>4. TickSound'
    BY <1>0, <1>2, <1>5, <2>1, <2>2, <2>3 DEF TickSound, Visits, Reading
  <2> QED
    BY <1>3, <1>5, <2>4, PoolStays, QuietKeeps DEF PlannedInv, ChainSound
<1> QED
  BY <1>1, <1>4, <1>5

\* A step that is over: the record goes on with nothing pending, as the chain says.
LEMMA NextStepKeeps ==
  ASSUME PlannedInv, NEW j \in job, NEW k, job' = {k}, tick' = {},
         UNCHANGED <<landed, left, pool, lapsed, signed, retry>>,
         lags' \in Nat, lags' = 0 => lags = 0,
         JobSound(k), k.pend = {}, pool = {}, StepOf(k) # "sol_swap",
         \A i \in Bridged(landed) : landed[i].tx \in k.bridge =>
                                    landed[i].tx \in j.pend \cup j.bridge
  PROVE  PlannedInv'
<1>1. JobSound(k)'
  BY SoundLater DEF PlannedInv, ChainSound
<1>2. ChainSound'
  BY ChainStays DEF PlannedInv, ChainSound
<1>3. TickSound'
  BY IdleSound
<1> QED
  BY <1>1, <1>2, <1>3, SaveKeeps

LEMMA TokensOfSwaps ==
  ASSUME PlannedInv, NEW j \in job, StepOf(j) = "sol_swap", NEW c \in Answers
  PROVE  /\ Tokens(c) \in Nat /\ left \in Nat /\ Gained(landed) \in Nat
         /\ left <= Tokens(c) /\ Tokens(c) <= left + Gained(landed) /\ j.before = left
<1>1. left \in Nat /\ Gained(landed) \in Nat
  BY SwapsFinite DEF PlannedInv, ChainSound
<1>2. Tokens(c) \in left..(left + Gained(landed))
  BY DEF PlannedInv, SwapStage
<1>3. j.before = left
  BY TheJob DEF JobSound
<1> QED
  BY <1>1, <1>2, <1>3

LEMMA ConfirmedKeeps ==
  ASSUME PlannedInv, NEW j \in job, Confirmed PROVE PlannedInv'
<1>0. job = {j} /\ JobSound(j) /\ j.v2 = TRUE /\ Shaped(j)
  BY TheJob DEF JobSound
<1>1. PICK h \in tick :
        LET d == Dropped(h.of)
        IN  /\ h.at = "confirmed"
            /\ \/ /\ d.status = "sol_swap" /\ lags' = lags
                  /\ Save([d EXCEPT !.status = "sol_bridge", !.swap = {h.tx}, !.sats = 1])
               \/ /\ d.status = "sol_swap"
                  /\ \E c \in Answers :
                       /\ Read(c) /\ Tokens(c) > d.before
                       /\ Save([d EXCEPT !.status = "sol_bridge", !.swap = {h.tx},
                                         !.sats = Bought(d, Tokens(c))])
               \/ /\ d.status = "sol_bridge" /\ lags' = lags
                  /\ Save([d EXCEPT !.status = "awaiting_vaa", !.bridge = {h.tx}])
  BY DEF Confirmed
<1>2. h.of = j /\ Visits(j) /\ h.tx \in j.pend
      /\ \E i \in DOMAIN landed : landed[i].ok /\ landed[i].tx = h.tx
  BY <1>1, ReaderOf DEF PlannedInv, TickSound
<1>3. UNCHANGED <<landed, left, pool, lapsed, signed, retry>> /\ tick' = {}
  BY DEF Confirmed, solana
<1>4. pool = {}
  BY <1>0, <1>2 DEF PlannedInv, ChainSound, JobSound
<1>5. PICK d : d = Dropped(j)
  OBVIOUS
<1>6. /\ Shaped(d) /\ d.v2 = j.v2 /\ d.status = j.status /\ d.pend = {} /\ d.before = j.before
      /\ d.bridge = j.bridge /\ d.failedAt = j.failedAt
  BY <1>0, <1>5 DEF Shaped, Fields, Dropped
<1>7. j.status \in {"sol_swap", "sol_bridge"} => StepOf(j) = j.status /\ j.bridge = {}
  BY <1>0 DEF StepOf, JobSound
<1>8. h.tx \in Signed /\ h.tx.step = StepOf(j)
  BY <1>0, <1>2 DEF JobSound
<1>9. ASSUME j.status = "sol_swap", NEW s \in Nat, s <= Gained(landed),
             job' = {[d EXCEPT !.status = "sol_bridge", !.swap = {h.tx}, !.sats = s]},
             lags' \in Nat, lags' = 0 => lags = 0
      PROVE  PlannedInv'
  <2>1. PICK k : k = [d EXCEPT !.status = "sol_bridge", !.swap = {h.tx}, !.sats = s]
    OBVIOUS
  <2>2. /\ Shaped(k) /\ k.v2 = TRUE /\ k.status = "sol_bridge" /\ k.pend = {}
        /\ k.bridge = {} /\ k.sats = s
    BY <1>0, <1>6, <1>7, <1>9, <2>1 DEF Shaped, Fields
  <2>3. JobSound(k) /\ StepOf(k) = "sol_bridge"
    BY <1>9, <2>2 DEF JobSound, StepOf, Step
  <2> QED
    BY <1>3, <1>4, <1>9, <2>1, <2>2, <2>3, NextStepKeeps
<1>10. lags \in Nat
  BY DEF PlannedInv, ChainSound
<1>11. CASE j.status = "sol_swap" /\ lags' = lags
            /\ Save([d EXCEPT !.status = "sol_bridge", !.swap = {h.tx}, !.sats = 1])
  <2>1. Swapped(landed) # {}
    BY <1>2, <1>7, <1>8, <1>11 DEF Swapped
  <2>2. 1 <= Gained(landed)
    BY <2>1, SwapsFinite, SwapsCounted DEF PlannedInv, ChainSound
  <2> QED
    BY <1>9, <1>10, <1>11, <2>2 DEF Save
<1>12. CASE j.status = "sol_swap" /\ \E c \in Answers :
                       /\ Read(c) /\ Tokens(c) > d.before
                       /\ Save([d EXCEPT !.status = "sol_bridge", !.swap = {h.tx},
                                         !.sats = Bought(d, Tokens(c))])
  <2>1. PICK c \in Answers :
          /\ Read(c) /\ Tokens(c) > d.before
          /\ Save([d EXCEPT !.status = "sol_bridge", !.swap = {h.tx},
                            !.sats = Bought(d, Tokens(c))])
    BY <1>12
  <2>2. Bought(d, Tokens(c)) \in Nat /\ Bought(d, Tokens(c)) <= Gained(landed)
    BY <1>6, <1>7, <1>12, TokensOfSwaps DEF Bought
  <2>3. lags' \in Nat /\ (lags' = 0 => lags = 0)
    BY <2>1, ReadFacts
  <2> QED
    BY <1>9, <1>12, <2>1, <2>2, <2>3 DEF Save
<1>13. CASE j.status = "sol_bridge" /\ lags' = lags
            /\ Save([d EXCEPT !.status = "awaiting_vaa", !.bridge = {h.tx}])
  <2>1. PICK k : k = [d EXCEPT !.status = "awaiting_vaa", !.bridge = {h.tx}]
    OBVIOUS
  <2>2. /\ Shaped(k) /\ k.v2 = TRUE /\ k.status = "awaiting_vaa" /\ k.pend = {}
        /\ k.bridge = {h.tx}
    BY <1>0, <1>6, <2>1 DEF Shaped, Fields
  <2>3. JobSound(k) /\ StepOf(k) = "awaiting_vaa"
    BY <2>2 DEF JobSound, StepOf, Step
  <2> QED
    BY <1>2, <1>3, <1>4, <1>10, <1>13, <2>1, <2>2, <2>3, NextStepKeeps DEF Save
<1> QED
  BY <1>1, <1>2, <1>5, <1>6, <1>11, <1>12, <1>13

\* While nothing has been bridged the tokens are what lay there and what was bought.
LEMMA TokensAre ==
  ASSUME PlannedInv, NEW j \in job, StepOf(j) = "sol_swap"
  PROVE  Bridged(landed) = {} /\ ~Overlooked(j) /\ Tokens(landed) = left + Gained(landed)
<1>1. Bridged(landed) = {}
  BY DEF PlannedInv, SwapStage, Bridged
<1>2. ~Overlooked(j)
  BY <1>1, OverlookedIs
<1> QED
  BY <1>1, <1>2 DEF PlannedInv, Keeps

LEMMA ReadBalanceKeeps ==
  ASSUME PlannedInv, NEW j \in job, ReadBalance(j) PROVE PlannedInv'
<1>0. job = {j} /\ JobSound(j) /\ j.v2 = TRUE /\ Shaped(j)
  BY TheJob DEF JobSound
<1>1. PICK c \in Answers :
        /\ Read(c)
        /\ \/ /\ Tokens(c) > j.before /\ UNCHANGED tick
              /\ Save([j EXCEPT !.status = "sol_bridge", !.sats = Bought(j, Tokens(c))])
           \/ /\ Tokens(c) <= j.before /\ UNCHANGED job
              /\ Busy(j, "swap", [n |-> 0, step |-> "sol_swap", amount |-> 0], Tokens(c))
  BY DEF ReadBalance
<1>2. /\ tick = {} /\ j.status = "sol_swap" /\ j.pend = {} /\ StepOf(j) = "sol_swap"
      /\ UNCHANGED <<landed, left, pool, lapsed, signed, retry>>
  BY DEF ReadBalance, StepOf, solana
<1>3. pool = {}
  BY <1>0, <1>2 DEF PlannedInv, ChainSound
<1>4. lags' \in Nat /\ (lags' = 0 => lags = 0 /\ c = landed)
  BY <1>1, ReadFacts
<1>5. /\ Tokens(c) \in Nat /\ left \in Nat /\ Gained(landed) \in Nat
      /\ left <= Tokens(c) /\ Tokens(c) <= left + Gained(landed) /\ j.before = left
  BY <1>2, TokensOfSwaps
<1>6. CASE Tokens(c) > j.before /\ UNCHANGED tick
           /\ Save([j EXCEPT !.status = "sol_bridge", !.sats = Bought(j, Tokens(c))])
  <2>1. PICK k : k = [j EXCEPT !.status = "sol_bridge", !.sats = Bought(j, Tokens(c))]
    OBVIOUS
  <2>2. /\ Shaped(k) /\ k.v2 = TRUE /\ k.status = "sol_bridge" /\ k.pend = {}
        /\ k.bridge = j.bridge /\ k.sats = Bought(j, Tokens(c))
    BY <1>0, <1>2, <2>1 DEF Shaped, Fields
  <2>3. k.sats \in Nat /\ k.sats <= Gained(landed)
    BY <1>5, <1>6, <2>2 DEF Bought
  <2>4. JobSound(k) /\ StepOf(k) = "sol_bridge"
    BY <1>0, <1>2, <2>2, <2>3 DEF JobSound, StepOf, Step
  <2> QED
    BY <1>2, <1>3, <1>4, <1>6, <2>1, <2>2, <2>4, NextStepKeeps DEF Save
<1>7. CASE Tokens(c) <= j.before /\ UNCHANGED job
           /\ Busy(j, "swap", [n |-> 0, step |-> "sol_swap", amount |-> 0], Tokens(c))
  <2>1. Tokens(c) = left
    BY <1>5, <1>7
  <2>2. lags' = 0 => Swapped(landed) = {}
    <3>1. SUFFICES ASSUME lags' = 0 PROVE Swapped(landed) = {}
      OBVIOUS
    <3>2. c = landed /\ Tokens(landed) = left + Gained(landed)
      BY <1>2, <1>4, <3>1, TokensAre
    <3>3. Gained(landed) = 0
      BY <1>5, <2>1, <3>2
    <3> QED
      BY <3>3, SwapsCounted DEF PlannedInv, ChainSound
  <2>3. TickSound'
    BY <1>0, <1>2, <1>7, <2>1, <2>2, BusySound DEF Visits
  <2> QED
    BY <1>2, <1>4, <1>7, <2>3, PoolStays, QuietKeeps
<1> QED
  BY <1>1, <1>6, <1>7

LEMMA ReadAmountKeeps ==
  ASSUME PlannedInv, NEW j \in job, ReadAmount(j) PROVE PlannedInv'
<1>0. PICK c \in Answers : \E have :
        /\ Read(c)
        /\ Busy(j, "bridge", [n |-> 0, step |-> "sol_bridge", amount |-> j.sats], have)
  BY TheJob DEF ReadAmount, JobSound
<1>1. PICK have :
        /\ Read(c)
        /\ Busy(j, "bridge", [n |-> 0, step |-> "sol_bridge", amount |-> j.sats], have)
  BY <1>0
<1>2. /\ j.status = "sol_bridge" /\ j.pend = {}
      /\ UNCHANGED <<landed, left, pool, lapsed, signed, retry, job>>
  BY DEF ReadAmount, Goes, solana
<1>3. TickSound'
  BY <1>1, <1>2, BusySound DEF Visits
<1> QED
  BY <1>1, <1>2, <1>3, ReadFacts, PoolStays, QuietKeeps

\* What is signed is journaled at once, and nothing else can land.
LEMMA SignKeeps ==
  ASSUME PlannedInv, NEW j \in job, Sign PROVE PlannedInv'
<1>0. job = {j} /\ JobSound(j) /\ j.v2 = TRUE /\ Shaped(j) /\ signed \in Nat
  BY TheJob DEF JobSound, PlannedInv, ChainSound
<1>1. PICK h \in tick :
        /\ h.at \in {"swap", "bridge"}
        /\ LET t == [h.tx EXCEPT !.n = signed + 1]
               k == IF Journal(h.of) THEN Pending(h.of, t, h.have) ELSE h.of
           IN  Save(k) /\ Busy(k, "send", t, h.have)
  BY DEF Sign
<1>2. h.of = j /\ Visits(j) /\ Reading(h)
  BY ReaderOf
<1>3. PICK t : t = [h.tx EXCEPT !.n = signed + 1]
  OBVIOUS
<1>4. PICK k : k = Pending(j, t, h.have)
  OBVIOUS
<1>5. job' = {k} /\ Busy(k, "send", t, h.have)
  BY <1>0, <1>1, <1>2, <1>3, <1>4 DEF Save, Journal
<1>6. UNCHANGED <<landed, left, pool, lapsed, retry, lags>> /\ signed' = signed + 1
  BY DEF Sign, solana
<1>7. /\ h.at = "swap" => /\ j.status = "sol_swap" /\ j.pend = {} /\ h.have = left
                          /\ h.tx = [n |-> 0, step |-> "sol_swap", amount |-> 0]
                          /\ lags = 0 => Swapped(landed) = {}
      /\ h.at = "bridge" => /\ j.status = "sol_bridge" /\ j.pend = {}
                            /\ h.tx = [n |-> 0, step |-> "sol_bridge", amount |-> j.sats]
  BY <1>2 DEF PlannedInv, TickSound
<1>8. h.at = "swap" => t = [n |-> signed + 1, step |-> "sol_swap", amount |-> 0]
  BY <1>3, <1>7
<1>9. h.at = "bridge" => t = [n |-> signed + 1, step |-> "sol_bridge", amount |-> j.sats]
  BY <1>3, <1>7
<1>10. j.pend = {} /\ StepOf(j) = j.status /\ j.status \in {"sol_swap", "sol_bridge"}
  BY <1>1, <1>7 DEF StepOf
<1>11. t.n = signed + 1 /\ t.step = j.status /\ t \in Signed
       /\ (t.step = "sol_swap" => t.amount = 0) /\ (t.step = "sol_bridge" => t.amount = j.sats)
  <2>1. j.status = "sol_bridge" => j.sats \in Nat
    BY <1>0, <1>10 DEF JobSound
  <2>2. signed + 1 \in Nat
    BY <1>0
  <2> QED
    BY <1>1, <1>7, <1>8, <1>9, <2>1, <2>2 DEF Signed
<1>12. /\ Shaped(k) /\ k.v2 = TRUE /\ k.status = j.status /\ k.failedAt = j.failedAt
       /\ k.pend = {t} /\ k.bridge = j.bridge /\ k.swap = j.swap
  BY <1>0, <1>4 DEF Shaped, Fields, Pending
<1>13. /\ t.step = "sol_swap" => k.before = h.have
       /\ t.step = "sol_bridge" => k.sats = t.amount
  BY <1>0, <1>4 DEF Shaped, Fields, Pending
<1>14. StepOf(k) = j.status
  BY <1>10, <1>12 DEF StepOf
<1>15. JobSound(k)'
  <2>1. t.n <= signed'
    BY <1>0, <1>6, <1>11
  <2>2. Gained(landed)' = Gained(landed)
    BY <1>6, ChainSame
  <2>3. k.status = "sol_swap" => k.swap = {} /\ k.before = left' /\ k.bridge = {}
    BY <1>0, <1>1, <1>6, <1>7, <1>10, <1>11, <1>12, <1>13 DEF JobSound
  <2>4. k.status = "sol_bridge" => /\ k.sats \in Nat /\ k.sats <= Gained(landed)
                                   /\ t.amount = k.sats /\ k.bridge = {}
    BY <1>0, <1>10, <1>11, <1>12, <1>13 DEF JobSound
  <2>5. StepOf(k)' = j.status
    BY <1>14 DEF StepOf
  <2> QED
    BY <1>10, <1>11, <1>12, <2>1, <2>2, <2>3, <2>4, <2>5 DEF JobSound, Step
<1>16. TickSound'
  BY <1>5, <1>6, <1>10, <1>12, BusySound DEF Visits
<1>17. pool = {}
  BY <1>0, <1>10 DEF PlannedInv, ChainSound
<1>18. ChainSound'
  BY <1>0, <1>6, <1>17, ChainStays DEF PlannedInv, ChainSound
<1>19. \A i \in DOMAIN landed : landed[i].tx # t
  <2>1. ASSUME NEW i \in DOMAIN landed PROVE landed[i].tx.n <= signed /\ landed[i].tx.n \in Nat
    <3>1. landed[i] \in Entry
      BY DEF PlannedInv, ChainSound
    <3> QED
      BY <3>1 DEF PlannedInv, ChainSound, Entry, Signed
  <2> QED
    BY <1>0, <1>11, <2>1
<1>20. \A i \in Bridged(landed) : landed[i].tx \in k.pend \cup k.bridge =>
                                  landed[i].tx \in j.pend \cup j.bridge
  BY <1>12, <1>19 DEF Bridged
<1>21. StepOf(k) = "sol_swap" =>
         StepOf(j) = "sol_swap" /\ (lags' = 0 => Swapped(landed) = {})
  BY <1>1, <1>6, <1>7, <1>10, <1>14
<1> QED
  BY <1>5, <1>6, <1>15, <1>16, <1>18, <1>20, <1>21, SaveKeeps

\* What is sent can be in the pool and has not landed.
LEMMA SendRawKeeps ==
  ASSUME PlannedInv, NEW j \in job, SendRaw PROVE PlannedInv'
<1>0. job = {j} /\ JobSound(j) /\ j.v2 = TRUE
  BY TheJob DEF JobSound
<1>1. PICK h \in tick :
        /\ h.at \in {"send", "resend"}
        /\ tick' = {[k EXCEPT !.at = "save"] :
                      k \in {i \in tick : i.at = "send" /\ ~Journal(i.of)}}
        /\ pool' = pool \cup {t \in {h.tx} : Taken(h)}
  BY DEF SendRaw
<1>2. h.of = j /\ tick = {h} /\ h.tx \in j.pend
  BY <1>1, ReaderOf DEF PlannedInv, TickSound
<1>3. tick' = {}
  BY <1>0, <1>1, <1>2 DEF Journal
<1>4. UNCHANGED <<job, retry, signed, lapsed, landed, left, lags>>
  BY DEF SendRaw
<1>5. Taken(h) => h.tx \notin lapsed /\ \A i \in DOMAIN landed : landed[i].tx # h.tx
  BY DEF Taken, Status
<1>6. ChainSound'
  BY <1>0, <1>1, <1>2, <1>4, <1>5 DEF PlannedInv, ChainSound
<1> QED
  BY <1>3, <1>4, <1>6, IdleSound, QuietKeeps

LEMMA ReadMessageKeeps ==
  ASSUME PlannedInv, NEW j \in job, ReadMessage(j) PROVE PlannedInv'
<1>0. job = {j} /\ JobSound(j) /\ j.v2 = TRUE /\ Shaped(j)
  BY TheJob DEF JobSound
<1>1. /\ tick = {} /\ j.status = "awaiting_vaa" /\ StepOf(j) = "awaiting_vaa"
      /\ UNCHANGED <<landed, left, pool, lapsed, signed, retry, lags, tick>>
  BY DEF ReadMessage, StepOf, solana
<1>2. j.pend = {}
  BY <1>0, <1>1 DEF JobSound, Signed
<1>3. pool = {}
  BY <1>0, <1>2 DEF PlannedInv, ChainSound
<1>4. PICK k : /\ job' = {k}
               /\ \/ k = [j EXCEPT !.msg = j.bridge]
                  \/ k = [j EXCEPT !.status = "wh_redeem"]
  BY DEF ReadMessage, Save
<1>5. /\ Shaped(k) /\ k.v2 = TRUE /\ k.status \in {"awaiting_vaa", "wh_redeem"} /\ k.pend = {}
      /\ k.bridge = j.bridge
  BY <1>0, <1>1, <1>2, <1>4 DEF Shaped, Fields
<1>6. JobSound(k) /\ StepOf(k) # "sol_swap"
  BY <1>5 DEF JobSound, StepOf, Step
<1>7. lags \in Nat
  BY DEF PlannedInv, ChainSound
<1> QED
  BY <1>1, <1>3, <1>4, <1>5, <1>6, <1>7, NextStepKeeps

-----------------------------------------------------------------------------
(* Retry and reset of a job with a v2 plan. *)

LEMMA ResumeKeeps ==
  ASSUME PlannedInv, NEW j \in job, Resume(j) PROVE PlannedInv'
<1>0. job = {j} /\ JobSound(j) /\ j.v2 = TRUE /\ Shaped(j)
  BY TheJob DEF JobSound
<1>1. /\ j.status = "error" /\ StepOf(j) = j.failedAt
      /\ UNCHANGED <<landed, left, pool, lapsed, signed, retry, lags, tick>>
  BY DEF Resume, StepOf, solana
<1>2. tick = {}
  BY <1>1, ReaderOf DEF Visits
<1>3. PICK k : k = Resumed(j)
  OBVIOUS
<1>4. job' = {k}
  BY <1>3 DEF Resume, Save
<1>5. /\ Shaped(k) /\ k.v2 = j.v2 /\ k.status = j.failedAt /\ k.pend = j.pend
      /\ k.bridge = j.bridge /\ k.swap = j.swap /\ k.before = j.before /\ k.sats = j.sats
  BY <1>0, <1>3 DEF Shaped, Fields, Resumed
<1>6. j.failedAt \in {"sol_swap", "sol_bridge", "awaiting_vaa"}
  BY <1>0, <1>1 DEF JobSound
<1>7. StepOf(k) = StepOf(j)
  BY <1>1, <1>5, <1>6 DEF StepOf
<1>8. JobSound(k)
  BY <1>0, <1>5, <1>6, <1>7 DEF JobSound
<1>9. JobSound(k)'
  BY <1>1, <1>8, SoundLater DEF PlannedInv, ChainSound
<1>10. ChainSound'
  BY <1>0, <1>1, <1>4, <1>5, ChainStays DEF PlannedInv, ChainSound
<1>11. lags' = 0 /\ k.pend # {} /\ StepOf(k) = "sol_swap" =>
         \A i \in Swapped(landed) : landed[i].tx \in k.pend
  BY <1>1, <1>5, <1>7 DEF PlannedInv, SwapStage
<1> QED
  BY <1>1, <1>2, <1>4, <1>5, <1>7, <1>9, <1>10, <1>11, IdleSound, SaveKeeps

LEMMA ResetKeeps ==
  ASSUME PlannedInv, NEW j \in job, Reset(j) PROVE PlannedInv'
<1>0. job = {j} /\ JobSound(j) /\ j.v2 = TRUE /\ Shaped(j)
  BY TheJob DEF JobSound
<1>1. /\ j.status = "error" /\ j.pend = {}
      /\ UNCHANGED <<landed, left, pool, lapsed, signed, retry, lags, tick>>
  BY <1>0 DEF Reset, solana
<1>2. tick = {}
  BY <1>1, ReaderOf DEF Visits
<1>3. pool = {}
  BY <1>0, <1>1 DEF PlannedInv, ChainSound
<1>4. PICK k : k = [j EXCEPT !.status = "reset"]
  OBVIOUS
<1>5. Shaped(k) /\ k.v2 = TRUE /\ k.status = "reset" /\ k.pend = {} /\ k.bridge = j.bridge
  BY <1>0, <1>1, <1>4 DEF Shaped, Fields
<1>6. JobSound(k) /\ StepOf(k) # "sol_swap"
  BY <1>5 DEF JobSound, StepOf, Step
<1>7. lags \in Nat
  BY DEF PlannedInv, ChainSound
<1> QED
  BY <1>1, <1>2, <1>3, <1>4, <1>5, <1>6, <1>7, NextStepKeeps DEF Reset, Save

-----------------------------------------------------------------------------
(* Solana. *)

LEMMA LandKeeps ==
  ASSUME PlannedInv, NEW t \in pool, Land(t) PROVE PlannedInv'
<1>1. PICK j : j \in job
  BY DEF PlannedInv, OneJob
<1>2. job = {j} /\ JobSound(j) /\ j.v2 = TRUE
  BY <1>1, TheJob DEF JobSound
<1>3. t \in j.pend /\ j.pend = {t} /\ t \in Signed /\ t.n <= signed /\ t.step = StepOf(j)
      /\ (t.step = "sol_swap" => t.amount = 0)
  BY <1>2 DEF PlannedInv, ChainSound, JobSound
<1>4. PICK ok \in BOOLEAN :
        landed' = Append(landed, [tx |-> t, ok |-> ok, have |-> After(t, ok)])
  BY DEF Land
<1>5. UNCHANGED <<job, tick, retry, signed, lapsed, left, lags>> /\ pool' = pool \ {t}
  BY DEF Land
<1>6. landed \in Seq(Entry) /\ left \in Nat /\ signed \in Nat
  BY DEF PlannedInv, ChainSound
<1>7. Tokens(landed) \in Int
  <2>1. landed # << >> => landed[Len(landed)] \in Entry
    BY <1>6
  <2> QED
    BY <1>6, <2>1 DEF Tokens, Last, Entry
<1>8. t.step \in {"sol_swap", "sol_bridge"} /\ t.amount \in Nat
  BY <1>3 DEF Signed
<1>9. PICK e : e = [tx |-> t, ok |-> ok, have |-> After(t, ok)]
  OBVIOUS
<1>10. /\ e.tx = t /\ e.ok = ok /\ e.have = After(t, ok) /\ e \in Entry
       /\ landed' = Append(landed, e)
  <2>1. After(t, ok) \in Int
    BY <1>7, <1>8 DEF After
  <2> QED
    BY <1>3, <1>4, <1>9, <2>1 DEF Entry
<1>11. /\ landed' \in Seq(Entry) /\ landed' # << >> /\ Last(landed') = e
       /\ Front(landed') = landed /\ DOMAIN landed' = 1..(Len(landed) + 1)
       /\ DOMAIN landed = 1..Len(landed) /\ Len(landed) \in Nat
       /\ landed'[Len(landed) + 1] = e /\ \A i \in DOMAIN landed : landed'[i] = landed[i]
  <2>1. OneMore(landed, landed', e)
    BY <1>6, <1>10, Longer
  <2> QED
    BY <2>1 DEF OneMore
<1>12. SwapsLonger(landed, landed', e)
  BY <1>6, <1>10, CountLonger
<1>13. Gained(landed) \in Nat
  BY <1>6, SwapsFinite
<1> DEFINE gain == IF ok /\ t.step = "sol_swap" THEN 1 ELSE 0
<1>14. /\ Gained(landed)' = Gained(landed) + gain /\ gain \in {0, 1}
       /\ gain = (IF ok /\ t.step = "sol_swap" THEN 1 ELSE 0)
       /\ Gained(landed)' \in Nat /\ Gained(landed) <= Gained(landed)'
  <2>1. Gained(landed)' = Gained(landed) + gain
    BY <1>10, <1>12 DEF SwapsLonger, Adds, Gained, Swapped
  <2> QED
    BY <1>13, <2>1
<1>15. Tokens(landed)' = Tokens(landed) + gain - (IF ok THEN t.amount ELSE 0)
  <2>1. Tokens(landed)' = e.have
    BY <1>11 DEF Tokens
  <2> QED
    BY <1>10, <2>1 DEF After
<1> HIDE DEF gain
<1>16. OneJob'
  <2>1. JobSound(j)'
    <3>1. StepOf(j) = "sol_bridge" => j.sats \in Nat /\ j.sats <= Gained(landed)'
      BY <1>2, <1>13, <1>14 DEF JobSound
    <3> QED
      BY <1>2, <1>5, <3>1 DEF JobSound, StepOf
  <2> QED
    BY <1>2, <1>5, <2>1 DEF OneJob, PlannedInv
<1>17. TickSound'
  <2>1. \A h \in tick : h.at \notin {"swap", "bridge"}
    BY <1>2, <1>3 DEF PlannedInv, TickSound
  <2>2. \A h \in tick : h.at = "confirmed" =>
          \E i \in DOMAIN landed' : landed'[i].ok /\ landed'[i].tx = h.tx
    <3>1. \A i \in DOMAIN landed : i \in DOMAIN landed' /\ landed'[i] = landed[i]
      BY <1>11
    <3>2. ASSUME NEW h \in tick, h.at = "confirmed"
          PROVE  \E i \in DOMAIN landed : landed[i].ok /\ landed[i].tx = h.tx
      BY <3>2 DEF PlannedInv, TickSound
    <3> QED
      BY <3>1, <3>2
  <2> QED
    BY <1>5, <2>1, <2>2 DEF PlannedInv, TickSound, Visits, Reading
<1>18. \A i \in DOMAIN landed : landed[i].tx # t
  BY DEF PlannedInv, ChainSound
<1>19. ChainSound'
  <2>1. \A i \in DOMAIN landed' :
          i \in DOMAIN landed \/ (i = Len(landed) + 1 /\ landed'[i].tx = t)
    BY <1>10, <1>11
  <2>2. \A i \in DOMAIN landed : landed'[i].tx = landed[i].tx
    BY <1>11
  <2>3. \A i \in DOMAIN landed' : landed'[i].tx.n <= signed
    BY <1>3, <2>1, <2>2 DEF PlannedInv, ChainSound
  <2>4. \A i, k \in DOMAIN landed' : landed'[i].tx = landed'[k].tx => i = k
    BY <1>18, <2>1, <2>2 DEF PlannedInv, ChainSound
  <2>5. \A i \in DOMAIN landed' : landed'[i].tx \notin pool'
    BY <1>5, <2>1, <2>2 DEF PlannedInv, ChainSound
  <2>6. /\ left' \in Nat /\ signed' \in Nat /\ lags' \in Nat /\ pool' \cap lapsed' = {}
        /\ pool' \subseteq UNION {k.pend : k \in job'}
    BY <1>5 DEF PlannedInv, ChainSound
  <2> QED
    BY <1>5, <1>11, <2>3, <2>4, <2>5, <2>6 DEF ChainSound
<1>20. Swapped(landed)' =
         Swapped(landed) \cup {i \in {Len(landed) + 1} : ok /\ t.step = "sol_swap"}
  BY <1>10, <1>12 DEF SwapsLonger, Adds, Swapped
<1>21. Bridged(landed)' =
         Bridged(landed) \cup {i \in {Len(landed) + 1} : ok /\ t.step = "sol_bridge"}
  BY <1>10, <1>12 DEF SwapsLonger, Adds, Bridged
<1>22. CASE t.step = "sol_swap"
  <2>1. /\ StepOf(j) = "sol_swap" /\ Bridged(landed) = {}
        /\ Tokens(landed) = left + Gained(landed)
        /\ \A i \in DOMAIN landed : landed[i].tx.step = "sol_swap"
    BY <1>1, <1>3, <1>22, TokensAre DEF PlannedInv, SwapStage
  <2>2. Tokens(landed)' = left + Gained(landed)'
    <3>1. (IF ok THEN t.amount ELSE 0) = 0
      BY <1>3, <1>22
    <3>2. Tokens(landed)' = left + Gained(landed) + gain
      BY <1>6, <1>7, <1>13, <1>14, <1>15, <2>1, <3>1
    <3> QED
      BY <1>6, <1>13, <1>14, <3>2
  <2>3. PICK c0, c1 : c0 = landed /\ c1 = landed'
    OBVIOUS
  <2>4. /\ Answers' = {c1, c0} /\ Tokens(c1)' = Tokens(landed)'
        /\ Tokens(c0)' = Tokens(landed)
    BY <1>5, <1>11, <2>3 DEF Answers, Tokens
  <2>5. ASSUME NEW c \in Answers' PROVE Tokens(c)' \in left'..(left' + Gained(landed)')
    <3>1. Tokens(c)' = left + Gained(landed)' \/ Tokens(c)' = left + Gained(landed)
      BY <2>1, <2>2, <2>4, <2>5
    <3> QED
      BY <1>5, <1>6, <1>13, <1>14, <3>1
  <2>6. \A i \in DOMAIN landed' : landed'[i].tx.step = "sol_swap"
    BY <1>10, <1>11, <1>22, <2>1
  <2>7. lags' = 0 => \A i \in Swapped(landed)' : landed'[i].tx = t
    <3>1. lags' = 0 => \A i \in Swapped(landed) : landed[i].tx = t
      BY <1>1, <1>3, <1>5, <2>1 DEF PlannedInv, SwapStage
    <3> QED
      BY <1>10, <1>11, <1>20, <3>1 DEF Swapped
  <2>8. SwapStage'
    BY <1>2, <1>3, <1>5, <2>5, <2>6, <2>7 DEF SwapStage, StepOf
  <2>9. Once'
    BY <1>11, <1>19, <2>7 DEF Once, ChainSound, Swapped
  <2>10. Bridged(landed)' = {}
    BY <1>21, <1>22, <2>1
  <2>11. Keeps'
    BY <1>5, <2>2, <2>10 DEF Keeps
  <2> QED
    BY <1>16, <1>17, <1>19, <2>8, <2>9, <2>11 DEF PlannedInv
<1>23. CASE t.step = "sol_bridge"
  <2>1. StepOf(j) = "sol_bridge" /\ j.bridge = {} /\ t.amount <= Gained(landed)
    BY <1>2, <1>3, <1>23 DEF JobSound
  <2>2. SwapStage'
    BY <1>2, <1>5, <2>1 DEF SwapStage, StepOf
  <2>3. Swapped(landed)' = Swapped(landed) /\ gain = 0
    BY <1>14, <1>20, <1>23
  <2>4. Once'
    BY <1>5, <2>3 DEF Once, PlannedInv
  <2>5. CASE Bridged(landed) = {}
    <3>1. ~Overlooked(j)
      BY <2>5, OverlookedIs
    <3>2. Tokens(landed) = left + Gained(landed)
      BY <1>1, <2>5, <3>1 DEF PlannedInv, Keeps
    <3>3. IF Bridged(landed)' = {} THEN Tokens(landed)' = left + Gained(landed)'
                                   ELSE Tokens(landed)' >= left
      <4>1. CASE ok
        <5>1. Bridged(landed)' # {}
          BY <1>21, <1>23, <4>1
        <5>2. Tokens(landed)' >= left
          BY <1>6, <1>8, <1>13, <1>15, <2>1, <2>3, <3>2, <4>1
        <5> QED
          BY <5>1, <5>2
      <4>2. CASE ~ok
        <5>1. Bridged(landed)' = {}
          BY <1>21, <2>5, <4>2
        <5>2. Tokens(landed)' = left + Gained(landed)'
          BY <1>6, <1>13, <1>14, <1>15, <2>3, <3>2, <4>2
        <5> QED
          BY <5>1, <5>2
      <4> QED
        BY <4>1, <4>2
    <3> QED
      BY <1>2, <1>5, <1>16, <1>17, <1>19, <2>2, <2>4, <3>3 DEF PlannedInv, Keeps
  <2>6. CASE Bridged(landed) # {}
    <3>1. PICK i : i \in Bridged(landed)
      BY <2>6
    <3>2. landed'[i].tx # t /\ i \in Bridged(landed)'
      BY <1>11, <1>18, <1>21, <3>1 DEF Bridged
    <3>3. Overlooked(j)'
      BY <1>3, <2>1, <3>2 DEF Overlooked, LandedOk, Bridged
    <3> QED
      BY <1>2, <1>5, <1>16, <1>17, <1>19, <2>2, <2>4, <3>3 DEF PlannedInv, Keeps
  <2> QED
    BY <2>5, <2>6
<1> QED
  BY <1>8, <1>22, <1>23

LEMMA NextKeeps ==
  ASSUME PlannedInv, [Next]_vars PROVE PlannedInv'
<1>0. lags \in Nat /\ retry = {} /\ \A j \in job : j.v2 = TRUE
  BY DEF PlannedInv, ChainSound, OneJob, JobSound
<1>1. ASSUME NEW j \in job, Steps(j) PROVE PlannedInv'
  <2>1. CASE FailedOnChain(j) \/ SwapRefused(j) \/ NothingToBridge(j) \/ NothingToAsk(j)
    BY <2>1, FailKeeps DEF FailedOnChain, SwapRefused, NothingToBridge, NothingToAsk, Visits
  <2>2. ~SaveSent
    BY DEF SaveSent, PlannedInv, TickSound
  <2> QED
    BY <1>1, <2>1, <2>2, ReadStatusKeeps, ReadHeightKeeps, ConfirmedKeeps, ReadBalanceKeeps,
       ReadAmountKeeps, SignKeeps, ReadMessageKeeps, SendRawKeeps DEF Steps
<1>2. ASSUME NEW j \in job, Throws(j) PROVE PlannedInv'
  <2>1. CASE \E h \in tick : Fail(h.of)
    BY <2>1, ReaderOf, FailKeeps
  <2>2. CASE Visits(j) /\ Fail(j)
    BY <2>2, FailKeeps
  <2>3. CASE tick' = {} /\ UNCHANGED <<job, retry, signed, solana, lags>>
    BY <1>0, <2>3, IdleSound, PoolStays, QuietKeeps DEF solana
  <2> QED
    BY <1>2, <2>1, <2>2, <2>3 DEF Throws
<1>3. ASSUME NEW j \in job, Resume(j) \/ Reset(j) PROVE PlannedInv'
  BY <1>3, ResumeKeeps, ResetKeeps
<1>4. /\ \A j \in job : ~Retry(j)
      /\ ~Retried
  BY <1>0 DEF Retry, Retried
<1>5. CASE \E t \in pool : Land(t)
  BY <1>5, LandKeeps
<1>6. ASSUME NEW t \in Outstanding, Lapse(t) PROVE PlannedInv'
  <2>1. UNCHANGED <<job, tick, retry, signed, landed, left, lags>>
        /\ pool' = pool \ {t} /\ lapsed' = lapsed \cup {t}
    BY <1>6 DEF Lapse
  <2>2. ChainSound'
    BY <2>1 DEF PlannedInv, ChainSound
  <2>3. TickSound'
    BY <2>1, ChainSame DEF PlannedInv, TickSound, Visits, Reading
  <2> QED
    BY <2>1, <2>2, <2>3, QuietKeeps
<1>7. CASE Guardians \/ UNCHANGED vars
  <2>1. UNCHANGED <<job, tick, retry, signed, pool, lapsed, landed, left, lags>>
    BY <1>7 DEF Guardians, vars, solana
  <2>2. TickSound'
    BY <2>1, ChainSame DEF PlannedInv, TickSound, Visits, Reading
  <2> QED
    BY <1>0, <2>1, <2>2, PoolStays, QuietKeeps
<1>8. CASE Crash
  <2>1. /\ tick' = {} /\ retry' = {}
        /\ UNCHANGED <<job, signed, pool, lapsed, landed, left, lags>>
    BY <1>8 DEF Crash, solana
  <2> QED
    BY <1>0, <2>1, IdleSound, PoolStays, QuietKeeps
<1> QED
  BY <1>1, <1>2, <1>3, <1>4, <1>5, <1>6, <1>7, <1>8 DEF Next

-----------------------------------------------------------------------------
(* The theorems. *)

LEMMA InitHolds == Init => SolInv
<1> SUFFICES ASSUME Init PROVE SolInv
  OBVIOUS
<1>1. PICK v2 \in Versions, l \in Leftovers \cup LeftoversEarlier :
              job = {NewJob(v2, l)} /\ left = l
  BY DEF Init
<1>2. PICK j : j = NewJob(v2, l)
  OBVIOUS
<1>3. /\ Shaped(j) /\ j.v2 = v2 /\ j.status = "sol_swap" /\ j.pend = {} /\ j.before = l
      /\ j.swap = {} /\ j.bridge = {}
  BY <1>2 DEF NewJob, Shaped, Fields
<1>4. v2 \in BOOLEAN /\ l \in Nat
  BY <1>1, Bounds DEF Bounds
<1>5. /\ tick = {} /\ retry = {} /\ signed = 0 /\ pool = {} /\ lapsed = {} /\ landed = << >>
      /\ lags = 0
  BY DEF Init
<1>6. CASE v2 = FALSE
  BY <1>1, <1>2, <1>3, <1>5, <1>6 DEF SolInv, EarlierInv, Old
<1>7. CASE v2 = TRUE
  <2>1. Swapped(landed) = {} /\ Bridged(landed) = {} /\ Answers = {<< >>}
        /\ Tokens(landed) = left
    BY <1>5 DEF Swapped, Bridged, Answers, Tokens
  <2>2. Gained(landed) = 0
    BY <1>5, <2>1, FS_EmptySet DEF Gained
  <2>3. StepOf(j) = "sol_swap"
    BY <1>3 DEF StepOf
  <2>4. OneJob
    BY <1>1, <1>2, <1>3, <1>5, <1>7, <2>3 DEF OneJob, JobSound, Step
  <2>5. TickSound /\ Once
    BY <1>5, <2>1 DEF TickSound, Once
  <2>6. ChainSound
    BY <1>1, <1>4, <1>5 DEF ChainSound
  <2>7. SwapStage
    BY <1>1, <1>4, <1>5, <2>1, <2>2 DEF SwapStage, Tokens
  <2>8. Keeps
    BY <1>1, <1>4, <2>1, <2>2 DEF Keeps
  <2> QED
    BY <2>4, <2>5, <2>6, <2>7, <2>8 DEF SolInv, PlannedInv
<1> QED
  BY <1>4, <1>6, <1>7

\* The inductive invariant of the Solana leg: an earlier job stays one; the handler of a
\* v2 job works on the job as it is, and only its journaled transaction can land.
THEOREM SolHolds == Spec => []SolInv
<1>1. SolInv /\ [Next]_vars => SolInv'
  BY NextKeepsOld, NextKeeps DEF SolInv
<1> QED
  BY InitHolds, <1>1, PTL DEF Spec

\* While no node that is behind answered, the deposit of a v2 job is swapped at most once,
\* whatever lapses, is sent again, crashes or is retried (funding.js:1252).
THEOREM SwapsOnce == Spec => []SwappedOnce
<1>1. SolInv => SwappedOnce
  <2> SUFFICES ASSUME SolInv, Planned, lags = 0 PROVE Cardinality(Swapped(landed)) <= 1
    BY DEF SwappedOnce
  <2>1. PlannedInv
    BY DEF SolInv, EarlierInv, Old, Planned
  <2>2. \A i, k \in Swapped(landed) : i = k
    BY <2>1 DEF PlannedInv, Once
  <2>3. Swapped(landed) = {} \/ \E i : Swapped(landed) = {i}
    BY <2>2
  <2>4. Cardinality(Swapped(landed)) \in {0, 1}
    BY <2>3, FS_EmptySet, FS_Singleton
  <2> QED
    BY <2>4
<1> QED
  BY SolHolds, <1>1, PTL

\* What lay at the deposit address before a v2 job stays there, also when nodes are behind,
\* unless a transfer of the job landed that its record dropped (funding.js:1287).
THEOREM LeftoverStays == Spec => []LeftoverKept
<1>1. SolInv => LeftoverKept
  <2> SUFFICES ASSUME SolInv, NEW j \in job, j.v2, ~Overlooked(j) PROVE Tokens(landed) >= left
    BY DEF LeftoverKept
  <2>1. PlannedInv
    BY DEF SolInv, EarlierInv, Old
  <2>2. Tokens(landed) = left + Gained(landed) \/ Tokens(landed) >= left
    BY <2>1 DEF PlannedInv, Keeps
  <2>3. Gained(landed) \in Nat /\ left \in Nat
    BY <2>1, SwapsFinite DEF PlannedInv, ChainSound
  <2> QED
    BY <2>2, <2>3
<1> QED
  BY SolHolds, <1>1, PTL
===============================================================================
