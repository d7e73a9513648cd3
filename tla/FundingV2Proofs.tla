--------------------------- MODULE FundingV2Proofs ---------------------------
(***************************************************************************)
(* Theorems about FundingV2, for every set of accounts, every set of plans *)
(* and every bound.                                                        *)
(***************************************************************************)
EXTENDS FundingV2, FiniteSetTheorems, SequenceTheorems, WellFoundedInduction, TLAPS

(* Arithmetic of the accounting module. *)

LEMMA ShortfallType ==
  ASSUME NEW m \in Nat, NEW n \in Nat PROVE Shortfall(m, n) \in Nat
BY DEF Shortfall

LEMMA BpsType ==
  ASSUME NEW m \in Nat, NEW n \in Nat PROVE Bps(m, n) \in Nat
<1>1. \A x \in Nat : (x + 9999) \div 10000 \in Nat OBVIOUS
<1>2. m * n \in Nat OBVIOUS
<1> QED BY <1>1, <1>2 DEF Bps

LEMMA JobFields ==
  ASSUME NEW j \in Job
  PROVE  /\ j.id \in Nat /\ j.acct \in Accounts /\ j.plan \in Plan
         /\ j.status \in Status /\ j.failedAt \in Status \cup {"none"}
         /\ j.pending \in SUBSET Tx /\ j.confirmed \in SUBSET Receipt
         /\ j.receipts \in SUBSET Receipt
         /\ j.gasPaid \in Nat /\ j.spent \in Nat /\ j.recovered \in Nat
         /\ j.settled \in BOOLEAN /\ j.released \in BOOLEAN
         /\ j.pendingSig \in BOOLEAN /\ j.solSwapSig \in BOOLEAN
         /\ j.needsTap \in BOOLEAN /\ j.revision \in Nat
BY DEF Job

LEMMA DueType == ASSUME NEW j \in Job PROVE Due(j) \in Nat /\ Debt(j) \in Nat
<1>1. j.spent \in Nat /\ j.recovered \in Nat /\ j.plan \in Plan BY JobFields
<1>2. j.plan.riskBps \in Nat /\ j.plan.service \in Nat BY <1>1 DEF Plan
<1>3. Debt(j) \in Nat BY <1>1, ShortfallType DEF Debt
<1>4. Premium(j) \in Nat BY <1>1, <1>2, BpsType DEF Premium
<1> QED BY <1>2, <1>3, <1>4 DEF Due

LEMMA StepsAreStatuses ==
  /\ EthSteps \subseteq Status /\ SolSteps \subseteq Status
  /\ "error" \notin EthSteps /\ "error" \notin SolSteps
  /\ PreSteps \subseteq EthSteps /\ TailSteps \subseteq EthSteps
BY DEF Status, EthSteps, SolSteps, LandSteps, PreSteps, TailSteps

LEMMA HeadType ==
  ASSUME NEW S, NEW s \in Seq(S), s # << >> PROVE Head(s) \in S
OBVIOUS

LEMMA EthIsStatus == \A s \in EthSteps : s \in Status /\ s # "error"
BY StepsAreStatuses

LEMMA PlanFields ==
  ASSUME NEW p \in Plan
  PROVE  /\ p.pre \in Seq(PreSteps) /\ p.tail \in Seq(TailSteps)
         /\ p.limit \in [EthSteps -> Nat]
         /\ p.gasMax \in Nat /\ p.sponsorMax \in Nat /\ p.advanceMax \in Nat
         /\ p.service \in Nat /\ p.riskBps \in Nat /\ p.sponsoredRedeem \in BOOLEAN
BY DEF Plan

\* The plan of a job lists at least one step after repayment, and steps that an
\* advance pays for: makePlan's plans do, and a requote keeps both lists.  A job
\* that failed remembers a step to go back to.
Shaped(p) == p.tail # << >> /\ (p.advanceMax > 0 => p.pre # << >>)
Working == Status \ {"error"}
Good == {j \in Job : Shaped(j.plan) /\ (j.status = "error" => j.failedAt \in Working)}

TypeInv ==
  /\ TypeOK
  /\ jobs \subseteq Good /\ past \subseteq Good /\ offers \subseteq Good
  /\ \A h \in held : h.new \in Good

LEMMA GoodFields ==
  ASSUME NEW j \in Good
  PROVE  /\ j \in Job /\ j.plan \in Plan /\ Shaped(j.plan)
         /\ j.status = "error" => j.failedAt \in Working
BY JobFields DEF Good

\* Every step of every plan is an Ethereum step.
LEMMA PlanSteps ==
  ASSUME NEW p \in Plan, Shaped(p)
  PROVE  /\ Head(p.tail) \in TailSteps
         /\ p.pre # << >> => Head(p.pre) \in PreSteps
BY PlanFields, HeadType DEF Shaped

LEMMA NewJobType ==
  ASSUME NEW i \in Nat, NEW a \in Accounts, NEW p \in Plan, Shaped(p)
  PROVE  NewJob(i, a, p) \in Good
<1>1. FirstStatus(p) \in Working
  BY PlanSteps DEF FirstStatus, Working, Status, SolSteps, EthSteps, PreSteps
<1>2. NewJob(i, a, p) \in Job BY <1>1 DEF NewJob, Job, Working
<1>3. NewJob(i, a, p).plan = p /\ NewJob(i, a, p).status = FirstStatus(p) BY DEF NewJob
<1> QED BY <1>1, <1>2, <1>3 DEF Good, Working

LEMMA FinishToType ==
  ASSUME NEW p \in Plan, Shaped(p), NEW s \in EthSteps
  PROVE  FinishTo(s, p) \in Working
<1>1. AfterStableSwap(p.tail) \in Working
  BY DEF AfterStableSwap, Working, Status, EthSteps, TailSteps
<1>2. Head(p.tail) \in Working /\ (p.pre # << >> => Head(p.pre) \in Working)
  BY PlanSteps, StepsAreStatuses DEF Working
<1>3. "awaiting_signatures" \in Working BY DEF Working, Status, LandSteps
<1>4. /\ "gas_approve" \in Working /\ "gas_buy_eth" \in Working /\ "collect_fee" \in Working
      /\ "swap_usdc_usdt" \in Working /\ "approve_permit2" \in Working
      /\ "approve_ur" \in Working /\ "swap_usdt_vkoin" \in Working
      /\ "approve_bridge" \in Working /\ "bridge_token" \in Working
  BY DEF Working, Status, EthSteps, PreSteps, TailSteps
<1> QED BY <1>1, <1>2, <1>3, <1>4 DEF FinishTo

LEMMA RecordedType ==
  ASSUME NEW j \in Job, NEW r \in Receipt, NEW gas \in Nat
  PROVE  Recorded(j, r, gas) \in Job
<1> DEFINE g == j.gasPaid + GasOf(r.tx, r.ok, gas)
           s == j.spent + SpentOf(r.tx, r.ok, gas)
           v == j.recovered + RecoveredOf(r.tx, r.ok, gas)
<1>1. /\ r.tx.advance \in Nat /\ r.tx.recovered \in Nat /\ r.tx.sponsored \in BOOLEAN
      /\ r.ok \in BOOLEAN
  BY DEF Receipt, Tx
<1>2. j.gasPaid \in Nat /\ j.spent \in Nat /\ j.recovered \in Nat BY JobFields
<1>3. g \in Nat BY <1>2 DEF GasOf
<1>4. s \in Nat BY <1>1, <1>2 DEF SpentOf
<1>5. v \in Nat BY <1>1, <1>2 DEF RecoveredOf
<1>6. j.receipts \cup {r} \in SUBSET Receipt BY JobFields
<1> HIDE DEF g, s, v
<1>7. [j EXCEPT !.pending = {}, !.confirmed = {r}, !.receipts = j.receipts \cup {r},
                !.gasPaid = g, !.spent = s, !.recovered = v] \in Job
  BY <1>3, <1>4, <1>5, <1>6 DEF Job
<1> QED BY <1>7 DEF Recorded, g, s, v

LEMMA RecordedGood ==
  ASSUME NEW j \in Good, j.status # "error", NEW r \in Receipt, NEW gas \in Nat
  PROVE  /\ Recorded(j, r, gas) \in Good
         /\ Recorded(j, r, gas).status = j.status
<1>1. Recorded(j, r, gas) \in Job BY GoodFields, RecordedType
<1>2. Recorded(j, r, gas).plan = j.plan /\ Recorded(j, r, gas).status = j.status
  BY GoodFields DEF Recorded, Job
<1> QED BY <1>1, <1>2 DEF Good

LEMMA ErrorGood ==
  ASSUME NEW j \in Good, j.status # "error"
  PROVE  [j EXCEPT !.status = "error", !.failedAt = j.status] \in Good
<1> DEFINE k == [j EXCEPT !.status = "error", !.failedAt = j.status]
<1>1. j.status \in Working BY GoodFields, JobFields DEF Working
<1>2. k \in Job BY <1>1, GoodFields DEF Job, Working, Status
<1>3. k.plan = j.plan /\ k.failedAt = j.status BY GoodFields DEF Job
<1> HIDE DEF k
<1>4. k \in Good BY <1>1, <1>2, <1>3 DEF Good
<1> QED BY <1>4 DEF k

LEMMA RevertedGood ==
  ASSUME NEW j \in Good, j.status # "error" PROVE Reverted(j) \in Good
<1>1. j.status \in Working BY GoodFields, JobFields DEF Working
<1>2. Reverted(j) \in Job BY <1>1, GoodFields DEF Job, Reverted, Working, Status
<1>3. Reverted(j).plan = j.plan /\ Reverted(j).failedAt = j.status
  BY GoodFields DEF Job, Reverted
<1> QED BY <1>1, <1>2, <1>3 DEF Good

LEMMA MoveGood ==
  ASSUME NEW j \in Good, NEW s \in Working PROVE Move(j, s) \in Good
<1>1. Move(j, s) \in Job BY GoodFields DEF Job, Move, Working
<1>2. Move(j, s).plan = j.plan /\ Move(j, s).status = s BY GoodFields DEF Job, Move
<1> QED BY <1>1, <1>2 DEF Good, Working

LEMMA SettleGood == ASSUME NEW j \in Good PROVE Settle(j) \in Good
<1>1. Settle(j) \in Job BY GoodFields DEF Job, Settle
<1>2. /\ Settle(j).plan = j.plan /\ Settle(j).status = j.status
      /\ Settle(j).failedAt = j.failedAt
  BY GoodFields DEF Job, Settle
<1> QED BY <1>1, <1>2 DEF Good

-----------------------------------------------------------------------------
(* Type correctness. *)

LEMMA JobStepTypes ==
  ASSUME TypeInv, NEW k \in Good, SaveJob(k), UNCHANGED <<held, lastId, network>>
  PROVE  TypeInv'
<1>1. k \in Job BY GoodFields
<1> QED BY <1>1 DEF TypeInv, TypeOK, SaveJob, network

LEMMA InitTypes == Init => TypeInv
BY DEF Init, TypeInv, TypeOK

LEMMA CommitTypes == ASSUME TypeInv, Commit PROVE TypeInv'
<1>1. PICK h \in held : /\ SaveJob(h.new) /\ held' = {}
                        /\ lastId' = IF h.op = "start" THEN h.new.id ELSE lastId
                        /\ UNCHANGED network
  BY DEF Commit
<1>2. h.new \in Good /\ h.new \in Job BY GoodFields DEF TypeInv
<1>3. lastId' \in Nat BY <1>1, <1>2, JobFields DEF TypeInv, TypeOK
<1> QED BY <1>1, <1>2, <1>3 DEF TypeInv, TypeOK, SaveJob, network

\* An operation that only enters the queue.
LEMMA HeldTypes ==
  ASSUME TypeInv, NEW op \in {"start", "send", "requote"}, NEW new \in Good,
         held' = {[op |-> op, new |-> new]}, UNCHANGED <<ledger, offers, network>>
  PROVE  TypeInv'
<1>1. new \in Job BY GoodFields
<1> QED BY <1>1 DEF TypeInv, TypeOK, ledger, network

LEMMA StartTypes ==
  ASSUME TypeInv, NEW a \in Accounts, NEW p \in Plans, Start(a, p)
  PROVE  TypeInv'
<1>1. p \in Plan /\ Shaped(p) BY PlansAreWellFormed DEF WellFormed, Shaped
<1>2. NewJob(lastId + 1, a, p) \in Good BY <1>1, NewJobType DEF TypeInv, TypeOK
<1> QED BY <1>2, HeldTypes DEF Start

LEMMA ByUserType ==
  ASSUME NEW v \in Nat, NEW r \in Nat
  PROVE  /\ ByUser(v, r).sponsored = FALSE /\ ByUser(v, r).sponsored \in BOOLEAN
         /\ ByUser(v, r).value \in Nat /\ ByUser(v, r).advance \in Nat
         /\ ByUser(v, r).recovered \in Nat
<1>1. ByUser(v, r).sponsored = FALSE BY DEF ByUser
<1>2. ByUser(v, r).sponsored \in BOOLEAN BY <1>1, Zenon
<1> QED BY <1>1, <1>2 DEF ByUser

LEMMA TermsType ==
  ASSUME NEW j \in Job, NEW c \in Terms(j)
  PROVE  /\ c.sponsored \in BOOLEAN
         /\ c.value \in Nat /\ c.advance \in Nat /\ c.recovered \in Nat
<1> j.plan \in Plan BY JobFields
<1> Due(j) \in Nat /\ Debt(j) \in Nat BY DueType
<1> j.plan.sponsoredRedeem \in BOOLEAN BY PlanFields
<1>1. CASE j.status = "front_gas"
  <2>1. PICK a \in 1..j.plan.advanceMax :
          c = [sponsored |-> TRUE, value |-> a, advance |-> a, recovered |-> 0]
    BY <1>1 DEF Terms
  <2> QED BY <2>1, PlanFields
<1>2. CASE j.status = "wh_redeem"
  <2>1. PICK s \in BOOLEAN :
          c = [sponsored |-> s, value |-> 0, advance |-> 0, recovered |-> 0]
    BY <1>2 DEF Terms
  <2> QED BY <2>1
<1>3. CASE j.status = "collect_fee"
  <2>1. c = ByUser(Due(j), Debt(j)) BY <1>3, Zenon DEF Terms
  <2> QED BY <2>1, ByUserType, Zenon
<1>4. CASE j.status \notin {"front_gas", "wh_redeem", "collect_fee"}
  <2>1. c = ByUser(0, 0) BY <1>4 DEF Terms
  <2>2. 0 \in Nat OBVIOUS
  <2> QED BY <2>1, <2>2, ByUserType, Zenon
<1> QED BY <1>1, <1>2, <1>3, <1>4

LEMMA SkipTypes == ASSUME TypeInv, NEW j \in jobs, Skip(j) PROVE TypeInv'
<1>1. j \in Good /\ j \in Job /\ j.plan \in Plan /\ Shaped(j.plan)
  BY GoodFields DEF TypeInv
<1>2. UNCHANGED <<held, lastId, network>> BY DEF Skip
<1>3. CASE \E s \in EthSteps : <<j.status, s>> \in Skips(j.plan) /\ SaveJob(Move(j, s))
  <2>1. PICK s \in EthSteps : SaveJob(Move(j, s)) BY <1>3
  <2>2. s \in Working BY <2>1, EthIsStatus DEF Working
  <2>3. Move(j, s) \in Good BY <1>1, <2>2, MoveGood
  <2> QED BY <1>2, <2>1, <2>3, JobStepTypes
<1>4. CASE SaveJob(Move(Settle(j), Head(j.plan.tail)))
  <2>1. Head(j.plan.tail) \in Working
    BY <1>1, PlanSteps, StepsAreStatuses DEF Working
  <2>2. Settle(j) \in Good BY <1>1, SettleGood
  <2>3. Move(Settle(j), Head(j.plan.tail)) \in Good BY <2>1, <2>2, MoveGood
  <2> QED BY <1>2, <1>4, <2>3, JobStepTypes
<1> QED BY <1>3, <1>4 DEF Skip

\* A mined transaction [tx, ok, gas], read by its position.
Entry == [tx : Tx, ok : BOOLEAN, gas : Nat]

LEMMA ChainType ==
  ASSUME TypeOK, NEW i \in 1..Len(chain)
  PROVE  /\ chain[i] \in Entry
         /\ chain[i].tx \in Tx /\ chain[i].ok \in BOOLEAN /\ chain[i].gas \in Nat
<1>1. chain \in Seq(Entry) BY DEF TypeOK, Entry
<1>2. chain[i] \in Entry BY <1>1, ElementOfSeq
<1> QED BY <1>2 DEF Entry

LEMMA SendTypes == ASSUME TypeInv, NEW j \in jobs, Send(j) PROVE TypeInv'
<1>1. j \in Good /\ j \in Job /\ Shaped(j.plan) BY GoodFields DEF TypeInv
<1>2. j.status \in EthSteps BY DEF Send, Ready
<1>3. PICK c \in Terms(j), gas \in 1..j.plan.limit[j.status] :
        LET w == IF c.sponsored THEN Sponsor ELSE j.acct
        IN  \E seen \in Counts(w) : \E n \in NonceFloor(w, seen) :
              held' = {[op |-> "send", new |-> [j EXCEPT !.pending =
                {[id |-> j.id, from |-> w, nonce |-> n, step |-> j.status,
                  sponsored |-> c.sponsored, value |-> c.value, advance |-> c.advance,
                  recovered |-> c.recovered, maxGas |-> gas]}]]}
  BY DEF Send
<1> DEFINE w == IF c.sponsored THEN Sponsor ELSE j.acct
<1>4. w \in Wallets BY <1>1, JobFields DEF Wallets
<1>a. PICK seen \in Counts(w) : \E n \in NonceFloor(w, seen) :
        held' = {[op |-> "send", new |-> [j EXCEPT !.pending =
          {[id |-> j.id, from |-> w, nonce |-> n, step |-> j.status,
            sponsored |-> c.sponsored, value |-> c.value, advance |-> c.advance,
            recovered |-> c.recovered, maxGas |-> gas]}]]}
  BY <1>3
<1>5. PICK n \in NonceFloor(w, seen) :
        held' = {[op |-> "send", new |-> [j EXCEPT !.pending =
          {[id |-> j.id, from |-> w, nonce |-> n, step |-> j.status,
            sponsored |-> c.sponsored, value |-> c.value, advance |-> c.advance,
            recovered |-> c.recovered, maxGas |-> gas]}]]}
  BY <1>a
<1> HIDE DEF w
<1>6. n \in Nat
  <2>1. \A t \in Mined : t \in Tx BY ChainType DEF TypeInv, Mined
  <2>2. \A t \in Journaled : t \in Tx
    <3>1. \A k \in Records : k \in Job BY DEF TypeInv, TypeOK, Records
    <3>2. \A k \in Records : TxsOf(k) \subseteq Tx
      BY <3>1, JobFields DEF TxsOf, Receipt
    <3> QED BY <3>2 DEF Journaled
  <2>3. \A t \in Tx : t.nonce \in Nat BY DEF Tx
  <2>4. seen \in Nat BY <2>1, <2>3 DEF Counts, TypeInv, TypeOK
  <2> QED BY <2>2, <2>3, <2>4 DEF NonceFloor
<1>7. /\ c.sponsored \in BOOLEAN /\ c.value \in Nat /\ c.advance \in Nat /\ c.recovered \in Nat
  BY <1>1, TermsType
<1>8. gas \in Nat
  <2>1. j.plan.limit[j.status] \in Nat BY <1>1, <1>2, JobFields, PlanFields
  <2> QED BY <2>1
<1> DEFINE t == [id |-> j.id, from |-> w, nonce |-> n, step |-> j.status,
                 sponsored |-> c.sponsored, value |-> c.value, advance |-> c.advance,
                 recovered |-> c.recovered, maxGas |-> gas]
<1>9. t \in Tx
  BY <1>1, <1>2, <1>4, <1>6, <1>7, <1>8, JobFields DEF Tx
<1> HIDE DEF t
<1> DEFINE new == [j EXCEPT !.pending = {t}]
<1>10. new \in Good
  <2>1. new \in Job BY <1>1, <1>9 DEF Job
  <2>2. new.plan = j.plan /\ new.status = j.status BY <1>1 DEF Job
  <2>3. j.status # "error" BY <1>2, EthIsStatus
  <2> HIDE DEF new
  <2> QED BY <1>1, <2>1, <2>2, <2>3 DEF Good
<1>11. held' = {[op |-> "send", new |-> new]} BY <1>5 DEF t
<1>12. UNCHANGED <<ledger, offers, network>> BY DEF Send
<1> HIDE DEF new
<1> QED BY <1>10, <1>11, <1>12, HeldTypes

LEMMA FinalType ==
  ASSUME TypeOK, NEW e \in Final
  PROVE  e \in Entry /\ e.tx \in Tx /\ e.ok \in BOOLEAN /\ e.gas \in Nat
<1>1. PICK i \in 1..deep : e = chain[i] BY DEF Final
<1>2. i \in 1..Len(chain) BY DEF TypeOK
<1> QED BY <1>1, <1>2, ChainType

LEMMA ConfirmTypes == ASSUME TypeInv, NEW j \in jobs, Confirm(j) PROVE TypeInv'
<1>1. j \in Good BY DEF TypeInv
<1>2. PICK e \in Final :
        LET k == Recorded(j, [tx |-> e.tx, ok |-> e.ok], e.gas)
        IN  SaveJob(IF e.ok THEN k ELSE Reverted(k))
  BY DEF Confirm
<1> DEFINE k == Recorded(j, [tx |-> e.tx, ok |-> e.ok], e.gas)
<1>3. [tx |-> e.tx, ok |-> e.ok] \in Receipt /\ e.gas \in Nat
  BY FinalType DEF TypeInv, Receipt
<1>4. j.status # "error" BY EthIsStatus DEF Confirm
<1>5. k \in Good /\ k.status # "error" BY <1>1, <1>3, <1>4, RecordedGood
<1>6. Reverted(k) \in Good BY <1>5, RevertedGood
<1>7. UNCHANGED <<held, lastId, network>> BY DEF Confirm
<1> HIDE DEF k
<1>8. CASE e.ok BY <1>2, <1>5, <1>7, <1>8, JobStepTypes DEF k
<1>9. CASE ~e.ok BY <1>2, <1>6, <1>7, <1>9, JobStepTypes DEF k
<1> QED BY <1>8, <1>9

LEMMA CrashInConfirmTypes ==
  ASSUME TypeInv, NEW j \in jobs, CrashInConfirm(j) PROVE TypeInv'
<1>1. j \in Good BY DEF TypeInv
<1>2. PICK e \in Final :
        jobs' = (jobs \ {j}) \cup {Recorded(j, [tx |-> e.tx, ok |-> FALSE], e.gas)}
  BY DEF CrashInConfirm
<1>3. [tx |-> e.tx, ok |-> FALSE] \in Receipt /\ e.gas \in Nat
  BY FinalType DEF TypeInv, Receipt
<1>4. j.status # "error" BY EthIsStatus DEF CrashInConfirm
<1> DEFINE k == Recorded(j, [tx |-> e.tx, ok |-> FALSE], e.gas)
<1>5. k \in Good BY <1>1, <1>3, <1>4, RecordedGood
<1> HIDE DEF k
<1>6. k \in Job BY <1>5, GoodFields
<1>7. jobs' = (jobs \ {j}) \cup {k} BY <1>2 DEF k
<1>8. held' = {} /\ offers' = {} /\ UNCHANGED <<past, lastId, network>> BY DEF CrashInConfirm
<1> QED BY <1>5, <1>6, <1>7, <1>8 DEF TypeInv, TypeOK, network

LEMMA FinishTypes == ASSUME TypeInv, NEW j \in jobs, Finish(j) PROVE TypeInv'
<1>1. j \in Good /\ j \in Job /\ j.plan \in Plan /\ Shaped(j.plan)
  BY GoodFields DEF TypeInv
<1>2. PICK r \in j.confirmed :
        SaveJob(Move(IF r.tx.step = "collect_fee" THEN Settle(j) ELSE j,
                     FinishTo(r.tx.step, j.plan)))
  BY DEF Finish
<1> DEFINE i == IF r.tx.step = "collect_fee" THEN Settle(j) ELSE j
           s == FinishTo(r.tx.step, j.plan)
<1>3. r.tx.step \in EthSteps BY <1>1, JobFields DEF Receipt, Tx
<1>4. s \in Working BY <1>1, <1>3, FinishToType
<1>5. i \in Good BY <1>1, SettleGood
<1> HIDE DEF i, s
<1>6. Move(i, s) \in Good BY <1>4, <1>5, MoveGood
<1>7. SaveJob(Move(i, s)) BY <1>2 DEF i, s
<1>8. UNCHANGED <<held, lastId, network>> BY DEF Finish
<1> QED BY <1>6, <1>7, <1>8, JobStepTypes

LEMMA FailTypes == ASSUME TypeInv, NEW j \in jobs, Fail(j) PROVE TypeInv'
<1>1. j \in Good BY DEF TypeInv
<1>2. j.status # "error" BY StepsAreStatuses DEF Fail
<1> DEFINE k == [j EXCEPT !.status = "error", !.failedAt = j.status]
<1>3. k \in Good BY <1>1, <1>2, ErrorGood
<1>4. SaveJob(k) /\ UNCHANGED <<held, lastId, network>> BY DEF Fail
<1> HIDE DEF k
<1> QED BY <1>3, <1>4, JobStepTypes

\* Saves that change nothing but where the job is and its flags.
LEMMA StatusGood ==
  ASSUME NEW j \in Good, NEW s \in Working
  PROVE  [j EXCEPT !.status = s] \in Good
<1>1. [j EXCEPT !.status = s] \in Job BY GoodFields DEF Job, Working
<1>2. [j EXCEPT !.status = s].plan = j.plan /\ [j EXCEPT !.status = s].status = s
  BY GoodFields DEF Job
<1> QED BY <1>1, <1>2, GoodFields DEF Good, Working

LEMMA FlagsGood ==
  ASSUME NEW j \in Good, NEW b \in BOOLEAN
  PROVE  /\ [j EXCEPT !.pendingSig = b] \in Good
         /\ [j EXCEPT !.solSwapSig = b] \in Good
         /\ [j EXCEPT !.needsTap = b] \in Good
         /\ [j EXCEPT !.released = b] \in Good
<1>1. [j EXCEPT !.pendingSig = b] \in Good
  <2> DEFINE k == [j EXCEPT !.pendingSig = b]
  <2>1. k \in Job BY GoodFields DEF Job
  <2>2. k.plan = j.plan /\ k.status = j.status /\ k.failedAt = j.failedAt
    BY GoodFields DEF Job
  <2> QED BY <2>1, <2>2, GoodFields DEF Good
<1>2. [j EXCEPT !.solSwapSig = b] \in Good
  <2> DEFINE k == [j EXCEPT !.solSwapSig = b]
  <2>1. k \in Job BY GoodFields DEF Job
  <2>2. k.plan = j.plan /\ k.status = j.status /\ k.failedAt = j.failedAt
    BY GoodFields DEF Job
  <2> QED BY <2>1, <2>2, GoodFields DEF Good
<1>3. [j EXCEPT !.needsTap = b] \in Good
  <2> DEFINE k == [j EXCEPT !.needsTap = b]
  <2>1. k \in Job BY GoodFields DEF Job
  <2>2. k.plan = j.plan /\ k.status = j.status /\ k.failedAt = j.failedAt
    BY GoodFields DEF Job
  <2> QED BY <2>1, <2>2, GoodFields DEF Good
<1>4. [j EXCEPT !.released = b] \in Good
  <2> DEFINE k == [j EXCEPT !.released = b]
  <2>1. k \in Job BY GoodFields DEF Job
  <2>2. k.plan = j.plan /\ k.status = j.status /\ k.failedAt = j.failedAt
    BY GoodFields DEF Job
  <2> QED BY <2>1, <2>2, GoodFields DEF Good
<1> QED BY <1>1, <1>2, <1>3, <1>4

LEMMA ResumeTypes == ASSUME TypeInv, NEW j \in jobs, Resume(j) PROVE TypeInv'
<1>1. j \in Good /\ j \in Job BY GoodFields DEF TypeInv
<1> DEFINE steps == {t.step : t \in j.pending} \cup {r.tx.step : r \in j.confirmed}
           To(from) == IF from = "awaiting_redeem" THEN "awaiting_signatures" ELSE from
           k(from) == [j EXCEPT !.status = To(from), !.failedAt = "none",
             !.needsTap = IF To(from) = "awaiting_signatures" THEN FALSE ELSE @]
<1>2. PICK from \in IF steps # {} THEN steps ELSE {j.failedAt} : SaveJob(k(from))
  BY DEF Resume
<1>3. from \in Working
  <2>1. steps \subseteq Working
    BY <1>1, JobFields, EthIsStatus DEF Receipt, Tx, Working
  <2>2. j.failedAt \in Working BY <1>1, GoodFields DEF Resume
  <2> QED BY <1>2, <2>1, <2>2
<1> DEFINE to == To(from)
<1>4. to \in Working BY <1>3 DEF Working, Status, LandSteps
<1> DEFINE tap == IF to = "awaiting_signatures" THEN FALSE ELSE j.needsTap
<1>5. tap \in BOOLEAN BY <1>1, JobFields
<1> HIDE DEF to, tap
<1>6. [j EXCEPT !.status = to, !.failedAt = "none", !.needsTap = tap] \in Good
  <2> DEFINE i == [j EXCEPT !.status = to, !.failedAt = "none", !.needsTap = tap]
  <2>1. i \in Job BY <1>1, <1>4, <1>5 DEF Job, Working
  <2>2. i.plan = j.plan /\ i.status = to BY <1>1 DEF Job
  <2> HIDE DEF i
  <2>3. i \in Good BY <1>1, <1>4, <2>1, <2>2, GoodFields DEF Good, Working
  <2> QED BY <2>3 DEF i
<1>7. SaveJob([j EXCEPT !.status = to, !.failedAt = "none", !.needsTap = tap])
  BY <1>2 DEF to, tap
<1>8. UNCHANGED <<held, lastId, network>> BY DEF Resume
<1> QED BY <1>6, <1>7, <1>8, JobStepTypes

LEMMA OfferQuoteTypes ==
  ASSUME TypeInv, NEW j \in jobs, OfferQuote(j) PROVE TypeInv'
BY DEF TypeInv, TypeOK, OfferQuote, ledger, network

LEMMA ApproveQuoteTypes ==
  ASSUME TypeInv, NEW j \in jobs, ApproveQuote(j) PROVE TypeInv'
<1>1. j \in Good /\ j \in Job /\ j.plan \in Plan /\ Shaped(j.plan)
  BY GoodFields DEF TypeInv
<1> DEFINE max(redeem) == IF BridgeRecovery(j) THEN redeem ELSE j.plan.sponsorMax
           p(gas, redeem) ==
             [j.plan EXCEPT !.gasMax = j.gasPaid + gas, !.sponsorMax = max(redeem),
               !.limit["wh_redeem"] = IF BridgeRecovery(j) /\ redeem > 0 THEN redeem ELSE @,
               !.sponsoredRedeem = IF BridgeRecovery(j) THEN redeem > 0 ELSE @]
           new(gas, redeem) ==
             [j EXCEPT !.plan = p(gas, redeem), !.status = j.failedAt, !.failedAt = "none",
                       !.revision = @ + 1]
<1>2. PICK gas \in RequoteGas, redeem \in {0} \cup RequoteGas :
        held' = {[op |-> "requote", new |-> new(gas, redeem)]}
  BY DEF ApproveQuote
<1>3. gas \in Nat /\ redeem \in Nat BY BoundsAreNumbers
<1>4. j.gasPaid + gas \in Nat BY <1>1, <1>3, JobFields
<1>5. max(redeem) \in Nat BY <1>1, <1>3, PlanFields
<1> DEFINE limit == IF BridgeRecovery(j) /\ redeem > 0 THEN redeem ELSE j.plan.limit["wh_redeem"]
           sponsored == IF BridgeRecovery(j) THEN redeem > 0 ELSE j.plan.sponsoredRedeem
           q == [j.plan EXCEPT !.gasMax = j.gasPaid + gas, !.sponsorMax = max(redeem),
                   !.limit = [j.plan.limit EXCEPT !["wh_redeem"] = limit],
                   !.sponsoredRedeem = sponsored]
<1>6. [j.plan.limit EXCEPT !["wh_redeem"] = limit] \in [EthSteps -> Nat]
  BY <1>1, <1>3, PlanFields DEF EthSteps
<1>7. sponsored \in BOOLEAN
  <2>1. (redeem > 0) \in BOOLEAN OBVIOUS
  <2>2. j.plan.sponsoredRedeem \in BOOLEAN BY <1>1, PlanFields
  <2> QED BY <2>1, <2>2, Zenon
<1>8. p(gas, redeem) = q OBVIOUS
<1> HIDE DEF max, limit, sponsored, p
<1>9. q \in Plan BY <1>1, <1>4, <1>5, <1>6, <1>7 DEF Plan
<1>10. q.tail = j.plan.tail /\ q.pre = j.plan.pre /\ q.advanceMax = j.plan.advanceMax
  BY <1>1 DEF Plan
<1>11. Shaped(q) BY <1>1, <1>10 DEF Shaped
<1> HIDE DEF q
<1>12. j.failedAt \in Working BY <1>1, GoodFields DEF ApproveQuote, CanRequote
<1>13. new(gas, redeem) \in Good
  <2> DEFINE k == [j EXCEPT !.plan = q, !.status = j.failedAt, !.failedAt = "none",
                            !.revision = j.revision + 1]
  <2>0. /\ j.failedAt \in Status /\ "none" \in Status \cup {"none"}
        /\ j.revision + 1 \in Nat
    BY <1>1, <1>12, JobFields DEF Working
  <2>1. k \in Job BY <1>1, <1>9, <2>0 DEF Job
  <2>2. k.plan = q /\ k.status = j.failedAt BY <1>1 DEF Job
  <2>3. k = new(gas, redeem) BY <1>8
  <2> HIDE DEF k, new
  <2>4. k \in Good BY <1>11, <1>12, <2>1, <2>2 DEF Good, Working
  <2> QED BY <2>3, <2>4
<1>14. UNCHANGED <<ledger, offers, network>> BY DEF ApproveQuote
<1> HIDE DEF new
<1> QED BY <1>2, <1>13, <1>14, HeldTypes

LEMMA ResetTypes == ASSUME TypeInv, NEW j \in jobs, Reset(j) PROVE TypeInv'
<1>1. [j EXCEPT !.released = TRUE] \in Good BY FlagsGood DEF TypeInv
<1>2. [j EXCEPT !.released = TRUE] \in Job BY <1>1, GoodFields
<1> QED BY <1>1, <1>2 DEF Reset, TypeInv, TypeOK, network

LEMMA SolTypes ==
  ASSUME TypeInv, NEW j \in jobs, SolSend(j) \/ SolExpire(j) \/ SolNext(j)
  PROVE  TypeInv'
<1>1. j \in Good /\ j \in Job BY GoodFields DEF TypeInv
<1>2. UNCHANGED <<held, lastId, network>> BY DEF SolSend, SolExpire, SolNext
<1>3. \A s \in {"sol_bridge", "awaiting_vaa", "wh_redeem"} : s \in Working
  BY DEF Working, Status, SolSteps, EthSteps
<1>4. CASE SolSend(j) BY <1>1, <1>2, <1>4, FlagsGood, JobStepTypes DEF SolSend
<1>5. CASE SolExpire(j) BY <1>1, <1>2, <1>5, FlagsGood, JobStepTypes DEF SolExpire
<1>6. CASE SolNext(j)
  <2> DEFINE k == [j EXCEPT !.status = "sol_bridge", !.pendingSig = FALSE,
                            !.solSwapSig = @ \/ j.pendingSig]
  <2>1. k \in Good
    <3> DEFINE i == [j EXCEPT !.status = "sol_bridge"]
               h == [i EXCEPT !.pendingSig = FALSE]
    <3>1. i \in Good BY <1>1, <1>3, StatusGood
    <3>2. h \in Good BY <3>1, FlagsGood
    <3>3. (j.solSwapSig \/ j.pendingSig) \in BOOLEAN OBVIOUS
    <3>4. k = [h EXCEPT !.solSwapSig = j.solSwapSig \/ j.pendingSig]
      BY <1>1 DEF Job
    <3> HIDE DEF h, k
    <3> QED BY <3>2, <3>3, <3>4, FlagsGood
  <2>2. [j EXCEPT !.status = "awaiting_vaa", !.pendingSig = FALSE] \in Good
    BY <1>1, <1>3, StatusGood, FlagsGood
  <2>3. [j EXCEPT !.status = "wh_redeem"] \in Good BY <1>1, <1>3, StatusGood
  <2> HIDE DEF k
  <2>4. SaveJob(k) \/ SaveJob([j EXCEPT !.status = "awaiting_vaa", !.pendingSig = FALSE])
          \/ SaveJob([j EXCEPT !.status = "wh_redeem"])
    BY <1>6 DEF SolNext, k
  <2> QED BY <1>2, <2>1, <2>2, <2>3, <2>4, JobStepTypes
<1> QED BY <1>4, <1>5, <1>6

LEMMA LandingTypes ==
  ASSUME TypeInv, NEW j \in jobs,
         PollGuardians(j) \/ AutoRedeem(j) \/ PrepareTap(j) \/ TapDone(j)
  PROVE  TypeInv'
<1>1. j \in Good BY DEF TypeInv
<1>2. UNCHANGED <<held, lastId, network>>
  BY DEF PollGuardians, AutoRedeem, PrepareTap, TapDone
<1> DEFINE To(s, b) == [j EXCEPT !.status = s, !.needsTap = b]
<1>3. \A s \in Working : [j EXCEPT !.status = s] \in Good BY <1>1, StatusGood
<1>4. \A s \in Working, b \in BOOLEAN : To(s, b) \in Good BY <1>3, FlagsGood
<1>5. \A b \in BOOLEAN : [j EXCEPT !.needsTap = b] \in Good BY <1>1, FlagsGood
<1>6. \A s \in {"awaiting_signatures", "awaiting_redeem", "awaiting_swap", "done",
                "request_signatures"} : s \in Working
  BY DEF Working, Status, LandSteps, EthSteps
<1>7. Landed(j) \in Good /\ [j EXCEPT !.status = "done"] \in Good
  BY <1>3, <1>6 DEF Landed
<1>8. CASE PollGuardians(j)
  <2>1. SaveJob(To("awaiting_redeem", FALSE)) \/ SaveJob([j EXCEPT !.status = "request_signatures"])
    BY <1>8 DEF PollGuardians
  <2> QED BY <1>2, <1>3, <1>4, <1>6, <2>1, JobStepTypes
<1>9. CASE AutoRedeem(j)
  <2>1. \/ SaveJob(Landed(j)) \/ SaveJob(To("awaiting_signatures", FALSE))
        \/ SaveJob([j EXCEPT !.needsTap = TRUE])
    BY <1>9 DEF AutoRedeem
  <2> HIDE DEF To
  <2> QED BY <1>2, <1>4, <1>5, <1>6, <1>7, <2>1, JobStepTypes
<1>10. CASE PrepareTap(j)
  <2>1. PICK b \in BOOLEAN : SaveJob(To("awaiting_signatures", b)) BY <1>10 DEF PrepareTap
  <2> HIDE DEF To
  <2> QED BY <1>2, <1>4, <1>6, <2>1, JobStepTypes
<1>11. CASE TapDone(j)
  <2>1. SaveJob(Landed(j)) \/ SaveJob([j EXCEPT !.status = "done"]) BY <1>11 DEF TapDone
  <2> QED BY <1>2, <1>7, <2>1, JobStepTypes
<1> QED BY <1>8, <1>9, <1>10, <1>11

LEMMA LenIsNat == ASSUME TypeOK PROVE Len(chain) \in Nat /\ chain \in Seq(Entry)
<1>1. chain \in Seq(Entry) BY DEF TypeOK, Entry
<1> QED BY <1>1, LenProperties

LEMMA BroadcastTypes ==
  ASSUME TypeInv, NEW j \in jobs, Broadcast(j) PROVE TypeInv'
<1>1. \A t \in j.pending : t \in Tx BY GoodFields, JobFields DEF TypeInv
<1> QED BY <1>1 DEF Broadcast, TypeInv, TypeOK, ledger

LEMMA MineTypes == ASSUME TypeInv, NEW t \in mempool, Mine(t) PROVE TypeInv'
<1>1. t \in Tx /\ t.maxGas \in Nat BY DEF TypeInv, TypeOK, Tx
<1>2. PICK ok \in BOOLEAN, gas \in 1..t.maxGas :
        chain' = Append(chain, [tx |-> t, ok |-> ok, gas |-> gas])
  BY DEF Mine
<1> DEFINE e == [tx |-> t, ok |-> ok, gas |-> gas]
<1>3. e \in Entry BY <1>1, <1>2 DEF Entry
<1>4. Len(chain) \in Nat /\ chain \in Seq(Entry) BY LenIsNat DEF TypeInv
<1> HIDE DEF e
<1>5. chain' = Append(chain, e) BY <1>2 DEF e
<1>6. chain' \in Seq(Entry) /\ Len(chain') = Len(chain) + 1
  BY <1>3, <1>4, <1>5, AppendProperties
<1>7. deep' = deep /\ deep' \in 0..Len(chain') BY <1>4, <1>6 DEF Mine, TypeInv, TypeOK
<1>8. mempool' \subseteq Tx BY DEF Mine, TypeInv, TypeOK
<1> QED BY <1>6, <1>7, <1>8 DEF Mine, TypeInv, TypeOK, Entry, ledger

LEMMA BuryTypes == ASSUME TypeInv, Bury PROVE TypeInv'
<1>1. Len(chain) \in Nat BY LenIsNat DEF TypeInv
<1>2. deep' \in 0..Len(chain') BY <1>1 DEF Bury, TypeInv, TypeOK
<1> QED BY <1>2 DEF Bury, TypeInv, TypeOK, ledger

LEMMA DropTypes == ASSUME TypeInv, NEW t \in mempool, Drop(t) PROVE TypeInv'
BY DEF Drop, TypeInv, TypeOK, ledger

\* The prefix of the chain that a reorganisation leaves.
LEMMA ReorgFacts ==
  ASSUME TypeInv, Reorg
  PROVE  \E n \in deep..(Len(chain) - 1) :
           /\ n \in 0..Len(chain) /\ Len(chain') = n /\ chain' \in Seq(Entry)
           /\ \A i \in 1..n : chain'[i] = chain[i]
           /\ mempool' = mempool \cup {chain[i].tx : i \in (n + 1)..Len(chain)}
<1>1. Len(chain) \in Nat /\ chain \in Seq(Entry) BY LenIsNat DEF TypeInv
<1>2. PICK n \in deep..(Len(chain) - 1) :
        /\ chain' = SubSeq(chain, 1, n)
        /\ mempool' = mempool \cup {chain[i].tx : i \in (n + 1)..Len(chain)}
  BY DEF Reorg
<1>3. n \in 0..Len(chain) BY <1>1, <1>2 DEF TypeInv, TypeOK
<1>4. \A i \in 1..n : chain[i] \in Entry BY <1>1, <1>3, ElementOfSeq
<1>5. Len(chain') = n /\ chain' \in Seq(Entry) /\ \A i \in 1..n : chain'[i] = chain[i]
  BY <1>1, <1>2, <1>3, <1>4, SubSeqProperties
<1> QED BY <1>2, <1>3, <1>5

LEMMA ReorgTypes == ASSUME TypeInv, Reorg PROVE TypeInv'
<1>1. PICK n \in deep..(Len(chain) - 1) :
        /\ n \in 0..Len(chain) /\ Len(chain') = n /\ chain' \in Seq(Entry)
        /\ mempool' = mempool \cup {chain[i].tx : i \in (n + 1)..Len(chain)}
  BY ReorgFacts
<1>2. \A i \in (n + 1)..Len(chain) : chain[i].tx \in Tx
  BY <1>1, LenIsNat, ChainType DEF TypeInv
<1>3. mempool' \subseteq Tx BY <1>1, <1>2 DEF TypeInv, TypeOK
<1>4. deep' = deep /\ deep' \in 0..Len(chain') BY <1>1 DEF Reorg, TypeInv, TypeOK
<1> QED BY <1>1, <1>3, <1>4 DEF Reorg, TypeInv, TypeOK, Entry, ledger

LEMMA QueueTypes == ASSUME TypeInv, Abort \/ Crash PROVE TypeInv'
BY DEF Abort, Crash, TypeInv, TypeOK, ledger, network

LEMMA NextTypes == ASSUME TypeInv, [Next]_vars PROVE TypeInv'
<1>1. CASE \E a \in Accounts, p \in Plans : Start(a, p) BY <1>1, StartTypes
<1>2. CASE Commit BY <1>2, CommitTypes
<1>3. CASE Abort \/ Crash BY <1>3, QueueTypes
<1>4. CASE \E j \in jobs : JobStep(j)
  <2>1. PICK j \in jobs : JobStep(j) BY <1>4
  <2>2. CASE Skip(j) BY <2>2, SkipTypes
  <2>3. CASE Send(j) BY <2>3, SendTypes
  <2>4. CASE Broadcast(j) BY <2>4, BroadcastTypes
  <2>5. CASE Confirm(j) BY <2>5, ConfirmTypes
  <2>6. CASE CrashInConfirm(j) BY <2>6, CrashInConfirmTypes
  <2>7. CASE Finish(j) BY <2>7, FinishTypes
  <2>8. CASE Fail(j) BY <2>8, FailTypes
  <2>9. CASE Resume(j) BY <2>9, ResumeTypes
  <2>10. CASE OfferQuote(j) BY <2>10, OfferQuoteTypes
  <2>11. CASE ApproveQuote(j) BY <2>11, ApproveQuoteTypes
  <2>12. CASE Reset(j) BY <2>12, ResetTypes
  <2>13. CASE SolSend(j) \/ SolExpire(j) \/ SolNext(j) BY <2>13, SolTypes
  <2>14. CASE PollGuardians(j) \/ AutoRedeem(j) \/ PrepareTap(j) \/ TapDone(j)
    BY <2>14, LandingTypes
  <2> QED BY <2>1, <2>2, <2>3, <2>4, <2>5, <2>6, <2>7, <2>8, <2>9, <2>10, <2>11,
             <2>12, <2>13, <2>14 DEF JobStep
<1>5. CASE \E t \in mempool : Mine(t) \/ Drop(t) BY <1>5, MineTypes, DropTypes
<1>6. CASE Bury BY <1>6, BuryTypes
<1>7. CASE Reorg BY <1>7, ReorgTypes
<1>8. CASE UNCHANGED vars BY <1>8 DEF vars, TypeInv, TypeOK
<1> QED BY <1>1, <1>2, <1>3, <1>4, <1>5, <1>6, <1>7, <1>8 DEF Next

\* Every record, journal entry and mined transaction keeps its type: no step of
\* the driver writes a half-formed job (a failed job without the step it failed
\* at, a job whose plan has nothing after repayment).
THEOREM TypesHold == Spec => []TypeInv
<1>1. Init => TypeInv BY InitTypes
<1>2. TypeInv /\ [Next]_vars => TypeInv' BY NextTypes
<1> QED BY <1>1, <1>2, PTL DEF Spec

THEOREM TypeCorrect == Spec => []TypeOK
<1>1. TypeInv => TypeOK BY DEF TypeInv
<1> QED BY <1>1, TypesHold, PTL

-------------------------------------------------------------------------------
(***************************************************************************)
(* The journal theorems of FundingV2: nothing is broadcast that the ledger *)
(* does not hold, nothing the ledger holds is lost, and no nonce is used   *)
(* twice.  The invariant behind them says what a record is (one per id,    *)
(* one current per account), what may be in flight on it, and what the     *)
(* operation waiting in the promise queue knows of it.                     *)
(***************************************************************************)

\* At most one transaction of a job is unsettled, and it is of the job's step.
Tidy(j) ==
  /\ \A t, u \in j.pending : t = u
  /\ j.pending = {} \/ j.confirmed = {}
  /\ \A t \in j.pending : t.step = At(j)
  /\ \A r \in j.confirmed : r.tx.step = At(j) /\ r \in j.receipts
  /\ \A t \in TxsOf(j) : t.id = j.id

Identity ==
  /\ \A j, k \in jobs : j.acct = k.acct => j = k
  /\ \A j, k \in Records : j.id = k.id => j = k
  /\ \A j \in jobs, h \in past : j.id # h.id
  /\ \A j \in Records : j.id <= lastId

\* No transaction of the wallet in the ledger has this nonce or a later one.
Fresh(t) == \A u \in Journaled : u.from = t.from => u.nonce < t.nonce

\* new is record j with at most one more transaction, whose nonce is fresh.
Extends(j, new) ==
  /\ new.id = j.id /\ new.acct = j.acct
  /\ new.spent = j.spent /\ new.recovered = j.recovered
  /\ TxsOf(j) \subseteq TxsOf(new)
  /\ \A t, u \in TxsOf(new) \ TxsOf(j) : t = u
  /\ \A t \in TxsOf(new) \ TxsOf(j) : Fresh(t)

HeldKnown ==
  \A h \in held :
    /\ Tidy(h.new)
    /\ IF h.op = "start"
       THEN h.new.id = lastId + 1 /\ TxsOf(h.new) = {}
       ELSE \E j \in Records : Extends(j, h.new)

JournalInv ==
  /\ TypeInv
  /\ Identity
  /\ \A j \in Records : Tidy(j)
  /\ HeldKnown
  /\ WriteAhead
  /\ NonceUnique

-----------------------------------------------------------------------------
(* What the saves do to the records. *)

\* k is j some steps later, with the same transactions.
Evolves(j, k) ==
  /\ k.id = j.id /\ k.acct = j.acct /\ TxsOf(k) = TxsOf(j)
  /\ k.spent >= j.spent /\ k.recovered >= j.recovered
  /\ Tidy(k)

Replaces(j, k) == Records' = (Records \ {j}) \cup {k}

\* The step NothingForgotten allows.
Remembers ==
  \A j \in Records : \E k \in Records' :
    /\ k.id = j.id
    /\ TxsOf(j) \subseteq TxsOf(k)
    /\ k.spent >= j.spent /\ k.recovered >= j.recovered

LEMMA RecordsType ==
  ASSUME TypeInv
  PROVE  /\ \A j \in Records : j \in Job /\ j.id \in Nat /\ j.spent \in Nat /\ j.recovered \in Nat
         /\ \A t \in Journaled : t \in Tx /\ t.nonce \in Nat
<1>1. \A j \in Records : j \in Job BY DEF TypeInv, TypeOK, Records
<1>2. \A j \in Records : TxsOf(j) \subseteq Tx BY <1>1, JobFields DEF TxsOf, Receipt
<1> QED BY <1>1, <1>2, JobFields DEF Journaled, Tx

LEMMA ReplacedRemembers ==
  ASSUME TypeInv, NEW j \in Records, NEW k, Replaces(j, k), k.id = j.id,
         TxsOf(j) \subseteq TxsOf(k), k.spent >= j.spent, k.recovered >= j.recovered
  PROVE  Remembers
<1>1. k \in Records' BY DEF Replaces
<1>2. \A i \in Records : i # j => i \in Records' BY DEF Replaces
<1>3. \A i \in Records : i.spent >= i.spent /\ i.recovered >= i.recovered BY RecordsType
<1> QED BY <1>1, <1>2, <1>3 DEF Remembers

LEMMA SameRecordsRemember ==
  ASSUME TypeInv, Records \subseteq Records' PROVE Remembers
<1>1. \A i \in Records : i.spent >= i.spent /\ i.recovered >= i.recovered BY RecordsType
<1> QED BY <1>1 DEF Remembers

LEMMA SaveReplaces ==
  ASSUME Identity, NEW j \in Records, NEW k, k.id = j.id, k.acct = j.acct,
         SaveJob(k), lastId' = lastId
  PROVE  Replaces(j, k) /\ Identity'
<1> DEFINE prev == {i \in jobs : i.acct = k.acct}
<1>1. jobs' = (jobs \ prev) \cup {k} /\ past' = {h \in past \cup prev : h.id # k.id}
  BY DEF SaveJob
<1>2. \A i \in Records : i.id = k.id => i = j BY DEF Identity
<1>3. \A i \in jobs \ prev : i \in Records /\ i.id # k.id BY <1>2 DEF Records
<1>4. \A i \in Records : i # j => i \in (jobs \ prev) \cup past'
  BY <1>1, <1>2 DEF Records
<1>5. \A i \in past' : i \in Records /\ i # j BY <1>1 DEF Records
<1>6. Replaces(j, k)
  <2>1. \A i \in Records' : i = k \/ (i \in Records /\ i # j)
    BY <1>1, <1>3, <1>5 DEF Records
  <2>2. \A i \in Records : i # j => i \in Records' BY <1>1, <1>4 DEF Records
  <2>3. k \in Records' BY <1>1 DEF Records
  <2> QED BY <2>1, <2>2, <2>3 DEF Replaces
<1>7. \A i, h \in jobs' : i.acct = h.acct => i = h BY <1>1 DEF Identity
<1>8. \A i, h \in Records' : i.id = h.id => i = h BY <1>2, <1>6 DEF Replaces, Identity
<1>9. \A i \in jobs', h \in past' : i.id # h.id
  <2>1. \A h \in past' : h.id # k.id BY <1>1
  <2>2. \A i \in jobs \ prev, h \in prev : i.id # h.id BY DEF Identity, Records
  <2>3. \A i \in jobs \ prev, h \in past : i.id # h.id BY DEF Identity
  <2> QED BY <1>1, <2>1, <2>2, <2>3
<1>10. \A i \in Records' : i.id <= lastId' BY <1>6 DEF Replaces, Identity
<1> QED BY <1>6, <1>7, <1>8, <1>9, <1>10 DEF Identity

LEMMA SaveAdds ==
  ASSUME Identity, TypeInv, NEW k, k.id = lastId + 1, SaveJob(k), lastId' = k.id
  PROVE  Records' = Records \cup {k} /\ Identity'
<1> DEFINE prev == {i \in jobs : i.acct = k.acct}
<1>1. jobs' = (jobs \ prev) \cup {k} /\ past' = {h \in past \cup prev : h.id # k.id}
  BY DEF SaveJob
<1>2. \A i \in Records : i.id \in Nat
  BY GoodFields, JobFields DEF TypeInv, Records
<1>3. \A i \in Records : i.id # k.id /\ i.id <= lastId'
  BY <1>2 DEF Identity, TypeInv, TypeOK
<1>4. past' = past \cup prev BY <1>1, <1>3 DEF Records
<1>5. Records' = Records \cup {k} BY <1>1, <1>4 DEF Records
<1>6. \A i, h \in jobs' : i.acct = h.acct => i = h BY <1>1 DEF Identity
<1>7. \A i, h \in Records' : i.id = h.id => i = h BY <1>3, <1>5 DEF Identity
<1>8. \A i \in jobs', h \in past' : i.id # h.id
  BY <1>1, <1>3, <1>4 DEF Identity, Records
<1>9. \A i \in Records' : i.id <= lastId'
  BY <1>3, <1>5 DEF TypeInv, TypeOK
<1> QED BY <1>5, <1>6, <1>7, <1>8, <1>9 DEF Identity

LEMMA JournalOfReplaced ==
  ASSUME NEW j \in Records, NEW k, TxsOf(k) = TxsOf(j), Replaces(j, k)
  PROVE  Journaled' = Journaled
BY DEF Journaled, Replaces, TxsOf

\* A step that replaces one record by a later version of it, and leaves the
\* network and the queue alone (or empties the queue), keeps the invariant.
LEMMA EvolveKeeps ==
  ASSUME JournalInv, TypeInv', Identity', lastId' = lastId,
         NEW j \in Records, NEW k, Evolves(j, k), Replaces(j, k),
         \/ held' = {}
         \/ held' = held /\ k.spent = j.spent /\ k.recovered = j.recovered,
         mempool' \cup Mined' \subseteq mempool \cup Mined
  PROVE  JournalInv' /\ Remembers
<1>1. Journaled' = Journaled BY JournalOfReplaced DEF Evolves
<1>2. \A i \in Records' : Tidy(i) BY DEF JournalInv, Replaces, Evolves
<1>3. HeldKnown'
  <2>1. CASE held' = {} BY <2>1 DEF HeldKnown
  <2>2. CASE held' = held /\ k.spent = j.spent /\ k.recovered = j.recovered
    <3> SUFFICES ASSUME NEW h \in held, h.op # "start"
                 PROVE  \E i \in Records' : Extends(i, h.new)'
      BY <2>2 DEF JournalInv, HeldKnown
    <3>1. PICK i \in Records : Extends(i, h.new) BY DEF JournalInv, HeldKnown
    <3>2. \A t : Fresh(t)' <=> Fresh(t) BY <1>1 DEF Fresh
    <3>3. CASE i = j
      <4>1. k \in Records' BY DEF Replaces
      <4>2. Extends(k, h.new)'
        BY <2>2, <3>1, <3>2, <3>3 DEF Extends, Evolves
      <4> QED BY <4>1, <4>2
    <3>4. CASE i # j
      <4>1. i \in Records' BY <3>4 DEF Replaces
      <4>2. Extends(i, h.new)' BY <3>1, <3>2 DEF Extends
      <4> QED BY <4>1, <4>2
    <3> QED BY <3>3, <3>4
  <2> QED BY <2>1, <2>2
<1>4. WriteAhead' BY <1>1 DEF JournalInv, WriteAhead
<1>5. NonceUnique' BY <1>1 DEF JournalInv, NonceUnique
<1>6. Remembers BY ReplacedRemembers DEF JournalInv, Evolves
<1> QED BY <1>2, <1>3, <1>4, <1>5, <1>6 DEF JournalInv

-----------------------------------------------------------------------------
(* The actions, one by one. *)

\* The save of a later version of a current job.
LEMMA SaveKeeps ==
  ASSUME JournalInv, TypeInv', NEW j \in jobs, NEW k, Evolves(j, k), SaveJob(k),
         held = {} \/ (k.spent = j.spent /\ k.recovered = j.recovered),
         UNCHANGED <<held, lastId, network>>
  PROVE  JournalInv' /\ Remembers
<1>1. j \in Records /\ Identity /\ k.id = j.id /\ k.acct = j.acct
  BY DEF Records, JournalInv, Evolves
<1>2. lastId' = lastId /\ held' = held OBVIOUS
<1>3. Replaces(j, k) /\ Identity' BY <1>1, <1>2, SaveReplaces
<1>4. mempool' = mempool /\ Mined' = Mined BY DEF network, Mined
<1> QED BY <1>1, <1>2, <1>3, <1>4, EvolveKeeps

\* What a job carries when nothing of it is in flight.
LEMMA IdleIsTidy ==
  ASSUME NEW j, Tidy(j), NEW k, k.id = j.id, k.pending = {}, k.confirmed = {},
         k.receipts = j.receipts
  PROVE  Tidy(k)
BY DEF Tidy, TxsOf

LEMMA MoveEvolves ==
  ASSUME NEW j \in Job, Tidy(j), j.pending = {}, NEW s
  PROVE  /\ Evolves(j, Move(j, s)) /\ Evolves(j, Move(Settle(j), s))
         /\ Move(j, s).spent = j.spent /\ Move(j, s).recovered = j.recovered
         /\ Move(Settle(j), s).spent = j.spent /\ Move(Settle(j), s).recovered = j.recovered
<1> DEFINE Same(k) == /\ k.id = j.id /\ k.acct = j.acct /\ k.receipts = j.receipts
                      /\ k.pending = {} /\ k.confirmed = {}
                      /\ k.spent = j.spent /\ k.recovered = j.recovered
<1>1. Same(Move(j, s)) BY DEF Move, Job
<1>2. Same(Move(Settle(j), s)) BY DEF Move, Settle, Job
<1>3. ASSUME NEW k, Same(k) PROVE Evolves(j, k)
  <2>1. Tidy(k) BY <1>3, IdleIsTidy
  <2>2. TxsOf(k) = TxsOf(j) BY <1>3 DEF TxsOf
  <2>3. j.spent \in Nat /\ j.recovered \in Nat BY JobFields
  <2> QED BY <1>3, <2>1, <2>2, <2>3 DEF Evolves
<1> QED BY <1>1, <1>2, <1>3

\* A save that leaves the money, the journal and the place of the job alone.
LEMMA SamePlaceEvolves ==
  ASSUME NEW j \in Job, Tidy(j), NEW k,
         k.id = j.id, k.acct = j.acct, k.receipts = j.receipts,
         k.pending = j.pending, k.confirmed = j.confirmed,
         k.spent = j.spent, k.recovered = j.recovered, At(k) = At(j)
  PROVE  Evolves(j, k)
<1>1. TxsOf(k) = TxsOf(j) BY DEF TxsOf
<1>2. Tidy(k) BY <1>1 DEF Tidy
<1>3. j.spent \in Nat /\ j.recovered \in Nat BY JobFields
<1> QED BY <1>1, <1>2, <1>3 DEF Evolves

\* A job that waits for no Ethereum step has nothing in flight.
LEMMA OffChainIsIdle ==
  ASSUME NEW j \in Job, Tidy(j), At(j) \notin EthSteps
  PROVE  j.pending = {} /\ j.confirmed = {}
<1>1. \A t \in j.pending : t.step \in EthSteps BY JobFields DEF Tx
<1>2. \A r \in j.confirmed : r.tx.step \in EthSteps BY JobFields DEF Receipt, Tx
<1> QED BY <1>1, <1>2 DEF Tidy

LEMMA CurrentJob ==
  ASSUME JournalInv, NEW j \in jobs
  PROVE  j \in Records /\ j \in Good /\ j \in Job /\ Tidy(j)
BY GoodFields DEF JournalInv, TypeInv, Records

LEMMA SkipJournal ==
  ASSUME JournalInv, TypeInv', NEW j \in jobs, Skip(j) PROVE JournalInv' /\ Remembers
<1>1. j \in Job /\ Tidy(j) BY CurrentJob
<1>2. j.pending = {} BY DEF Skip, Ready
<1>3. UNCHANGED <<held, lastId, network>> BY DEF Skip
<1>4. CASE \E s \in EthSteps : SaveJob(Move(j, s))
  BY <1>1, <1>2, <1>3, <1>4, MoveEvolves, SaveKeeps
<1>5. CASE SaveJob(Move(Settle(j), Head(j.plan.tail)))
  BY <1>1, <1>2, <1>3, <1>5, MoveEvolves, SaveKeeps
<1> QED BY <1>4, <1>5 DEF Skip

LEMMA FinishJournal ==
  ASSUME JournalInv, TypeInv', NEW j \in jobs, Finish(j) PROVE JournalInv' /\ Remembers
<1>1. j \in Job /\ Tidy(j) BY CurrentJob
<1>2. PICK r \in j.confirmed :
        SaveJob(Move(IF r.tx.step = "collect_fee" THEN Settle(j) ELSE j,
                     FinishTo(r.tx.step, j.plan)))
  BY DEF Finish
<1>3. j.pending = {} BY <1>1, <1>2 DEF Tidy
<1>4. UNCHANGED <<held, lastId, network>> BY DEF Finish
<1>5. CASE r.tx.step = "collect_fee"
  BY <1>1, <1>2, <1>3, <1>4, <1>5, MoveEvolves, SaveKeeps
<1>6. CASE r.tx.step # "collect_fee"
  BY <1>1, <1>2, <1>3, <1>4, <1>6, MoveEvolves, SaveKeeps
<1> QED BY <1>5, <1>6

\* The receipt of a job's transaction takes the transaction's place.
LEMMA RecordedEvolves ==
  ASSUME NEW j \in Job, Tidy(j), j.status # "error", NEW r \in Receipt, NEW gas \in Nat,
         r.tx \in j.pending
  PROVE  /\ Evolves(j, Recorded(j, r, gas))
         /\ Evolves(j, Reverted(Recorded(j, r, gas)))
<1> DEFINE k == Recorded(j, r, gas)
<1>1. /\ k.id = j.id /\ k.acct = j.acct /\ k.status = j.status
      /\ k.pending = {} /\ k.confirmed = {r} /\ k.receipts = j.receipts \cup {r}
      /\ k.spent = j.spent + SpentOf(r.tx, r.ok, gas)
      /\ k.recovered = j.recovered + RecoveredOf(r.tx, r.ok, gas)
  BY DEF Recorded, Job
<1>2. SpentOf(r.tx, r.ok, gas) \in Nat /\ RecoveredOf(r.tx, r.ok, gas) \in Nat
  BY DEF SpentOf, RecoveredOf, Receipt, Tx
<1>3. k.spent >= j.spent /\ k.recovered >= j.recovered BY <1>1, <1>2, JobFields
<1>4. j.pending = {r.tx} BY DEF Tidy
<1>5. TxsOf(k) = TxsOf(j) BY <1>1, <1>4 DEF TxsOf
<1>6. Tidy(k) BY <1>1, <1>4, <1>5 DEF Tidy, At
<1>7. k \in Job BY RecordedType
<1>8. Evolves(j, k) BY <1>1, <1>3, <1>5, <1>6 DEF Evolves
<1> HIDE DEF k
<1> DEFINE i == Reverted(k)
<1>9. /\ i.id = k.id /\ i.acct = k.acct /\ i.pending = k.pending /\ i.confirmed = {}
      /\ i.receipts = k.receipts /\ i.spent = k.spent /\ i.recovered = k.recovered
  BY <1>7 DEF Reverted, Job
<1> HIDE DEF i
<1>10. Tidy(i) BY <1>1, <1>6, <1>9, IdleIsTidy
<1>11. TxsOf(i) = TxsOf(k) BY <1>9 DEF TxsOf
<1>12. Evolves(j, i) BY <1>8, <1>9, <1>10, <1>11 DEF Evolves
<1> QED BY <1>8, <1>12 DEF i, k

LEMMA ConfirmJournal ==
  ASSUME JournalInv, TypeInv', NEW j \in jobs, Confirm(j) PROVE JournalInv' /\ Remembers
<1>1. j \in Job /\ Tidy(j) BY CurrentJob
<1>2. PICK e \in Final :
        /\ e.tx \in j.pending
        /\ LET k == Recorded(j, [tx |-> e.tx, ok |-> e.ok], e.gas)
           IN  SaveJob(IF e.ok THEN k ELSE Reverted(k))
  BY DEF Confirm
<1> DEFINE r == [tx |-> e.tx, ok |-> e.ok]
<1>3. r \in Receipt /\ r.tx \in j.pending /\ e.gas \in Nat
  BY <1>2, FinalType DEF JournalInv, TypeInv, Receipt
<1>4. j.status # "error" BY EthIsStatus DEF Confirm
<1>5. held = {} /\ UNCHANGED <<held, lastId, network>> BY DEF Confirm, Unlocked
<1>6. SaveJob(IF e.ok THEN Recorded(j, r, e.gas) ELSE Reverted(Recorded(j, r, e.gas)))
  BY <1>2
<1> HIDE DEF r
<1>7. /\ Evolves(j, Recorded(j, r, e.gas))
      /\ Evolves(j, Reverted(Recorded(j, r, e.gas)))
  BY <1>1, <1>3, <1>4, RecordedEvolves
<1>8. CASE e.ok BY <1>5, <1>6, <1>7, <1>8, SaveKeeps
<1>9. CASE ~e.ok BY <1>5, <1>6, <1>7, <1>9, SaveKeeps
<1> QED BY <1>8, <1>9

LEMMA CrashInConfirmJournal ==
  ASSUME JournalInv, TypeInv', NEW j \in jobs, CrashInConfirm(j) PROVE JournalInv' /\ Remembers
<1>1. j \in Job /\ Tidy(j) /\ j \in Records BY CurrentJob
<1>2. PICK e \in Final :
        /\ e.tx \in j.pending
        /\ jobs' = (jobs \ {j}) \cup {Recorded(j, [tx |-> e.tx, ok |-> FALSE], e.gas)}
  BY DEF CrashInConfirm
<1> DEFINE r == [tx |-> e.tx, ok |-> FALSE]
           k == Recorded(j, r, e.gas)
<1>3. r \in Receipt /\ r.tx \in j.pending /\ e.gas \in Nat
  BY <1>2, FinalType DEF JournalInv, TypeInv, Receipt
<1>4. j.status # "error" BY EthIsStatus DEF CrashInConfirm
<1>5. jobs' = (jobs \ {j}) \cup {k} BY <1>2
<1> HIDE DEF r
<1>6. Evolves(j, k) BY <1>1, <1>3, <1>4, RecordedEvolves
<1> HIDE DEF k
<1>7. held' = {} /\ past' = past /\ lastId' = lastId /\ mempool' = mempool /\ Mined' = Mined
  BY DEF CrashInConfirm, network, Mined
<1>8. j \notin past BY DEF JournalInv, Identity
<1>9. Replaces(j, k) BY <1>5, <1>7, <1>8 DEF Replaces, Records
<1>10. Identity' BY <1>1, <1>5, <1>6, <1>7, <1>9 DEF Identity, JournalInv, Evolves, Replaces, Records
<1> QED BY <1>1, <1>6, <1>7, <1>9, <1>10, EvolveKeeps

\* A save of a job with nothing in flight.
LEMMA IdleEvolves ==
  ASSUME NEW j \in Job, Tidy(j), j.pending = {}, NEW k,
         k.id = j.id, k.acct = j.acct, k.receipts = j.receipts,
         k.pending = {}, k.confirmed = {}, k.spent = j.spent, k.recovered = j.recovered
  PROVE  Evolves(j, k)
<1>1. TxsOf(k) = TxsOf(j) BY DEF TxsOf
<1>2. Tidy(k) BY IdleIsTidy
<1>3. j.spent \in Nat /\ j.recovered \in Nat BY JobFields
<1> QED BY <1>1, <1>2, <1>3 DEF Evolves

LEMMA FailJournal ==
  ASSUME JournalInv, TypeInv', NEW j \in jobs, Fail(j) PROVE JournalInv' /\ Remembers
<1>1. j \in Job /\ Tidy(j) BY CurrentJob
<1> DEFINE k == [j EXCEPT !.status = "error", !.failedAt = j.status]
<1>2. SaveJob(k) /\ UNCHANGED <<held, lastId, network>> BY DEF Fail
<1>3. /\ k.id = j.id /\ k.acct = j.acct /\ k.receipts = j.receipts
      /\ k.pending = j.pending /\ k.confirmed = j.confirmed
      /\ k.spent = j.spent /\ k.recovered = j.recovered
      /\ k.status = "error" /\ k.failedAt = j.status
  BY <1>1 DEF Job
<1>4. j.status # "error" BY StepsAreStatuses DEF Fail
<1> HIDE DEF k
<1>5. At(k) = At(j) BY <1>3, <1>4 DEF At
<1>6. Evolves(j, k) BY <1>1, <1>3, <1>5, SamePlaceEvolves
<1> QED BY <1>2, <1>3, <1>6, SaveKeeps

LEMMA ResumeJournal ==
  ASSUME JournalInv, TypeInv', NEW j \in jobs, Resume(j) PROVE JournalInv' /\ Remembers
<1>1. j \in Job /\ Tidy(j) BY CurrentJob
<1> DEFINE steps == {t.step : t \in j.pending} \cup {r.tx.step : r \in j.confirmed}
           To(from) == IF from = "awaiting_redeem" THEN "awaiting_signatures" ELSE from
           New(from) == [j EXCEPT !.status = To(from), !.failedAt = "none",
                           !.needsTap = IF To(from) = "awaiting_signatures" THEN FALSE ELSE @]
<1>2. PICK from \in IF steps # {} THEN steps ELSE {j.failedAt} : SaveJob(New(from))
  BY DEF Resume
<1>3. held = {} /\ UNCHANGED <<held, lastId, network>> BY DEF Resume, Unlocked
<1> DEFINE k == New(from)
<1>4. /\ k.id = j.id /\ k.acct = j.acct /\ k.receipts = j.receipts
      /\ k.pending = j.pending /\ k.confirmed = j.confirmed
      /\ k.spent = j.spent /\ k.recovered = j.recovered /\ k.status = To(from)
  BY <1>1 DEF Job
<1>5. SaveJob(k) BY <1>2
<1> HIDE DEF k, New
<1>6. CASE steps # {}
  <2>1. from = At(j) BY <1>1, <1>2, <1>6 DEF Tidy
  <2>2. At(j) \in EthSteps
    <3>1. \A t \in j.pending : t.step \in EthSteps BY <1>1, JobFields DEF Tx
    <3>2. \A r \in j.confirmed : r.tx.step \in EthSteps BY <1>1, JobFields DEF Receipt, Tx
    <3> QED BY <1>2, <1>6, <2>1, <3>1, <3>2
  <2>3. "awaiting_redeem" \notin EthSteps /\ "error" \notin EthSteps
    BY DEF EthSteps, PreSteps, TailSteps
  <2>4. k.status = At(j) /\ k.status # "error" BY <1>4, <2>1, <2>2, <2>3
  <2>5. At(k) = At(j) BY <2>4 DEF At
  <2>6. Evolves(j, k) BY <1>1, <1>4, <2>5, SamePlaceEvolves
  <2> QED BY <1>3, <1>5, <2>6, SaveKeeps
<1>7. CASE steps = {}
  <2>1. j.pending = {} /\ j.confirmed = {} BY <1>7
  <2>2. Evolves(j, k) BY <1>1, <1>4, <2>1, IdleEvolves
  <2> QED BY <1>3, <1>5, <2>2, SaveKeeps
<1> QED BY <1>6, <1>7

\* The steps outside the Ethereum leg change flags and the status of a job that
\* has nothing in flight there.
LEMMA OffChainSave ==
  ASSUME JournalInv, TypeInv', NEW j \in jobs, j.status \notin EthSteps \cup {"error"},
         NEW k, SaveJob(k), UNCHANGED <<held, lastId, network>>,
         k.id = j.id, k.acct = j.acct, k.receipts = j.receipts,
         k.pending = j.pending, k.confirmed = j.confirmed,
         k.spent = j.spent, k.recovered = j.recovered
  PROVE  JournalInv' /\ Remembers
<1>1. j \in Job /\ Tidy(j) BY CurrentJob
<1>2. At(j) \notin EthSteps BY DEF At
<1>3. j.pending = {} /\ j.confirmed = {} BY <1>1, <1>2, OffChainIsIdle
<1>4. Evolves(j, k) BY <1>1, <1>3, IdleEvolves
<1> QED BY <1>4, SaveKeeps

SamePlace(j, k) ==
  /\ k.id = j.id /\ k.acct = j.acct /\ k.receipts = j.receipts
  /\ k.pending = j.pending /\ k.confirmed = j.confirmed
  /\ k.spent = j.spent /\ k.recovered = j.recovered

LEMMA ExceptSamePlace ==
  ASSUME NEW j \in Job, NEW s, NEW b, NEW c
  PROVE  /\ SamePlace(j, [j EXCEPT !.status = s])
         /\ SamePlace(j, [j EXCEPT !.pendingSig = b])
         /\ SamePlace(j, [j EXCEPT !.needsTap = b])
         /\ SamePlace(j, [j EXCEPT !.status = s, !.needsTap = b])
         /\ SamePlace(j, [j EXCEPT !.status = s, !.pendingSig = b])
         /\ SamePlace(j, [j EXCEPT !.status = s, !.pendingSig = b, !.solSwapSig = c])
BY DEF Job, SamePlace

LEMMA SolJournal ==
  ASSUME JournalInv, TypeInv', NEW j \in jobs, SolSend(j) \/ SolExpire(j) \/ SolNext(j)
  PROVE  JournalInv' /\ Remembers
<1>1. j \in Job BY CurrentJob
<1>2. j.status \notin EthSteps \cup {"error"}
  BY DEF SolSend, SolExpire, SolNext, EthSteps, PreSteps, TailSteps
<1>3. UNCHANGED <<held, lastId, network>> BY DEF SolSend, SolExpire, SolNext
<1>4. \E k : SaveJob(k) /\ SamePlace(j, k)
  <2>1. CASE SolSend(j) BY <1>1, <2>1, ExceptSamePlace DEF SolSend
  <2>2. CASE SolExpire(j) BY <1>1, <2>2, ExceptSamePlace DEF SolExpire
  <2>3. CASE SolNext(j)
    <3>1. \/ \E s, b, c : SaveJob([j EXCEPT !.status = s, !.pendingSig = b, !.solSwapSig = c])
          \/ \E s, b : SaveJob([j EXCEPT !.status = s, !.pendingSig = b])
          \/ \E s : SaveJob([j EXCEPT !.status = s])
      BY <2>3, Zenon DEF SolNext
    <3> QED BY <1>1, <3>1, ExceptSamePlace
  <2> QED BY <2>1, <2>2, <2>3
<1> QED BY <1>2, <1>3, <1>4, OffChainSave DEF SamePlace

LEMMA LandingJournal ==
  ASSUME JournalInv, TypeInv', NEW j \in jobs,
         PollGuardians(j) \/ AutoRedeem(j) \/ PrepareTap(j) \/ TapDone(j)
  PROVE  JournalInv' /\ Remembers
<1>1. j \in Job BY CurrentJob
<1>2. j.status \notin EthSteps \cup {"error"}
  BY DEF PollGuardians, AutoRedeem, PrepareTap, TapDone, EthSteps, PreSteps, TailSteps
<1>3. UNCHANGED <<held, lastId, network>>
  BY DEF PollGuardians, AutoRedeem, PrepareTap, TapDone
<1>4. \/ \E s, b : SaveJob([j EXCEPT !.status = s, !.needsTap = b])
      \/ \E b : SaveJob([j EXCEPT !.needsTap = b])
      \/ \E s : SaveJob([j EXCEPT !.status = s])
  BY Zenon DEF PollGuardians, AutoRedeem, PrepareTap, TapDone, Landed
<1>5. \E k : SaveJob(k) /\ SamePlace(j, k) BY <1>1, <1>4, ExceptSamePlace
<1> QED BY <1>2, <1>3, <1>5, OffChainSave DEF SamePlace

LEMMA ResetJournal ==
  ASSUME JournalInv, TypeInv', NEW j \in jobs, Reset(j) PROVE JournalInv' /\ Remembers
<1>1. j \in Job /\ Tidy(j) /\ j \in Records BY CurrentJob
<1> DEFINE k == [j EXCEPT !.released = TRUE]
<1>2. /\ jobs' = jobs \ {j} /\ past' = past \cup {k}
      /\ UNCHANGED <<held, lastId, network>> /\ j.pending = {} /\ j.confirmed = {}
  BY DEF Reset
<1>3. SamePlace(j, k) BY <1>1 DEF SamePlace, Job
<1> HIDE DEF k
<1>4. Evolves(j, k) BY <1>1, <1>2, <1>3, IdleEvolves DEF SamePlace
<1>5. j \notin past BY DEF JournalInv, Identity
<1>6. Replaces(j, k) BY <1>2, <1>5 DEF Replaces, Records
<1>7. Identity'
  BY <1>1, <1>2, <1>3, <1>6 DEF Identity, JournalInv, SamePlace, Replaces, Records
<1>8. mempool' = mempool /\ Mined' = Mined BY <1>2 DEF network, Mined
<1> QED BY <1>1, <1>2, <1>3, <1>4, <1>6, <1>7, <1>8, EvolveKeeps DEF SamePlace

-----------------------------------------------------------------------------
(* Entering and leaving the promise queue. *)

\* A step that changes neither the ledger nor the network.
LEMMA QueueKeeps ==
  ASSUME JournalInv, TypeInv', UNCHANGED <<ledger, network>>,
         \A h \in held' :
           /\ Tidy(h.new)
           /\ IF h.op = "start"
              THEN h.new.id = lastId + 1 /\ TxsOf(h.new) = {}
              ELSE \E j \in Records : Extends(j, h.new)
  PROVE  JournalInv' /\ Remembers
<1>1. Records' = Records /\ lastId' = lastId /\ jobs' = jobs /\ past' = past
  BY DEF ledger, Records
<1>2. Journaled' = Journaled /\ mempool' = mempool /\ Mined' = Mined
  BY <1>1 DEF Journaled, network, Mined, TxsOf
<1>3. Identity' BY <1>1 DEF JournalInv, Identity
<1>4. \A j, k : Extends(j, k)' <=> Extends(j, k) BY <1>2 DEF Extends, Fresh
<1>5. HeldKnown' BY <1>1, <1>4 DEF HeldKnown
<1>6. WriteAhead' /\ NonceUnique' BY <1>2 DEF JournalInv, WriteAhead, NonceUnique
<1>7. Remembers BY <1>1, SameRecordsRemember DEF JournalInv
<1> QED BY <1>1, <1>3, <1>5, <1>6, <1>7 DEF JournalInv

LEMMA AbortJournal ==
  ASSUME JournalInv, TypeInv', Abort \/ Crash PROVE JournalInv' /\ Remembers
<1>1. held' = {} /\ UNCHANGED <<ledger, network>> BY DEF Abort, Crash
<1> QED BY <1>1, QueueKeeps

LEMMA OfferQuoteJournal ==
  ASSUME JournalInv, TypeInv', NEW j \in jobs, OfferQuote(j) PROVE JournalInv' /\ Remembers
<1>1. held' = held /\ UNCHANGED <<ledger, network>> BY DEF OfferQuote
<1> QED BY <1>1, QueueKeeps DEF JournalInv, HeldKnown

LEMMA StartJournal ==
  ASSUME JournalInv, TypeInv', NEW a \in Accounts, NEW p \in Plans, Start(a, p)
  PROVE  JournalInv' /\ Remembers
<1> DEFINE new == NewJob(lastId + 1, a, p)
<1>1. held' = {[op |-> "start", new |-> new]} /\ UNCHANGED <<ledger, network>>
  BY DEF Start
<1>2. /\ new.id = lastId + 1 /\ new.pending = {} /\ new.confirmed = {} /\ new.receipts = {}
  BY DEF NewJob
<1> HIDE DEF new
<1>3. TxsOf(new) = {} BY <1>2 DEF TxsOf
<1>4. Tidy(new) BY <1>2, <1>3 DEF Tidy
<1> QED BY <1>1, <1>2, <1>3, <1>4, QueueKeeps

\* A held version with the job's own transactions.
LEMMA SameTxsExtends ==
  ASSUME NEW j, NEW k, SamePlace(j, k) PROVE Extends(j, k)
BY DEF SamePlace, Extends, TxsOf

LEMMA ApproveQuoteJournal ==
  ASSUME JournalInv, TypeInv', NEW j \in jobs, ApproveQuote(j) PROVE JournalInv' /\ Remembers
<1>1. j \in Job /\ Tidy(j) /\ j \in Records BY CurrentJob
<1>2. j.pending = {} /\ j.confirmed = {} BY DEF ApproveQuote, CanRequote
<1>3. UNCHANGED <<ledger, network>> BY DEF ApproveQuote
<1>4. \E p : held' = {[op |-> "requote",
               new |-> [j EXCEPT !.plan = p, !.status = j.failedAt, !.failedAt = "none",
                                 !.revision = @ + 1]]}
  BY Zenon DEF ApproveQuote
<1>5. PICK p : held' = {[op |-> "requote",
               new |-> [j EXCEPT !.plan = p, !.status = j.failedAt, !.failedAt = "none",
                                 !.revision = @ + 1]]}
  BY <1>4
<1> DEFINE new == [j EXCEPT !.plan = p, !.status = j.failedAt, !.failedAt = "none",
                            !.revision = @ + 1]
<1>6. SamePlace(j, new) BY <1>1 DEF SamePlace, Job
<1>7. held' = {[op |-> "requote", new |-> new]} BY <1>5
<1> HIDE DEF new
<1>8. Tidy(new) BY <1>1, <1>2, <1>6, IdleIsTidy DEF SamePlace
<1>9. Extends(j, new) BY <1>6, SameTxsExtends
<1> QED BY <1>1, <1>3, <1>7, <1>8, <1>9, QueueKeeps

\* The nonce the driver picks is past every one its ledger has journaled.
LEMMA NextNonceIsFresh ==
  ASSUME TypeInv, NEW t, NEW seen \in Counts(t.from), t.nonce \in NonceFloor(t.from, seen),
         IsNextNonce(t.nonce, t.from, seen)
  PROVE  Fresh(t)
<1>1. \A u \in Journaled : u.nonce \in Nat BY RecordsType
<1>2. \A u \in Mined : u \in Tx BY ChainType DEF TypeInv, Mined
<1>3. seen \in Nat BY <1>2 DEF Counts, Tx, TypeInv, TypeOK
<1>4. t.nonce \in Nat BY <1>1, <1>3 DEF NonceFloor
<1>5. ASSUME NEW u \in Journaled, u.from = t.from PROVE u.nonce < t.nonce
  <2>1. u.nonce + 1 \in NonceFloor(t.from, seen) BY <1>5 DEF NonceFloor
  <2>2. u.nonce + 1 <= t.nonce BY <2>1 DEF IsNextNonce
  <2> QED BY <1>1, <1>4, <2>2
<1> QED BY <1>5 DEF Fresh

LEMMA SendJournal ==
  ASSUME JournalInv, TypeInv', NEW j \in jobs, Send(j) PROVE JournalInv' /\ Remembers
<1>1. j \in Job /\ Tidy(j) /\ j \in Records BY CurrentJob
<1>2. j.pending = {} /\ j.confirmed = {} /\ j.status \in EthSteps BY DEF Send, Ready
<1>3. PICK c \in Terms(j), gas \in 1..j.plan.limit[j.status] :
        LET w == IF c.sponsored THEN Sponsor ELSE j.acct
        IN  \E seen \in Counts(w) : \E n \in NonceFloor(w, seen) :
              /\ IsNextNonce(n, w, seen)
              /\ held' = {[op |-> "send", new |-> [j EXCEPT !.pending =
                {[id |-> j.id, from |-> w, nonce |-> n, step |-> j.status,
                  sponsored |-> c.sponsored, value |-> c.value, advance |-> c.advance,
                  recovered |-> c.recovered, maxGas |-> gas]}]]}
  BY DEF Send
<1> DEFINE w == IF c.sponsored THEN Sponsor ELSE j.acct
<1>4. PICK seen \in Counts(w) : \E n \in NonceFloor(w, seen) :
        /\ IsNextNonce(n, w, seen)
        /\ held' = {[op |-> "send", new |-> [j EXCEPT !.pending =
          {[id |-> j.id, from |-> w, nonce |-> n, step |-> j.status,
            sponsored |-> c.sponsored, value |-> c.value, advance |-> c.advance,
            recovered |-> c.recovered, maxGas |-> gas]}]]}
  BY <1>3
<1>5. PICK n \in NonceFloor(w, seen) :
        /\ IsNextNonce(n, w, seen)
        /\ held' = {[op |-> "send", new |-> [j EXCEPT !.pending =
          {[id |-> j.id, from |-> w, nonce |-> n, step |-> j.status,
            sponsored |-> c.sponsored, value |-> c.value, advance |-> c.advance,
            recovered |-> c.recovered, maxGas |-> gas]}]]}
  BY <1>4
<1> HIDE DEF w
<1> DEFINE t == [id |-> j.id, from |-> w, nonce |-> n, step |-> j.status,
                 sponsored |-> c.sponsored, value |-> c.value, advance |-> c.advance,
                 recovered |-> c.recovered, maxGas |-> gas]
           new == [j EXCEPT !.pending = {t}]
<1>6. held' = {[op |-> "send", new |-> new]} BY <1>5
<1>7. t.id = j.id /\ t.from = w /\ t.nonce = n /\ t.step = j.status OBVIOUS
<1> HIDE DEF t
<1>8. Fresh(t) BY <1>5, <1>7, NextNonceIsFresh DEF JournalInv
<1>9. /\ new.id = j.id /\ new.acct = j.acct /\ new.status = j.status
      /\ new.pending = {t} /\ new.confirmed = j.confirmed /\ new.receipts = j.receipts
      /\ new.spent = j.spent /\ new.recovered = j.recovered
  BY <1>1 DEF Job
<1> HIDE DEF new
<1>10. TxsOf(new) = TxsOf(j) \cup {t} BY <1>2, <1>9 DEF TxsOf
<1>11. j.status # "error" BY <1>2, EthIsStatus
<1>12. Tidy(new)
  <2>1. At(new) = j.status BY <1>9, <1>11 DEF At
  <2>2. \A u \in TxsOf(new) : u.id = new.id BY <1>1, <1>7, <1>9, <1>10 DEF Tidy
  <2> QED BY <1>2, <1>7, <1>9, <2>1, <2>2 DEF Tidy
<1>13. Extends(j, new) BY <1>8, <1>9, <1>10 DEF Extends
<1>14. UNCHANGED <<ledger, network>> BY DEF Send
<1> QED BY <1>1, <1>6, <1>12, <1>13, <1>14, QueueKeeps

\* The save of what the queue holds: the one step that adds a transaction.
LEMMA CommitJournal ==
  ASSUME JournalInv, TypeInv', Commit PROVE JournalInv' /\ Remembers
<1>1. PICK h \in held :
        /\ SaveJob(h.new) /\ held' = {}
        /\ lastId' = IF h.op = "start" THEN h.new.id ELSE lastId
        /\ UNCHANGED network
  BY DEF Commit
<1>2. Identity /\ TypeInv /\ Tidy(h.new) BY DEF JournalInv, HeldKnown
<1>3. mempool' = mempool /\ Mined' = Mined /\ HeldKnown'
  BY <1>1 DEF network, Mined, HeldKnown
<1>4. CASE h.op = "start"
  <2>1. h.new.id = lastId + 1 /\ TxsOf(h.new) = {} BY <1>4 DEF JournalInv, HeldKnown
  <2>2. Records' = Records \cup {h.new} /\ Identity' BY <1>1, <1>2, <1>4, <2>1, SaveAdds
  <2>3. Journaled' = Journaled BY <2>1, <2>2 DEF Journaled, TxsOf
  <2>4. \A i \in Records' : Tidy(i) BY <1>2, <2>2 DEF JournalInv
  <2>5. WriteAhead' /\ NonceUnique' BY <1>3, <2>3 DEF JournalInv, WriteAhead, NonceUnique
  <2>6. Remembers BY <1>2, <2>2, SameRecordsRemember
  <2> QED BY <1>3, <2>2, <2>4, <2>5, <2>6 DEF JournalInv
<1>5. CASE h.op # "start"
  <2>1. PICK j \in Records : Extends(j, h.new) BY <1>5 DEF JournalInv, HeldKnown
  <2>2. lastId' = lastId /\ h.new.id = j.id /\ h.new.acct = j.acct
    BY <1>1, <1>5, <2>1 DEF Extends
  <2>3. Replaces(j, h.new) /\ Identity' BY <1>1, <1>2, <2>2, SaveReplaces
  <2>4. \A i \in Records' : Tidy(i) BY <1>2, <2>3 DEF JournalInv, Replaces
  <2>5. Journaled' = Journaled \cup (TxsOf(h.new) \ TxsOf(j))
    <3>1. Journaled' = UNION {TxsOf(i) : i \in Records'} BY DEF Journaled, TxsOf
    <3>2. TxsOf(j) \subseteq TxsOf(h.new) /\ TxsOf(j) \subseteq Journaled
      BY <2>1 DEF Extends, Journaled
    <3>3. \A t \in Journaled' : t \in Journaled \/ t \in TxsOf(h.new) \ TxsOf(j)
      BY <2>3, <3>1, <3>2 DEF Journaled, Replaces
    <3>4. \A t \in TxsOf(h.new) : t \in Journaled' BY <2>3, <3>1 DEF Replaces
    <3>5. \A t \in Journaled : t \in Journaled'
      <4>1. SUFFICES ASSUME NEW i \in Records, NEW t \in TxsOf(i) PROVE t \in Journaled'
        BY DEF Journaled
      <4>2. CASE i = j BY <3>2, <3>4, <4>2
      <4>3. CASE i # j BY <2>3, <3>1, <4>3 DEF Replaces
      <4> QED BY <4>2, <4>3
    <3> QED BY <3>3, <3>4, <3>5
  <2>6. WriteAhead' BY <1>3, <2>5 DEF JournalInv, WriteAhead
  <2>7. NonceUnique'
    <3>1. \A t, u \in TxsOf(h.new) \ TxsOf(j) : t = u BY <2>1 DEF Extends
    <3>2. \A t \in TxsOf(h.new) \ TxsOf(j), u \in Journaled :
            u.from = t.from => u.nonce # t.nonce
      BY <1>2, <2>1, RecordsType DEF Extends, Fresh
    <3>3. \A t, u \in Journaled : t.from = u.from /\ t.nonce = u.nonce => t = u
      BY DEF JournalInv, NonceUnique
    <3> QED BY <2>5, <3>1, <3>2, <3>3 DEF NonceUnique
  <2>8. Remembers
    <3>1. h.new.spent >= j.spent /\ h.new.recovered >= j.recovered
          /\ TxsOf(j) \subseteq TxsOf(h.new)
      BY <1>2, <2>1, RecordsType DEF Extends
    <3> QED BY <1>2, <2>2, <2>3, <3>1, ReplacedRemembers
  <2> QED BY <1>3, <2>3, <2>4, <2>6, <2>7, <2>8 DEF JournalInv
<1> QED BY <1>4, <1>5

-----------------------------------------------------------------------------
(* The network. *)

LEMMA NetworkKeeps ==
  ASSUME JournalInv, TypeInv', UNCHANGED <<ledger, held>>,
         mempool' \cup Mined' \subseteq Journaled
  PROVE  JournalInv' /\ Remembers
<1>1. Records' = Records /\ lastId' = lastId /\ jobs' = jobs /\ past' = past
  BY DEF ledger, Records
<1>2. Journaled' = Journaled BY <1>1 DEF Journaled, TxsOf
<1>3. Identity' BY <1>1 DEF JournalInv, Identity
<1>4. \A j, k : Extends(j, k)' <=> Extends(j, k) BY <1>2 DEF Extends, Fresh
<1>5. HeldKnown' BY <1>1, <1>4 DEF JournalInv, HeldKnown
<1>6. WriteAhead' /\ NonceUnique' BY <1>2 DEF JournalInv, WriteAhead, NonceUnique
<1>7. Remembers BY <1>1, SameRecordsRemember DEF JournalInv
<1> QED BY <1>1, <1>3, <1>5, <1>6, <1>7 DEF JournalInv

LEMMA BroadcastJournal ==
  ASSUME JournalInv, TypeInv', NEW j \in jobs, Broadcast(j) PROVE JournalInv' /\ Remembers
<1>1. j.pending \subseteq Journaled BY DEF Journaled, Records, TxsOf
<1>2. mempool' \subseteq mempool \cup j.pending /\ Mined' = Mined BY DEF Broadcast, Mined
<1>3. UNCHANGED <<ledger, held>> BY DEF Broadcast
<1> QED BY <1>1, <1>2, <1>3, NetworkKeeps DEF JournalInv, WriteAhead

LEMMA MineJournal ==
  ASSUME JournalInv, TypeInv', NEW t \in mempool, Mine(t) PROVE JournalInv' /\ Remembers
<1>1. PICK ok \in BOOLEAN, gas \in 1..t.maxGas :
        chain' = Append(chain, [tx |-> t, ok |-> ok, gas |-> gas])
  BY DEF Mine
<1> DEFINE e == [tx |-> t, ok |-> ok, gas |-> gas]
<1>2. Len(chain) \in Nat /\ chain \in Seq(Entry) BY LenIsNat DEF JournalInv, TypeInv
<1>3. t \in Tx /\ t.maxGas \in Nat BY DEF JournalInv, TypeInv, TypeOK, Tx
<1>4. e \in Entry /\ e.tx = t BY <1>1, <1>3 DEF Entry
<1>5. chain' = Append(chain, e) BY <1>1
<1> HIDE DEF e
<1>6. /\ Len(chain') = Len(chain) + 1
      /\ \A i \in 1..Len(chain) : chain'[i] = chain[i]
      /\ chain'[Len(chain) + 1] = e
  BY <1>2, <1>4, <1>5, AppendProperties
<1>7. \A i \in 1..Len(chain') : i \in 1..Len(chain) \/ i = Len(chain) + 1 BY <1>2, <1>6
<1>8. Mined' \subseteq Mined \cup {t} BY <1>4, <1>6, <1>7 DEF Mined
<1>9. mempool' \subseteq mempool /\ UNCHANGED <<ledger, held>> BY DEF Mine
<1> QED BY <1>8, <1>9, NetworkKeeps DEF JournalInv, WriteAhead

LEMMA ReorgJournal ==
  ASSUME JournalInv, TypeInv', Reorg PROVE JournalInv' /\ Remembers
<1>1. PICK n \in deep..(Len(chain) - 1) :
        /\ n \in 0..Len(chain) /\ Len(chain') = n
        /\ \A i \in 1..n : chain'[i] = chain[i]
        /\ mempool' = mempool \cup {chain[i].tx : i \in (n + 1)..Len(chain)}
  BY ReorgFacts DEF JournalInv
<1>2. Len(chain) \in Nat BY LenIsNat DEF JournalInv, TypeInv
<1>3. \A i \in 1..n : i \in 1..Len(chain) BY <1>1, <1>2
<1>4. Mined' \subseteq Mined BY <1>1, <1>3 DEF Mined
<1>5. \A i \in (n + 1)..Len(chain) : i \in 1..Len(chain) BY <1>1, <1>2
<1>6. mempool' \subseteq mempool \cup Mined BY <1>1, <1>5 DEF Mined
<1>7. UNCHANGED <<ledger, held>> BY DEF Reorg
<1> QED BY <1>4, <1>6, <1>7, NetworkKeeps DEF JournalInv, WriteAhead

LEMMA QuietNetworkJournal ==
  ASSUME JournalInv, TypeInv',
         Bury \/ (\E t \in mempool : Drop(t)) \/ UNCHANGED vars
  PROVE  JournalInv' /\ Remembers
<1>1. mempool' \subseteq mempool /\ chain' = chain /\ UNCHANGED <<ledger, held>>
  BY DEF Bury, Drop, vars, ledger
<1>2. Mined' = Mined BY <1>1 DEF Mined
<1> QED BY <1>1, <1>2, NetworkKeeps DEF JournalInv, WriteAhead

-----------------------------------------------------------------------------
(* The theorems. *)

LEMMA InitJournal == Init => JournalInv
BY InitTypes DEF Init, JournalInv, Identity, HeldKnown, WriteAhead, NonceUnique,
   Records, Mined, Journaled

LEMMA NextJournal ==
  ASSUME JournalInv, [Next]_vars PROVE JournalInv' /\ Remembers
<1>0. TypeInv' BY NextTypes DEF JournalInv
<1>1. CASE \E a \in Accounts, p \in Plans : Start(a, p) BY <1>0, <1>1, StartJournal
<1>2. CASE Commit BY <1>0, <1>2, CommitJournal
<1>3. CASE Abort \/ Crash BY <1>0, <1>3, AbortJournal
<1>4. CASE \E j \in jobs : JobStep(j)
  <2>1. PICK j \in jobs : JobStep(j) BY <1>4
  <2>2. CASE Skip(j) BY <1>0, <2>2, SkipJournal
  <2>3. CASE Send(j) BY <1>0, <2>3, SendJournal
  <2>4. CASE Broadcast(j) BY <1>0, <2>4, BroadcastJournal
  <2>5. CASE Confirm(j) BY <1>0, <2>5, ConfirmJournal
  <2>6. CASE CrashInConfirm(j) BY <1>0, <2>6, CrashInConfirmJournal
  <2>7. CASE Finish(j) BY <1>0, <2>7, FinishJournal
  <2>8. CASE Fail(j) BY <1>0, <2>8, FailJournal
  <2>9. CASE Resume(j) BY <1>0, <2>9, ResumeJournal
  <2>10. CASE OfferQuote(j) BY <1>0, <2>10, OfferQuoteJournal
  <2>11. CASE ApproveQuote(j) BY <1>0, <2>11, ApproveQuoteJournal
  <2>12. CASE Reset(j) BY <1>0, <2>12, ResetJournal
  <2>13. CASE SolSend(j) \/ SolExpire(j) \/ SolNext(j) BY <1>0, <2>13, SolJournal
  <2>14. CASE PollGuardians(j) \/ AutoRedeem(j) \/ PrepareTap(j) \/ TapDone(j)
    BY <1>0, <2>14, LandingJournal
  <2> QED BY <2>1, <2>2, <2>3, <2>4, <2>5, <2>6, <2>7, <2>8, <2>9, <2>10, <2>11,
             <2>12, <2>13, <2>14 DEF JobStep
<1>5. CASE \E t \in mempool : Mine(t) BY <1>0, <1>5, MineJournal
<1>6. CASE Bury \/ (\E t \in mempool : Drop(t)) \/ UNCHANGED vars
  BY <1>0, <1>6, QuietNetworkJournal
<1>7. CASE Reorg BY <1>0, <1>7, ReorgJournal
<1> QED BY <1>1, <1>2, <1>3, <1>4, <1>5, <1>6, <1>7 DEF Next

\* The journal invariant holds of every reachable state.
THEOREM JournalHolds == Spec => []JournalInv
<1>1. Init => JournalInv BY InitJournal
<1>2. JournalInv /\ [Next]_vars => JournalInv' BY NextJournal
<1> QED BY <1>1, <1>2, PTL DEF Spec

\* send() signs, journals and only then broadcasts (funding-v2.js:478-485), and
\* no later save, reset, crash or conversion loses the bytes: what the network
\* can mine, the ledger can replay.
THEOREM NothingUnjournaled == Spec => []WriteAhead
<1>1. JournalInv => WriteAhead BY DEF JournalInv
<1> QED BY <1>1, JournalHolds, PTL

\* send() takes a nonce past every journaled one (funding-v2.js:470-477), under
\* the promise queue: no two signed transactions of a wallet compete for one,
\* whatever lagging nodes answer.
THEOREM NoNonceReused == Spec => []NonceUnique
<1>1. JournalInv => NonceUnique BY DEF JournalInv
<1> QED BY <1>1, JournalHolds, PTL

\* Every save (funding.js:605, reset at :871) keeps each record, its journal and
\* the sponsor money it has counted.
THEOREM NothingIsForgotten == Spec => NothingForgotten
<1>1. JournalInv /\ [Next]_vars =>
        [\A j \in Records : \E k \in Records' :
           /\ k.id = j.id
           /\ TxsOf(j) \subseteq TxsOf(k)
           /\ k.spent >= j.spent /\ k.recovered >= j.recovered]_vars
  BY NextJournal DEF Remembers
<1> QED BY <1>1, JournalHolds, PTL DEF Spec, NothingForgotten

-----------------------------------------------------------------------------
(* Settlement: no step that moves money succeeds twice; nothing of the     *)
(* conversion is sent before the sponsor is repaid; a job that waits for   *)
(* the bridge has a deposit there.  The invariant behind this orders the   *)
(* steps: a step that has succeeded is behind its job, a job never goes    *)
(* back, and what its receipts say the chain says.                         *)

\* How far a step is down the pipeline.  The steps after the stable swap share a
\* place: a lapsed Permit2 allowance sends the last swap back to approve_ur.
Rank(s) ==
  CASE s \in SolSteps                             -> 0
    [] s = "front_gas"                            -> 1
    [] s = "gas_approve_reset"                    -> 2
    [] s = "gas_approve"                          -> 3
    [] s = "gas_buy_eth"                          -> 4
    [] s = "wh_redeem"                            -> 5
    [] s = "collect_fee"                          -> 6
    [] s = "approve_v3_usdc"                      -> 7
    [] s \in {"swap_usdc_usdt", "swap_eth_usdt"}  -> 8
    [] s \in PermitSteps                          -> 9
    [] s = "approve_bridge"                       -> 10
    [] s \in BridgeSteps                          -> 11
    [] OTHER                                      -> 12

PastSettlement(j) == Rank(At(j)) > Rank("collect_fee")
AfterDeposit == LandSteps \cup {"done", "request_signatures"}

\* The receipts of the steps that moved money.
Paid(j) == {r \in j.receipts : r.ok /\ r.tx.step \in SpendSteps}

Deposited(j) == \E r \in j.receipts : r.ok /\ r.tx.step \in BridgeSteps
Collected(j) == \E r \in j.receipts : r.ok /\ r.tx.step = "collect_fee"

\* What moved money is behind the job, or waits for finish() to put it behind.
Behind(j) ==
  /\ \A r \in Paid(j) : r \in j.confirmed \/ Rank(r.tx.step) < Rank(At(j))
  /\ \A q, r \in Paid(j) : q.tx.step = r.tx.step => q = r

\* Only steps before the settlement cost the sponsor money; the settlement in
\* flight, and nothing else, repays all of it.
Priced(j) ==
  /\ \A t \in j.pending :
       /\ t.sponsored => t.step \in {"front_gas", "wh_redeem"}
       /\ t.recovered = IF t.step = "collect_fee" THEN Debt(j) ELSE 0
  /\ \A r \in j.confirmed : r.ok /\ r.tx.step = "collect_fee" => Debt(j) = 0
  /\ j.recovered > 0 => Collected(j)

\* A borrowing job buys gas; tail steps and the settled mark come after the fee.
Ordered(j) ==
  /\ At(j) = "front_gas" => j.plan.pre # << >>
  /\ j.settled => PastSettlement(j)
  /\ \A t \in TxsOf(j) : t.step \in TailSteps => PastSettlement(j)

\* What a process that never dies between the two saves of confirmed() also keeps.
Whole(j) ==
  /\ \A r \in j.confirmed : r.ok
  /\ PastSettlement(j) => Repaid(j)
  /\ At(j) \in AfterDeposit => Deposited(j)

Sound(j) == Behind(j) /\ Priced(j) /\ Ordered(j) /\ (TornConfirm \/ Whole(j))

\* A receipt is of a transaction that has the configured confirmations.
Backed(j) ==
  \A r \in j.receipts : \E i \in 1..deep : chain[i].tx = r.tx /\ chain[i].ok = r.ok

\* The chain executes a wallet's transactions in the order of their nonces.
ChainOrdered ==
  \A m, n \in 1..Len(chain) :
    m < n /\ chain[m].tx.from = chain[n].tx.from => chain[m].tx.nonce < chain[n].tx.nonce

SettlementInv ==
  /\ JournalInv
  /\ \A j \in Records : Sound(j) /\ Backed(j)
  /\ \A h \in held : Sound(h.new) /\ Backed(h.new)
  /\ ChainOrdered

-----------------------------------------------------------------------------
(* The order of the steps. *)

LEMMA RankType == \A s : Rank(s) \in Nat
BY DEF Rank

LEMMA RankOfSteps ==
  /\ Rank("sol_swap") = 0 /\ Rank("sol_bridge") = 0 /\ Rank("awaiting_vaa") = 0
  /\ Rank("front_gas") = 1
  /\ Rank("gas_approve_reset") = 2 /\ Rank("gas_approve") = 3 /\ Rank("gas_buy_eth") = 4
  /\ Rank("wh_redeem") = 5 /\ Rank("collect_fee") = 6
  /\ Rank("approve_v3_usdc") = 7
  /\ Rank("swap_usdc_usdt") = 8 /\ Rank("swap_eth_usdt") = 8
  /\ \A s \in PermitSteps : Rank(s) = 9
  /\ Rank("approve_bridge") = 10
  /\ \A s \in BridgeSteps : Rank(s) = 11
  /\ \A s \in AfterDeposit : Rank(s) = 12
BY DEF Rank, SolSteps, PermitSteps, BridgeSteps, AfterDeposit, LandSteps

LEMMA RankOfGroups ==
  /\ \A s \in PreSteps : Rank(s) > 1 /\ Rank(s) < 6
  /\ \A s \in TailSteps : Rank(s) > 6
  /\ \A s \in EthSteps : Rank(s) > 6 => s \in TailSteps \/ s = "request_signatures"
  /\ \A s \in Status : s \in AfterDeposit => s \notin SpendSteps
BY RankOfSteps DEF PreSteps, TailSteps, EthSteps, PermitSteps, BridgeSteps, AfterDeposit,
   LandSteps, SpendSteps

\* finish() never goes back, and puts a step that moved money behind the job.
LEMMA FinishGoesOn ==
  ASSUME NEW p \in Plan, Shaped(p), NEW s \in EthSteps, s = "front_gas" => p.pre # << >>
  PROVE  /\ Rank(FinishTo(s, p)) >= Rank(s)
         /\ s \in SpendSteps => Rank(FinishTo(s, p)) > Rank(s)
         /\ FinishTo(s, p) # "front_gas"
         /\ Rank(FinishTo(s, p)) > 6 => Rank(s) > 6 \/ s = "collect_fee"
         /\ FinishTo(s, p) \in AfterDeposit => s \in BridgeSteps \/ s = "request_signatures"
<1>1. Head(p.tail) \in TailSteps BY PlanSteps
<1>2. p.pre # << >> => Head(p.pre) \in PreSteps BY PlanSteps
<1>3. AfterStableSwap(p.tail) \in PermitSteps BY DEF AfterStableSwap, PermitSteps
<1>4. CASE s = "front_gas"
  <2>1. FinishTo(s, p) = Head(p.pre) BY <1>4 DEF FinishTo
  <2> QED BY <1>2, <1>4, <2>1, RankOfSteps, RankOfGroups DEF PreSteps, AfterDeposit, LandSteps, BridgeSteps
<1>5. CASE s = "collect_fee"
  <2>1. FinishTo(s, p) \in TailSteps BY <1>1, <1>5 DEF FinishTo
  <2>2. Rank(FinishTo(s, p)) > 6 /\ Rank(s) = 6 BY <1>5, <2>1, RankOfSteps, RankOfGroups
  <2>3. FinishTo(s, p) # "front_gas" /\ FinishTo(s, p) \notin AfterDeposit
    BY <2>1 DEF TailSteps, AfterDeposit, LandSteps
  <2> QED BY <1>5, <2>2, <2>3, RankType
<1>6. CASE s \in {"swap_usdc_usdt", "swap_eth_usdt"}
  <2>1. FinishTo(s, p) = AfterStableSwap(p.tail) BY <1>6 DEF FinishTo
  <2> QED BY <1>3, <1>6, <2>1, RankOfSteps DEF PermitSteps, AfterDeposit, LandSteps, BridgeSteps
<1>7. CASE s \notin {"front_gas", "collect_fee", "swap_usdc_usdt", "swap_eth_usdt"}
  BY <1>7, RankOfSteps DEF FinishTo, EthSteps, PreSteps, TailSteps, SpendSteps, PermitSteps,
     BridgeSteps, AfterDeposit, LandSteps
<1> QED BY <1>4, <1>5, <1>6, <1>7

\* A step that need not be sent is passed over forwards.
LEMMA SkipGoesOn ==
  ASSUME NEW p \in Plan, Shaped(p), NEW from, NEW to, <<from, to>> \in Skips(p)
  PROVE  /\ Rank(to) >= Rank(from) /\ to # "front_gas" /\ to \notin AfterDeposit
         /\ Rank(to) > 6 => Rank(from) > 6
<1>1. p.pre # << >> => Head(p.pre) \in PreSteps BY PlanSteps
<1>2. CASE p.pre # << >> /\ from = "front_gas" /\ to = Head(p.pre)
  BY <1>1, <1>2, RankOfSteps, RankOfGroups DEF PreSteps, AfterDeposit, LandSteps
<1>3. CASE ~(p.pre # << >> /\ from = "front_gas" /\ to = Head(p.pre))
  BY <1>3, RankOfSteps DEF Skips, PermitSteps, BridgeSteps, AfterDeposit, LandSteps
<1> QED BY <1>2, <1>3

-----------------------------------------------------------------------------
(* What the saves do to a job, as records. *)

LEMMA DebtOfBooks ==
  ASSUME NEW j, NEW k, k.spent = j.spent, k.recovered = j.recovered
  PROVE  Debt(k) = Debt(j)
BY DEF Debt

\* The same transactions, money and plan, and the same place.
SameBooks(j, k) ==
  /\ SamePlace(j, k)
  /\ k.plan.pre = j.plan.pre /\ k.plan.service = j.plan.service
  /\ k.settled = j.settled

LEMMA StaysSound ==
  ASSUME NEW j, NEW k, Sound(j), SameBooks(j, k), At(k) = At(j)
  PROVE  Sound(k)
<1>1. Debt(k) = Debt(j) BY DebtOfBooks DEF SameBooks, SamePlace
<1>2. Behind(k) BY DEF Sound, SameBooks, SamePlace, Behind, Paid
<1>3. Priced(k) BY <1>1 DEF Sound, SameBooks, SamePlace, Priced, Collected
<1>4. Ordered(k) BY DEF Sound, SameBooks, SamePlace, Ordered, TxsOf, PastSettlement
<1>5. Whole(j) => Whole(k)
  BY <1>1 DEF SameBooks, SamePlace, Whole, Repaid, Deposited, PastSettlement
<1> QED BY <1>2, <1>3, <1>4, <1>5 DEF Sound

\* A job goes on: nothing is in flight, and what its receipt paid for is behind.
LEMMA GoesOnSound ==
  ASSUME NEW j, NEW k, Sound(j), j.pending = {}, k.pending = {}, k.confirmed = {},
         k.receipts = j.receipts, k.spent = j.spent, k.recovered = j.recovered,
         k.plan = j.plan, Rank(At(k)) >= Rank(At(j)),
         \A r \in Paid(j) : r \in j.confirmed => Rank(r.tx.step) < Rank(At(k)),
         At(k) # "front_gas", k.settled => PastSettlement(k),
         TornConfirm \/ (PastSettlement(k) => Repaid(j)),
         TornConfirm \/ (At(k) \in AfterDeposit => Deposited(j))
  PROVE  Sound(k)
<1>1. Debt(k) = Debt(j) BY DebtOfBooks
<1>2. Rank(At(k)) \in Nat /\ Rank(At(j)) \in Nat /\ Rank("collect_fee") \in Nat
      /\ \A s : Rank(s) \in Nat
  BY RankType
<1>3. Behind(k)
  <2>1. Paid(k) = Paid(j) BY DEF Paid
  <2>2. \A r \in Paid(j) : Rank(r.tx.step) < Rank(At(k))
    BY <1>2 DEF Sound, Behind
  <2> QED BY <2>1, <2>2 DEF Sound, Behind
<1>4. Priced(k) BY DEF Sound, Priced, Collected
<1>5. Ordered(k)
  <2>1. TxsOf(k) = TxsOf(j) BY DEF TxsOf
  <2>2. PastSettlement(j) => PastSettlement(k) BY <1>2 DEF PastSettlement
  <2> QED BY <2>1, <2>2 DEF Sound, Ordered
<1>6. TornConfirm \/ Whole(k)
  BY <1>1 DEF Whole, Repaid, Deposited
<1> QED BY <1>3, <1>4, <1>5, <1>6 DEF Sound

\* The totals after a receipt.
LEMMA ReceiptTotals ==
  ASSUME NEW j \in Job, NEW r \in Receipt, NEW gas \in Nat, NEW k,
         k.spent = j.spent + SpentOf(r.tx, r.ok, gas),
         k.recovered = j.recovered + RecoveredOf(r.tx, r.ok, gas)
  PROVE  /\ ~r.tx.sponsored => k.spent = j.spent
         /\ ~r.tx.sponsored /\ Debt(j) = 0 => Debt(k) = 0
         /\ ~r.tx.sponsored /\ r.ok /\ r.tx.recovered = Debt(j) => Debt(k) = 0
         /\ k.recovered > 0 => j.recovered > 0 \/ (r.ok /\ r.tx.recovered > 0)
<1>1. j.spent \in Nat /\ j.recovered \in Nat BY JobFields
<1>2. r.tx.recovered \in Nat /\ r.ok \in BOOLEAN BY DEF Receipt, Tx
<1>3. ~r.tx.sponsored => SpentOf(r.tx, r.ok, gas) = 0 BY DEF SpentOf
<1>4. RecoveredOf(r.tx, r.ok, gas) \in Nat BY <1>2 DEF RecoveredOf
<1>5. r.ok => RecoveredOf(r.tx, r.ok, gas) = r.tx.recovered BY DEF RecoveredOf
<1>6. ~r.ok => RecoveredOf(r.tx, r.ok, gas) = 0 BY DEF RecoveredOf
<1>7. ~r.tx.sponsored => k.spent = j.spent BY <1>1, <1>3
<1>8. ~r.tx.sponsored /\ Debt(j) = 0 => Debt(k) = 0
  BY <1>1, <1>4, <1>7 DEF Debt, Shortfall
<1>9. ~r.tx.sponsored /\ r.ok /\ r.tx.recovered = Debt(j) => Debt(k) = 0
  <2>1. r.ok /\ r.tx.recovered = Debt(j) => k.recovered = j.recovered + Debt(j) BY <1>5
  <2>2. k.spent = j.spent /\ k.recovered = j.recovered + Debt(j) => Debt(k) = 0
    BY <1>1 DEF Debt, Shortfall
  <2> QED BY <1>7, <2>1, <2>2
<1>10. k.recovered > 0 => j.recovered > 0 \/ (r.ok /\ r.tx.recovered > 0)
  BY <1>1, <1>2, <1>5, <1>6
<1> QED BY <1>7, <1>8, <1>9, <1>10

\* Receipt r of the job's transaction is recorded; confirmed() keeps it for
\* finish(), or drops it with the error a revert leads to.
LEMMA RecordSound ==
  ASSUME NEW j \in Job, Tidy(j), Sound(j), NEW r \in Receipt, r.tx \in j.pending,
         NEW gas \in Nat, NEW k,
         k.pending = {}, k.confirmed = {r} \/ (k.confirmed = {} /\ ~r.ok),
         k.receipts = j.receipts \cup {r},
         k.spent = j.spent + SpentOf(r.tx, r.ok, gas),
         k.recovered = j.recovered + RecoveredOf(r.tx, r.ok, gas),
         k.plan = j.plan, k.settled = j.settled, At(k) = At(j),
         TornConfirm \/ r.ok \/ k.confirmed = {}
  PROVE  Sound(k)
<1>1. j.pending = {r.tx} /\ j.confirmed = {} /\ r.tx.step = At(j) BY DEF Tidy
<1>2. \A q \in Paid(j) : Rank(q.tx.step) < Rank(At(j)) BY <1>1 DEF Sound, Behind
<1>3. Rank(At(j)) \in Nat /\ Rank("collect_fee") \in Nat BY RankType
<1>4. r \in Paid(k) => r \in k.confirmed BY DEF Paid
<1>5. Behind(k)
  <2>1. \A q \in Paid(k) : q \in Paid(j) \/ q = r BY DEF Paid
  <2>2. \A q \in Paid(j) : q.tx.step # r.tx.step BY <1>1, <1>2, <1>3
  <2> QED BY <1>2, <1>4, <2>1, <2>2 DEF Sound, Behind
<1>6. /\ ~r.tx.sponsored => k.spent = j.spent
      /\ ~r.tx.sponsored /\ Debt(j) = 0 => Debt(k) = 0
      /\ ~r.tx.sponsored /\ r.ok /\ r.tx.recovered = Debt(j) => Debt(k) = 0
      /\ k.recovered > 0 => j.recovered > 0 \/ (r.ok /\ r.tx.recovered > 0)
  BY ReceiptTotals
<1>7. /\ r.tx.sponsored => r.tx.step \in {"front_gas", "wh_redeem"}
      /\ r.tx.recovered = IF r.tx.step = "collect_fee" THEN Debt(j) ELSE 0
  BY DEF Sound, Priced
<1>8. Priced(k)
  <2>1. \A q \in k.confirmed : q.ok /\ q.tx.step = "collect_fee" => Debt(k) = 0
    BY <1>6, <1>7
  <2>2. k.recovered > 0 => Collected(k)
    <3>1. Collected(j) => Collected(k) BY DEF Collected
    <3>2. r.ok /\ r.tx.recovered > 0 => Collected(k) BY <1>7 DEF Collected
    <3> QED BY <1>6, <3>1, <3>2 DEF Sound, Priced
  <2> QED BY <2>1, <2>2 DEF Priced
<1>9. Ordered(k)
  <2>1. TxsOf(k) = TxsOf(j) BY <1>1 DEF TxsOf
  <2> QED BY <2>1 DEF Sound, Ordered, PastSettlement
<1>10. ASSUME Whole(j), r.ok \/ k.confirmed = {} PROVE Whole(k)
  <2>1. \A q \in k.confirmed : q.ok BY <1>10
  <2>2. ASSUME PastSettlement(k) PROVE Repaid(k)
    <3>1. PastSettlement(j) /\ Repaid(j) BY <1>10, <2>2 DEF Whole, PastSettlement
    <3>2. ~r.tx.sponsored BY <1>1, <1>7, <3>1, RankOfSteps DEF PastSettlement
    <3> QED BY <1>6, <3>1, <3>2 DEF Repaid
  <2>3. At(k) \in AfterDeposit => Deposited(k) BY <1>10 DEF Whole, Deposited
  <2> QED BY <2>1, <2>2, <2>3 DEF Whole
<1>11. TornConfirm \/ Whole(k) BY <1>10 DEF Sound
<1> QED BY <1>5, <1>8, <1>9, <1>11 DEF Sound

-----------------------------------------------------------------------------
(* The actions, one by one. *)

LEMMA BackedStays ==
  ASSUME \A i \in 1..deep : i \in 1..deep' /\ chain'[i] = chain[i], NEW j, Backed(j)
  PROVE  Backed(j)'
BY DEF Backed

LEMMA SaveSettles ==
  ASSUME SettlementInv, JournalInv', NEW k, SaveJob(k), Sound(k), Backed(k),
         held' \subseteq held, UNCHANGED network
  PROVE  SettlementInv'
<1>1. chain' = chain /\ deep' = deep BY DEF network
<1>2. \A i : Backed(i)' <=> Backed(i) BY <1>1 DEF Backed
<1>3. \A i \in Records' : i \in Records \/ i = k BY DEF SaveJob, Records
<1>4. ChainOrdered' BY <1>1 DEF SettlementInv, ChainOrdered
<1> QED BY <1>2, <1>3, <1>4 DEF SettlementInv

LEMMA QueueSettles ==
  ASSUME SettlementInv, JournalInv', UNCHANGED <<ledger, network>>,
         \A h \in held' : Sound(h.new) /\ Backed(h.new)
  PROVE  SettlementInv'
<1>1. chain' = chain /\ deep' = deep /\ Records' = Records BY DEF network, ledger, Records
<1>2. \A i : Backed(i)' <=> Backed(i) BY <1>1 DEF Backed
<1>3. ChainOrdered' BY <1>1 DEF SettlementInv, ChainOrdered
<1> QED BY <1>1, <1>2, <1>3 DEF SettlementInv

LEMMA NetworkSettles ==
  ASSUME SettlementInv, JournalInv', UNCHANGED <<ledger, held>>, ChainOrdered',
         \A i \in 1..deep : i \in 1..deep' /\ chain'[i] = chain[i]
  PROVE  SettlementInv'
<1>1. Records' = Records /\ held' = held BY DEF ledger, Records
<1>2. \A i : Backed(i) => Backed(i)' BY BackedStays
<1> QED BY <1>1, <1>2 DEF SettlementInv

LEMMA CurrentIsSound ==
  ASSUME SettlementInv, NEW j \in jobs
  PROVE  /\ j \in Job /\ j.plan \in Plan /\ Shaped(j.plan) /\ Tidy(j)
         /\ Sound(j) /\ Backed(j)
<1>1. j \in Records /\ JournalInv BY DEF SettlementInv, Records
<1>2. j \in Good /\ j \in Job /\ Tidy(j) BY <1>1, CurrentJob
<1> QED BY <1>1, <1>2, GoodFields DEF SettlementInv

LEMMA SameReceiptsBacked ==
  ASSUME NEW j, NEW k, k.receipts = j.receipts, Backed(j) PROVE Backed(k)
BY DEF Backed

LEMMA MoveFields ==
  ASSUME NEW j \in Job, NEW s
  PROVE  /\ Move(j, s).status = s
         /\ Move(j, s).pending = {} /\ Move(j, s).confirmed = {}
         /\ Move(j, s).receipts = j.receipts /\ Move(j, s).plan = j.plan
         /\ Move(j, s).spent = j.spent /\ Move(j, s).recovered = j.recovered
         /\ Move(j, s).settled = j.settled
BY DEF Move, Job

LEMMA SettleFields ==
  ASSUME NEW j \in Job
  PROVE  /\ Settle(j) \in Job /\ Settle(j).settled = TRUE
         /\ Settle(j).receipts = j.receipts /\ Settle(j).plan = j.plan
         /\ Settle(j).spent = j.spent /\ Settle(j).recovered = j.recovered
BY DEF Settle, Job

\* With nothing due at the settlement, nothing is owed: either an earlier payment
\* of it is on the chain, or the sponsor has spent nothing on the job.
LEMMA NothingDue ==
  ASSUME NEW j \in Job, Priced(j), Due(j) = 0 PROVE Repaid(j)
<1>1. j.spent \in Nat /\ j.recovered \in Nat /\ j.plan \in Plan BY JobFields
<1>2. j.plan.service \in Nat /\ j.plan.riskBps \in Nat BY <1>1, PlanFields
<1>3. Debt(j) \in Nat BY DueType
<1>4. Premium(j) \in Nat BY <1>1, <1>2, BpsType DEF Premium
<1>5. Debt(j) = 0 /\ j.plan.service = 0 BY <1>2, <1>3, <1>4 DEF Due
<1>6. CASE Collected(j) BY <1>5, <1>6 DEF Repaid, Collected
<1>7. CASE ~Collected(j)
  <2>1. j.recovered = 0 BY <1>1, <1>7 DEF Priced
  <2>2. j.spent = 0 BY <1>1, <1>5, <2>1 DEF Debt, Shortfall
  <2> QED BY <1>5, <2>2 DEF Repaid
<1> QED BY <1>6, <1>7

LEMMA SkipSettles ==
  ASSUME SettlementInv, JournalInv', NEW j \in jobs, Skip(j) PROVE SettlementInv'
<1>1. j \in Job /\ j.plan \in Plan /\ Shaped(j.plan) /\ Sound(j) /\ Backed(j)
  BY CurrentIsSound
<1>2. j.pending = {} /\ j.confirmed = {} /\ j.status \in EthSteps BY DEF Skip, Ready
<1>3. At(j) = j.status BY <1>2, EthIsStatus DEF At
<1>4. held' = held /\ UNCHANGED network BY DEF Skip
<1>5. CASE \E s \in EthSteps : <<j.status, s>> \in Skips(j.plan) /\ SaveJob(Move(j, s))
  <2>1. PICK s \in EthSteps : <<j.status, s>> \in Skips(j.plan) /\ SaveJob(Move(j, s))
    BY <1>5
  <2> DEFINE k == Move(j, s)
  <2>2. /\ k.status = s /\ k.pending = {} /\ k.confirmed = {}
        /\ k.receipts = j.receipts /\ k.plan = j.plan
        /\ k.spent = j.spent /\ k.recovered = j.recovered /\ k.settled = j.settled
    BY <1>1, MoveFields
  <2>3. SaveJob(k) BY <2>1
  <2> HIDE DEF k
  <2>4. At(k) = s BY <2>2, EthIsStatus DEF At
  <2>5. /\ Rank(s) >= Rank(j.status) /\ s # "front_gas" /\ s \notin AfterDeposit
        /\ Rank(s) > 6 => Rank(j.status) > 6
    BY <1>1, <2>1, SkipGoesOn
  <2>6. Rank(s) \in Nat /\ Rank(j.status) \in Nat /\ Rank("collect_fee") = 6
    BY RankType, RankOfSteps
  <2>7. k.settled => PastSettlement(k)
    BY <1>1, <1>3, <2>2, <2>4, <2>5, <2>6 DEF Sound, Ordered, PastSettlement
  <2>8. TornConfirm \/ (PastSettlement(k) => Repaid(j))
    BY <1>1, <1>3, <2>4, <2>5, <2>6 DEF Sound, Whole, PastSettlement
  <2>9. Sound(k)
    BY <1>1, <1>2, <1>3, <2>2, <2>4, <2>5, <2>7, <2>8, GoesOnSound
  <2>10. Backed(k) BY <1>1, <2>2, SameReceiptsBacked
  <2> QED BY <1>4, <2>3, <2>9, <2>10, SaveSettles
<1>6. CASE /\ j.status = "collect_fee"
           /\ j.settled \/ Due(j) = 0
           /\ SaveJob(Move(Settle(j), Head(j.plan.tail)))
  <2> DEFINE s == Head(j.plan.tail)
             k == Move(Settle(j), s)
  <2>1. s \in TailSteps BY <1>1, PlanSteps
  <2>2. /\ k.status = s /\ k.pending = {} /\ k.confirmed = {}
        /\ k.receipts = j.receipts /\ k.plan = j.plan
        /\ k.spent = j.spent /\ k.recovered = j.recovered
    <3> DEFINE i == Settle(j)
    <3>1. /\ i \in Job /\ i.receipts = j.receipts /\ i.plan = j.plan
          /\ i.spent = j.spent /\ i.recovered = j.recovered
      BY <1>1, SettleFields
    <3> HIDE DEF i
    <3> QED BY <3>1, MoveFields DEF i
  <2>3. SaveJob(k) BY <1>6
  <2> HIDE DEF k, s
  <2>4. At(k) = s BY <2>1, <2>2, StepsAreStatuses DEF At
  <2>5. Rank(s) > 6 /\ Rank("collect_fee") = 6 BY <2>1, RankOfGroups, RankOfSteps
  <2>6. PastSettlement(k) /\ Rank(At(k)) >= Rank(At(j))
    BY <1>3, <1>6, <2>4, <2>5, RankType DEF PastSettlement
  <2>7. ~j.settled
    BY <1>1, <1>3, <1>6, <2>5 DEF Sound, Ordered, PastSettlement
  <2>8. Repaid(j) BY <1>1, <1>6, <2>7, NothingDue DEF Sound
  <2>9. At(k) # "front_gas" /\ At(k) \notin AfterDeposit
    BY <2>1, <2>4 DEF TailSteps, AfterDeposit, LandSteps
  <2>10. Sound(k)
    BY <1>1, <1>2, <2>2, <2>6, <2>8, <2>9, GoesOnSound
  <2>11. Backed(k) BY <1>1, <2>2, SameReceiptsBacked
  <2> QED BY <1>4, <2>3, <2>10, <2>11, SaveSettles
<1> QED BY <1>5, <1>6 DEF Skip

LEMMA FinishSettles ==
  ASSUME SettlementInv, JournalInv', NEW j \in jobs, Finish(j) PROVE SettlementInv'
<1>1. /\ j \in Job /\ j.plan \in Plan /\ Shaped(j.plan) /\ Tidy(j)
      /\ Sound(j) /\ Backed(j)
  BY CurrentIsSound
<1>2. PICK r \in j.confirmed :
        SaveJob(Move(IF r.tx.step = "collect_fee" THEN Settle(j) ELSE j,
                     FinishTo(r.tx.step, j.plan)))
  BY DEF Finish
<1>3. held' = held /\ UNCHANGED network /\ j.status \in EthSteps BY DEF Finish
<1>4. At(j) = j.status BY <1>3, EthIsStatus DEF At
<1>5. r.tx.step = j.status /\ r \in j.receipts /\ j.pending = {}
      /\ \A q \in j.confirmed : q.tx.step = j.status
  BY <1>1, <1>2, <1>4 DEF Tidy
<1> DEFINE i == IF j.status = "collect_fee" THEN Settle(j) ELSE j
           s == FinishTo(j.status, j.plan)
           k == Move(i, s)
<1>6. SaveJob(k) BY <1>2, <1>5
<1>7. /\ i \in Job /\ i.receipts = j.receipts /\ i.plan = j.plan
      /\ i.spent = j.spent /\ i.recovered = j.recovered
      /\ i.settled => j.settled \/ j.status = "collect_fee"
  BY <1>1, SettleFields
<1>8. s \in Working BY <1>1, <1>3, FinishToType
<1>9. j.status = "front_gas" => j.plan.pre # << >> BY <1>1, <1>4 DEF Sound, Ordered
<1>10. /\ Rank(s) >= Rank(j.status)
       /\ j.status \in SpendSteps => Rank(s) > Rank(j.status)
       /\ s # "front_gas"
       /\ Rank(s) > 6 => Rank(j.status) > 6 \/ j.status = "collect_fee"
       /\ s \in AfterDeposit => j.status \in BridgeSteps \/ j.status = "request_signatures"
  BY <1>1, <1>3, <1>9, FinishGoesOn
<1> HIDE DEF i, s
<1>11. /\ k.status = s /\ k.pending = {} /\ k.confirmed = {}
       /\ k.receipts = j.receipts /\ k.plan = j.plan
       /\ k.spent = j.spent /\ k.recovered = j.recovered
       /\ k.settled => j.settled \/ j.status = "collect_fee"
  BY <1>7, MoveFields
<1> HIDE DEF k
<1>12. At(k) = s BY <1>8, <1>11 DEF At, Working
<1>13. Rank(s) \in Nat /\ Rank(j.status) \in Nat /\ Rank("collect_fee") = 6
  BY RankType, RankOfSteps
<1>14. \A q \in Paid(j) : q \in j.confirmed => Rank(q.tx.step) < Rank(s)
  BY <1>5, <1>10, <1>13 DEF Paid
<1>15. k.settled => PastSettlement(k)
  <2>1. CASE j.settled
    BY <1>1, <1>4, <1>10, <1>12, <1>13, <2>1 DEF Sound, Ordered, PastSettlement
  <2>2. CASE j.status = "collect_fee"
    <3>1. j.status \in SpendSteps BY <2>2 DEF SpendSteps
    <3> QED BY <1>10, <1>12, <1>13, <2>2, <3>1 DEF PastSettlement
  <2> QED BY <1>11, <2>1, <2>2
<1>16. ASSUME Whole(j), PastSettlement(k) PROVE Repaid(j)
  <2>1. CASE Rank(j.status) > 6
    BY <1>4, <1>13, <1>16, <2>1 DEF Whole, PastSettlement
  <2>2. CASE j.status = "collect_fee"
    <3>1. r.ok BY <1>2, <1>16 DEF Whole
    <3>2. Debt(j) = 0 BY <1>1, <1>2, <1>5, <2>2, <3>1 DEF Sound, Priced
    <3> QED BY <1>5, <2>2, <3>1, <3>2 DEF Repaid
  <2> QED BY <1>10, <1>12, <1>13, <1>16, <2>1, <2>2 DEF PastSettlement
<1>17. ASSUME Whole(j), s \in AfterDeposit PROVE Deposited(j)
  <2>1. CASE j.status \in BridgeSteps
    BY <1>2, <1>5, <1>17, <2>1 DEF Whole, Deposited
  <2>2. CASE j.status = "request_signatures"
    BY <1>4, <1>17, <2>2 DEF Whole, AfterDeposit
  <2> QED BY <1>10, <1>17, <2>1, <2>2
<1>18. TornConfirm \/ Whole(j) BY <1>1 DEF Sound
<1>19. Sound(k)
  BY <1>1, <1>4, <1>5, <1>10, <1>11, <1>12, <1>14, <1>15, <1>16, <1>17, <1>18, GoesOnSound
<1>20. Backed(k) BY <1>1, <1>11, SameReceiptsBacked
<1> QED BY <1>3, <1>6, <1>19, <1>20, SaveSettles

\* The receipt that confirmed() reads is of a final transaction.
LEMMA FinalIsBacked ==
  ASSUME NEW j, Backed(j), NEW e \in Final, NEW r, r.tx = e.tx, r.ok = e.ok,
         NEW k, k.receipts = j.receipts \cup {r}
  PROVE  Backed(k)
BY DEF Final, Backed

LEMMA RecordedFields ==
  ASSUME NEW j \in Job, NEW r \in Receipt, NEW gas \in Nat
  PROVE  LET k == Recorded(j, r, gas) IN
         /\ k \in Job
         /\ k.status = j.status /\ k.failedAt = j.failedAt
         /\ k.pending = {} /\ k.confirmed = {r} /\ k.receipts = j.receipts \cup {r}
         /\ k.spent = j.spent + SpentOf(r.tx, r.ok, gas)
         /\ k.recovered = j.recovered + RecoveredOf(r.tx, r.ok, gas)
         /\ k.plan = j.plan /\ k.settled = j.settled
<1>1. Recorded(j, r, gas) \in Job BY RecordedType
<1> QED BY <1>1 DEF Recorded, Job

LEMMA RevertedFields ==
  ASSUME NEW j \in Job
  PROVE  LET k == Reverted(j) IN
         /\ k.status = "error" /\ k.failedAt = j.status
         /\ k.pending = j.pending /\ k.confirmed = {} /\ k.receipts = j.receipts
         /\ k.spent = j.spent /\ k.recovered = j.recovered
         /\ k.plan = j.plan /\ k.settled = j.settled
BY DEF Reverted, Job

\* What is known of a job when the receipt of its transaction is read.
LEMMA ReceiptIsSound ==
  ASSUME NEW j \in Job, Tidy(j), Sound(j), Backed(j), j.status \in EthSteps,
         NEW e \in Final, e.tx \in j.pending, NEW r \in Receipt, r.tx = e.tx, r.ok = e.ok,
         NEW gas \in Nat
  PROVE  /\ TornConfirm \/ r.ok => Sound(Recorded(j, r, gas))
         /\ ~r.ok => Sound(Reverted(Recorded(j, r, gas)))
         /\ Backed(Recorded(j, r, gas)) /\ Backed(Reverted(Recorded(j, r, gas)))
<1> DEFINE k == Recorded(j, r, gas)
<1>1. /\ k \in Job /\ k.status = j.status /\ k.failedAt = j.failedAt
      /\ k.pending = {} /\ k.confirmed = {r} /\ k.receipts = j.receipts \cup {r}
      /\ k.spent = j.spent + SpentOf(r.tx, r.ok, gas)
      /\ k.recovered = j.recovered + RecoveredOf(r.tx, r.ok, gas)
      /\ k.plan = j.plan /\ k.settled = j.settled
  BY RecordedFields
<1> HIDE DEF k
<1> DEFINE i == Reverted(k)
<1>2. /\ i.status = "error" /\ i.failedAt = k.status
      /\ i.pending = k.pending /\ i.confirmed = {} /\ i.receipts = k.receipts
      /\ i.spent = k.spent /\ i.recovered = k.recovered
      /\ i.plan = k.plan /\ i.settled = k.settled
  BY <1>1, RevertedFields
<1> HIDE DEF i
<1>3. At(k) = At(j) /\ At(i) = At(j) BY <1>1, <1>2, EthIsStatus DEF At
<1>4. TornConfirm \/ r.ok => Sound(k) BY <1>1, <1>3, RecordSound
<1>5. ~r.ok => Sound(i)
  <2>1. i.pending = {} /\ i.receipts = j.receipts \cup {r}
        /\ i.spent = j.spent + SpentOf(r.tx, r.ok, gas)
        /\ i.recovered = j.recovered + RecoveredOf(r.tx, r.ok, gas)
        /\ i.plan = j.plan /\ i.settled = j.settled /\ i.confirmed = {}
    BY <1>1, <1>2
  <2> QED BY <1>3, <2>1, RecordSound
<1>6. Backed(k) /\ Backed(i) BY <1>1, <1>2, FinalIsBacked
<1> QED BY <1>4, <1>5, <1>6 DEF i, k

LEMMA ConfirmSettles ==
  ASSUME SettlementInv, JournalInv', NEW j \in jobs, Confirm(j) PROVE SettlementInv'
<1>1. j \in Job /\ Tidy(j) /\ Sound(j) /\ Backed(j) BY CurrentIsSound
<1>2. PICK e \in Final :
        /\ e.tx \in j.pending
        /\ LET k == Recorded(j, [tx |-> e.tx, ok |-> e.ok], e.gas)
           IN  SaveJob(IF e.ok THEN k ELSE Reverted(k))
  BY DEF Confirm
<1> DEFINE r == [tx |-> e.tx, ok |-> e.ok]
<1>3. r \in Receipt /\ r.tx = e.tx /\ r.ok = e.ok /\ e.gas \in Nat
  BY <1>2, FinalType DEF SettlementInv, JournalInv, TypeInv, Receipt
<1>4. held' = held /\ UNCHANGED network /\ j.status \in EthSteps BY DEF Confirm
<1>5. SaveJob(IF e.ok THEN Recorded(j, r, e.gas) ELSE Reverted(Recorded(j, r, e.gas)))
  BY <1>2
<1> HIDE DEF r
<1>6. /\ TornConfirm \/ r.ok => Sound(Recorded(j, r, e.gas))
      /\ ~r.ok => Sound(Reverted(Recorded(j, r, e.gas)))
      /\ Backed(Recorded(j, r, e.gas)) /\ Backed(Reverted(Recorded(j, r, e.gas)))
  BY <1>1, <1>2, <1>3, <1>4, ReceiptIsSound
<1>7. CASE e.ok BY <1>3, <1>4, <1>5, <1>6, <1>7, SaveSettles
<1>8. CASE ~e.ok BY <1>3, <1>4, <1>5, <1>6, <1>8, SaveSettles
<1> QED BY <1>7, <1>8

LEMMA CrashInConfirmSettles ==
  ASSUME SettlementInv, JournalInv', NEW j \in jobs, CrashInConfirm(j) PROVE SettlementInv'
<1>1. j \in Job /\ Tidy(j) /\ Sound(j) /\ Backed(j) BY CurrentIsSound
<1>2. PICK e \in Final :
        /\ e.tx \in j.pending /\ ~e.ok
        /\ jobs' = (jobs \ {j}) \cup {Recorded(j, [tx |-> e.tx, ok |-> FALSE], e.gas)}
  BY DEF CrashInConfirm
<1>3. TornConfirm /\ j.status \in EthSteps /\ held' = {} /\ past' = past
      /\ chain' = chain /\ deep' = deep
  BY DEF CrashInConfirm, network
<1> DEFINE r == [tx |-> e.tx, ok |-> FALSE]
           k == Recorded(j, r, e.gas)
<1>4. r \in Receipt /\ r.tx = e.tx /\ r.ok = e.ok /\ e.gas \in Nat
  <2>1. e.ok \in BOOLEAN /\ e.tx \in Tx /\ e.gas \in Nat
    BY FinalType DEF SettlementInv, JournalInv, TypeInv
  <2> QED BY <1>2, <2>1 DEF Receipt
<1>5. jobs' = (jobs \ {j}) \cup {k} BY <1>2
<1> HIDE DEF r
<1>6. Sound(k) /\ Backed(k) BY <1>1, <1>2, <1>3, <1>4, ReceiptIsSound
<1> HIDE DEF k
<1>7. \A i \in Records' : i \in Records \/ i = k BY <1>3, <1>5 DEF Records
<1>8. \A i : Backed(i)' <=> Backed(i) BY <1>3 DEF Backed
<1>9. ChainOrdered' BY <1>3 DEF SettlementInv, ChainOrdered
<1> QED BY <1>3, <1>6, <1>7, <1>8, <1>9 DEF SettlementInv

LEMMA FailSettles ==
  ASSUME SettlementInv, JournalInv', NEW j \in jobs, Fail(j) PROVE SettlementInv'
<1>1. j \in Job /\ Sound(j) /\ Backed(j) BY CurrentIsSound
<1> DEFINE k == [j EXCEPT !.status = "error", !.failedAt = j.status]
<1>2. SaveJob(k) /\ held' = held /\ UNCHANGED network BY DEF Fail
<1>3. SameBooks(j, k) /\ k.status = "error" /\ k.failedAt = j.status
  BY <1>1 DEF Job, SameBooks, SamePlace
<1>4. j.status # "error" BY StepsAreStatuses DEF Fail
<1> HIDE DEF k
<1>5. At(k) = At(j) BY <1>3, <1>4 DEF At
<1>6. Sound(k) BY <1>1, <1>3, <1>5, StaysSound
<1>7. Backed(k) BY <1>1, <1>3, SameReceiptsBacked DEF SameBooks, SamePlace
<1> QED BY <1>2, <1>6, <1>7, SaveSettles

LEMMA ResumeSettles ==
  ASSUME SettlementInv, JournalInv', NEW j \in jobs, Resume(j) PROVE SettlementInv'
<1>1. j \in Job /\ Tidy(j) /\ Sound(j) /\ Backed(j) BY CurrentIsSound
<1> DEFINE steps == {t.step : t \in j.pending} \cup {r.tx.step : r \in j.confirmed}
           To(from) == IF from = "awaiting_redeem" THEN "awaiting_signatures" ELSE from
           New(from) == [j EXCEPT !.status = To(from), !.failedAt = "none",
                           !.needsTap = IF To(from) = "awaiting_signatures" THEN FALSE ELSE @]
<1>2. PICK from \in IF steps # {} THEN steps ELSE {j.failedAt} : SaveJob(New(from))
  BY DEF Resume
<1>3. j.status = "error" /\ held' = held /\ UNCHANGED network BY DEF Resume
<1>4. At(j) = j.failedAt BY <1>3 DEF At
<1>5. from = At(j) BY <1>1, <1>2, <1>4 DEF Tidy
<1>6. j.failedAt \in Working
  BY <1>3, GoodFields DEF SettlementInv, JournalInv, TypeInv
<1> DEFINE k == New(from)
<1>7. SaveJob(k) BY <1>2
<1>8. SameBooks(j, k) /\ k.plan = j.plan /\ k.status = To(At(j))
  BY <1>1, <1>5 DEF Job, SameBooks, SamePlace
<1> HIDE DEF k, New
<1>9. CASE At(j) # "awaiting_redeem"
  <2>1. At(k) = At(j) BY <1>4, <1>6, <1>8, <1>9 DEF At, Working
  <2> QED BY <1>1, <1>3, <1>7, <1>8, <2>1, StaysSound, SameReceiptsBacked, SaveSettles
          DEF SameBooks, SamePlace
<1>10. CASE At(j) = "awaiting_redeem"
  <2>1. At(k) = "awaiting_signatures" BY <1>8, <1>10 DEF At
  <2>2. j.pending = {} /\ j.confirmed = {}
    BY <1>1, <1>10, OffChainIsIdle DEF EthSteps, PreSteps, TailSteps
  <2>3. Rank(At(j)) = 12 /\ Rank(At(k)) = 12 /\ Rank("collect_fee") = 6
        /\ At(j) \in AfterDeposit
    BY <1>10, <2>1, RankOfSteps DEF AfterDeposit, LandSteps
  <2>4. PastSettlement(k) /\ PastSettlement(j) BY <2>3 DEF PastSettlement
  <2>5. Sound(k)
    BY <1>1, <1>8, <2>1, <2>2, <2>3, <2>4, GoesOnSound
       DEF SameBooks, SamePlace, Sound, Whole
  <2> QED BY <1>1, <1>3, <1>7, <1>8, <2>5, SameReceiptsBacked, SaveSettles
          DEF SameBooks, SamePlace
<1> QED BY <1>9, <1>10

LEMMA ResetSettles ==
  ASSUME SettlementInv, JournalInv', NEW j \in jobs, Reset(j) PROVE SettlementInv'
<1>1. j \in Job /\ Sound(j) /\ Backed(j) BY CurrentIsSound
<1> DEFINE k == [j EXCEPT !.released = TRUE]
<1>2. /\ jobs' = jobs \ {j} /\ past' = past \cup {k}
      /\ held' = held /\ chain' = chain /\ deep' = deep
  BY DEF Reset, network
<1>3. SameBooks(j, k) /\ k.status = j.status /\ k.failedAt = j.failedAt
  BY <1>1 DEF SameBooks, SamePlace, Job
<1> HIDE DEF k
<1>4. At(k) = At(j) BY <1>3 DEF At
<1>5. Sound(k) BY <1>1, <1>3, <1>4, StaysSound
<1>6. Backed(k) BY <1>1, <1>3, SameReceiptsBacked DEF SameBooks, SamePlace
<1>7. \A i \in Records' : i \in Records \/ i = k BY <1>2 DEF Records
<1>8. \A i : Backed(i)' <=> Backed(i) BY <1>2 DEF Backed
<1>9. ChainOrdered' BY <1>2 DEF SettlementInv, ChainOrdered
<1> QED BY <1>2, <1>5, <1>6, <1>7, <1>8, <1>9 DEF SettlementInv

\* The steps outside the Ethereum leg.
LEMMA OffChainSettles ==
  ASSUME SettlementInv, JournalInv', NEW j \in jobs, j.status \notin EthSteps \cup {"error"},
         NEW k, SaveJob(k), UNCHANGED <<held, network>>, SamePlace(j, k),
         k.plan = j.plan, k.settled = j.settled, k.status # "error",
         Rank(k.status) >= Rank(j.status), k.status # "front_gas",
         Rank(k.status) > 6 => Rank(j.status) > 6,
         k.status \in AfterDeposit => j.status \in AfterDeposit
  PROVE  SettlementInv'
<1>1. j \in Job /\ Tidy(j) /\ Sound(j) /\ Backed(j) BY CurrentIsSound
<1>2. At(j) = j.status /\ At(k) = k.status BY DEF At
<1>3. j.pending = {} /\ j.confirmed = {} BY <1>1, <1>2, OffChainIsIdle
<1>4. k.pending = {} /\ k.confirmed = {} /\ k.receipts = j.receipts
      /\ k.spent = j.spent /\ k.recovered = j.recovered
  BY <1>3 DEF SamePlace
<1>5. Rank(j.status) \in Nat /\ Rank(k.status) \in Nat /\ Rank("collect_fee") = 6
  BY RankType, RankOfSteps
<1>6. PastSettlement(k) => PastSettlement(j) BY <1>2, <1>5 DEF PastSettlement
<1>7. PastSettlement(j) => PastSettlement(k) BY <1>2, <1>5 DEF PastSettlement
<1>8. k.settled => PastSettlement(k) BY <1>1, <1>7 DEF Sound, Ordered
<1>9. TornConfirm \/ (/\ PastSettlement(k) => Repaid(j)
                      /\ At(k) \in AfterDeposit => Deposited(j))
  BY <1>1, <1>2, <1>6 DEF Sound, Whole
<1>10. Sound(k) BY <1>1, <1>2, <1>3, <1>4, <1>8, <1>9, GoesOnSound
<1>11. Backed(k) BY <1>1, <1>4, SameReceiptsBacked
<1> QED BY <1>10, <1>11, SaveSettles

\* A save that leaves the books alone.
FlagsOnly(j, k) == SamePlace(j, k) /\ k.plan = j.plan /\ k.settled = j.settled

LEMMA SolSettles ==
  ASSUME SettlementInv, JournalInv', NEW j \in jobs, SolSend(j) \/ SolExpire(j) \/ SolNext(j)
  PROVE  SettlementInv'
<1>1. j \in Job BY CurrentIsSound
<1>2. j.status \notin EthSteps \cup {"error"}
  BY DEF SolSend, SolExpire, SolNext, EthSteps, PreSteps, TailSteps
<1>3. UNCHANGED <<held, network>> BY DEF SolSend, SolExpire, SolNext
<1> DEFINE Next3 == {"sol_swap", "sol_bridge", "awaiting_vaa", "wh_redeem"}
<1>4. j.status \in SolSteps BY DEF SolSend, SolExpire, SolNext, SolSteps
<1>5. \E k : SaveJob(k) /\ FlagsOnly(j, k) /\ k.status \in Next3
  <2>1. CASE SolSend(j) \/ SolExpire(j)
    <3>1. PICK b : SaveJob([j EXCEPT !.pendingSig = b]) BY <2>1 DEF SolSend, SolExpire
    <3>2. j.status \in Next3 BY <1>4 DEF SolSteps
    <3> DEFINE k == [j EXCEPT !.pendingSig = b]
    <3>3. FlagsOnly(j, k) /\ k.status = j.status BY <1>1 DEF Job, FlagsOnly, SamePlace
    <3>4. SaveJob(k) BY <3>1
    <3> HIDE DEF k
    <3> QED BY <3>2, <3>3, <3>4
  <2>2. CASE SolNext(j)
    <3>1. \/ \E s \in Next3 : \E b, c : SaveJob([j EXCEPT !.status = s, !.pendingSig = b, !.solSwapSig = c])
          \/ \E s \in Next3 : \E b : SaveJob([j EXCEPT !.status = s, !.pendingSig = b])
          \/ \E s \in Next3 : SaveJob([j EXCEPT !.status = s])
      BY <2>2, Zenon DEF SolNext
    <3> HIDE DEF Next3
    <3>2. \A s, b, c : FlagsOnly(j, [j EXCEPT !.status = s, !.pendingSig = b, !.solSwapSig = c])
                       /\ [j EXCEPT !.status = s, !.pendingSig = b, !.solSwapSig = c].status = s
      BY <1>1 DEF Job, FlagsOnly, SamePlace
    <3>3. \A s, b : FlagsOnly(j, [j EXCEPT !.status = s, !.pendingSig = b])
                    /\ [j EXCEPT !.status = s, !.pendingSig = b].status = s
      BY <1>1 DEF Job, FlagsOnly, SamePlace
    <3>4. \A s : FlagsOnly(j, [j EXCEPT !.status = s]) /\ [j EXCEPT !.status = s].status = s
      BY <1>1 DEF Job, FlagsOnly, SamePlace
    <3>5. CASE \E s \in Next3 : \E b, c : SaveJob([j EXCEPT !.status = s, !.pendingSig = b, !.solSwapSig = c])
      <4>0. PICK s \in Next3 : \E b, c : SaveJob([j EXCEPT !.status = s, !.pendingSig = b, !.solSwapSig = c])
        BY <3>5
      <4>1. PICK b, c : SaveJob([j EXCEPT !.status = s, !.pendingSig = b, !.solSwapSig = c]) BY <4>0
      <4> DEFINE k == [j EXCEPT !.status = s, !.pendingSig = b, !.solSwapSig = c]
      <4>2. FlagsOnly(j, k) /\ k.status = s BY <3>2
      <4>3. SaveJob(k) BY <4>1
      <4> HIDE DEF k
      <4> QED BY <4>1, <4>2, <4>3
    <3>6. CASE \E s \in Next3 : \E b : SaveJob([j EXCEPT !.status = s, !.pendingSig = b])
      <4>0. PICK s \in Next3 : \E b : SaveJob([j EXCEPT !.status = s, !.pendingSig = b]) BY <3>6
      <4>1. PICK b : SaveJob([j EXCEPT !.status = s, !.pendingSig = b]) BY <4>0
      <4> DEFINE k == [j EXCEPT !.status = s, !.pendingSig = b]
      <4>2. FlagsOnly(j, k) /\ k.status = s BY <3>3
      <4>3. SaveJob(k) BY <4>1
      <4> HIDE DEF k
      <4> QED BY <4>1, <4>2, <4>3
    <3>7. CASE \E s \in Next3 : SaveJob([j EXCEPT !.status = s])
      <4>1. PICK s \in Next3 : SaveJob([j EXCEPT !.status = s]) BY <3>7
      <4> DEFINE k == [j EXCEPT !.status = s]
      <4>2. FlagsOnly(j, k) /\ k.status = s BY <3>4
      <4>3. SaveJob(k) BY <4>1
      <4> HIDE DEF k
      <4> QED BY <4>1, <4>2, <4>3
    <3> QED BY <3>1, <3>5, <3>6, <3>7
  <2> QED BY <2>1, <2>2
<1>6. PICK k : SaveJob(k) /\ FlagsOnly(j, k) /\ k.status \in Next3 BY <1>5
<1>7. /\ Rank(k.status) >= Rank(j.status) /\ ~(Rank(k.status) > 6)
      /\ k.status \notin AfterDeposit
  BY <1>4, <1>6, RankOfSteps DEF SolSteps, AfterDeposit, LandSteps
<1> QED BY <1>2, <1>3, <1>6, <1>7, OffChainSettles DEF FlagsOnly

LEMMA LandingSettles ==
  ASSUME SettlementInv, JournalInv', NEW j \in jobs,
         PollGuardians(j) \/ AutoRedeem(j) \/ PrepareTap(j) \/ TapDone(j)
  PROVE  SettlementInv'
<1>1. j \in Job BY CurrentIsSound
<1>2. j.status \notin EthSteps \cup {"error"}
  BY DEF PollGuardians, AutoRedeem, PrepareTap, TapDone, EthSteps, PreSteps, TailSteps
<1>3. UNCHANGED <<held, network>>
  BY DEF PollGuardians, AutoRedeem, PrepareTap, TapDone
<1>4. j.status \in AfterDeposit
  BY DEF PollGuardians, AutoRedeem, PrepareTap, TapDone, AfterDeposit, LandSteps
<1> DEFINE To == {"awaiting_signatures", "awaiting_redeem", "awaiting_swap", "done",
                  "request_signatures"}
<1>5. \/ \E s \in To : \E b : SaveJob([j EXCEPT !.status = s, !.needsTap = b])
      \/ \E b : SaveJob([j EXCEPT !.needsTap = b])
      \/ \E s \in To : SaveJob([j EXCEPT !.status = s])
  <2>1. CASE PollGuardians(j) BY <2>1, Zenon DEF PollGuardians
  <2>2. SaveJob(Landed(j)) => \E s \in To : SaveJob([j EXCEPT !.status = s])
    <3>1. CASE j.plan.route = "B"
      <4>1. Landed(j) = [j EXCEPT !.status = "awaiting_swap"] BY <3>1 DEF Landed
      <4> QED BY <4>1, Zenon
    <3>2. CASE j.plan.route # "B"
      <4>1. Landed(j) = [j EXCEPT !.status = "done"] BY <3>2 DEF Landed
      <4> QED BY <4>1, Zenon
    <3> QED BY <3>1, <3>2
  <2>3. CASE AutoRedeem(j) BY <2>2, <2>3, Zenon DEF AutoRedeem
  <2>4. CASE PrepareTap(j) BY <2>4, Zenon DEF PrepareTap
  <2>5. CASE TapDone(j) BY <2>2, <2>5, Zenon DEF TapDone
  <2> QED BY <2>1, <2>3, <2>4, <2>5
<1>6. \E k : SaveJob(k) /\ FlagsOnly(j, k) /\ k.status \in AfterDeposit
  <2>1. \A s \in To : s \in AfterDeposit BY DEF AfterDeposit, LandSteps
  <2> HIDE DEF To
  <2>2. \A s, b : FlagsOnly(j, [j EXCEPT !.status = s, !.needsTap = b])
                  /\ [j EXCEPT !.status = s, !.needsTap = b].status = s
    BY <1>1 DEF Job, FlagsOnly, SamePlace
  <2>3. \A b : FlagsOnly(j, [j EXCEPT !.needsTap = b])
               /\ [j EXCEPT !.needsTap = b].status = j.status
    BY <1>1 DEF Job, FlagsOnly, SamePlace
  <2>4. \A s : FlagsOnly(j, [j EXCEPT !.status = s]) /\ [j EXCEPT !.status = s].status = s
    BY <1>1 DEF Job, FlagsOnly, SamePlace
  <2>5. CASE \E s \in To : \E b : SaveJob([j EXCEPT !.status = s, !.needsTap = b])
    <3>0. PICK s \in To : \E b : SaveJob([j EXCEPT !.status = s, !.needsTap = b]) BY <2>5
    <3>1. PICK b : SaveJob([j EXCEPT !.status = s, !.needsTap = b]) BY <3>0
    <3> DEFINE k == [j EXCEPT !.status = s, !.needsTap = b]
    <3>2. FlagsOnly(j, k) /\ k.status = s BY <2>2
    <3>3. SaveJob(k) BY <3>1
    <3> HIDE DEF k
    <3> QED BY <2>1, <3>1, <3>2, <3>3
  <2>6. CASE \E b : SaveJob([j EXCEPT !.needsTap = b])
    <3>1. PICK b : SaveJob([j EXCEPT !.needsTap = b]) BY <2>6
    <3> DEFINE k == [j EXCEPT !.needsTap = b]
    <3>2. FlagsOnly(j, k) /\ k.status = j.status BY <2>3
    <3>3. SaveJob(k) BY <3>1
    <3> HIDE DEF k
    <3> QED BY <1>4, <3>1, <3>2, <3>3
  <2>7. CASE \E s \in To : SaveJob([j EXCEPT !.status = s])
    <3>1. PICK s \in To : SaveJob([j EXCEPT !.status = s]) BY <2>7
    <3> DEFINE k == [j EXCEPT !.status = s]
    <3>2. FlagsOnly(j, k) /\ k.status = s BY <2>4
    <3>3. SaveJob(k) BY <3>1
    <3> HIDE DEF k
    <3> QED BY <2>1, <3>1, <3>2, <3>3
  <2> QED BY <1>5, <2>5, <2>6, <2>7
<1>7. PICK k : SaveJob(k) /\ FlagsOnly(j, k) /\ k.status \in AfterDeposit BY <1>6
<1>8. Rank(k.status) = 12 /\ Rank(j.status) = 12 /\ k.status \notin {"error", "front_gas"}
  BY <1>4, <1>7, RankOfSteps DEF AfterDeposit, LandSteps
<1> QED BY <1>2, <1>3, <1>4, <1>7, <1>8, OffChainSettles DEF FlagsOnly

LEMMA NewJobSound ==
  ASSUME NEW i, NEW a, NEW p \in Plan, Shaped(p) PROVE Sound(NewJob(i, a, p))
<1> DEFINE k == NewJob(i, a, p)
<1>1. /\ k.pending = {} /\ k.confirmed = {} /\ k.receipts = {} /\ k.plan = p
      /\ k.status = FirstStatus(p) /\ k.recovered = 0 /\ k.settled = FALSE
  BY DEF NewJob
<1> HIDE DEF k
<1>2. /\ Rank(FirstStatus(p)) <= 6 /\ FirstStatus(p) \notin AfterDeposit
      /\ FirstStatus(p) # "error"
      /\ FirstStatus(p) = "front_gas" => p.pre # << >>
  <2>1. CASE p.asset = "sol" \/ p.pre = << >> \/ p.advanceMax > 0
    BY <2>1, RankOfSteps DEF FirstStatus, Shaped, AfterDeposit, LandSteps
  <2>2. CASE p.asset # "sol" /\ p.pre # << >> /\ ~(p.advanceMax > 0)
    <3>1. FirstStatus(p) \in PreSteps BY <2>2, PlanSteps DEF FirstStatus
    <3>2. Rank(FirstStatus(p)) < 6 /\ Rank(FirstStatus(p)) \in Nat
      BY <3>1, RankOfGroups, RankType
    <3> QED BY <3>1, <3>2, <2>2 DEF PreSteps, AfterDeposit, LandSteps
  <2> QED BY <2>1, <2>2
<1>3. At(k) = FirstStatus(p) BY <1>1, <1>2 DEF At
<1>4. ~PastSettlement(k)
  <2>1. Rank(FirstStatus(p)) \in Nat /\ Rank("collect_fee") = 6 BY RankType, RankOfSteps
  <2> QED BY <1>2, <1>3, <2>1 DEF PastSettlement
<1>5. Behind(k) BY <1>1 DEF Behind, Paid
<1>6. Priced(k) BY <1>1 DEF Priced
<1>7. Ordered(k) BY <1>1, <1>2, <1>3, <1>4 DEF Ordered, TxsOf
<1>8. Whole(k) BY <1>1, <1>2, <1>3, <1>4 DEF Whole
<1>9. Sound(k) BY <1>5, <1>6, <1>7, <1>8 DEF Sound
<1> QED BY <1>9 DEF k

LEMMA StartSettles ==
  ASSUME SettlementInv, JournalInv', NEW a \in Accounts, NEW p \in Plans, Start(a, p)
  PROVE  SettlementInv'
<1> DEFINE k == NewJob(lastId + 1, a, p)
<1>1. p \in Plan /\ Shaped(p) BY PlansAreWellFormed DEF WellFormed, Shaped
<1>2. Sound(k) BY <1>1, NewJobSound
<1>3. k.receipts = {} BY DEF NewJob
<1>4. held' = {[op |-> "start", new |-> k]} /\ UNCHANGED <<ledger, network>> BY DEF Start
<1> HIDE DEF k
<1>5. Backed(k) BY <1>3 DEF Backed
<1> QED BY <1>2, <1>4, <1>5, QueueSettles

\* What a step's transaction may cost the sponsor or repay.
LEMMA TermsPriced ==
  ASSUME NEW j \in Job, NEW c \in Terms(j)
  PROVE  /\ c.sponsored => j.status \in {"front_gas", "wh_redeem"}
         /\ c.recovered = IF j.status = "collect_fee" THEN Debt(j) ELSE 0
<1> DEFINE Claim == /\ c.sponsored => j.status \in {"front_gas", "wh_redeem"}
                    /\ c.recovered = IF j.status = "collect_fee" THEN Debt(j) ELSE 0
<1>1. CASE j.status = "front_gas" BY <1>1 DEF Terms
<1>2. CASE j.status = "wh_redeem" BY <1>2 DEF Terms
<1>3. CASE j.status = "collect_fee"
  <2>1. c = ByUser(Due(j), Debt(j)) BY <1>3, Zenon DEF Terms
  <2>2. c.sponsored = FALSE /\ c.recovered = Debt(j) BY <2>1 DEF ByUser
  <2> QED BY <1>3, <2>2
<1>4. CASE j.status \notin {"front_gas", "wh_redeem", "collect_fee"}
  <2>1. c = ByUser(0, 0) BY <1>4 DEF Terms
  <2>2. c.sponsored = FALSE /\ c.recovered = 0 BY <2>1 DEF ByUser
  <2> QED BY <1>4, <2>2
<1> QED BY <1>1, <1>2, <1>3, <1>4

\* A job with nothing in flight signs a transaction of its step.
LEMMA SignedIsSound ==
  ASSUME NEW j \in Job, Tidy(j), Sound(j), j.pending = {}, j.confirmed = {},
         j.status \in EthSteps, NEW t, t.step = j.status,
         t.sponsored => j.status \in {"front_gas", "wh_redeem"},
         t.recovered = IF j.status = "collect_fee" THEN Debt(j) ELSE 0,
         NEW k, k.pending = {t}, k.confirmed = j.confirmed, k.receipts = j.receipts,
         k.spent = j.spent, k.recovered = j.recovered, k.plan = j.plan,
         k.settled = j.settled, k.status = j.status
  PROVE  Sound(k)
<1>1. At(j) = j.status /\ At(k) = j.status BY EthIsStatus DEF At
<1>2. Debt(k) = Debt(j) BY DebtOfBooks
<1>3. Behind(k) BY <1>1 DEF Sound, Behind, Paid
<1>4. Priced(k) BY <1>2 DEF Sound, Priced, Collected
<1>5. Ordered(k)
  <2>1. \A u \in TxsOf(k) : u \in TxsOf(j) \/ u = t BY DEF TxsOf
  <2>2. PastSettlement(k) <=> PastSettlement(j) BY <1>1 DEF PastSettlement
  <2>3. j.status \in TailSteps => PastSettlement(k)
    BY <1>1, RankOfGroups, RankOfSteps DEF PastSettlement
  <2> QED BY <1>1, <2>1, <2>2, <2>3 DEF Sound, Ordered
<1>6. Whole(j) => Whole(k)
  BY <1>1, <1>2 DEF Whole, Repaid, Deposited, PastSettlement
<1> QED BY <1>3, <1>4, <1>5, <1>6 DEF Sound

LEMMA SendSettles ==
  ASSUME SettlementInv, JournalInv', NEW j \in jobs, Send(j) PROVE SettlementInv'
<1>1. j \in Job /\ Tidy(j) /\ Sound(j) /\ Backed(j) BY CurrentIsSound
<1>2. j.pending = {} /\ j.confirmed = {} /\ j.status \in EthSteps BY DEF Send, Ready
<1>3. PICK c \in Terms(j), gas \in 1..j.plan.limit[j.status] :
        LET w == IF c.sponsored THEN Sponsor ELSE j.acct
        IN  \E seen \in Counts(w) : \E n \in NonceFloor(w, seen) :
              held' = {[op |-> "send", new |-> [j EXCEPT !.pending =
                {[id |-> j.id, from |-> w, nonce |-> n, step |-> j.status,
                  sponsored |-> c.sponsored, value |-> c.value, advance |-> c.advance,
                  recovered |-> c.recovered, maxGas |-> gas]}]]}
  BY DEF Send
<1>4. PICK w, n :
        held' = {[op |-> "send", new |-> [j EXCEPT !.pending =
          {[id |-> j.id, from |-> w, nonce |-> n, step |-> j.status,
            sponsored |-> c.sponsored, value |-> c.value, advance |-> c.advance,
            recovered |-> c.recovered, maxGas |-> gas]}]]}
  BY <1>3
<1> DEFINE t == [id |-> j.id, from |-> w, nonce |-> n, step |-> j.status,
                 sponsored |-> c.sponsored, value |-> c.value, advance |-> c.advance,
                 recovered |-> c.recovered, maxGas |-> gas]
           k == [j EXCEPT !.pending = {t}]
<1>5. held' = {[op |-> "send", new |-> k]} BY <1>4
<1>6. t.step = j.status /\ t.sponsored = c.sponsored /\ t.recovered = c.recovered OBVIOUS
<1> HIDE DEF t
<1>7. /\ k.pending = {t} /\ k.confirmed = j.confirmed /\ k.receipts = j.receipts
      /\ k.spent = j.spent /\ k.recovered = j.recovered /\ k.plan = j.plan
      /\ k.settled = j.settled /\ k.status = j.status
  BY <1>1 DEF Job
<1> HIDE DEF k
<1>8. /\ c.sponsored => j.status \in {"front_gas", "wh_redeem"}
      /\ c.recovered = IF j.status = "collect_fee" THEN Debt(j) ELSE 0
  BY <1>1, TermsPriced
<1>9. Sound(k) BY <1>1, <1>2, <1>6, <1>7, <1>8, SignedIsSound
<1>10. Backed(k) BY <1>1, <1>7, SameReceiptsBacked
<1>11. UNCHANGED <<ledger, network>> BY DEF Send
<1> QED BY <1>5, <1>9, <1>10, <1>11, QueueSettles

LEMMA ApproveQuoteSettles ==
  ASSUME SettlementInv, JournalInv', NEW j \in jobs, ApproveQuote(j) PROVE SettlementInv'
<1>1. j \in Job /\ j.plan \in Plan /\ Sound(j) /\ Backed(j) BY CurrentIsSound
<1>2. j.status = "error" /\ UNCHANGED <<ledger, network>> BY DEF ApproveQuote, CanRequote
<1>3. j.failedAt \in Working
  BY <1>2, GoodFields DEF SettlementInv, JournalInv, TypeInv
<1>4. \E m, n, l, b : held' = {[op |-> "requote", new |->
        [j EXCEPT !.plan = [j.plan EXCEPT !.gasMax = m, !.sponsorMax = n,
                              !.limit["wh_redeem"] = l, !.sponsoredRedeem = b],
                  !.status = j.failedAt, !.failedAt = "none", !.revision = @ + 1]]}
  BY Zenon DEF ApproveQuote
<1>5. PICK m, n, l, b : held' = {[op |-> "requote", new |->
        [j EXCEPT !.plan = [j.plan EXCEPT !.gasMax = m, !.sponsorMax = n,
                              !.limit["wh_redeem"] = l, !.sponsoredRedeem = b],
                  !.status = j.failedAt, !.failedAt = "none", !.revision = @ + 1]]}
  BY <1>4
<1> DEFINE p == [j.plan EXCEPT !.gasMax = m, !.sponsorMax = n,
                   !.limit["wh_redeem"] = l, !.sponsoredRedeem = b]
           k == [j EXCEPT !.plan = p, !.status = j.failedAt, !.failedAt = "none",
                          !.revision = @ + 1]
<1>6. p.pre = j.plan.pre /\ p.service = j.plan.service BY <1>1 DEF Plan
<1>7. held' = {[op |-> "requote", new |-> k]} BY <1>5
<1> HIDE DEF p
<1>8. SamePlace(j, k) /\ k.plan = p /\ k.settled = j.settled /\ k.status = j.failedAt
  BY <1>1 DEF Job, SamePlace
<1> HIDE DEF k
<1>9. At(k) = At(j) BY <1>2, <1>3, <1>8 DEF At, Working
<1>10. SameBooks(j, k) BY <1>6, <1>8 DEF SameBooks
<1>11. Sound(k) BY <1>1, <1>9, <1>10, StaysSound
<1>12. Backed(k) BY <1>1, <1>8, SameReceiptsBacked DEF SamePlace
<1> QED BY <1>2, <1>7, <1>11, <1>12, QueueSettles

LEMMA CommitSettles ==
  ASSUME SettlementInv, JournalInv', Commit PROVE SettlementInv'
<1>1. PICK h \in held : SaveJob(h.new) /\ held' = {} /\ UNCHANGED network BY DEF Commit
<1>2. Sound(h.new) /\ Backed(h.new) BY DEF SettlementInv
<1> QED BY <1>1, <1>2, SaveSettles

\* Entering or leaving the queue otherwise, and broadcasts.
LEMMA QuietSettles ==
  ASSUME SettlementInv, JournalInv',
         \/ Abort \/ Crash \/ UNCHANGED vars
         \/ \E j \in jobs : OfferQuote(j) \/ Broadcast(j)
         \/ \E t \in mempool : Drop(t)
  PROVE  SettlementInv'
<1>1. CASE Abort \/ Crash
  <2>1. held' = {} /\ UNCHANGED <<ledger, network>> BY <1>1 DEF Abort, Crash
  <2> QED BY <2>1, QueueSettles
<1>2. CASE \E j \in jobs : OfferQuote(j)
  <2>1. held' = held /\ UNCHANGED <<ledger, network>> BY <1>2 DEF OfferQuote
  <2> QED BY <2>1, QueueSettles DEF SettlementInv
<1>3. CASE (\E j \in jobs : Broadcast(j)) \/ (\E t \in mempool : Drop(t)) \/ UNCHANGED vars
  <2>1. UNCHANGED <<ledger, held>> /\ chain' = chain /\ deep' = deep
    BY <1>3 DEF Broadcast, Drop, vars, ledger
  <2>2. ChainOrdered' BY <2>1 DEF SettlementInv, ChainOrdered
  <2> QED BY <2>1, <2>2, NetworkSettles
<1> QED BY <1>1, <1>2, <1>3

LEMMA BurySettles ==
  ASSUME SettlementInv, JournalInv', Bury PROVE SettlementInv'
<1>1. UNCHANGED <<ledger, held>> /\ chain' = chain /\ deep' = deep + 1 BY DEF Bury
<1>2. deep \in Nat BY LenIsNat DEF SettlementInv, JournalInv, TypeInv, TypeOK
<1>3. \A i \in 1..deep : i \in 1..deep' BY <1>1, <1>2
<1>4. ChainOrdered' BY <1>1 DEF SettlementInv, ChainOrdered
<1> QED BY <1>1, <1>3, <1>4, NetworkSettles

LEMMA MineSettles ==
  ASSUME SettlementInv, JournalInv', NEW t \in mempool, Mine(t) PROVE SettlementInv'
<1>0. TypeInv /\ TypeOK BY DEF SettlementInv, JournalInv, TypeInv
<1>1. PICK ok \in BOOLEAN, gas \in 1..t.maxGas :
        chain' = Append(chain, [tx |-> t, ok |-> ok, gas |-> gas])
  BY DEF Mine
<1> DEFINE e == [tx |-> t, ok |-> ok, gas |-> gas]
<1>2. Len(chain) \in Nat /\ chain \in Seq(Entry) BY <1>0, LenIsNat
<1>3. t \in Tx /\ t.maxGas \in Nat BY <1>0 DEF TypeOK, Tx
<1>4. e \in Entry /\ e.tx = t BY <1>1, <1>3 DEF Entry
<1>5. chain' = Append(chain, e) BY <1>1
<1> HIDE DEF e
<1>6. /\ Len(chain') = Len(chain) + 1
      /\ \A i \in 1..Len(chain) : chain'[i] = chain[i]
      /\ chain'[Len(chain) + 1] = e
  BY <1>2, <1>4, <1>5, AppendProperties
<1>7. deep' = deep /\ deep \in 0..Len(chain) /\ UNCHANGED <<ledger, held>>
  BY <1>0 DEF Mine, TypeOK
<1>8. \A i \in 1..deep : i \in 1..Len(chain) BY <1>2, <1>7
<1>9. ChainOrdered'
  <2>1. SUFFICES ASSUME NEW m \in 1..Len(chain'), NEW n \in 1..Len(chain'),
                        m < n, chain'[m].tx.from = chain'[n].tx.from
                 PROVE  chain'[m].tx.nonce < chain'[n].tx.nonce
    BY DEF ChainOrdered
  <2>2. m \in 1..Len(chain) /\ chain'[m] = chain[m] BY <1>2, <1>6, <2>1
  <2>3. CASE n \in 1..Len(chain)
    BY <1>6, <2>1, <2>2, <2>3 DEF SettlementInv, ChainOrdered
  <2>4. CASE n = Len(chain) + 1
    <3>1. chain'[n].tx = t BY <1>4, <1>6, <2>4
    <3>2. chain[m].tx \in Mined BY <2>2 DEF Mined
    <3> QED BY <2>1, <2>2, <3>1, <3>2 DEF Mine
  <2> QED BY <1>2, <1>6, <2>3, <2>4
<1> QED BY <1>6, <1>7, <1>8, <1>9, NetworkSettles

\* A reorganisation keeps what has the configured confirmations.
LEMMA ReorgSettles ==
  ASSUME SettlementInv, JournalInv', Reorg PROVE SettlementInv'
<1>0. TypeInv /\ TypeOK BY DEF SettlementInv, JournalInv, TypeInv
<1>1. PICK n \in deep..(Len(chain) - 1) :
        /\ n \in 0..Len(chain) /\ Len(chain') = n
        /\ \A i \in 1..n : chain'[i] = chain[i]
  BY <1>0, ReorgFacts
<1>2. Len(chain) \in Nat /\ deep \in Nat BY <1>0, LenIsNat DEF TypeOK
<1>3. deep' = deep /\ UNCHANGED <<ledger, held>> BY DEF Reorg
<1>4. \A i \in 1..deep : i \in 1..n BY <1>1, <1>2
<1>5. \A i \in 1..n : i \in 1..Len(chain) BY <1>1, <1>2
<1>6. ChainOrdered' BY <1>1, <1>5 DEF SettlementInv, ChainOrdered
<1> QED BY <1>1, <1>3, <1>4, <1>6, NetworkSettles

-----------------------------------------------------------------------------
(* The theorems. *)

LEMMA InitSettles == Init => SettlementInv
BY InitJournal DEF Init, SettlementInv, Records, ChainOrdered

LEMMA NextSettles ==
  ASSUME SettlementInv, [Next]_vars PROVE SettlementInv'
<1>0. JournalInv' BY NextJournal DEF SettlementInv
<1>1. CASE \E a \in Accounts, p \in Plans : Start(a, p) BY <1>0, <1>1, StartSettles
<1>2. CASE Commit BY <1>0, <1>2, CommitSettles
<1>3. CASE \E j \in jobs : JobStep(j)
  <2>1. PICK j \in jobs : JobStep(j) BY <1>3
  <2>2. CASE Skip(j) BY <1>0, <2>2, SkipSettles
  <2>3. CASE Send(j) BY <1>0, <2>3, SendSettles
  <2>4. CASE Broadcast(j) \/ OfferQuote(j) BY <1>0, <2>4, QuietSettles
  <2>5. CASE Confirm(j) BY <1>0, <2>5, ConfirmSettles
  <2>6. CASE CrashInConfirm(j) BY <1>0, <2>6, CrashInConfirmSettles
  <2>7. CASE Finish(j) BY <1>0, <2>7, FinishSettles
  <2>8. CASE Fail(j) BY <1>0, <2>8, FailSettles
  <2>9. CASE Resume(j) BY <1>0, <2>9, ResumeSettles
  <2>10. CASE ApproveQuote(j) BY <1>0, <2>10, ApproveQuoteSettles
  <2>11. CASE Reset(j) BY <1>0, <2>11, ResetSettles
  <2>12. CASE SolSend(j) \/ SolExpire(j) \/ SolNext(j) BY <1>0, <2>12, SolSettles
  <2>13. CASE PollGuardians(j) \/ AutoRedeem(j) \/ PrepareTap(j) \/ TapDone(j)
    BY <1>0, <2>13, LandingSettles
  <2> QED BY <2>1, <2>2, <2>3, <2>4, <2>5, <2>6, <2>7, <2>8, <2>9, <2>10, <2>11,
             <2>12, <2>13 DEF JobStep
<1>4. CASE \E t \in mempool : Mine(t) BY <1>0, <1>4, MineSettles
<1>5. CASE Bury BY <1>0, <1>5, BurySettles
<1>6. CASE Reorg BY <1>0, <1>6, ReorgSettles
<1>7. CASE Abort \/ Crash \/ (\E t \in mempool : Drop(t)) \/ UNCHANGED vars
  BY <1>0, <1>7, QuietSettles
<1> QED BY <1>1, <1>2, <1>3, <1>4, <1>5, <1>6, <1>7 DEF Next

\* The settlement invariant holds of every reachable state.
THEOREM SettlementHolds == Spec => []SettlementInv
<1>1. Init => SettlementInv BY InitSettles
<1>2. SettlementInv /\ [Next]_vars => SettlementInv' BY NextSettles
<1> QED BY <1>1, <1>2, PTL DEF Spec

\* What the network has executed is in one record of the ledger.
LEMMA MinedIsRecorded ==
  ASSUME SettlementInv, NEW m \in 1..Len(chain)
  PROVE  \E j \in Records : chain[m].tx \in TxsOf(j) /\ j.id = chain[m].tx.id
<1>1. chain[m].tx \in Journaled BY DEF SettlementInv, JournalInv, WriteAhead, Mined
<1> QED BY <1>1 DEF Journaled, SettlementInv, JournalInv, Tidy

LEMMA ChainHasNoTwins ==
  ASSUME SettlementInv, NEW m \in 1..Len(chain), NEW n \in 1..Len(chain),
         chain[m].tx = chain[n].tx
  PROVE  m = n
<1>1. TypeOK BY DEF SettlementInv, JournalInv, TypeInv
<1>2. Len(chain) \in Nat /\ chain[m].tx.nonce \in Nat
  BY <1>1, LenIsNat, ChainType DEF Tx
<1>3. ~(chain[m].tx.nonce < chain[n].tx.nonce) /\ ~(chain[n].tx.nonce < chain[m].tx.nonce)
  BY <1>2
<1>4. ~(m < n) /\ ~(n < m) BY <1>3 DEF SettlementInv, ChainOrdered
<1> QED BY <1>2, <1>4

\* A mined transaction of a record that is not in flight any more: its receipt
\* says what the chain says.
LEMMA ReceiptIsTrue ==
  ASSUME SettlementInv, NEW j \in Records, NEW m \in 1..Len(chain),
         chain[m].tx \in TxsOf(j), chain[m].tx \notin j.pending, chain[m].ok
  PROVE  \E r \in j.receipts : r.tx = chain[m].tx /\ r.ok
<1>1. PICK r \in j.receipts : r.tx = chain[m].tx BY DEF TxsOf
<1>2. PICK i \in 1..deep : chain[i].tx = r.tx /\ chain[i].ok = r.ok
  BY DEF SettlementInv, Backed
<1>3. TypeOK BY DEF SettlementInv, JournalInv, TypeInv
<1>4. i \in 1..Len(chain) BY <1>3, LenIsNat DEF TypeOK
<1>5. i = m BY <1>1, <1>2, <1>4, ChainHasNoTwins
<1> QED BY <1>1, <1>2, <1>5

LEMMA SettlementSpendsOnce == SettlementInv => SpendOnce
<1>1. SUFFICES ASSUME SettlementInv, NEW m \in 1..Len(chain), NEW n \in 1..Len(chain),
                      chain[m].ok, chain[n].ok, chain[m].tx.id = chain[n].tx.id,
                      chain[m].tx.step = chain[n].tx.step, chain[m].tx.step \in SpendSteps
               PROVE  m = n
  BY DEF SpendOnce
<1>2. PICK j \in Records : chain[m].tx \in TxsOf(j) /\ j.id = chain[m].tx.id
  BY <1>1, MinedIsRecorded
<1>3. chain[n].tx \in TxsOf(j)
  <2>1. PICK k \in Records : chain[n].tx \in TxsOf(k) /\ k.id = chain[n].tx.id
    BY <1>1, MinedIsRecorded
  <2>2. k = j BY <1>1, <1>2, <2>1 DEF SettlementInv, JournalInv, Identity
  <2> QED BY <2>1, <2>2
<1>4. Tidy(j) /\ Behind(j) BY <1>1 DEF SettlementInv, JournalInv, Sound
<1>5. SUFFICES chain[m].tx = chain[n].tx BY <1>1, ChainHasNoTwins
<1>6. \A i \in 1..Len(chain) :
        chain[i].tx \in TxsOf(j) /\ chain[i].tx \notin j.pending /\ chain[i].ok
        /\ chain[i].tx.step \in SpendSteps
          => \E r \in Paid(j) : r.tx = chain[i].tx
  BY <1>1, ReceiptIsTrue DEF Paid
<1>7. ASSUME NEW t \in j.pending, NEW r \in Paid(j), t.step = r.tx.step PROVE FALSE
  <2>1. j.confirmed = {} /\ t.step = At(j) BY <1>4, <1>7 DEF Tidy
  <2>2. Rank(r.tx.step) < Rank(At(j)) BY <1>4, <2>1 DEF Behind
  <2>3. Rank(At(j)) \in Nat BY RankType
  <2> QED BY <1>7, <2>1, <2>2, <2>3
<1>8. CASE chain[m].tx \in j.pending /\ chain[n].tx \in j.pending
  BY <1>4, <1>8 DEF Tidy
<1>9. CASE chain[m].tx \in j.pending /\ chain[n].tx \notin j.pending
  BY <1>1, <1>3, <1>6, <1>7, <1>9
<1>10. CASE chain[m].tx \notin j.pending /\ chain[n].tx \in j.pending
  BY <1>1, <1>2, <1>6, <1>7, <1>10
<1>11. CASE chain[m].tx \notin j.pending /\ chain[n].tx \notin j.pending
  <2>1. PICK q \in Paid(j) : q.tx = chain[m].tx BY <1>1, <1>2, <1>6, <1>11
  <2>2. PICK r \in Paid(j) : r.tx = chain[n].tx BY <1>1, <1>3, <1>6, <1>11
  <2>3. q = r BY <1>1, <1>4, <2>1, <2>2 DEF Behind
  <2> QED BY <2>1, <2>2, <2>3
<1> QED BY <1>8, <1>9, <1>10, <1>11

\* Through crashes (also in the middle of confirmed()), lost replies, Retry,
\* re-quotes and reorganisations, a step that moves money succeeds at most once
\* per conversion: setState() puts it behind the job (funding-v2.js:88-93), a
\* sent one stays journaled until its receipt is read (:486-506), and Retry goes
\* back to that one (:705-717).
THEOREM MoneyMovesOnce == Spec => []SpendOnce
BY SettlementHolds, SettlementSpendsOnce, PTL

\* If the process does not die between the two saves of confirmed()
\* (funding-v2.js:501-505), no transaction of the remaining conversion is on the
\* network before the settlement has returned everything the sponsor spent, and
\* nothing is added to the debt afterwards (:561-568, :584).
THEOREM RepaidBeforeTail ==
  ASSUME ~TornConfirm PROVE Spec => []TailAfterRepayment
<1>1. SettlementInv => TailAfterRepayment
  <2>1. SUFFICES ASSUME SettlementInv, NEW t \in mempool \cup Mined,
                        t.step \in TailSteps, NEW j \in Records, j.id = t.id
                 PROVE  Repaid(j)
    BY DEF TailAfterRepayment
  <2>2. PICK k \in Records : t \in TxsOf(k)
    BY <2>1 DEF SettlementInv, JournalInv, WriteAhead, Journaled
  <2>3. k = j BY <2>1, <2>2 DEF SettlementInv, JournalInv, Tidy, Identity
  <2> QED BY <2>1, <2>2, <2>3 DEF SettlementInv, Sound, Ordered, Whole
<1> QED BY <1>1, SettlementHolds, PTL

\* Under the same condition a job that waits for the guardians, a claim or a tap,
\* or is done, has a deposit that succeeded: only finish() of a bridge transfer
\* leads there (funding-v2.js:566-573), and only with its receipt.
THEOREM DepositBeforeLanding ==
  ASSUME ~TornConfirm PROVE Spec => []LandingHasDeposit
<1>1. SettlementInv => LandingHasDeposit
  BY DEF SettlementInv, Sound, Whole, LandingHasDeposit, AfterDeposit, Deposited
<1> QED BY <1>1, SettlementHolds, PTL

-------------------------------------------------------------------------------
(***************************************************************************)
(* The ceilings of FundingV2: what a job pays and what the sponsor lends   *)
(* it stays within the plan the user accepted, the transaction in flight   *)
(* counted at its worst.                                                   *)
(***************************************************************************)

\* A mined transaction burned at most the gas it was signed for.
GasLimited == \A i \in 1..Len(chain) : chain[i].gas <= chain[i].tx.maxGas

LimitInv ==
  /\ SettlementInv
  /\ \A j \in Records : Within(j)
  /\ \A h \in held : Within(h.new)
  /\ GasLimited

-----------------------------------------------------------------------------
(* What the saves do to the totals. *)

\* The same job with the same totals and ceilings, no new transaction in flight,
\* and nothing that was settled or released reopened.
SameCosts(j, k) ==
  /\ k.id = j.id /\ k.acct = j.acct
  /\ k.gasPaid = j.gasPaid /\ k.spent = j.spent /\ k.recovered = j.recovered
  /\ k.pending \subseteq j.pending /\ k.receipts = j.receipts
  /\ k.plan.gasMax = j.plan.gasMax /\ k.plan.sponsorMax = j.plan.sponsorMax
  /\ (j.settled => k.settled) /\ (j.released => k.released)

\* And what is released is settled, if it was before.
Carries(j, k) ==
  /\ SameCosts(j, k)
  /\ (j.released => j.settled) => (k.released => k.settled)

LEMMA SameCostsWithin ==
  ASSUME NEW j, NEW k, Within(j), SameCosts(j, k) PROVE Within(k)
BY DEF Within, SameCosts

LEMMA ExceptSameCosts ==
  ASSUME NEW j \in Job
  PROVE  /\ \A s : Carries(j, [j EXCEPT !.status = s])
         /\ \A b : Carries(j, [j EXCEPT !.pendingSig = b])
         /\ \A b : Carries(j, [j EXCEPT !.needsTap = b])
         /\ SameCosts(j, [j EXCEPT !.released = TRUE])
         /\ \A s, b : Carries(j, [j EXCEPT !.status = s, !.needsTap = b])
         /\ \A s, b : Carries(j, [j EXCEPT !.status = s, !.pendingSig = b])
         /\ \A s, b, c :
              Carries(j, [j EXCEPT !.status = s, !.pendingSig = b, !.solSwapSig = c])
         /\ \A s, f : Carries(j, [j EXCEPT !.status = s, !.failedAt = f])
         /\ \A s, f, b :
              Carries(j, [j EXCEPT !.status = s, !.failedAt = f, !.needsTap = b])
         /\ \A s : Carries(j, Move(j, s)) /\ Carries(j, Move(Settle(j), s))
BY DEF Job, SameCosts, Carries, Move, Settle

\* The saves that neither sign a transaction nor read a receipt.
PlainStep(j) ==
  \/ Skip(j) \/ Finish(j) \/ Fail(j) \/ Resume(j)
  \/ SolSend(j) \/ SolExpire(j) \/ SolNext(j)
  \/ PollGuardians(j) \/ AutoRedeem(j) \/ PrepareTap(j) \/ TapDone(j)

LEMMA PlainStepSaves ==
  ASSUME NEW j \in Job, PlainStep(j)
  PROVE  \E k : SaveJob(k) /\ Carries(j, k)
<1>1. CASE Skip(j)
  <2>1. \/ \E s : SaveJob(Move(j, s))
        \/ \E s : SaveJob(Move(Settle(j), s))
    BY <1>1, Zenon DEF Skip
  <2> QED BY <2>1, ExceptSameCosts
<1>2. CASE Finish(j)
  <2>1. \/ \E s : SaveJob(Move(j, s))
        \/ \E s : SaveJob(Move(Settle(j), s))
    <3>1. PICK r : SaveJob(Move(IF r.tx.step = "collect_fee" THEN Settle(j) ELSE j,
                                FinishTo(r.tx.step, j.plan)))
      BY <1>2 DEF Finish
    <3>2. CASE r.tx.step = "collect_fee" BY <3>1, <3>2
    <3>3. CASE r.tx.step # "collect_fee" BY <3>1, <3>3
    <3> QED BY <3>2, <3>3
  <2> QED BY <2>1, ExceptSameCosts
<1>3. CASE Fail(j) BY <1>3, ExceptSameCosts DEF Fail
<1>4. CASE Resume(j)
  <2>1. \E s, b : SaveJob([j EXCEPT !.status = s, !.failedAt = "none", !.needsTap = b])
    <3> DEFINE steps == {t.step : t \in j.pending} \cup {r.tx.step : r \in j.confirmed}
               To(from) == IF from = "awaiting_redeem" THEN "awaiting_signatures" ELSE from
    <3>1. PICK from \in IF steps # {} THEN steps ELSE {j.failedAt} :
            SaveJob([j EXCEPT !.status = To(from), !.failedAt = "none",
                      !.needsTap = IF To(from) = "awaiting_signatures" THEN FALSE ELSE @])
      BY <1>4 DEF Resume
    <3> HIDE DEF steps, To
    <3>2. SaveJob([j EXCEPT !.status = To(from), !.failedAt = "none",
             !.needsTap = IF To(from) = "awaiting_signatures" THEN FALSE ELSE j.needsTap])
      BY <3>1
    <3> QED BY <3>2, Zenon
  <2> QED BY <2>1, ExceptSameCosts
<1>5. CASE SolSend(j) \/ SolExpire(j) BY <1>5, ExceptSameCosts DEF SolSend, SolExpire
<1>6. CASE SolNext(j)
  <2>1. \/ \E s, b, c : SaveJob([j EXCEPT !.status = s, !.pendingSig = b, !.solSwapSig = c])
        \/ \E s, b : SaveJob([j EXCEPT !.status = s, !.pendingSig = b])
        \/ \E s : SaveJob([j EXCEPT !.status = s])
    BY <1>6, Zenon DEF SolNext
  <2> QED BY <2>1, ExceptSameCosts
<1>7. CASE PollGuardians(j) \/ AutoRedeem(j) \/ PrepareTap(j) \/ TapDone(j)
  <2>1. \/ \E s, b : SaveJob([j EXCEPT !.status = s, !.needsTap = b])
        \/ \E b : SaveJob([j EXCEPT !.needsTap = b])
        \/ \E s : SaveJob([j EXCEPT !.status = s])
    BY <1>7, Zenon DEF PollGuardians, AutoRedeem, PrepareTap, TapDone, Landed
  <2> QED BY <2>1, ExceptSameCosts
<1> QED BY <1>1, <1>2, <1>3, <1>4, <1>5, <1>6, <1>7 DEF PlainStep

\* A receipt turns the worst case of the transaction in flight into what it cost.
LEMMA RecordWithin ==
  ASSUME NEW j \in Job, Within(j), NEW r \in Receipt, r.tx \in j.pending,
         NEW gas \in Nat, gas <= r.tx.maxGas
  PROVE  Within(Recorded(j, r, gas)) /\ Within(Reverted(Recorded(j, r, gas)))
<1> DEFINE k == Recorded(j, r, gas)
<1>1. /\ k \in Job /\ k.pending = {} /\ k.plan = j.plan
      /\ k.gasPaid = j.gasPaid + gas /\ k.spent = j.spent + SpentOf(r.tx, r.ok, gas)
  <2>1. k \in Job BY RecordedType
  <2> QED BY <2>1 DEF Recorded, Job, GasOf
<1> HIDE DEF k
<1>2. j.gasPaid \in Nat /\ j.spent \in Nat /\ j.plan \in Plan BY JobFields
<1>3. j.plan.gasMax \in Nat /\ j.plan.sponsorMax \in Nat BY <1>2, PlanFields
<1>4. r.tx.maxGas \in Nat /\ r.tx.advance \in Nat BY DEF Receipt, Tx
<1>5. /\ j.gasPaid + r.tx.maxGas <= j.plan.gasMax
      /\ r.tx.sponsored => j.spent + r.tx.advance + r.tx.maxGas <= j.plan.sponsorMax
      /\ j.spent <= j.plan.sponsorMax
  BY DEF Within
<1>6. k.gasPaid <= k.plan.gasMax BY <1>1, <1>2, <1>3, <1>4, <1>5
<1>7. k.spent <= k.plan.sponsorMax
  <2>1. CASE r.tx.sponsored
    <3>1. SpentOf(r.tx, r.ok, gas) \in Nat /\ SpentOf(r.tx, r.ok, gas) <= gas + r.tx.advance
      BY <1>4, <2>1 DEF SpentOf
    <3> QED BY <1>1, <1>2, <1>3, <1>4, <1>5, <2>1, <3>1
  <2>2. CASE ~r.tx.sponsored
    <3>1. SpentOf(r.tx, r.ok, gas) = 0 BY <2>2 DEF SpentOf
    <3> QED BY <1>1, <1>2, <1>5, <3>1
  <2> QED BY <2>1, <2>2
<1>8. Within(k) BY <1>1, <1>6, <1>7 DEF Within
<1> DEFINE i == Reverted(k)
<1>9. SameCosts(k, i) BY <1>1 DEF Reverted, Job, SameCosts
<1> HIDE DEF i
<1>10. Within(i) BY <1>8, <1>9, SameCostsWithin
<1> QED BY <1>8, <1>10 DEF i, k

-----------------------------------------------------------------------------
(* The actions. *)

LEMMA NetworkUnchanged ==
  ASSUME UNCHANGED network, GasLimited PROVE GasLimited'
BY DEF network, GasLimited

LEMMA SaveLimits ==
  ASSUME LimitInv, SettlementInv', NEW k, SaveJob(k), Within(k),
         held' \subseteq held, UNCHANGED network
  PROVE  LimitInv'
<1>1. \A i \in Records' : i \in Records \/ i = k BY DEF SaveJob, Records
<1> QED BY <1>1, NetworkUnchanged DEF LimitInv

LEMMA QueueLimits ==
  ASSUME LimitInv, SettlementInv', UNCHANGED <<ledger, network>>,
         \A h \in held' : Within(h.new)
  PROVE  LimitInv'
<1>1. Records' = Records BY DEF ledger, Records
<1> QED BY <1>1, NetworkUnchanged DEF LimitInv, network

LEMMA CurrentIsWithin ==
  ASSUME LimitInv, NEW j \in jobs
  PROVE  /\ j \in Job /\ j.plan \in Plan /\ Tidy(j) /\ Sound(j) /\ Within(j)
BY CurrentIsSound DEF LimitInv, Records

LEMMA PlainLimits ==
  ASSUME LimitInv, SettlementInv', NEW j \in jobs, PlainStep(j) PROVE LimitInv'
<1>1. j \in Job /\ Within(j) BY CurrentIsWithin
<1>2. PICK k : SaveJob(k) /\ SameCosts(j, k) BY <1>1, PlainStepSaves DEF Carries
<1>3. held' = held /\ UNCHANGED network
  BY DEF PlainStep, Skip, Finish, Fail, Resume, SolSend, SolExpire, SolNext,
         PollGuardians, AutoRedeem, PrepareTap, TapDone
<1> QED BY <1>1, <1>2, <1>3, SameCostsWithin, SaveLimits

\* Final entries are entries of the chain.
LEMMA FinalGas ==
  ASSUME LimitInv, NEW e \in Final PROVE e.gas <= e.tx.maxGas
<1>1. TypeOK BY DEF LimitInv, SettlementInv, JournalInv, TypeInv
<1>2. \A i \in 1..deep : i \in 1..Len(chain) BY <1>1, LenIsNat DEF TypeOK
<1> QED BY <1>2 DEF LimitInv, GasLimited, Final

LEMMA ReceiptLimits ==
  ASSUME LimitInv, SettlementInv', NEW j \in jobs, Confirm(j) \/ CrashInConfirm(j)
  PROVE  LimitInv'
<1>0. TypeOK BY DEF LimitInv, SettlementInv, JournalInv, TypeInv
<1>1. j \in Job /\ Within(j) BY CurrentIsWithin
<1>2. \A e \in Final, ok \in BOOLEAN : e.tx \in j.pending =>
        LET k == Recorded(j, [tx |-> e.tx, ok |-> ok], e.gas)
        IN  Within(k) /\ Within(Reverted(k))
  <2>1. SUFFICES ASSUME NEW e \in Final, NEW ok \in BOOLEAN, e.tx \in j.pending
                 PROVE  LET k == Recorded(j, [tx |-> e.tx, ok |-> ok], e.gas)
                        IN  Within(k) /\ Within(Reverted(k))
    OBVIOUS
  <2> DEFINE r == [tx |-> e.tx, ok |-> ok]
  <2>2. r \in Receipt /\ r.tx = e.tx BY <1>0, FinalType DEF Receipt
  <2>3. e.gas \in Nat /\ e.gas <= e.tx.maxGas BY <1>0, FinalType, FinalGas
  <2> HIDE DEF r
  <2>4. Within(Recorded(j, r, e.gas)) /\ Within(Reverted(Recorded(j, r, e.gas)))
    BY <1>1, <2>1, <2>2, <2>3, RecordWithin
  <2> QED BY <2>4 DEF r
<1>3. CASE Confirm(j)
  <2>1. PICK e \in Final :
          /\ e.tx \in j.pending
          /\ LET k == Recorded(j, [tx |-> e.tx, ok |-> e.ok], e.gas)
             IN  SaveJob(IF e.ok THEN k ELSE Reverted(k))
    BY <1>3 DEF Confirm
  <2>2. e.ok \in BOOLEAN BY <1>0, FinalType
  <2> DEFINE k == Recorded(j, [tx |-> e.tx, ok |-> e.ok], e.gas)
  <2>3. Within(k) /\ Within(Reverted(k)) BY <1>2, <2>1, <2>2
  <2>4. SaveJob(k) \/ SaveJob(Reverted(k)) BY <2>1
  <2>5. held' = held /\ UNCHANGED network BY <1>3 DEF Confirm
  <2> HIDE DEF k
  <2> QED BY <2>3, <2>4, <2>5, SaveLimits
<1>4. CASE CrashInConfirm(j)
  <2>1. PICK e \in Final :
          /\ e.tx \in j.pending
          /\ jobs' = (jobs \ {j}) \cup {Recorded(j, [tx |-> e.tx, ok |-> FALSE], e.gas)}
    BY <1>4 DEF CrashInConfirm
  <2> DEFINE k == Recorded(j, [tx |-> e.tx, ok |-> FALSE], e.gas)
  <2>2. Within(k) BY <1>2, <2>1
  <2>3. jobs' = (jobs \ {j}) \cup {k} BY <2>1
  <2> HIDE DEF k
  <2>4. held' = {} /\ past' = past /\ UNCHANGED network BY <1>4 DEF CrashInConfirm
  <2>5. \A i \in Records' : i \in Records \/ i = k BY <2>3, <2>4 DEF Records
  <2> QED BY <2>2, <2>4, <2>5, NetworkUnchanged DEF LimitInv
<1> QED BY <1>3, <1>4

LEMMA ResetLimits ==
  ASSUME LimitInv, SettlementInv', NEW j \in jobs, Reset(j) PROVE LimitInv'
<1>1. j \in Job /\ Within(j) BY CurrentIsWithin
<1> DEFINE k == [j EXCEPT !.released = TRUE]
<1>2. /\ jobs' = jobs \ {j} /\ past' = past \cup {k} /\ held' = held
      /\ UNCHANGED network
  BY DEF Reset
<1>3. SameCosts(j, k) BY <1>1, ExceptSameCosts
<1> HIDE DEF k
<1>4. Within(k) BY <1>1, <1>3, SameCostsWithin
<1>5. \A i \in Records' : i \in Records \/ i = k BY <1>2 DEF Records
<1> QED BY <1>2, <1>4, <1>5, NetworkUnchanged DEF LimitInv

LEMMA StartLimits ==
  ASSUME LimitInv, SettlementInv', NEW a \in Accounts, NEW p \in Plans, Start(a, p)
  PROVE  LimitInv'
<1> DEFINE k == NewJob(lastId + 1, a, p)
<1>1. p \in Plan BY PlansAreWellFormed DEF WellFormed
<1>2. p.gasMax \in Nat /\ p.sponsorMax \in Nat BY <1>1, PlanFields
<1>3. k.gasPaid = 0 /\ k.spent = 0 /\ k.pending = {} /\ k.plan = p BY DEF NewJob
<1>4. held' = {[op |-> "start", new |-> k]} /\ UNCHANGED <<ledger, network>> BY DEF Start
<1> HIDE DEF k
<1>5. Within(k) BY <1>2, <1>3 DEF Within
<1> QED BY <1>4, <1>5, QueueLimits

LEMMA SendLimits ==
  ASSUME LimitInv, SettlementInv', NEW j \in jobs, Send(j) PROVE LimitInv'
<1>1. j \in Job /\ j.plan \in Plan /\ Within(j) BY CurrentIsWithin
<1>2. j.gasPaid \in Nat /\ j.spent \in Nat /\ j.plan.sponsorMax \in Nat
      /\ j.status \in EthSteps /\ j.plan.limit[j.status] \in Nat
  BY <1>1, JobFields, PlanFields DEF Send, Ready
<1>0. PICK c \in Terms(j), gas \in 1..j.plan.limit[j.status] :
        LET w == IF c.sponsored THEN Sponsor ELSE j.acct
        IN  /\ WithinBudget(j, c, gas)
            /\ \E seen \in Counts(w) : \E n \in NonceFloor(w, seen) :
                 held' = {[op |-> "send", new |-> [j EXCEPT !.pending =
                   {[id |-> j.id, from |-> w, nonce |-> n, step |-> j.status,
                     sponsored |-> c.sponsored, value |-> c.value, advance |-> c.advance,
                     recovered |-> c.recovered, maxGas |-> gas]}]]}
  BY DEF Send
<1> DEFINE w == IF c.sponsored THEN Sponsor ELSE j.acct
<1>a. WithinBudget(j, c, gas) BY <1>0
<1>b. PICK seen \in Counts(w) : \E n \in NonceFloor(w, seen) :
        held' = {[op |-> "send", new |-> [j EXCEPT !.pending =
          {[id |-> j.id, from |-> w, nonce |-> n, step |-> j.status,
            sponsored |-> c.sponsored, value |-> c.value, advance |-> c.advance,
            recovered |-> c.recovered, maxGas |-> gas]}]]}
  BY <1>0
<1>3. PICK n \in NonceFloor(w, seen) :
        held' = {[op |-> "send", new |-> [j EXCEPT !.pending =
          {[id |-> j.id, from |-> w, nonce |-> n, step |-> j.status,
            sponsored |-> c.sponsored, value |-> c.value, advance |-> c.advance,
            recovered |-> c.recovered, maxGas |-> gas]}]]}
  BY <1>b
<1> HIDE DEF w
<1> DEFINE t == [id |-> j.id, from |-> w, nonce |-> n, step |-> j.status,
                 sponsored |-> c.sponsored, value |-> c.value, advance |-> c.advance,
                 recovered |-> c.recovered, maxGas |-> gas]
           k == [j EXCEPT !.pending = {t}]
<1>4. held' = {[op |-> "send", new |-> k]} BY <1>3
<1>5. t.maxGas = gas /\ t.sponsored = c.sponsored /\ t.advance = c.advance OBVIOUS
<1> HIDE DEF t
<1>6. k.pending = {t} /\ k.gasPaid = j.gasPaid /\ k.spent = j.spent /\ k.plan = j.plan
  BY <1>1 DEF Job
<1> HIDE DEF k
<1>7. c.advance \in Nat /\ gas \in Nat /\ gas > 0
  BY <1>1, <1>2, TermsType
<1>8. j.gasPaid + gas <= j.plan.gasMax /\ (c.sponsored => c.advance + gas <= Remaining(j))
  BY <1>a DEF WithinBudget
<1>9. c.sponsored => j.spent + c.advance + gas <= j.plan.sponsorMax
  BY <1>2, <1>7, <1>8 DEF Remaining, Shortfall
<1>10. Within(k) BY <1>1, <1>5, <1>6, <1>8, <1>9 DEF Within
<1>11. UNCHANGED <<ledger, network>> BY DEF Send
<1> QED BY <1>4, <1>10, <1>11, QueueLimits

\* The sponsor has spent nothing on a job whose redeem may be re-quoted.
LEMMA NothingSpentBeforeRedeem ==
  ASSUME NEW j \in Job, Sound(j), CanRequote(j), BridgeRecovery(j) PROVE j.spent = 0
<1>1. j.spent \in Nat /\ j.recovered \in Nat BY JobFields
<1>2. Debt(j) = 0 /\ At(j) = "wh_redeem" /\ j.confirmed = {}
  BY DEF CanRequote, BridgeRecovery, At
<1>3. ~Collected(j)
  <2>1. SUFFICES ASSUME NEW r \in j.receipts, r.ok, r.tx.step = "collect_fee" PROVE FALSE
    BY DEF Collected
  <2>2. r \in Paid(j) BY <2>1 DEF Paid, SpendSteps
  <2>3. Rank("collect_fee") < Rank("wh_redeem") BY <1>2, <2>1, <2>2 DEF Sound, Behind
  <2> QED BY <2>3, RankOfSteps
<1>4. j.recovered = 0 BY <1>1, <1>3 DEF Sound, Priced
<1> QED BY <1>1, <1>2, <1>4 DEF Debt, Shortfall

LEMMA ApproveQuoteLimits ==
  ASSUME LimitInv, SettlementInv', NEW j \in jobs, ApproveQuote(j) PROVE LimitInv'
<1>1. j \in Job /\ j.plan \in Plan /\ Sound(j) /\ Within(j) BY CurrentIsWithin
<1>2. CanRequote(j) /\ UNCHANGED <<ledger, network>> BY DEF ApproveQuote
<1>3. \E gas \in RequoteGas, redeem \in {0} \cup RequoteGas : \E l, b :
        held' = {[op |-> "requote", new |->
          [j EXCEPT !.plan = [j.plan EXCEPT !.gasMax = j.gasPaid + gas,
                                !.sponsorMax = IF BridgeRecovery(j) THEN redeem
                                               ELSE j.plan.sponsorMax,
                                !.limit["wh_redeem"] = l, !.sponsoredRedeem = b],
                    !.status = j.failedAt, !.failedAt = "none", !.revision = @ + 1]]}
  BY Zenon DEF ApproveQuote
<1>0. PICK gas \in RequoteGas, redeem \in {0} \cup RequoteGas : \E l, b :
        held' = {[op |-> "requote", new |->
          [j EXCEPT !.plan = [j.plan EXCEPT !.gasMax = j.gasPaid + gas,
                                !.sponsorMax = IF BridgeRecovery(j) THEN redeem
                                               ELSE j.plan.sponsorMax,
                                !.limit["wh_redeem"] = l, !.sponsoredRedeem = b],
                    !.status = j.failedAt, !.failedAt = "none", !.revision = @ + 1]]}
  BY <1>3
<1>4. PICK l, b :
        held' = {[op |-> "requote", new |->
          [j EXCEPT !.plan = [j.plan EXCEPT !.gasMax = j.gasPaid + gas,
                                !.sponsorMax = IF BridgeRecovery(j) THEN redeem
                                               ELSE j.plan.sponsorMax,
                                !.limit["wh_redeem"] = l, !.sponsoredRedeem = b],
                    !.status = j.failedAt, !.failedAt = "none", !.revision = @ + 1]]}
  BY <1>0
<1> DEFINE m == IF BridgeRecovery(j) THEN redeem ELSE j.plan.sponsorMax
           p == [j.plan EXCEPT !.gasMax = j.gasPaid + gas, !.sponsorMax = m,
                   !.limit["wh_redeem"] = l, !.sponsoredRedeem = b]
           k == [j EXCEPT !.plan = p, !.status = j.failedAt, !.failedAt = "none",
                          !.revision = @ + 1]
<1>5. held' = {[op |-> "requote", new |-> k]} BY <1>4
<1>6. gas \in Nat /\ redeem \in Nat /\ j.gasPaid \in Nat /\ j.spent \in Nat
  BY <1>1, BoundsAreNumbers, JobFields
<1>7. j.spent <= m
  <2>1. BridgeRecovery(j) => j.spent = 0 BY <1>1, <1>2, NothingSpentBeforeRedeem
  <2>2. j.spent <= j.plan.sponsorMax BY <1>1 DEF Within
  <2> QED BY <1>6, <2>1, <2>2
<1> HIDE DEF m
<1>8. p.gasMax = j.gasPaid + gas /\ p.sponsorMax = m BY <1>1 DEF Plan
<1> HIDE DEF p
<1>9. /\ k.pending = j.pending /\ k.gasPaid = j.gasPaid /\ k.spent = j.spent
      /\ k.plan = p
  BY <1>1 DEF Job
<1> HIDE DEF k
<1>10. k.pending = {} BY <1>2, <1>9 DEF CanRequote
<1>11. Within(k) BY <1>6, <1>7, <1>8, <1>9, <1>10 DEF Within
<1> QED BY <1>2, <1>5, <1>11, QueueLimits

LEMMA CommitLimits ==
  ASSUME LimitInv, SettlementInv', Commit PROVE LimitInv'
<1>1. PICK h \in held : SaveJob(h.new) /\ held' = {} /\ UNCHANGED network BY DEF Commit
<1>2. Within(h.new) BY DEF LimitInv
<1> QED BY <1>1, <1>2, SaveLimits

\* Mining, reorganisations, and what only moves the queue or the network.
LEMMA NetworkLimits ==
  ASSUME LimitInv, SettlementInv',
         \/ Abort \/ Crash \/ UNCHANGED vars \/ Bury \/ Reorg
         \/ \E j \in jobs : OfferQuote(j) \/ Broadcast(j)
         \/ \E t \in mempool : Mine(t) \/ Drop(t)
  PROVE  LimitInv'
<1>0. TypeInv /\ TypeOK BY DEF LimitInv, SettlementInv, JournalInv, TypeInv
<1>1. Records' = Records /\ held' \subseteq held
  BY DEF Abort, Crash, vars, Bury, Reorg, OfferQuote, Broadcast, Mine, Drop, ledger, Records
<1>2. SUFFICES GasLimited' BY <1>1 DEF LimitInv
<1>3. GasLimited BY DEF LimitInv
<1>4. CASE \E t \in mempool : Mine(t)
  <2>1. PICK t \in mempool : Mine(t) BY <1>4
  <2>2. PICK ok \in BOOLEAN, gas \in 1..t.maxGas :
          chain' = Append(chain, [tx |-> t, ok |-> ok, gas |-> gas])
    BY <2>1 DEF Mine
  <2> DEFINE e == [tx |-> t, ok |-> ok, gas |-> gas]
  <2>3. t \in Tx /\ t.maxGas \in Nat BY <1>0 DEF TypeOK, Tx
  <2>4. e \in Entry /\ e.gas <= e.tx.maxGas BY <2>2, <2>3 DEF Entry
  <2>5. chain' = Append(chain, e) BY <2>2
  <2> HIDE DEF e
  <2>6. Len(chain) \in Nat /\ chain \in Seq(Entry) BY <1>0, LenIsNat
  <2>7. /\ Len(chain') = Len(chain) + 1
        /\ \A i \in 1..Len(chain) : chain'[i] = chain[i]
        /\ chain'[Len(chain) + 1] = e
    BY <2>4, <2>5, <2>6, AppendProperties
  <2>8. \A i \in 1..Len(chain') : i \in 1..Len(chain) \/ i = Len(chain) + 1 BY <2>6, <2>7
  <2> QED BY <1>3, <2>4, <2>7, <2>8 DEF GasLimited
<1>5. CASE Reorg
  <2>1. PICK n \in 0..Len(chain) :
          Len(chain') = n /\ \A i \in 1..n : chain'[i] = chain[i]
    BY <1>0, <1>5, ReorgFacts
  <2>2. \A i \in 1..n : i \in 1..Len(chain) BY <1>0, <2>1, LenIsNat
  <2> QED BY <1>3, <2>1, <2>2 DEF GasLimited
<1>6. CASE ~(\E t \in mempool : Mine(t)) /\ ~Reorg
  <2>1. chain' = chain
    BY <1>6 DEF Abort, Crash, vars, Bury, OfferQuote, Broadcast, Drop, network
  <2> QED BY <1>3, <2>1 DEF GasLimited
<1> QED BY <1>4, <1>5, <1>6

-----------------------------------------------------------------------------
(* The theorem. *)

LEMMA InitLimits == Init => LimitInv
BY InitSettles DEF Init, LimitInv, Records, GasLimited

LEMMA NextLimits ==
  ASSUME LimitInv, [Next]_vars PROVE LimitInv'
<1>0. SettlementInv' BY NextSettles DEF LimitInv
<1>1. CASE \E a \in Accounts, p \in Plans : Start(a, p) BY <1>0, <1>1, StartLimits
<1>2. CASE Commit BY <1>0, <1>2, CommitLimits
<1>3. CASE \E j \in jobs : JobStep(j)
  <2>1. PICK j \in jobs : JobStep(j) BY <1>3
  <2>2. CASE PlainStep(j) BY <1>0, <2>2, PlainLimits
  <2>3. CASE Send(j) BY <1>0, <2>3, SendLimits
  <2>4. CASE Broadcast(j) \/ OfferQuote(j) BY <1>0, <2>4, NetworkLimits
  <2>5. CASE Confirm(j) \/ CrashInConfirm(j) BY <1>0, <2>5, ReceiptLimits
  <2>6. CASE ApproveQuote(j) BY <1>0, <2>6, ApproveQuoteLimits
  <2>7. CASE Reset(j) BY <1>0, <2>7, ResetLimits
  <2> QED BY <2>1, <2>2, <2>3, <2>4, <2>5, <2>6, <2>7 DEF JobStep, PlainStep
<1>4. CASE \/ Abort \/ Crash \/ UNCHANGED vars \/ Bury \/ Reorg
           \/ \E t \in mempool : Mine(t) \/ Drop(t)
  BY <1>0, <1>4, NetworkLimits
<1> QED BY <1>1, <1>2, <1>3, <1>4 DEF Next

\* Through every sequence of reverts, Retries, crashes and approved recovery
\* quotes, what a job has paid and the worst case of its transaction in flight
\* stay within the gas and the sponsorship of its plan (funding-v2.js:459-467).
\* A quote that lowers the sponsorship of a redeem is harmless: nothing has been
\* lent before it, because a settlement that repaid would be behind the job.
THEOREM CeilingsHold == Spec => []WithinPlan
<1>1. Init => LimitInv BY InitLimits
<1>2. LimitInv /\ [Next]_vars => LimitInv' BY NextLimits
<1>3. LimitInv => WithinPlan BY DEF LimitInv, WithinPlan
<1> QED BY <1>1, <1>2, <1>3, PTL DEF Spec

-------------------------------------------------------------------------------
(***************************************************************************)
(* Sums over finite sets.  MapThenSumSet adds up along a function that it  *)
(* chooses; there is one, it is the only one, and the order does not       *)
(* matter.                                                                 *)
(***************************************************************************)

\* A set of subsets of a finite set has a minimal member: the least counterexample.
LEMMA MinimalSet ==
  ASSUME NEW S, IsFiniteSet(S), NEW B, B \subseteq SUBSET S, B # {}
  PROVE  \E m \in B : \A t \in B : t \subseteq m => t = m
<1>1. \A T \in SUBSET S : IsFiniteSet(T)
  BY FS_Subset
<1>2. B \subseteq FiniteSubsetsOf(S)
  BY <1>1 DEF FiniteSubsetsOf
<1>3. \E m \in B : \A t \in B : ~ (<<t, m>> \in StrictSubsetOrdering(S))
  BY <1>2, WFMin, FS_StrictSubsetOrderingWellFounded
<1> QED
  BY <1>3 DEF StrictSubsetOrdering

\* The element MapThenSumSet takes out of a set first.
Pick(s) == CHOOSE x \in s : TRUE

\* h sums f over the subsets of S.
Adds(h, f, S) ==
  h = [s \in SUBSET S |-> IF s = {} THEN 0 ELSE f[Pick(s)] + h[s \ {Pick(s)}]]

\* What MapThenSumSet adds up, with the terms as a function.
Sum(f, S) == MapThenSumSet(LAMBDA i : f[i], S)

LEMMA Picked == \A s : s # {} => Pick(s) \in s
  BY DEF Pick

LEMMA AddsStep ==
  ASSUME NEW h, NEW f, NEW S, Adds(h, f, S), NEW s \in SUBSET S
  PROVE  /\ s = {} => h[s] = 0
         /\ s # {} => /\ h[s] = f[Pick(s)] + h[s \ {Pick(s)}]
                      /\ Pick(s) \in s /\ s \ {Pick(s)} \in SUBSET S /\ s \ {Pick(s)} # s
  BY Picked DEF Adds

\* There is at most one such function.
LEMMA AddsOnce ==
  ASSUME NEW f, NEW S, IsFiniteSet(S), NEW g, NEW h, Adds(g, f, S), Adds(h, f, S)
  PROVE  g = h
<1> DEFINE B == {s \in SUBSET S : g[s] # h[s]}
<1>1. ASSUME B # {} PROVE FALSE
  <2>1. PICK m \in B : \A t \in B : t \subseteq m => t = m
    <3>1. B \subseteq SUBSET S
      OBVIOUS
    <3> HIDE DEF B
    <3> QED
      BY <1>1, <3>1, MinimalSet
  <2>2. m # {}
    BY <2>1, AddsStep
  <2>3. m \ {Pick(m)} \notin B
    BY <2>1, <2>2, AddsStep
  <2> QED
    BY <2>1, <2>2, <2>3, AddsStep
<1>2. \A s \in SUBSET S : g[s] = h[s]
  BY <1>1
<1> QED
  BY <1>2 DEF Adds

\* Its restriction sums over the smaller sets.
LEMMA AddsBelow ==
  ASSUME NEW f, NEW S, NEW h, Adds(h, f, S), NEW T \in SUBSET S
  PROVE  Adds([s \in SUBSET T |-> h[s]], f, T)
<1> DEFINE g == [s \in SUBSET T |-> h[s]]
<1>1. ASSUME NEW s \in SUBSET T
      PROVE  g[s] = IF s = {} THEN 0 ELSE f[Pick(s)] + g[s \ {Pick(s)}]
  BY <1>1, AddsStep
<1> QED
  BY <1>1 DEF Adds

\* There is one.
LEMMA AddsExists ==
  ASSUME NEW f, NEW S, IsFiniteSet(S)
  PROVE  \E h : Adds(h, f, S)
<1> DEFINE H(T) == CHOOSE h : Adds(h, f, T)
           B == {T \in SUBSET S : ~ \E h : Adds(h, f, T)}
<1>1. ASSUME B # {} PROVE FALSE
  <2>1. PICK m \in B : \A t \in B : t \subseteq m => t = m
    <3>1. B \subseteq SUBSET S
      OBVIOUS
    <3> HIDE DEF B
    <3> QED
      BY <1>1, <3>1, MinimalSet
  <2>2. \A t \in SUBSET m : t # m => Adds(H(t), f, t) /\ IsFiniteSet(t)
    BY <2>1, FS_Subset
  <2> DEFINE g == [s \in SUBSET m |-> IF s = {} THEN 0
                     ELSE f[Pick(s)] + H(s \ {Pick(s)})[s \ {Pick(s)}]]
  <2>3. ASSUME NEW t \in SUBSET m, t # m PROVE g[t] = H(t)[t]
    <3> HIDE DEF H
    <3>1. Adds(H(t), f, t) /\ IsFiniteSet(t)
      BY <2>2, <2>3
    <3>2. CASE t = {}
      BY <3>1, <3>2, AddsStep
    <3>3. CASE t # {}
      <4> DEFINE u == t \ {Pick(t)}
      <4>1. u \in SUBSET t /\ u # m /\ u \in SUBSET m
        BY <3>3, Picked
      <4>2. Adds(H(u), f, u) /\ IsFiniteSet(u)
        BY <4>1, <2>2
      <4>3. Adds([s \in SUBSET u |-> H(t)[s]], f, u)
        BY <4>1, <3>1, AddsBelow
      <4>4. H(u) = [s \in SUBSET u |-> H(t)[s]]
        BY <4>2, <4>3, AddsOnce
      <4>5. H(u)[u] = H(t)[u]
        BY <4>4
      <4>6. H(t)[t] = f[Pick(t)] + H(t)[u]
        BY <3>1, <3>3, AddsStep
      <4>7. g[t] = f[Pick(t)] + H(u)[u]
        BY <3>3
      <4> QED
        BY <4>5, <4>6, <4>7
    <3> QED
      BY <3>2, <3>3
  <2>4. ASSUME NEW s \in SUBSET m, s # {}
        PROVE  g[s] = f[Pick(s)] + g[s \ {Pick(s)}]
    <3> HIDE DEF H
    <3>1. s \ {Pick(s)} \in SUBSET m /\ s \ {Pick(s)} # m
      BY <2>4, Picked
    <3>2. g[s \ {Pick(s)}] = H(s \ {Pick(s)})[s \ {Pick(s)}]
      BY <3>1, <2>3
    <3>3. g[s] = f[Pick(s)] + H(s \ {Pick(s)})[s \ {Pick(s)}]
      BY <2>4
    <3> QED
      BY <3>2, <3>3
  <2>5. g[{}] = 0
    OBVIOUS
  <2>6. g = [s \in SUBSET m |-> IF s = {} THEN 0 ELSE f[Pick(s)] + g[s \ {Pick(s)}]]
    <3> HIDE DEF g
    <3>1. \A s \in SUBSET m : g[s] = IF s = {} THEN 0 ELSE f[Pick(s)] + g[s \ {Pick(s)}]
      BY <2>4, <2>5
    <3>2. g = [s \in SUBSET m |-> g[s]]
      BY DEF g
    <3> QED
      BY <3>1, <3>2
  <2>7. Adds(g, f, m)
    BY <2>6 DEF Adds
  <2> QED
    BY <2>1, <2>7
<1>2. S \notin B
  BY <1>1
<1> QED
  BY <1>2

\* So the sum is its value at the whole set.
LEMMA SumIs ==
  ASSUME NEW f, NEW S, IsFiniteSet(S), NEW h, Adds(h, f, S)
  PROVE  Sum(f, S) = h[S]
<1> DEFINE G == CHOOSE g : Adds(g, f, S)
<1>1. Sum(f, S) = G[S]
  BY DEF Sum, MapThenSumSet, MapThenFoldSet, Adds, Pick
<1>2. Adds(G, f, S)
  OBVIOUS
<1>3. G = h
  <2> HIDE DEF G
  <2> QED BY <1>2, AddsOnce
<1> QED
  BY <1>1, <1>3

\* The equation that defines a sum.
LEMMA SumSteps ==
  ASSUME NEW f, NEW S, IsFiniteSet(S), S # {}
  PROVE  /\ Sum(f, S) = f[Pick(S)] + Sum(f, S \ {Pick(S)})
         /\ Pick(S) \in S
<1>1. PICK h : Adds(h, f, S)
  BY AddsExists
<1> DEFINE T == S \ {Pick(S)}
<1>2. T \in SUBSET S /\ IsFiniteSet(T)
  BY FS_Subset
<1>3. Adds([s \in SUBSET T |-> h[s]], f, T)
  BY <1>1, <1>2, AddsBelow
<1>4. Sum(f, T) = h[T]
  BY <1>2, <1>3, SumIs
<1>5. Sum(f, S) = h[S]
  BY <1>1, SumIs
<1>6. h[S] = f[Pick(S)] + h[T]
  BY <1>1, AddsStep
<1> QED
  BY <1>4, <1>5, <1>6, Picked

LEMMA SumEmpty == ASSUME NEW f PROVE Sum(f, {}) = 0
<1>1. PICK h : Adds(h, f, {})
  BY AddsExists, FS_EmptySet
<1>2. Sum(f, {}) = h[{}]
  BY <1>1, SumIs, FS_EmptySet
<1> QED
  BY <1>1, <1>2, AddsStep

\* A sum of integers, or of naturals, is one.
LEMMA SumInt ==
  ASSUME NEW f, NEW S, IsFiniteSet(S), \A x \in S : f[x] \in Int
  PROVE  Sum(f, S) \in Int
<1> DEFINE B == {T \in SUBSET S : Sum(f, T) \notin Int}
<1>1. ASSUME B # {} PROVE FALSE
  <2>0. B \subseteq SUBSET S
    OBVIOUS
  <2>1. PICK m \in B : \A t \in B : t \subseteq m => t = m
    <3> HIDE DEF B
    <3> QED
      BY <1>1, <2>0, MinimalSet
  <2>2. m # {} /\ IsFiniteSet(m)
    <3>1. Sum(f, {}) = 0 /\ 0 \in Int
      BY SumEmpty
    <3>2. Sum(f, m) \notin Int
      BY <2>1
    <3> QED
      BY <2>1, <3>1, <3>2, FS_Subset
  <2>3. Sum(f, m) = f[Pick(m)] + Sum(f, m \ {Pick(m)}) /\ Pick(m) \in m
    BY <2>2, SumSteps
  <2>4. Sum(f, m \ {Pick(m)}) \in Int
    BY <2>1, <2>3
  <2>5. f[Pick(m)] \in Int
    BY <2>1, <2>3
  <2> QED
    BY <2>1, <2>3, <2>4, <2>5
<1> QED
  BY <1>1

LEMMA SumNat ==
  ASSUME NEW f, NEW S, IsFiniteSet(S), \A x \in S : f[x] \in Nat
  PROVE  Sum(f, S) \in Nat
<1> DEFINE B == {T \in SUBSET S : Sum(f, T) \notin Nat}
<1>1. ASSUME B # {} PROVE FALSE
  <2>0. B \subseteq SUBSET S
    OBVIOUS
  <2>1. PICK m \in B : \A t \in B : t \subseteq m => t = m
    <3> HIDE DEF B
    <3> QED
      BY <1>1, <2>0, MinimalSet
  <2>2. m # {} /\ IsFiniteSet(m)
    <3>1. Sum(f, {}) = 0 /\ 0 \in Nat
      BY SumEmpty
    <3>2. Sum(f, m) \notin Nat
      BY <2>1
    <3> QED
      BY <2>1, <3>1, <3>2, FS_Subset
  <2>3. Sum(f, m) = f[Pick(m)] + Sum(f, m \ {Pick(m)}) /\ Pick(m) \in m
    BY <2>2, SumSteps
  <2>4. Sum(f, m \ {Pick(m)}) \in Nat
    BY <2>1, <2>3
  <2>5. f[Pick(m)] \in Nat
    BY <2>1, <2>3
  <2> QED
    BY <2>1, <2>3, <2>4, <2>5
<1> QED
  BY <1>1

\* Any element may be taken out first.
LEMMA SumRemove ==
  ASSUME NEW f, NEW S, IsFiniteSet(S), \A x \in S : f[x] \in Int, NEW x \in S
  PROVE  Sum(f, S) = f[x] + Sum(f, S \ {x})
<1> DEFINE B == {T \in SUBSET S : \E y \in T : Sum(f, T) # f[y] + Sum(f, T \ {y})}
<1>1. ASSUME B # {} PROVE FALSE
  <2>0. B \subseteq SUBSET S
    OBVIOUS
  <2>1. PICK m \in B : \A t \in B : t \subseteq m => t = m
    <3> HIDE DEF B
    <3> QED
      BY <1>1, <2>0, MinimalSet
  <2>2. PICK y \in m : Sum(f, m) # f[y] + Sum(f, m \ {y})
    BY <2>1
  <2> DEFINE c == Pick(m)
  <2>3. IsFiniteSet(m) /\ \A t \in SUBSET m : IsFiniteSet(t)
    BY <2>1, FS_Subset
  <2>4. Sum(f, m) = f[c] + Sum(f, m \ {c}) /\ c \in m /\ c # y
    BY <2>2, <2>3, SumSteps
  <2>5. m \ {c} \notin B /\ m \ {y} \notin B
    BY <2>1, <2>2, <2>4
  <2>6. Sum(f, m \ {c}) = f[y] + Sum(f, (m \ {c}) \ {y})
    BY <2>1, <2>2, <2>4, <2>5
  <2>7. Sum(f, m \ {y}) = f[c] + Sum(f, (m \ {y}) \ {c})
    BY <2>1, <2>2, <2>4, <2>5
  <2>8. (m \ {y}) \ {c} = (m \ {c}) \ {y}
    OBVIOUS
  <2>9. Sum(f, (m \ {c}) \ {y}) \in Int
    <3>1. IsFiniteSet((m \ {c}) \ {y})
      BY <2>3
    <3>2. \A z \in (m \ {c}) \ {y} : f[z] \in Int
      BY <2>1
    <3> QED
      BY <3>1, <3>2, SumInt
  <2>10. f[c] \in Int /\ f[y] \in Int
    BY <2>1, <2>2, <2>4
  <2> HIDE DEF c
  <2> QED
    BY <2>2, <2>4, <2>6, <2>7, <2>8, <2>9, <2>10
<1>2. S \notin B
  BY <1>1
<1> QED
  BY <1>2

\* A sum depends on the values at its elements alone.
LEMMA SumAgree ==
  ASSUME NEW f, NEW g, NEW S, IsFiniteSet(S), \A x \in S : f[x] = g[x]
  PROVE  Sum(f, S) = Sum(g, S)
<1> DEFINE B == {T \in SUBSET S : Sum(f, T) # Sum(g, T)}
<1>1. ASSUME B # {} PROVE FALSE
  <2>0. B \subseteq SUBSET S
    OBVIOUS
  <2>1. PICK m \in B : \A t \in B : t \subseteq m => t = m
    <3> HIDE DEF B
    <3> QED
      BY <1>1, <2>0, MinimalSet
  <2>2. m # {} /\ IsFiniteSet(m)
    <3>1. m # {}
      BY <2>1, SumEmpty
    <3> QED
      BY <2>1, <3>1, FS_Subset
  <2>3. Sum(f, m) = f[Pick(m)] + Sum(f, m \ {Pick(m)}) /\ Pick(m) \in m
    BY <2>2, SumSteps
  <2>4. Sum(g, m) = g[Pick(m)] + Sum(g, m \ {Pick(m)})
    BY <2>2, SumSteps
  <2>5. Sum(f, m \ {Pick(m)}) = Sum(g, m \ {Pick(m)})
    BY <2>1, <2>3
  <2>6. f[Pick(m)] = g[Pick(m)]
    BY <2>1, <2>3
  <2> QED
    BY <2>1, <2>3, <2>4, <2>5, <2>6
<1> QED
  BY <1>1

\* A new element adds its value.
LEMMA SumAdd ==
  ASSUME NEW f, NEW S, IsFiniteSet(S), NEW x, x \notin S, \A y \in S \cup {x} : f[y] \in Int
  PROVE  Sum(f, S \cup {x}) = f[x] + Sum(f, S)
<1>1. IsFiniteSet(S \cup {x}) /\ (S \cup {x}) \ {x} = S
  BY FS_AddElement
<1> QED
  BY <1>1, SumRemove

-------------------------------------------------------------------------------
(***************************************************************************)
(* The ledger's totals.  A record's totals are the sums over its receipts' *)
(* places in the chain, which are deep enough to stay there.               *)
(***************************************************************************)

\* What the entries of a chain add to the totals of their jobs.
GasIn(c)       == [i \in 1..Len(c) |-> GasOf(c[i].tx, c[i].ok, c[i].gas)]
SpentIn(c)     == [i \in 1..Len(c) |-> SpentOf(c[i].tx, c[i].ok, c[i].gas)]
RecoveredIn(c) == [i \in 1..Len(c) |-> RecoveredOf(c[i].tx, c[i].ok, c[i].gas)]

\* Where the transactions of j's receipts are.
Places(j) == {i \in 1..deep : \E r \in j.receipts : r.tx = chain[i].tx}

Booked(j) ==
  /\ \A t \in j.pending, r \in j.receipts : r.tx # t
  /\ j.gasPaid = Sum(GasIn(chain), Places(j))
  /\ j.spent = Sum(SpentIn(chain), Places(j))
  /\ j.recovered = Sum(RecoveredIn(chain), Places(j))

BooksInv ==
  /\ LimitInv
  /\ \A j \in Records : Booked(j)
  /\ \A h \in held : Booked(h.new)

-----------------------------------------------------------------------------
(* The sums of the model. *)

\* The totals of LedgerMatchesChain are sums of these functions.
LEMMA GasTotal ==
  ASSUME NEW c, NEW S, S \subseteq 1..Len(c), IsFiniteSet(S)
  PROVE  MapThenSumSet(LAMBDA i : GasOf(c[i].tx, c[i].ok, c[i].gas), S) = Sum(GasIn(c), S)
<1> DEFINE A(i) == GasOf(c[i].tx, c[i].ok, c[i].gas)
           D(h) == h = [s \in SUBSET S |-> IF s = {} THEN 0 ELSE A(Pick(s)) + h[s \ {Pick(s)}]]
           G == CHOOSE h : D(h)
<1>1. MapThenSumSet(LAMBDA i : A(i), S) = G[S]
  BY DEF MapThenSumSet, MapThenFoldSet, Pick
<1>2. \A s \in SUBSET S : s # {} => GasIn(c)[Pick(s)] = A(Pick(s))
  BY Picked DEF GasIn
<1> HIDE DEF A
<1>3. ASSUME NEW h, D(h) \/ Adds(h, GasIn(c), S) PROVE D(h) /\ Adds(h, GasIn(c), S)
  <2>1. \A s \in SUBSET S : (IF s = {} THEN 0 ELSE GasIn(c)[Pick(s)] + h[s \ {Pick(s)}])
                              = IF s = {} THEN 0 ELSE A(Pick(s)) + h[s \ {Pick(s)}]
    BY <1>2
  <2>2. [s \in SUBSET S |-> IF s = {} THEN 0 ELSE GasIn(c)[Pick(s)] + h[s \ {Pick(s)}]]
          = [s \in SUBSET S |-> IF s = {} THEN 0 ELSE A(Pick(s)) + h[s \ {Pick(s)}]]
    BY <2>1
  <2> QED
    BY <1>3, <2>2 DEF Adds
<1>4. PICK h : Adds(h, GasIn(c), S)
  BY AddsExists
<1>5. D(h)
  BY <1>3, <1>4
<1>6. D(G)
  <2> HIDE DEF D
  <2> QED
    BY <1>5
<1>7. Adds(G, GasIn(c), S)
  <2> HIDE DEF D, G
  <2> QED
    BY <1>3, <1>6
<1> HIDE DEF G
<1>8. Sum(GasIn(c), S) = G[S]
  BY <1>7, SumIs
<1> QED
  BY <1>1, <1>8 DEF A

LEMMA SpentTotal ==
  ASSUME NEW c, NEW S, S \subseteq 1..Len(c), IsFiniteSet(S)
  PROVE  MapThenSumSet(LAMBDA i : SpentOf(c[i].tx, c[i].ok, c[i].gas), S) = Sum(SpentIn(c), S)
<1> DEFINE A(i) == SpentOf(c[i].tx, c[i].ok, c[i].gas)
           D(h) == h = [s \in SUBSET S |-> IF s = {} THEN 0 ELSE A(Pick(s)) + h[s \ {Pick(s)}]]
           G == CHOOSE h : D(h)
<1>1. MapThenSumSet(LAMBDA i : A(i), S) = G[S]
  BY DEF MapThenSumSet, MapThenFoldSet, Pick
<1>2. \A s \in SUBSET S : s # {} => SpentIn(c)[Pick(s)] = A(Pick(s))
  BY Picked DEF SpentIn
<1> HIDE DEF A
<1>3. ASSUME NEW h, D(h) \/ Adds(h, SpentIn(c), S) PROVE D(h) /\ Adds(h, SpentIn(c), S)
  <2>1. \A s \in SUBSET S : (IF s = {} THEN 0 ELSE SpentIn(c)[Pick(s)] + h[s \ {Pick(s)}])
                              = IF s = {} THEN 0 ELSE A(Pick(s)) + h[s \ {Pick(s)}]
    BY <1>2
  <2>2. [s \in SUBSET S |-> IF s = {} THEN 0 ELSE SpentIn(c)[Pick(s)] + h[s \ {Pick(s)}]]
          = [s \in SUBSET S |-> IF s = {} THEN 0 ELSE A(Pick(s)) + h[s \ {Pick(s)}]]
    BY <2>1
  <2> QED
    BY <1>3, <2>2 DEF Adds
<1>4. PICK h : Adds(h, SpentIn(c), S)
  BY AddsExists
<1>5. D(h)
  BY <1>3, <1>4
<1>6. D(G)
  <2> HIDE DEF D
  <2> QED
    BY <1>5
<1>7. Adds(G, SpentIn(c), S)
  <2> HIDE DEF D, G
  <2> QED
    BY <1>3, <1>6
<1> HIDE DEF G
<1>8. Sum(SpentIn(c), S) = G[S]
  BY <1>7, SumIs
<1> QED
  BY <1>1, <1>8 DEF A

LEMMA RecoveredTotal ==
  ASSUME NEW c, NEW S, S \subseteq 1..Len(c), IsFiniteSet(S)
  PROVE  MapThenSumSet(LAMBDA i : RecoveredOf(c[i].tx, c[i].ok, c[i].gas), S) = Sum(RecoveredIn(c), S)
<1> DEFINE A(i) == RecoveredOf(c[i].tx, c[i].ok, c[i].gas)
           D(h) == h = [s \in SUBSET S |-> IF s = {} THEN 0 ELSE A(Pick(s)) + h[s \ {Pick(s)}]]
           G == CHOOSE h : D(h)
<1>1. MapThenSumSet(LAMBDA i : A(i), S) = G[S]
  BY DEF MapThenSumSet, MapThenFoldSet, Pick
<1>2. \A s \in SUBSET S : s # {} => RecoveredIn(c)[Pick(s)] = A(Pick(s))
  BY Picked DEF RecoveredIn
<1> HIDE DEF A
<1>3. ASSUME NEW h, D(h) \/ Adds(h, RecoveredIn(c), S) PROVE D(h) /\ Adds(h, RecoveredIn(c), S)
  <2>1. \A s \in SUBSET S : (IF s = {} THEN 0 ELSE RecoveredIn(c)[Pick(s)] + h[s \ {Pick(s)}])
                              = IF s = {} THEN 0 ELSE A(Pick(s)) + h[s \ {Pick(s)}]
    BY <1>2
  <2>2. [s \in SUBSET S |-> IF s = {} THEN 0 ELSE RecoveredIn(c)[Pick(s)] + h[s \ {Pick(s)}]]
          = [s \in SUBSET S |-> IF s = {} THEN 0 ELSE A(Pick(s)) + h[s \ {Pick(s)}]]
    BY <2>1
  <2> QED
    BY <1>3, <2>2 DEF Adds
<1>4. PICK h : Adds(h, RecoveredIn(c), S)
  BY AddsExists
<1>5. D(h)
  BY <1>3, <1>4
<1>6. D(G)
  <2> HIDE DEF D
  <2> QED
    BY <1>5
<1>7. Adds(G, RecoveredIn(c), S)
  <2> HIDE DEF D, G
  <2> QED
    BY <1>3, <1>6
<1> HIDE DEF G
<1>8. Sum(RecoveredIn(c), S) = G[S]
  BY <1>7, SumIs
<1> QED
  BY <1>1, <1>8 DEF A

-----------------------------------------------------------------------------
(* What keeps a record's totals true. *)

LEMMA PlacesFinite ==
  ASSUME TypeOK, NEW j
  PROVE  /\ Places(j) \subseteq 1..Len(chain) /\ IsFiniteSet(Places(j))
         /\ Places(j) \subseteq 1..deep /\ IsFiniteSet(1..deep)
<1>1. Len(chain) \in Nat /\ deep \in Nat /\ deep <= Len(chain)
  BY LenIsNat DEF TypeOK
<1>2. IsFiniteSet(1..deep)
  BY <1>1, FS_Interval
<1>3. Places(j) \subseteq 1..deep
  BY DEF Places
<1>4. IsFiniteSet(Places(j))
  BY <1>2, <1>3, FS_Subset
<1> QED
  BY <1>1, <1>2, <1>3, <1>4

LEMMA AmountTypes ==
  ASSUME TypeOK, NEW i \in 1..Len(chain)
  PROVE  /\ GasIn(chain)[i] \in Nat /\ SpentIn(chain)[i] \in Nat /\ RecoveredIn(chain)[i] \in Nat
         /\ GasIn(chain)[i] = GasOf(chain[i].tx, chain[i].ok, chain[i].gas)
         /\ SpentIn(chain)[i] = SpentOf(chain[i].tx, chain[i].ok, chain[i].gas)
         /\ RecoveredIn(chain)[i] = RecoveredOf(chain[i].tx, chain[i].ok, chain[i].gas)
<1>1. chain[i].tx \in Tx /\ chain[i].ok \in BOOLEAN /\ chain[i].gas \in Nat
  BY ChainType
<1> QED
  BY <1>1 DEF GasIn, SpentIn, RecoveredIn, GasOf, SpentOf, RecoveredOf, Tx

LEMMA SameCostsBooked ==
  ASSUME NEW j, NEW k, Booked(j), SameCosts(j, k) PROVE Booked(k)
<1>1. Places(k) = Places(j)
  BY DEF SameCosts, Places
<1> QED
  BY <1>1 DEF SameCosts, Booked

\* The network only grows behind the final blocks, or forgets what is not final.
LEMMA NetworkBooked ==
  ASSUME TypeOK, TypeOK', NEW j, Booked(j), Places(j)' = Places(j),
         \A i \in 1..deep : chain'[i] = chain[i] /\ i \in 1..Len(chain')
  PROVE  Booked(j)'
<1> DEFINE P == Places(j)
<1>1. IsFiniteSet(P) /\ P \subseteq 1..Len(chain) /\ P \subseteq 1..deep
  BY PlacesFinite
<1>2. \A i \in P : i \in 1..Len(chain) /\ i \in 1..Len(chain') /\ chain'[i] = chain[i]
  BY <1>1
<1>3. \A i \in P : /\ GasIn(chain')[i] = GasIn(chain)[i]
                   /\ SpentIn(chain')[i] = SpentIn(chain)[i]
                   /\ RecoveredIn(chain')[i] = RecoveredIn(chain)[i]
  BY <1>2 DEF GasIn, SpentIn, RecoveredIn
<1> HIDE DEF P
<1>4. /\ Sum(GasIn(chain'), P) = Sum(GasIn(chain), P)
      /\ Sum(SpentIn(chain'), P) = Sum(SpentIn(chain), P)
      /\ Sum(RecoveredIn(chain'), P) = Sum(RecoveredIn(chain), P)
  BY <1>1, <1>3, SumAgree
<1> QED
  BY <1>4 DEF Booked, P

LEMMA SavedBooked ==
  ASSUME BooksInv, LimitInv', NEW k, SaveJob(k), Booked(k), held' \subseteq held,
         UNCHANGED network
  PROVE  BooksInv'
<1>1. \A i \in Records' : i \in Records \/ i = k
  BY DEF SaveJob, Records
<1>2. \A i : Booked(i)' <=> Booked(i)
  BY DEF network, Booked, Places
<1> QED
  BY <1>1, <1>2 DEF BooksInv

LEMMA QueuedBooked ==
  ASSUME BooksInv, LimitInv', UNCHANGED <<ledger, network>>,
         \A h \in held' : Booked(h.new)
  PROVE  BooksInv'
<1>1. Records' = Records
  BY DEF ledger, Records
<1>2. \A i : Booked(i)' <=> Booked(i)
  BY DEF network, Booked, Places
<1> QED
  BY <1>1, <1>2 DEF BooksInv

LEMMA BooksFacts ==
  ASSUME BooksInv
  PROVE  /\ LimitInv /\ SettlementInv /\ JournalInv /\ TypeInv /\ TypeOK
         /\ \A j \in Records : Tidy(j) /\ Backed(j) /\ Booked(j) /\ j \in Job
<1>1. LimitInv /\ SettlementInv /\ JournalInv /\ TypeInv /\ TypeOK
  BY DEF BooksInv, LimitInv, SettlementInv, JournalInv, TypeInv
<1> QED
  BY <1>1, RecordsType DEF BooksInv, SettlementInv, JournalInv

\* The receipt adds its entry of the chain, once.
LEMMA ReceiptBooked ==
  ASSUME BooksInv, NEW j \in Records, NEW m \in 1..deep, chain[m].tx \in j.pending,
         NEW r \in Receipt, r.tx = chain[m].tx, r.ok = chain[m].ok
  PROVE  LET k == Recorded(j, r, chain[m].gas) IN Booked(k) /\ Booked(Reverted(k))
<1> DEFINE k == Recorded(j, r, chain[m].gas)
           P == Places(j)
<1>0. SettlementInv /\ TypeOK /\ j \in Job /\ Booked(j)
  BY BooksFacts
<1>1. m \in 1..Len(chain)
  BY <1>0, LenIsNat DEF TypeOK
<1>2. chain[m].tx \in Tx /\ chain[m].ok \in BOOLEAN /\ chain[m].gas \in Nat
  BY <1>0, <1>1, ChainType
<1>3. k \in Job
  BY <1>0, <1>2, RecordedType
<1>4. /\ k.pending = {} /\ k.receipts = j.receipts \cup {r}
      /\ k.gasPaid = j.gasPaid + GasIn(chain)[m]
      /\ k.spent = j.spent + SpentIn(chain)[m]
      /\ k.recovered = j.recovered + RecoveredIn(chain)[m]
  BY <1>0, <1>1, <1>2, <1>3, AmountTypes DEF Recorded, Job
<1>5. m \notin P
  BY <1>0 DEF Booked, Places
<1>6. Places(k) = P \cup {m}
  <2>1. \A i \in 1..deep : i \in 1..Len(chain)
    BY <1>0, LenIsNat DEF TypeOK
  <2>2. \A i \in 1..deep : chain[i].tx = chain[m].tx => i = m
    BY <1>0, <1>1, <2>1, ChainHasNoTwins
  <2> HIDE DEF k
  <2> QED
    BY <1>4, <2>2 DEF Places
<1>7. IsFiniteSet(P) /\ P \subseteq 1..Len(chain)
  BY <1>0, PlacesFinite
<1>8. \A i \in P \cup {m} : /\ GasIn(chain)[i] \in Int
                            /\ SpentIn(chain)[i] \in Int
                            /\ RecoveredIn(chain)[i] \in Int
  BY <1>0, <1>1, <1>7, AmountTypes
<1> HIDE DEF P
<1>9. /\ Sum(GasIn(chain), P \cup {m}) = GasIn(chain)[m] + Sum(GasIn(chain), P)
      /\ Sum(SpentIn(chain), P \cup {m}) = SpentIn(chain)[m] + Sum(SpentIn(chain), P)
      /\ Sum(RecoveredIn(chain), P \cup {m})
           = RecoveredIn(chain)[m] + Sum(RecoveredIn(chain), P)
  BY <1>5, <1>7, <1>8, SumAdd
<1>10. /\ j.gasPaid = Sum(GasIn(chain), P) /\ j.gasPaid \in Nat
       /\ j.spent = Sum(SpentIn(chain), P) /\ j.spent \in Nat
       /\ j.recovered = Sum(RecoveredIn(chain), P) /\ j.recovered \in Nat
  BY <1>0, JobFields DEF Booked, P
<1>11. GasIn(chain)[m] \in Nat /\ SpentIn(chain)[m] \in Nat /\ RecoveredIn(chain)[m] \in Nat
  BY <1>0, <1>1, AmountTypes
<1> HIDE DEF k
<1>12. /\ k.gasPaid = Sum(GasIn(chain), Places(k))
       /\ k.spent = Sum(SpentIn(chain), Places(k))
       /\ k.recovered = Sum(RecoveredIn(chain), Places(k))
  BY <1>4, <1>6, <1>9, <1>10, <1>11
<1>13. Booked(k)
  BY <1>4, <1>12 DEF Booked
<1>14. SameCosts(k, Reverted(k))
  BY <1>3 DEF Reverted, Job, SameCosts
<1> QED
  BY <1>13, <1>14, SameCostsBooked DEF k

-----------------------------------------------------------------------------
(* The actions. *)

LEMMA PlainBooks ==
  ASSUME BooksInv, LimitInv', NEW j \in jobs, PlainStep(j) PROVE BooksInv'
<1>1. j \in Job /\ Booked(j)
  BY BooksFacts DEF Records
<1>2. PICK k : SaveJob(k) /\ SameCosts(j, k)
  BY <1>1, PlainStepSaves DEF Carries
<1>3. held' = held /\ UNCHANGED network
  BY DEF PlainStep, Skip, Finish, Fail, Resume, SolSend, SolExpire, SolNext,
         PollGuardians, AutoRedeem, PrepareTap, TapDone
<1> QED
  BY <1>1, <1>2, <1>3, SameCostsBooked, SavedBooked

LEMMA ConfirmBooks ==
  ASSUME BooksInv, LimitInv', NEW j \in jobs, Confirm(j) \/ CrashInConfirm(j)
  PROVE  BooksInv'
<1>0. j \in Records /\ TypeOK
  BY BooksFacts DEF Records
<1>1. \A m \in 1..deep : chain[m].tx \in j.pending =>
        LET k == Recorded(j, [tx |-> chain[m].tx, ok |-> chain[m].ok], chain[m].gas)
        IN  Booked(k) /\ Booked(Reverted(k))
  <2>1. SUFFICES ASSUME NEW m \in 1..deep, chain[m].tx \in j.pending
                 PROVE  LET k == Recorded(j, [tx |-> chain[m].tx, ok |-> chain[m].ok],
                                          chain[m].gas)
                        IN  Booked(k) /\ Booked(Reverted(k))
    OBVIOUS
  <2> DEFINE r == [tx |-> chain[m].tx, ok |-> chain[m].ok]
  <2>2. m \in 1..Len(chain)
    BY <1>0, LenIsNat DEF TypeOK
  <2>3. r \in Receipt /\ r.tx = chain[m].tx /\ r.ok = chain[m].ok
    BY <1>0, <2>2, ChainType DEF Receipt
  <2> HIDE DEF r
  <2>4. Booked(Recorded(j, r, chain[m].gas)) /\ Booked(Reverted(Recorded(j, r, chain[m].gas)))
    BY <1>0, <2>1, <2>3, ReceiptBooked
  <2> QED
    BY <2>4 DEF r
<1>2. CASE Confirm(j)
  <2>1. PICK m \in 1..deep :
          /\ chain[m].tx \in j.pending
          /\ LET k == Recorded(j, [tx |-> chain[m].tx, ok |-> chain[m].ok], chain[m].gas)
             IN  SaveJob(IF chain[m].ok THEN k ELSE Reverted(k))
    BY <1>2 DEF Confirm, Final
  <2> DEFINE k == Recorded(j, [tx |-> chain[m].tx, ok |-> chain[m].ok], chain[m].gas)
  <2>2. Booked(k) /\ Booked(Reverted(k))
    BY <1>1, <2>1
  <2>3. SaveJob(k) \/ SaveJob(Reverted(k))
    BY <2>1
  <2>4. held' = held /\ UNCHANGED network
    BY <1>2 DEF Confirm
  <2> HIDE DEF k
  <2> QED
    BY <2>2, <2>3, <2>4, SavedBooked
<1>3. CASE CrashInConfirm(j)
  <2>1. PICK m \in 1..deep :
          /\ chain[m].tx \in j.pending /\ ~chain[m].ok
          /\ jobs' = (jobs \ {j}) \cup {Recorded(j, [tx |-> chain[m].tx, ok |-> FALSE],
                                                 chain[m].gas)}
    BY <1>3 DEF CrashInConfirm, Final
  <2>2. m \in 1..Len(chain)
    BY <1>0, LenIsNat DEF TypeOK
  <2>3. chain[m].ok = FALSE
    BY <1>0, <2>1, <2>2, ChainType
  <2> DEFINE k == Recorded(j, [tx |-> chain[m].tx, ok |-> FALSE], chain[m].gas)
  <2>4. Booked(k)
    BY <1>1, <2>1, <2>3
  <2>5. jobs' = (jobs \ {j}) \cup {k} /\ held' = {} /\ past' = past /\ UNCHANGED network
    BY <1>3, <2>1 DEF CrashInConfirm
  <2> HIDE DEF k
  <2>6. \A i \in Records' : i \in Records \/ i = k
    BY <2>5 DEF Records
  <2>7. \A i : Booked(i)' <=> Booked(i)
    BY <2>5 DEF network, Booked, Places
  <2> QED
    BY <2>4, <2>5, <2>6, <2>7 DEF BooksInv
<1> QED
  BY <1>2, <1>3

LEMMA ResetBooks ==
  ASSUME BooksInv, LimitInv', NEW j \in jobs, Reset(j) PROVE BooksInv'
<1>1. j \in Job /\ Booked(j)
  BY BooksFacts DEF Records
<1> DEFINE k == [j EXCEPT !.released = TRUE]
<1>2. /\ jobs' = jobs \ {j} /\ past' = past \cup {k} /\ held' = held
      /\ UNCHANGED network
  BY DEF Reset
<1>3. SameCosts(j, k)
  BY <1>1, ExceptSameCosts
<1> HIDE DEF k
<1>4. Booked(k)
  BY <1>1, <1>3, SameCostsBooked
<1>5. \A i \in Records' : i \in Records \/ i = k
  BY <1>2 DEF Records
<1>6. \A i : Booked(i)' <=> Booked(i)
  BY <1>2 DEF network, Booked, Places
<1> QED
  BY <1>2, <1>4, <1>5, <1>6 DEF BooksInv

LEMMA StartBooks ==
  ASSUME BooksInv, LimitInv', NEW a \in Accounts, NEW p \in Plans, Start(a, p)
  PROVE  BooksInv'
<1> DEFINE k == NewJob(lastId + 1, a, p)
<1>1. /\ k.gasPaid = 0 /\ k.spent = 0 /\ k.recovered = 0
      /\ k.pending = {} /\ k.receipts = {}
  BY DEF NewJob
<1>2. held' = {[op |-> "start", new |-> k]} /\ UNCHANGED <<ledger, network>>
  BY DEF Start
<1> HIDE DEF k
<1>3. Places(k) = {}
  BY <1>1 DEF Places
<1>4. Booked(k)
  BY <1>1, <1>3, SumEmpty DEF Booked
<1> QED
  BY <1>2, <1>4, QueuedBooked

\* A transaction that is signed has a nonce of its own, so no receipt is of it.
LEMMA SendBooks ==
  ASSUME BooksInv, LimitInv', NEW j \in jobs, Send(j) PROVE BooksInv'
<1>1. j \in Job /\ Booked(j) /\ j \in Records /\ TypeInv /\ JournalInv
  BY BooksFacts DEF Records
<1>2. PICK c \in Terms(j), gas \in 1..j.plan.limit[j.status] :
        LET w == IF c.sponsored THEN Sponsor ELSE j.acct
        IN  \E seen \in Counts(w) : \E n \in NonceFloor(w, seen) :
              /\ IsNextNonce(n, w, seen)
              /\ held' = {[op |-> "send", new |-> [j EXCEPT !.pending =
                   {[id |-> j.id, from |-> w, nonce |-> n, step |-> j.status,
                     sponsored |-> c.sponsored, value |-> c.value, advance |-> c.advance,
                     recovered |-> c.recovered, maxGas |-> gas]}]]}
  BY DEF Send
<1> DEFINE w == IF c.sponsored THEN Sponsor ELSE j.acct
<1>3. PICK seen \in Counts(w) : \E n \in NonceFloor(w, seen) :
        /\ IsNextNonce(n, w, seen)
        /\ held' = {[op |-> "send", new |-> [j EXCEPT !.pending =
             {[id |-> j.id, from |-> w, nonce |-> n, step |-> j.status,
               sponsored |-> c.sponsored, value |-> c.value, advance |-> c.advance,
               recovered |-> c.recovered, maxGas |-> gas]}]]}
  BY <1>2
<1>4. PICK n \in NonceFloor(w, seen) :
        /\ IsNextNonce(n, w, seen)
        /\ held' = {[op |-> "send", new |-> [j EXCEPT !.pending =
             {[id |-> j.id, from |-> w, nonce |-> n, step |-> j.status,
               sponsored |-> c.sponsored, value |-> c.value, advance |-> c.advance,
               recovered |-> c.recovered, maxGas |-> gas]}]]}
  BY <1>3
<1> HIDE DEF w
<1> DEFINE t == [id |-> j.id, from |-> w, nonce |-> n, step |-> j.status,
                 sponsored |-> c.sponsored, value |-> c.value, advance |-> c.advance,
                 recovered |-> c.recovered, maxGas |-> gas]
           k == [j EXCEPT !.pending = {t}]
<1>5. held' = {[op |-> "send", new |-> k]} /\ t.from = w /\ t.nonce = n
  BY <1>4
<1> HIDE DEF t
<1>6. /\ k.pending = {t} /\ k.gasPaid = j.gasPaid /\ k.spent = j.spent
      /\ k.recovered = j.recovered /\ k.receipts = j.receipts
  BY <1>1 DEF Job
<1> HIDE DEF k
<1>7. Fresh(t)
  BY <1>1, <1>4, <1>5, NextNonceIsFresh
<1>8. \A r \in j.receipts : r.tx # t
  <2>1. SUFFICES ASSUME NEW r \in j.receipts, r.tx = t PROVE FALSE
    OBVIOUS
  <2>2. t \in Journaled
    BY <1>1, <2>1 DEF Journaled, TxsOf
  <2>3. t.nonce < t.nonce /\ t.nonce \in Nat
    BY <1>1, <1>7, <2>2, RecordsType DEF Fresh
  <2> QED
    BY <2>3
<1>9. Places(k) = Places(j)
  BY <1>6 DEF Places
<1>10. Booked(k)
  BY <1>1, <1>6, <1>8, <1>9 DEF Booked
<1>11. UNCHANGED <<ledger, network>>
  BY DEF Send
<1> QED
  BY <1>5, <1>10, <1>11, QueuedBooked

LEMMA ApproveQuoteBooks ==
  ASSUME BooksInv, LimitInv', NEW j \in jobs, ApproveQuote(j) PROVE BooksInv'
<1>1. j \in Job /\ Booked(j)
  BY BooksFacts DEF Records
<1>2. UNCHANGED <<ledger, network>>
  BY DEF ApproveQuote
<1>3. \E p : held' = {[op |-> "requote", new |->
                 [j EXCEPT !.plan = p, !.status = j.failedAt, !.failedAt = "none",
                           !.revision = @ + 1]]}
  BY Zenon DEF ApproveQuote
<1>4. PICK p : held' = {[op |-> "requote", new |->
                 [j EXCEPT !.plan = p, !.status = j.failedAt, !.failedAt = "none",
                           !.revision = @ + 1]]}
  BY <1>3
<1> DEFINE k == [j EXCEPT !.plan = p, !.status = j.failedAt, !.failedAt = "none",
                          !.revision = @ + 1]
<1>5. held' = {[op |-> "requote", new |-> k]}
  BY <1>4
<1>6. /\ k.pending = j.pending /\ k.gasPaid = j.gasPaid /\ k.spent = j.spent
      /\ k.recovered = j.recovered /\ k.receipts = j.receipts
  BY <1>1 DEF Job
<1> HIDE DEF k
<1>7. Places(k) = Places(j)
  BY <1>6 DEF Places
<1>8. Booked(k)
  BY <1>1, <1>6, <1>7 DEF Booked
<1> QED
  BY <1>2, <1>5, <1>8, QueuedBooked

LEMMA NetworkBooks ==
  ASSUME BooksInv, LimitInv',
         Bury \/ Reorg \/ UNCHANGED vars \/ (\E t \in mempool : Mine(t) \/ Drop(t))
           \/ \E j \in jobs : Broadcast(j)
  PROVE  BooksInv'
<1>1. TypeInv /\ TypeOK /\ SettlementInv
  BY BooksFacts
<1>2. TypeOK' /\ SettlementInv'
  BY DEF LimitInv, SettlementInv, JournalInv, TypeInv
<1>3. Records' = Records /\ held' = held
  BY DEF vars, Bury, Reorg, Broadcast, Mine, Drop, ledger, Records
<1>4. Len(chain) \in Nat /\ deep \in Nat /\ deep <= Len(chain) /\ chain \in Seq(Entry)
  BY <1>1, LenIsNat DEF TypeOK
<1>5. \A i \in 1..deep : chain'[i] = chain[i] /\ i \in 1..Len(chain') /\ i \in 1..deep'
  <2>1. CASE \E t \in mempool : Mine(t)
    <3>1. PICK t \in mempool : Mine(t)
      BY <2>1
    <3>2. PICK ok \in BOOLEAN, gas \in 1..t.maxGas :
            chain' = Append(chain, [tx |-> t, ok |-> ok, gas |-> gas])
      BY <3>1 DEF Mine
    <3>3. t \in Tx /\ t.maxGas \in Nat
      BY <1>1 DEF TypeOK, Tx
    <3>4. [tx |-> t, ok |-> ok, gas |-> gas] \in Entry
      BY <3>2, <3>3 DEF Entry
    <3>5. Len(chain') = Len(chain) + 1 /\ \A i \in 1..Len(chain) : chain'[i] = chain[i]
      BY <1>4, <3>2, <3>4, AppendProperties
    <3>6. deep' = deep
      BY <3>1 DEF Mine
    <3> QED
      BY <1>4, <3>5, <3>6
  <2>2. CASE Reorg
    <3>1. PICK n \in deep..(Len(chain) - 1) :
            Len(chain') = n /\ \A i \in 1..n : chain'[i] = chain[i]
      BY <1>1, <2>2, ReorgFacts
    <3>2. deep' = deep
      BY <2>2 DEF Reorg
    <3> QED
      BY <1>4, <3>1, <3>2
  <2>3. CASE Bury
    <3>1. chain' = chain /\ deep' = deep + 1
      BY <2>3 DEF Bury
    <3> QED
      BY <1>4, <3>1
  <2>4. CASE UNCHANGED vars \/ (\E t \in mempool : Drop(t)) \/ (\E j \in jobs : Broadcast(j))
    <3>1. chain' = chain /\ deep' = deep
      BY <2>4 DEF vars, Drop, Broadcast
    <3> QED
      BY <1>4, <3>1
  <2> QED
    BY <2>1, <2>2, <2>3, <2>4
<1>6. ASSUME NEW j, Backed(j) PROVE Places(j)' = Places(j)
  <2>1. Places(j) \subseteq Places(j)'
    BY <1>5 DEF Places
  <2>2. ASSUME NEW i \in 1..deep', NEW r \in j.receipts, r.tx = chain'[i].tx
        PROVE  i \in Places(j)
    <3>1. PICK m \in 1..deep : chain[m].tx = r.tx
      BY <1>6 DEF Backed
    <3>2. chain'[m].tx = chain'[i].tx
      BY <1>5, <2>2, <3>1
    <3>3. i \in 1..Len(chain') /\ m \in 1..Len(chain')
      BY <1>2, <1>5, LenIsNat DEF TypeOK
    <3>4. m = i
      <4>1. /\ TypeOK' /\ ChainOrdered'
        BY <1>2 DEF SettlementInv
      <4>2. Len(chain') \in Nat /\ chain'[m].tx.nonce \in Nat
        <5>1. chain' \in Seq(Entry)
          BY <1>2 DEF TypeOK, Entry
        <5>2. chain'[m] \in Entry
          BY <3>3, <5>1, ElementOfSeq
        <5> QED
          BY <5>1, <5>2, LenProperties DEF Entry, Tx
      <4>3. ~(m < i) /\ ~(i < m)
        BY <3>2, <3>3, <4>1, <4>2 DEF ChainOrdered
      <4> QED
        BY <3>3, <4>2, <4>3
    <3> QED
      BY <2>2, <3>1, <3>4 DEF Places
  <2>3. Places(j)' \subseteq Places(j)
    BY <2>2 DEF Places
  <2> QED
    BY <2>1, <2>3
<1>7. \A j : Backed(j) /\ Booked(j) => Booked(j)'
  <2>1. SUFFICES ASSUME NEW j, Backed(j), Booked(j) PROVE Booked(j)'
    OBVIOUS
  <2>2. Places(j)' = Places(j)
    BY <1>6, <2>1
  <2> QED
    BY <1>1, <1>2, <1>5, <2>1, <2>2, NetworkBooked
<1>8. /\ \A j \in Records : Backed(j) /\ Booked(j)
      /\ \A h \in held : Backed(h.new) /\ Booked(h.new)
  BY <1>1 DEF BooksInv, SettlementInv
<1> QED
  BY <1>3, <1>7, <1>8 DEF BooksInv

LEMMA CommitBooks == ASSUME BooksInv, LimitInv', Commit PROVE BooksInv'
<1>1. PICK h \in held : SaveJob(h.new) /\ held' = {} /\ UNCHANGED network
  BY DEF Commit
<1>2. Booked(h.new)
  BY DEF BooksInv
<1> QED
  BY <1>1, <1>2, SavedBooked

LEMMA InitBooks == Init => BooksInv
BY InitLimits DEF Init, BooksInv, Records

LEMMA NextBooks == ASSUME BooksInv, [Next]_vars PROVE BooksInv'
<1>0. LimitInv'
  BY NextLimits DEF BooksInv
<1>1. CASE \E a \in Accounts, p \in Plans : Start(a, p)
  BY <1>0, <1>1, StartBooks
<1>2. CASE Commit
  BY <1>0, <1>2, CommitBooks
<1>3. CASE Abort \/ Crash
  <2>1. held' = {} /\ UNCHANGED <<ledger, network>>
    BY <1>3 DEF Abort, Crash
  <2> QED
    BY <1>0, <2>1, QueuedBooked
<1>4. CASE \E j \in jobs : JobStep(j)
  <2>1. PICK j \in jobs : JobStep(j)
    BY <1>4
  <2>2. CASE PlainStep(j)
    BY <1>0, <2>2, PlainBooks
  <2>3. CASE Send(j)
    BY <1>0, <2>3, SendBooks
  <2>4. CASE Broadcast(j)
    BY <1>0, <2>4, NetworkBooks
  <2>5. CASE OfferQuote(j)
    <3>1. held' = held /\ UNCHANGED <<ledger, network>>
      BY <2>5 DEF OfferQuote
    <3> QED
      BY <1>0, <3>1, QueuedBooked DEF BooksInv
  <2>6. CASE Confirm(j) \/ CrashInConfirm(j)
    BY <1>0, <2>6, ConfirmBooks
  <2>7. CASE ApproveQuote(j)
    BY <1>0, <2>7, ApproveQuoteBooks
  <2>8. CASE Reset(j)
    BY <1>0, <2>8, ResetBooks
  <2> QED
    BY <2>1, <2>2, <2>3, <2>4, <2>5, <2>6, <2>7, <2>8 DEF JobStep, PlainStep
<1>5. CASE Bury \/ Reorg \/ UNCHANGED vars \/ \E t \in mempool : Mine(t) \/ Drop(t)
  BY <1>0, <1>5, NetworkBooks
<1> QED
  BY <1>1, <1>2, <1>3, <1>4, <1>5 DEF Next

\* The records' totals are the sums over the places of their receipts.
THEOREM BooksHold == Spec => []BooksInv
  BY InitBooks, NextBooks, PTL DEF Spec

\* What is mined of a job and is not in flight has its receipt.
LEMMA CountedPlaces ==
  ASSUME BooksInv, NEW j \in Records
  PROVE  {i \in 1..Len(chain) : chain[i].tx.id = j.id /\ chain[i].tx \notin j.pending}
           = Places(j)
<1> DEFINE counted == {i \in 1..Len(chain) :
                         chain[i].tx.id = j.id /\ chain[i].tx \notin j.pending}
<1>1. SettlementInv /\ JournalInv /\ TypeOK /\ Tidy(j) /\ Backed(j) /\ Booked(j)
  BY BooksFacts
<1>2. counted \subseteq Places(j)
  <2>1. SUFFICES ASSUME NEW i \in 1..Len(chain), chain[i].tx.id = j.id,
                        chain[i].tx \notin j.pending
                 PROVE  i \in Places(j)
    OBVIOUS
  <2>2. PICK k \in Records : chain[i].tx \in TxsOf(k) /\ k.id = chain[i].tx.id
    BY <1>1, MinedIsRecorded
  <2>3. k = j
    BY <1>1, <2>1, <2>2 DEF JournalInv, Identity
  <2>4. PICK r \in j.receipts : r.tx = chain[i].tx
    BY <2>1, <2>2, <2>3 DEF TxsOf
  <2>5. PICK m \in 1..deep : chain[m].tx = r.tx
    BY <1>1 DEF Backed
  <2>6. m \in 1..Len(chain)
    BY <1>1, LenIsNat DEF TypeOK
  <2>7. m = i
    BY <1>1, <2>4, <2>5, <2>6, ChainHasNoTwins
  <2> QED
    BY <2>4, <2>5, <2>7 DEF Places
<1>3. Places(j) \subseteq counted
  <2>1. SUFFICES ASSUME NEW i \in Places(j) PROVE i \in counted
    OBVIOUS
  <2>2. i \in 1..Len(chain)
    BY <1>1, PlacesFinite
  <2>3. PICK r \in j.receipts : r.tx = chain[i].tx
    BY DEF Places
  <2>4. chain[i].tx.id = j.id
    BY <1>1, <2>3 DEF Tidy, TxsOf
  <2>5. chain[i].tx \notin j.pending
    BY <1>1, <2>3 DEF Booked
  <2> QED
    BY <2>2, <2>4, <2>5
<1> QED
  BY <1>2, <1>3

LEMMA BooksMatchChain == BooksInv => LedgerMatchesChain
<1> SUFFICES ASSUME BooksInv, NEW j \in Records
             PROVE  LET counted == {i \in 1..Len(chain) :
                                      chain[i].tx.id = j.id /\ chain[i].tx \notin j.pending}
                        Total(amount(_, _, _)) == MapThenSumSet(
                          LAMBDA i : amount(chain[i].tx, chain[i].ok, chain[i].gas), counted)
                    IN  /\ j.gasPaid = Total(GasOf)
                        /\ j.spent = Total(SpentOf)
                        /\ j.recovered = Total(RecoveredOf)
  BY DEF LedgerMatchesChain
<1> DEFINE counted == {i \in 1..Len(chain) :
                         chain[i].tx.id = j.id /\ chain[i].tx \notin j.pending}
<1>1. TypeOK /\ Booked(j)
  BY BooksFacts
<1>4. counted = Places(j)
  BY CountedPlaces
<1>5. counted \subseteq 1..Len(chain) /\ IsFiniteSet(counted)
  BY <1>1, <1>4, PlacesFinite
<1> HIDE DEF counted
<1>6. MapThenSumSet(LAMBDA i : GasOf(chain[i].tx, chain[i].ok, chain[i].gas), counted)
        = Sum(GasIn(chain), counted)
  BY <1>5, GasTotal
<1>7. MapThenSumSet(LAMBDA i : SpentOf(chain[i].tx, chain[i].ok, chain[i].gas), counted)
        = Sum(SpentIn(chain), counted)
  BY <1>5, SpentTotal
<1>8. MapThenSumSet(LAMBDA i : RecoveredOf(chain[i].tx, chain[i].ok, chain[i].gas), counted)
        = Sum(RecoveredIn(chain), counted)
  BY <1>5, RecoveredTotal
<1> QED
  BY <1>1, <1>4, <1>6, <1>7, <1>8 DEF Booked, counted

\* Through crashes, lost replies, reorganisations and re-quotes, costs() counts every
\* mined transaction of a job exactly once, reverted gas included (gas-accounting.js:40-49):
\* a receipt is saved with its totals, and only of a transaction that stays.
THEOREM BooksAreTrue == Spec => []LedgerMatchesChain
  BY BooksHold, BooksMatchChain, PTL

-------------------------------------------------------------------------------
(***************************************************************************)
(* More about sums: of two functions, over two sets, over a partition, and *)
(* of the larger of two functions.                                         *)
(***************************************************************************)

\* Sums over sets with no element in common add up.
LEMMA SumSplit ==
  ASSUME NEW f, NEW S, NEW T, IsFiniteSet(S), IsFiniteSet(T), S \cap T = {},
         \A x \in S \cup T : f[x] \in Int
  PROVE  Sum(f, S \cup T) = Sum(f, S) + Sum(f, T)
<1> DEFINE B == {s \in SUBSET S : Sum(f, s \cup T) # Sum(f, s) + Sum(f, T)}
<1>1. ASSUME B # {} PROVE FALSE
  <2>0. B \subseteq SUBSET S
    OBVIOUS
  <2>1. PICK m \in B : \A t \in B : t \subseteq m => t = m
    <3> HIDE DEF B
    <3> QED
      BY <1>1, <2>0, MinimalSet
  <2>2. m \subseteq S /\ Sum(f, m \cup T) # Sum(f, m) + Sum(f, T)
    BY <2>1
  <2>3. Sum(f, T) \in Int
    BY SumInt
  <2>4. m # {}
    <3>1. SUFFICES ASSUME m = {} PROVE FALSE
      OBVIOUS
    <3>2. m \cup T = T
      BY <3>1
    <3>3. Sum(f, m \cup T) = Sum(f, T)
      BY <3>2
    <3>4. Sum(f, m) = 0
      BY <3>1, SumEmpty
    <3> QED
      BY <2>2, <2>3, <3>3, <3>4
  <2>5. PICK x : x \in m
    BY <2>4
  <2> DEFINE n == m \ {x}
  <2>6. n \subseteq S /\ n # m /\ n \subseteq m /\ n \notin B
    BY <2>1, <2>2, <2>5
  <2>7. Sum(f, n \cup T) = Sum(f, n) + Sum(f, T)
    BY <2>6
  <2>8. IsFiniteSet(m) /\ IsFiniteSet(n) /\ IsFiniteSet(m \cup T)
    BY <2>2, <2>6, FS_Subset, FS_Union
  <2>9. Sum(f, m) = f[x] + Sum(f, n)
    <3>1. \A y \in m : f[y] \in Int
      BY <2>2
    <3> QED
      BY <2>5, <2>8, <3>1, SumRemove
  <2>10. Sum(f, m \cup T) = f[x] + Sum(f, n \cup T)
    <3>1. (m \cup T) \ {x} = n \cup T
      BY <2>2, <2>5
    <3>2. \A y \in m \cup T : f[y] \in Int
      BY <2>2
    <3> HIDE DEF n
    <3> QED
      BY <2>5, <2>8, <3>1, <3>2, SumRemove
  <2>11. Sum(f, n) \in Int /\ f[x] \in Int
    <3>1. \A y \in n : f[y] \in Int
      BY <2>6
    <3> HIDE DEF n
    <3> QED
      BY <2>2, <2>5, <2>8, <3>1, SumInt
  <2> HIDE DEF n
  <2> QED
    BY <2>2, <2>3, <2>7, <2>9, <2>10, <2>11
<1>2. S \notin B
  BY <1>1
<1> QED
  BY <1>2

\* A sum of naturals is at most another one if each of its terms that counts is
\* at most the term there.
LEMMA SumBounded ==
  ASSUME NEW f, NEW g, NEW S, NEW T, IsFiniteSet(S), IsFiniteSet(T),
         \A x \in S : f[x] \in Nat, \A x \in T : g[x] \in Nat,
         \A x \in S : f[x] = 0 \/ (x \in T /\ f[x] <= g[x])
  PROVE  Sum(f, S) <= Sum(g, T)
<1> DEFINE B == {s \in SUBSET S : ~(Sum(f, s) <= Sum(g, s \cap T))}
<1>0. \A U : U \subseteq T => IsFiniteSet(U) /\ Sum(g, U) \in Nat
  <2>1. SUFFICES ASSUME NEW U, U \subseteq T PROVE IsFiniteSet(U) /\ Sum(g, U) \in Nat
    OBVIOUS
  <2>2. IsFiniteSet(U)
    BY <2>1, FS_Subset
  <2>3. \A x \in U : g[x] \in Nat
    BY <2>1
  <2> QED
    BY <2>2, <2>3, SumNat
<1>1. ASSUME B # {} PROVE FALSE
  <2>0. B \subseteq SUBSET S
    OBVIOUS
  <2>1. PICK m \in B : \A t \in B : t \subseteq m => t = m
    <3> HIDE DEF B
    <3> QED
      BY <1>1, <2>0, MinimalSet
  <2>2. m \subseteq S /\ ~(Sum(f, m) <= Sum(g, m \cap T))
    BY <2>1
  <2>3. m # {}
    <3>1. {} \cap T = {} /\ Sum(f, {}) = 0 /\ Sum(g, {}) = 0
      BY SumEmpty
    <3> QED
      BY <2>2, <3>1
  <2>4. PICK x : x \in m
    BY <2>3
  <2> DEFINE n == m \ {x}
  <2>5. n \subseteq S /\ n # m /\ n \subseteq m /\ n \notin B
    BY <2>1, <2>2, <2>4
  <2>6. Sum(f, n) <= Sum(g, n \cap T)
    BY <2>5
  <2>7. IsFiniteSet(m) /\ IsFiniteSet(n)
    BY <2>2, <2>5, FS_Subset
  <2>8. Sum(f, m) = f[x] + Sum(f, n)
    <3>1. \A y \in m : f[y] \in Int
      BY <2>2
    <3> QED
      BY <2>4, <2>7, <3>1, SumRemove
  <2>9. Sum(f, n) \in Nat /\ f[x] \in Nat /\ Sum(g, n \cap T) \in Nat
    <3>1. \A y \in n : f[y] \in Nat
      BY <2>5
    <3>2. n \cap T \subseteq T
      OBVIOUS
    <3> HIDE DEF n
    <3> QED
      BY <1>0, <2>2, <2>4, <2>7, <3>1, <3>2, SumNat
  <2>10. CASE x \in T /\ f[x] <= g[x]
    <3>1. x \in m \cap T /\ (m \cap T) \ {x} = n \cap T /\ m \cap T \subseteq T
      BY <2>4, <2>10
    <3>2. \A y \in m \cap T : g[y] \in Int
      OBVIOUS
    <3>3. Sum(g, m \cap T) = g[x] + Sum(g, n \cap T)
      <4> HIDE DEF n
      <4>1. IsFiniteSet(m \cap T)
        BY <1>0, <3>1
      <4> QED
        BY <3>1, <3>2, <4>1, SumRemove
    <3>4. g[x] \in Nat
      BY <2>10
    <3> HIDE DEF n
    <3> QED
      BY <2>2, <2>6, <2>8, <2>9, <2>10, <3>3, <3>4
  <2>11. CASE f[x] = 0 /\ x \notin T
    <3>1. m \cap T = n \cap T
      BY <2>11
    <3> HIDE DEF n
    <3>2. Sum(g, m \cap T) = Sum(g, n \cap T)
      BY <3>1
    <3>3. Sum(f, m) = Sum(f, n)
      BY <2>8, <2>9, <2>11
    <3> QED
      BY <2>2, <2>6, <3>2, <3>3
  <2>12. CASE f[x] = 0 /\ x \in T
    <3>1. g[x] \in Nat
      BY <2>12
    <3> QED
      BY <2>10, <2>12, <3>1
  <2> QED
    BY <2>2, <2>4, <2>10, <2>11, <2>12
<1>2. Sum(f, S) <= Sum(g, S \cap T)
  BY <1>1
<1>3. Sum(g, T) = Sum(g, S \cap T) + Sum(g, T \ S)
  <2>1. (S \cap T) \cup (T \ S) = T /\ (S \cap T) \cap (T \ S) = {}
    OBVIOUS
  <2>2. IsFiniteSet(S \cap T) /\ IsFiniteSet(T \ S)
    BY <1>0
  <2>3. \A x \in (S \cap T) \cup (T \ S) : g[x] \in Int
    OBVIOUS
  <2> QED
    BY <2>1, <2>2, <2>3, SumSplit
<1>4. Sum(g, S \cap T) \in Nat /\ Sum(g, T \ S) \in Nat /\ Sum(f, S) \in Nat
  BY <1>0, SumNat
<1> QED
  BY <1>2, <1>3, <1>4

\* The sum of two functions.
LEMMA SumPlus ==
  ASSUME NEW f, NEW g, NEW h, NEW S, IsFiniteSet(S),
         \A x \in S : f[x] \in Int /\ g[x] \in Int /\ h[x] = f[x] + g[x]
  PROVE  Sum(h, S) = Sum(f, S) + Sum(g, S)
<1> DEFINE B == {s \in SUBSET S : Sum(h, s) # Sum(f, s) + Sum(g, s)}
<1>1. ASSUME B # {} PROVE FALSE
  <2>0. B \subseteq SUBSET S
    OBVIOUS
  <2>1. PICK m \in B : \A t \in B : t \subseteq m => t = m
    <3> HIDE DEF B
    <3> QED
      BY <1>1, <2>0, MinimalSet
  <2>2. m \subseteq S /\ Sum(h, m) # Sum(f, m) + Sum(g, m) /\ IsFiniteSet(m)
    BY <2>1, FS_Subset
  <2>3. m # {}
    <3>1. Sum(f, {}) = 0 /\ Sum(g, {}) = 0 /\ Sum(h, {}) = 0
      BY SumEmpty
    <3> QED
      BY <2>2, <3>1
  <2> DEFINE x == Pick(m)
             n == m \ {x}
  <2>4. /\ Sum(f, m) = f[x] + Sum(f, n) /\ Sum(g, m) = g[x] + Sum(g, n)
        /\ Sum(h, m) = h[x] + Sum(h, n) /\ x \in m
    BY <2>2, <2>3, SumSteps
  <2>5. n \subseteq S /\ n \subseteq m /\ n # m /\ n \notin B
    BY <2>1, <2>2, <2>4
  <2>6. Sum(h, n) = Sum(f, n) + Sum(g, n)
    BY <2>5
  <2>7. IsFiniteSet(n) /\ \A y \in n : f[y] \in Int /\ g[y] \in Int
    BY <2>2, <2>5, FS_Subset
  <2>8. f[x] \in Int /\ g[x] \in Int /\ h[x] = f[x] + g[x]
    BY <2>2, <2>4
  <2> HIDE DEF n, x
  <2>9. Sum(f, n) \in Int /\ Sum(g, n) \in Int
    BY <2>7, SumInt
  <2> QED
    BY <2>2, <2>4, <2>6, <2>8, <2>9
<1>2. S \notin B
  BY <1>1
<1> QED
  BY <1>2

\* A sum over a partition is the sum of the sums over its parts.
LEMMA SumOfParts ==
  ASSUME NEW f, NEW S, IsFiniteSet(S), \A x \in S : f[x] \in Int,
         NEW R, IsFiniteSet(R), NEW A \in [R -> SUBSET S],
         \A i, j \in R : i # j => A[i] \cap A[j] = {}
  PROVE  Sum(f, UNION {A[i] : i \in R}) = Sum([i \in R |-> Sum(f, A[i])], R)
<1> DEFINE g == [i \in R |-> Sum(f, A[i])]
           U(s) == UNION {A[i] : i \in s}
           B == {s \in SUBSET R : Sum(f, U(s)) # Sum(g, s)}
<1>0. \A X : X \subseteq S => IsFiniteSet(X) /\ Sum(f, X) \in Int
  <2>1. SUFFICES ASSUME NEW X, X \subseteq S PROVE IsFiniteSet(X) /\ Sum(f, X) \in Int
    OBVIOUS
  <2>2. IsFiniteSet(X)
    BY <2>1, FS_Subset
  <2>3. \A x \in X : f[x] \in Int
    BY <2>1
  <2> QED
    BY <2>2, <2>3, SumInt
<1>1. ASSUME B # {} PROVE FALSE
  <2>0. B \subseteq SUBSET R
    OBVIOUS
  <2>1. PICK m \in B : \A t \in B : t \subseteq m => t = m
    <3> HIDE DEF B
    <3> QED
      BY <1>1, <2>0, MinimalSet
  <2>2. m \subseteq R /\ Sum(f, U(m)) # Sum(g, m) /\ IsFiniteSet(m)
    BY <2>1, FS_Subset
  <2>3. m # {}
    <3>1. U({}) = {}
      OBVIOUS
    <3>2. Sum(f, {}) = 0 /\ Sum(g, {}) = 0
      BY SumEmpty
    <3> QED
      BY <2>2, <3>1, <3>2
  <2> DEFINE x == Pick(m)
             n == m \ {x}
  <2>4. Sum(g, m) = g[x] + Sum(g, n) /\ x \in m
    BY <2>2, <2>3, SumSteps
  <2>5. n \subseteq R /\ n \subseteq m /\ n # m /\ n \notin B /\ x \in R
    BY <2>1, <2>2, <2>4
  <2>6. Sum(f, U(n)) = Sum(g, n)
    BY <2>5
  <2>7. U(m) = A[x] \cup U(n)
    BY <2>4
  <2>8. A[x] \cap U(n) = {}
    <3>1. \A i \in n : i # x /\ i \in R
      BY <2>5
    <3> HIDE DEF x, n
    <3> QED
      BY <2>5, <3>1
  <2>9. A[x] \subseteq S /\ U(n) \subseteq S
    BY <2>5
  <2>10. Sum(f, A[x] \cup U(n)) = Sum(f, A[x]) + Sum(f, U(n))
    <3> HIDE DEF U, n, x
    <3>1. \A y \in A[x] \cup U(n) : f[y] \in Int
      BY <2>9
    <3> QED
      BY <1>0, <2>8, <2>9, <3>1, SumSplit
  <2>11. g[x] = Sum(f, A[x])
    BY <2>5
  <2> HIDE DEF U, n, x, g
  <2> QED
    BY <2>2, <2>4, <2>6, <2>7, <2>10, <2>11
<1>2. R \notin B
  BY <1>1
<1> QED
  BY <1>2

-------------------------------------------------------------------------------
(***************************************************************************)
(* The sponsor's reserve.  What a record has drawn from the sponsor and    *)
(* may still draw never grows; it was there, above the reserve, when the   *)
(* record was admitted, and settlements only add to it.                    *)
(***************************************************************************)

\* What the entries of a chain bring the sponsor and cost it.
CreditIn(c) ==
  [i \in 1..Len(c) |-> IF c[i].tx.step = "collect_fee" /\ c[i].ok THEN c[i].tx.value ELSE 0]
DebitIn(c) ==
  [i \in 1..Len(c) |-> IF c[i].tx.from = Sponsor
                       THEN c[i].gas + (IF c[i].ok THEN c[i].tx.value ELSE 0) ELSE 0]
FlowIn(c) == [i \in 1..Len(c) |-> Flow(c[i])]

\* Sponsor money a record may still draw; that, and what it drew; that, and what
\* it has not repaid.
Open(j)  == IF j.released THEN 0 ELSE Unspent(j)
Draw(j)  == j.spent + Open(j)
Owed(j)  == IF j.released THEN 0 ELSE Unspent(j) + Debt(j)
Opens    == [j \in Job |-> Open(j)]
Spents   == [j \in Job |-> j.spent]
Draws    == [j \in Job |-> Draw(j)]
Owes     == [j \in Job |-> Owed(j)]

\* The sponsor's wallet signs what its job borrows, and nothing else.
Lent(t) == (t.from = Sponsor <=> t.sponsored) /\ (t.sponsored => t.value = t.advance)
Loan(j) ==
  /\ \A t \in TxsOf(j) : Lent(t)
  /\ j.released => j.settled \/ j.pending = {}

\* The records once the operation in the queue has saved.
After(h) == {j \in Records : j.id # h.new.id} \cup {h.new}

\* Nothing that the sponsor was paid can be undone, and it started above its reserve.
Calm == ~Reorgs /\ SponsorStart >= Cfg.floor

\* Chain c brought the sponsor enough for all that the records of W draw.
Backs(c, W) ==
  /\ Calm => SponsorStart + Sum(CreditIn(c), 1..Len(c)) >= Cfg.floor + Sum(Draws, W)
  /\ Sum(Owes, W) <= Cfg.maxOutstanding

ReserveInv ==
  /\ BooksInv
  /\ IsFiniteSet(Records)
  /\ \A j \in Records : Loan(j)
  /\ \A j \in jobs : j.released => j.settled
  /\ Backs(chain, Records)
  /\ \A h \in held :
       Loan(h.new) /\ (h.new.released => h.new.settled) /\ Backs(chain, After(h))

-----------------------------------------------------------------------------
(* The sums of the model. *)

LEMMA DrawTypes ==
  ASSUME NEW j \in Job
  PROVE  /\ Unspent(j) \in Nat /\ Debt(j) \in Nat
         /\ Open(j) \in Nat /\ Draw(j) \in Nat /\ Owed(j) \in Nat /\ j.spent \in Nat
         /\ Opens[j] = Open(j) /\ Spents[j] = j.spent /\ Draws[j] = Draw(j)
         /\ Owes[j] = Owed(j) /\ Draws[j] = Spents[j] + Opens[j]
<1>1. j.spent \in Nat /\ j.recovered \in Nat /\ j.plan \in Plan
  BY JobFields
<1>2. j.plan.sponsorMax \in Nat
  BY <1>1, PlanFields
<1>3. Unspent(j) \in Nat
  BY <1>1, <1>2, ShortfallType DEF Unspent
<1>4. Debt(j) \in Nat
  BY DueType
<1>5. Open(j) \in Nat /\ Owed(j) \in Nat
  BY <1>3, <1>4 DEF Open, Owed
<1>6. Draw(j) \in Nat
  BY <1>1, <1>5 DEF Draw
<1> QED
  BY <1>1, <1>3, <1>4, <1>5, <1>6 DEF Opens, Spents, Draws, Owes, Draw

LEMMA MoneyTypes ==
  ASSUME TypeOK, NEW i \in 1..Len(chain)
  PROVE  /\ CreditIn(chain)[i] \in Nat /\ DebitIn(chain)[i] \in Nat
         /\ FlowIn(chain)[i] \in Int
         /\ CreditIn(chain)[i] = FlowIn(chain)[i] + DebitIn(chain)[i]
<1>1. chain[i].tx \in Tx /\ chain[i].ok \in BOOLEAN /\ chain[i].gas \in Nat
  BY ChainType
<1>2. chain[i].tx.value \in Nat
  BY <1>1 DEF Tx
<1> DEFINE a == IF chain[i].tx.step = "collect_fee" /\ chain[i].ok THEN chain[i].tx.value ELSE 0
           b == IF chain[i].tx.from = Sponsor
                THEN chain[i].gas + (IF chain[i].ok THEN chain[i].tx.value ELSE 0) ELSE 0
<1>3. a \in Nat /\ b \in Nat
  BY <1>1, <1>2
<1>4. CreditIn(chain)[i] = a /\ DebitIn(chain)[i] = b /\ FlowIn(chain)[i] = a - b
  BY DEF CreditIn, DebitIn, FlowIn, Flow
<1> HIDE DEF a, b
<1> QED
  BY <1>3, <1>4

LEMMA FlowTotal ==
  ASSUME NEW S, S \subseteq 1..Len(chain), IsFiniteSet(S)
  PROVE  MapThenSumSet(LAMBDA i : Flow(chain[i]), S) = Sum(FlowIn(chain), S)
<1> DEFINE A(i) == Flow(chain[i])
           D(h) == h = [s \in SUBSET S |-> IF s = {} THEN 0 ELSE A(Pick(s)) + h[s \ {Pick(s)}]]
           G == CHOOSE h : D(h)
<1>1. MapThenSumSet(LAMBDA i : A(i), S) = G[S]
  BY DEF MapThenSumSet, MapThenFoldSet, Pick
<1>2. \A s \in SUBSET S : s # {} => FlowIn(chain)[Pick(s)] = A(Pick(s))
  BY Picked DEF FlowIn
<1> HIDE DEF A
<1>3. ASSUME NEW h, D(h) \/ Adds(h, FlowIn(chain), S) PROVE D(h) /\ Adds(h, FlowIn(chain), S)
  <2>1. \A s \in SUBSET S : (IF s = {} THEN 0 ELSE FlowIn(chain)[Pick(s)] + h[s \ {Pick(s)}])
                              = IF s = {} THEN 0 ELSE A(Pick(s)) + h[s \ {Pick(s)}]
    BY <1>2
  <2>2. [s \in SUBSET S |-> IF s = {} THEN 0 ELSE FlowIn(chain)[Pick(s)] + h[s \ {Pick(s)}]]
          = [s \in SUBSET S |-> IF s = {} THEN 0 ELSE A(Pick(s)) + h[s \ {Pick(s)}]]
    BY <2>1
  <2> QED
    BY <1>3, <2>2 DEF Adds
<1>4. PICK h : Adds(h, FlowIn(chain), S)
  BY AddsExists
<1>5. D(h)
  BY <1>3, <1>4
<1>6. D(G)
  <2> HIDE DEF D
  <2> QED
    BY <1>5
<1>7. Adds(G, FlowIn(chain), S)
  <2> HIDE DEF D, G
  <2> QED
    BY <1>3, <1>6
<1> HIDE DEF G
<1>8. Sum(FlowIn(chain), S) = G[S]
  BY <1>7, SumIs
<1> QED
  BY <1>1, <1>8 DEF A

\* The balance a node tells is what came in less what went out, up to its view.
LEMMA BalanceIs ==
  ASSUME TypeOK, NEW v \in 0..Len(chain)
  PROVE  /\ SponsorBalance(v)
              = SponsorStart + Sum(CreditIn(chain), 1..v) - Sum(DebitIn(chain), 1..v)
         /\ Sum(CreditIn(chain), 1..v) \in Nat /\ Sum(DebitIn(chain), 1..v) \in Nat
         /\ Sum(CreditIn(chain), 1..v) <= Sum(CreditIn(chain), 1..Len(chain))
         /\ IsFiniteSet(1..v) /\ IsFiniteSet(1..Len(chain))
         /\ Sum(CreditIn(chain), 1..Len(chain)) \in Nat
<1>1. Len(chain) \in Nat /\ v \in Nat /\ v <= Len(chain)
  BY LenIsNat
<1>2. IsFiniteSet(1..v) /\ IsFiniteSet(1..Len(chain)) /\ 1..v \subseteq 1..Len(chain)
  BY <1>1, FS_Interval
<1>3. \A i \in 1..Len(chain) :
        /\ CreditIn(chain)[i] \in Nat /\ DebitIn(chain)[i] \in Nat
        /\ FlowIn(chain)[i] \in Int
        /\ CreditIn(chain)[i] = FlowIn(chain)[i] + DebitIn(chain)[i]
  BY MoneyTypes
<1> DEFINE S == 1..v
           L == 1..Len(chain)
<1>4. \A i \in S : i \in L
  BY <1>2
<1>5. SponsorBalance(v) = SponsorStart + Sum(FlowIn(chain), S)
  BY <1>2, FlowTotal DEF SponsorBalance
<1>6. IsFiniteSet(S) /\ IsFiniteSet(L) /\ \A i \in S : CreditIn(chain)[i] \in Nat
  BY <1>2, <1>3, <1>4
<1> HIDE DEF S, L
<1>7. Sum(CreditIn(chain), S) = Sum(FlowIn(chain), S) + Sum(DebitIn(chain), S)
  <2>1. \A i \in S : /\ FlowIn(chain)[i] \in Int /\ DebitIn(chain)[i] \in Int
                     /\ CreditIn(chain)[i] = FlowIn(chain)[i] + DebitIn(chain)[i]
    BY <1>3, <1>4 DEF L
  <2> QED
    BY <1>6, <2>1, SumPlus
<1>8. /\ Sum(CreditIn(chain), S) \in Nat /\ Sum(DebitIn(chain), S) \in Nat
      /\ Sum(FlowIn(chain), S) \in Int /\ Sum(CreditIn(chain), L) \in Nat
  <2>1. \A i \in S : DebitIn(chain)[i] \in Nat /\ FlowIn(chain)[i] \in Int
    BY <1>3, <1>4 DEF L
  <2>2. \A i \in L : CreditIn(chain)[i] \in Nat
    BY <1>3 DEF L
  <2> QED
    BY <1>6, <2>1, <2>2, SumNat, SumInt
<1>9. Sum(CreditIn(chain), S) <= Sum(CreditIn(chain), L)
  <2>1. \A i \in S : CreditIn(chain)[i] = 0 \/ (i \in L /\ CreditIn(chain)[i] <= CreditIn(chain)[i])
    BY <1>4, <1>6
  <2>2. \A i \in L : CreditIn(chain)[i] \in Nat
    BY <1>3 DEF L
  <2> QED
    BY <1>6, <2>1, <2>2, SumBounded
<1>10. SponsorStart \in Nat
  BY CfgIsNumbers
<1>11. SponsorBalance(v) = SponsorStart + Sum(CreditIn(chain), S) - Sum(DebitIn(chain), S)
  BY <1>5, <1>7, <1>8, <1>10
<1> QED
  BY <1>2, <1>8, <1>9, <1>11 DEF S, L

\* The exposure, with what is no longer reserved counted as nothing.
Unspents == [j \in Job |-> Unspent(j)]
Debts    == [j \in Job |-> Debt(j)]

LEMMA UnspentTotal ==
  ASSUME NEW S, S \subseteq Job, IsFiniteSet(S)
  PROVE  MapThenSumSet(Unspent, S) = Sum(Unspents, S)
<1> DEFINE D(h) == h = [s \in SUBSET S |-> IF s = {} THEN 0
                          ELSE Unspent(Pick(s)) + h[s \ {Pick(s)}]]
           G == CHOOSE h : D(h)
<1>1. MapThenSumSet(Unspent, S) = G[S]
  BY DEF MapThenSumSet, MapThenFoldSet, Pick
<1>2. \A s \in SUBSET S : s # {} => Unspents[Pick(s)] = Unspent(Pick(s))
  BY Picked DEF Unspents
<1>3. ASSUME NEW h, D(h) \/ Adds(h, Unspents, S) PROVE D(h) /\ Adds(h, Unspents, S)
  <2>1. \A s \in SUBSET S : (IF s = {} THEN 0 ELSE Unspents[Pick(s)] + h[s \ {Pick(s)}])
                              = IF s = {} THEN 0 ELSE Unspent(Pick(s)) + h[s \ {Pick(s)}]
    BY <1>2
  <2>2. [s \in SUBSET S |-> IF s = {} THEN 0 ELSE Unspents[Pick(s)] + h[s \ {Pick(s)}]]
          = [s \in SUBSET S |-> IF s = {} THEN 0 ELSE Unspent(Pick(s)) + h[s \ {Pick(s)}]]
    BY <2>1
  <2> QED
    BY <1>3, <2>2 DEF Adds
<1>4. PICK h : Adds(h, Unspents, S)
  BY AddsExists
<1>5. D(h)
  BY <1>3, <1>4
<1>6. D(G)
  <2> HIDE DEF D
  <2> QED
    BY <1>5
<1>7. Adds(G, Unspents, S)
  <2> HIDE DEF D, G
  <2> QED
    BY <1>3, <1>6
<1> HIDE DEF G
<1>8. Sum(Unspents, S) = G[S]
  BY <1>7, SumIs
<1> QED
  BY <1>1, <1>8

LEMMA DebtTotal ==
  ASSUME NEW S, S \subseteq Job, IsFiniteSet(S)
  PROVE  MapThenSumSet(Debt, S) = Sum(Debts, S)
<1> DEFINE D(h) == h = [s \in SUBSET S |-> IF s = {} THEN 0
                          ELSE Debt(Pick(s)) + h[s \ {Pick(s)}]]
           G == CHOOSE h : D(h)
<1>1. MapThenSumSet(Debt, S) = G[S]
  BY DEF MapThenSumSet, MapThenFoldSet, Pick
<1>2. \A s \in SUBSET S : s # {} => Debts[Pick(s)] = Debt(Pick(s))
  BY Picked DEF Debts
<1>3. ASSUME NEW h, D(h) \/ Adds(h, Debts, S) PROVE D(h) /\ Adds(h, Debts, S)
  <2>1. \A s \in SUBSET S : (IF s = {} THEN 0 ELSE Debts[Pick(s)] + h[s \ {Pick(s)}])
                              = IF s = {} THEN 0 ELSE Debt(Pick(s)) + h[s \ {Pick(s)}]
    BY <1>2
  <2>2. [s \in SUBSET S |-> IF s = {} THEN 0 ELSE Debts[Pick(s)] + h[s \ {Pick(s)}]]
          = [s \in SUBSET S |-> IF s = {} THEN 0 ELSE Debt(Pick(s)) + h[s \ {Pick(s)}]]
    BY <2>1
  <2> QED
    BY <1>3, <2>2 DEF Adds
<1>4. PICK h : Adds(h, Debts, S)
  BY AddsExists
<1>5. D(h)
  BY <1>3, <1>4
<1>6. D(G)
  <2> HIDE DEF D
  <2> QED
    BY <1>5
<1>7. Adds(G, Debts, S)
  <2> HIDE DEF D, G
  <2> QED
    BY <1>3, <1>6
<1> HIDE DEF G
<1>8. Sum(Debts, S) = G[S]
  BY <1>7, SumIs
<1> QED
  BY <1>1, <1>8

LEMMA ExposureIs ==
  ASSUME NEW W, W \subseteq Job, IsFiniteSet(W)
  PROVE  /\ UnspentOf(W) = Sum(Opens, W) /\ Exposure(W) = Sum(Owes, W)
         /\ Sum(Draws, W) = Sum(Spents, W) + Sum(Opens, W)
         /\ Sum(Spents, W) \in Nat /\ Sum(Opens, W) \in Nat /\ Sum(Owes, W) \in Nat
<1> DEFINE R == Reserving(W)
           P == [j \in Job |-> IF j.released THEN 0 ELSE Debt(j)]
<1>1. R \subseteq W /\ R \subseteq Job /\ IsFiniteSet(R)
  BY FS_Subset DEF Reserving
<1>2. \A j \in W : j \in R <=> ~j.released
  BY DEF Reserving
<1>3. UnspentOf(W) = Sum(Unspents, R) /\ DebtOf(W) = Sum(Debts, R)
  BY <1>1, UnspentTotal, DebtTotal DEF UnspentOf, DebtOf
<1>4. \A j \in W : /\ Unspents[j] = Unspent(j) /\ Debts[j] = Debt(j)
                   /\ Unspents[j] \in Nat /\ Debts[j] \in Nat
                   /\ Opens[j] \in Nat /\ Owes[j] \in Nat /\ Spents[j] \in Nat
                   /\ Draws[j] = Spents[j] + Opens[j]
  BY DrawTypes DEF Unspents, Debts
<1>5. \A j \in W : /\ Opens[j] = IF j.released THEN 0 ELSE Unspents[j]
                   /\ P[j] = IF j.released THEN 0 ELSE Debts[j]
                   /\ P[j] \in Nat /\ Owes[j] = Opens[j] + P[j]
  BY <1>4, DrawTypes DEF Open, Owed
<1> HIDE DEF R, P
<1>6. Sum(Unspents, R) <= Sum(Opens, W) /\ Sum(Debts, R) <= Sum(P, W)
  <2>1. \A j \in R : Unspents[j] \in Nat /\ Debts[j] \in Nat
    BY <1>1, <1>4
  <2>2. \A j \in R : j \in W /\ Unspents[j] <= Opens[j] /\ Debts[j] <= P[j]
    BY <1>1, <1>2, <1>4, <1>5
  <2> QED
    BY <1>1, <1>4, <1>5, <2>1, <2>2, SumBounded
<1>7. Sum(Opens, W) <= Sum(Unspents, R) /\ Sum(P, W) <= Sum(Debts, R)
  <2>1. \A j \in R : Unspents[j] \in Nat /\ Debts[j] \in Nat
    BY <1>1, <1>4
  <2>2. \A j \in W : /\ Opens[j] = 0 \/ (j \in R /\ Opens[j] <= Unspents[j])
                     /\ P[j] = 0 \/ (j \in R /\ P[j] <= Debts[j])
    BY <1>2, <1>4, <1>5
  <2> QED
    BY <1>1, <1>4, <1>5, <2>1, <2>2, SumBounded
<1>8. /\ Sum(Opens, W) \in Nat /\ Sum(P, W) \in Nat /\ Sum(Owes, W) \in Nat
      /\ Sum(Spents, W) \in Nat /\ Sum(Unspents, R) \in Nat /\ Sum(Debts, R) \in Nat
  <2>1. \A j \in R : Unspents[j] \in Nat /\ Debts[j] \in Nat
    BY <1>1, <1>4
  <2> QED
    BY <1>1, <1>4, <1>5, <2>1, SumNat
<1>9. Sum(Owes, W) = Sum(Opens, W) + Sum(P, W)
  BY <1>4, <1>5, SumPlus
<1>10. Sum(Draws, W) = Sum(Spents, W) + Sum(Opens, W)
  BY <1>4, SumPlus
<1>11. Sum(Unspents, R) = Sum(Opens, W) /\ Sum(Debts, R) = Sum(P, W)
  BY <1>6, <1>7, <1>8
<1> QED
  BY <1>3, <1>8, <1>9, <1>10, <1>11 DEF Exposure

\* One record of a set is replaced by a version that draws and owes no more.
Spares(j, k) == Draw(k) <= Draw(j) /\ Owed(k) <= Owed(j)

LEMMA SpareSums ==
  ASSUME NEW W, W \subseteq Job, IsFiniteSet(W), NEW j \in W, NEW k \in Job, Spares(j, k)
  PROVE  LET V == (W \ {j}) \cup {k}
         IN  /\ Sum(Draws, V) <= Sum(Draws, W) /\ Sum(Owes, V) <= Sum(Owes, W)
             /\ V \subseteq Job /\ IsFiniteSet(V)
<1> DEFINE U == W \ {j}
           V == U \cup {k}
<1>1. U \subseteq Job /\ IsFiniteSet(U) /\ V \subseteq Job /\ IsFiniteSet(V)
  BY FS_Subset, FS_AddElement
<1>2. \A i \in Job : Draws[i] \in Nat /\ Owes[i] \in Nat
  BY DrawTypes
<1>3. Draws[k] <= Draws[j] /\ Owes[k] <= Owes[j] /\ j \in Job
  BY DrawTypes DEF Spares
<1>4. Sum(Draws, W) = Draws[j] + Sum(Draws, U) /\ Sum(Owes, W) = Owes[j] + Sum(Owes, U)
  BY <1>2, SumRemove
<1> HIDE DEF U
<1>5. Sum(Draws, U) \in Nat /\ Sum(Owes, U) \in Nat
  BY <1>1, <1>2, SumNat
<1>6. CASE k \in U
  <2>1. V = U
    BY <1>6
  <2> HIDE DEF V
  <2>2. Sum(Draws, V) <= Sum(Draws, W) /\ Sum(Owes, V) <= Sum(Owes, W)
    BY <1>2, <1>3, <1>4, <1>5, <2>1
  <2> QED
    BY <1>1, <2>2 DEF U, V
<1>7. CASE k \notin U
  <2>1. Sum(Draws, V) = Draws[k] + Sum(Draws, U) /\ Sum(Owes, V) = Owes[k] + Sum(Owes, U)
    BY <1>1, <1>2, <1>7, SumAdd
  <2> HIDE DEF V
  <2>2. Sum(Draws, V) <= Sum(Draws, W) /\ Sum(Owes, V) <= Sum(Owes, W)
    BY <1>2, <1>3, <1>4, <1>5, <2>1
  <2> QED
    BY <1>1, <2>2 DEF U, V
<1> QED
  BY <1>6, <1>7

-----------------------------------------------------------------------------
(* What the chain charged the sponsor, and what the ledger says of it. *)

LEMMA ReserveFacts ==
  ASSUME ReserveInv
  PROVE  /\ BooksInv /\ LimitInv /\ SettlementInv /\ JournalInv /\ TypeInv /\ TypeOK
         /\ Identity /\ IsFiniteSet(Records) /\ Records \subseteq Job
         /\ \A j \in Records : /\ j \in Job /\ Tidy(j) /\ Backed(j) /\ Booked(j)
                               /\ Sound(j) /\ Within(j) /\ Loan(j)
<1>1. BooksInv
  BY DEF ReserveInv
<1>2. /\ LimitInv /\ SettlementInv /\ JournalInv /\ TypeInv /\ TypeOK
      /\ \A j \in Records : Tidy(j) /\ Backed(j) /\ Booked(j) /\ j \in Job
  BY <1>1, BooksFacts
<1>3. \A j \in Records : Sound(j) /\ Within(j) /\ Loan(j)
  BY <1>2 DEF SettlementInv, LimitInv, ReserveInv
<1> QED
  BY <1>1, <1>2, <1>3 DEF ReserveInv, JournalInv

\* A mined transaction is the sponsor's exactly if its job borrows by it.
LEMMA MinedIsLent ==
  ASSUME ReserveInv, NEW i \in 1..Len(chain)
  PROVE  /\ Lent(chain[i].tx)
         /\ chain[i].tx.sponsored => DebitIn(chain)[i] = SpentIn(chain)[i]
         /\ ~chain[i].tx.sponsored => DebitIn(chain)[i] = 0 /\ SpentIn(chain)[i] = 0
<1>1. PICK j \in Records : chain[i].tx \in TxsOf(j)
  BY ReserveFacts, MinedIsRecorded
<1>2. Lent(chain[i].tx)
  BY <1>1, ReserveFacts DEF Loan
<1>3. chain[i].ok \in BOOLEAN /\ chain[i].tx.sponsored \in BOOLEAN
  BY ReserveFacts, ChainType DEF Tx
<1> QED
  BY <1>2, <1>3 DEF Lent, DebitIn, SpentIn, SpentOf

\* A node that has seen every sponsor receipt of the ledger deducts what all the
\* records together have spent.
LEMMA ViewCovers ==
  ASSUME ReserveInv, NEW v \in CurrentViews
  PROVE  Sum(Spents, Records) <= Sum(DebitIn(chain), 1..v)
<1>1. /\ TypeOK /\ Identity /\ IsFiniteSet(Records) /\ Records \subseteq Job
      /\ \A j \in Records : j \in Job /\ Tidy(j) /\ Booked(j)
  BY ReserveFacts
<1>2. v \in 0..Len(chain) /\ Len(chain) \in Nat /\ deep \in Nat /\ deep <= Len(chain)
  BY <1>1, LenIsNat DEF CurrentViews, TypeOK
<1>3. IsFiniteSet(1..deep) /\ IsFiniteSet(1..v)
  BY <1>1, <1>2, FS_Interval
<1> DEFINE A == [j \in Records |-> Places(j)]
           U == UNION {A[j] : j \in Records}
           g == [j \in Records |-> Sum(SpentIn(chain), A[j])]
<1>4. A \in [Records -> SUBSET (1..deep)]
  BY DEF Places
<1>5. \A i, j \in Records : i # j => A[i] \cap A[j] = {}
  <2>1. SUFFICES ASSUME NEW i \in Records, NEW j \in Records, NEW n \in Places(i), n \in Places(j)
                 PROVE  i = j
    OBVIOUS
  <2>2. chain[n].tx.id = i.id /\ chain[n].tx.id = j.id
    BY <1>1, <2>1 DEF Places, Tidy, TxsOf
  <2> QED
    BY <1>1, <2>2 DEF Identity
<1>6. \A i \in 1..deep : /\ i \in 1..Len(chain)
                         /\ SpentIn(chain)[i] \in Nat /\ SpentIn(chain)[i] \in Int
  <2>1. \A i \in 1..deep : i \in 1..Len(chain)
    BY <1>2
  <2> QED
    BY <1>1, <2>1, AmountTypes
<1>7. \A j \in Records : g[j] = Spents[j]
  BY <1>1 DEF Booked, Spents
<1>8. U \subseteq 1..deep /\ \A i \in U : \E j \in Records : i \in Places(j)
  BY <1>4
<1> HIDE DEF A
<1>9. Sum(SpentIn(chain), U) = Sum(g, Records)
  <2> DEFINE D == 1..deep
  <2>1. A \in [Records -> SUBSET D] /\ IsFiniteSet(D) /\ \A i \in D : SpentIn(chain)[i] \in Int
    BY <1>3, <1>4, <1>6
  <2> HIDE DEF D
  <2> QED
    BY <1>1, <1>5, <2>1, SumOfParts
<1> HIDE DEF g, U
<1>10. Sum(g, Records) = Sum(Spents, Records)
  BY <1>1, <1>7, SumAgree
<1>11. \A i \in U : SpentIn(chain)[i] = 0 \/ (i \in 1..v /\ SpentIn(chain)[i] <= DebitIn(chain)[i])
  <2>1. SUFFICES ASSUME NEW i \in U, chain[i].tx.sponsored
                 PROVE  i \in 1..v /\ SpentIn(chain)[i] <= DebitIn(chain)[i]
    BY <1>6, <1>8, MinedIsLent
  <2>2. i \in 1..Len(chain) /\ i \in Nat /\ 1 <= i /\ SpentIn(chain)[i] \in Nat
    BY <1>6, <1>8
  <2>3. DebitIn(chain)[i] = SpentIn(chain)[i] /\ chain[i].tx.from = Sponsor
    BY <2>1, <2>2, MinedIsLent DEF Lent
  <2>4. \E j \in Records : \E r \in j.receipts : r.tx = chain[i].tx
    BY <1>8 DEF Places
  <2>5. i <= v
    BY <2>2, <2>3, <2>4 DEF CurrentViews
  <2> QED
    BY <1>2, <2>2, <2>3, <2>5
<1>12. \A i \in 1..v : DebitIn(chain)[i] \in Nat
  <2>1. \A i \in 1..v : i \in 1..Len(chain)
    BY <1>2
  <2> QED
    BY <1>1, <2>1, MoneyTypes
<1>13. IsFiniteSet(U) /\ \A i \in U : SpentIn(chain)[i] \in Nat
  BY <1>3, <1>6, <1>8, FS_Subset
<1>14. Sum(SpentIn(chain), U) <= Sum(DebitIn(chain), 1..v)
  BY <1>3, <1>11, <1>12, <1>13, SumBounded
<1> QED
  BY <1>9, <1>10, <1>14

\* A sponsored transaction is in flight only before the settlement.
LEMMA LoanIsOpen ==
  ASSUME ReserveInv, NEW j \in Records, NEW t \in j.pending, t.sponsored
  PROVE  ~j.settled /\ ~j.released
<1>1. Tidy(j) /\ Sound(j) /\ Loan(j)
  BY ReserveFacts
<1>2. At(j) \in {"front_gas", "wh_redeem"}
  BY <1>1 DEF Tidy, Sound, Priced
<1>3. ~(Rank(At(j)) > Rank("collect_fee"))
  BY <1>2, RankOfSteps
<1>4. ~j.settled
  BY <1>1, <1>3 DEF Sound, Ordered, PastSettlement
<1> QED
  BY <1>1, <1>4 DEF Loan

\* The transactions of a job that are mined cost the sponsor no more than the job
\* has drawn and may still draw.
LEMMA JobDebit ==
  ASSUME ReserveInv, NEW j \in Records
  PROVE  Sum(DebitIn(chain), {i \in 1..Len(chain) : chain[i].tx.id = j.id}) <= Draw(j)
<1> DEFINE C == {i \in 1..Len(chain) : chain[i].tx.id = j.id}
           Q == {i \in C : chain[i].tx \in j.pending}
           P == {i \in 1..Len(chain) : chain[i].tx.id = j.id /\ chain[i].tx \notin j.pending}
<1>1. /\ TypeOK /\ SettlementInv /\ LimitInv /\ BooksInv
      /\ j \in Job /\ Tidy(j) /\ Booked(j) /\ Within(j)
  BY ReserveFacts
<1>2. Len(chain) \in Nat /\ IsFiniteSet(1..Len(chain))
  BY <1>1, LenIsNat, FS_Interval
<1>3. P \cup Q = C /\ P \cap Q = {} /\ P \subseteq 1..Len(chain) /\ Q \subseteq 1..Len(chain)
  OBVIOUS
<1>4. IsFiniteSet(P) /\ IsFiniteSet(Q)
  BY <1>2, <1>3, FS_Subset
<1>5. P = Places(j)
  BY <1>1, CountedPlaces
<1>6. \A i \in Q, n \in Q : i = n
  <2>1. SUFFICES ASSUME NEW i \in Q, NEW n \in Q PROVE i = n
    OBVIOUS
  <2>2. chain[i].tx = chain[n].tx
    BY <1>1 DEF Tidy
  <2> QED
    BY <1>1, <2>2, ChainHasNoTwins
<1>7. \A i \in Q : i \in 1..Len(chain) /\ chain[i].tx \in j.pending
  OBVIOUS
<1>8. \A i \in 1..Len(chain) : DebitIn(chain)[i] \in Nat /\ DebitIn(chain)[i] \in Int
  BY <1>1, MoneyTypes
<1> HIDE DEF P, Q, C
<1>9. Sum(DebitIn(chain), C) = Sum(DebitIn(chain), P) + Sum(DebitIn(chain), Q)
  <2>1. \A i \in P \cup Q : DebitIn(chain)[i] \in Int
    BY <1>3, <1>8
  <2>2. Sum(DebitIn(chain), P \cup Q) = Sum(DebitIn(chain), P) + Sum(DebitIn(chain), Q)
    BY <1>3, <1>4, <2>1, SumSplit
  <2> QED
    BY <1>3, <2>2
<1>10. Sum(DebitIn(chain), P) = j.spent
  <2>1. \A i \in P : DebitIn(chain)[i] = SpentIn(chain)[i]
    <3>1. SUFFICES ASSUME NEW i \in P PROVE DebitIn(chain)[i] = SpentIn(chain)[i]
      OBVIOUS
    <3>2. i \in 1..Len(chain)
      BY <1>3
    <3> QED
      BY <3>2, MinedIsLent
  <2>2. Sum(DebitIn(chain), P) = Sum(SpentIn(chain), P)
    BY <1>4, <2>1, SumAgree
  <2> QED
    BY <1>1, <1>5, <2>2 DEF Booked
<1>11. j.spent \in Nat /\ Open(j) \in Nat /\ Draw(j) = j.spent + Open(j)
  BY <1>1, DrawTypes DEF Draw
<1>12. Sum(DebitIn(chain), Q) <= Open(j) /\ Sum(DebitIn(chain), Q) \in Nat
  <2>1. CASE Q = {}
    <3>1. Sum(DebitIn(chain), Q) = 0
      BY <2>1, SumEmpty
    <3> QED
      BY <1>11, <3>1
  <2>2. CASE Q # {}
    <3>1. PICK i : i \in Q
      BY <2>2
    <3>2. Q \ {i} = {} /\ i \in 1..Len(chain) /\ chain[i].tx \in j.pending
      BY <1>6, <1>7, <3>1
    <3>3. Sum(DebitIn(chain), Q) = DebitIn(chain)[i]
      <4>1. \A n \in Q : DebitIn(chain)[n] \in Int
        BY <1>3, <1>8
      <4>2. Sum(DebitIn(chain), Q) = DebitIn(chain)[i] + Sum(DebitIn(chain), Q \ {i})
        BY <1>4, <3>1, <4>1, SumRemove
      <4>3. Sum(DebitIn(chain), Q \ {i}) = 0
        BY <3>2, SumEmpty
      <4> QED
        BY <1>8, <3>2, <4>2, <4>3
    <3>4. CASE ~chain[i].tx.sponsored
      <4>1. DebitIn(chain)[i] = 0
        BY <3>2, <3>4, MinedIsLent
      <4> QED
        BY <1>11, <3>3, <4>1
    <3>5. CASE chain[i].tx.sponsored
      <4> DEFINE t == chain[i].tx
      <4>1. ~j.settled /\ ~j.released
        BY <3>2, <3>5, LoanIsOpen
      <4>2. /\ t \in Tx /\ chain[i].gas \in Nat /\ chain[i].ok \in BOOLEAN
            /\ chain[i].gas <= t.maxGas
        BY <1>1, <3>2, ChainType DEF LimitInv, GasLimited
      <4>3. t.maxGas \in Nat /\ t.advance \in Nat
        BY <4>2 DEF Tx
      <4>4. DebitIn(chain)[i] = SpentOf(t, chain[i].ok, chain[i].gas)
        BY <1>1, <3>2, <3>5, MinedIsLent, AmountTypes
      <4>5. DebitIn(chain)[i] <= t.maxGas + t.advance
        BY <3>5, <4>2, <4>3, <4>4 DEF SpentOf
      <4>6. j.spent + t.advance + t.maxGas <= j.plan.sponsorMax
        BY <1>1, <3>2, <3>5 DEF Within
      <4>7. j.plan.sponsorMax \in Nat
        BY <1>1, JobFields, PlanFields
      <4>8. Open(j) = Shortfall(j.plan.sponsorMax, j.spent)
        BY <4>1 DEF Open, Unspent
      <4>9. t.advance + t.maxGas <= Open(j)
        BY <1>11, <4>3, <4>6, <4>7, <4>8 DEF Shortfall
      <4>10. DebitIn(chain)[i] \in Nat
        BY <1>8, <3>2
      <4> HIDE DEF t
      <4> QED
        BY <1>11, <3>3, <4>3, <4>5, <4>9, <4>10
    <3> QED
      BY <3>4, <3>5
  <2> QED
    BY <2>1, <2>2
<1> QED
  BY <1>9, <1>10, <1>11, <1>12 DEF C

\* So the whole chain cost the sponsor no more than the records together draw.
LEMMA RecordsCover ==
  ASSUME ReserveInv
  PROVE  Sum(DebitIn(chain), 1..Len(chain)) <= Sum(Draws, Records)
<1>1. /\ TypeOK /\ SettlementInv /\ Identity /\ IsFiniteSet(Records) /\ Records \subseteq Job
  BY ReserveFacts
<1> DEFINE L == 1..Len(chain)
           A == [j \in Records |-> {i \in L : chain[i].tx.id = j.id}]
           U == UNION {A[j] : j \in Records}
           g == [j \in Records |-> Sum(DebitIn(chain), A[j])]
<1>2. IsFiniteSet(L)
  BY <1>1, LenIsNat, FS_Interval
<1>3. A \in [Records -> SUBSET L]
  OBVIOUS
<1>4. \A i, j \in Records : i # j => A[i] \cap A[j] = {}
  BY <1>1 DEF Identity
<1>5. \A i \in L : DebitIn(chain)[i] \in Nat /\ DebitIn(chain)[i] \in Int
  BY <1>1, MoneyTypes
<1>6. U = L
  <2>1. \A i \in L : \E j \in Records : i \in A[j]
    BY <1>1, MinedIsRecorded
  <2> QED
    BY <1>3, <2>1
<1>7. \A j \in Records : g[j] <= Draws[j] /\ Draws[j] \in Nat
  <2>1. SUFFICES ASSUME NEW j \in Records PROVE g[j] <= Draws[j] /\ Draws[j] \in Nat
    OBVIOUS
  <2>2. Sum(DebitIn(chain), {i \in 1..Len(chain) : chain[i].tx.id = j.id}) <= Draw(j)
    BY JobDebit
  <2>3. Draws[j] = Draw(j) /\ Draw(j) \in Nat
    BY <1>1, DrawTypes
  <2> QED
    BY <2>2, <2>3
<1>8. \A j \in Records : g[j] \in Nat
  <2>1. SUFFICES ASSUME NEW j \in Records PROVE Sum(DebitIn(chain), A[j]) \in Nat
    OBVIOUS
  <2>2. A[j] \subseteq L
    OBVIOUS
  <2> HIDE DEF A, L
  <2>3. IsFiniteSet(A[j]) /\ \A i \in A[j] : DebitIn(chain)[i] \in Nat
    BY <1>2, <1>5, <2>2, FS_Subset
  <2> QED
    BY <2>3, SumNat
<1> HIDE DEF A, L
<1>9. Sum(DebitIn(chain), U) = Sum(g, Records)
  BY <1>1, <1>2, <1>3, <1>4, <1>5, SumOfParts
<1> HIDE DEF g, U
<1>10. Sum(g, Records) <= Sum(Draws, Records)
  BY <1>1, <1>7, <1>8, SumBounded
<1> QED
  BY <1>6, <1>9, <1>10 DEF L

LEMMA ReserveRespected ==
  ASSUME ReserveInv PROVE OutstandingBounded /\ (Calm => FloorRespected)
<1>1. TypeOK /\ IsFiniteSet(Records) /\ Records \subseteq Job
  BY ReserveFacts
<1>2. OutstandingBounded
  <2>1. Sum(Owes, Records) <= Cfg.maxOutstanding
    BY DEF ReserveInv, Backs
  <2> QED
    BY <1>1, <2>1, ExposureIs DEF OutstandingBounded
<1>3. ASSUME Calm PROVE FloorRespected
  <2> DEFINE c == Sum(CreditIn(chain), 1..Len(chain))
             d == Sum(DebitIn(chain), 1..Len(chain))
             w == Sum(Draws, Records)
  <2>1. Len(chain) \in 0..Len(chain)
    BY <1>1, LenIsNat
  <2>2. SponsorBalance(Len(chain)) = SponsorStart + c - d /\ c \in Nat /\ d \in Nat
    BY <1>1, <2>1, BalanceIs
  <2>3. SponsorStart + c >= Cfg.floor + w
    BY <1>3 DEF ReserveInv, Backs
  <2>4. d <= w
    BY RecordsCover
  <2>5. w \in Nat
    <3>1. Sum(Spents, Records) \in Nat /\ Sum(Opens, Records) \in Nat
          /\ w = Sum(Spents, Records) + Sum(Opens, Records)
      BY <1>1, ExposureIs
    <3> HIDE DEF w
    <3> QED
      BY <3>1
  <2>6. SponsorStart \in Nat /\ Cfg.floor \in Nat
    BY CfgIsNumbers
  <2> HIDE DEF c, d, w
  <2> QED
    BY <2>2, <2>3, <2>4, <2>5, <2>6 DEF FloorRespected
<1> QED
  BY <1>2, <1>3

-----------------------------------------------------------------------------
(* What the saves do to the reserve. *)

\* A version of a job that carries its costs on draws and owes no more.
LEMMA CarriedSpares ==
  ASSUME NEW j \in Job, NEW k \in Job, SameCosts(j, k)
  PROVE  /\ Spares(j, k) /\ TxsOf(k) \subseteq TxsOf(j)
         /\ (\A t \in TxsOf(j) : Lent(t)) => \A t \in TxsOf(k) : Lent(t)
<1>1. Debt(k) = Debt(j) /\ k.spent = j.spent
  BY DEF SameCosts, Debt
<1>2. ~j.settled /\ ~k.settled => Unspent(k) = Unspent(j)
  BY DEF SameCosts, Unspent
<1>3. k.settled => Unspent(k) = 0
  BY DEF Unspent
<1>4. /\ Unspent(j) \in Nat /\ Unspent(k) \in Nat /\ Debt(j) \in Nat /\ j.spent \in Nat
      /\ j.settled \in BOOLEAN /\ k.settled \in BOOLEAN
      /\ j.released \in BOOLEAN /\ k.released \in BOOLEAN
  BY DrawTypes, JobFields
<1>5. (j.settled => k.settled) /\ (j.released => k.released)
  BY DEF SameCosts
<1>6. Unspent(k) <= Unspent(j)
  BY <1>2, <1>3, <1>4, <1>5
<1>7. Open(k) <= Open(j) /\ Owed(k) <= Owed(j) /\ Open(j) \in Nat /\ Open(k) \in Nat
  BY <1>1, <1>4, <1>5, <1>6 DEF Open, Owed
<1>8. Draw(k) <= Draw(j)
  BY <1>1, <1>4, <1>7 DEF Draw
<1>9. TxsOf(k) \subseteq TxsOf(j)
  BY DEF SameCosts, TxsOf
<1> QED
  BY <1>7, <1>8, <1>9 DEF Spares

LEMMA BacksTypes ==
  ASSUME ReserveInv
  PROVE  /\ Sum(CreditIn(chain), 1..Len(chain)) \in Nat
         /\ SponsorStart \in Nat /\ Cfg.floor \in Nat /\ Cfg.maxOutstanding \in Nat
<1>1. TypeOK /\ Len(chain) \in 0..Len(chain)
  BY ReserveFacts, LenIsNat
<1> QED
  BY <1>1, BalanceIs, CfgIsNumbers

LEMMA SumTypes ==
  ASSUME NEW W, W \subseteq Job, IsFiniteSet(W)
  PROVE  Sum(Draws, W) \in Nat /\ Sum(Owes, W) \in Nat
<1>1. \A j \in W : Draws[j] \in Nat /\ Owes[j] \in Nat
  BY DrawTypes
<1> QED
  BY <1>1, SumNat

\* So the sponsor still backs the records.
LEMMA SpareBacked ==
  ASSUME ReserveInv, NEW W, W \subseteq Job, IsFiniteSet(W), NEW j \in W, NEW k \in Job,
         Spares(j, k), Backs(chain, W)
  PROVE  Backs(chain, (W \ {j}) \cup {k})
<1> DEFINE V == (W \ {j}) \cup {k}
           c == Sum(CreditIn(chain), 1..Len(chain))
<1>1. /\ Sum(Draws, V) <= Sum(Draws, W) /\ Sum(Owes, V) <= Sum(Owes, W)
      /\ V \subseteq Job /\ IsFiniteSet(V)
  BY SpareSums
<1> HIDE DEF V
<1>2. /\ Sum(Draws, V) \in Nat /\ Sum(Owes, V) \in Nat
      /\ Sum(Draws, W) \in Nat /\ Sum(Owes, W) \in Nat
  BY <1>1, SumTypes
<1>3. /\ c \in Nat /\ SponsorStart \in Nat /\ Cfg.floor \in Nat /\ Cfg.maxOutstanding \in Nat
  BY BacksTypes
<1>4. Sum(Owes, W) <= Cfg.maxOutstanding /\ (Calm => SponsorStart + c >= Cfg.floor + Sum(Draws, W))
  BY DEF Backs
<1> HIDE DEF c
<1>5. Sum(Owes, V) <= Cfg.maxOutstanding /\ (Calm => SponsorStart + c >= Cfg.floor + Sum(Draws, V))
  BY <1>1, <1>2, <1>3, <1>4
<1> QED
  BY <1>5 DEF Backs, V, c

LEMMA AfterFacts ==
  ASSUME ReserveInv, NEW h, h.new \in Job
  PROVE  /\ After(h) \subseteq Job /\ IsFiniteSet(After(h))
         /\ \A j \in Records : j.id = h.new.id => After(h) = (Records \ {j}) \cup {h.new}
         /\ (\A j \in Records : j.id # h.new.id) => After(h) = Records \cup {h.new}
<1>1. Identity /\ Records \subseteq Job /\ IsFiniteSet(Records)
  BY ReserveFacts
<1> DEFINE A == {j \in Records : j.id # h.new.id}
<1>2. A \subseteq Records /\ IsFiniteSet(A) /\ After(h) = A \cup {h.new}
  BY <1>1, FS_Subset DEF After
<1>3. \A j \in Records : j.id = h.new.id => A = Records \ {j}
  BY <1>1 DEF Identity
<1>4. (\A j \in Records : j.id # h.new.id) => A = Records
  OBVIOUS
<1> HIDE DEF A
<1>5. IsFiniteSet(A \cup {h.new})
  BY <1>2, FS_AddElement
<1> QED
  BY <1>1, <1>2, <1>3, <1>4, <1>5

\* A later version replaces the record of a job, and the operation in the queue
\* waits on.
LEMMA ReplacedReserve ==
  ASSUME ReserveInv, BooksInv', NEW j \in Records, NEW k \in Job, k.id = j.id,
         Replaces(j, k), Spares(j, k), Loan(k), held' \subseteq held, chain' = chain,
         \A i \in jobs' : i \in jobs \/ (i = k /\ (k.released => k.settled))
  PROVE  ReserveInv'
<1>1. /\ Identity /\ Records \subseteq Job /\ IsFiniteSet(Records)
      /\ Records' = (Records \ {j}) \cup {k}
  BY ReserveFacts DEF Replaces
<1>2. IsFiniteSet(Records')
  <2>1. IsFiniteSet(Records \ {j})
    BY <1>1, FS_Subset
  <2> QED
    BY <1>1, <2>1, FS_AddElement
<1>3. Backs(chain, Records')
  BY <1>1, SpareBacked DEF ReserveInv
<1>4. \A i \in Records' : Loan(i)
  BY <1>1 DEF ReserveInv
<1>5. \A i \in jobs' : i.released => i.settled
  BY DEF ReserveInv
<1>6. \A h \in held : Backs(chain, After(h)')
  <2>1. SUFFICES ASSUME NEW h \in held PROVE Backs(chain, After(h)')
    OBVIOUS
  <2>2. h.new \in Job /\ Backs(chain, After(h))
    BY ReserveFacts DEF ReserveInv, TypeOK
  <2>3. After(h) \subseteq Job /\ IsFiniteSet(After(h))
    BY <2>2, AfterFacts
  <2>4. After(h)' = {i \in Records' : i.id # h.new.id} \cup {h.new}
    BY DEF After
  <2>5. CASE j.id = h.new.id
    <3>1. After(h)' = After(h)
      BY <1>1, <2>4, <2>5 DEF After
    <3> QED
      BY <2>2, <3>1
  <2>6. CASE j.id # h.new.id
    <3>1. After(h)' = (After(h) \ {j}) \cup {k} /\ j \in After(h)
      BY <1>1, <2>4, <2>6 DEF After
    <3> QED
      BY <2>2, <2>3, <3>1, SpareBacked
  <2> QED
    BY <2>5, <2>6
<1>7. \A h \in held' : Loan(h.new) /\ (h.new.released => h.new.settled)
  BY DEF ReserveInv
<1> QED
  BY <1>2, <1>3, <1>4, <1>5, <1>6, <1>7 DEF ReserveInv

LEMMA SavedReserve ==
  ASSUME ReserveInv, BooksInv', NEW j \in jobs, NEW k, SaveJob(k), k.id = j.id, k.acct = j.acct,
         lastId' = lastId, Spares(j, k), Loan(k), k.released => k.settled,
         held' \subseteq held, UNCHANGED network
  PROVE  ReserveInv'
<1>1. j \in Records /\ Identity
  BY ReserveFacts DEF Records
<1>2. Replaces(j, k)
  BY <1>1, SaveReplaces
<1>3. k \in Job
  <2>1. TypeOK'
    BY DEF BooksInv, LimitInv, SettlementInv, JournalInv, TypeInv
  <2>2. k \in jobs'
    BY DEF SaveJob
  <2> QED
    BY <2>1, <2>2 DEF TypeOK
<1>4. \A i \in jobs' : i \in jobs \/ (i = k /\ (k.released => k.settled))
  BY DEF SaveJob
<1>5. chain' = chain
  BY DEF network
<1> QED
  BY <1>1, <1>2, <1>3, <1>4, <1>5, ReplacedReserve

\* A step of the queue alone.
LEMMA QueuedReserve ==
  ASSUME ReserveInv, BooksInv', UNCHANGED <<ledger, network>>,
         \A h \in held' : /\ Loan(h.new) /\ (h.new.released => h.new.settled)
                          /\ Backs(chain, After(h))
  PROVE  ReserveInv'
<1>1. Records' = Records /\ jobs' = jobs /\ chain' = chain
  BY DEF ledger, network, Records
<1>2. \A h : After(h)' = After(h)
  BY <1>1 DEF After
<1> QED
  BY <1>1, <1>2 DEF ReserveInv

-----------------------------------------------------------------------------
(* The actions. *)

LEMMA PlainReserve ==
  ASSUME ReserveInv, BooksInv', NEW j \in jobs, PlainStep(j) PROVE ReserveInv'
<1>1. j \in Job /\ j \in Records /\ Loan(j) /\ (j.released => j.settled)
  BY ReserveFacts DEF Records, ReserveInv
<1>2. PICK k : SaveJob(k) /\ Carries(j, k)
  BY <1>1, PlainStepSaves
<1>3. held' = held /\ lastId' = lastId /\ UNCHANGED network
  BY DEF PlainStep, Skip, Finish, Fail, Resume, SolSend, SolExpire, SolNext,
         PollGuardians, AutoRedeem, PrepareTap, TapDone
<1>4. k \in Job
  <2>1. TypeOK'
    BY DEF BooksInv, LimitInv, SettlementInv, JournalInv, TypeInv
  <2>2. k \in jobs'
    BY <1>2 DEF SaveJob
  <2> QED
    BY <2>1, <2>2 DEF TypeOK
<1>5. Spares(j, k) /\ k.id = j.id /\ k.acct = j.acct /\ (k.released => k.settled) /\ Loan(k)
  <2>1. SameCosts(j, k) /\ (k.released => k.settled)
    BY <1>1, <1>2 DEF Carries
  <2>2. Spares(j, k) /\ \A t \in TxsOf(k) : Lent(t)
    BY <1>1, <1>4, <2>1, CarriedSpares DEF Loan
  <2> QED
    BY <2>1, <2>2 DEF SameCosts, Loan
<1> QED
  BY <1>2, <1>3, <1>5, SavedReserve

LEMMA ResetReserve ==
  ASSUME ReserveInv, BooksInv', NEW j \in jobs, Reset(j) PROVE ReserveInv'
<1>1. j \in Job /\ j \in Records /\ Loan(j) /\ Identity
  BY ReserveFacts DEF Records
<1> DEFINE k == [j EXCEPT !.released = TRUE]
<1>2. /\ jobs' = jobs \ {j} /\ past' = past \cup {k} /\ held' = held /\ UNCHANGED network
      /\ j.pending = {}
  BY DEF Reset
<1>3. SameCosts(j, k) /\ k \in Job /\ k.pending = {} /\ k.id = j.id
  BY <1>1, <1>2, ExceptSameCosts DEF Job
<1> HIDE DEF k
<1>4. Spares(j, k) /\ Loan(k)
  BY <1>1, <1>3, CarriedSpares DEF Loan
<1>5. Replaces(j, k)
  <2>1. j \notin past
    BY <1>1 DEF Identity
  <2> QED
    BY <1>2, <2>1 DEF Replaces, Records
<1>6. chain' = chain /\ \A i \in jobs' : i \in jobs
  BY <1>2 DEF network
<1> QED
  BY <1>1, <1>2, <1>3, <1>4, <1>5, <1>6, ReplacedReserve

\* A receipt turns what the job may draw into what it has drawn.
LEMMA ReceiptSpares ==
  ASSUME ReserveInv, NEW j \in Records, NEW r \in Receipt, r.tx \in j.pending, NEW gas \in Nat,
         NEW k \in Job, Within(k), k.plan = j.plan, k.settled = j.settled,
         k.released = j.released, k.spent = j.spent + SpentOf(r.tx, r.ok, gas),
         k.recovered = j.recovered + RecoveredOf(r.tx, r.ok, gas)
  PROVE  Spares(j, k)
<1> DEFINE x == SpentOf(r.tx, r.ok, gas)
           y == RecoveredOf(r.tx, r.ok, gas)
<1>1. j \in Job /\ j.spent \in Nat /\ j.recovered \in Nat /\ j.plan.sponsorMax \in Nat
  BY ReserveFacts, JobFields, PlanFields
<1>2. x \in Nat /\ y \in Nat
  BY DEF SpentOf, RecoveredOf, Receipt, Tx
<1>3. k.spent = j.spent + x /\ k.recovered = j.recovered + y
  OBVIOUS
<1>4. r.tx.sponsored => ~j.settled /\ ~j.released
  BY LoanIsOpen
<1>5. ~r.tx.sponsored => x = 0
  BY DEF SpentOf
<1> HIDE DEF x, y
<1>6. Debt(k) <= Debt(j) + x /\ Debt(j) \in Nat /\ Debt(k) \in Nat
  <2>1. Debt(k) <= Debt(j) + x
    BY <1>1, <1>2, <1>3 DEF Debt, Shortfall
  <2> QED
    BY <1>1, <2>1, DueType
<1>7. CASE r.tx.sponsored
  <2>1. k.spent <= j.plan.sponsorMax
    BY DEF Within
  <2>2. /\ Open(j) = Shortfall(j.plan.sponsorMax, j.spent)
        /\ Open(k) = Shortfall(j.plan.sponsorMax, k.spent)
        /\ Owed(j) = Open(j) + Debt(j) /\ Owed(k) = Open(k) + Debt(k)
    BY <1>4, <1>7 DEF Open, Owed, Unspent
  <2>3. Open(k) + x = Open(j) /\ Open(k) \in Nat /\ Open(j) \in Nat
    BY <1>1, <1>2, <1>3, <2>1, <2>2 DEF Shortfall
  <2>4. Owed(k) <= Owed(j)
    BY <1>2, <1>6, <2>2, <2>3
  <2>5. Draw(k) <= Draw(j)
    BY <1>1, <1>2, <1>3, <2>3 DEF Draw
  <2> QED
    BY <2>4, <2>5 DEF Spares
<1>8. CASE ~r.tx.sponsored
  <2>1. k.spent = j.spent /\ x = 0
    BY <1>1, <1>3, <1>5, <1>8
  <2>2. Unspent(k) = Unspent(j)
    BY <2>1 DEF Unspent
  <2>3. Open(k) = Open(j) /\ Unspent(j) \in Nat /\ Open(j) \in Nat
    BY <1>1, <2>2, DrawTypes DEF Open
  <2>4. Draw(k) <= Draw(j)
    BY <1>1, <2>1, <2>3 DEF Draw
  <2>5. Debt(k) <= Debt(j)
    BY <1>6, <2>1
  <2>6. Owed(k) <= Owed(j)
    BY <1>6, <2>2, <2>3, <2>5 DEF Owed
  <2> QED
    BY <2>4, <2>6 DEF Spares
<1> QED
  BY <1>7, <1>8

LEMMA ReceiptFields ==
  ASSUME NEW j \in Job, NEW r \in Receipt, NEW gas \in Nat
  PROVE  LET k == Recorded(j, r, gas)
         IN  /\ k \in Job /\ k.plan = j.plan /\ k.settled = j.settled
             /\ k.released = j.released /\ k.pending = {}
             /\ k.spent = j.spent + SpentOf(r.tx, r.ok, gas)
             /\ k.recovered = j.recovered + RecoveredOf(r.tx, r.ok, gas)
             /\ Reverted(k).plan = k.plan /\ Reverted(k).settled = k.settled
             /\ Reverted(k).released = k.released /\ Reverted(k).pending = k.pending
             /\ Reverted(k).spent = k.spent /\ Reverted(k).recovered = k.recovered
<1> DEFINE k == Recorded(j, r, gas)
<1>1. k \in Job
  BY RecordedType
<1>2. /\ k.plan = j.plan /\ k.settled = j.settled
      /\ k.released = j.released /\ k.pending = {}
      /\ k.spent = j.spent + SpentOf(r.tx, r.ok, gas)
      /\ k.recovered = j.recovered + RecoveredOf(r.tx, r.ok, gas)
  BY <1>1 DEF Recorded, Job
<1> HIDE DEF k
<1>3. /\ Reverted(k).plan = k.plan /\ Reverted(k).settled = k.settled
      /\ Reverted(k).released = k.released /\ Reverted(k).pending = k.pending
      /\ Reverted(k).spent = k.spent /\ Reverted(k).recovered = k.recovered
  BY <1>1 DEF Reverted, Job
<1> QED
  BY <1>1, <1>2, <1>3 DEF k

LEMMA ReceiptReserve ==
  ASSUME ReserveInv, BooksInv', NEW j \in jobs, Confirm(j) \/ CrashInConfirm(j)
  PROVE  ReserveInv'
<1>0. TypeOK /\ Identity /\ TypeOK' /\ LimitInv /\ LimitInv'
  <2>1. TypeOK' /\ LimitInv'
    BY DEF BooksInv, LimitInv, SettlementInv, JournalInv, TypeInv
  <2> QED
    BY <2>1, ReserveFacts
<1>1. /\ j \in Job /\ j \in Records /\ Tidy(j) /\ Loan(j) /\ Within(j)
      /\ (j.released => j.settled) /\ j.status # "error"
  BY ReserveFacts, EthIsStatus DEF Records, ReserveInv, Confirm, CrashInConfirm
<1>2. ASSUME NEW e \in Final, NEW ok \in BOOLEAN, e.tx \in j.pending, NEW i \in Job,
             LET k == Recorded(j, [tx |-> e.tx, ok |-> ok], e.gas) IN i = k \/ i = Reverted(k)
      PROVE  /\ Spares(j, i) /\ Loan(i) /\ i.id = j.id /\ i.acct = j.acct
             /\ (i.released => i.settled)
  <2> DEFINE r == [tx |-> e.tx, ok |-> ok]
             k == Recorded(j, r, e.gas)
  <2>1. r \in Receipt /\ r.tx = e.tx /\ r.tx \in j.pending
    BY <1>0, <1>2, FinalType DEF Receipt
  <2>2. e.gas \in Nat /\ e.gas <= e.tx.maxGas
    BY <1>0, FinalType, FinalGas
  <2>3. i = k \/ i = Reverted(k)
    BY <1>2
  <2> HIDE DEF r
  <2>4. Within(k) /\ Within(Reverted(k))
    BY <1>1, <2>1, <2>2, RecordWithin
  <2>5. Evolves(j, k) /\ Evolves(j, Reverted(k))
    BY <1>1, <2>1, <2>2, RecordedEvolves
  <2>6. /\ i.plan = j.plan /\ i.settled = j.settled /\ i.released = j.released /\ i.pending = {}
        /\ i.spent = j.spent + SpentOf(r.tx, r.ok, e.gas)
        /\ i.recovered = j.recovered + RecoveredOf(r.tx, r.ok, e.gas)
    BY <1>1, <2>1, <2>2, <2>3, ReceiptFields
  <2> HIDE DEF k
  <2>7. Within(i) /\ Evolves(j, i)
    BY <2>3, <2>4, <2>5
  <2>8. Spares(j, i)
    BY <1>1, <2>1, <2>2, <2>6, <2>7, ReceiptSpares
  <2> QED
    BY <1>1, <2>6, <2>7, <2>8 DEF Evolves, Loan
<1>3. CASE Confirm(j)
  <2>1. PICK e \in Final :
          /\ e.tx \in j.pending
          /\ LET k == Recorded(j, [tx |-> e.tx, ok |-> e.ok], e.gas)
             IN  SaveJob(IF e.ok THEN k ELSE Reverted(k))
    BY <1>3 DEF Confirm
  <2>2. e.ok \in BOOLEAN
    BY <1>0, FinalType
  <2> DEFINE k == Recorded(j, [tx |-> e.tx, ok |-> e.ok], e.gas)
             i == IF e.ok THEN k ELSE Reverted(k)
  <2>3. SaveJob(i) /\ (i = k \/ i = Reverted(k))
    BY <2>1
  <2> HIDE DEF i
  <2>4. i \in Job
    <3>1. i \in jobs'
      BY <2>3 DEF SaveJob
    <3> QED
      BY <1>0, <3>1 DEF TypeOK
  <2>5. /\ Spares(j, i) /\ Loan(i) /\ i.id = j.id /\ i.acct = j.acct
        /\ (i.released => i.settled)
    BY <1>2, <2>1, <2>2, <2>3, <2>4
  <2>6. held' = held /\ lastId' = lastId /\ UNCHANGED network
    BY <1>3 DEF Confirm
  <2> QED
    BY <2>3, <2>5, <2>6, SavedReserve
<1>4. CASE CrashInConfirm(j)
  <2>1. PICK e \in Final :
          /\ e.tx \in j.pending
          /\ jobs' = (jobs \ {j}) \cup {Recorded(j, [tx |-> e.tx, ok |-> FALSE], e.gas)}
    BY <1>4 DEF CrashInConfirm
  <2> DEFINE k == Recorded(j, [tx |-> e.tx, ok |-> FALSE], e.gas)
  <2>2. jobs' = (jobs \ {j}) \cup {k}
    BY <2>1
  <2>3. k \in Job
    BY <1>0, <2>2 DEF TypeOK
  <2>4. Spares(j, k) /\ Loan(k) /\ k.id = j.id /\ (k.released => k.settled)
    BY <1>2, <2>1, <2>3
  <2> HIDE DEF k
  <2>5. held' = {} /\ past' = past /\ chain' = chain
    BY <1>4 DEF CrashInConfirm, network
  <2>6. Replaces(j, k)
    <3>1. j \notin past
      BY <1>0 DEF Identity
    <3> QED
      BY <2>2, <2>5, <3>1 DEF Replaces, Records
  <2>7. \A i \in jobs' : i \in jobs \/ (i = k /\ (k.released => k.settled))
    BY <2>2, <2>4
  <2> QED
    BY <1>1, <2>3, <2>4, <2>5, <2>6, <2>7, ReplacedReserve
<1> QED
  BY <1>3, <1>4

\* Room for what is asked, in a view that is not behind the ledger, is room for it
\* in truth.
LEMMA AdmittedIsBacked ==
  ASSUME ReserveInv, NEW W, W \subseteq Records, NEW k \in Job, k \notin W, NEW want \in Nat,
         Sum(Draws, W \cup {k}) = Draws[k] + Sum(Draws, W),
         Sum(Owes, W \cup {k}) = Owes[k] + Sum(Owes, W),
         k.spent = 0, Open(k) <= want, Debt(k) = 0, want > 0, HasCapacity(want, W)
  PROVE  Backs(chain, W \cup {k})
<1>1. TypeOK /\ IsFiniteSet(Records) /\ Records \subseteq Job
  BY ReserveFacts
<1>2. IsFiniteSet(W) /\ W \subseteq Job
  BY <1>1, FS_Subset
<1>3. PICK v \in CurrentViews : Admits(SponsorBalance(v), W, want, Cfg)
  BY DEF HasCapacity
<1>4. v \in 0..Len(chain)
  BY DEF CurrentViews
<1> DEFINE s == SponsorStart
           c == Sum(CreditIn(chain), 1..Len(chain))
           cv == Sum(CreditIn(chain), 1..v)
           dv == Sum(DebitIn(chain), 1..v)
           o == Sum(Opens, W)
           p == Sum(Spents, W)
           q == Sum(Spents, Records)
<1>5. /\ SponsorBalance(v) = s + cv - dv /\ cv \in Nat /\ dv \in Nat /\ cv <= c /\ c \in Nat
      /\ s \in Nat /\ Cfg.floor \in Nat /\ Cfg.maxOutstanding \in Nat
  BY <1>1, <1>4, BalanceIs, CfgIsNumbers
<1>6. /\ UnspentOf(W) = o /\ Exposure(W) = Sum(Owes, W) /\ Sum(Draws, W) = p + o
      /\ p \in Nat /\ o \in Nat /\ Sum(Owes, W) \in Nat
  BY <1>2, ExposureIs
<1>7. q <= dv
  BY <1>3, ViewCovers
<1>8. p <= q /\ q \in Nat
  <2>1. \A j \in Records : Spents[j] \in Nat
    BY <1>1, DrawTypes
  <2>2. \A j \in W : Spents[j] \in Nat /\ j \in Records /\ Spents[j] <= Spents[j]
    BY <2>1
  <2> QED
    BY <1>1, <1>2, <2>1, <2>2, SumBounded, SumNat
<1>9. /\ Sum(Owes, W) + want <= Cfg.maxOutstanding
      /\ SponsorBalance(v) >= Cfg.floor + o + want
  BY <1>3, <1>6 DEF Admits
<1>10. Draws[k] <= want /\ Owes[k] <= want /\ Draws[k] \in Nat /\ Owes[k] \in Nat
  <2>1. /\ Open(k) \in Nat /\ Unspent(k) \in Nat /\ Draws[k] = Draw(k) /\ Owes[k] = Owed(k)
        /\ Draw(k) \in Nat /\ Owed(k) \in Nat
    BY DrawTypes
  <2>2. Draw(k) = Open(k) /\ Owed(k) = Open(k)
    BY <2>1 DEF Draw, Owed, Open
  <2> QED
    BY <2>1, <2>2
<1> HIDE DEF s, c, cv, dv, o, p, q
<1>11. Sum(Owes, W \cup {k}) <= Cfg.maxOutstanding
  BY <1>5, <1>6, <1>9, <1>10
<1>12. s + c >= Cfg.floor + Sum(Draws, W \cup {k})
  BY <1>5, <1>6, <1>7, <1>8, <1>9, <1>10
<1> QED
  BY <1>11, <1>12 DEF Backs, s, c

\* A record that has drawn nothing is admitted.
LEMMA AdmissionIsBacked ==
  ASSUME ReserveInv, NEW W, W \subseteq Records, NEW k \in Job, k \notin W, NEW want \in Nat,
         k.spent = 0, Open(k) <= want, Debt(k) = 0, HasCapacity(want, W),
         want = 0 => Backs(chain, W)
  PROVE  Backs(chain, W \cup {k})
<1>1. IsFiniteSet(W) /\ W \subseteq Job
  BY ReserveFacts, FS_Subset
<1>2. \A i \in W \cup {k} : Draws[i] \in Nat /\ Owes[i] \in Nat
  BY <1>1, DrawTypes
<1>3. \A i \in W \cup {k} : Draws[i] \in Int /\ Owes[i] \in Int
  BY <1>2
<1>4. /\ Sum(Draws, W \cup {k}) = Draws[k] + Sum(Draws, W)
      /\ Sum(Owes, W \cup {k}) = Owes[k] + Sum(Owes, W)
  BY <1>1, <1>3, SumAdd
<1>5. CASE want > 0
  BY <1>4, <1>5, AdmittedIsBacked
<1>6. CASE want = 0
  <2>1. /\ Open(k) \in Nat /\ Unspent(k) \in Nat /\ Draws[k] = Draw(k) /\ Owes[k] = Owed(k)
        /\ Draw(k) \in Nat /\ Owed(k) \in Nat
    BY DrawTypes
  <2>2. Open(k) = 0
    BY <1>6, <2>1
  <2>3. Draw(k) = 0 /\ Owed(k) = 0
    BY <2>1, <2>2 DEF Draw, Owed, Open
  <2>4. Sum(Draws, W) \in Nat /\ Sum(Owes, W) \in Nat
    BY <1>1, SumTypes
  <2>5. /\ Sum(Draws, W \cup {k}) = Sum(Draws, W)
        /\ Sum(Owes, W \cup {k}) = Sum(Owes, W)
    BY <1>4, <2>1, <2>3, <2>4
  <2> QED
    BY <1>6, <2>5 DEF Backs
<1> QED
  BY <1>5, <1>6

LEMMA StartReserve ==
  ASSUME ReserveInv, BooksInv', NEW a \in Accounts, NEW p \in Plans, Start(a, p)
  PROVE  ReserveInv'
<1> DEFINE k == NewJob(lastId + 1, a, p)
<1>1. /\ held' = {[op |-> "start", new |-> k]} /\ UNCHANGED <<ledger, network>>
      /\ HasCapacity(p.sponsorMax, Records)
  BY DEF Start
<1>2. /\ k.spent = 0 /\ k.recovered = 0 /\ k.pending = {} /\ k.receipts = {}
      /\ k.plan = p /\ ~k.settled /\ ~k.released /\ k.id = lastId + 1
  BY DEF NewJob
<1>3. p.sponsorMax \in Nat
  BY PlansAreWellFormed, PlanFields DEF WellFormed
<1> HIDE DEF k
<1>4. k \in Job
  <2>1. TypeOK'
    BY DEF BooksInv, LimitInv, SettlementInv, JournalInv, TypeInv
  <2> QED
    BY <1>1, <2>1 DEF TypeOK
<1>5. Identity /\ Records \subseteq Job /\ TypeOK /\ Backs(chain, Records)
  BY ReserveFacts DEF ReserveInv
<1>6. \A j \in Records : j.id # k.id /\ j # k
  <2>1. \A j \in Records : j.id <= lastId /\ j.id \in Nat
    BY <1>5, JobFields DEF Identity
  <2> QED
    BY <1>2, <1>5, <2>1 DEF TypeOK
<1>7. Open(k) <= p.sponsorMax /\ Debt(k) = 0
  BY <1>2, <1>3 DEF Open, Unspent, Debt, Shortfall
<1>8. Backs(chain, Records \cup {k})
  BY <1>1, <1>2, <1>3, <1>4, <1>5, <1>6, <1>7, AdmissionIsBacked
<1>9. Loan(k)
  BY <1>2 DEF Loan, TxsOf
<1>10. \A h : h.new = k => After(h) = Records \cup {k}
  <2>1. SUFFICES ASSUME NEW h, h.new = k PROVE After(h) = Records \cup {k}
    OBVIOUS
  <2>2. h.new \in Job /\ \A j \in Records : j.id # h.new.id
    BY <1>4, <1>6, <2>1
  <2> QED
    BY <2>1, <2>2, AfterFacts
<1> QED
  BY <1>1, <1>2, <1>8, <1>9, <1>10, QueuedReserve

\* A later version of a record that draws on and owes no more waits for its save.
LEMMA HeldIsBacked ==
  ASSUME ReserveInv, NEW j \in Records, NEW k \in Job, k.id = j.id, Spares(j, k)
  PROVE  \A h : h.new = k => Backs(chain, After(h))
<1>1. SUFFICES ASSUME NEW h, h.new = k PROVE Backs(chain, After(h))
  OBVIOUS
<1>2. After(h) = (Records \ {j}) \cup {k}
  BY <1>1, AfterFacts
<1>3. Records \subseteq Job /\ IsFiniteSet(Records) /\ Backs(chain, Records)
  BY ReserveFacts DEF ReserveInv
<1> QED
  BY <1>2, <1>3, SpareBacked

\* What the sponsor signs is what its job borrows.
LEMMA TermsLent ==
  ASSUME NEW j \in Job, NEW c \in Terms(j)
  PROVE  c.sponsored \in BOOLEAN /\ (c.sponsored => c.value = c.advance)
<1>1. CASE j.status = "front_gas"
  BY <1>1, TermsType DEF Terms
<1>2. CASE j.status = "wh_redeem"
  BY <1>2, TermsType DEF Terms
<1>3. CASE j.status \notin {"front_gas", "wh_redeem"}
  BY <1>3, TermsPriced, TermsType
<1> QED
  BY <1>1, <1>2, <1>3

LEMMA SendReserve ==
  ASSUME ReserveInv, BooksInv', NEW j \in jobs, Send(j) PROVE ReserveInv'
<1>1. /\ j \in Job /\ j \in Records /\ Loan(j) /\ (j.released => j.settled)
      /\ j.acct \in Accounts /\ j.plan \in Plan
  BY ReserveFacts, JobFields DEF Records, ReserveInv
<1>2. PICK c \in Terms(j), gas \in 1..j.plan.limit[j.status] :
        LET w == IF c.sponsored THEN Sponsor ELSE j.acct
        IN  \E seen \in Counts(w) : \E n \in NonceFloor(w, seen) :
              held' = {[op |-> "send", new |-> [j EXCEPT !.pending =
                {[id |-> j.id, from |-> w, nonce |-> n, step |-> j.status,
                  sponsored |-> c.sponsored, value |-> c.value, advance |-> c.advance,
                  recovered |-> c.recovered, maxGas |-> gas]}]]}
  BY DEF Send
<1> DEFINE w == IF c.sponsored THEN Sponsor ELSE j.acct
<1>3. PICK n :
        held' = {[op |-> "send", new |-> [j EXCEPT !.pending =
          {[id |-> j.id, from |-> w, nonce |-> n, step |-> j.status,
            sponsored |-> c.sponsored, value |-> c.value, advance |-> c.advance,
            recovered |-> c.recovered, maxGas |-> gas]}]]}
  BY <1>2
<1>4. c.sponsored \in BOOLEAN /\ (c.sponsored => c.value = c.advance)
  BY <1>1, TermsLent
<1>5. w = Sponsor <=> c.sponsored
  BY <1>1, <1>4, SponsorIsNoAccount
<1> HIDE DEF w
<1> DEFINE t == [id |-> j.id, from |-> w, nonce |-> n, step |-> j.status,
                 sponsored |-> c.sponsored, value |-> c.value, advance |-> c.advance,
                 recovered |-> c.recovered, maxGas |-> gas]
           k == [j EXCEPT !.pending = {t}]
<1>6. held' = {[op |-> "send", new |-> k]}
  BY <1>3
<1>7. Lent(t)
  BY <1>4, <1>5 DEF Lent
<1> HIDE DEF t
<1>8. /\ k.id = j.id /\ k.pending = {t} /\ k.receipts = j.receipts /\ k.plan = j.plan
      /\ k.spent = j.spent /\ k.recovered = j.recovered
      /\ k.settled = j.settled /\ k.released = j.released
  BY <1>1 DEF Job
<1> HIDE DEF k
<1>9. k \in Job
  <2>1. TypeOK'
    BY DEF BooksInv, LimitInv, SettlementInv, JournalInv, TypeInv
  <2> QED
    BY <1>6, <2>1 DEF TypeOK
<1>10. Spares(j, k)
  <2>1. Draw(k) = Draw(j) /\ Owed(k) = Owed(j)
    BY <1>8 DEF Draw, Owed, Open, Unspent, Debt
  <2>2. Draw(j) \in Nat /\ Owed(j) \in Nat
    BY <1>1, DrawTypes
  <2> QED
    BY <2>1, <2>2 DEF Spares
<1>11. \A h : h.new = k => Backs(chain, After(h))
  BY <1>1, <1>8, <1>9, <1>10, HeldIsBacked
<1>12. Loan(k) /\ (k.released => k.settled)
  <2>1. \A u \in TxsOf(k) : u = t \/ u \in TxsOf(j)
    BY <1>8 DEF TxsOf
  <2> QED
    BY <1>1, <1>7, <1>8, <2>1 DEF Loan
<1>13. UNCHANGED <<ledger, network>>
  BY DEF Send
<1> QED
  BY <1>6, <1>11, <1>12, <1>13, QueuedReserve

\* A re-quoted redeem that the sponsor pays for is admitted afresh: its job has
\* borrowed nothing.
LEMMA ApproveQuoteReserve ==
  ASSUME ReserveInv, BooksInv', NEW j \in jobs, ApproveQuote(j) PROVE ReserveInv'
<1>1. /\ j \in Job /\ j \in Records /\ Loan(j) /\ (j.released => j.settled)
      /\ Sound(j) /\ j.plan \in Plan
  BY ReserveFacts, JobFields DEF Records, ReserveInv
<1>2. CanRequote(j) /\ UNCHANGED <<ledger, network>>
  BY DEF ApproveQuote
<1>3. \E gas \in RequoteGas, redeem \in {0} \cup RequoteGas : \E l, b :
        /\ BridgeRecovery(j) => HasCapacity(redeem, Others(j))
        /\ held' = {[op |-> "requote", new |->
             [j EXCEPT !.plan = [j.plan EXCEPT !.gasMax = j.gasPaid + gas,
                                   !.sponsorMax = IF BridgeRecovery(j) THEN redeem
                                                  ELSE j.plan.sponsorMax,
                                   !.limit["wh_redeem"] = l, !.sponsoredRedeem = b],
                       !.status = j.failedAt, !.failedAt = "none", !.revision = @ + 1]]}
  BY Zenon DEF ApproveQuote
<1>4. PICK gas \in RequoteGas, redeem \in {0} \cup RequoteGas : \E l, b :
        /\ BridgeRecovery(j) => HasCapacity(redeem, Others(j))
        /\ held' = {[op |-> "requote", new |->
             [j EXCEPT !.plan = [j.plan EXCEPT !.gasMax = j.gasPaid + gas,
                                   !.sponsorMax = IF BridgeRecovery(j) THEN redeem
                                                  ELSE j.plan.sponsorMax,
                                   !.limit["wh_redeem"] = l, !.sponsoredRedeem = b],
                       !.status = j.failedAt, !.failedAt = "none", !.revision = @ + 1]]}
  BY <1>3
<1>5. PICK l, b :
        /\ BridgeRecovery(j) => HasCapacity(redeem, Others(j))
        /\ held' = {[op |-> "requote", new |->
             [j EXCEPT !.plan = [j.plan EXCEPT !.gasMax = j.gasPaid + gas,
                                   !.sponsorMax = IF BridgeRecovery(j) THEN redeem
                                                  ELSE j.plan.sponsorMax,
                                   !.limit["wh_redeem"] = l, !.sponsoredRedeem = b],
                       !.status = j.failedAt, !.failedAt = "none", !.revision = @ + 1]]}
  BY <1>4
<1> DEFINE m == IF BridgeRecovery(j) THEN redeem ELSE j.plan.sponsorMax
           p == [j.plan EXCEPT !.gasMax = j.gasPaid + gas, !.sponsorMax = m,
                   !.limit["wh_redeem"] = l, !.sponsoredRedeem = b]
           k == [j EXCEPT !.plan = p, !.status = j.failedAt, !.failedAt = "none",
                          !.revision = @ + 1]
<1>6. held' = {[op |-> "requote", new |-> k]}
  BY <1>5
<1>7. redeem \in Nat /\ j.spent \in Nat
  BY <1>1, BoundsAreNumbers, JobFields
<1>8. (BridgeRecovery(j) => m = redeem) /\ (~BridgeRecovery(j) => m = j.plan.sponsorMax)
  OBVIOUS
<1> HIDE DEF m
<1>9. p.sponsorMax = m
  BY <1>1 DEF Plan
<1> HIDE DEF p
<1>10. /\ k.id = j.id /\ k.pending = j.pending /\ k.receipts = j.receipts /\ k.plan = p
       /\ k.spent = j.spent /\ k.recovered = j.recovered
       /\ k.settled = j.settled /\ k.released = j.released
  BY <1>1 DEF Job
<1> HIDE DEF k
<1>11. k \in Job
  <2>1. TypeOK'
    BY DEF BooksInv, LimitInv, SettlementInv, JournalInv, TypeInv
  <2> QED
    BY <1>6, <2>1 DEF TypeOK
<1>12. Loan(k) /\ (k.released => k.settled)
  BY <1>1, <1>10 DEF Loan, TxsOf
<1>13. Debt(j) = 0 /\ Debt(k) = 0
  BY <1>2, <1>10 DEF CanRequote, Debt
<1>14. /\ Open(j) \in Nat /\ Draw(j) \in Nat /\ Owed(j) \in Nat
       /\ Unspent(k) \in Nat /\ Open(k) \in Nat /\ Draw(k) \in Nat /\ Owed(k) \in Nat
  BY <1>1, <1>11, DrawTypes
<1>15. CASE ~BridgeRecovery(j)
  <2>1. Draw(k) = Draw(j) /\ Owed(k) = Owed(j)
    BY <1>8, <1>9, <1>10, <1>15 DEF Draw, Owed, Open, Unspent, Debt
  <2>2. Spares(j, k)
    BY <1>14, <2>1 DEF Spares
  <2>3. \A h : h.new = k => Backs(chain, After(h))
    BY <1>1, <1>10, <1>11, <2>2, HeldIsBacked
  <2> QED
    BY <1>2, <1>6, <1>12, <2>3, QueuedReserve
<1>16. CASE BridgeRecovery(j)
  <2>1. j.spent = 0 /\ k.spent = 0
    BY <1>1, <1>2, <1>10, <1>16, NothingSpentBeforeRedeem
  <2>2. Open(k) <= redeem
    BY <1>7, <1>8, <1>9, <1>10, <1>16, <2>1 DEF Open, Unspent, Shortfall
  <2>3. CASE redeem = 0
    <3>1. Open(k) = 0
      BY <1>14, <2>2, <2>3
    <3>2. Draw(k) = 0 /\ Owed(k) = 0
      BY <1>13, <1>14, <2>1, <3>1 DEF Draw, Owed, Open
    <3>3. Spares(j, k)
      BY <1>14, <3>2 DEF Spares
    <3>4. \A h : h.new = k => Backs(chain, After(h))
      BY <1>1, <1>10, <1>11, <3>3, HeldIsBacked
    <3> QED
      BY <1>2, <1>6, <1>12, <3>4, QueuedReserve
  <2>4. CASE redeem # 0
    <3>1. Others(j) \subseteq Records /\ k \notin Others(j)
      BY <1>10 DEF Others
    <3>2. HasCapacity(redeem, Others(j))
      BY <1>5, <1>16
    <3>3. Backs(chain, Others(j) \cup {k})
      BY <1>7, <1>11, <1>13, <2>1, <2>2, <2>4, <3>1, <3>2, AdmissionIsBacked
    <3>4. \A h : h.new = k => After(h) = Others(j) \cup {k}
      BY <1>10 DEF After, Others
    <3>5. \A h : h.new = k => Backs(chain, After(h))
      BY <3>3, <3>4
    <3> QED
      BY <1>2, <1>6, <1>12, <3>5, QueuedReserve
  <2> QED
    BY <2>3, <2>4
<1> QED
  BY <1>15, <1>16

LEMMA CommitReserve == ASSUME ReserveInv, BooksInv', Commit PROVE ReserveInv'
<1>1. PICK h \in held :
        /\ SaveJob(h.new) /\ held' = {}
        /\ lastId' = IF h.op = "start" THEN h.new.id ELSE lastId
        /\ UNCHANGED network
  BY DEF Commit
<1>2. /\ Identity /\ TypeInv /\ HeldKnown /\ h.new \in Job
      /\ Loan(h.new) /\ (h.new.released => h.new.settled) /\ Backs(chain, After(h))
  BY ReserveFacts DEF ReserveInv, JournalInv, TypeOK
<1>3. Records' = After(h)
  <2>1. CASE h.op = "start"
    <3>1. h.new.id = lastId + 1
      BY <1>2, <2>1 DEF HeldKnown
    <3>2. Records' = Records \cup {h.new}
      BY <1>1, <1>2, <2>1, <3>1, SaveAdds
    <3>3. \A j \in Records : j.id # h.new.id
      <4>1. \A j \in Records : j.id <= lastId /\ j.id \in Nat
        BY <1>2, ReserveFacts, JobFields DEF Identity
      <4> QED
        BY <1>2, <3>1, <4>1 DEF TypeInv, TypeOK
    <3> QED
      BY <1>2, <3>2, <3>3, AfterFacts
  <2>2. CASE h.op # "start"
    <3>1. PICK j \in Records : Extends(j, h.new)
      BY <1>2, <2>2 DEF HeldKnown
    <3>2. lastId' = lastId /\ h.new.id = j.id /\ h.new.acct = j.acct
      BY <1>1, <2>2, <3>1 DEF Extends
    <3>3. Replaces(j, h.new)
      BY <1>1, <1>2, <3>2, SaveReplaces
    <3> QED
      BY <1>2, <3>2, <3>3, AfterFacts DEF Replaces
  <2> QED
    BY <2>1, <2>2
<1>4. IsFiniteSet(Records') /\ \A j \in Records' : Loan(j)
  <2>1. IsFiniteSet(After(h))
    BY <1>2, AfterFacts
  <2>2. \A j \in After(h) : Loan(j)
    BY <1>2 DEF After, ReserveInv
  <2> QED
    BY <1>3, <2>1, <2>2
<1>5. \A j \in jobs' : j.released => j.settled
  BY <1>1, <1>2 DEF SaveJob, ReserveInv
<1>6. chain' = chain
  BY <1>1 DEF network
<1> QED
  BY <1>1, <1>2, <1>3, <1>4, <1>5, <1>6 DEF ReserveInv

\* A chain only grows, unless blocks are reorganised: what it brought stays.
LEMMA NetworkReserve ==
  ASSUME ReserveInv, BooksInv',
         Bury \/ Reorg \/ UNCHANGED vars \/ (\E t \in mempool : Mine(t) \/ Drop(t))
           \/ \E j \in jobs : Broadcast(j)
  PROVE  ReserveInv'
<1>1. TypeOK /\ Len(chain) \in Nat /\ chain \in Seq(Entry)
  BY ReserveFacts, LenIsNat
<1>2. Records' = Records /\ held' = held /\ jobs' = jobs
  BY DEF vars, Bury, Reorg, Broadcast, Mine, Drop, ledger, Records
<1> DEFINE s == SponsorStart
           c == Sum(CreditIn(chain), 1..Len(chain))
           d == Sum(CreditIn(chain'), 1..Len(chain'))
<1>3. TypeOK'
  BY DEF BooksInv, LimitInv, SettlementInv, JournalInv, TypeInv
<1>4. c \in Nat /\ SponsorStart \in Nat
  BY BacksTypes
<1>5. Calm => d \in Nat /\ c <= d
  <2>1. CASE chain' = chain
    BY <1>4, <2>1
  <2>2. CASE Reorg
    BY <2>2 DEF Reorg, Calm
  <2>3. CASE \E t \in mempool : Mine(t)
    <3>1. PICK t \in mempool : Mine(t)
      BY <2>3
    <3>2. PICK ok \in BOOLEAN, gas \in 1..t.maxGas :
            chain' = Append(chain, [tx |-> t, ok |-> ok, gas |-> gas])
      BY <3>1 DEF Mine
    <3>3. t \in Tx /\ t.maxGas \in Nat
      BY <1>1 DEF TypeOK, Tx
    <3>4. [tx |-> t, ok |-> ok, gas |-> gas] \in Entry
      BY <3>2, <3>3 DEF Entry
    <3>5. Len(chain') = Len(chain) + 1 /\ \A i \in 1..Len(chain) : chain'[i] = chain[i]
      BY <1>1, <3>2, <3>4, AppendProperties
    <3> DEFINE S == 1..Len(chain)
               T == 1..Len(chain')
               f == CreditIn(chain)
               g == CreditIn(chain')
    <3>6. IsFiniteSet(S) /\ IsFiniteSet(T) /\ S \subseteq T
      <4>1. Len(chain) \in Int /\ Len(chain') \in Int
        BY <1>1, <3>5
      <4>2. IsFiniteSet(S) /\ IsFiniteSet(T)
        BY <4>1, FS_Interval
      <4>3. S \subseteq T
        BY <1>1, <3>5
      <4> QED
        BY <4>2, <4>3
    <3>7. \A i \in S : f[i] \in Nat
      BY <1>1, MoneyTypes
    <3>8. \A i \in T : g[i] \in Nat
      <4>1. SUFFICES ASSUME NEW i \in T PROVE g[i] \in Nat
        OBVIOUS
      <4>2. chain' \in Seq(Entry) /\ Len(chain') \in Nat
        BY <1>1, <1>3, <3>5 DEF TypeOK, Entry
      <4>3. chain'[i] \in Entry
        BY <4>2, ElementOfSeq
      <4> QED
        BY <4>3 DEF CreditIn, Entry, Tx
    <3>9. \A i \in S : i \in T /\ f[i] = g[i]
      BY <3>5, <3>6 DEF CreditIn
    <3> HIDE DEF S, T, f, g
    <3>10. \A i \in S : f[i] = 0 \/ (i \in T /\ f[i] <= g[i])
      BY <3>7, <3>9
    <3>11. Sum(f, S) <= Sum(g, T) /\ Sum(g, T) \in Nat
      BY <3>6, <3>7, <3>8, <3>10, SumBounded, SumNat
    <3> QED
      BY <3>11 DEF S, T, f, g
  <2>4. chain' = chain \/ Reorg \/ \E t \in mempool : Mine(t)
    BY DEF vars, Bury, Broadcast, Drop
  <2> QED
    BY <2>1, <2>2, <2>3, <2>4
<1>6. ASSUME NEW W, W \subseteq Job, IsFiniteSet(W), Backs(chain, W) PROVE Backs(chain', W)
  <2>1. Sum(Draws, W) \in Nat /\ Cfg.floor \in Nat
    BY <1>6, SumTypes, BacksTypes
  <2>2. Calm => s + c >= Cfg.floor + Sum(Draws, W)
    BY <1>6 DEF Backs
  <2>3. Sum(Owes, W) <= Cfg.maxOutstanding
    BY <1>6 DEF Backs
  <2> HIDE DEF c, d
  <2>4. Calm => s + d >= Cfg.floor + Sum(Draws, W)
    BY <1>4, <1>5, <2>1, <2>2
  <2> QED
    BY <2>3, <2>4 DEF Backs, d
<1>7. Backs(chain', Records)
  BY <1>6, ReserveFacts DEF ReserveInv
<1>8. \A h \in held : Backs(chain', After(h))
  <2>1. SUFFICES ASSUME NEW h \in held PROVE Backs(chain', After(h))
    OBVIOUS
  <2>2. h.new \in Job /\ Backs(chain, After(h))
    BY <1>1 DEF ReserveInv, TypeOK
  <2>3. After(h) \subseteq Job /\ IsFiniteSet(After(h))
    BY <2>2, AfterFacts
  <2> QED
    BY <1>6, <2>2, <2>3
<1>9. \A h : After(h)' = After(h)
  BY <1>2 DEF After
<1> QED
  BY <1>2, <1>7, <1>8, <1>9 DEF ReserveInv

-----------------------------------------------------------------------------
(* The theorems. *)

LEMMA InitReserve == Init => ReserveInv
<1> SUFFICES ASSUME Init PROVE ReserveInv
  OBVIOUS
<1>1. /\ Records = {} /\ jobs = {} /\ held = {} /\ chain = << >> /\ BooksInv
  BY InitBooks DEF Init, Records
<1>2. 1..Len(chain) = {}
  BY <1>1
<1>3. /\ Sum(CreditIn(chain), 1..Len(chain)) = 0
      /\ Sum(Draws, Records) = 0 /\ Sum(Owes, Records) = 0
  BY <1>1, <1>2, SumEmpty
<1>4. Backs(chain, Records)
  BY <1>3, CfgIsNumbers DEF Backs, Calm
<1> QED
  BY <1>1, <1>4, FS_EmptySet DEF ReserveInv

LEMMA NextReserve == ASSUME ReserveInv, [Next]_vars PROVE ReserveInv'
<1>0. BooksInv'
  BY NextBooks DEF ReserveInv
<1>1. CASE \E a \in Accounts, p \in Plans : Start(a, p)
  BY <1>0, <1>1, StartReserve
<1>2. CASE Commit
  BY <1>0, <1>2, CommitReserve
<1>3. CASE Abort \/ Crash
  <2>1. held' = {} /\ UNCHANGED <<ledger, network>>
    BY <1>3 DEF Abort, Crash
  <2> QED
    BY <1>0, <2>1, QueuedReserve
<1>4. CASE \E j \in jobs : JobStep(j)
  <2>1. PICK j \in jobs : JobStep(j)
    BY <1>4
  <2>2. CASE PlainStep(j)
    BY <1>0, <2>2, PlainReserve
  <2>3. CASE Send(j)
    BY <1>0, <2>3, SendReserve
  <2>4. CASE Broadcast(j)
    BY <1>0, <2>4, NetworkReserve
  <2>5. CASE OfferQuote(j)
    <3>1. held' = held /\ UNCHANGED <<ledger, network>>
      BY <2>5 DEF OfferQuote
    <3> QED
      BY <1>0, <3>1, QueuedReserve DEF ReserveInv
  <2>6. CASE Confirm(j) \/ CrashInConfirm(j)
    BY <1>0, <2>6, ReceiptReserve
  <2>7. CASE ApproveQuote(j)
    BY <1>0, <2>7, ApproveQuoteReserve
  <2>8. CASE Reset(j)
    BY <1>0, <2>8, ResetReserve
  <2> QED
    BY <2>1, <2>2, <2>3, <2>4, <2>5, <2>6, <2>7, <2>8 DEF JobStep, PlainStep
<1>5. CASE Bury \/ Reorg \/ UNCHANGED vars \/ \E t \in mempool : Mine(t) \/ Drop(t)
  BY <1>0, <1>5, NetworkReserve
<1> QED
  BY <1>1, <1>2, <1>3, <1>4, <1>5 DEF Next

\* What the sponsor owned and was paid covers the reserve and all that the records
\* have drawn and may still draw, those of the operation in the queue included.
THEOREM ReserveHolds == Spec => []ReserveInv
  BY InitReserve, NextReserve, PTL DEF Spec

\* Across concurrent conversions, debts and unspent commitments together never exceed
\* the outstanding limit (gas-accounting.js:110-112), although admit() is asked only
\* when a commitment is made: reverts, Retries, re-quotes and resets add nothing to it.
THEOREM OutstandingIsBounded == Spec => []OutstandingBounded
<1>1. ReserveInv => OutstandingBounded
  BY ReserveRespected
<1> QED
  BY <1>1, ReserveHolds, PTL

\* While no block that paid the sponsor is undone, and if it started above it, the
\* sponsor's balance never enters the protected reserve (gas-accounting.js:113-114),
\* whatever the jobs in flight cost and whichever of them never settle.
THEOREM FloorHolds ==
  ASSUME ~Reorgs, SponsorStart >= Cfg.floor PROVE Spec => []FloorRespected
<1>1. ReserveInv => FloorRespected
  BY ReserveRespected DEF Calm
<1> QED
  BY <1>1, ReserveHolds, PTL
=============================================================================
