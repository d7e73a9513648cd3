-------------------------- MODULE SmartAccountProofs --------------------------
(***************************************************************************)
(* Theorems about SmartAccount, for any number of accounts and passkeys    *)
(* and with nodes that answer a block late: the key that can finish an     *)
(* account is kept, an account that answers to its validator has a         *)
(* registered passkey, and one that is shown as active can sign.           *)
(***************************************************************************)
EXTENDS SmartAccount, FiniteSetTheorems, TLAPS

Ops == Modules \cup {"cred"}
Record == [known : BOOLEAN, cred : Credentials \cup {None}, creds : SUBSET Credentials,
           key : BOOLEAN, step : {"pending", "active", "conflict"}, err : BOOLEAN]
Store == [acc : [Addresses -> Record], by : [Credentials -> Addresses \cup {None}]]
RunAt == {"idle", "mods", "upload", "uploading", "again", "cred", "setup", "setting", "recheck"}
RunOf == [at : RunAt, seen : SUBSET Modules, want : SUBSET Ops, id : Nat, try : 1..3]
RegOf == [at : {"none", "prepared", "sent"}, a : Addresses \cup {None}, id : Nat]
Chain == [up : SUBSET Addresses, inst : [Addresses -> SUBSET Modules],
          index : [Credentials -> Addresses \cup {None}]]
TxOf == [a : Addresses, kind : {"upload", "setup", "register"}, ops : SUBSET Ops,
         c : Credentials, id : Nat]

Typed ==
  /\ mem \in Store /\ boot \in [Addresses -> RunOf] /\ resume \subseteq Addresses
  /\ reg \in [Credentials -> RegOf] /\ world \in Chain /\ past \in Chain
  /\ flight \subseteq TxOf

\* A later chain: nothing is uninstalled, and no passkey changes hands.
Extends(v, w) ==
  /\ v.up \subseteq w.up
  /\ \A a \in Addresses : v.inst[a] \subseteq w.inst[a]
  /\ \A c \in Credentials : v.index[c] # None => w.index[c] = v.index[c]

Kept == disk = mem /\ Extends(past, world)

\* Every transaction that was sent has a number of its own.
Counted ==
  /\ IsFiniteSet(flight) /\ IsFiniteSet(DOMAIN done)
  /\ {t.id : t \in flight} \cup DOMAIN done = 1..Sent
  /\ \A t \in flight : t.id \notin DOMAIN done
  /\ \A t, u \in flight : t.id = u.id => t = u

Recorded ==
  /\ \A a \in Addresses : Rec(a).known => Rec(a).key /\ Rec(a).cred \in Rec(a).creds
  /\ \A a \in Addresses, c \in Credentials : c \in Rec(a).creds <=> mem.by[c] = a
  /\ \A a \in Addresses : ~Rec(a).known =>
       Rec(a).creds = {} /\ Rec(a).step = "pending" /\ ~Rec(a).key

\* With these operations an account has both modules and its passkey.
Completes(a, ops) ==
  /\ Modules \subseteq world.inst[a] \cup ops
  /\ "cred" \in ops \/ world.index[Rec(a).cred] = a

\* A transaction that was sent waits, or it is done and had its effect.
Awaited(id, kind, a, c, effect) ==
  \/ id \in DOMAIN done /\ (done[id] = "ok" => effect)
  \/ \E t \in flight : t.id = id /\ t.kind = kind /\ t.a = a /\ t.c = c

\* What a run has established so far, and what it waits for.
RunOk(a, r) ==
  /\ r.at # "idle" => Rec(a).known
  /\ r.at = "cred" => r.seen \subseteq world.inst[a]
  /\ r.at \in {"setup", "setting", "recheck"} => Completes(a, r.want)
  /\ r.at = "setting" => Awaited(r.id, "setup", a, Rec(a).cred, "val" \in world.inst[a])

\* The same of a registration.
RegOk(c, r) ==
  /\ r.at # "none" => r.a # None
  /\ r.a # None => Rec(r.a).known /\ mem.by[c] \in {None, r.a}
  /\ r.at = "sent" => Awaited(r.id, "register", r.a, c, world.index[c] = r.a)

TxOk(t) ==
  /\ Rec(t.a).known
  /\ IF t.kind = "register" THEN t.ops = {"cred"} /\ reg[t.c].a = t.a ELSE t.c = Rec(t.a).cred
  /\ t.kind = "setup" => Completes(t.a, t.ops)
  /\ t.kind = "upload" => t.ops = {}

UnderWay == /\ \A a \in Addresses : RunOk(a, boot[a])
            /\ \A c \in Credentials : RegOk(c, reg[c])
            /\ \A t \in flight : TxOk(t)

\* Only accounts and passkeys the store knows of, or is about to, are on the chain; a
\* passkey the store shows is there, except the one the account is made with.
Known ==
  /\ \A a \in world.up : Rec(a).known
  /\ \A c \in Credentials :
       world.index[c] # None => world.index[c] \in {mem.by[c], reg[c].a}
  /\ \A a \in Addresses : \A c \in Rec(a).creds : c = Rec(a).cred \/ world.index[c] = a

\* The validator never governs an account alone.
Governed ==
  \A a \in Addresses : "val" \in world.inst[a] =>
    /\ a \in world.up /\ "sign" \in world.inst[a]
    /\ Rec(a).known /\ world.index[Rec(a).cred] = a

Active == \A a \in Addresses : Rec(a).known /\ Rec(a).step = "active" => "val" \in world.inst[a]

AccountInv == /\ Typed /\ Kept /\ Counted /\ Recorded /\ UnderWay /\ Known
              /\ Governed /\ Active

-----------------------------------------------------------------------------
(* The store. *)

LEMMA StoreFacts ==
  ASSUME Typed
  PROVE  /\ mem.acc \in [Addresses -> Record]
         /\ mem.by \in [Credentials -> Addresses \cup {None}]
         /\ \A a \in Addresses : /\ Rec(a) \in Record /\ boot[a] \in RunOf
                                 /\ world.inst[a] \subseteq Modules
         /\ \A c \in Credentials : /\ mem.by[c] \in Addresses \cup {None}
                                   /\ world.index[c] \in Addresses \cup {None}
                                   /\ reg[c] \in RegOf
         /\ world.up \subseteq Addresses
<1>1. mem \in Store /\ boot \in [Addresses -> RunOf] /\ reg \in [Credentials -> RegOf] /\ world \in Chain
  BY DEF Typed
<1>2. /\ mem.acc \in [Addresses -> Record]
      /\ mem.by \in [Credentials -> Addresses \cup {None}]
  BY <1>1 DEF Store
<1>3. /\ world.up \subseteq Addresses /\ world.inst \in [Addresses -> SUBSET Modules]
      /\ world.index \in [Credentials -> Addresses \cup {None}]
  BY <1>1 DEF Chain
<1> HIDE DEF RunOf, RegOf, Record
<1> QED BY <1>1, <1>2, <1>3 DEF Rec

\* Only the step and the error of one record change.
Stepped(m, a, s, m2) ==
  /\ m2 \in Store /\ m2.by = m.by
  /\ \A b \in Addresses : /\ m2.acc[b].known = m.acc[b].known
                          /\ m2.acc[b].cred = m.acc[b].cred
                          /\ m2.acc[b].creds = m.acc[b].creds
                          /\ m2.acc[b].key = m.acc[b].key
                          /\ b # a => m2.acc[b] = m.acc[b]
  /\ m2.acc[a].step = s

LEMMA StepSaved ==
  ASSUME NEW m \in Store, NEW a \in Addresses, NEW s \in {"pending", "active", "conflict"},
         NEW f \in BOOLEAN, NEW m2, m2 = [m EXCEPT !.acc[a].step = s, !.acc[a].err = f]
  PROVE  Stepped(m, a, s, m2)
<1>1. m.acc \in [Addresses -> Record] /\ m.by \in [Credentials -> Addresses \cup {None}]
  BY DEF Store
<1>2. PICK r : r = [m.acc[a] EXCEPT !.step = s, !.err = f] OBVIOUS
<1>3. m.acc[a] \in Record BY <1>1
<1>4. /\ r \in Record /\ r.known = m.acc[a].known /\ r.cred = m.acc[a].cred
      /\ r.creds = m.acc[a].creds /\ r.key = m.acc[a].key /\ r.step = s
  BY <1>2, <1>3 DEF Record
<1>5. m2 = [m EXCEPT !.acc[a] = r]
  <2>1. m2 = [m EXCEPT !.acc = [m.acc EXCEPT ![a] = [[m.acc[a] EXCEPT !.step = s] EXCEPT !.err = f]]]
    BY <1>1 DEF Store
  <2> QED BY <1>2, <2>1
<1>6. m2.acc = [m.acc EXCEPT ![a] = r] /\ m2.by = m.by /\ m2 \in Store
  <2> HIDE DEF Record
  <2>1. [m.acc EXCEPT ![a] = r] \in [Addresses -> Record] BY <1>1, <1>4
  <2> QED BY <1>1, <1>5, <2>1 DEF Store
<1> HIDE DEF Record
<1>7. m2.acc[a] = r /\ \A b \in Addresses : b # a => m2.acc[b] = m.acc[b] BY <1>1, <1>6
<1> QED BY <1>4, <1>6, <1>7 DEF Stepped

\* The passkeys of an account are those that lead to it.
LEMMA OwnerKnown ==
  ASSUME Typed, Recorded, NEW c \in Credentials, mem.by[c] # None
  PROVE  Rec(mem.by[c]).known
<1>1. mem.by[c] \in Addresses BY StoreFacts
<1>2. c \in Rec(mem.by[c]).creds BY <1>1 DEF Recorded
<1> QED BY <1>1, <1>2 DEF Recorded

-----------------------------------------------------------------------------
(* Steps of this process: the chain, and what was sent to it, stay as they are. *)

Chains == <<world, past, flight, done>>

\* No record is forgotten, and no passkey given to another account.
StoreGrows ==
  /\ \A a \in Addresses : Rec(a).known => Rec(a).known' /\ Rec(a).cred' = Rec(a).cred
  /\ \A c \in Credentials : mem.by[c] # None => mem.by[c]' = mem.by[c]
  /\ \A c \in Credentials : reg[c].a # None => reg[c].a' = reg[c].a

LEMMA CompletesStays ==
  ASSUME UNCHANGED Chains, StoreGrows, NEW a \in Addresses, Rec(a).known, NEW ops,
         Completes(a, ops)
  PROVE  Completes(a, ops)'
BY DEF Chains, StoreGrows, Completes, Rec

LEMMA LocalStep ==
  ASSUME AccountInv, UNCHANGED Chains, disk' = mem', StoreGrows, Typed', Recorded', Active',
         \A a \in Addresses : RunOk(a, boot[a])',
         \A c \in Credentials : RegOk(c, reg[c])',
         \A a \in Addresses : \A c \in Rec(a)'.creds : c = Rec(a)'.cred \/ world.index[c] = a
  PROVE  AccountInv'
<1>0. world' = world /\ past' = past /\ flight' = flight /\ done' = done BY DEF Chains
<1>1. Kept' BY <1>0 DEF AccountInv, Kept, Extends
<1>2. Counted' BY <1>0 DEF AccountInv, Counted, Sent
<1>3. ASSUME NEW t \in flight PROVE TxOk(t)'
  <2>1. t \in TxOf BY DEF AccountInv, Typed
  <2>2. t.a \in Addresses /\ t.c \in Credentials /\ t.a # None BY <2>1, Bounds DEF TxOf
  <2>3. TxOk(t) BY DEF AccountInv, UnderWay
  <2>4. Rec(t.a).known /\ Rec(t.a)'.known /\ Rec(t.a)'.cred = Rec(t.a).cred
    BY <2>2, <2>3 DEF TxOk, StoreGrows, Rec
  <2>5. t.kind = "register" => reg[t.c].a' = t.a BY <2>2, <2>3 DEF TxOk, StoreGrows
  <2>6. t.kind = "setup" => Completes(t.a, t.ops)' BY <2>2, <2>3, <2>4, CompletesStays DEF TxOk
  <2>7. /\ IF t.kind = "register" THEN t.ops = {"cred"} ELSE t.c = Rec(t.a).cred
        /\ t.kind = "upload" => t.ops = {}
    BY <2>3 DEF TxOk
  <2> QED BY <2>4, <2>5, <2>6, <2>7 DEF TxOk, Rec
<1>4. UnderWay' BY <1>0, <1>3 DEF UnderWay
<1>5. Known'
  <2>1. \A a \in world.up : a \in Addresses /\ Rec(a).known BY StoreFacts DEF AccountInv, Known
  <2>2. \A a \in world.up : Rec(a)'.known BY <2>1 DEF StoreGrows, Rec
  <2>3. ASSUME NEW c \in Credentials, world.index[c] # None
        PROVE  world.index[c] \in {mem.by[c]', reg[c].a'}
    <3>1. world.index[c] \in {mem.by[c], reg[c].a} BY <2>3 DEF AccountInv, Known
    <3> QED BY <2>3, <3>1 DEF StoreGrows
  <2> QED BY <1>0, <2>2, <2>3 DEF Known, Rec
<1>6. Governed'
  <2> SUFFICES ASSUME NEW a \in Addresses, "val" \in world.inst[a]
               PROVE  /\ a \in world.up /\ "sign" \in world.inst[a]
                      /\ Rec(a)'.known /\ world.index[Rec(a)'.cred] = a
    BY <1>0 DEF Governed, Rec
  <2> QED BY DEF AccountInv, Governed, StoreGrows, Rec
<1> QED BY <1>1, <1>2, <1>4, <1>5, <1>6 DEF AccountInv

\* What the runs and registrations wait for is where it was.
LEMMA RunStays ==
  ASSUME AccountInv, UNCHANGED Chains, StoreGrows, NEW a \in Addresses, NEW r, RunOk(a, r)
  PROVE  RunOk(a, r)'
<1>1. CASE r.at = "idle" BY <1>1 DEF RunOk
<1>2. CASE r.at # "idle"
  <2>1. Rec(a).known /\ Rec(a)'.known /\ Rec(a)'.cred = Rec(a).cred
    BY <1>2 DEF RunOk, StoreGrows, Rec
  <2>2. r.at \in {"setup", "setting", "recheck"} => Completes(a, r.want)'
    BY <2>1, CompletesStays DEF RunOk
  <2> QED BY <1>2, <2>1, <2>2 DEF RunOk, Chains, Awaited, Rec
<1> QED BY <1>1, <1>2

LEMMA RegStays ==
  ASSUME AccountInv, UNCHANGED Chains, StoreGrows, NEW c \in Credentials, NEW r \in RegOf,
         RegOk(c, r), mem.by[c]' \in {mem.by[c], r.a}
  PROVE  RegOk(c, r)'
<1>1. r.a # None => r.a \in Addresses BY DEF RegOf
<1>2. r.a # None => Rec(r.a)'.known BY <1>1 DEF RegOk, StoreGrows, Rec
<1> QED BY <1>2 DEF RegOk, Awaited, Chains, Rec

\* Only a run moves on.
LEMMA RunStep ==
  ASSUME AccountInv, UNCHANGED <<mem, disk, reg, Chains>>, resume' \subseteq Addresses,
         NEW a \in Addresses, NEW r \in RunOf, boot' = [boot EXCEPT ![a] = r], RunOk(a, r)
  PROVE  AccountInv'
<1>0. mem' = mem /\ disk' = disk /\ reg' = reg /\ world' = world /\ past' = past
      /\ flight' = flight /\ done' = done
  BY DEF Chains
<1>1. StoreGrows BY <1>0 DEF StoreGrows, Rec
<1>2. boot \in [Addresses -> RunOf] BY DEF AccountInv, Typed
<1>3. Typed'
  <2> HIDE DEF RunOf, RegOf, Store, Chain, TxOf
  <2> QED BY <1>0, <1>2 DEF AccountInv, Typed
<1>4. ASSUME NEW b \in Addresses PROVE RunOk(b, boot[b])'
  <2>1. boot'[b] = IF b = a THEN r ELSE boot[b]
    <3> HIDE DEF RunOf
    <3> QED BY <1>2
  <2>2. PICK u : u = boot'[b] OBVIOUS
  <2>3. RunOk(b, u) BY <2>1, <2>2 DEF AccountInv, UnderWay
  <2>4. RunOk(b, u)' BY <1>0, <1>1, <2>3, RunStays
  <2> QED BY <2>2, <2>4
<1>5. ASSUME NEW c \in Credentials PROVE RegOk(c, reg[c])'
  <2>1. PICK u : u = reg[c] OBVIOUS
  <2>2. RegOk(c, u) /\ u \in RegOf BY <2>1, StoreFacts DEF AccountInv, UnderWay
  <2>3. RegOk(c, u)' BY <1>0, <1>1, <2>2, RegStays
  <2> QED BY <1>0, <2>1, <2>3
<1>6. Recorded' /\ Active' BY <1>0 DEF AccountInv, Recorded, Active, Rec
<1>7. \A b \in Addresses : \A c \in Rec(b)'.creds : c = Rec(b)'.cred \/ world.index[c] = b
  BY <1>0 DEF AccountInv, Known, Rec
<1>8. disk' = mem' BY <1>0 DEF AccountInv, Kept
<1> QED BY <1>0, <1>1, <1>3, <1>4, <1>5, <1>6, <1>7, <1>8, LocalStep

\* A record's step is saved, and the run of its account goes on as r.
LEMMA SaveStep ==
  ASSUME AccountInv, UNCHANGED <<reg, Chains>>, resume' \subseteq Addresses,
         NEW a \in Addresses, Rec(a).known, NEW s \in {"pending", "active", "conflict"},
         NEW f \in BOOLEAN, Saved([mem EXCEPT !.acc[a].step = s, !.acc[a].err = f]),
         s = "active" => "val" \in world.inst[a],
         NEW r \in RunOf, boot' = [boot EXCEPT ![a] = r], RunOk(a, r)
  PROVE  AccountInv'
<1>0. reg' = reg /\ world' = world /\ past' = past /\ flight' = flight /\ done' = done
  BY DEF Chains
<1>1. mem' = [mem EXCEPT !.acc[a].step = s, !.acc[a].err = f] /\ disk' = mem' BY DEF Saved
<1>2. mem \in Store /\ boot \in [Addresses -> RunOf] BY DEF AccountInv, Typed
<1>3. /\ mem' \in Store /\ mem'.by = mem.by
      /\ \A b \in Addresses : /\ mem'.acc[b].known = mem.acc[b].known
                              /\ mem'.acc[b].cred = mem.acc[b].cred
                              /\ mem'.acc[b].creds = mem.acc[b].creds
                              /\ mem'.acc[b].key = mem.acc[b].key
                              /\ b # a => mem'.acc[b] = mem.acc[b]
      /\ mem'.acc[a].step = s
  <2>1. PICK m2 : m2 = [mem EXCEPT !.acc[a].step = s, !.acc[a].err = f] OBVIOUS
  <2>2. Stepped(mem, a, s, m2) BY <1>2, <2>1, StepSaved
  <2>3. mem' = m2 BY <1>1, <2>1
  <2> QED BY <2>2, <2>3 DEF Stepped
<1>4. StoreGrows BY <1>0, <1>3 DEF StoreGrows, Rec
<1>5. Typed'
  <2> HIDE DEF RunOf, RegOf, Store, Chain, TxOf
  <2> QED BY <1>0, <1>2, <1>3 DEF AccountInv, Typed
<1>6. ASSUME NEW b \in Addresses PROVE RunOk(b, boot[b])'
  <2>1. boot'[b] = IF b = a THEN r ELSE boot[b]
    <3> HIDE DEF RunOf
    <3> QED BY <1>2
  <2>2. PICK u : u = boot'[b] OBVIOUS
  <2>3. RunOk(b, u) BY <2>1, <2>2 DEF AccountInv, UnderWay
  <2>4. RunOk(b, u)' BY <1>0, <1>4, <2>3, RunStays
  <2> QED BY <2>2, <2>4
<1>7. ASSUME NEW c \in Credentials PROVE RegOk(c, reg[c])'
  <2>1. PICK u : u = reg[c] OBVIOUS
  <2>2. RegOk(c, u) /\ u \in RegOf BY <2>1, StoreFacts DEF AccountInv, UnderWay
  <2>3. RegOk(c, u)' BY <1>0, <1>3, <1>4, <2>2, RegStays
  <2> QED BY <1>0, <2>1, <2>3
<1>8. Recorded'
  <2>1. Recorded BY DEF AccountInv
  <2>2. \A b \in Addresses : ~Rec(b)'.known => b # a BY <1>3 DEF Rec
  <2> QED BY <1>3, <2>1, <2>2 DEF Recorded, Rec
<1>9. Active' BY <1>0, <1>3 DEF AccountInv, Active, Rec
<1>10. \A b \in Addresses : \A c \in Rec(b)'.creds : c = Rec(b)'.cred \/ world.index[c] = b
  BY <1>3 DEF AccountInv, Known, Rec
<1> QED BY <1>0, <1>1, <1>4, <1>5, <1>6, <1>7, <1>8, <1>9, <1>10, LocalStep

-----------------------------------------------------------------------------
(* The steps of a run. *)

LEMMA Viewed ==
  ASSUME AccountInv, NEW w \in Views, NEW a \in Addresses
  PROVE  /\ w.inst[a] \subseteq world.inst[a] /\ w.inst[a] \subseteq Modules
         /\ \A c \in Credentials : w.index[c] = a => world.index[c] = a
<1>1. w = world \/ w = past BY DEF Views
<1>2. Extends(past, world) /\ world.inst[a] \subseteq Modules
  BY StoreFacts DEF AccountInv, Kept
<1>3. a # None BY Bounds
<1> QED BY <1>1, <1>2, <1>3 DEF Extends

LEMMA RunFacts ==
  ASSUME AccountInv, NEW a \in Addresses, Running(a)
  PROVE  /\ boot[a] \in RunOf /\ RunOk(a, boot[a]) /\ Rec(a).known
         /\ Rec(a).cred \in Credentials /\ Rec(a).step \in {"pending", "active", "conflict"}
         /\ Rec(a).step = "active" => "val" \in world.inst[a]
<1>1. boot[a] \in RunOf /\ RunOk(a, boot[a]) /\ Rec(a) \in Record
  BY StoreFacts DEF AccountInv, UnderWay
<1>2. Rec(a).known BY <1>1 DEF RunOk, Running
<1>3. Rec(a).cred \in Rec(a).creds BY <1>2 DEF AccountInv, Recorded
<1> QED BY <1>1, <1>2, <1>3 DEF AccountInv, Active, Record

LEMMA IdleIsRun == Idle \in RunOf /\ [Idle EXCEPT !.at = "mods"] \in RunOf
BY DEF Idle, RunOf, RunAt

LEMMA FinishStep ==
  ASSUME AccountInv, NEW a \in Addresses, Running(a),
         NEW s \in {"pending", "active", "conflict"}, NEW f \in BOOLEAN, Finish(a, s, f),
         s = "active" => "val" \in world.inst[a]
  PROVE  AccountInv'
<1>1. Rec(a).known BY RunFacts
<1>2. UNCHANGED <<reg, Chains>> /\ resume' = resume BY DEF Finish, Chains
<1>3. resume' \subseteq Addresses BY <1>2 DEF AccountInv, Typed
<1>4. RunOk(a, Idle) BY DEF RunOk, Idle
<1>5. /\ Saved([mem EXCEPT !.acc[a].step = s, !.acc[a].err = f])
      /\ boot' = [boot EXCEPT ![a] = Idle]
  BY DEF Finish
<1> QED BY <1>1, <1>2, <1>3, <1>4, <1>5, IdleIsRun, SaveStep

\* The run of a goes on as r, which waits for nothing.
LEMMA MoveStep ==
  ASSUME AccountInv, NEW a \in Addresses, Running(a),
         UNCHANGED <<mem, disk, resume, reg, world, past, flight, done>>,
         NEW r \in RunOf, boot' = [boot EXCEPT ![a] = r], r.at # "setting",
         r.at = "cred" => r.seen \subseteq world.inst[a],
         r.at \in {"setup", "recheck"} => Completes(a, r.want)
  PROVE  AccountInv'
<1>1. RunOk(a, r) BY RunFacts DEF RunOk
<1>2. UNCHANGED <<mem, disk, reg, Chains>> /\ resume' \subseteq Addresses
  BY DEF Chains, AccountInv, Typed
<1> QED BY <1>1, <1>2, RunStep

LEMMA StageStep ==
  ASSUME AccountInv, NEW a \in Addresses, Running(a),
         UNCHANGED <<mem, disk, resume, reg, world, past, flight, done>>,
         NEW at \in {"upload", "again", "recheck"}, Stage(a, at),
         at = "recheck" => Completes(a, boot[a].want)
  PROVE  AccountInv'
<1>1. boot[a] \in RunOf BY RunFacts
<1>2. PICK r : r = [boot[a] EXCEPT !.at = at] OBVIOUS
<1>3. r \in RunOf /\ r.at = at /\ r.want = boot[a].want BY <1>1, <1>2 DEF RunOf, RunAt
<1>4. boot' = [boot EXCEPT ![a] = r] BY <1>2 DEF Stage
<1> QED BY <1>3, <1>4, MoveStep

LEMMA ReadModulesKeeps == ASSUME AccountInv, NEW a \in Addresses, ReadModules(a) PROVE AccountInv'
<1>1. PICK w \in Views :
        \/ boot' = [boot EXCEPT ![a].at = "cred", ![a].seen = w.inst[a]]
        \/ Stage(a, "upload")
  BY DEF ReadModules
<1>2. UNCHANGED <<mem, disk, resume, reg, world, past, flight, done>> /\ Running(a)
  BY DEF ReadModules, At, Running
<1>3. boot[a] \in RunOf BY <1>2, RunFacts
<1>4. CASE boot' = [boot EXCEPT ![a].at = "cred", ![a].seen = w.inst[a]]
  <2>1. PICK u : u = w.inst[a] OBVIOUS
  <2>2. u \in SUBSET Modules /\ u \subseteq world.inst[a] BY <2>1, Viewed
  <2>3. PICK r : r = [[boot[a] EXCEPT !.at = "cred"] EXCEPT !.seen = u] OBVIOUS
  <2>4. r \in RunOf /\ r.at = "cred" /\ r.seen = u BY <1>3, <2>2, <2>3 DEF RunOf, RunAt
  <2>5. boot' = [boot EXCEPT ![a] = r]
    <3>1. boot \in [Addresses -> RunOf] BY DEF AccountInv, Typed
    <3> HIDE DEF RunOf
    <3> QED BY <1>4, <2>1, <2>3, <3>1
  <2> QED BY <1>2, <2>2, <2>4, <2>5, MoveStep
<1>5. CASE Stage(a, "upload") BY <1>2, <1>5, StageStep
<1> QED BY <1>1, <1>4, <1>5

LEMMA ReadCredentialKeeps ==
  ASSUME AccountInv, NEW a \in Addresses, ReadCredential(a) PROVE AccountInv'
<1>1. PICK w \in Views :
        LET lacks == Lacks(a, w) IN
        \/ Needed(a) = {} /\ ~lacks /\ Finish(a, "active", FALSE)
        \/ Conflict(Needed(a), lacks) /\ Finish(a, "conflict", TRUE)
        \/ /\ boot' = [boot EXCEPT ![a].at = "setup", ![a].want = Setup(a, lacks)]
           /\ UNCHANGED <<mem, disk, resume, reg, world, past, flight, done>>
  BY DEF ReadCredential
<1>2. At(a, "cred") /\ Running(a) BY DEF ReadCredential, At, Running
<1>3. /\ boot[a] \in RunOf /\ boot[a].seen \subseteq world.inst[a] /\ Rec(a).cred \in Credentials
  BY <1>2, RunFacts DEF RunOk, At
<1>4. CASE Needed(a) = {} /\ Finish(a, "active", FALSE)
  <2>1. "val" \in world.inst[a] BY <1>3, <1>4 DEF Needed, Modules
  <2> QED BY <1>2, <1>4, <2>1, FinishStep
<1>5. CASE Finish(a, "conflict", TRUE) BY <1>2, <1>5, FinishStep
<1>6. CASE /\ boot' = [boot EXCEPT ![a].at = "setup", ![a].want = Setup(a, Lacks(a, w))]
           /\ UNCHANGED <<mem, disk, resume, reg, world, past, flight, done>>
  <2>1. PICK u : u = Setup(a, Lacks(a, w)) OBVIOUS
  <2>2. u \in SUBSET Ops /\ Modules \subseteq world.inst[a] \cup u
    BY <1>3, <2>1 DEF Setup, Needed, Ops
  <2>3. "cred" \in u \/ world.index[Rec(a).cred] = a
    BY <1>3, <2>1, Viewed DEF Setup, Lacks
  <2>4. Completes(a, u) BY <2>2, <2>3 DEF Completes
  <2>5. PICK r : r = [[boot[a] EXCEPT !.at = "setup"] EXCEPT !.want = u] OBVIOUS
  <2>6. r \in RunOf /\ r.at = "setup" /\ r.want = u BY <1>3, <2>2, <2>5 DEF RunOf, RunAt
  <2>7. boot' = [boot EXCEPT ![a] = r]
    <3>1. boot \in [Addresses -> RunOf] BY DEF AccountInv, Typed
    <3> HIDE DEF RunOf
    <3> QED BY <1>6, <2>1, <2>5, <3>1
  <2> QED BY <1>2, <1>6, <2>4, <2>6, <2>7, MoveStep
<1> QED BY <1>1, <1>4, <1>5, <1>6

LEMMA NextTryKeeps ==
  ASSUME AccountInv, NEW a \in Addresses, boot[a].at \in {"setting", "recheck"}, NextTry(a)
  PROVE  AccountInv'
<1>1. Running(a) BY DEF Running
<1>2. boot[a] \in RunOf /\ Completes(a, boot[a].want) BY <1>1, RunFacts DEF RunOk
<1>3. CASE boot[a].try < 3
  <2>1. PICK r : r = [[boot[a] EXCEPT !.at = "setup"] EXCEPT !.try = @ + 1] OBVIOUS
  <2>2. r \in RunOf /\ r.at = "setup" /\ r.want = boot[a].want
    <3>1. PICK n : n = boot[a].try + 1 OBVIOUS
    <3>2. n \in 1..3 BY <1>2, <1>3, <3>1 DEF RunOf
    <3>3. r = [[boot[a] EXCEPT !.at = "setup"] EXCEPT !.try = n]
      BY <1>2, <2>1, <3>1 DEF RunOf
    <3> QED BY <1>2, <3>2, <3>3 DEF RunOf, RunAt
  <2>3. /\ boot' = [boot EXCEPT ![a].at = "setup", ![a].try = @ + 1]
        /\ UNCHANGED <<mem, disk, resume, reg, world, past, flight, done>>
    BY <1>3 DEF NextTry
  <2>4. boot' = [boot EXCEPT ![a] = r]
    <3>1. boot \in [Addresses -> RunOf] BY DEF AccountInv, Typed
    <3> HIDE DEF RunOf
    <3> QED BY <2>1, <2>3, <3>1
  <2> QED BY <1>1, <1>2, <2>2, <2>3, <2>4, MoveStep
<1>4. CASE ~(boot[a].try < 3)
  <2>1. Finish(a, Rec(a).step, TRUE) BY <1>4 DEF NextTry
  <2> QED BY <1>1, <2>1, RunFacts, FinishStep
<1> QED BY <1>3, <1>4

LEMMA WaitingKeeps ==
  ASSUME AccountInv, NEW a \in Addresses,
         Uploaded(a) \/ SetupDone(a) \/ SetupReverted(a) \/ SetupUnclear(a) \/ Recheck(a) \/ RunFails(a)
  PROVE  AccountInv'
<1>1. Running(a) BY DEF Uploaded, SetupDone, SetupReverted, SetupUnclear, Recheck, RunFails, At, Running
<1>2. /\ boot[a] \in RunOf /\ RunOk(a, boot[a]) /\ Rec(a).step \in {"pending", "active", "conflict"}
      /\ Rec(a).step = "active" => "val" \in world.inst[a]
  BY <1>1, RunFacts
<1>3. CASE Uploaded(a) BY <1>1, <1>3, StageStep DEF Uploaded
<1>4. CASE SetupDone(a)
  <2>1. /\ boot[a].at = "setting" /\ boot[a].id \in DOMAIN done /\ done[boot[a].id] = "ok"
        /\ Finish(a, "active", FALSE)
    BY <1>4 DEF SetupDone, At, Result
  <2>2. \A t \in flight : t.id # boot[a].id BY <2>1 DEF AccountInv, Counted
  <2>3. "val" \in world.inst[a] BY <1>2, <2>1, <2>2 DEF RunOk, Awaited
  <2> QED BY <1>1, <2>1, <2>3, FinishStep
<1>5. CASE SetupReverted(a) BY <1>5, NextTryKeeps DEF SetupReverted, At
<1>6. CASE SetupUnclear(a) BY <1>1, <1>2, <1>6, StageStep DEF SetupUnclear, RunOk, At
<1>7. CASE Recheck(a)
  <2>1. PICK w \in Views : (Settled(a, w) /\ Finish(a, "active", FALSE)) \/ NextTry(a)
    BY <1>7 DEF Recheck
  <2>2. CASE Settled(a, w) /\ Finish(a, "active", FALSE)
    <3>1. "val" \in world.inst[a] BY <2>2, Viewed DEF Settled
    <3> QED BY <1>1, <2>2, <3>1, FinishStep
  <2>3. CASE NextTry(a) BY <1>7, <2>3, NextTryKeeps DEF Recheck, At
  <2> QED BY <2>1, <2>2, <2>3
<1>8. CASE RunFails(a)
  <2>1. Finish(a, Rec(a).step, TRUE) BY <1>8 DEF RunFails
  <2> QED BY <1>1, <1>2, <2>1, FinishStep
<1> QED BY <1>3, <1>4, <1>5, <1>6, <1>7, <1>8

\* A run starts, or a record that is not ready is pending again.
LEMMA StartKeeps ==
  ASSUME AccountInv, NEW a \in Addresses, Rec(a).known,
         \/ EnsureReady(a) \/ Reconcile(a)
         \/ StartRun(a) /\ UNCHANGED <<mem, disk, resume, reg, world, past, flight, done, faults>>
  PROVE  AccountInv'
<1>1. UNCHANGED <<reg, Chains>> /\ resume' \subseteq Addresses
  BY DEF EnsureReady, Reconcile, Chains, AccountInv, Typed
<1>2. PICK r : r = [Idle EXCEPT !.at = "mods"] OBVIOUS
<1>3. r \in RunOf /\ RunOk(a, r) BY <1>2, IdleIsRun DEF RunOk, Idle
<1>4. boot[a] \in RunOf /\ RunOk(a, boot[a]) BY StoreFacts DEF AccountInv, UnderWay
<1>5. boot = [boot EXCEPT ![a] = boot[a]]
  <2>1. boot \in [Addresses -> RunOf] BY DEF AccountInv, Typed
  <2> HIDE DEF RunOf
  <2> QED BY <2>1
<1>6. ASSUME boot' \in {boot, [boot EXCEPT ![a] = r]}
      PROVE  \E u \in RunOf : boot' = [boot EXCEPT ![a] = u] /\ RunOk(a, u)
  BY <1>3, <1>4, <1>5, <1>6
<1>7. CASE boot' \in {boot, [boot EXCEPT ![a] = r]} /\ UNCHANGED <<mem, disk>>
  <2>1. PICK u \in RunOf : boot' = [boot EXCEPT ![a] = u] /\ RunOk(a, u) BY <1>6, <1>7
  <2> QED BY <1>1, <1>7, <2>1, RunStep
<1>8. CASE /\ boot' \in {boot, [boot EXCEPT ![a] = r]}
           /\ Saved([mem EXCEPT !.acc[a].step = "pending", !.acc[a].err = FALSE])
  <2>1. PICK u \in RunOf : boot' = [boot EXCEPT ![a] = u] /\ RunOk(a, u) BY <1>6, <1>8
  <2> QED BY <1>1, <1>8, <2>1, SaveStep
<1> QED BY <1>2, <1>7, <1>8 DEF EnsureReady, Reconcile, StartRun

-----------------------------------------------------------------------------
(* New records and passkeys. *)

LEMMA CreateKeeps ==
  ASSUME AccountInv, NEW c \in Credentials, NEW a \in Addresses, Create(c, a)
  PROVE  AccountInv'
<1>1. PICK rec : rec = [known |-> TRUE, cred |-> c, creds |-> {c}, key |-> TRUE,
                        step |-> "pending", err |-> FALSE]
  OBVIOUS
<1>2. /\ rec \in Record /\ rec.known /\ rec.cred = c /\ rec.creds = {c} /\ rec.key
      /\ rec.step = "pending"
  BY <1>1 DEF Record
<1>3. /\ mem' = [acc |-> [mem.acc EXCEPT ![a] = rec], by |-> [mem.by EXCEPT ![c] = a]]
      /\ disk' = mem'
  BY <1>1 DEF Create, Saved
<1>4. /\ mem.acc \in [Addresses -> Record] /\ mem.by \in [Credentials -> Addresses \cup {None}]
      /\ boot \in [Addresses -> RunOf]
  BY StoreFacts DEF AccountInv, Typed
<1>5. mem.by[c] = None /\ ~Rec(a).known /\ reg[c] = NoReg
  BY <1>4 DEF Create, Existing
<1>6. UNCHANGED <<reg, Chains, resume>> /\ boot' = [boot EXCEPT ![a] = [Idle EXCEPT !.at = "mods"]]
  BY DEF Create, Chains
<1>7. /\ mem'.acc \in [Addresses -> Record] /\ mem'.by \in [Credentials -> Addresses \cup {None}]
      /\ mem'.acc[a] = rec /\ \A b \in Addresses : b # a => mem'.acc[b] = mem.acc[b]
      /\ mem'.by[c] = a /\ \A d \in Credentials : d # c => mem'.by[d] = mem.by[d]
      /\ mem' \in Store
  <2> HIDE DEF Record
  <2> QED BY <1>2, <1>3, <1>4 DEF Store
<1>8. Typed'
  <2> HIDE DEF RunOf, RegOf, Store, Chain, TxOf
  <2> QED BY <1>4, <1>6, <1>7, IdleIsRun DEF AccountInv, Typed, Chains
<1>9. StoreGrows BY <1>5, <1>6, <1>7 DEF StoreGrows, Rec
<1>10. ASSUME NEW b \in Addresses PROVE RunOk(b, boot[b])'
  <2>1. CASE b = a
    <3>1. boot'[b] = [Idle EXCEPT !.at = "mods"]
      <4> HIDE DEF RunOf
      <4> QED BY <1>4, <1>6, <2>1
    <3> QED BY <1>2, <1>7, <2>1, <3>1 DEF RunOk, Idle, Rec
  <2>2. CASE b # a
    <3>1. PICK u : u = boot'[b] OBVIOUS
    <3>2. u = boot[b]
      <4> HIDE DEF RunOf
      <4> QED BY <1>4, <1>6, <2>2, <3>1
    <3>3. RunOk(b, u) BY <3>2 DEF AccountInv, UnderWay
    <3>4. RunOk(b, u)' BY <1>6, <1>9, <3>3, RunStays
    <3> QED BY <3>1, <3>4
  <2> QED BY <2>1, <2>2
<1>11. ASSUME NEW d \in Credentials PROVE RegOk(d, reg[d])'
  <2>1. CASE d = c
    <3>1. reg'[d].at = "none" /\ reg'[d].a = None BY <1>5, <1>6, <2>1 DEF NoReg
    <3> QED BY <3>1 DEF RegOk
  <2>2. CASE d # c
    <3>1. PICK u : u = reg[d] OBVIOUS
    <3>2. RegOk(d, u) /\ u \in RegOf BY <3>1, StoreFacts DEF AccountInv, UnderWay
    <3>3. RegOk(d, u)' BY <1>6, <1>7, <1>9, <2>2, <3>2, RegStays
    <3> QED BY <1>6, <3>1, <3>3
  <2> QED BY <2>1, <2>2
<1>12. Recorded'
  <2>1. Recorded BY DEF AccountInv
  <2>2. \A d \in Credentials : mem.by[d] # a BY <1>5, <2>1 DEF Recorded
  <2>3. \A b \in Addresses, d \in Credentials : d \in Rec(b)'.creds <=> mem'.by[d] = b
    BY <1>2, <1>5, <1>7, <2>1, <2>2, Bounds DEF Recorded, Rec
  <2>4. \A b \in Addresses : Rec(b)'.known => Rec(b)'.key /\ Rec(b)'.cred \in Rec(b)'.creds
    BY <1>2, <1>7, <2>1 DEF Recorded, Rec
  <2>5. \A b \in Addresses : ~Rec(b)'.known =>
           Rec(b)'.creds = {} /\ Rec(b)'.step = "pending" /\ ~Rec(b)'.key
    BY <1>2, <1>7, <2>1 DEF Recorded, Rec
  <2> QED BY <2>3, <2>4, <2>5 DEF Recorded, Rec
<1>13. Active' BY <1>2, <1>6, <1>7 DEF AccountInv, Active, Rec, Chains
<1>14. \A b \in Addresses : \A d \in Rec(b)'.creds : d = Rec(b)'.cred \/ world.index[d] = b
  BY <1>2, <1>7 DEF AccountInv, Known, Rec
<1> QED BY <1>3, <1>6, <1>8, <1>9, <1>10, <1>11, <1>12, <1>13, <1>14, LocalStep

\* rec is the record of a with one more passkey.
Added(a, c, rec) ==
  /\ rec \in Record /\ rec.known = Rec(a).known /\ rec.cred = Rec(a).cred
  /\ rec.creds = Rec(a).creds \cup {c} /\ rec.key = Rec(a).key /\ rec.step = Rec(a).step

LEMMA AddedRecord ==
  ASSUME Typed, NEW c \in Credentials, NEW a \in Addresses
  PROVE  Added(a, c, [Rec(a) EXCEPT !.creds = @ \cup {c}])
<1>1. Rec(a) \in Record BY StoreFacts
<1> QED BY <1>1 DEF Added, Record

\* A passkey the chain shows for the account is added to its record.
LEMMA AdoptStep ==
  ASSUME AccountInv, NEW c \in Credentials, NEW a \in Addresses, Rec(a).known,
         world.index[c] = a, mem.by[c] \in {None, a}, reg[c].a = a,
         NEW rec, Added(a, c, rec), NEW m, Saved(m),
         m = [acc |-> [mem.acc EXCEPT ![a] = rec], by |-> [mem.by EXCEPT ![c] = a]],
         UNCHANGED <<boot, resume, Chains>>, reg' \in [Credentials -> RegOf],
         \A d \in Credentials : /\ reg'[d].a = reg[d].a /\ reg'[d].id = reg[d].id
                                /\ reg'[d].at \in {reg[d].at, "none"}
  PROVE  AccountInv'
<1>1. /\ mem.acc \in [Addresses -> Record] /\ mem.by \in [Credentials -> Addresses \cup {None}]
      /\ boot \in [Addresses -> RunOf] /\ reg \in [Credentials -> RegOf]
  BY StoreFacts DEF AccountInv, Typed
<1>3. /\ rec \in Record /\ rec.known /\ rec.cred = Rec(a).cred /\ rec.creds = Rec(a).creds \cup {c}
      /\ rec.key = Rec(a).key /\ rec.step = Rec(a).step
  BY DEF Added
<1>4. mem' = m /\ disk' = mem' BY DEF Saved
<1>5. /\ mem'.acc \in [Addresses -> Record] /\ mem'.by \in [Credentials -> Addresses \cup {None}]
      /\ mem'.acc[a] = rec /\ \A b \in Addresses : b # a => mem'.acc[b] = mem.acc[b]
      /\ mem'.by[c] = a /\ \A d \in Credentials : d # c => mem'.by[d] = mem.by[d]
      /\ mem' \in Store
  <2> HIDE DEF Record
  <2>1. mem' = [acc |-> [mem.acc EXCEPT ![a] = rec], by |-> [mem.by EXCEPT ![c] = a]]
    BY <1>4
  <2>2. mem'.acc = [mem.acc EXCEPT ![a] = rec] /\ mem'.by = [mem.by EXCEPT ![c] = a]
    BY <2>1
  <2>3. mem'.acc \in [Addresses -> Record] BY <1>1, <1>3, <2>2
  <2>4. mem'.by \in [Credentials -> Addresses \cup {None}] BY <1>1, <2>2
  <2>5. mem'.acc[a] = rec /\ \A b \in Addresses : b # a => mem'.acc[b] = mem.acc[b]
    BY <1>1, <2>2
  <2>6. mem'.by[c] = a /\ \A d \in Credentials : d # c => mem'.by[d] = mem.by[d]
    BY <1>1, <2>2
  <2>7. mem' \in Store BY <2>1, <2>2, <2>3, <2>4 DEF Store
  <2> QED BY <2>3, <2>4, <2>5, <2>6, <2>7
<1>6. Typed'
  <2> HIDE DEF RunOf, RegOf, Store, Chain, TxOf
  <2> QED BY <1>5 DEF AccountInv, Typed, Chains
<1>7. StoreGrows BY <1>3, <1>5 DEF StoreGrows, Rec
<1>8. ASSUME NEW b \in Addresses PROVE RunOk(b, boot[b])'
  <2>1. PICK u : u = boot[b] OBVIOUS
  <2>2. RunOk(b, u) BY <2>1 DEF AccountInv, UnderWay
  <2>3. RunOk(b, u)' BY <1>7, <2>2, RunStays
  <2> QED BY <2>1, <2>3
<1>9. ASSUME NEW d \in Credentials PROVE RegOk(d, reg[d])'
  <2>1. PICK u : u = reg'[d] OBVIOUS
  <2>2. u \in RegOf
    <3> HIDE DEF RegOf
    <3> QED BY <2>1
  <2>3. u.a = reg[d].a /\ u.id = reg[d].id /\ u.at \in {reg[d].at, "none"} BY <2>1
  <2>4. RegOk(d, u) BY <2>3 DEF AccountInv, UnderWay, RegOk
  <2>5. mem.by[d]' \in {mem.by[d], u.a} BY <1>5, <2>3
  <2>6. RegOk(d, u)' BY <1>7, <2>2, <2>4, <2>5, RegStays
  <2> QED BY <2>1, <2>6
<1>10. Recorded'
  <2>1. Recorded BY DEF AccountInv
  <2>2. \A b \in Addresses : c \in Rec(b).creds => b = a BY <2>1, Bounds DEF Recorded
  <2>3. \A b \in Addresses, d \in Credentials : d \in Rec(b)'.creds <=> mem'.by[d] = b
    BY <1>3, <1>5, <2>1, <2>2 DEF Recorded, Rec
  <2>4. \A b \in Addresses : Rec(b)'.known => Rec(b)'.key /\ Rec(b)'.cred \in Rec(b)'.creds
    BY <1>3, <1>5, <2>1 DEF Recorded, Rec
  <2>5. \A b \in Addresses : ~Rec(b)'.known =>
           Rec(b)'.creds = {} /\ Rec(b)'.step = "pending" /\ ~Rec(b)'.key
    BY <1>3, <1>5, <2>1 DEF Recorded, Rec
  <2> QED BY <2>3, <2>4, <2>5 DEF Recorded, Rec
<1>11. Active' BY <1>3, <1>5 DEF AccountInv, Active, Rec, Chains
<1>12. \A b \in Addresses : \A d \in Rec(b)'.creds : d = Rec(b)'.cred \/ world.index[d] = b
  BY <1>3, <1>5 DEF AccountInv, Known, Rec
<1> QED BY <1>4, <1>6, <1>7, <1>8, <1>9, <1>10, <1>11, <1>12, LocalStep

LEMMA WhoAmIKeeps == ASSUME AccountInv, NEW c \in Credentials, WhoAmI(c) PROVE AccountInv'
<1>1. PICK a \in Addresses :
        /\ mem.by[c] = None /\ world.index[c] = a
        /\ Saved([acc |-> [mem.acc EXCEPT ![a] =
                    IF Rec(a).known THEN [Rec(a) EXCEPT !.creds = @ \cup {c}]
                    ELSE [NoRecord EXCEPT !.known = TRUE, !.cred = c, !.creds = {c},
                                          !.step = "active"]],
                  by |-> [mem.by EXCEPT ![c] = a]])
        /\ UNCHANGED <<boot, resume, reg, world, past, flight, done, faults>>
  BY DEF WhoAmI
<1>2. reg[c].a = a
  <2>1. world.index[c] # None BY <1>1, Bounds
  <2> QED BY <1>1, <2>1 DEF AccountInv, Known
<1>3. Rec(a).known
  <2>1. RegOk(c, reg[c]) BY DEF AccountInv, UnderWay
  <2> QED BY <1>2, <2>1, Bounds DEF RegOk
<1>0. PICK rec : rec = [Rec(a) EXCEPT !.creds = @ \cup {c}] OBVIOUS
<1>4. PICK m : m = [acc |-> [mem.acc EXCEPT ![a] = rec], by |-> [mem.by EXCEPT ![c] = a]]
  OBVIOUS
<1>5. mem.acc \in [Addresses -> Record] BY StoreFacts DEF AccountInv
<1>6. Saved(m)
  <2>1. (IF Rec(a).known THEN [Rec(a) EXCEPT !.creds = @ \cup {c}]
         ELSE [NoRecord EXCEPT !.known = TRUE, !.cred = c, !.creds = {c}, !.step = "active"])
          = rec
    BY <1>0, <1>3
  <2> QED BY <1>1, <1>4, <2>1
<1>7. reg' \in [Credentials -> RegOf] /\ reg' = reg /\ UNCHANGED <<boot, resume, Chains>>
  <2> HIDE DEF RegOf
  <2> QED BY <1>1 DEF AccountInv, Typed, Chains
<1>8. Added(a, c, rec) BY <1>0, AddedRecord DEF AccountInv
<1> QED BY <1>1, <1>2, <1>3, <1>4, <1>6, <1>7, <1>8, AdoptStep

LEMMA MirrorKeeps == ASSUME AccountInv, NEW c \in Credentials, Mirror(c) PROVE AccountInv'
<1>1. /\ reg[c].at = "sent" /\ Mirrored(c)
      /\ Saved([mem EXCEPT !.acc[reg[c].a].creds = @ \cup {c}, !.by[c] = reg[c].a])
      /\ reg' = [reg EXCEPT ![c].at = "none"]
      /\ UNCHANGED <<boot, resume, world, past, flight, done, faults>>
  BY DEF Mirror
<1>2. PICK a : a = reg[c].a OBVIOUS
<1>3. reg[c] \in RegOf /\ RegOk(c, reg[c]) BY StoreFacts DEF AccountInv, UnderWay
<1>4. a \in Addresses /\ Rec(a).known /\ mem.by[c] \in {None, a}
  BY <1>1, <1>2, <1>3 DEF RegOf, RegOk
<1>5. world.index[c] = a
  <2>1. \A t \in flight : t.id # reg[c].id BY <1>1 DEF AccountInv, Counted, Mirrored
  <2> QED BY <1>1, <1>2, <1>3, <2>1 DEF RegOk, Awaited, Mirrored
<1>6. PICK m : m = [mem EXCEPT !.acc[a].creds = @ \cup {c}, !.by[c] = a] OBVIOUS
<1>7. Saved(m) BY <1>1, <1>2, <1>6
<1>0. PICK rec : rec = [Rec(a) EXCEPT !.creds = @ \cup {c}] OBVIOUS
<1>8. m = [acc |-> [mem.acc EXCEPT ![a] = rec], by |-> [mem.by EXCEPT ![c] = a]]
  <2>1. mem \in Store BY DEF AccountInv, Typed
  <2> QED BY <1>0, <1>6, <2>1 DEF Store, Rec
<1>9. reg \in [Credentials -> RegOf] BY DEF AccountInv, Typed
<1>10. PICK r : r = [reg[c] EXCEPT !.at = "none"] OBVIOUS
<1>11. r \in RegOf /\ r.a = reg[c].a /\ r.id = reg[c].id /\ r.at = "none"
  BY <1>3, <1>10 DEF RegOf
<1>12. reg' = [reg EXCEPT ![c] = r] BY <1>1, <1>10
<1>13. /\ reg' \in [Credentials -> RegOf]
       /\ \A d \in Credentials : /\ reg'[d].a = reg[d].a /\ reg'[d].id = reg[d].id
                                 /\ reg'[d].at \in {reg[d].at, "none"}
  <2> HIDE DEF RegOf
  <2> QED BY <1>9, <1>11, <1>12
<1>14. UNCHANGED <<boot, resume, Chains>> BY <1>1 DEF Chains
<1>15. Added(a, c, rec) BY <1>0, <1>4, AddedRecord DEF AccountInv
<1> QED BY <1>2, <1>4, <1>5, <1>7, <1>8, <1>13, <1>14, <1>15, AdoptStep

-----------------------------------------------------------------------------
(* Registrations and restarts: the store stays as it is. *)

LEMMA RegStep ==
  ASSUME AccountInv, UNCHANGED <<mem, disk, Chains>>, resume' \subseteq Addresses,
         boot' \in [Addresses -> RunOf], \A a \in Addresses : RunOk(a, boot'[a]),
         reg' \in [Credentials -> RegOf], \A c \in Credentials : RegOk(c, reg'[c]),
         \A c \in Credentials : reg[c].a # None => reg'[c].a = reg[c].a
  PROVE  AccountInv'
<1>0. mem' = mem /\ disk' = disk /\ world' = world /\ past' = past /\ flight' = flight
      /\ done' = done
  BY DEF Chains
<1>1. StoreGrows BY <1>0 DEF StoreGrows, Rec
<1>2. Typed'
  <2> HIDE DEF RunOf, RegOf, Store, Chain, TxOf
  <2> QED BY <1>0 DEF AccountInv, Typed
<1>3. ASSUME NEW a \in Addresses PROVE RunOk(a, boot[a])'
  <2>1. PICK u : u = boot'[a] OBVIOUS
  <2>2. RunOk(a, u) BY <2>1
  <2>3. RunOk(a, u)' BY <1>0, <1>1, <2>2, RunStays
  <2> QED BY <2>1, <2>3
<1>4. ASSUME NEW c \in Credentials PROVE RegOk(c, reg[c])'
  <2>1. PICK u : u = reg'[c] OBVIOUS
  <2>2. RegOk(c, u) BY <2>1
  <2>3. u \in RegOf
    <3> HIDE DEF RegOf
    <3> QED BY <2>1
  <2>4. RegOk(c, u)' BY <1>0, <1>1, <2>2, <2>3, RegStays
  <2> QED BY <2>1, <2>4
<1>5. Recorded' /\ Active' BY <1>0 DEF AccountInv, Recorded, Active, Rec
<1>6. \A a \in Addresses : \A c \in Rec(a)'.creds : c = Rec(a)'.cred \/ world.index[c] = a
  BY <1>0 DEF AccountInv, Known, Rec
<1>7. disk' = mem' BY <1>0 DEF AccountInv, Kept
<1> QED BY <1>0, <1>1, <1>2, <1>3, <1>4, <1>5, <1>6, <1>7, LocalStep

LEMMA PrepareKeeps ==
  ASSUME AccountInv, NEW a \in Addresses, NEW c \in Credentials, PrepareRegister(a, c)
  PROVE  AccountInv'
<1>1. /\ Rec(a).step = "active" /\ mem.by[c] = None /\ reg[c].a \in {None, a}
      /\ reg' = [reg EXCEPT ![c] = [at |-> "prepared", a |-> a, id |-> 0]]
      /\ UNCHANGED <<mem, disk, boot, resume, Chains>>
  BY DEF PrepareRegister, Chains
<1>2. PICK r : r = [at |-> "prepared", a |-> a, id |-> 0] OBVIOUS
<1>3. r \in RegOf /\ r.at = "prepared" /\ r.a = a BY <1>2 DEF RegOf
<1>4. Rec(a).known BY <1>1 DEF AccountInv, Recorded
<1>5. RegOk(c, r) BY <1>1, <1>3, <1>4, Bounds DEF RegOk
<1>6. reg \in [Credentials -> RegOf] /\ boot \in [Addresses -> RunOf] /\ resume \subseteq Addresses
  BY DEF AccountInv, Typed
<1> HIDE DEF RegOf, RunOf
<1>7. /\ reg' \in [Credentials -> RegOf] /\ reg'[c] = r
      /\ \A d \in Credentials : d # c => reg'[d] = reg[d]
  BY <1>1, <1>2, <1>3, <1>6
<1>8. \A d \in Credentials : RegOk(d, reg'[d]) BY <1>5, <1>7 DEF AccountInv, UnderWay
<1>9. \A d \in Credentials : reg[d].a # None => reg'[d].a = reg[d].a BY <1>1, <1>3, <1>7
<1>10. \A b \in Addresses : RunOk(b, boot'[b]) BY <1>1 DEF AccountInv, UnderWay
<1> QED BY <1>1, <1>6, <1>7, <1>8, <1>9, <1>10, RegStep

\* A registration whose call ended keeps the account it was for.
LEMMA Ended ==
  ASSUME AccountInv, NEW c \in Credentials, NEW r, r = [reg[c] EXCEPT !.at = "none"]
  PROVE  r \in RegOf /\ r.a = reg[c].a /\ RegOk(c, r)
<1>1. reg[c] \in RegOf /\ RegOk(c, reg[c]) BY StoreFacts DEF AccountInv, UnderWay
<1>2. r \in RegOf /\ r.a = reg[c].a /\ r.at = "none" BY <1>1 DEF RegOf
<1> QED BY <1>1, <1>2 DEF RegOk

LEMMA RegisterFailsKeeps ==
  ASSUME AccountInv, NEW c \in Credentials, RegisterFails(c) PROVE AccountInv'
<1>1. PICK r : r = [reg[c] EXCEPT !.at = "none"] OBVIOUS
<1>2. r \in RegOf /\ r.a = reg[c].a /\ RegOk(c, r) BY <1>1, Ended
<1>3. reg' = [reg EXCEPT ![c] = r] /\ UNCHANGED <<mem, disk, boot, resume, Chains>>
  BY <1>1 DEF RegisterFails, Chains
<1>6. reg \in [Credentials -> RegOf] /\ boot \in [Addresses -> RunOf] /\ resume \subseteq Addresses
  BY DEF AccountInv, Typed
<1> HIDE DEF RegOf, RunOf
<1>7. /\ reg' \in [Credentials -> RegOf] /\ reg'[c] = r
      /\ \A d \in Credentials : d # c => reg'[d] = reg[d]
  BY <1>2, <1>3, <1>6
<1>8. \A d \in Credentials : RegOk(d, reg'[d]) BY <1>2, <1>7 DEF AccountInv, UnderWay
<1>9. \A d \in Credentials : reg[d].a # None => reg'[d].a = reg[d].a BY <1>2, <1>7
<1>10. \A b \in Addresses : RunOk(b, boot'[b]) BY <1>3 DEF AccountInv, UnderWay
<1> QED BY <1>3, <1>6, <1>7, <1>8, <1>9, <1>10, RegStep

LEMMA CrashKeeps == ASSUME AccountInv, Crash PROVE AccountInv'
<1>1. /\ mem' = disk /\ boot' = [a \in Addresses |-> Idle]
      /\ reg' = [c \in Credentials |-> [reg[c] EXCEPT !.at = "none"]]
      /\ resume' \subseteq Addresses /\ UNCHANGED <<disk, Chains>>
  BY DEF Crash, Chains
<1>2. mem' = mem BY <1>1 DEF AccountInv, Kept
<1>3. ASSUME NEW c \in Credentials
      PROVE  reg'[c] \in RegOf /\ reg'[c].a = reg[c].a /\ RegOk(c, reg'[c])
  <2>1. PICK r : r = [reg[c] EXCEPT !.at = "none"] OBVIOUS
  <2>2. reg'[c] = r BY <1>1, <2>1
  <2> QED BY <2>1, <2>2, Ended
<1>4. reg' \in [Credentials -> RegOf]
  <2>1. reg' = [c \in Credentials |-> reg'[c]] BY <1>1
  <2> HIDE DEF RegOf
  <2> QED BY <1>3, <2>1
<1>5. boot' \in [Addresses -> RunOf]
  <2> HIDE DEF RunOf
  <2> QED BY <1>1, IdleIsRun
<1>6. \A a \in Addresses : RunOk(a, boot'[a]) BY <1>1 DEF RunOk, Idle
<1> QED BY <1>1, <1>2, <1>3, <1>4, <1>5, <1>6, RegStep

LEMMA CreateAgainKeeps ==
  ASSUME AccountInv, NEW c \in Credentials, CreateAgain(c) PROVE AccountInv'
<1>1. PICK a \in Existing(c) :
        StartRun(a) /\ UNCHANGED <<mem, disk, resume, reg, world, past, flight, done, faults>>
  BY DEF CreateAgain
<1>2. a \in Addresses /\ mem.by[c] = a BY DEF Existing
<1>3. Rec(a).known BY <1>2, OwnerKnown, Bounds DEF AccountInv
<1> QED BY <1>1, <1>2, <1>3, StartKeeps

LEMMA ReconcileKeeps == ASSUME AccountInv, NEW a \in Addresses, Reconcile(a) PROVE AccountInv'
<1>1. CASE Rec(a).known BY <1>1, StartKeeps
<1>2. CASE ~Rec(a).known
  <2>1. Rec(a).step = "pending" /\ ~Rec(a).key BY <1>2 DEF AccountInv, Recorded
  <2>2. UNCHANGED <<mem, disk, boot, reg, Chains>> /\ resume' \subseteq Addresses
    BY <2>1 DEF Reconcile, StartRun, MayRun, Chains, AccountInv, Typed
  <2>3. reg' \in [Credentials -> RegOf] /\ boot' \in [Addresses -> RunOf]
    <3> HIDE DEF RegOf, RunOf
    <3> QED BY <2>2 DEF AccountInv, Typed
  <2>4. /\ \A b \in Addresses : RunOk(b, boot'[b])
        /\ \A c \in Credentials : RegOk(c, reg'[c])
    BY <2>2 DEF AccountInv, UnderWay
  <2> QED BY <2>2, <2>3, <2>4, RegStep
<1> QED BY <1>1, <1>2

-----------------------------------------------------------------------------
(* Sending: the transaction gets the next number. *)

LEMMA SentIsNat ==
  ASSUME Counted PROVE Sent \in Nat /\ Cardinality(flight) \in Nat /\ Cardinality(DOMAIN done) \in Nat
BY FS_CardinalityType DEF Counted, Sent

\* Whoever waits for a transaction still finds it when another one is sent.
LEMMA RunWaits ==
  ASSUME UNCHANGED <<mem, world, done>>, flight \subseteq flight', NEW a \in Addresses, NEW r,
         RunOk(a, r)
  PROVE  RunOk(a, r)'
<1>1. Completes(a, r.want) => Completes(a, r.want)' BY DEF Completes, Rec
<1>2. Awaited(r.id, "setup", a, Rec(a).cred, "val" \in world.inst[a])
        => Awaited(r.id, "setup", a, Rec(a).cred, "val" \in world.inst[a])'
  BY DEF Awaited, Rec
<1> QED BY <1>1, <1>2 DEF RunOk, Rec

LEMMA RegWaits ==
  ASSUME UNCHANGED <<mem, world, done>>, flight \subseteq flight', NEW c \in Credentials, NEW r,
         RegOk(c, r)
  PROVE  RegOk(c, r)'
<1>1. Awaited(r.id, "register", r.a, c, world.index[c] = r.a)
        => Awaited(r.id, "register", r.a, c, world.index[c] = r.a)'
  BY DEF Awaited
<1> QED BY <1>1 DEF RegOk, Rec

LEMMA SendStep ==
  ASSUME AccountInv, UNCHANGED <<mem, disk, resume, world, past, done>>,
         NEW t \in TxOf, t.id = Sent + 1, flight' = flight \cup {t},
         boot' \in [Addresses -> RunOf], \A a \in Addresses : RunOk(a, boot[a])',
         reg' \in [Credentials -> RegOf], \A c \in Credentials : RegOk(c, reg[c])',
         \A c \in Credentials : reg'[c].a = reg[c].a,
         TxOk(t)
  PROVE  AccountInv'
<1>1. Typed'
  <2> HIDE DEF RunOf, RegOf, Store, Chain, TxOf
  <2> QED BY DEF AccountInv, Typed
<1>2. Kept' BY DEF AccountInv, Kept, Extends
<1>3. Counted'
  <2>1. Counted BY DEF AccountInv
  <2>2. t \notin flight BY <2>1, SentIsNat DEF Counted
  <2>3. IsFiniteSet(flight') /\ Cardinality(flight') = Cardinality(flight) + 1
    BY <2>1, <2>2, FS_AddElement DEF Counted
  <2>4. Sent' = Sent + 1 BY <2>1, <2>3, SentIsNat DEF Sent
  <2> QED BY <2>1, <2>3, <2>4, SentIsNat DEF Counted
<1>4. ASSUME NEW u \in flight' PROVE TxOk(u)'
  <2>1. u \in TxOf BY DEF AccountInv, Typed
  <2>2. u.a \in Addresses /\ u.c \in Credentials BY <2>1 DEF TxOf
  <2>3. TxOk(u) BY DEF AccountInv, UnderWay
  <2>4. Completes(u.a, u.ops) => Completes(u.a, u.ops)' BY DEF Completes, Rec
  <2> QED BY <2>2, <2>3, <2>4 DEF TxOk, Rec
<1>5. UnderWay' BY <1>4 DEF UnderWay
<1>6. Recorded' /\ Active' /\ Governed' BY DEF AccountInv, Recorded, Active, Governed, Rec
<1>7. Known' BY DEF AccountInv, Known, Rec
<1> QED BY <1>1, <1>2, <1>3, <1>5, <1>6, <1>7 DEF AccountInv

\* A run has sent its transaction.
LEMMA RunSends ==
  ASSUME AccountInv, NEW a \in Addresses, Running(a),
         UNCHANGED <<mem, disk, resume, reg, world, past, done>>,
         NEW kind \in {"upload", "setup"}, NEW ops \in SUBSET Ops,
         flight' = flight \cup {Tx(a, kind, ops)},
         NEW r \in RunOf, boot' = [boot EXCEPT ![a] = r], r.id = Sent + 1,
         r.at \in {"uploading", "setting"}, r.at = "setting" <=> kind = "setup",
         kind = "setup" => Completes(a, r.want) /\ ops = r.want,
         kind = "upload" => ops = {}
  PROVE  AccountInv'
<1>1. PICK t : t = Tx(a, kind, ops) OBVIOUS
<1>2. Rec(a).cred \in Credentials /\ Sent + 1 \in Nat /\ Rec(a).known
  BY RunFacts, SentIsNat DEF AccountInv
<1>3. /\ t \in TxOf /\ t.id = Sent + 1 /\ t.a = a /\ t.kind = kind /\ t.ops = ops
      /\ t.c = Rec(a).cred
  BY <1>1, <1>2 DEF Tx, TxOf
<1>4. TxOk(t) BY <1>2, <1>3 DEF TxOk
<1>5. t \in flight' /\ flight' = flight \cup {t} BY <1>1
<1>6. boot \in [Addresses -> RunOf] /\ reg' \in [Credentials -> RegOf] /\ reg' = reg
  <2> HIDE DEF RunOf, RegOf
  <2> QED BY DEF AccountInv, Typed
<1>7. boot' \in [Addresses -> RunOf] /\ \A b \in Addresses : boot'[b] = IF b = a THEN r ELSE boot[b]
  <2> HIDE DEF RunOf
  <2> QED BY <1>6
<1>8. ASSUME NEW b \in Addresses PROVE RunOk(b, boot[b])'
  <2>1. CASE b = a
    <3>1. boot'[a] = r BY <1>7
    <3>2. Completes(a, r.want) => Completes(a, r.want)' BY DEF Completes, Rec
    <3>3. kind = "setup"
            => Awaited(r.id, "setup", a, Rec(a).cred, "val" \in world.inst[a])'
      BY <1>3, <1>5 DEF Awaited, Rec
    <3>4. Rec(a)'.known BY <1>2 DEF Rec
    <3> QED BY <2>1, <3>1, <3>2, <3>3, <3>4 DEF RunOk
  <2>2. CASE b # a
    <3>1. PICK u : u = boot'[b] OBVIOUS
    <3>2. RunOk(b, u) BY <1>7, <2>2, <3>1 DEF AccountInv, UnderWay
    <3>3. RunOk(b, u)' BY <1>5, <3>2, RunWaits
    <3> QED BY <3>1, <3>3
  <2> QED BY <2>1, <2>2
<1>9. ASSUME NEW c \in Credentials PROVE RegOk(c, reg[c])'
  <2>1. PICK u : u = reg'[c] OBVIOUS
  <2>2. RegOk(c, u) BY <2>1 DEF AccountInv, UnderWay
  <2>3. RegOk(c, u)' BY <1>5, <2>2, RegWaits
  <2> QED BY <2>1, <2>3
<1>10. \A c \in Credentials : reg'[c].a = reg[c].a BY <1>6
<1> QED BY <1>3, <1>4, <1>5, <1>6, <1>7, <1>8, <1>9, <1>10, SendStep

LEMMA SendUploadKeeps == ASSUME AccountInv, NEW a \in Addresses, SendUpload(a) PROVE AccountInv'
<1>1. /\ Running(a) /\ UNCHANGED <<mem, disk, resume, reg, world, past, done>>
      /\ flight' = flight \cup {Tx(a, "upload", {})}
      /\ boot' = [boot EXCEPT ![a].at = "uploading", ![a].id = Sent + 1]
  BY DEF SendUpload, At, Running
<1>2. boot[a] \in RunOf BY <1>1, RunFacts
<1>3. PICK n : n = Sent + 1 OBVIOUS
<1>4. n \in Nat BY <1>3, SentIsNat DEF AccountInv
<1>5. PICK r : r = [[boot[a] EXCEPT !.at = "uploading"] EXCEPT !.id = n] OBVIOUS
<1>6. r \in RunOf /\ r.at = "uploading" /\ r.id = n BY <1>2, <1>4, <1>5 DEF RunOf, RunAt
<1>7. boot' = [boot EXCEPT ![a] = r]
  <2>1. boot \in [Addresses -> RunOf] BY DEF AccountInv, Typed
  <2> HIDE DEF RunOf
  <2> QED BY <1>1, <1>3, <1>5, <2>1
<1>8. {} \in SUBSET Ops OBVIOUS
<1> QED BY <1>1, <1>3, <1>6, <1>7, <1>8, RunSends

LEMMA SendSetupKeeps == ASSUME AccountInv, NEW a \in Addresses, SendSetup(a) PROVE AccountInv'
<1>1. /\ Running(a) /\ UNCHANGED <<mem, disk, resume, reg, world, past, done>>
      /\ boot[a].at = "setup"
      /\ flight' = flight \cup {Tx(a, "setup", boot[a].want)}
      /\ boot' = [boot EXCEPT ![a].at = "setting", ![a].id = Sent + 1]
  BY DEF SendSetup, At, Running
<1>2. boot[a] \in RunOf /\ Completes(a, boot[a].want) BY <1>1, RunFacts DEF RunOk
<1>3. PICK n : n = Sent + 1 OBVIOUS
<1>4. n \in Nat BY <1>3, SentIsNat DEF AccountInv
<1>5. PICK r : r = [[boot[a] EXCEPT !.at = "setting"] EXCEPT !.id = n] OBVIOUS
<1>6. /\ r \in RunOf /\ r.at = "setting" /\ r.id = n /\ r.want = boot[a].want
      /\ r.want \in SUBSET Ops
  BY <1>2, <1>4, <1>5 DEF RunOf, RunAt
<1>7. boot' = [boot EXCEPT ![a] = r]
  <2>1. boot \in [Addresses -> RunOf] BY DEF AccountInv, Typed
  <2> HIDE DEF RunOf
  <2> QED BY <1>1, <1>3, <1>5, <2>1
<1> QED BY <1>1, <1>2, <1>3, <1>6, <1>7, RunSends

LEMMA SubmitKeeps == ASSUME AccountInv, NEW c \in Credentials, Submit(c) PROVE AccountInv'
<1>1. /\ reg[c].at = "prepared"
      /\ reg' = [reg EXCEPT ![c].at = "sent", ![c].id = Sent + 1]
      /\ UNCHANGED <<mem, disk, boot, resume, world, past, done>>
  BY DEF Submit
<1>2. reg[c] \in RegOf /\ RegOk(c, reg[c]) BY StoreFacts DEF AccountInv, UnderWay
<1>3. PICK a : a = reg[c].a OBVIOUS
<1>4. a \in Addresses /\ Rec(a).known /\ mem.by[c] \in {None, a}
  BY <1>1, <1>2, <1>3 DEF RegOf, RegOk
<1>5. PICK n : n = Sent + 1 OBVIOUS
<1>6. n \in Nat BY <1>5, SentIsNat DEF AccountInv
<1>7. PICK t : t = [a |-> a, kind |-> "register", ops |-> {"cred"}, c |-> c, id |-> n] OBVIOUS
<1>8. /\ t \in TxOf /\ t.id = n /\ t.a = a /\ t.kind = "register" /\ t.ops = {"cred"} /\ t.c = c
  BY <1>4, <1>6, <1>7 DEF TxOf, Ops
<1>9. flight' = flight \cup {t} BY <1>3, <1>5, <1>7 DEF Submit
<1>10. TxOk(t) BY <1>3, <1>4, <1>8 DEF TxOk
<1>11. PICK r : r = [[reg[c] EXCEPT !.at = "sent"] EXCEPT !.id = n] OBVIOUS
<1>12. r \in RegOf /\ r.at = "sent" /\ r.id = n /\ r.a = a BY <1>2, <1>3, <1>6, <1>11 DEF RegOf
<1>13. reg \in [Credentials -> RegOf] /\ boot' \in [Addresses -> RunOf] /\ boot' = boot
  <2> HIDE DEF RunOf, RegOf
  <2> QED BY <1>1 DEF AccountInv, Typed
<1>14. /\ reg' \in [Credentials -> RegOf]
       /\ \A d \in Credentials : reg'[d] = IF d = c THEN r ELSE reg[d]
  <2> HIDE DEF RegOf
  <2>1. reg' = [reg EXCEPT ![c] = r] BY <1>1, <1>5, <1>11, <1>13
  <2> QED BY <1>12, <1>13, <2>1
<1>15. ASSUME NEW d \in Credentials PROVE RegOk(d, reg[d])'
  <2>1. CASE d = c
    <3>1. reg'[d] = r BY <1>14, <2>1
    <3>2. Awaited(n, "register", a, c, world.index[c] = a)' BY <1>8, <1>9 DEF Awaited
    <3>3. Rec(a)'.known /\ mem'.by[c] \in {None, a} /\ a # None BY <1>1, <1>4, Bounds DEF Rec
    <3> QED BY <1>12, <2>1, <3>1, <3>2, <3>3 DEF RegOk
  <2>2. CASE d # c
    <3>1. PICK u : u = reg'[d] OBVIOUS
    <3>2. RegOk(d, u) BY <1>14, <2>2, <3>1 DEF AccountInv, UnderWay
    <3>3. RegOk(d, u)' BY <1>1, <1>9, <3>2, RegWaits
    <3> QED BY <3>1, <3>3
  <2> QED BY <2>1, <2>2
<1>16. ASSUME NEW b \in Addresses PROVE RunOk(b, boot[b])'
  <2>1. PICK u : u = boot[b] OBVIOUS
  <2>2. RunOk(b, u) BY <2>1 DEF AccountInv, UnderWay
  <2>3. RunOk(b, u)' BY <1>1, <1>9, <2>2, RunWaits
  <2> QED BY <1>13, <2>1, <2>3
<1>17. \A d \in Credentials : reg'[d].a = reg[d].a BY <1>3, <1>12, <1>14
<1> QED BY <1>1, <1>5, <1>8, <1>9, <1>10, <1>13, <1>14, <1>15, <1>16, <1>17, SendStep

-----------------------------------------------------------------------------
(* The chain includes a transaction. *)

\* A registration of c by anybody but a is ruled out before t, which is for c and a.
LEMMA OwnerFacts ==
  ASSUME AccountInv, NEW t \in flight, "cred" \in t.ops
  PROVE  /\ t.a \in {mem.by[t.c], reg[t.c].a}
         /\ world.index[t.c] \in {None, t.a}
<1>1. t \in TxOf /\ TxOk(t) BY DEF AccountInv, Typed, UnderWay
<1>2. t.a \in Addresses /\ t.c \in Credentials /\ t.a # None BY <1>1, Bounds DEF TxOf
<1>3. RegOk(t.c, reg[t.c]) BY <1>2 DEF AccountInv, UnderWay
<1>4. t.kind # "register" => mem.by[t.c] = t.a
  <2>1. Rec(t.a).known BY <1>1 DEF TxOk
  <2>2. Rec(t.a).cred \in Rec(t.a).creds BY <1>2, <2>1 DEF AccountInv, Recorded
  <2> QED BY <1>1, <1>2, <2>2 DEF TxOk, AccountInv, Recorded
<1>5. t.kind = "register" => reg[t.c].a = t.a /\ mem.by[t.c] \in {None, t.a}
  BY <1>1, <1>2, <1>3 DEF TxOk, RegOk
<1>6. reg[t.c].a # None => mem.by[t.c] \in {None, reg[t.c].a} BY <1>3 DEF RegOk
<1>7. world.index[t.c] # None => world.index[t.c] \in {mem.by[t.c], reg[t.c].a}
  BY <1>2 DEF AccountInv, Known
<1> QED BY <1>2, <1>4, <1>5, <1>6, <1>7

\* What t does to the chain when the account grants it, and that nothing is undone.
After(t, w) ==
  /\ w \in Chain /\ Extends(world, w)
  /\ w.up = world.up \cup (IF t.kind = "upload" THEN {t.a} ELSE {})
  /\ \A a \in Addresses : w.inst[a] = IF a = t.a THEN world.inst[a] \cup (t.ops \cap Modules)
                                                 ELSE world.inst[a]
  /\ \A c \in Credentials : w.index[c] = IF "cred" \in t.ops /\ c = t.c THEN t.a ELSE world.index[c]

LEMMA EffectFacts ==
  ASSUME AccountInv, NEW t \in flight, NEW w, w = Effect(t) PROVE After(t, w)
<1>1. t \in TxOf BY DEF AccountInv, Typed
<1>2. t.a \in Addresses /\ t.c \in Credentials BY <1>1 DEF TxOf
<1>3. /\ world.up \subseteq Addresses /\ world.inst \in [Addresses -> SUBSET Modules]
      /\ world.index \in [Credentials -> Addresses \cup {None}]
  BY DEF AccountInv, Typed, Chain
<1>4. PICK i : i = world.inst[t.a] \cup (t.ops \cap Modules) OBVIOUS
<1>5. /\ w.up = world.up \cup (IF t.kind = "upload" THEN {t.a} ELSE {})
      /\ w.inst = [world.inst EXCEPT ![t.a] = i]
      /\ w.index = IF "cred" \in t.ops THEN [world.index EXCEPT ![t.c] = t.a] ELSE world.index
      /\ w = [up |-> w.up, inst |-> w.inst, index |-> w.index]
  BY <1>4 DEF Effect
<1>6. i \in SUBSET Modules BY <1>2, <1>3, <1>4
<1>7. w.inst \in [Addresses -> SUBSET Modules] BY <1>2, <1>3, <1>5, <1>6
<1>8. w.index \in [Credentials -> Addresses \cup {None}] BY <1>2, <1>3, <1>5
<1>9. w.up \subseteq Addresses BY <1>2, <1>3, <1>5
<1>10. w \in Chain BY <1>5, <1>7, <1>8, <1>9 DEF Chain
<1>11. \A a \in Addresses : w.inst[a] = IF a = t.a THEN world.inst[a] \cup (t.ops \cap Modules)
                                                   ELSE world.inst[a]
  BY <1>2, <1>3, <1>4, <1>5
<1>12. \A c \in Credentials : w.index[c] = IF "cred" \in t.ops /\ c = t.c THEN t.a ELSE world.index[c]
  BY <1>2, <1>3, <1>5
<1>13. Extends(world, w)
  <2>1. "cred" \in t.ops => world.index[t.c] \in {None, t.a} BY OwnerFacts
  <2> QED BY <1>5, <1>11, <1>12, <2>1 DEF Extends
<1> QED BY <1>5, <1>10, <1>11, <1>12, <1>13 DEF After

LEMMA ExtendsSelf == ASSUME NEW w PROVE Extends(w, w)
BY DEF Extends

\* t is in a block: what the chain extends to, and how t ended.
Included(t) ==
  /\ world' \in Chain /\ Extends(world, world')
  /\ done'[t.id] = "ok" => Authorized(t) /\ After(t, world')
  /\ done'[t.id] # "ok" => world' = world

LEMMA CountedLands ==
  ASSUME Counted, NEW t \in flight, flight' = flight \ {t},
         DOMAIN done' = DOMAIN done \cup {t.id}
  PROVE  Counted' /\ t.id \notin DOMAIN done /\ \A u \in flight' : u.id # t.id
<1>1. t.id \notin DOMAIN done /\ t.id \in 1..Sent BY DEF Counted
<1>2. IsFiniteSet(flight') /\ Cardinality(flight') = Cardinality(flight) - 1
  BY FS_RemoveElement DEF Counted
<1>3. IsFiniteSet(DOMAIN done') /\ Cardinality(DOMAIN done') = Cardinality(DOMAIN done) + 1
  BY <1>1, FS_AddElement DEF Counted
<1>4. Sent' = Sent BY <1>2, <1>3, SentIsNat DEF Sent
<1>5. \A u \in flight' : u.id # t.id BY DEF Counted
<1>6. Counted' BY <1>1, <1>2, <1>3, <1>4, <1>5 DEF Counted
<1> QED BY <1>1, <1>5, <1>6

LEMMA LandFacts ==
  ASSUME AccountInv, NEW t \in flight, Land(t)
  PROVE  /\ Included(t)
         /\ flight' = flight \ {t} /\ DOMAIN done' = DOMAIN done \cup {t.id}
         /\ \A i \in DOMAIN done : i # t.id => done'[i] = done[i]
<1>1. CASE Authorized(t)
  <2>1. PICK w : w = Effect(t) OBVIOUS
  <2>2. After(t, w) BY <2>1, EffectFacts
  <2>3. world' = w /\ done' = [i \in DOMAIN done \cup {t.id} |-> IF i = t.id THEN "ok" ELSE done[i]]
    BY <1>1, <2>1 DEF Land
  <2>4. done'[t.id] = "ok" BY <2>3
  <2>5. world' \in Chain /\ Extends(world, world') BY <2>2, <2>3 DEF After
  <2>6. After(t, world') BY <2>2, <2>3
  <2> QED BY <1>1, <2>3, <2>4, <2>5, <2>6 DEF Included, Land
<1>2. CASE ~Authorized(t)
  <2>1. /\ world' = world
        /\ done' = [i \in DOMAIN done \cup {t.id} |-> IF i = t.id THEN "reverted" ELSE done[i]]
    BY <1>2 DEF Land
  <2>2. done'[t.id] = "reverted" BY <2>1
  <2>3. world' \in Chain /\ Extends(world, world') BY <2>1, ExtendsSelf DEF AccountInv, Typed
  <2> QED BY <2>1, <2>2, <2>3 DEF Included, Land
<1> QED BY <1>1, <1>2

\* With the validator in place, or the setup in flight, the account is complete.
LEMMA CompletesLater ==
  ASSUME Typed, NEW a \in Addresses, NEW ops, mem' = mem, Extends(world, world'), Completes(a, ops),
         Rec(a).cred \in Credentials
  PROVE  Completes(a, ops)'
<1>1. world.inst[a] \subseteq world'.inst[a] BY DEF Extends
<1>2. world.index[Rec(a).cred] = a => world'.index[Rec(a).cred] = a BY Bounds DEF Extends
<1> QED BY <1>1, <1>2 DEF Completes, Rec

LEMMA LandKeeps == ASSUME AccountInv, NEW t \in flight, Land(t) PROVE AccountInv'
<1>1. /\ Included(t) /\ flight' = flight \ {t} /\ DOMAIN done' = DOMAIN done \cup {t.id}
      /\ \A i \in DOMAIN done : i # t.id => done'[i] = done[i]
  BY LandFacts
<1>2. mem' = mem /\ disk' = disk /\ boot' = boot /\ resume' = resume /\ reg' = reg
      /\ past' \in {world, past}
  BY DEF Land
<1>3. Counted' /\ t.id \notin DOMAIN done /\ \A u \in flight' : u.id # t.id
  BY <1>1, CountedLands DEF AccountInv
<1>4. world' \in Chain /\ Extends(world, world') BY <1>1 DEF Included
<1>5. t \in TxOf /\ TxOk(t) BY DEF AccountInv, Typed, UnderWay
<1>6. t.a \in Addresses /\ t.c \in Credentials /\ t.a # None BY <1>5, Bounds DEF TxOf
<1>7. Typed'
  <2> HIDE DEF RunOf, RegOf, Store, Chain, TxOf
  <2> QED BY <1>1, <1>2, <1>4 DEF AccountInv, Typed
<1>8. Kept'
  <2>1. Extends(past, world') BY <1>4 DEF AccountInv, Kept, Extends
  <2> QED BY <1>2, <1>4, <2>1 DEF AccountInv, Kept
<1>9. Recorded' BY <1>2 DEF AccountInv, Recorded, Rec
<1>10. \A a \in Addresses : Rec(a).known => Rec(a).cred \in Credentials
  <2> SUFFICES ASSUME NEW a \in Addresses, Rec(a).known PROVE Rec(a).cred \in Credentials
    OBVIOUS
  <2>1. Rec(a) \in Record BY StoreFacts DEF AccountInv
  <2>2. Rec(a).cred \in Rec(a).creds BY DEF AccountInv, Recorded
  <2> QED BY <2>1, <2>2 DEF Record
<1>11. \A a \in Addresses : \A ops : Rec(a).known /\ Completes(a, ops) => Completes(a, ops)'
  BY <1>2, <1>4, <1>10, CompletesLater DEF AccountInv
<1>12. After(t, world') \/ world' = world
  BY <1>1 DEF Included
\* A setup that took effect put the validator there, and its passkey.
<1>13. ASSUME done'[t.id] = "ok", t.kind = "setup"
       PROVE  /\ Modules \subseteq world'.inst[t.a] /\ world'.index[Rec(t.a).cred] = t.a
              /\ t.a \in world'.up
  <2>1. After(t, world') /\ Authorized(t) BY <1>1, <1>13 DEF Included
  <2>2. Rec(t.a).known /\ Completes(t.a, t.ops) /\ t.c = Rec(t.a).cred BY <1>5, <1>13 DEF TxOk
  <2>3. t.a \in world.up BY <1>13, <2>1 DEF Authorized
  <2>4. Modules \subseteq world'.inst[t.a] BY <1>6, <2>1, <2>2 DEF After, Completes
  <2>5. world'.index[Rec(t.a).cred] = t.a BY <1>6, <1>10, <2>1, <2>2 DEF After, Completes
  <2>6. t.a \in world'.up BY <2>1, <2>3 DEF After
  <2> QED BY <2>4, <2>5, <2>6
<1>14. ASSUME NEW a \in Addresses PROVE RunOk(a, boot[a])'
  <2>1. PICK r : r = boot[a] OBVIOUS
  <2>2. RunOk(a, r) BY <2>1 DEF AccountInv, UnderWay
  <2>3. CASE r.at = "idle" BY <1>2, <2>1, <2>3 DEF RunOk
  <2>4. CASE r.at # "idle"
    <3>1. Rec(a).known /\ Rec(a)' = Rec(a) BY <1>2, <2>2, <2>4 DEF RunOk, Rec
    <3>2. r.at \in {"setup", "setting", "recheck"} => Completes(a, r.want)'
      BY <1>11, <2>2, <3>1 DEF RunOk
    <3>3. r.at = "cred" => r.seen \subseteq world'.inst[a] BY <1>4, <2>2 DEF RunOk, Extends
    <3>4. ASSUME r.at = "setting"
          PROVE  Awaited(r.id, "setup", a, Rec(a).cred, "val" \in world.inst[a])'
      <4>1. Awaited(r.id, "setup", a, Rec(a).cred, "val" \in world.inst[a])
        BY <2>2, <3>4 DEF RunOk
      <4>2. CASE r.id \in DOMAIN done
        <5>1. r.id \in DOMAIN done' /\ done'[r.id] = done[r.id] BY <1>1, <1>3, <4>2
        <5>2. \A u \in flight : u.id # r.id BY <4>2 DEF AccountInv, Counted
        <5>3. done[r.id] = "ok" => "val" \in world.inst[a] BY <4>1, <5>2 DEF Awaited
        <5>4. done'[r.id] = "ok" => "val" \in world'.inst[a] BY <1>4, <5>1, <5>3 DEF Extends
        <5> QED BY <5>1, <5>4 DEF Awaited
      <4>3. CASE r.id \notin DOMAIN done
        <5>1. PICK u \in flight : u.id = r.id /\ u.kind = "setup" /\ u.a = a /\ u.c = Rec(a).cred
          BY <4>1, <4>3 DEF Awaited
        <5>2. CASE u = t
          <6>1. done'[r.id] = "ok" => "val" \in world'.inst[a]
            BY <1>13, <5>1, <5>2 DEF Modules
          <6> QED BY <1>1, <5>1, <5>2, <6>1 DEF Awaited
        <5>3. CASE u # t BY <1>1, <3>1, <5>1, <5>3 DEF Awaited
        <5> QED BY <5>2, <5>3
      <4> QED BY <4>2, <4>3
    <3> QED BY <1>2, <2>1, <2>4, <3>1, <3>2, <3>3, <3>4 DEF RunOk
  <2> QED BY <2>3, <2>4
<1>15. ASSUME NEW c \in Credentials PROVE RegOk(c, reg[c])'
  <2>1. PICK r : r = reg[c] OBVIOUS
  <2>2. RegOk(c, r) BY <2>1 DEF AccountInv, UnderWay
  <2>3. ASSUME r.at = "sent" PROVE Awaited(r.id, "register", r.a, c, world.index[c] = r.a)'
    <3>1. Awaited(r.id, "register", r.a, c, world.index[c] = r.a) /\ r.a # None
      BY <2>2, <2>3 DEF RegOk
    <3>2. CASE r.id \in DOMAIN done
      <4>1. r.id \in DOMAIN done' /\ done'[r.id] = done[r.id] BY <1>1, <1>3, <3>2
      <4>2. \A u \in flight : u.id # r.id BY <3>2 DEF AccountInv, Counted
      <4>3. done[r.id] = "ok" => world.index[c] = r.a BY <3>1, <4>2 DEF Awaited
      <4>4. done'[r.id] = "ok" => world'.index[c] = r.a BY <1>4, <3>1, <4>1, <4>3 DEF Extends
      <4> QED BY <4>1, <4>4 DEF Awaited
    <3>3. CASE r.id \notin DOMAIN done
      <4>1. PICK u \in flight : u.id = r.id /\ u.kind = "register" /\ u.a = r.a /\ u.c = c
        BY <3>1, <3>3 DEF Awaited
      <4>2. CASE u = t
        <5>1. t.ops = {"cred"} BY <1>5, <4>1, <4>2 DEF TxOk
        <5>2. done'[r.id] = "ok" => world'.index[c] = r.a
          BY <1>1, <4>1, <4>2, <5>1 DEF Included, After
        <5> QED BY <1>1, <4>1, <4>2, <5>2 DEF Awaited
      <4>3. CASE u # t BY <1>1, <4>1, <4>3 DEF Awaited
      <4> QED BY <4>2, <4>3
    <3> QED BY <3>2, <3>3
  <2> QED BY <1>2, <2>1, <2>2, <2>3 DEF RegOk, Rec
<1>16. ASSUME NEW u \in flight' PROVE TxOk(u)'
  <2>1. u \in TxOf /\ TxOk(u) BY <1>1 DEF AccountInv, Typed, UnderWay
  <2>2. u.a \in Addresses BY <2>1 DEF TxOf
  <2>3. u.kind = "setup" => Completes(u.a, u.ops)' BY <1>11, <2>1, <2>2 DEF TxOk
  <2> QED BY <1>2, <2>1, <2>3 DEF TxOk, Rec
<1>17. UnderWay' BY <1>14, <1>15, <1>16 DEF UnderWay
<1>18. Known'
  <2>1. \A a \in world'.up : Rec(a).known
    <3>1. world'.up \subseteq world.up \cup {t.a} BY <1>12 DEF After
    <3>2. Rec(t.a).known BY <1>5 DEF TxOk
    <3> QED BY <3>1, <3>2 DEF AccountInv, Known
  <2>2. \A c \in Credentials : world'.index[c] # None => world'.index[c] \in {mem.by[c], reg[c].a}
    <3>1. "cred" \in t.ops => t.a \in {mem.by[t.c], reg[t.c].a} BY OwnerFacts
    <3> QED BY <1>12, <3>1 DEF After, AccountInv, Known
  <2>3. \A a \in Addresses : \A c \in Rec(a).creds : c = Rec(a).cred \/ world'.index[c] = a
    <3> SUFFICES ASSUME NEW a \in Addresses, NEW c \in Rec(a).creds, c # Rec(a).cred
                 PROVE  world'.index[c] = a
      OBVIOUS
    <3>1. Rec(a) \in Record BY StoreFacts DEF AccountInv
    <3>2. c \in Credentials BY <3>1 DEF Record
    <3>3. world.index[c] = a BY DEF AccountInv, Known
    <3> QED BY <1>4, <3>2, <3>3, Bounds DEF Extends
  <2> QED BY <1>2, <2>1, <2>2, <2>3 DEF Known, Rec
<1>19. Governed'
  <2> SUFFICES ASSUME NEW a \in Addresses, "val" \in world'.inst[a]
               PROVE  /\ a \in world'.up /\ "sign" \in world'.inst[a]
                      /\ Rec(a).known /\ world'.index[Rec(a).cred] = a
    BY <1>2 DEF Governed, Rec
  <2>1. CASE "val" \in world.inst[a]
    <3>1. a \in world.up /\ "sign" \in world.inst[a] /\ Rec(a).known /\ world.index[Rec(a).cred] = a
      BY <2>1 DEF AccountInv, Governed
    <3> QED BY <1>4, <1>10, <3>1, Bounds DEF Extends
  <2>2. CASE "val" \notin world.inst[a]
    <3>1. world' # world BY <2>2
    <3>2. done'[t.id] = "ok" /\ After(t, world') BY <1>1, <3>1 DEF Included
    <3>3. a = t.a /\ "val" \in t.ops BY <2>2, <3>2 DEF After
    <3>4. t.kind = "setup" BY <1>5, <3>3 DEF TxOk, TxOf
    <3>5. Rec(t.a).known BY <1>5 DEF TxOk
    <3> QED BY <1>13, <3>2, <3>3, <3>4, <3>5 DEF Modules
  <2> QED BY <2>1, <2>2
<1>20. Active' BY <1>2, <1>4 DEF AccountInv, Active, Rec, Extends
<1> QED BY <1>3, <1>7, <1>8, <1>9, <1>17, <1>18, <1>19, <1>20 DEF AccountInv

-----------------------------------------------------------------------------
(* The theorems. *)

LEMMA InitAccount == Init => AccountInv
<1> SUFFICES ASSUME Init PROVE AccountInv OBVIOUS
<1>1. PICK m : m = [acc |-> [a \in Addresses |-> NoRecord], by |-> [c \in Credentials |-> None]]
  OBVIOUS
<1>2. mem = m /\ disk = m BY <1>1 DEF Init
<1>3. NoRecord \in Record BY DEF NoRecord, Record
<1>4. NoReg \in RegOf BY DEF NoReg, RegOf
<1>5. /\ mem \in Store
      /\ \A a \in Addresses : Rec(a) = NoRecord
      /\ \A c \in Credentials : mem.by[c] = None
  <2> HIDE DEF Record
  <2> QED BY <1>1, <1>2, <1>3 DEF Store, Rec
<1>6. boot \in [Addresses -> RunOf] /\ \A a \in Addresses : boot[a] = Idle
  <2> HIDE DEF RunOf
  <2> QED BY IdleIsRun DEF Init
<1>7. reg \in [Credentials -> RegOf] /\ \A c \in Credentials : reg[c] = NoReg
  <2> HIDE DEF RegOf
  <2> QED BY <1>4 DEF Init
<1>8. /\ world.up = {} /\ \A a \in Addresses : world.inst[a] = {}
      /\ \A c \in Credentials : world.index[c] = None
      /\ world \in Chain /\ past = world
  BY DEF Init, Chain
<1>9. flight = {} /\ resume = {} /\ done = <<>> BY DEF Init
<1>10. Typed
  <2> HIDE DEF RunOf, RegOf, Store, Chain, TxOf
  <2> QED BY <1>5, <1>6, <1>7, <1>8, <1>9 DEF Typed
<1>11. Kept BY <1>2, <1>8, ExtendsSelf DEF Kept
<1>12. Counted
  <2>1. DOMAIN done = {} /\ {t.id : t \in flight} = {} BY <1>9
  <2>2. IsFiniteSet({}) /\ Cardinality({}) = 0 BY FS_EmptySet
  <2>3. Sent = 0 BY <1>9, <2>1, <2>2 DEF Sent
  <2>4. 1..Sent = {} BY <2>3
  <2> QED BY <1>9, <2>1, <2>2, <2>4 DEF Counted
<1>13. Recorded BY <1>5, Bounds DEF Recorded, NoRecord
<1>14. UnderWay BY <1>6, <1>7, <1>9 DEF UnderWay, RunOk, RegOk, Idle, NoReg
<1>15. Known BY <1>5, <1>8 DEF Known, NoRecord
<1>16. Governed /\ Active BY <1>5, <1>8 DEF Governed, Active, NoRecord
<1> QED BY <1>10, <1>11, <1>12, <1>13, <1>14, <1>15, <1>16 DEF AccountInv

LEMMA StutterKeeps == AccountInv /\ UNCHANGED vars => AccountInv'
<1> SUFFICES ASSUME AccountInv, UNCHANGED vars PROVE AccountInv' OBVIOUS
<1>1. UNCHANGED <<mem, disk, resume, boot, reg, Chains>> BY DEF vars, Chains
<1>2. resume' \subseteq Addresses /\ boot' \in [Addresses -> RunOf] /\ reg' \in [Credentials -> RegOf]
  <2> HIDE DEF RegOf, RunOf
  <2> QED BY <1>1 DEF AccountInv, Typed
<1>3. /\ \A a \in Addresses : RunOk(a, boot'[a])
      /\ \A c \in Credentials : RegOk(c, reg'[c])
  BY <1>1 DEF AccountInv, UnderWay
<1> QED BY <1>1, <1>2, <1>3, RegStep

LEMMA NextKeeps == AccountInv /\ [Next]_vars => AccountInv'
<1> SUFFICES ASSUME AccountInv, [Next]_vars PROVE AccountInv' OBVIOUS
<1>1. ASSUME NEW a \in Addresses, Run(a) PROVE AccountInv'
  BY <1>1, ReadModulesKeeps, ReadCredentialKeeps, SendUploadKeeps, SendSetupKeeps, WaitingKeeps
     DEF Run
<1>2. ASSUME NEW a \in Addresses, EnsureReady(a) PROVE AccountInv'
  <2>1. Rec(a).known BY <1>2 DEF EnsureReady
  <2> QED BY <1>2, <2>1, StartKeeps
<1>3. ASSUME NEW a \in Addresses, Reconcile(a) PROVE AccountInv' BY <1>3, ReconcileKeeps
<1>4. ASSUME NEW c \in Credentials,
             CreateAgain(c) \/ WhoAmI(c) \/ Submit(c) \/ Mirror(c) \/ RegisterFails(c)
      PROVE  AccountInv'
  BY <1>4, CreateAgainKeeps, WhoAmIKeeps, SubmitKeeps, MirrorKeeps, RegisterFailsKeeps
<1>5. ASSUME NEW a \in Addresses, NEW c \in Credentials, Create(c, a) \/ PrepareRegister(a, c)
      PROVE  AccountInv'
  BY <1>5, CreateKeeps, PrepareKeeps
<1>6. ASSUME NEW t \in flight, Land(t) PROVE AccountInv' BY <1>6, LandKeeps
<1>7. CASE Crash BY <1>7, CrashKeeps
<1>8. CASE UNCHANGED vars BY <1>8, StutterKeeps
<1> QED BY <1>1, <1>2, <1>3, <1>4, <1>5, <1>6, <1>7, <1>8 DEF Next

\* However runs, late transactions, restarts and stale answers interleave, store, chain
\* and what is in flight fit together: AccountInv holds (veive.js, chain.js:441-648).
THEOREM AccountHolds == Spec => []AccountInv
<1> QED BY InitAccount, NextKeeps, PTL DEF Spec

\* Type correctness, and that every transaction sent is in flight or done, never both
\* (chain.js:441-648).
THEOREM TypeCorrect == Spec => []TypeOK
<1>1. AccountInv => TypeOK
  <2> SUFFICES ASSUME AccountInv PROVE TypeOK OBVIOUS
  <2>1. \A a \in Addresses : Rec(a).step \in {"pending", "active", "conflict"}
    <3> SUFFICES ASSUME NEW a \in Addresses
                 PROVE  Rec(a).step \in {"pending", "active", "conflict"}
      OBVIOUS
    <3>1. Rec(a) \in Record BY StoreFacts DEF AccountInv
    <3> QED BY <3>1 DEF Record
  <2>2. \A a \in Addresses : boot[a].want \subseteq Modules \cup {"cred"} /\ boot[a].try \in 1..3
    <3> SUFFICES ASSUME NEW a \in Addresses
                 PROVE  boot[a].want \subseteq Modules \cup {"cred"} /\ boot[a].try \in 1..3
      OBVIOUS
    <3>1. boot[a] \in RunOf BY StoreFacts DEF AccountInv
    <3> QED BY <3>1 DEF RunOf, Ops
  <2>3. {t.id : t \in flight} \cup DOMAIN done = 1..Sent BY DEF AccountInv, Counted
  <2>4. ASSUME NEW c \in Credentials, mem.by[c] # None PROVE c \in Rec(mem.by[c]).creds
    <3>1. mem.by[c] \in Addresses BY <2>4, StoreFacts DEF AccountInv
    <3> QED BY <3>1 DEF AccountInv, Recorded
  <2>5. disk = mem BY DEF AccountInv, Kept
  <2> QED BY <2>1, <2>2, <2>3, <2>4, <2>5 DEF TypeOK, Rec
<1> QED BY <1>1, AccountHolds, PTL

\* The store keeps the key of every account that is on the chain, or may come to be,
\* without its validator: Create saves it before anything is sent (veive.js:15-18).
THEOREM KeyIsKept == Spec => []KeyKept
<1>1. AccountInv => KeyKept
  <2> SUFFICES ASSUME AccountInv, NEW a \in Addresses, a \in world.up \/ \E t \in flight : t.a = a
               PROVE  disk.acc[a].key
    BY DEF KeyKept
  <2>1. Rec(a).known
    <3>1. CASE a \in world.up BY <3>1 DEF AccountInv, Known
    <3>2. CASE \E t \in flight : t.a = a BY <3>2 DEF AccountInv, UnderWay, TxOk
    <3> QED BY <3>1, <3>2
  <2> QED BY <2>1 DEF AccountInv, Recorded, Kept, Rec
<1> QED BY <1>1, AccountHolds, PTL

\* The validator is only ever installed by a setup that also brings the sign module and,
\* if the chain lacks it, the passkey (chain.js:584-590).
THEOREM PasskeyGoverns == Spec => []GovernedByPasskey
<1>1. AccountInv => GovernedByPasskey
  <2> SUFFICES ASSUME AccountInv, NEW a \in Addresses, "val" \in world.inst[a]
               PROVE  "sign" \in world.inst[a] /\ \E c \in Credentials : world.index[c] = a
    BY DEF GovernedByPasskey
  <2>1. "sign" \in world.inst[a] /\ Rec(a).known /\ world.index[Rec(a).cred] = a
    BY DEF AccountInv, Governed
  <2>2. Rec(a) \in Record /\ Rec(a).cred \in Rec(a).creds
    BY <2>1, StoreFacts DEF AccountInv, Recorded
  <2>3. Rec(a).cred \in Credentials BY <2>2 DEF Record
  <2> QED BY <2>1, <2>3
<1> QED BY <1>1, AccountHolds, PTL

\* What the wallet shows as active is live, with every credential it shows: even when a
\* lost answer is settled from a stale node (veive.js, server.js:819-875).
THEOREM ActiveAccountsLive == Spec => []ActiveIsLive
<1>1. AccountInv => ActiveIsLive
  <2> SUFFICES ASSUME AccountInv, NEW a \in Addresses, Rec(a).known, Rec(a).step = "active"
               PROVE  /\ a \in world.up /\ Modules \subseteq world.inst[a]
                      /\ \A c \in Rec(a).creds : world.index[c] = a
    BY DEF ActiveIsLive
  <2>1. "val" \in world.inst[a] BY DEF AccountInv, Active
  <2>2. a \in world.up /\ "sign" \in world.inst[a] /\ world.index[Rec(a).cred] = a
    BY <2>1 DEF AccountInv, Governed
  <2>3. \A c \in Rec(a).creds : c = Rec(a).cred \/ world.index[c] = a
    BY DEF AccountInv, Known
  <2> QED BY <2>1, <2>2, <2>3 DEF Modules
<1> QED BY <1>1, AccountHolds, PTL
===============================================================================
