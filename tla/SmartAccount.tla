----------------------------- MODULE SmartAccount -----------------------------
(***************************************************************************)
(* The life of a Veive smart account: minting its record, the two-step     *)
(* bootstrap and its repair (tools/veive.js, chain.js:441-648), adding a    *)
(* credential (server.js:698-734, 819-875), signing in with one, and the    *)
(* registry of the sign module (contracts/mod-sign-webauthn-as).            *)
(*                                                                          *)
(* Every chain read and every transaction is a step.  A process may stop    *)
(* between any two; what it sent may still be included later.               *)
(***************************************************************************)
EXTENDS Naturals, FiniteSets

CONSTANTS
  Addresses,    \* addresses of freshly drawn bootstrap keys
  Credentials,  \* passkeys and recovery keys
  None,
  Lag,          \* TRUE: a read may be answered by a node one block behind
  MaxFaults     \* bound: failed calls, lost answers, restarts

ASSUME Bounds == MaxFaults \in Nat /\ Lag \in BOOLEAN /\ None \notin Addresses \cup Credentials

VARIABLES
  mem,     \* S.store: records by address, addresses by credential
  disk,    \* accounts.json
  boot,    \* runBootstrap() of each account: [at, seen, want, id, try]; RUNNING
  resume,  \* accounts reconcile() has still to look at
  reg,     \* registrations of extra credentials: [at, a, id]
  world,   \* the chain: [up, inst, index]
  past,    \* the chain one block ago
  flight,  \* transactions that were sent and are in no block yet
  done,    \* how sent transactions ended: [id -> "ok" | "reverted"]
  faults

vars == <<mem, disk, boot, resume, reg, world, past, flight, done, faults>>

Modules == {"sign", "val"}
NoRecord == [known |-> FALSE, cred |-> None, creds |-> {}, key |-> FALSE,
             step |-> "pending", err |-> FALSE]
Idle == [at |-> "idle", seen |-> {}, want |-> {}, id |-> 0, try |-> 1]
NoReg == [at |-> "none", a |-> None, id |-> 0]

Init ==
  /\ mem = [acc |-> [a \in Addresses |-> NoRecord], by |-> [c \in Credentials |-> None]]
  /\ disk = mem
  /\ boot = [a \in Addresses |-> Idle] /\ resume = {}
  /\ reg = [c \in Credentials |-> NoReg]
  /\ world = [up |-> {}, inst |-> [a \in Addresses |-> {}], index |-> [c \in Credentials |-> None]]
  /\ past = world
  /\ flight = {} /\ done = <<>> /\ faults = 0

Rec(a) == mem.acc[a]
Running(a) == boot[a].at # "idle"
Sent == Cardinality(flight) + Cardinality(DOMAIN done)
Fault == faults < MaxFaults /\ faults' = faults + 1

\* The states a read of the chain may be answered from.
Views == IF Lag THEN {world, past} ELSE {world}

\* inspect(): contract, both modules and a known credential, on the chain.
Ready(a) == /\ a \in world.up /\ Modules \subseteq world.inst[a]
            /\ \E c \in Rec(a).creds : world.index[c] = a

-----------------------------------------------------------------------------
(* Records. *)

\* MUTANT of Saved: the record of a new account is in memory only.
SavedLater(s) == mem' = s /\ disk' = disk

\* Change the store and persist() it.
Saved(s) == mem' = s /\ disk' = s

\* runBootstrap(): returns at once unless there is something to do and no run.
MayRun(a) == ~Running(a) /\ Rec(a).step = "pending" /\ Rec(a).key
StartRun(a) == boot' = IF MayRun(a) THEN [boot EXCEPT ![a] = [Idle EXCEPT !.at = "mods"]] ELSE boot

Existing(c) == {a \in Addresses : mem.by[c] = a}

\* createOrResume() for a credential without a record: draw a key, save, start.
Create(c, a) ==
  /\ Existing(c) = {} /\ ~Rec(a).known /\ a \notin world.up
  /\ reg[c] = NoReg /\ world.index[c] = None
  /\ Saved([acc |-> [mem.acc EXCEPT ![a] = [known |-> TRUE, cred |-> c, creds |-> {c},
                       key |-> TRUE, step |-> "pending", err |-> FALSE]],
            by |-> [mem.by EXCEPT ![c] = a]])
  /\ boot' = [boot EXCEPT ![a] = [Idle EXCEPT !.at = "mods"]]
  /\ UNCHANGED <<resume, reg, world, past, flight, done, faults>>

\* createOrResume() again with the same credential.
CreateAgain(c) ==
  \E a \in Existing(c) :
    /\ MayRun(a) /\ StartRun(a)
    /\ UNCHANGED <<mem, disk, resume, reg, world, past, flight, done, faults>>

\* ensureReady() finds an account that is not ready: make it pending and repair it.
EnsureReady(a) ==
  /\ Rec(a).known /\ ~Ready(a) /\ Rec(a).key
  /\ Saved([mem EXCEPT !.acc[a].step = "pending", !.acc[a].err = FALSE])
  /\ boot' = IF Running(a) THEN boot ELSE [boot EXCEPT ![a] = [Idle EXCEPT !.at = "mods"]]
  /\ UNCHANGED <<resume, reg, world, past, flight, done, faults>>

\* whoami(): the chain's index knows a credential the store does not.
WhoAmI(c) ==
  \E a \in Addresses :
    /\ mem.by[c] = None /\ world.index[c] = a
    /\ Saved([acc |-> [mem.acc EXCEPT ![a] =
                IF Rec(a).known THEN [Rec(a) EXCEPT !.creds = @ \cup {c}]
                ELSE [NoRecord EXCEPT !.known = TRUE, !.cred = c, !.creds = {c}, !.step = "active"]],
              by |-> [mem.by EXCEPT ![c] = a]])
    /\ UNCHANGED <<boot, resume, reg, world, past, flight, done, faults>>

-----------------------------------------------------------------------------
(* bootstrapSmartAccount(), one chain call at a time. *)

At(a, where) == boot[a].at = where
Stage(a, where) == boot' = [boot EXCEPT ![a].at = where]

\* The account's modules; "mods" first, "again" after the upload.
ReadModules(a) ==
  /\ At(a, "mods") \/ At(a, "again")
  /\ \E w \in Views :
       \/ /\ a \in w.up
          /\ boot' = [boot EXCEPT ![a].at = "cred", ![a].seen = w.inst[a]]
       \/ a \notin w.up /\ At(a, "mods") /\ Stage(a, "upload")
  /\ UNCHANGED <<mem, disk, resume, reg, world, past, flight, done, faults>>

Needed(a) == (Modules \ boot[a].seen)

\* The credential is not this account's in the registry.
Lacks(a, w) == w.index[Rec(a).cred] # a

\* MUTANT of Conflict: any account with modules and without the credential.
ConflictEarly(missing, lacks) == lacks

\* The validator is live and the passkey is not: only another one can add it.
Conflict(missing, lacks) == lacks /\ "val" \notin missing

\* The end of a run: settle the record and save it.
Finish(a, step, failed) ==
  /\ Saved([mem EXCEPT !.acc[a].step = step, !.acc[a].err = failed])
  /\ boot' = [boot EXCEPT ![a] = Idle]
  /\ UNCHANGED <<resume, reg, world, past, flight, done>>

\* MUTANT of Setup: the validator is installed first, on its own.
SetupModules(a, lacks) == Needed(a)

\* What the setup transaction does: everything that is missing, atomically.
Setup(a, lacks) == Needed(a) \cup (IF lacks THEN {"cred"} ELSE {})

ReadCredential(a) ==
  /\ At(a, "cred") /\ UNCHANGED faults
  /\ \E w \in Views :
       LET lacks == Lacks(a, w) IN
       \/ Needed(a) = {} /\ ~lacks /\ Finish(a, "active", FALSE)
       \/ Conflict(Needed(a), lacks) /\ Finish(a, "conflict", TRUE)
       \/ /\ ~Conflict(Needed(a), lacks)
          /\ lacks \/ Needed(a) # {}
          /\ boot' = [boot EXCEPT ![a].at = "setup", ![a].want = Setup(a, lacks)]
          /\ UNCHANGED <<mem, disk, resume, reg, world, past, flight, done>>

Tx(a, kind, ops) == [a |-> a, kind |-> kind, ops |-> ops, c |-> Rec(a).cred, id |-> Sent + 1]

\* sendAsAccount(upload), sendAsSponsorFor(setup): sent, then wait for the block.
SendUpload(a) ==
  /\ At(a, "upload")
  /\ flight' = flight \cup {Tx(a, "upload", {})}
  /\ boot' = [boot EXCEPT ![a].at = "uploading", ![a].id = Sent + 1]
  /\ UNCHANGED <<mem, disk, resume, reg, world, past, done, faults>>

SendSetup(a) ==
  /\ At(a, "setup")
  /\ flight' = flight \cup {Tx(a, "setup", boot[a].want)}
  /\ boot' = [boot EXCEPT ![a].at = "setting", ![a].id = Sent + 1]
  /\ UNCHANGED <<mem, disk, resume, reg, world, past, done, faults>>

Result(a) == IF boot[a].id \in DOMAIN done THEN done[boot[a].id] ELSE "unknown"

\* The upload was mined, or its answer was lost: the chain is read again.
Uploaded(a) ==
  /\ At(a, "uploading") /\ Stage(a, "again")
  /\ \/ Result(a) = "ok" /\ UNCHANGED faults
     \/ Result(a) # "reverted" /\ Fault
  /\ UNCHANGED <<mem, disk, resume, reg, world, past, flight, done>>

SetupDone(a) ==
  /\ At(a, "setting") /\ Result(a) = "ok" /\ Finish(a, "active", FALSE) /\ UNCHANGED faults

\* An attempt that failed for certain is tried again, three times in all.
NextTry(a) ==
  IF boot[a].try < 3
  THEN /\ boot' = [boot EXCEPT ![a].at = "setup", ![a].try = @ + 1]
       /\ UNCHANGED <<mem, disk, resume, reg, world, past, flight, done>>
  ELSE Finish(a, Rec(a).step, TRUE)

SetupReverted(a) == At(a, "setting") /\ Result(a) = "reverted" /\ NextTry(a) /\ UNCHANGED faults

\* No answer in time: ask the chain whether the validator is there.
SetupUnclear(a) ==
  /\ At(a, "setting") /\ Fault /\ Stage(a, "recheck")
  /\ UNCHANGED <<mem, disk, resume, reg, world, past, flight, done>>

\* MUTANT of Settled: a setup without an answer counts as done.
SettledAnyway(a, w) == TRUE

Settled(a, w) == a \in w.up /\ "val" \in w.inst[a]

Recheck(a) ==
  /\ At(a, "recheck") /\ UNCHANGED faults
  /\ \E w \in Views : \/ Settled(a, w) /\ Finish(a, "active", FALSE)
                      \/ ~Settled(a, w) /\ NextTry(a)

\* A read or a send fails, or the contract did not appear: the run ends.
RunFails(a) ==
  /\ \/ boot[a].at \in {"mods", "upload", "again", "cred", "recheck"} /\ Fault
     \/ At(a, "uploading") /\ Result(a) = "reverted" /\ UNCHANGED faults
     \/ At(a, "again") /\ (\E w \in Views : a \notin w.up) /\ UNCHANGED faults
  /\ Finish(a, Rec(a).step, TRUE)

Run(a) == ReadModules(a) \/ ReadCredential(a) \/ SendUpload(a) \/ SendSetup(a) \/ Uploaded(a)
          \/ SetupDone(a) \/ SetupReverted(a) \/ SetupUnclear(a) \/ Recheck(a) \/ RunFails(a)

-----------------------------------------------------------------------------
(* A backup passkey or a recovery kit: a credential made for this account. *)

PrepareRegister(a, c) ==
  /\ Rec(a).step = "active" /\ Ready(a)
  /\ c \notin Rec(a).creds /\ mem.by[c] = None /\ world.index[c] \in {None, a}
  /\ reg[c].at = "none" /\ reg[c].a \in {None, a}
  /\ reg' = [reg EXCEPT ![c] = [at |-> "prepared", a |-> a, id |-> 0]]
  /\ UNCHANGED <<mem, disk, boot, resume, world, past, flight, done, faults>>

Submit(c) ==
  /\ reg[c].at = "prepared"
  /\ reg' = [reg EXCEPT ![c].at = "sent", ![c].id = Sent + 1]
  /\ flight' = flight \cup {[a |-> reg[c].a, kind |-> "register", ops |-> {"cred"},
                             c |-> c, id |-> Sent + 1]}
  /\ UNCHANGED <<mem, disk, boot, resume, world, past, done, faults>>

Mirrored(c) == reg[c].id \in DOMAIN done /\ done[reg[c].id] = "ok"

\* addCredential(), once the registration is in a block.
Mirror(c) ==
  /\ reg[c].at = "sent" /\ Mirrored(c)
  /\ Saved([mem EXCEPT !.acc[reg[c].a].creds = @ \cup {c}, !.by[c] = reg[c].a])
  /\ reg' = [reg EXCEPT ![c].at = "none"]
  /\ UNCHANGED <<boot, resume, world, past, flight, done, faults>>

\* The call ends with an error: refused, reverted or not seen in time.
RegisterFails(c) ==
  /\ reg[c].at # "none" /\ Fault
  /\ reg' = [reg EXCEPT ![c].at = "none"]
  /\ UNCHANGED <<mem, disk, boot, resume, world, past, flight, done>>

-----------------------------------------------------------------------------
(* The chain: the account contract grants calls until a validator governs. *)

Authorized(t) ==
  CASE t.kind = "upload"   -> "val" \notin world.inst[t.a]
    [] t.kind = "setup"    -> t.a \in world.up /\ "val" \notin world.inst[t.a]
    [] t.kind = "register" -> "val" \in world.inst[t.a]

Effect(t) ==
  [up    |-> world.up \cup (IF t.kind = "upload" THEN {t.a} ELSE {}),
   inst  |-> [world.inst EXCEPT ![t.a] = @ \cup (t.ops \cap Modules)],
   index |-> IF "cred" \in t.ops THEN [world.index EXCEPT ![t.c] = t.a] ELSE world.index]

Land(t) ==
  /\ flight' = flight \ {t}
  /\ IF Authorized(t)
     THEN /\ world' = Effect(t)
          /\ done' = [i \in DOMAIN done \cup {t.id} |-> IF i = t.id THEN "ok" ELSE done[i]]
     ELSE /\ world' = world
          /\ done' = [i \in DOMAIN done \cup {t.id} |-> IF i = t.id THEN "reverted" ELSE done[i]]
  /\ past' = IF Lag THEN world ELSE past
  /\ UNCHANGED <<mem, disk, boot, resume, reg, faults>>

(* Restart, and reconcile(). *)

Crash ==
  /\ Fault
  /\ mem' = disk /\ boot' = [a \in Addresses |-> Idle]
  /\ reg' = [c \in Credentials |-> [reg[c] EXCEPT !.at = "none"]]
  /\ resume' = {a \in Addresses : disk.acc[a].key /\ disk.acc[a].step # "conflict"}
  /\ UNCHANGED <<disk, world, past, flight, done>>

\* A pending record is bootstrapped; an active one is checked, and repaired.
Reconcile(a) ==
  /\ a \in resume /\ resume' = resume \ {a}
  /\ \/ Rec(a).step # "active" /\ StartRun(a) /\ UNCHANGED <<mem, disk>>
     \/ Rec(a).step = "active" /\ Ready(a) /\ UNCHANGED <<mem, disk, boot>>
     \/ /\ Rec(a).step = "active" /\ ~Ready(a)
        /\ Saved([mem EXCEPT !.acc[a].step = "pending", !.acc[a].err = FALSE])
        /\ boot' = IF Running(a) THEN boot ELSE [boot EXCEPT ![a] = [Idle EXCEPT !.at = "mods"]]
  /\ UNCHANGED <<reg, world, past, flight, done, faults>>

-----------------------------------------------------------------------------
Next ==
  \/ \E a \in Addresses : Run(a) \/ EnsureReady(a) \/ Reconcile(a)
  \/ \E c \in Credentials : CreateAgain(c) \/ WhoAmI(c) \/ Submit(c) \/ Mirror(c) \/ RegisterFails(c)
  \/ \E a \in Addresses, c \in Credentials : Create(c, a) \/ PrepareRegister(a, c)
  \/ \E t \in flight : Land(t)
  \/ Crash

Spec == Init /\ [][Next]_vars

\* The chain includes what it was sent, a run goes on, and a booted process gets
\* to every account.  Nobody has to call the API again.
Fairness == /\ WF_vars(\E t \in flight : Land(t))
            /\ \A a \in Addresses : WF_vars(Run(a)) /\ WF_vars(Reconcile(a))
FairSpec == Spec /\ Fairness

-----------------------------------------------------------------------------
TypeOK ==
  /\ \A s \in {mem, disk} :
       \A a \in Addresses : s.acc[a].step \in {"pending", "active", "conflict"}
  /\ \A a \in Addresses : boot[a].want \subseteq Modules \cup {"cred"} /\ boot[a].try \in 1..3
  /\ {t.id : t \in flight} \cup DOMAIN done = 1..Sent
  /\ \A c \in Credentials : mem.by[c] # None => c \in Rec(mem.by[c]).creds

\* The only key that can finish an account is on disk as long as the account is, or
\* may come to be, on the chain without its validator (veive.js:15-18).
KeyKept ==
  \A a \in Addresses :
    (a \in world.up \/ \E t \in flight : t.a = a) /\ "val" \notin world.inst[a]
      => disk.acc[a].key

\* Whatever attempts crashed, overlapped or raced a late transaction: an account
\* that answers to the validator has a registered passkey, else nobody could ever
\* use it (chain.js:584-590).
GovernedByPasskey ==
  \A a \in Addresses : "val" \in world.inst[a]
    => /\ "sign" \in world.inst[a]
       /\ \E c \in Credentials : world.index[c] = a

\* "active" means that the wallet can sign: contract, modules and passkey are there,
\* and every other credential the store shows is registered too.
ActiveIsLive ==
  \A a \in Addresses : Rec(a).known /\ Rec(a).step = "active"
    => /\ a \in world.up /\ Modules \subseteq world.inst[a]
       /\ \A c \in Rec(a).creds : world.index[c] = a

\* "This account answers to a different passkey" (public/js/app.js:175) is only said of
\* an account that does; "normal bootstraps never hit this" (chain.js:610-612).
ConflictIsReal ==
  \A a \in Addresses : Rec(a).step = "conflict" => world.index[Rec(a).cred] # a

\* From whatever earlier attempts left behind, a run that meets no further failure
\* and no late transaction completes the account (chain.js:584-587).
Heals ==
  \A a \in Addresses :
    faults = MaxFaults /\ flight = {} /\ At(a, "mods")
      ~> Rec(a).step = "active"

\* "Setup hit a snag - retrying" (public/js/app.js:176).
SnagIsRetried ==
  \A a \in Addresses :
    Rec(a).known /\ Rec(a).step = "pending" /\ Rec(a).err ~> Rec(a).step # "pending" \/ ~Rec(a).err

=============================================================================
