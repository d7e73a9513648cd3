-------------------------------- MODULE Sends --------------------------------
(***************************************************************************)
(* What a person sends from the wallet: a form of the page (public/js/      *)
(* app.js), the server that prepares a transaction for it and submits the   *)
(* signed one (server.js, tools/vault-token-sends.js), the queue through    *)
(* which a process sends to Koinos, and the wait for the receipt            *)
(* (tools/chain.js).  KOIN and VHP transfers and new credentials go to the  *)
(* account backend, added tokens to the Vault host; another process may     *)
(* stand between and lose the answer (tools/wallet-backend.js,              *)
(* wallet-worker.js).                                                       *)
(***************************************************************************)
EXTENDS Integers, Sequences, FiniteSets, SequencesExt, FiniteSetsExt

CONSTANTS
  Forms,      \* what people mean to do, each once
  AccountOf,  \* [Forms -> account]
  HostOf,     \* [Forms -> "backend" or "vault"]
  Credentials,\* the forms that register a credential; the others send a token
  MaxTries,   \* bound: [Forms -> times it is sent off]
  MaxFaults   \* bound: faults, of all kinds together

ASSUME Shape == /\ Credentials \subseteq {f \in Forms : HostOf[f] = "backend"}
                /\ MaxFaults \in Nat /\ MaxTries \in [Forms -> Nat]

Hosts == {"backend", "vault"}

VARIABLES
  ui,      \* [Forms -> [at, try]]
  told,    \* [tx, said]: the answers people got
  known,   \* transactions a host prepared and holds for a signature
  work,    \* [tx, at]: the handlers of /submit
  line,    \* [Hosts -> transactions]: the queue of each host, the first being sent
  held,    \* the forms whose credential the account store lists
  pool,    \* transactions waiting to be included
  blocks,  \* [tx, ok, canonical]: where transactions were included
  recalled,\* ghost: transactions whose block was taken back after it had been relied on
  faults   \* how many faults there were

server == <<known, work, line, held>>
koinos == <<pool, blocks, recalled>>
vars == <<ui, told, server, koinos, faults>>

Init ==
  /\ ui = [f \in Forms |-> [at |-> "filled", try |-> 0]]
  /\ told = {} /\ known = {} /\ work = {} /\ held = {}
  /\ line = [h \in Hosts |-> << >>]
  /\ pool = {} /\ blocks = {} /\ recalled = {} /\ faults = 0

Fault == faults < MaxFaults /\ faults' = faults + 1
NoFault == UNCHANGED faults

Account(t) == AccountOf[t.form]
Host(t) == HostOf[t.form]
Mined == {b \in blocks : b.canonical}
Landed == {b.tx : b \in {c \in Mined : c.ok}}

-----------------------------------------------------------------------------
(* Koinos (external). *)

Used(a) == Cardinality({b \in Mined : Account(b.tx) = a})
Pending(a) == Cardinality({t \in pool : Account(t) = a /\ t.nonce > Used(a)})

IsNext(t) == t.nonce = Used(Account(t)) + 1

\* A block takes the next transaction of an account; others with its nonce cannot be
\* included while it stands.
Mine(t) ==
  /\ t \in pool /\ IsNext(t) /\ pool' = pool \ {t}
  /\ \/ NoFault /\ blocks' = blocks \cup {[tx |-> t, ok |-> TRUE, canonical |-> TRUE]}
     \/ Fault /\ blocks' = blocks \cup {[tx |-> t, ok |-> FALSE, canonical |-> TRUE]}
  /\ UNCHANGED <<ui, told, server, recalled>>

\* Somebody was told the verdict of this block, or the store lists its credential.
Relied(b) == \/ b.ok /\ b.tx.form \in held
             \/ \E a \in told : a.tx = b.tx /\ a.said \in {"sent", "failed"}

\* Another fork wins: the block of an account's last transaction is one of an abandoned
\* fork from now on, which the nodes keep, and the transaction waits again or is
\* forgotten.  Deeper reorganisations are several of these.
Reorg(b) ==
  /\ b \in Mined /\ b.tx.nonce = Used(Account(b.tx)) /\ Fault
  /\ blocks' = (blocks \ {b}) \cup {[b EXCEPT !.canonical = FALSE]}
  /\ pool' \in {pool, pool \cup {b.tx}}
  /\ recalled' = IF Relied(b) THEN recalled \cup {b.tx} ELSE recalled
  /\ UNCHANGED <<ui, told, server>>

Evict(t) ==
  /\ t \in pool /\ Fault /\ pool' = pool \ {t} /\ UNCHANGED <<ui, told, server, blocks, recalled>>

-----------------------------------------------------------------------------
(* The page. *)

Say(f, at) == ui' = [ui EXCEPT ![f].at = at]

\* After a success or a pending confirmation the form is cleared; after any other
\* answer it is still filled in and is sent off again.
Shows(said) == IF said \in {"sent", "pending"} THEN "cleared" ELSE "filled"

\* The nonce is the last thing prepare() reads; a node may count what is pending.
Nonces(a) == {Used(a) + 1, Used(a) + Pending(a) + 1}

Prepares(f) ==
  /\ ui[f].at = "filled" /\ ui[f].try < MaxTries[f]
  /\ \E n \in Nonces(AccountOf[f]) :
       known' = known \cup {[form |-> f, try |-> ui[f].try + 1, nonce |-> n]}
  /\ ui' = [ui EXCEPT ![f] = [at |-> "signing", try |-> @.try + 1]]
  /\ UNCHANGED <<told, work, line, held, koinos>> /\ NoFault

PrepareSend(f) == HostOf[f] = "backend" /\ f \notin Credentials /\ Prepares(f)
PrepareToken(f) == HostOf[f] = "vault" /\ Prepares(f)
\* A credential that the store lists is not registered again.
PrepareRegister(f) == f \in Credentials \ held /\ Prepares(f)

Current(f, t) == t.form = f /\ t.try = ui[f].try

\* Ten minutes; or the restart of the process.
Expire(t) ==
  /\ t \in known /\ Fault /\ known' = known \ {t}
  /\ UNCHANGED <<ui, told, work, line, held, koinos>>

\* submit() forgets the prepared transaction before anything else.
Submit(f) ==
  /\ ui[f].at = "signing" /\ Say(f, "submitting")
  /\ \E t \in known : /\ Current(f, t) /\ known' = known \ {t}
                      /\ work' = work \cup {[tx |-> t, at |-> "checking"]}
  /\ UNCHANGED <<told, line, held, koinos>> /\ NoFault

\* The prompt is closed, what was prepared is not what the page shows (another asset,
\* other decimals), or it has expired: the page has nothing to send.
Declines(f) ==
  /\ ui[f].at = "signing" /\ Say(f, "filled")
  /\ known' = {t \in known : ~Current(f, t)}
  /\ UNCHANGED <<told, work, line, held, koinos>> /\ NoFault

\* The process between the page and the handler gives up after 20 or 65 seconds, the
\* page is closed or the connection breaks; the handler goes on.
LosesAnswer(f) ==
  /\ ui[f].at = "submitting" /\ Fault /\ Say(f, "filled")
  /\ \E w \in work : Current(f, w.tx) /\ told' = told \cup {[tx |-> w.tx, said |-> "lost"]}
  /\ UNCHANGED <<server, koinos>>

-----------------------------------------------------------------------------
(* The handler of /submit. *)

\* MUTANT of Leaves: what failed stays in front of the queue.
LeavesIfDone(t, said) ==
  IF said = "failed" THEN line[Host(t)] ELSE SelectSeq(line[Host(t)], LAMBDA u : u # t)

\* queueTx() goes on to the next transaction whatever became of the one before it.
Leaves(t, said) == SelectSeq(line[Host(t)], LAMBDA u : u # t)

Answer(w, said) ==
  LET f == w.tx.form
  IN  /\ work' = work \ {w}
      /\ line' = [line EXCEPT ![Host(w.tx)] = Leaves(w.tx, said)]
      /\ held' = IF said = "sent" /\ f \in Credentials THEN held \cup {f} ELSE held
      /\ IF ui[f].at = "submitting" /\ Current(f, w.tx)
         THEN Say(f, Shows(said)) /\ told' = told \cup {[tx |-> w.tx, said |-> said]}
         ELSE UNCHANGED <<ui, told>>

Goes(w, at) == work' = (work \ {w}) \cup {[w EXCEPT !.at = at]} /\ UNCHANGED <<ui, told, held>>

\* The sign module accepts the passkey: the transaction joins the queue.
Checks(w) ==
  /\ w.at = "checking" /\ NoFault /\ Goes(w, "queued")
  /\ line' = [line EXCEPT ![Host(w.tx)] = Append(@, w.tx)]
  /\ UNCHANGED <<known, koinos>>

\* Header, operations, signature, the sign module or the validator's threshold say no.
Rejects(w) ==
  /\ w.at = "checking" /\ Fault /\ Answer(w, "failed") /\ UNCHANGED <<known, koinos>>

\* A node takes only an account's next nonces.
Takes(t) == t.nonce \in Used(Account(t)) + 1 .. Used(Account(t)) + Pending(Account(t)) + 1

\* MUTANT of Reply: a reply that says nothing counts as a refusal.
ReplyStrict(w, said) ==
  IF said = "taken" THEN Goes(w, "waits") /\ UNCHANGED line ELSE Answer(w, "failed")

\* sendTolerant(): a timeout or an unreadable reply leaves the outcome to the receipt; a
\* node that took the transaction and foretells that it reverts is believed.
Reply(w, said) ==
  \/ said = "refused" /\ Answer(w, "failed")
  \/ said = "foretold" /\ Answer(w, "foretold")
  \/ said \in {"taken", "noise"} /\ Goes(w, "waits") /\ UNCHANGED line

\* One attempt at one node: a write is never tried again on another.
Send(w) ==
  /\ w.at = "queued" /\ Head(line[Host(w.tx)]) = w.tx
  /\ \/ Takes(w.tx) /\ pool' = pool \cup {w.tx} /\ NoFault /\ Reply(w, "taken")
     \/ Takes(w.tx) /\ pool' = pool \cup {w.tx} /\ Fault /\ Reply(w, "foretold")
     \/ Takes(w.tx) /\ pool' = pool \cup {w.tx} /\ Fault /\ Reply(w, "noise")
     \/ ~Takes(w.tx) /\ UNCHANGED pool /\ NoFault /\ Reply(w, "refused")
     \/ ~Takes(w.tx) /\ UNCHANGED pool /\ Fault /\ Reply(w, "noise")
  /\ UNCHANGED <<known, blocks, recalled>>

\* A node refuses for a reason of its own: no mana, an authority check.
Refuses(w) ==
  /\ w.at = "queued" /\ Head(line[Host(w.tx)]) = w.tx /\ Fault
  /\ Reply(w, "refused") /\ UNCHANGED <<known, koinos>>

\* MUTANT of Receipt: any block that holds the transaction will do.
ReceiptAnyBlock(t) == {b.ok : b \in {c \in blocks : c.tx = t}}

\* waitMined(): the verdict of the block on the current chain.
Receipt(t) == {b.ok : b \in {c \in blocks : c.tx = t /\ c.canonical}}

Polls(w) ==
  /\ w.at = "waits" /\ NoFault
  /\ \E ok \in Receipt(w.tx) : Answer(w, IF ok THEN "sent" ELSE "failed")
  /\ UNCHANGED <<known, koinos>>

\* Ninety seconds without a receipt, for a transaction that may still come or not.
TimesOut(w) ==
  /\ w.at = "waits"
  /\ IF Receipt(w.tx) # {} \/ (w.tx \in pool /\ IsNext(w.tx)) THEN Fault ELSE NoFault
  /\ Answer(w, "pending")
  /\ UNCHANGED <<known, koinos>>

\* A host restarts: what it held in memory is gone, and so are its connections.
Crash(h) ==
  /\ Fault
  /\ known' = {t \in known : Host(t) # h} /\ work' = {w \in work : Host(w.tx) # h}
  /\ line' = [line EXCEPT ![h] = << >>]
  /\ told' = told \cup {[tx |-> w.tx, said |-> "lost"] :
                          w \in {v \in work : Host(v.tx) = h /\ Current(v.tx.form, v.tx)
                                              /\ ui[v.tx.form].at = "submitting"}}
  /\ ui' = [f \in Forms |-> IF HostOf[f] = h /\ ui[f].at = "submitting"
                            THEN [ui[f] EXCEPT !.at = "filled"] ELSE ui[f]]
  /\ UNCHANGED <<held, koinos>>

\* whoami(): a sign-in with a credential the store does not list asks the chain.
SignsIn(f) ==
  /\ f \in Credentials \ held /\ f \in {t.form : t \in Landed}
  /\ held' = held \cup {f} /\ UNCHANGED <<ui, told, known, work, line, koinos>> /\ NoFault

-----------------------------------------------------------------------------

Next ==
  \/ \E f \in Forms : PrepareSend(f) \/ PrepareToken(f) \/ PrepareRegister(f)
                     \/ Submit(f) \/ Declines(f) \/ LosesAnswer(f) \/ SignsIn(f)
  \/ \E t \in known : Expire(t)
  \/ \E t \in pool : Mine(t) \/ Evict(t)
  \/ \E b \in blocks : Reorg(b)
  \/ \E w \in work : Checks(w) \/ Rejects(w) \/ Send(w) \/ Refuses(w) \/ Polls(w) \/ TimesOut(w)
  \/ \E h \in Hosts : Crash(h)

Spec == Init /\ [][Next]_vars

\* A handler goes on to its end, and a block comes for what can be included.
Fairness ==
  /\ \A f \in Forms : WF_vars(\E w \in work : w.tx.form = f /\ NoFault
                                 /\ (Checks(w) \/ Send(w) \/ Polls(w) \/ TimesOut(w)))
  /\ WF_vars(\E t \in pool : Mine(t) /\ NoFault)

FairSpec == Spec /\ Fairness

-----------------------------------------------------------------------------
(* Properties. *)

TypeOK ==
  /\ ui \in [Forms -> [at : {"filled", "signing", "submitting", "cleared"}, try : Nat]]
  /\ \A w \in work : w.at \in {"checking", "queued", "waits"}
  /\ \A h \in Hosts : Range(line[h]) = {w.tx : w \in {v \in work : Host(v.tx) = h /\ v.at # "checking"}}
  /\ held \subseteq Credentials

\* What people are told is so: "sent" is in a block of the chain and did not revert,
\* "failed" never moves anything later, and a credential the store lists is registered;
\* until the chain itself takes back the block that the answer was read from.  An answer
\* from a node that only foretells a revert is not promised anything (README, findings).
AnswersAreTrue ==
  /\ \A a \in told : /\ a.said = "sent" => a.tx \in Landed \cup recalled
                     /\ a.said = "failed" => a.tx \notin (pool \cup Landed) \ recalled
  /\ held \subseteq {t.form : t \in Landed \cup recalled}

\* An answer after which the form may be sent off again although the transaction may
\* still land: it was lost, it was a node's forecast, or its block was taken back.
Open(a) == \/ a.said \in {"lost", "foretold"}
           \/ a.said = "failed" /\ a.tx \in recalled

\* A form somebody sends off again after a failure pays once, whatever the nodes lose,
\* forget or leave unanswered, and though forks were tried before an answer was given;
\* only the answers named above make it pay twice.
PaidOnce ==
  \A f \in Forms :
    \/ Cardinality({t \in Landed : t.form = f}) <= 1
    \/ \E a \in told : a.tx.form = f /\ Open(a)

\* The same with no exception: what MCSendsForecast.cfg shows not to hold.
AnswersStand ==
  \A a \in told : /\ a.said = "sent" => a.tx \in Landed
                  /\ a.said \in {"failed", "foretold"} => a.tx \notin pool \cup Landed

\* Everybody is answered: no send waits forever behind one that fails or never lands.
Answered == \A f \in Forms : ui[f].at = "submitting" ~> ui[f].at # "submitting"
=============================================================================
