----------------------------- MODULE WalletWorker -----------------------------
(***************************************************************************)
(* Which process of a deployment writes the wallet's files: the election    *)
(* listener and request forwarding of tools/wallet-worker.js, the lock file *)
(* of tools/funding.js:171-234, process identity, and the start of          *)
(* server.js.                                                               *)
(*                                                                          *)
(* lockDataDirectory() is synchronous in its process, but every file-system *)
(* call is a step of its own for the others.  A process may be killed at    *)
(* any step; its pid and the inode of a removed file may be used again.     *)
(***************************************************************************)
EXTENDS Naturals, FiniteSets

CONSTANTS
  Processes,   \* the hosting processes of one data directory
  Pids,        \* process ids the system hands out
  Inodes,      \* inode numbers of the lock file
  Requests,    \* API requests
  MaxStarts    \* bound: processes started, restarts included

ASSUME Bounds == /\ MaxStarts \in Nat /\ "job" \notin Requests /\ Pids \subseteq Nat \ {0}
                 /\ Cardinality(Pids) >= Cardinality(Processes)

VARIABLES
  unix,      \* processes that can use the abstract socket; the others use TCP
  at,        \* where a process is in step() and lockDataDirectory()
  pid, born, \* its process id and start time (process-identity.js)
  saw,       \* the lock file as it saw it: [ino, pid]
  legacy,    \* legacyForward: it relays to the TCP listener meanwhile
  mem,       \* its copy of the ledger, loaded when it initialises
  listener,  \* who is bound to each private endpoint
  lock,      \* funding-worker.lock: none, or [ino, pid]; pid 0 is not written yet
  record,    \* funding-worker.lock.owner.json: none, or [pid, born]
  disk,      \* the ledger on disk: whose effects it holds
  starts,    \* processes started so far
  stolen,    \* ghost: a lock was removed while its owner was alive
  req        \* each request: [at, via, path, runs, answer]: where it is and which process
             \* has it, all it came through, what it did, what its sender was told

process == <<at, pid, born, saw, legacy, mem>>
files == <<lock, record, disk>>
vars == <<unix, process, listener, files, starts, stolen, req>>

Locking == {"open", "write", "identify", "stat", "read", "judge", "check", "unlink"}
Endpoint(p) == IF p \in unix THEN "unix" ELSE "tcp"
Up(p) == at[p] # "off"
Writer(p) == at[p] \in {"alias", "active"}
Writers == {p \in Processes : Writer(p)}
IsOwner(p) == p \in listener[Endpoint(p)] /\ ~legacy[p]

Nothing == [ino |-> 0, pid |-> 0]

Init ==
  /\ unix \in SUBSET Processes
  /\ at = [p \in Processes |-> "off"]
  /\ pid = [p \in Processes |-> 0] /\ born = [p \in Processes |-> 0]
  /\ saw = [p \in Processes |-> Nothing]
  /\ legacy = [p \in Processes |-> FALSE]
  /\ mem = [p \in Processes |-> {}]
  /\ listener = [e \in {"unix", "tcp"} |-> {}]
  /\ lock = {} /\ record = {} /\ disk = {}
  /\ starts = 0 /\ stolen = FALSE
  /\ req = [r \in Requests |->
              [at |-> "new", via |-> {}, path |-> {}, runs |-> 0, answer |-> "none"]]

Go(p, where) == at' = [at EXCEPT ![p] = where]

-----------------------------------------------------------------------------
(* Election. *)

Start(p) ==
  /\ at[p] = "off" /\ starts < MaxStarts
  /\ \E n \in Pids : /\ \A q \in Processes : Up(q) => pid[q] # n
                     /\ pid' = [pid EXCEPT ![p] = n]
  /\ Go(p, "standby")
  /\ starts' = starts + 1 /\ born' = [born EXCEPT ![p] = starts + 1]
  /\ UNCHANGED <<unix, saw, legacy, mem, listener, files, stolen, req>>

\* MUTANT of Elect: an occupied listener is taken for a crashed owner's.
ElectAnyway(p) ==
  /\ at[p] = "standby"
  /\ listener' = [listener EXCEPT ![Endpoint(p)] = {p}]
  /\ Go(p, "open")
  /\ UNCHANGED <<unix, pid, born, saw, legacy, mem, files, starts, stolen, req>>

\* The private endpoint was free: initialize() begins.
Elect(p) ==
  /\ at[p] = "standby" /\ listener[Endpoint(p)] = {}
  /\ listener' = [listener EXCEPT ![Endpoint(p)] = {p}]
  /\ Go(p, "open")
  /\ UNCHANGED <<unix, pid, born, saw, legacy, mem, files, starts, stolen, req>>

\* A second later initialize() is tried again.
Retry(p) ==
  /\ at[p] = "waiting" /\ Go(p, "open")
  /\ UNCHANGED <<unix, pid, born, saw, legacy, mem, listener, files, starts, stolen, req>>

\* The TCP alias for processes of the previous release, if nothing else is there.
Alias(p) ==
  /\ at[p] = "alias" /\ Go(p, "active")
  /\ listener' = IF p \in unix /\ listener["tcp"] = {}
                 THEN [listener EXCEPT !["tcp"] = {p}] ELSE listener
  /\ UNCHANGED <<unix, pid, born, saw, legacy, mem, files, starts, stolen, req>>

-----------------------------------------------------------------------------
(* lockDataDirectory(), one file-system call at a time. *)

\* FUNDING_WORKER_BUSY: keep the listener, relay to a ready TCP owner if any.
Busy(p) ==
  /\ Go(p, "waiting") /\ saw' = [saw EXCEPT ![p] = Nothing]
  /\ legacy' = [legacy EXCEPT ![p] = p \in unix /\ \E q \in listener["tcp"] : Writer(q)]

\* The inode of a file that a process still has open is not free.
FreeInodes == Inodes \ {saw[q].ino : q \in {r \in Processes : at[r] = "write"}}

CanCreate(p) == lock = {}

Open(p) ==
  /\ at[p] = "open"
  /\ \/ /\ CanCreate(p)
        /\ \E i \in FreeInodes : /\ lock' = {[ino |-> i, pid |-> 0]}
                                 /\ saw' = [saw EXCEPT ![p] = [ino |-> i, pid |-> 0]]
        /\ Go(p, "write")
     \/ ~CanCreate(p) /\ Go(p, "stat") /\ UNCHANGED <<lock, saw>>
  /\ UNCHANGED <<unix, pid, born, legacy, mem, listener, record, disk, starts, stolen, req>>

Write(p) ==
  /\ at[p] = "write" /\ Go(p, "identify")
  /\ lock' = {IF l.ino = saw[p].ino THEN [l EXCEPT !.pid = pid[p]] ELSE l : l \in lock}
  /\ UNCHANGED <<unix, pid, born, saw, legacy, mem, listener, record, disk, starts, stolen, req>>

\* MUTANT of Loaded: what the process has in memory is still good.
LoadedBefore(p) == mem[p]

\* What configure() loads once it has the lock.
Loaded(p) == disk

\* The owner record replaces the old one; then the ledger is loaded.
Identify(p) ==
  /\ at[p] = "identify" /\ Go(p, "alias")
  /\ record' = {[pid |-> pid[p], born |-> born[p]]}
  /\ mem' = [mem EXCEPT ![p] = Loaded(p)]
  /\ legacy' = [legacy EXCEPT ![p] = FALSE] /\ saw' = [saw EXCEPT ![p] = Nothing]
  /\ UNCHANGED <<unix, pid, born, listener, lock, disk, starts, stolen, req>>

Stat(p) ==
  /\ at[p] = "stat"
  /\ \/ lock = {} /\ Busy(p)
     \/ \E l \in lock : saw' = [saw EXCEPT ![p] = [ino |-> l.ino, pid |-> 0]]
                        /\ Go(p, "read") /\ UNCHANGED legacy
  /\ UNCHANGED <<unix, pid, born, mem, listener, files, starts, stolen, req>>

Writing(i) == \E q \in Processes : at[q] = "write" /\ saw[q].ino = i

\* An empty file is being written, or was left so by a crash: then, half a minute
\* later, the start is given up for an operator.
Read(p) ==
  /\ at[p] = "read"
  /\ \/ lock = {} /\ Busy(p)
     \/ \E l \in lock :
          \/ l.pid # 0 /\ saw' = [saw EXCEPT ![p].pid = l.pid]
             /\ Go(p, "judge") /\ UNCHANGED legacy
          \/ l.pid = 0 /\ Busy(p)
          \/ l.pid = 0 /\ ~Writing(l.ino) /\ Go(p, "fatal") /\ UNCHANGED <<saw, legacy>>
  /\ UNCHANGED <<unix, pid, born, mem, listener, files, starts, stolen, req>>

\* MUTANT of Dead: only the process id is looked at.
DeadPid(n) == \A q \in Processes : ~Up(q) \/ pid[q] # n

\* No process has this id, or the one that has it is not the recorded owner.
Dead(n) ==
  \A q \in Processes :
    Up(q) /\ pid[q] = n => \E o \in record : o.pid = n /\ o.born # born[q]

Judge(p) ==
  /\ at[p] = "judge"
  /\ \/ Dead(saw[p].pid) /\ Go(p, "check") /\ UNCHANGED <<saw, legacy>>
     \/ ~Dead(saw[p].pid) /\ Busy(p)
  /\ UNCHANGED <<unix, pid, born, mem, listener, files, starts, stolen, req>>

Check(p) ==
  /\ at[p] = "check"
  /\ \/ \E l \in lock : l.ino = saw[p].ino /\ Go(p, "unlink") /\ UNCHANGED <<saw, legacy>>
     \/ (\A l \in lock : l.ino # saw[p].ino) /\ Busy(p)
  /\ UNCHANGED <<unix, pid, born, mem, listener, files, starts, stolen, req>>

Holders == {q \in Processes : at[q] \in {"write", "identify", "alias", "active"}}

Unlink(p) ==
  /\ at[p] = "unlink"
  /\ \/ lock = {} /\ Busy(p) /\ UNCHANGED <<lock, stolen>>
     \/ /\ lock # {} /\ lock' = {}
        /\ Go(p, "open") /\ saw' = [saw EXCEPT ![p] = Nothing] /\ UNCHANGED legacy
        /\ stolen' = (stolen \/ Holders # {})
  /\ UNCHANGED <<unix, pid, born, mem, listener, record, disk, starts, req>>

Lock(p) == \/ Open(p) \/ Write(p) \/ Identify(p) \/ Stat(p) \/ Read(p)
           \/ Judge(p) \/ Check(p) \/ Unlink(p)

-----------------------------------------------------------------------------
(* Processes that end. *)

Released(p) == [e \in DOMAIN listener |-> listener[e] \ {p}]

\* A sender that gave up earlier is told nothing any more.
Ended(q, a) == [q EXCEPT !.at = "done", !.via = {}, !.path = {},
                         !.answer = IF @ = "none" THEN a ELSE @]

\* A request ends with the process that has it; with any other on its way goes the
\* connection that its answer would have come back by.
Broken(q, p) ==
  IF p \in q.via THEN Ended(q, "lost")
  ELSE [q EXCEPT !.answer = IF p \in q.path /\ @ = "none" THEN "lost" ELSE @]

Gone(p) ==
  /\ Up(p) /\ starts < MaxStarts
  /\ Go(p, "off")
  /\ listener' = Released(p)
  /\ pid' = [pid EXCEPT ![p] = 0] /\ born' = [born EXCEPT ![p] = 0]
  /\ saw' = [saw EXCEPT ![p] = Nothing]
  /\ mem' = [mem EXCEPT ![p] = {}] /\ legacy' = [legacy EXCEPT ![p] = FALSE]
  /\ req' = [r \in Requests |-> Broken(req[r], p)]
  /\ UNCHANGED <<unix, disk, starts, stolen>>

Killed(p) == Gone(p) /\ UNCHANGED <<lock, record>>

\* The exit handler removes the lock that still carries the process's own id.
Exits(p) ==
  /\ Gone(p)
  /\ LET own == Writer(p) /\ \E l \in lock : l.pid = pid[p]
     IN IF own THEN lock' = {} /\ record' = {} ELSE UNCHANGED <<lock, record>>

-----------------------------------------------------------------------------
(* Requests. *)

\* The funding timer of a writer saves its jobs into its copy of the ledger.
Tick(p) ==
  /\ Writer(p)
  /\ mem' = [mem EXCEPT ![p] = @ \cup {"job"}]
  /\ disk' = mem'[p]
  /\ UNCHANGED <<unix, at, pid, born, saw, legacy, listener, lock, record, starts, stolen, req>>

Target(p) == IF legacy[p] THEN "tcp" ELSE Endpoint(p)

Answer(r, a) == req' = [req EXCEPT ![r] = Ended(@, a)]

\* The request is now with p.
With(q, at_, p) == [q EXCEPT !.at = at_, !.via = {p}, !.path = @ \cup {p}]
Passes(r, at_, p) == req' = [req EXCEPT ![r] = With(@, at_, p)]

\* The elected process begins to handle a request; while it starts it refuses it.
Handle(r, p) ==
  \/ Writer(p) /\ Passes(r, "handling", p)
  \/ ~Writer(p) /\ Answer(r, "starting")

Arrive(r, p) ==
  /\ req[r].at = "new" /\ Up(p) /\ at[p] # "fatal"
  /\ IF IsOwner(p) THEN Handle(r, p) ELSE Passes(r, "probe", p)
  /\ UNCHANGED <<unix, process, listener, files, starts, stolen>>

\* forward() authenticates the listener before it discloses the body.
Probe(r) ==
  /\ req[r].at = "probe"
  /\ \E p \in req[r].via :
       IF listener[Target(p)] # {}
       THEN req' = [req EXCEPT ![r].at = "send"]
       ELSE Answer(r, "unreachable")
  /\ UNCHANGED <<unix, process, listener, files, starts, stolen>>

\* The only attempt.  Whoever is bound to the endpoint by now handles it, or
\* relays it in its turn; or the connection fails.
Send(r) ==
  /\ req[r].at = "send"
  /\ \E p \in req[r].via :
       \/ \E q \in listener[Target(p)] :
            IF legacy[q] THEN Passes(r, "probe", q) ELSE Handle(r, q)
       \/ Answer(r, "lost")
  /\ UNCHANGED <<unix, process, listener, files, starts, stolen>>

\* A relay waits 65 seconds, a client as long as it likes: what was sent goes on.
GivesUp(r) ==
  /\ req[r].at \in {"probe", "send", "handling", "handled"} /\ req[r].answer = "none"
  /\ req' = [req EXCEPT ![r].answer = "lost"]
  /\ UNCHANGED <<unix, process, listener, files, starts, stolen>>

\* The handler has come through its awaits: its effect is saved.
Finishes(r) ==
  /\ req[r].at = "handling"
  /\ \E p \in req[r].via : /\ Writer(p) /\ mem' = [mem EXCEPT ![p] = @ \cup {r}]
                           /\ disk' = mem[p] \cup {r}
  /\ req' = [req EXCEPT ![r].at = "handled", ![r].runs = @ + 1]
  /\ UNCHANGED <<unix, at, pid, born, saw, legacy, listener, lock, record, starts, stolen>>

\* The reply comes back, or not: it is never asked for again.
Reply(r) ==
  /\ req[r].at = "handled"
  /\ \E a \in {"ok", "lost"} : Answer(r, a)
  /\ UNCHANGED <<unix, process, listener, files, starts, stolen>>

-----------------------------------------------------------------------------
Run(p) == Start(p) \/ Elect(p) \/ Retry(p) \/ Alias(p) \/ Lock(p)
Relay(r) == \/ \E p \in Processes : Arrive(r, p)
            \/ Probe(r) \/ Send(r) \/ GivesUp(r) \/ Finishes(r) \/ Reply(r)

Next ==
  \/ \E p \in Processes : Run(p) \/ Tick(p) \/ Killed(p) \/ Exits(p)
  \/ \E r \in Requests : Relay(r)

Spec == Init /\ [][Next]_vars

\* Hosting restarts its processes; timers and the operating system run them.
Fairness == \A p \in Processes :
  WF_vars(Start(p) \/ Retry(p) \/ Alias(p) \/ Lock(p)) /\ SF_vars(Elect(p))

FairSpec == Spec /\ Fairness

-----------------------------------------------------------------------------
(* Properties. *)

Places == {"off", "standby", "waiting", "alias", "active", "fatal"} \cup Locking
TypeOK ==
  /\ unix \subseteq Processes
  /\ at \in [Processes -> Places]
  /\ pid \in [Processes -> Pids \cup {0}] /\ born \in [Processes -> 0..MaxStarts]
  /\ saw \in [Processes -> [ino : Inodes \cup {0}, pid : Pids \cup {0}]]
  /\ legacy \in [Processes -> BOOLEAN] /\ mem \in [Processes -> SUBSET (Requests \cup {"job"})]
  /\ \A e \in DOMAIN listener : /\ listener[e] \subseteq {p \in Processes : Up(p)}
                                /\ Cardinality(listener[e]) <= 1
  /\ lock \subseteq [ino : Inodes, pid : Pids \cup {0}] /\ Cardinality(lock) <= 1
  /\ record \subseteq [pid : Pids, born : 1..MaxStarts] /\ Cardinality(record) <= 1
  /\ disk \subseteq Requests \cup {"job"} /\ starts \in 0..MaxStarts /\ stolen \in BOOLEAN
  /\ req \in [Requests -> [at : {"new", "probe", "send", "handling", "handled", "done"},
                           via : SUBSET Processes, path : SUBSET Processes, runs : Nat,
                           answer : {"none", "ok", "lost", "starting", "unreachable"}]]

\* One process at a time writes the wallet's files, through crashes, restarts,
\* reused process ids and a rolling change of transport, unless a live lock has
\* been removed (wallet-worker.js:7, funding.js:171).
OneWriter == stolen \/ Cardinality(Writers) <= 1

\* With one transport the election leaves nobody to remove a live lock: the window
\* between the inode check and the unlink of funding.js:204-205 is never shared.
ElectionGuardsLock == unix \in {{}, Processes} => ~stolen

Ledger == INSTANCE OneLedger WITH
  ledger <- [r \in Requests |-> IF r \in disk THEN req[r].runs ELSE 0],
  answer <- [r \in Requests |-> req[r].answer],
  split <- stolen

\* Seen from outside the processes are one ledger: nobody writes back a copy from
\* before, or handles a request again whose reply was lost, or refuses what was done
\* or will still be done; though an effect may come after its sender gave up
\* (wallet-worker.js:7-9, 219, 262, server.js:1350).
IsOneLedger == Ledger!Spec

\* The lock was left by a process killed before its owner record was complete.
Torn == \E l \in lock : /\ \A q \in Writers : pid[q] # l.pid
                        /\ \A o \in record : o.pid # l.pid

\* There is always a writer again, unless a lock was left half written: that one
\* waits for an operator, or for ever if its process id is in use.
WriterReturns == []<>(Writers # {} \/ Torn \/ \E p \in Processes : at[p] = "fatal")
=============================================================================
