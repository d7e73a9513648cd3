---------------------------- MODULE ServerProofs ----------------------------
(***************************************************************************)
(* Theorems about WalletWorker, for any processes, process ids, inodes and *)
(* requests: with one transport nobody removes a live lock; one process    *)
(* writes while no live lock was removed; and to a client all processes    *)
(* are the one ledger of OneLedger.  And about LegacyDriver, which runs in *)
(* the process elected: a transfer handed to the bridge is not lost.       *)
(***************************************************************************)
EXTENDS WalletWorker, LegacyDriver, FiniteSetTheorems, SequenceTheorems, TLAPS

Typed ==
  /\ at \in [Processes -> Places] /\ legacy \in [Processes -> BOOLEAN]
  /\ listener \in [{"unix", "tcp"} -> SUBSET Processes]
  /\ mem \in [Processes -> SUBSET (Requests \cup {"job"})]
  /\ disk \subseteq Requests \cup {"job"} /\ stolen \in BOOLEAN
  /\ req \in [Requests -> [at : {"new", "probe", "send", "handling", "handled", "done"},
                           via : SUBSET Processes, path : SUBSET Processes, runs : Nat,
                           answer : {"none", "ok", "lost", "starting", "unreachable"}]]

\* Only the process bound to its endpoint goes for the lock.
Elected ==
  /\ \A e \in {"unix", "tcp"} : \A p, q \in listener[e] : p = q
  /\ \A p \in Processes : at[p] \notin {"off", "standby"} => p \in listener[Endpoint(p)]

\* One process holds the lock, and as long as it does there is a lock file.
Locked == /\ \A p, q \in Holders : p = q
          /\ Holders # {} => lock # {}

\* The writer's copy is the ledger on disk.
Fresh == \A p \in Writers : mem[p] = disk

\* What has become of a request's effect, and what its sender knows of it.
Served ==
  \A r \in Requests :
    /\ req[r].at \in {"new", "probe", "send", "handling"} => req[r].runs = 0 /\ r \notin disk
    /\ req[r].at = "handled" => req[r].runs = 1 /\ r \in disk
    /\ req[r].at # "done" => req[r].answer \in {"none", "lost"}
    /\ req[r].answer = "ok" => r \in disk
    /\ req[r].answer \in {"starting", "unreachable"} => r \notin disk
    /\ r \in disk => req[r].runs = 1

WorkerInv == /\ Typed /\ Elected /\ ElectionGuardsLock
             /\ ~stolen => Locked /\ Fresh /\ Served

Past(p) == at[p] \notin {"off", "standby"}

-----------------------------------------------------------------------------
(* Frames: what is kept when the variables it speaks of are. *)

LEMMA EndpointName == \A p : Endpoint(p) \in {"unix", "tcp"}
  BY DEF Endpoint

LEMMA FreshKept ==
  ASSUME Fresh, UNCHANGED <<mem, disk>>, \A p \in Processes : Writer(p)' => Writer(p)
  PROVE  Fresh'
  BY DEF Fresh, Writers, Writer

LEMMA ServedKept == ASSUME Served, UNCHANGED <<disk, req>> PROVE Served'
  BY DEF Served

LEMMA GuardKept == ASSUME ElectionGuardsLock, UNCHANGED <<unix, stolen>> PROVE ElectionGuardsLock'
  BY DEF ElectionGuardsLock

LEMMA LockedKept ==
  ASSUME Locked, lock' = {} => lock = {}, Holders' \subseteq Holders
  PROVE  Locked'
  BY DEF Locked

\* A process that moves on between the lock and its next step keeps the election.
LEMMA ElectedMoves ==
  ASSUME Elected, at \in [Processes -> Places], NEW p \in Processes, NEW where, Past(p),
         Go(p, where), UNCHANGED <<unix, listener>>
  PROVE  Elected'
  BY DEF Elected, Go, Past, Endpoint

\* With one transport everyone past standby is the single listener of the endpoint.
LEMMA OnlyOnePast ==
  ASSUME Elected, unix \in {{}, Processes}, NEW p \in Processes, NEW q \in Processes,
         Past(p), Past(q)
  PROVE  p = q
<1>1. Endpoint(p) = Endpoint(q)
  BY DEF Endpoint
<1>2. p \in listener[Endpoint(p)] /\ q \in listener[Endpoint(p)]
  BY <1>1 DEF Elected, Past
<1> QED
  BY <1>2, EndpointName DEF Elected

-----------------------------------------------------------------------------
(* Election. *)

LEMMA InitHolds == Init => WorkerInv
<1> SUFFICES ASSUME Init PROVE WorkerInv
  OBVIOUS
<1>1. Typed
  BY DEF Init, Typed, Places
<1>2. Elected /\ ElectionGuardsLock
  BY DEF Init, Elected, ElectionGuardsLock
<1>3. Locked /\ Fresh /\ Served
  BY DEF Init, Locked, Holders, Fresh, Writers, Writer, Served
<1> QED
  BY <1>1, <1>2, <1>3 DEF WorkerInv

LEMMA StartKeeps ==
  ASSUME WorkerInv, NEW p \in Processes, Start(p) PROVE WorkerInv'
<1> USE DEF WorkerInv
<1>1. Typed'
  BY DEF Typed, Start, Go, Places, files
<1>2. Elected'
  BY DEF Typed, Elected, Start, Go, Endpoint
<1>3. ElectionGuardsLock'
  BY GuardKept DEF Start
<1>4. ASSUME ~stolen PROVE Locked' /\ Fresh' /\ Served'
  <2>1. Holders' \subseteq Holders /\ \A q \in Processes : Writer(q)' => Writer(q)
    BY DEF Typed, Holders, Writer, Start, Go
  <2> QED
    BY <1>4, <2>1, LockedKept, FreshKept, ServedKept DEF Start, files
<1> QED
  BY <1>1, <1>2, <1>3, <1>4 DEF Start

LEMMA ElectKeeps ==
  ASSUME WorkerInv, NEW p \in Processes, Elect(p) PROVE WorkerInv'
<1> USE DEF WorkerInv
<1>1. Typed'
  BY EndpointName DEF Typed, Elect, Go, Places, Locking, files
<1>2. Elected'
  <2>1. ASSUME NEW e \in {"unix", "tcp"}, NEW a \in listener'[e], NEW b \in listener'[e]
        PROVE  a = b
    BY <2>1, EndpointName DEF Typed, Elected, Elect
  <2>2. ASSUME NEW q \in Processes, at'[q] \notin {"off", "standby"}
        PROVE  q \in listener'[Endpoint(q)']
    BY <2>2, EndpointName DEF Typed, Elected, Elect, Go, Endpoint
  <2> QED
    BY <2>1, <2>2 DEF Elected
<1>3. ElectionGuardsLock'
  BY GuardKept DEF Elect
<1>4. ASSUME ~stolen PROVE Locked' /\ Fresh' /\ Served'
  <2>1. Holders' \subseteq Holders /\ \A q \in Processes : Writer(q)' => Writer(q)
    BY DEF Typed, Holders, Writer, Elect, Go
  <2> QED
    BY <1>4, <2>1, LockedKept, FreshKept, ServedKept DEF Elect, files
<1> QED
  BY <1>1, <1>2, <1>3, <1>4 DEF Elect

LEMMA RetryKeeps ==
  ASSUME WorkerInv, NEW p \in Processes, Retry(p) PROVE WorkerInv'
<1> USE DEF WorkerInv
<1>1. Typed'
  BY DEF Typed, Retry, Go, Places, Locking, files
<1>2. Elected' /\ ElectionGuardsLock'
  BY ElectedMoves, GuardKept DEF Typed, Retry, Past
<1>3. ASSUME ~stolen PROVE Locked' /\ Fresh' /\ Served'
  <2>1. Holders' \subseteq Holders /\ \A q \in Processes : Writer(q)' => Writer(q)
    BY DEF Typed, Holders, Writer, Retry, Go
  <2> QED
    BY <1>3, <2>1, LockedKept, FreshKept, ServedKept DEF Retry, files
<1> QED
  BY <1>1, <1>2, <1>3 DEF Retry

LEMMA AliasKeeps ==
  ASSUME WorkerInv, NEW p \in Processes, Alias(p) PROVE WorkerInv'
<1> USE DEF WorkerInv
<1>1. Typed'
  BY DEF Typed, Alias, Go, Places, files
<1>2. Elected'
  BY DEF Typed, Elected, Alias, Go, Endpoint
<1>3. ElectionGuardsLock'
  BY GuardKept DEF Alias
<1>4. ASSUME ~stolen PROVE Locked' /\ Fresh' /\ Served'
  <2>1. Holders' \subseteq Holders /\ \A q \in Processes : Writer(q)' => Writer(q)
    BY DEF Typed, Holders, Writer, Alias, Go
  <2> QED
    BY <1>4, <2>1, LockedKept, FreshKept, ServedKept DEF Alias, files
<1> QED
  BY <1>1, <1>2, <1>3, <1>4 DEF Alias

-----------------------------------------------------------------------------
(* The lock. *)

\* A process that does not hold the lock looks at it, or waits.
LEMMA LookingKeeps ==
  ASSUME WorkerInv, NEW p \in Processes,
         NEW where \in {"stat", "read", "judge", "check", "unlink", "waiting", "fatal"},
         at[p] \in {"open", "stat", "read", "judge", "check", "unlink"}, Go(p, where),
         legacy' \in [Processes -> BOOLEAN],
         UNCHANGED <<unix, mem, listener, lock, disk, stolen, req>>
  PROVE  WorkerInv'
<1> USE DEF WorkerInv
<1>1. Typed'
  BY DEF Typed, Go, Places, Locking
<1>2. Elected' /\ ElectionGuardsLock'
  BY ElectedMoves, GuardKept DEF Typed, Past
<1>3. ASSUME ~stolen PROVE Locked' /\ Fresh' /\ Served'
  <2>1. Holders' \subseteq Holders /\ \A q \in Processes : Writer(q)' => Writer(q)
    BY DEF Typed, Holders, Writer, Go
  <2> QED
    BY <1>3, <2>1, LockedKept, FreshKept, ServedKept
<1> QED
  BY <1>1, <1>2, <1>3

LEMMA BusyWaits ==
  ASSUME NEW p \in Processes, Busy(p), Typed
  PROVE  Go(p, "waiting") /\ legacy' \in [Processes -> BOOLEAN]
  BY DEF Busy, Typed

LEMMA OpenKeeps ==
  ASSUME WorkerInv, NEW p \in Processes, Open(p) PROVE WorkerInv'
<1> USE DEF WorkerInv
<1>1. CASE ~CanCreate(p)
  <2>1. Go(p, "stat") /\ UNCHANGED lock
    BY <1>1 DEF Open
  <2> QED
    BY <2>1, LookingKeeps DEF Open, Typed
<1>2. CASE CanCreate(p)
  <2>1. PICK i \in FreeInodes : lock' = {[ino |-> i, pid |-> 0]}
    BY <1>2 DEF Open
  <2>2. Go(p, "write") /\ at[p] = "open" /\ UNCHANGED <<unix, legacy, mem, listener, disk, stolen, req>>
    BY <1>2 DEF Open
  <2>3. Typed'
    BY <2>2 DEF Typed, Go, Places, Locking
  <2>4. Elected' /\ ElectionGuardsLock'
    BY <2>2, ElectedMoves, GuardKept DEF Typed, Past
  <2>5. ASSUME ~stolen PROVE Locked' /\ Fresh' /\ Served'
    <3>1. Holders = {}
      BY <1>2, <2>5 DEF Locked, CanCreate
    <3>2. Holders' = {p}
      BY <2>2, <3>1 DEF Typed, Holders, Go
    <3>3. Locked'
      BY <2>1, <3>2 DEF Locked
    <3>4. \A q \in Processes : Writer(q)' => Writer(q)
      BY <2>2 DEF Typed, Writer, Go
    <3> QED
      BY <2>2, <2>5, <3>3, <3>4, FreshKept, ServedKept
  <2> QED
    BY <2>2, <2>3, <2>4, <2>5
<1> QED
  BY <1>1, <1>2

LEMMA WriteKeeps ==
  ASSUME WorkerInv, NEW p \in Processes, Write(p) PROVE WorkerInv'
<1> USE DEF WorkerInv
<1>1. Typed'
  BY DEF Typed, Write, Go, Places, Locking
<1>2. Elected' /\ ElectionGuardsLock'
  BY ElectedMoves, GuardKept DEF Typed, Write, Past
<1>3. ASSUME ~stolen PROVE Locked' /\ Fresh' /\ Served'
  <2>1. Holders' \subseteq Holders /\ \A q \in Processes : Writer(q)' => Writer(q)
    BY DEF Typed, Holders, Writer, Write, Go
  <2>2. lock' = {} => lock = {}
    BY DEF Write
  <2> QED
    BY <1>3, <2>1, <2>2, LockedKept, FreshKept, ServedKept DEF Write
<1> QED
  BY <1>1, <1>2, <1>3 DEF Write

\* The process that takes the lock is the only one that holds it, and loads the ledger.
LEMMA IdentifyKeeps ==
  ASSUME WorkerInv, NEW p \in Processes, Identify(p) PROVE WorkerInv'
<1> USE DEF WorkerInv
<1>1. Typed'
  BY DEF Typed, Identify, Go, Places, Loaded
<1>2. Elected' /\ ElectionGuardsLock'
  BY ElectedMoves, GuardKept DEF Typed, Identify, Past
<1>3. ASSUME ~stolen PROVE Locked' /\ Fresh' /\ Served'
  <2>1. Holders' \subseteq Holders /\ \A q \in Processes : Writer(q)' => Writer(q) \/ q = p
    BY DEF Typed, Holders, Writer, Identify, Go
  <2>2. Fresh'
    BY <1>3, <2>1 DEF Typed, Fresh, Writers, Writer, Identify, Go, Loaded
  <2> QED
    BY <1>3, <2>1, <2>2, LockedKept, ServedKept DEF Identify
<1> QED
  BY <1>1, <1>2, <1>3 DEF Identify

LEMMA StatKeeps ==
  ASSUME WorkerInv, NEW p \in Processes, Stat(p) PROVE WorkerInv'
<1>1. Typed
  BY DEF WorkerInv
<1>2. CASE Busy(p)
  BY <1>1, <1>2, BusyWaits, LookingKeeps DEF Stat, files
<1>3. CASE Go(p, "read") /\ UNCHANGED legacy
  BY <1>1, <1>3, LookingKeeps DEF Stat, files, Typed
<1> QED
  BY <1>2, <1>3 DEF Stat

LEMMA ReadKeeps ==
  ASSUME WorkerInv, NEW p \in Processes, Read(p) PROVE WorkerInv'
<1>1. Typed
  BY DEF WorkerInv
<1>2. CASE Busy(p)
  BY <1>1, <1>2, BusyWaits, LookingKeeps DEF Read, files
<1>3. CASE Go(p, "judge") /\ UNCHANGED legacy
  BY <1>1, <1>3, LookingKeeps DEF Read, files, Typed
<1>4. CASE Go(p, "fatal") /\ UNCHANGED legacy
  BY <1>1, <1>4, LookingKeeps DEF Read, files, Typed
<1> QED
  BY <1>2, <1>3, <1>4 DEF Read

LEMMA JudgeKeeps ==
  ASSUME WorkerInv, NEW p \in Processes, Judge(p) PROVE WorkerInv'
<1>1. Typed
  BY DEF WorkerInv
<1>2. CASE Busy(p)
  BY <1>1, <1>2, BusyWaits, LookingKeeps DEF Judge, files
<1>3. CASE Go(p, "check") /\ UNCHANGED legacy
  BY <1>1, <1>3, LookingKeeps DEF Judge, files, Typed
<1> QED
  BY <1>2, <1>3 DEF Judge

LEMMA CheckKeeps ==
  ASSUME WorkerInv, NEW p \in Processes, Check(p) PROVE WorkerInv'
<1>1. Typed
  BY DEF WorkerInv
<1>2. CASE Busy(p)
  BY <1>1, <1>2, BusyWaits, LookingKeeps DEF Check, files
<1>3. CASE Go(p, "unlink") /\ UNCHANGED legacy
  BY <1>1, <1>3, LookingKeeps DEF Check, files, Typed
<1> QED
  BY <1>2, <1>3 DEF Check

\* Whoever is about to remove a lock file is elected: with one transport nobody holds it.
LEMMA UnlinkKeeps ==
  ASSUME WorkerInv, NEW p \in Processes, Unlink(p) PROVE WorkerInv'
<1> USE DEF WorkerInv
<1>1. CASE Busy(p) /\ UNCHANGED <<lock, stolen>>
  BY <1>1, BusyWaits, LookingKeeps DEF Unlink
<1>2. CASE lock' = {} /\ Go(p, "open") /\ UNCHANGED legacy /\ stolen' = (stolen \/ Holders # {})
  <2>1. at[p] = "unlink" /\ UNCHANGED <<unix, mem, listener, disk, req>>
    BY DEF Unlink
  <2>2. Typed'
    BY <1>2, <2>1 DEF Typed, Go, Places, Locking
  <2>3. Elected'
    BY <1>2, <2>1, ElectedMoves DEF Typed, Past
  <2>4. ElectionGuardsLock'
    <3> SUFFICES ASSUME unix \in {{}, Processes} PROVE ~stolen'
      BY <2>1 DEF ElectionGuardsLock
    <3>1. ASSUME NEW q \in Holders PROVE FALSE
      <4>1. q \in Processes /\ Past(q) /\ Past(p) /\ q # p
        BY <2>1 DEF Holders, Past
      <4> QED
        BY <4>1, OnlyOnePast
    <3> QED
      BY <1>2, <3>1 DEF ElectionGuardsLock
  <2>5. ASSUME ~stolen' PROVE Locked' /\ Fresh' /\ Served'
    <3>1. ~stolen /\ Holders = {}
      BY <1>2, <2>5
    <3>2. Holders' = {} /\ \A q \in Processes : Writer(q)' => Writer(q)
      BY <1>2, <2>1, <3>1 DEF Typed, Holders, Writer, Go
    <3>3. Locked'
      BY <3>2 DEF Locked
    <3> QED
      BY <2>1, <3>1, <3>2, <3>3, FreshKept, ServedKept
  <2> QED
    BY <2>2, <2>3, <2>4, <2>5
<1> QED
  BY <1>1, <1>2 DEF Unlink

-----------------------------------------------------------------------------
(* Processes that end. *)

Asked == [at : {"new", "probe", "send", "handling", "handled", "done"},
          via : SUBSET Processes, path : SUBSET Processes, runs : Nat,
          answer : {"none", "ok", "lost", "starting", "unreachable"}]

LEMMA ReqType ==
  ASSUME Typed, NEW r \in Requests PROVE req[r] \in Asked
  BY DEF Typed, Asked

\* u is what is left of a request q that did nothing more: it may have ended, and an
\* answer that was still to come may have been lost.
Cut(q, u) == /\ u.runs = q.runs /\ (u.at = q.at \/ u.at = "done")
             /\ u.answer = q.answer \/ (q.answer = "none" /\ u.answer = "lost")

LEMMA BrokenCuts ==
  ASSUME NEW q \in Asked, NEW p PROVE Broken(q, p) \in Asked /\ Cut(q, Broken(q, p))
<1>1. CASE p \in q.via
  <2>1. PICK a : a = IF q.answer = "none" THEN "lost" ELSE q.answer
    OBVIOUS
  <2>2. Broken(q, p) = [q EXCEPT !.at = "done", !.via = {}, !.path = {}, !.answer = a]
    BY <1>1, <2>1 DEF Broken, Ended
  <2> QED
    BY <2>1, <2>2 DEF Asked, Cut
<1>2. CASE p \notin q.via
  <2>1. PICK a : a = IF p \in q.path /\ q.answer = "none" THEN "lost" ELSE q.answer
    OBVIOUS
  <2>2. Broken(q, p) = [q EXCEPT !.answer = a]
    BY <1>2, <2>1 DEF Broken
  <2> QED
    BY <2>1, <2>2 DEF Asked, Cut
<1> QED
  BY <1>1, <1>2

LEMMA GoneKeeps ==
  ASSUME WorkerInv, NEW p \in Processes, Gone(p),
         \/ UNCHANGED lock
         \/ Writer(p) /\ lock' = {}
  PROVE  WorkerInv'
<1> USE DEF WorkerInv
<1>1. UNCHANGED <<unix, disk, stolen>> /\ at' = [at EXCEPT ![p] = "off"]
  BY DEF Gone, Go
<1>7. req' \in [Requests -> Asked] /\ \A r \in Requests : Cut(req[r], req'[r])
  BY BrokenCuts DEF Gone, Typed, Asked
<1>2. listener' \in [{"unix", "tcp"} -> SUBSET Processes]
      /\ \A e \in {"unix", "tcp"} : listener'[e] = listener[e] \ {p}
  BY DEF Gone, Released, Typed
<1>3. Typed'
  BY <1>1, <1>2, <1>7 DEF Typed, Gone, Places, Asked
<1>4. Elected'
  <2>1. ASSUME NEW e \in {"unix", "tcp"}, NEW a \in listener'[e], NEW b \in listener'[e]
        PROVE  a = b
    BY <1>2 DEF Elected
  <2>2. ASSUME NEW q \in Processes, at'[q] \notin {"off", "standby"}
        PROVE  q \in listener'[Endpoint(q)']
    <3>1. q # p /\ at'[q] = at[q] /\ Endpoint(q)' = Endpoint(q)
      BY <1>1, <2>2 DEF Typed, Endpoint
    <3> QED
      BY <1>2, <2>2, <3>1, EndpointName DEF Elected
  <2> QED
    BY <2>1, <2>2 DEF Elected
<1>5. ElectionGuardsLock'
  BY <1>1, GuardKept
<1>6. ASSUME ~stolen PROVE Locked' /\ Fresh' /\ Served'
  <2>1. Holders' = Holders \ {p}
    BY <1>1 DEF Typed, Holders
  <2>2. Locked'
    <3>1. CASE UNCHANGED lock
      BY <1>6, <2>1, <3>1 DEF Locked
    <3>2. CASE Writer(p)
      <4>1. Holders' = {}
        BY <1>6, <2>1, <3>2 DEF Locked, Holders, Writer
      <4> QED
        BY <4>1 DEF Locked
    <3> QED
      BY <3>1, <3>2
  <2>3. Fresh'
    <3>1. \A q \in Writers' : q \in Writers /\ q # p
      BY <1>1 DEF Typed, Writers, Writer
    <3>2. \A q \in Processes : q # p => mem'[q] = mem[q]
      BY DEF Gone, Typed
    <3> QED
      BY <1>1, <1>6, <3>1, <3>2 DEF Fresh, Writers
  <2>4. Served'
    BY <1>1, <1>6, <1>7, ReqType DEF Served, Cut, Asked
  <2> QED
    BY <2>2, <2>3, <2>4
<1> QED
  BY <1>1, <1>3, <1>4, <1>5, <1>6

LEMMA EndKeeps ==
  ASSUME WorkerInv, NEW p \in Processes, Killed(p) \/ Exits(p) PROVE WorkerInv'
  BY GoneKeeps DEF Killed, Exits

-----------------------------------------------------------------------------
(* The timer and the requests. *)

\* While no live lock was removed, there is one writer at most.
LEMMA OneHolds ==
  ASSUME Locked, NEW p \in Writers, NEW q \in Writers PROVE p = q
  BY DEF Locked, Holders, Writers, Writer

LEMMA TickKeeps ==
  ASSUME WorkerInv, NEW p \in Processes, Tick(p) PROVE WorkerInv'
<1> USE DEF WorkerInv
<1>1. UNCHANGED <<unix, at, listener, lock, legacy, stolen, req>>
      /\ mem' = [mem EXCEPT ![p] = mem[p] \cup {"job"}] /\ disk' = mem'[p] /\ p \in Writers
  BY DEF Tick, Writers
<1>2. Typed'
  BY <1>1 DEF Typed
<1>3. Elected' /\ ElectionGuardsLock'
  BY <1>1 DEF Elected, Endpoint, ElectionGuardsLock
<1>4. ASSUME ~stolen PROVE Locked' /\ Fresh' /\ Served'
  <2>1. Holders' = Holders /\ Writers' = Writers
    BY <1>1 DEF Holders, Writers, Writer
  <2>2. Fresh'
    BY <1>1, <1>4, <2>1, OneHolds DEF Fresh
  <2>3. disk' = disk \cup {"job"}
    BY <1>1, <1>4 DEF Fresh, Typed, Writers
  <2>4. Served'
    BY <1>1, <1>4, <2>3, Bounds DEF Served
  <2> QED
    BY <1>1, <1>4, <2>1, <2>2, <2>4 DEF Locked
<1> QED
  BY <1>1, <1>2, <1>3, <1>4

\* Nothing of the processes or their lock changes when a request moves on.
Serving == UNCHANGED <<unix, at, pid, born, saw, legacy, listener, lock, record, starts, stolen>>

\* What a request step does: the writer takes the effect; the request moves on; it ends
\* with an answer, told if its sender still waits; or its sender stops waiting.
Takes(r, p) == /\ Writer(p) /\ req[r].at = "handling"
               /\ mem' = [mem EXCEPT ![p] = mem[p] \cup {r}] /\ disk' = mem[p] \cup {r}
               /\ \E u \in Asked : /\ u.at = "handled" /\ u.runs = req[r].runs + 1
                                   /\ u.answer = req[r].answer
                                   /\ req' = [req EXCEPT ![r] = u]
Moves(r) == /\ UNCHANGED <<mem, disk>> /\ req[r].at \in {"new", "probe", "send"}
            /\ \E u \in Asked : /\ u.at \in {"probe", "send", "handling"}
                                /\ u.runs = req[r].runs /\ u.answer = req[r].answer
                                /\ req' = [req EXCEPT ![r] = u]
Told(r, a) == /\ UNCHANGED <<mem, disk>> /\ req[r].at # "done"
              /\ a = "ok" => req[r].at = "handled"
              /\ a \in {"starting", "unreachable"} => req[r].at # "handled"
              /\ \E u \in Asked : /\ u.at = "done" /\ u.runs = req[r].runs
                                  /\ u.answer = IF req[r].answer = "none" THEN a ELSE req[r].answer
                                  /\ req' = [req EXCEPT ![r] = u]
Loses(r) == /\ UNCHANGED <<mem, disk>>
            /\ \E u \in Asked : Cut(req[r], u) /\ req' = [req EXCEPT ![r] = u]

Final == {"ok", "lost", "starting", "unreachable"}

LEMMA AnswerTells ==
  ASSUME Typed, NEW r \in Requests, req[r].at # "done", UNCHANGED <<mem, disk>>,
         NEW a \in Final, Answer(r, a),
         a = "ok" => req[r].at = "handled",
         a \in {"starting", "unreachable"} => req[r].at # "handled"
  PROVE  Told(r, a)
<1>1. req[r] \in Asked
  BY ReqType
<1>2. PICK n : n = IF req[r].answer = "none" THEN a ELSE req[r].answer
  OBVIOUS
<1>3. PICK u : u = [req[r] EXCEPT !.at = "done", !.via = {}, !.path = {}, !.answer = n]
  OBVIOUS
<1>4. u \in Asked /\ u.at = "done" /\ u.runs = req[r].runs /\ u.answer = n
  BY <1>1, <1>2, <1>3 DEF Asked, Final
<1>5. req' = [req EXCEPT ![r] = u]
  BY <1>2, <1>3 DEF Answer, Ended, Typed
<1> QED
  BY <1>2, <1>4, <1>5 DEF Told

LEMMA PassMoves ==
  ASSUME Typed, NEW r \in Requests, NEW p \in Processes, NEW where \in {"probe", "handling"},
         Passes(r, where, p), UNCHANGED <<mem, disk>>, req[r].at \in {"new", "send"}
  PROVE  Moves(r)
<1>1. req[r] \in Asked
  BY ReqType
<1>2. PICK n : n = req[r].path \cup {p}
  OBVIOUS
<1>3. PICK u : u = [req[r] EXCEPT !.at = where, !.via = {p}, !.path = n]
  OBVIOUS
<1>4. u \in Asked /\ u.at = where /\ u.runs = req[r].runs /\ u.answer = req[r].answer
  BY <1>1, <1>2, <1>3 DEF Asked
<1>5. req' = [req EXCEPT ![r] = u]
  BY <1>2, <1>3 DEF Passes, With, Typed
<1> QED
  BY <1>4, <1>5 DEF Moves

\* A request moves on in one of these ways.
Serves(r) == \/ Moves(r) \/ Loses(r) \/ \E a \in Final : Told(r, a)
             \/ \E p \in Processes : Takes(r, p)

LEMMA HandleServes ==
  ASSUME Typed, NEW r \in Requests, NEW p \in Processes, Handle(r, p),
         UNCHANGED <<mem, disk>>, req[r].at \in {"new", "send"}
  PROVE  Serves(r)
<1>1. CASE Passes(r, "handling", p)
  BY <1>1, PassMoves DEF Serves
<1>2. CASE Answer(r, "starting")
  <2>1. Told(r, "starting")
    BY <1>2, AnswerTells DEF Final
  <2> QED
    BY <2>1 DEF Serves, Final
<1> QED
  BY <1>1, <1>2 DEF Handle

LEMMA ArriveServes ==
  ASSUME Typed, NEW r \in Requests, NEW p \in Processes, Arrive(r, p)
  PROVE  Serving /\ Serves(r)
<1>1. req[r].at = "new" /\ Serving /\ UNCHANGED <<mem, disk>>
  BY DEF Arrive, Serving, process, files
<1>2. CASE IsOwner(p)
  BY <1>1, <1>2, HandleServes DEF Arrive
<1>3. CASE ~IsOwner(p)
  BY <1>1, <1>3, PassMoves DEF Arrive, Serves
<1> QED
  BY <1>1, <1>2, <1>3

LEMMA ProbeServes ==
  ASSUME Typed, NEW r \in Requests, Probe(r)
  PROVE  Serving /\ Serves(r)
<1>1. req[r].at = "probe" /\ Serving /\ UNCHANGED <<mem, disk>>
  BY DEF Probe, Serving, process, files
<1>2. CASE req' = [req EXCEPT ![r].at = "send"]
  <2>1. req[r] \in Asked
    BY ReqType
  <2>2. PICK u : u = [req[r] EXCEPT !.at = "send"]
    OBVIOUS
  <2>3. u \in Asked /\ u.at = "send" /\ u.runs = req[r].runs /\ u.answer = req[r].answer
    BY <2>1, <2>2 DEF Asked
  <2>4. req' = [req EXCEPT ![r] = u]
    BY <1>2, <2>2 DEF Typed
  <2>5. Moves(r)
    BY <1>1, <2>3, <2>4 DEF Moves
  <2> QED
    BY <1>1, <2>5 DEF Serves
<1>3. CASE Answer(r, "unreachable")
  <2>1. Told(r, "unreachable")
    BY <1>1, <1>3, AnswerTells DEF Final
  <2> QED
    BY <1>1, <2>1 DEF Serves, Final
<1> QED
  BY <1>2, <1>3 DEF Probe

LEMMA SendServes ==
  ASSUME Typed, NEW r \in Requests, Send(r)
  PROVE  Serving /\ Serves(r)
<1>1. req[r].at = "send" /\ Serving /\ UNCHANGED <<mem, disk>>
  BY DEF Send, Serving, process, files
<1>2. ASSUME NEW p \in req[r].via, NEW q \in listener[Target(p)],
             IF legacy[q] THEN Passes(r, "probe", q) ELSE Handle(r, q)
      PROVE  Serves(r)
  <2>1. Target(p) \in {"unix", "tcp"}
    BY EndpointName DEF Target
  <2>2. q \in Processes
    BY <1>2, <2>1 DEF Typed
  <2>3. CASE ~legacy[q]
    BY <1>1, <1>2, <2>2, <2>3, HandleServes
  <2>4. CASE legacy[q]
    <3>1. Passes(r, "probe", q)
      BY <1>2, <2>4
    <3>2. Moves(r)
      BY <1>1, <2>2, <3>1, PassMoves
    <3> QED
      BY <3>2 DEF Serves
  <2> QED
    BY <2>3, <2>4
<1>3. CASE Answer(r, "lost")
  <2>1. Told(r, "lost")
    BY <1>1, <1>3, AnswerTells DEF Final
  <2> QED
    BY <1>1, <2>1 DEF Serves, Final
<1> QED
  BY <1>1, <1>2, <1>3 DEF Send

LEMMA GivesUpServes ==
  ASSUME Typed, NEW r \in Requests, GivesUp(r)
  PROVE  Serving /\ Serves(r)
<1>1. req[r].answer = "none" /\ Serving /\ UNCHANGED <<mem, disk>>
  BY DEF GivesUp, Serving, process, files
<1>2. req[r] \in Asked
  BY ReqType
<1>3. PICK u : u = [req[r] EXCEPT !.answer = "lost"]
  OBVIOUS
<1>4. u \in Asked /\ Cut(req[r], u)
  BY <1>1, <1>2, <1>3 DEF Asked, Cut
<1>5. req' = [req EXCEPT ![r] = u]
  BY <1>3 DEF GivesUp, Typed
<1> QED
  BY <1>1, <1>4, <1>5 DEF Serves, Loses

LEMMA FinishesServes ==
  ASSUME Typed, NEW r \in Requests, Finishes(r)
  PROVE  Serving /\ Serves(r)
<1>1. req[r].at = "handling" /\ Serving
      /\ req' = [req EXCEPT ![r].at = "handled", ![r].runs = @ + 1]
  BY DEF Finishes, Serving
<1>2. PICK p \in req[r].via : Writer(p) /\ mem' = [mem EXCEPT ![p] = mem[p] \cup {r}]
                             /\ disk' = mem[p] \cup {r}
  BY DEF Finishes
<1>3. req[r] \in Asked
  BY ReqType
<1>4. PICK n : n = req[r].runs + 1
  OBVIOUS
<1>5. PICK u : u = [req[r] EXCEPT !.at = "handled", !.runs = n]
  OBVIOUS
<1>6. n \in Nat /\ p \in Processes
  BY <1>2, <1>3, <1>4 DEF Asked
<1>7. u \in Asked /\ u.at = "handled" /\ u.runs = req[r].runs + 1 /\ u.answer = req[r].answer
  BY <1>3, <1>4, <1>5, <1>6 DEF Asked
<1>8. req' = [req EXCEPT ![r] = u]
  BY <1>1, <1>4, <1>5 DEF Typed
<1>9. Takes(r, p)
  BY <1>1, <1>2, <1>7, <1>8 DEF Takes
<1> QED
  BY <1>1, <1>6, <1>9 DEF Serves

LEMMA ReplyServes ==
  ASSUME Typed, NEW r \in Requests, Reply(r)
  PROVE  Serving /\ Serves(r)
<1>1. req[r].at = "handled" /\ Serving /\ UNCHANGED <<mem, disk>>
  BY DEF Reply, Serving, process, files
<1>2. PICK a \in {"ok", "lost"} : Answer(r, a)
  BY DEF Reply
<1>3. Told(r, a) /\ a \in Final
  BY <1>1, <1>2, AnswerTells DEF Final
<1> QED
  BY <1>1, <1>3 DEF Serves

LEMMA RelayServes ==
  ASSUME Typed, NEW r \in Requests, Relay(r) PROVE Serving /\ Serves(r)
<1>1. CASE \E p \in Processes : Arrive(r, p)
  BY <1>1, ArriveServes
<1>2. CASE Probe(r)
  BY <1>2, ProbeServes
<1>3. CASE Send(r)
  BY <1>3, SendServes
<1>4. CASE GivesUp(r)
  BY <1>4, GivesUpServes
<1>5. CASE Finishes(r)
  BY <1>5, FinishesServes
<1>6. CASE Reply(r)
  BY <1>6, ReplyServes
<1> QED
  BY <1>1, <1>2, <1>3, <1>4, <1>5, <1>6 DEF Relay

LEMMA ServesKeeps ==
  ASSUME WorkerInv, NEW r \in Requests, Serving, Serves(r) PROVE WorkerInv'
<1> USE DEF WorkerInv
<1>1. req' \in [Requests -> Asked] /\ \A q \in Requests \ {r} : req'[q] = req[q]
  <2>1. req \in [Requests -> Asked]
    BY DEF Typed, Asked
  <2>2. PICK u \in Asked : req' = [req EXCEPT ![r] = u]
    BY DEF Serves, Moves, Loses, Told, Takes
  <2> QED
    BY <2>1, <2>2
<1>2. Elected' /\ ElectionGuardsLock'
  BY DEF Elected, Endpoint, ElectionGuardsLock, Serving
<1>3. Holders' = Holders /\ Writers' = Writers
  BY DEF Holders, Writers, Writer, Serving
<1>4. mem' \in [Processes -> SUBSET (Requests \cup {"job"})] /\ disk' \subseteq Requests \cup {"job"}
  BY DEF Typed, Serves, Moves, Loses, Told, Takes
<1>5. Typed'
  BY <1>1, <1>4 DEF Typed, Serving, Asked
<1>6. ASSUME ~stolen PROVE Locked' /\ Fresh' /\ Served'
  <2>1. Locked'
    BY <1>3, <1>6 DEF Locked, Serving
  <2>2. req[r] \in Asked
    BY ReqType
  <2>3. CASE Moves(r)
    <3>1. PICK u \in Asked : /\ u.at \in {"probe", "send", "handling"} /\ u.runs = req[r].runs
                             /\ u.answer = req[r].answer /\ req' = [req EXCEPT ![r] = u]
      BY <2>3 DEF Moves
    <3>2. req'[r] = u
      BY <3>1 DEF Typed
    <3>3. Served'
      BY <1>1, <1>6, <2>3, <3>1, <3>2 DEF Served, Moves
    <3> QED
      BY <1>3, <1>6, <2>1, <2>3, <3>3 DEF Fresh, Moves
  <2>4. ASSUME NEW a \in Final, Told(r, a) PROVE Locked' /\ Fresh' /\ Served'
    <3>1. PICK u \in Asked :
                /\ u.at = "done" /\ u.runs = req[r].runs
                /\ u.answer = IF req[r].answer = "none" THEN a ELSE req[r].answer
                /\ req' = [req EXCEPT ![r] = u]
      BY <2>4 DEF Told
    <3>2. req'[r] = u
      BY <3>1 DEF Typed
    <3>3. req[r].at \in {"new", "probe", "send", "handling", "handled"}
      BY <2>2, <2>4 DEF Told, Asked
    <3>4. Served'
      BY <1>1, <1>6, <2>4, <3>1, <3>2, <3>3 DEF Served, Told, Final
    <3> QED
      BY <1>3, <1>6, <2>1, <2>4, <3>4 DEF Fresh, Told
  <2>6. CASE Loses(r)
    <3>1. PICK u \in Asked : Cut(req[r], u) /\ req' = [req EXCEPT ![r] = u]
      BY <2>6 DEF Loses
    <3>2. req'[r] = u
      BY <3>1 DEF Typed
    <3>3. Served'
      BY <1>1, <1>6, <2>2, <2>6, <3>1, <3>2 DEF Served, Loses, Cut, Asked
    <3> QED
      BY <1>3, <1>6, <2>1, <2>6, <3>3 DEF Fresh, Loses
  <2>5. ASSUME NEW p \in Processes, Takes(r, p) PROVE Locked' /\ Fresh' /\ Served'
    <3>1. PICK u \in Asked : /\ u.at = "handled" /\ u.runs = req[r].runs + 1
                             /\ u.answer = req[r].answer /\ req' = [req EXCEPT ![r] = u]
      BY <2>5 DEF Takes
    <3>2. req'[r] = u
      BY <3>1 DEF Typed
    <3>3. p \in Writers /\ mem[p] = disk /\ req[r].at = "handling"
          /\ mem' = [mem EXCEPT ![p] = mem[p] \cup {r}]
      BY <1>6, <2>5 DEF Takes, Fresh, Writers
    <3>4. disk' = disk \cup {r}
      BY <2>5, <3>3 DEF Takes
    <3>5. Served'
      BY <1>1, <1>6, <3>1, <3>2, <3>3, <3>4 DEF Served
    <3>6. ASSUME NEW q \in Writers' PROVE mem'[q] = disk'
      <4>1. q = p
        BY <1>3, <1>6, <3>3, OneHolds
      <4> QED
        BY <3>3, <3>4, <4>1 DEF Typed
    <3> QED
      BY <2>1, <3>5, <3>6 DEF Fresh
  <2> QED
    BY <2>3, <2>4, <2>5, <2>6 DEF Serves
<1> QED
  BY <1>2, <1>5, <1>6 DEF Serving

-----------------------------------------------------------------------------
(* Every step. *)

LEMMA StepKeepsInv == WorkerInv /\ [Next]_vars => WorkerInv'
<1> SUFFICES ASSUME WorkerInv, [Next]_vars PROVE WorkerInv'
  OBVIOUS
<1>1. ASSUME NEW p \in Processes, Run(p) PROVE WorkerInv'
  BY <1>1, StartKeeps, ElectKeeps, RetryKeeps, AliasKeeps, OpenKeeps, WriteKeeps,
     IdentifyKeeps, StatKeeps, ReadKeeps, JudgeKeeps, CheckKeeps, UnlinkKeeps DEF Run, Lock
<1>2. ASSUME NEW p \in Processes, Tick(p) \/ Killed(p) \/ Exits(p) PROVE WorkerInv'
  BY <1>2, TickKeeps, EndKeeps
<1>3. ASSUME NEW r \in Requests, Relay(r) PROVE WorkerInv'
  <2>1. Typed
    BY DEF WorkerInv
  <2> QED
    BY <1>3, <2>1, RelayServes, ServesKeeps
<1>4. CASE UNCHANGED vars
  <2>1. UNCHANGED <<unix, at, legacy, mem, listener, lock, disk, stolen, req>>
    BY <1>4 DEF vars, process, files
  <2>2. Typed' /\ Elected' /\ ElectionGuardsLock' /\ (Locked' <=> Locked) /\ Fresh' = Fresh
    BY <2>1 DEF WorkerInv, Typed, Elected, Endpoint, ElectionGuardsLock, Locked, Holders,
                Fresh, Writers, Writer
  <2>3. Served' = Served
    BY <2>1 DEF Served
  <2> QED
    BY <2>1, <2>2, <2>3 DEF WorkerInv
<1> QED
  BY <1>1, <1>2, <1>3, <1>4 DEF Next

\* The inductive invariant of the election, the lock and the copies of the ledger.
THEOREM WorkerHolds == Spec => []WorkerInv
  BY InitHolds, StepKeepsInv, PTL DEF Spec

\* Where all processes use the same transport, the listener of wallet-worker.js keeps
\* every lock of a live process from removal, through restarts and reused process ids,
\* although the checks of funding.js:196-205 and the unlink are separate calls.
THEOREM LiveLockStays == Spec => []ElectionGuardsLock
<1>1. WorkerInv => ElectionGuardsLock
  BY DEF WorkerInv
<1> QED
  BY <1>1, WorkerHolds, PTL

\* No two processes write the wallet's files at once unless a live lock was removed;
\* with one transport therefore never (wallet-worker.js:7, funding.js:171).
THEOREM OneWriterHolds == Spec => []OneWriter
<1>1. WorkerInv => OneWriter
  <2> SUFFICES ASSUME WorkerInv, ~stolen PROVE Cardinality(Writers) <= 1
    BY DEF OneWriter
  <2>1. Locked
    BY DEF WorkerInv
  <2>2. CASE Writers = {}
    BY <2>2, FS_EmptySet
  <2>3. ASSUME NEW p \in Writers PROVE Cardinality(Writers) <= 1
    <3>1. Writers = {p}
      BY <2>1, OneHolds
    <3> QED
      BY <3>1, FS_Singleton
  <2> QED
    BY <2>2, <2>3
<1> QED
  BY <1>1, WorkerHolds, PTL

-----------------------------------------------------------------------------
(* The processes are one ledger. *)

Runs == [r \in Requests |-> IF r \in disk THEN req[r].runs ELSE 0]
Answers == [r \in Requests |-> req[r].answer]

\* What the ledger of the abstract specification is, and that it has its types.
LEMMA LedgerTypes ==
  ASSUME Typed
  PROVE  Runs \in [Requests -> Nat] /\ Answers \in [Requests -> Ledger!Answers]
<1>1. \A r \in Requests : req[r] \in Asked
  BY ReqType
<1> QED
  BY <1>1 DEF Asked, Runs, Answers, Ledger!Answers, Ledger!Refusals

LEMMA InitIsLedger == Init => Ledger!Init
  BY DEF Init, Ledger!Init

\* A step that leaves the effects and the answers alone is none of the ledger's.
LEMMA QuietStep ==
  ASSUME UNCHANGED <<disk, req, stolen>> PROVE UNCHANGED Ledger!vars
  BY DEF Ledger!vars

\* Once a live lock was removed the ledger promises nothing.
LEMMA SplitStep ==
  ASSUME Typed', stolen' PROVE Ledger!Split
<1>1. Runs' \in [Requests -> Nat] /\ Answers' \in [Requests -> Ledger!Answers]
  <2>1. \A r \in Requests : req'[r] \in Asked
    BY DEF Typed, Asked
  <2> QED
    BY <2>1 DEF Asked, Runs, Answers, Ledger!Answers, Ledger!Refusals
<1> QED
  BY <1>1 DEF Ledger!Split, Runs, Answers, Typed

\* What leaves the effects alone, and at most loses answers that were still to come, is a
\* loss of answers.
LEMMA LossStep ==
  ASSUME Typed, ~stolen, UNCHANGED <<disk, stolen>>, \A r \in Requests : Cut(req[r], req'[r])
  PROVE  Ledger!Lose
<1>1. PICK R : R = {r \in Requests : req'[r].answer # req[r].answer}
  OBVIOUS
<1>2. \A r \in Requests :
        /\ req'[r].runs = req[r].runs
        /\ req'[r].answer = IF r \in R /\ req[r].answer = "none" THEN "lost" ELSE req[r].answer
  BY <1>1 DEF Cut
<1>3. Runs' = Runs
  BY <1>2 DEF Runs
<1>4. Answers' = [r \in Requests |-> IF r \in R /\ Answers[r] = "none" THEN "lost" ELSE Answers[r]]
  BY <1>2 DEF Answers
<1>5. R \in SUBSET Requests
  BY <1>1
<1> QED
  BY <1>3, <1>4, <1>5 DEF Ledger!Lose, Runs, Answers

\* A request that is forwarded, or whose sender gives up, may have lost its answer.
LEMMA MoveIsLoss ==
  ASSUME Typed, ~stolen, NEW r \in Requests, Moves(r) \/ Loses(r), Serving PROVE Ledger!Lose
<1>1. req[r] \in Asked
  BY ReqType
<1>2. ASSUME Moves(r) PROVE UNCHANGED disk /\ \A q \in Requests : req'[q].runs = req[q].runs
                                                 /\ req'[q].answer = req[q].answer
  BY <1>2 DEF Moves, Typed
<1>3. ASSUME Moves(r) PROVE Ledger!Lose
  <2>1. PICK R : R = {}
    OBVIOUS
  <2>2. Runs' = Runs
    BY <1>2, <1>3 DEF Runs
  <2>3. Answers' = [q \in Requests |-> IF q \in R /\ Answers[q] = "none" THEN "lost" ELSE Answers[q]]
    BY <1>2, <1>3, <2>1 DEF Answers
  <2>4. R \in SUBSET Requests /\ UNCHANGED stolen
    BY <2>1 DEF Serving
  <2> QED
    BY <2>2, <2>3, <2>4 DEF Ledger!Lose, Runs, Answers
<1>4. CASE Loses(r)
  <2>1. PICK u \in Asked : Cut(req[r], u) /\ req' = [req EXCEPT ![r] = u]
    BY <1>4 DEF Loses
  <2>2. \A q \in Requests : Cut(req[q], req'[q])
    BY <2>1 DEF Typed, Cut
  <2> QED
    BY <1>4, <2>2, LossStep DEF Loses, Serving
<1> QED
  BY <1>3, <1>4

\* A sender that has gone is told nothing; another is told of success only when the effect
\* is on disk, and of a refusal only when it is not.
LEMMA ToldIsTell ==
  ASSUME Typed, Served, ~stolen, NEW r \in Requests, NEW a \in Final, Told(r, a), Serving
  PROVE  Ledger!Tell(r) \/ Ledger!Lose
<1>1. PICK u \in Asked :
            /\ u.at = "done" /\ u.runs = req[r].runs
            /\ u.answer = IF req[r].answer = "none" THEN a ELSE req[r].answer
            /\ req' = [req EXCEPT ![r] = u]
  BY DEF Told
<1>2. req[r] \in Asked /\ req[r].at # "done"
  BY ReqType DEF Told
<1>3. UNCHANGED <<disk, stolen>>
  BY DEF Told, Serving
<1>4. req'[r] = u /\ \A q \in Requests \ {r} : req'[q] = req[q]
  BY <1>1 DEF Typed
<1>5. CASE req[r].answer = "lost" \/ a = "lost"
  <2>1. Cut(req[r], u)
    BY <1>1, <1>5 DEF Cut
  <2>2. \A q \in Requests : Cut(req[q], req'[q])
    BY <1>4, <2>1 DEF Cut
  <2> QED
    BY <1>3, <2>2, LossStep
<1>6. CASE req[r].answer = "none" /\ a # "lost"
  <2>1. u.answer = a /\ (a = "ok" => r \in disk /\ req[r].runs = 1)
        /\ (a \in {"starting", "unreachable"} => r \notin disk)
    BY <1>1, <1>2, <1>6 DEF Served, Told, Asked
  <2>2. Runs' = Runs
    BY <1>1, <1>3, <1>4 DEF Runs
  <2>3. Answers' = [Answers EXCEPT ![r] = a]
    BY <1>4, <2>1 DEF Answers
  <2>4. Answers[r] = "none" /\ Runs[r] = IF r \in disk THEN req[r].runs ELSE 0
    BY <1>6 DEF Answers, Runs
  <2>5. /\ a = "ok" => Runs[r] = 1
        /\ a \in Ledger!Refusals => Runs[r] = 0
        /\ a \in {"ok"} \cup Ledger!Refusals
    BY <1>6, <2>1, <2>4 DEF Ledger!Refusals, Final
  <2> QED
    BY <1>3, <2>2, <2>3, <2>4, <2>5 DEF Ledger!Tell, Runs, Answers
<1>7. req[r].answer \in {"none", "lost"}
  BY <1>2 DEF Served
<1> QED
  BY <1>5, <1>6, <1>7

\* The writer's copy is the disk's, so its save adds the request and loses nothing.
LEMMA TakeIsApply ==
  ASSUME Typed, Fresh, Served, ~stolen, NEW r \in Requests, NEW p \in Processes,
         Takes(r, p), Serving
  PROVE  Ledger!Apply(r)
<1>1. PICK u \in Asked : u.runs = req[r].runs + 1 /\ u.answer = req[r].answer
                         /\ req' = [req EXCEPT ![r] = u]
  BY DEF Takes
<1>2. req[r].runs = 0 /\ req[r].answer \in {"none", "lost"} /\ r \notin disk
  BY DEF Served, Takes
<1>3. disk' = disk \cup {r} /\ UNCHANGED stolen
  BY DEF Takes, Fresh, Writers, Serving
<1>4. req'[r] = u /\ \A q \in Requests \ {r} : req'[q] = req[q]
  BY <1>1 DEF Typed
<1>5. Answers' = Answers
  BY <1>1, <1>4 DEF Answers
<1>6. u.runs = 1
  BY <1>1, <1>2
<1>7. Runs' = [Runs EXCEPT ![r] = 1]
  BY <1>3, <1>4, <1>6 DEF Runs
<1>8. Runs[r] = 0 /\ Answers[r] \in {"none", "lost"}
  BY <1>2 DEF Runs, Answers
<1> QED
  BY <1>3, <1>5, <1>7, <1>8 DEF Ledger!Apply, Runs, Answers

\* A process that ends takes no effect along, only answers.
LEMMA EndIsLoss ==
  ASSUME Typed, ~stolen, NEW p \in Processes, Killed(p) \/ Exits(p) PROVE Ledger!Lose
<1>1. Gone(p)
  BY DEF Killed, Exits
<1>2. \A r \in Requests : Cut(req[r], req'[r])
  BY <1>1, ReqType, BrokenCuts DEF Gone
<1> QED
  BY <1>1, <1>2, LossStep DEF Gone

\* The timer saves the writer's copy: with nothing lost, no request's effect moves.
LEMMA TickIsQuiet ==
  ASSUME Typed, Fresh, NEW p \in Processes, Tick(p) PROVE UNCHANGED Ledger!vars
<1>1. disk' = disk \cup {"job"} /\ UNCHANGED <<req, stolen>>
  BY DEF Tick, Fresh, Writers, Typed
<1>2. \A r \in Requests : r \in disk' <=> r \in disk
  BY <1>1, Bounds
<1> QED
  BY <1>1, <1>2 DEF Ledger!vars

\* Election and locking touch neither effects nor answers.
LEMMA RunIsQuiet ==
  ASSUME NEW p \in Processes, Run(p) PROVE UNCHANGED <<disk, req>>
  BY DEF Run, Start, Elect, Retry, Alias, Lock, Open, Write, Identify, Stat, Read, Judge,
         Check, Unlink, files

LEMMA StolenStays == ASSUME Typed, stolen, [Next]_vars PROVE stolen'
<1>1. ASSUME NEW p \in Processes, Run(p) PROVE stolen'
  BY <1>1 DEF Run, Start, Elect, Retry, Alias, Lock, Open, Write, Identify, Stat, Read,
              Judge, Check, Unlink, Typed
<1>2. ASSUME NEW p \in Processes, Tick(p) \/ Killed(p) \/ Exits(p) PROVE stolen'
  BY <1>2 DEF Tick, Killed, Exits, Gone
<1>3. ASSUME NEW r \in Requests, Relay(r) PROVE stolen'
  BY <1>3, RelayServes DEF Serving
<1>4. CASE UNCHANGED vars
  BY <1>4 DEF vars
<1> QED
  BY <1>1, <1>2, <1>3, <1>4 DEF Next

LEMMA StepIsLedger ==
  WorkerInv /\ WorkerInv' /\ [Next]_vars => [Ledger!Next]_(Ledger!vars)
<1> SUFFICES ASSUME WorkerInv, WorkerInv', [Next]_vars
             PROVE  \/ Ledger!Split \/ Ledger!Lose \/ UNCHANGED Ledger!vars
                    \/ \E r \in Requests : Ledger!Apply(r) \/ Ledger!Tell(r)
  BY DEF Ledger!Next
<1>1. Typed /\ Typed' /\ stolen' \in BOOLEAN
  BY DEF WorkerInv, Typed
<1>2. CASE stolen'
  BY <1>1, <1>2, SplitStep
<1>3. CASE ~stolen'
  <2>1. ~stolen /\ Fresh /\ Served /\ UNCHANGED stolen
    BY <1>1, <1>3, StolenStays DEF WorkerInv, Typed
  <2>2. ASSUME NEW p \in Processes, Run(p) PROVE UNCHANGED Ledger!vars
    BY <2>1, <2>2, RunIsQuiet, QuietStep
  <2>3. ASSUME NEW p \in Processes, Tick(p) PROVE UNCHANGED Ledger!vars
    BY <1>1, <2>1, <2>3, TickIsQuiet
  <2>4. ASSUME NEW p \in Processes, Killed(p) \/ Exits(p) PROVE Ledger!Lose
    BY <1>1, <2>1, <2>4, EndIsLoss
  <2>5. ASSUME NEW r \in Requests, Relay(r)
        PROVE  Ledger!Apply(r) \/ Ledger!Tell(r) \/ Ledger!Lose
    <3>1. Serving /\ Serves(r)
      BY <1>1, <2>5, RelayServes
    <3> QED
      BY <1>1, <2>1, <3>1, MoveIsLoss, ToldIsTell, TakeIsApply DEF Serves
  <2>6. CASE UNCHANGED vars
    BY <2>6, QuietStep DEF vars, files
  <2> QED
    BY <2>2, <2>3, <2>4, <2>5, <2>6 DEF Next
<1> QED
  BY <1>1, <1>2, <1>3

\* The deployment implements the one ledger of OneLedger, whatever its processes, process
\* ids, inodes and requests: an effect is taken at most once and never lost, success is
\* told only of an effect on disk and a refusal only of one that never comes, until a
\* live lock is removed; an effect may come after its sender gave up, since the relay's
\* 65 seconds do not end the handler (wallet-worker.js:7-9, 219, 262, server.js:1350).
THEOREM ImplementsLedger == Spec => IsOneLedger
<1>1. Init => Ledger!Init
  BY InitIsLedger
<1>2. WorkerInv /\ WorkerInv' /\ [Next]_vars => [Ledger!Next]_(Ledger!vars)
  BY StepIsLedger
<1> QED
  BY <1>1, <1>2, WorkerHolds, PTL DEF Spec, IsOneLedger, Ledger!Spec

-----------------------------------------------------------------------------
(* What the one ledger promises. *)

LedgerInv == /\ Runs \in [Requests -> Nat]
             /\ Answers \in [Requests -> Ledger!Answers]
             /\ stolen \in BOOLEAN
             /\ \/ stolen
                \/ \A r \in Requests : /\ Runs[r] \in 0..1
                                       /\ Answers[r] = "ok" => Runs[r] = 1
                                       /\ Answers[r] \in Ledger!Refusals => Runs[r] = 0

\* An effect never follows a refusal, and nothing follows success: no step makes an answer
\* untrue afterwards.
LEMMA LedgerStepTruthful == LedgerInv /\ [Ledger!Next]_(Ledger!vars) => LedgerInv'
<1> SUFFICES ASSUME LedgerInv, [Ledger!Next]_(Ledger!vars) PROVE LedgerInv'
  OBVIOUS
<1>1. CASE Ledger!Split
  <2>1. stolen' = TRUE /\ Runs' \in [Requests -> Nat] /\ Answers' \in [Requests -> Ledger!Answers]
    BY <1>1 DEF Ledger!Split, Runs, Answers
  <2> QED
    BY <2>1 DEF LedgerInv
<1>2. ASSUME NEW r \in Requests, Ledger!Apply(r) PROVE LedgerInv'
  <2>1. ~stolen /\ Answers[r] \in {"none", "lost"} /\ Runs' = [Runs EXCEPT ![r] = 1]
        /\ Answers' = Answers /\ stolen' = stolen
    BY <1>2 DEF Ledger!Apply, Runs, Answers
  <2> QED
    BY <2>1 DEF LedgerInv, Ledger!Refusals
<1>3. ASSUME NEW r \in Requests, Ledger!Tell(r) PROVE LedgerInv'
  <2>1. PICK a \in {"ok"} \cup Ledger!Refusals :
          /\ a = "ok" => Runs[r] = 1
          /\ a \in Ledger!Refusals => Runs[r] = 0
          /\ Answers' = [Answers EXCEPT ![r] = a]
    BY <1>3 DEF Ledger!Tell, Runs, Answers
  <2>2. Runs' = Runs /\ stolen' = stolen /\ a \in Ledger!Answers
    BY <1>3, <2>1 DEF Ledger!Tell, Ledger!Answers, Runs
  <2> QED
    BY <2>1, <2>2 DEF LedgerInv
<1>5. CASE Ledger!Lose
  <2>1. PICK R \in SUBSET Requests :
          Answers' = [q \in Requests |->
                        IF q \in R /\ Answers[q] = "none" THEN "lost" ELSE Answers[q]]
    BY <1>5 DEF Ledger!Lose, Answers
  <2>2. Runs' = Runs /\ stolen' = stolen
    BY <1>5 DEF Ledger!Lose, Runs
  <2>3. Answers' \in [Requests -> Ledger!Answers]
    BY <2>1 DEF LedgerInv, Ledger!Answers
  <2> QED
    BY <2>1, <2>2, <2>3 DEF LedgerInv, Ledger!Refusals
<1>4. CASE UNCHANGED Ledger!vars
  <2>1. Runs' = Runs /\ Answers' = Answers /\ stolen' = stolen
    BY <1>4 DEF Ledger!vars, Runs, Answers
  <2> QED
    BY <2>1 DEF LedgerInv
<1> QED
  BY <1>1, <1>2, <1>3, <1>4, <1>5 DEF Ledger!Next

\* Whatever implements OneLedger has a request in the ledger at most once, and tells "ok"
\* only of one that is there and a refusal only of one that is not.
THEOREM LedgerTruthful == Ledger!Spec => []Ledger!Truthful
<1>1. Ledger!Init => LedgerInv
  <2> SUFFICES ASSUME Ledger!Init PROVE LedgerInv
    OBVIOUS
  <2>1. /\ Runs = [r \in Requests |-> 0] /\ stolen = FALSE
        /\ Answers = [r \in Requests |-> "none"]
    BY DEF Ledger!Init, Runs, Answers
  <2>2. Runs \in [Requests -> Nat] /\ Answers \in [Requests -> Ledger!Answers]
    BY <2>1 DEF Ledger!Answers
  <2>3. \A r \in Requests : Runs[r] = 0 /\ Answers[r] = "none"
    BY <2>1
  <2>4. "none" \notin Ledger!Refusals /\ 0 \in 0..1
    BY DEF Ledger!Refusals
  <2> QED
    BY <2>1, <2>2, <2>3, <2>4 DEF LedgerInv
<1>2. LedgerInv => Ledger!Truthful
  BY DEF LedgerInv, Ledger!Truthful, Runs, Answers
<1> QED
  BY <1>1, <1>2, LedgerStepTruthful, PTL DEF Ledger!Spec

\* What a client of the wallet is told of its request is true of the ledger on disk, until
\* a live lock is removed (wallet-worker.js:262, server.js:1350).
THEOREM AnswersTruthful == Spec => []Ledger!Truthful
  BY ImplementsLedger, LedgerTruthful, PTL DEF IsOneLedger

-----------------------------------------------------------------------------
(* The conversions of an earlier release. *)

\* The parts of a job's record that say where its transactions are.
Recorded(j) ==
  {"status", "failedAt", "afterGas", "pend", "bridge", "fee", "amt"} \subseteq DOMAIN j

\* Every transaction has a number of its own and is waiting or mined, once.
Numbered ==
  /\ sent \in Nat /\ pool \in Seq(Range(pool)) /\ faults \in Seq(Range(faults))
  /\ \A t \in Range(pool) : t.id \in 1..sent
  /\ \A m \in mined : m.tx.id \in 1..sent /\ m.ok \in BOOLEAN
  /\ \A i, k \in DOMAIN pool : pool[i].id = pool[k].id => i = k
  /\ \A m \in mined : \A t \in Range(pool) : t.id # m.tx.id
  /\ \A m, n \in mined : m.tx.id = n.tx.id => m = n

\* One job, one visit of the timer and one Retry, each with a copy of a job.
OneEach ==
  /\ \A i, k \in job : i = k
  /\ \A g, h \in tick : g = h
  /\ \A q, r \in retry : q = r
  /\ \A j \in job : Recorded(j)
  /\ \A h \in tick : /\ Recorded(h.of) /\ Recorded(h.new) /\ h.of.status \in EthStep
                     /\ h.at \in {"read", "failed", "sent"}
  /\ \A r \in retry : Recorded(r.of)

\* No transaction of this number takes money to the bridge.
Harmless(id) == \A t \in Alive : t.id = id => t.step \notin Bridging

\* What the record of a job says of its transactions.
Good(j) ==
  /\ j.bridge # 0 => \/ j.status = "awaiting_signatures"
                     \/ j.status = "error" /\ j.failedAt = "awaiting_signatures"
  /\ IF j.status \in EthStep THEN \A t \in Alive : t.id = j.pend => t.step = j.status
                             ELSE Harmless(j.pend)
  /\ j.status = "deposit_eth" => j.pend = 0

\* What the timer's handler goes by is the job as it is.
TickKnows ==
  \A h \in tick :
    /\ retry = {} /\ job = {h.of}
    /\ h.at \in {"read", "failed"} => h.new = h.of
    /\ h.at = "failed" => Harmless(h.of.pend)
    /\ h.at = "sent" => h.of.pend = 0 /\ Good(h.new)

\* And so is what Retry goes by, which has no transaction that may take the money.
RetryKnows ==
  \A r \in retry :
    /\ job \in {{}, {r.of}} /\ r.keep = FALSE
    /\ Harmless(r.of.pend) /\ Good(r.of)
    /\ r.of.status \in EthStep \cup {"error"}

LegacyInv ==
  /\ Numbered /\ OneEach
  /\ ~Forgotten => TickKnows /\ RetryKnows /\ \A j \in job : Good(j)

-----------------------------------------------------------------------------
(* Sequences and faults. *)

LEMMA SeqRange ==
  ASSUME NEW S, NEW s \in Seq(S)
  PROVE  s \in Seq(Range(s)) /\ Len(s) \in Nat /\ DOMAIN s = 1..Len(s)
<1>1. Len(s) \in Nat /\ DOMAIN s = 1..Len(s) BY LenProperties
<1>2. s \in [1..Len(s) -> Range(s)] BY <1>1, LenProperties DEF Range
<1>3. s \in Seq(Range(s)) BY <1>1, <1>2
<1> QED BY <1>1, <1>3

LEMMA AppendRange ==
  ASSUME NEW s, s \in Seq(Range(s)), NEW x
  PROVE  LET t == Append(s, x)
         IN /\ t \in Seq(Range(t)) /\ Range(t) = Range(s) \cup {x}
            /\ Len(t) = Len(s) + 1 /\ DOMAIN t = 1..Len(t)
            /\ \A i \in DOMAIN s : t[i] = s[i]
            /\ t[Len(s) + 1] = x
<1> DEFINE t == Append(s, x)
           S == Range(s) \cup {x}
<1>1. Len(s) \in Nat /\ DOMAIN s = 1..Len(s) /\ s \in Seq(S)
  BY SeqRange, LenProperties, SeqMonotonic
<1>2. x \in S OBVIOUS
<1> HIDE DEF S
<1>3. /\ t \in Seq(S) /\ Len(t) = Len(s) + 1
      /\ \A i \in 1..Len(s) : t[i] = s[i]
      /\ t[Len(s) + 1] = x
  BY <1>1, <1>2, AppendProperties
<1> HIDE DEF t
<1>4. t \in Seq(Range(t)) /\ DOMAIN t = 1..Len(t) BY <1>3, SeqRange
<1>5. \A i \in 1..Len(t) : i \in 1..Len(s) \/ i = Len(s) + 1 BY <1>1, <1>3
<1>6. 1..Len(s) \subseteq 1..Len(t) /\ Len(s) + 1 \in 1..Len(t) BY <1>1, <1>3
<1>7. Range(t) \subseteq Range(s) \cup {x} BY <1>1, <1>3, <1>4, <1>5 DEF Range
<1>8. Range(s) \cup {x} \subseteq Range(t) BY <1>1, <1>3, <1>4, <1>6 DEF Range
<1> QED BY <1>1, <1>3, <1>4, <1>7, <1>8 DEF t

\* What remains of a sequence without its first or its last element: the elements of
\* the sequence, each moved by d.
LEMMA TailRange ==
  ASSUME NEW s, s \in Seq(Range(s)), s # << >>
  PROVE  LET t == Tail(s)
         IN /\ t \in Seq(Range(t)) /\ DOMAIN t = 1..Len(s) - 1 /\ 1 \in DOMAIN s
            /\ \A i \in DOMAIN t : i + 1 \in DOMAIN s /\ t[i] = s[i + 1]
<1>1. Len(s) \in Nat /\ DOMAIN s = 1..Len(s) BY SeqRange
<1>2. Len(s) # 0 BY EmptySeq
<1>3. /\ Tail(s) \in Seq(Range(s)) /\ Len(Tail(s)) = Len(s) - 1
      /\ \A i \in 1..Len(Tail(s)) : Tail(s)[i] = s[i + 1]
  BY HeadTailProperties
<1>4. Tail(s) \in Seq(Range(Tail(s))) /\ DOMAIN Tail(s) = 1..Len(Tail(s)) BY <1>3, SeqRange
<1>5. 1 \in 1..Len(s) /\ \A i \in 1..Len(s) - 1 : i + 1 \in 1..Len(s) BY <1>1, <1>2
<1> QED BY <1>1, <1>3, <1>4, <1>5

LEMMA FrontRange ==
  ASSUME NEW s, s \in Seq(Range(s)), s # << >>
  PROVE  LET t == Front(s)
         IN /\ t \in Seq(Range(t)) /\ DOMAIN t \subseteq DOMAIN s
            /\ \A i \in DOMAIN t : t[i] = s[i]
<1>1. Len(s) \in Nat /\ DOMAIN s = 1..Len(s) BY SeqRange
<1>2. Len(s) # 0 BY EmptySeq
<1> DEFINE k == Len(s) - 1
<1>3. 1 \in Int /\ k \in Int /\ k \in Nat /\ \A i \in 1..k : i \in 1..Len(s) BY <1>1, <1>2
<1>3a. \A i \in 1..k : s[i] \in Range(s) BY <1>1, <1>3 DEF Range
<1> HIDE DEF k
<1>4. /\ SubSeq(s, 1, k) \in Seq(Range(s)) /\ Len(SubSeq(s, 1, k)) = IF 1 <= k THEN k - 1 + 1 ELSE 0
      /\ \A i \in 1..k - 1 + 1 : SubSeq(s, 1, k)[i] = s[1 + i - 1]
  BY <1>3, <1>3a, SubSeqProperties
<1>5. Front(s) = SubSeq(s, 1, k) BY DEF Front, k
<1>6. Len(Front(s)) = k BY <1>3, <1>4, <1>5
<1>7. \A i \in 1..k : Front(s)[i] = s[i] BY <1>3, <1>4, <1>5
<1>8. Front(s) \in Seq(Range(Front(s))) /\ DOMAIN Front(s) = 1..k BY <1>4, <1>5, <1>6, SeqRange
<1> QED BY <1>1, <1>3, <1>7, <1>8

\* A fault is never forgotten, and the four that forget a hash are told by their kind.
LEMMA FaultFacts ==
  ASSUME faults \in Seq(Range(faults)), NEW k, Fault(k) \/ NoFault
  PROVE  /\ faults' \in Seq(Range(faults'))
         /\ Forgotten => Forgotten'
         /\ k \in Forgets /\ Fault(k) => Forgotten'
<1>1. CASE NoFault BY <1>1 DEF NoFault, Forgotten, Fault
<1>2. CASE Fault(k)
  <2>1. faults' = Append(faults, k) BY <1>2 DEF Fault
  <2>2. faults' \in Seq(Range(faults')) /\ Range(faults') = Range(faults) \cup {k}
    BY <2>1, AppendRange
  <2> QED BY <2>2 DEF Forgotten
<1> QED BY <1>1, <1>2

-----------------------------------------------------------------------------
(* The records a step leads to. *)

\* The step changes, the transactions on record do not.
Same(n, j) == Recorded(n) /\ n.pend = j.pend /\ n.bridge = j.bridge

\* No transaction on record but the transfer of the money, if there is one.
Idle(n, j) == Recorded(n) /\ n.pend = 0 /\ n.bridge = j.bridge

LEMMA AtSame == ASSUME NEW j, Recorded(j), NEW s PROVE Same(At(j, s), j) /\ At(j, s).status = s
  BY DEF At, Same, Recorded

LEMMA PriceFeeSame ==
  ASSUME NEW j, Recorded(j), NEW value, NEW token, NEW next,
         NEW n \in PriceFee(j, value, token, next)
  PROVE  Same(n, j)
<1>1. n = Collect(j, value, token, next) \/ n = SkipFee(j, next) BY DEF PriceFee
<1> QED BY <1>1 DEF Collect, SkipFee, Same, Recorded

LEMMA GasBeforeSame ==
  ASSUME NEW j, Recorded(j), NEW next, NEW n \in GasBefore(j, next)
  PROVE  Same(n, j)
  BY DEF GasBefore, At, Same, Recorded

LEMMA HandOffIdle ==
  ASSUME NEW j, Recorded(j), NEW arrived, NEW n \in HandOff(j, arrived)
  PROVE  Idle(n, j)
<1> DEFINE usable == Min({arrived, bal["eth"]})
           spend  == usable - Reserve
           net(p) == IF spend > p.fee.amount THEN spend - p.fee.amount ELSE spend
<1>1. PICK p \in PriceFee(j, spend, "eth", "swap_eth_usdt") :
        n = [p EXCEPT !.pend = 0, !.amt["eth"] = net(p)]
  BY Zenon DEF HandOff
<1>2. Same(p, j) BY <1>1, PriceFeeSame
<1>3. n.pend = 0 /\ n.bridge = p.bridge /\ DOMAIN n = DOMAIN p
  BY <1>1, <1>2 DEF Recorded, Same
<1> QED BY <1>2, <1>3 DEF Same, Idle, Recorded

LEMMA AheadSame ==
  ASSUME NEW j, Recorded(j), NEW n \in Ahead(j)
  PROVE  Same(n, j)
<1>1. \/ \E s : n = At(j, s)
      \/ \E s : n = [At(j, s) EXCEPT !.fee = NoFee]
      \/ \E s : n = [At(j, s) EXCEPT !.afterGas = "none"]
  BY DEF Ahead
<1> QED BY <1>1 DEF At, Same, Recorded

\* A step that the balances name is one of a job with no transfer under way.
LEMMA FoundFacts ==
  ASSUME NEW j, NEW now, Recorded(now), NEW b, NEW n \in Found(j, now, b)
  PROVE  Recorded(n) /\ n.bridge = now.bridge /\ j.bridge = 0
<1>1. CASE SolPhase(j)
  <2>1. n \in FoundSol(j, now, b) BY <1>1 DEF Found
  <2>2. /\ j.bridge = 0
        /\ \/ n = [At(now, "approve_bridge") EXCEPT !.amt["vkoin"] = b["vkoin"], !.pend = 0]
           \/ n = [At(now, "wh_redeem") EXCEPT !.pend = 0]
    BY <2>1 DEF FoundSol
  <2> QED BY <2>2 DEF At, Recorded
<1>2. CASE ~SolPhase(j)
  <2>1. n \in FoundC(j, now, b) BY <1>2 DEF Found
  <2>2. /\ j.bridge = 0
        /\ \/ n = At([now EXCEPT !.amt["vkoin"] = b["vkoin"]], "approve_bridge")
           \/ n = At([now EXCEPT !.amt["usdt"] = Want(j, "usdt", b["usdt"])], "approve_permit2")
           \/ n = At([now EXCEPT !.amt["usdc"] = Want(j, "usdc", b["usdc"])], "approve_v3_usdc")
    BY <2>1 DEF FoundC
  <2> QED BY <2>2 DEF At, Recorded
<1> QED BY <1>1, <1>2

\* What a receipt leads to: a job with nothing under way, or the one whose money has
\* just gone into the bridge, with the hash that took it there.
LEMMA ConfirmsFacts ==
  ASSUME NEW j, Recorded(j), j.status \in EthStep
  PROVE  /\ \A n \in Confirms(j) :
              \/ j.status # "bridge_token" /\ Idle(n, j)
              \/ /\ j.status = "bridge_token" /\ n.status = "awaiting_signatures"
                 /\ Recorded(n) /\ n.pend = 0 /\ n.bridge = j.pend
         /\ j.status = "bridge_token" => Confirms(j) # {}
<1> DEFINE base == [j EXCEPT !.pend = 0]
           got == Amount(j.pend)
           bought(token, next) == [At(base, next) EXCEPT !.amt[token] = got]
<1>1. Idle(base, j) BY DEF Idle, Recorded
<1>2. \A s : Idle(At(base, s), j) BY <1>1 DEF At, Idle, Recorded
<1>3. \A token, next : Idle(bought(token, next), j) BY <1>2 DEF Idle, Recorded
<1> HIDE DEF base, got
<1>4. CASE j.status = "front_gas"
  <2> DEFINE next == [At(base, j.afterGas) EXCEPT !.spent = @ + Advance, !.afterGas = "none"]
             kind == IF j.asset = "usdt" THEN {"usdt"}
                     ELSE IF j.route = "S" /\ j.amt["vkoin"] > 0 THEN {"vkoin"} ELSE {}
  <2>1. Idle(next, j) BY <1>2 DEF Idle, Recorded
  <2> HIDE DEF next, kind
  <2>2. Confirms(j) = IF kind = {} \/ j.paid > 0 THEN {next}
                      ELSE UNION {PriceFee(next, j.amt[k], k, j.afterGas) : k \in kind}
    BY <1>4, Zenon DEF Confirms, next, kind, base, got
  <2>3. \A n \in Confirms(j) : n = next \/ \E k \in kind : n \in PriceFee(next, j.amt[k], k, j.afterGas)
    BY <2>2
  <2>4. \A n \in Confirms(j) : Idle(n, j) BY <2>1, <2>3, PriceFeeSame DEF Same, Idle
  <2> QED BY <1>4, <2>4
<1>5. CASE j.status \in {"approve_v3_usdc", "approve_permit2", "approve_ur", "approve_bridge"}
  <2>1. \E s : Confirms(j) = {At(base, s)} BY <1>5 DEF Confirms, base
  <2> QED BY <1>2, <1>5, <2>1
<1>6. CASE j.status \in {"swap_usdc_usdt", "swap_eth_usdt"}
  <2> DEFINE withUsdt == bought("usdt", "approve_permit2")
  <2>1. Idle(withUsdt, j) BY <1>3
  <2> HIDE DEF withUsdt
  <2>2. Confirms(j) = IF j.asset = "eth" \/ j.route = "T" THEN {withUsdt}
                      ELSE PriceFee(withUsdt, got, "usdt", "approve_permit2")
    BY <1>6 DEF Confirms, withUsdt, base, got
  <2>3. \A n \in Confirms(j) : Idle(n, j) BY <2>1, <2>2, PriceFeeSame DEF Same, Idle
  <2> QED BY <1>6, <2>3
<1>7. CASE j.status = "swap_usdt_vkoin"
  <2>1. Confirms(j) = {bought("vkoin", "approve_bridge")} BY <1>7 DEF Confirms, base, got
  <2> QED BY <1>3, <1>7, <2>1
<1>8. CASE j.status = "wh_redeem"
  <2> DEFINE repaid == [j EXCEPT !.spent = @ + IF j.sponsored THEN Advance ELSE 0]
             held == [bought("vkoin", "approve_bridge") EXCEPT !.spent = repaid.spent]
  <2>1. Recorded(repaid) /\ repaid.bridge = j.bridge BY DEF Recorded
  <2>2. Idle(held, j) BY <1>3 DEF Idle, Recorded
  <2> HIDE DEF repaid, held
  <2>3. Confirms(j) =
          IF j.route = "T" THEN HandOff(repaid, got)
          ELSE UNION {IF n.status = "front_gas" THEN {n}
                      ELSE PriceFee(n, got, "vkoin", "approve_bridge") :
                        n \in GasBefore(held, "approve_bridge")}
    BY <1>8, Zenon DEF Confirms, repaid, held, base, got
  <2>4. \A n \in Confirms(j) :
          \/ n \in HandOff(repaid, got)
          \/ \E m \in GasBefore(held, "approve_bridge") :
               n = m \/ n \in PriceFee(m, got, "vkoin", "approve_bridge")
    BY <2>3
  <2>5. \A m \in GasBefore(held, "approve_bridge") : Idle(m, j) BY <2>2, GasBeforeSame DEF Same, Idle
  <2>6. \A n \in Confirms(j) : Idle(n, j) BY <2>1, <2>4, <2>5, HandOffIdle, PriceFeeSame DEF Same, Idle
  <2> QED BY <1>8, <2>6
<1>9. CASE j.status = "collect_fee"
  <2> DEFINE left == [k \in Token |-> IF k = j.fee.token /\ k # "eth" THEN At(base, j.fee.after).amt[k] - j.paid
                                      ELSE At(base, j.fee.after).amt[k]]
  <2>1. Confirms(j) = {[At(base, j.fee.after) EXCEPT !.amt = left, !.fee = NoFee]}
    BY <1>9, Zenon DEF Confirms, base
  <2> HIDE DEF left
  <2>2. Idle([At(base, j.fee.after) EXCEPT !.amt = left, !.fee = NoFee], j)
    BY <1>2 DEF Idle, Recorded
  <2> QED BY <1>9, <2>1, <2>2
<1>10. CASE j.status = "bridge_token"
  <2> DEFINE n == [At(base, "awaiting_signatures") EXCEPT !.bridge = j.pend]
  <2>1. Confirms(j) = {n} BY <1>10, Zenon DEF Confirms, base
  <2>2. Recorded(n) /\ n.pend = 0 /\ n.bridge = j.pend /\ n.status = "awaiting_signatures"
    BY <1>1 DEF At, Idle, Recorded
  <2> QED BY <1>10, <2>1, <2>2
<1>11. CASE j.status = "deposit_eth"
  <2>1. Confirms(j) = {} BY <1>11 DEF Confirms
  <2> QED BY <1>11, <2>1
<1> QED BY <1>4, <1>5, <1>6, <1>7, <1>8, <1>9, <1>10, <1>11 DEF EthStep, Approval, Spending

-----------------------------------------------------------------------------
(* The transactions. *)

LEMMA AliveIds ==
  ASSUME Numbered PROVE \A t \in Alive : t.id \in 1..sent
  BY DEF Numbered, Alive

\* What a node says of a transaction.
LEMMA StatusFacts ==
  ASSUME Numbered, NEW id
  PROVE  /\ Status(id) = "reverted" => \A t \in Alive : t.id # id
         /\ Status(id) = "gone" => \A t \in Alive : t.id # id
<1>1. \A t \in Alive : t \in Range(pool) \/ \E m \in mined : m.ok /\ m.tx = t
  BY DEF Alive
<1>2. \A m, n \in mined : m.tx.id = n.tx.id => m = n BY DEF Numbered
<1>3. \A m \in mined : \A t \in Range(pool) : t.id # m.tx.id BY DEF Numbered
<1>4. ASSUME NEW m \in mined, m.tx.id = id, m.ok PROVE Status(id) = "ok"
  <2>1. \A n \in mined : n.tx.id = id => n.ok BY <1>2, <1>4
  <2>2. \A t \in Range(pool) : t.id # id BY <1>3, <1>4
  <2> QED BY <1>4, <2>1, <2>2 DEF Status
<1>5. ASSUME NEW t \in Range(pool), t.id = id PROVE Status(id) = "waiting"
  <2>1. \A n \in mined : n.tx.id # id BY <1>3, <1>5
  <2> QED BY <1>5, <2>1 DEF Status
<1> QED BY <1>1, <1>4, <1>5

LEMMA HarmlessFresh ==
  ASSUME Numbered PROVE Harmless(0)
<1>1. \A t \in Alive : t.id # 0 BY AliveIds DEF Numbered
<1> QED BY <1>1 DEF Harmless

\* Fewer transactions, fewer ties.
LEMMA GoodKept ==
  ASSUME NEW j, Alive' \subseteq Alive
  PROVE  (Good(j) => Good(j)') /\ (Harmless(j.pend) => Harmless(j.pend)')
  BY DEF Good, Harmless

LEMMA CleanIsGood ==
  ASSUME Numbered, NEW j, Recorded(j), j.pend = 0,
         j.bridge # 0 => \/ j.status = "awaiting_signatures"
                         \/ j.status = "error" /\ j.failedAt = "awaiting_signatures"
  PROVE  Good(j)
<1>1. \A t \in Alive : t.id # 0 BY AliveIds DEF Numbered
<1> QED BY <1>1 DEF Good, Harmless

\* A job with no transfer under way and no transaction that may carry the money: then
\* no transaction does.
LEMMA NoneCarries ==
  ASSUME Numbered, Followed, NEW j, job \in {{}, {j}}, j.bridge = 0, Harmless(j.pend),
         \A h \in tick : h.new = j
  PROVE  \A t \in Alive : t.step \notin Bridging
<1> SUFFICES ASSUME NEW t \in Alive, t.step \in Bridging PROVE FALSE
  OBVIOUS
<1>1. t.id \in Known BY DEF Followed
<1>2. Known \subseteq {j.bridge, j.pend} BY DEF Known
<1>3. t.id # 0 BY AliveIds DEF Numbered
<1> QED BY <1>1, <1>2, <1>3 DEF Harmless

LEMMA FollowedThen ==
  ASSUME \A t \in Alive : t.step \notin Bridging, Alive' \subseteq Alive
  PROVE  Followed'
  BY DEF Followed

\* A step that leaves the chain alone.
LEMMA ChainUntouched ==
  ASSUME Numbered, UNCHANGED <<pool, mined, sent>>, NEW k, Fault(k) \/ NoFault
  PROVE  /\ Numbered' /\ Alive' = Alive
         /\ Forgotten => Forgotten'
         /\ k \in Forgets /\ Fault(k) => Forgotten'
<1>1. faults \in Seq(Range(faults)) BY DEF Numbered
<1>2. /\ faults' \in Seq(Range(faults'))
      /\ Forgotten => Forgotten'
      /\ k \in Forgets /\ Fault(k) => Forgotten'
  BY <1>1, FaultFacts
<1>3. Alive' = Alive BY DEF Alive
<1>4. Numbered' BY <1>2 DEF Numbered
<1> QED BY <1>2, <1>3, <1>4

-----------------------------------------------------------------------------
(* One step. *)

\* The invariant is kept, and so is hold of the transfers, but for a hash forgotten.
Preserves == LegacyInv' /\ (~Forgotten' /\ Followed => Followed')

\* What the handler of the timer can rely on.
LEMMA TickView ==
  ASSUME LegacyInv, ~Forgotten, NEW h \in tick, h.at \in {"read", "failed"}
  PROVE  /\ retry = {} /\ job = {h.of} /\ tick = {h} /\ h.new = h.of
         /\ h.of.status \in EthStep /\ h.of.bridge = 0 /\ Good(h.of)
         /\ h.at = "failed" => Harmless(h.of.pend)
<1>1. TickKnows /\ \A j \in job : Good(j) BY DEF LegacyInv
<1>2. retry = {} /\ job = {h.of} /\ h.new = h.of /\ h.of.status \in EthStep
  BY <1>1 DEF TickKnows, LegacyInv, OneEach
<1>3. Good(h.of) /\ (h.at = "failed" => Harmless(h.of.pend)) BY <1>1, <1>2 DEF TickKnows
<1>4. tick = {h} BY DEF LegacyInv, OneEach
<1>5. h.of.bridge = 0 BY <1>2, <1>3 DEF Good, EthStep, Approval, Spending
<1> QED BY <1>2, <1>3, <1>4, <1>5

\* The same, when nothing of the job carries its money.
LEMMA TickFree ==
  ASSUME LegacyInv, ~Forgotten, Followed,
         NEW h \in tick, h.at \in {"read", "failed"}, Harmless(h.of.pend), Alive' = Alive
  PROVE  Followed'
<1>1. Numbered BY DEF LegacyInv
<1>2. job = {h.of} /\ tick = {h} /\ h.new = h.of /\ h.of.bridge = 0 BY TickView
<1>3. \A t \in Alive : t.step \notin Bridging BY <1>1, <1>2, NoneCarries
<1> QED BY <1>3, FollowedThen

LEMMA ChainKeeps ==
  ASSUME LegacyInv, UNCHANGED <<job, tick, retry>>, Numbered', Alive' \subseteq Alive,
         Forgotten => Forgotten'
  PROVE  Preserves
<1>1. OneEach' BY DEF LegacyInv, OneEach, Recorded
<1>2. ASSUME ~Forgotten' PROVE TickKnows' /\ RetryKnows' /\ \A j \in job' : Good(j)'
  <2>1. TickKnows /\ RetryKnows /\ \A j \in job : Good(j) BY <1>2 DEF LegacyInv
  <2>2. \A j : (Good(j) => Good(j)') /\ (Harmless(j.pend) => Harmless(j.pend)') BY GoodKept
  <2>3. TickKnows' BY <2>1, <2>2 DEF TickKnows
  <2>4. RetryKnows' BY <2>1, <2>2 DEF RetryKnows
  <2> QED BY <2>1, <2>2, <2>3, <2>4
<1>3. Followed => Followed' BY DEF Followed, Known
<1> QED BY <1>1, <1>2, <1>3 DEF Preserves, LegacyInv

LEMMA SavesKeeps ==
  ASSUME LegacyInv, NEW h \in tick, h.at \in {"read", "failed"},
         NEW n, Recorded(n), Saves(n), NEW k, Fault(k) \/ NoFault,
         ~Forgotten => Good(n),
         ~Forgotten /\ Followed /\ Alive' = Alive => Followed'
  PROVE  Preserves
<1>1. job' = {n} /\ tick' = {} /\ UNCHANGED <<retry, pool, mined, sent>> BY DEF Saves, chain
<1>2. Numbered BY DEF LegacyInv
<1>3. Numbered' /\ Alive' = Alive /\ (Forgotten => Forgotten') BY <1>1, <1>2, ChainUntouched
<1>4. OneEach' BY <1>1 DEF LegacyInv, OneEach
<1>5. ASSUME ~Forgotten' PROVE TickKnows' /\ RetryKnows' /\ \A j \in job' : Good(j)'
  <2>1. retry = {} BY <1>3, <1>5, TickView
  <2>2. Good(n)' BY <1>3, <1>5, GoodKept
  <2> QED BY <1>1, <2>1, <2>2 DEF TickKnows, RetryKnows
<1> QED BY <1>3, <1>4, <1>5 DEF Preserves, LegacyInv

LEMMA ThrowsKeeps ==
  ASSUME LegacyInv, NEW h \in tick, h.at = "read", Throws(h.of), NEW k, Fault(k) \/ NoFault,
         ~Forgotten' => Harmless(h.of.pend)
  PROVE  Preserves
<1> DEFINE g == [at |-> "failed", of |-> h.of, new |-> h.of]
<1>1. tick' = {g} /\ UNCHANGED <<job, retry, pool, mined, sent>> BY DEF Throws, chain
<1>2. g.at = "failed" /\ g.of = h.of /\ g.new = h.of OBVIOUS
<1> HIDE DEF g
<1>3. Numbered /\ OneEach BY DEF LegacyInv
<1>4. Numbered' /\ Alive' = Alive /\ (Forgotten => Forgotten') BY <1>1, <1>3, ChainUntouched
<1>5. OneEach' BY <1>1, <1>2, <1>3 DEF OneEach, Recorded
<1>6. ASSUME ~Forgotten' PROVE TickKnows' /\ RetryKnows' /\ \A j \in job' : Good(j)'
  <2>1. retry = {} /\ job = {h.of} /\ h.of.status \in EthStep /\ Good(h.of)
    BY <1>4, <1>6, TickView
  <2>2. Good(h.of)' BY <1>4, <2>1, GoodKept
  <2>3. Harmless(h.of.pend)' BY <1>4, <1>6, GoodKept
  <2> QED BY <1>1, <1>2, <2>1, <2>2, <2>3 DEF TickKnows, RetryKnows
<1>7. ASSUME ~Forgotten', Followed PROVE Followed'
  <2>1. tick = {h} /\ h.new = h.of BY <1>4, <1>7, TickView
  <2>2. Known' = Known BY <1>1, <1>2, <2>1 DEF Known
  <2> QED BY <1>4, <1>7, <2>2 DEF Followed
<1> QED BY <1>4, <1>5, <1>6, <1>7 DEF Preserves, LegacyInv

\* The handler ends with the job as it was, or dies.
LEMMA LeavesKeeps ==
  ASSUME LegacyInv, NEW h \in tick, tick' = {}, retry' \in {retry, {}},
         UNCHANGED <<job, pool, mined, sent>>, NEW k, Fault(k) \/ NoFault,
         ~Forgotten' => h.at \in {"read", "failed"}
  PROVE  Preserves
<1>1. Numbered /\ OneEach BY DEF LegacyInv
<1>2. Numbered' /\ Alive' = Alive /\ (Forgotten => Forgotten') BY <1>1, ChainUntouched
<1>3. OneEach' BY <1>1 DEF OneEach, Recorded
<1>4. ASSUME ~Forgotten'
      PROVE  /\ TickKnows' /\ RetryKnows' /\ \A j \in job' : Good(j)'
             /\ Followed => Followed'
  <2>1. retry = {} /\ job = {h.of} /\ tick = {h} /\ h.new = h.of /\ Good(h.of)
    BY <1>2, <1>4, TickView
  <2>2. Good(h.of)' BY <1>2, <2>1, GoodKept
  <2>3. Known' = Known BY <2>1 DEF Known
  <2> QED BY <1>2, <2>1, <2>2, <2>3 DEF TickKnows, RetryKnows, Followed
<1> QED BY <1>2, <1>3, <1>4 DEF Preserves, LegacyInv

LEMMA WaitsKeeps == ASSUME LegacyInv, NEW h \in tick, h.at = "read", Waits(h.of) PROVE Preserves
  BY LeavesKeeps DEF Waits, chain

LEMMA DiesKeeps == ASSUME LegacyInv, Dies PROVE Preserves
<1>1. PICK h \in tick : Fault(IF h.at = "sent" THEN "lost" ELSE "crash") BY DEF Dies
<1> DEFINE k == IF h.at = "sent" THEN "lost" ELSE "crash"
<1>2. tick' = {} /\ retry' = {} /\ UNCHANGED <<job, pool, mined, sent>> BY DEF Dies, chain
<1>3. h.at \in {"read", "failed", "sent"} BY DEF LegacyInv, OneEach
<1>4. Fault(k) /\ (h.at = "sent" => k \in Forgets) BY <1>1 DEF Forgets
<1> HIDE DEF k
<1>5. h.at = "sent" => Forgotten' BY <1>2, <1>4, ChainUntouched DEF LegacyInv
<1> QED BY <1>2, <1>3, <1>4, <1>5, LeavesKeeps

LEMMA RevertedKeeps ==
  ASSUME LegacyInv, NEW h \in tick, h.at = "read", Reverted(h.of) PROVE Preserves
<1>1. \A t \in Alive : t.id # h.of.pend BY StatusFacts DEF Reverted, LegacyInv
<1>2. Harmless(h.of.pend) BY <1>1 DEF Harmless
<1> QED BY <1>2, ThrowsKeeps DEF Reverted

LEMMA BreaksKeeps ==
  ASSUME LegacyInv, NEW h \in tick, h.at = "read", Breaks(h.of) PROVE Preserves
<1> DEFINE k == IF h.of.pend # 0 THEN "unread" ELSE "broke"
<1>1. Numbered BY DEF LegacyInv
<1>2. Fault(k) /\ Throws(h.of) /\ (h.of.pend # 0 => k \in Forgets) BY DEF Breaks, Forgets
<1> HIDE DEF k
<1>3. UNCHANGED <<pool, mined, sent>> BY <1>2 DEF Throws, chain
<1>4. h.of.pend # 0 => Forgotten' BY <1>1, <1>2, <1>3, ChainUntouched
<1>5. ~Forgotten' => Harmless(h.of.pend) BY <1>1, <1>4, HarmlessFresh
<1> QED BY <1>2, <1>5, ThrowsKeeps

\* A step that goes on from a job without a transaction.
LEMMA GoesOnKeeps ==
  ASSUME LegacyInv, NEW h \in tick, h.at = "read", h.of.pend = 0, NoFault,
         NEW n, Idle(n, h.of), Saves(n)
  PROVE  Preserves
<1>1. Numbered BY DEF LegacyInv
<1>2. ASSUME ~Forgotten PROVE Good(n)
  <2>1. n.bridge = 0 BY <1>2, TickView DEF Idle
  <2> QED BY <1>1, <2>1, CleanIsGood DEF Idle
<1>3. Harmless(h.of.pend) BY <1>1, HarmlessFresh
<1>4. ~Forgotten /\ Followed /\ Alive' = Alive => Followed' BY <1>3, TickFree
<1> QED BY <1>2, <1>4, SavesKeeps DEF Idle

LEMMA SkipsKeeps ==
  ASSUME LegacyInv, NEW h \in tick, h.at = "read", Skips(h.of) PROVE Preserves
<1>1. PICK n \in Ahead(h.of) : Saves(n) BY DEF Skips
<1>2. Recorded(h.of) BY DEF LegacyInv, OneEach
<1>3. Idle(n, h.of) BY <1>2, AheadSame DEF Skips, Same, Idle
<1> QED BY <1>1, <1>3, GoesOnKeeps DEF Skips

LEMMA HonouredKeeps ==
  ASSUME LegacyInv, NEW h \in tick, h.at = "read", Honoured(h.of) PROVE Preserves
<1> DEFINE j == h.of
           k == [j EXCEPT !.amt["vkoin"] = bal["vkoin"]]
           next == IF j.route = "T" THEN HandOff(j, j.amt["eth"])
                   ELSE IF bal["vkoin"] > 0 THEN GasBefore(k, "approve_bridge")
                   ELSE {At(j, "sol_bridge")}
<1>1. IF next = {} THEN Throws(j) ELSE \E n \in next : Saves(n) BY Zenon DEF Honoured
<1>2. Recorded(j) /\ j.pend = 0 /\ NoFault BY DEF LegacyInv, OneEach, Honoured
<1>3. Recorded(k) /\ k.pend = 0 /\ k.bridge = j.bridge BY <1>2 DEF Recorded
<1>4. Numbered BY DEF LegacyInv
<1> HIDE DEF j, k
<1>5. \A n \in next : Idle(n, j)
  <2>1. \A n \in HandOff(j, j.amt["eth"]) : Idle(n, j) BY <1>2, HandOffIdle
  <2>2. \A n \in GasBefore(k, "approve_bridge") : Idle(n, j)
    BY <1>3, GasBeforeSame DEF Same, Idle
  <2>3. Idle(At(j, "sol_bridge"), j) BY <1>2, AtSame DEF Same, Idle
  <2> QED BY <2>1, <2>2, <2>3
<1> HIDE DEF next
<1>6. CASE next = {} BY <1>1, <1>2, <1>4, <1>6, HarmlessFresh, ThrowsKeeps DEF j
<1>7. CASE next # {} BY <1>1, <1>2, <1>5, <1>7, GoesOnKeeps DEF j
<1> QED BY <1>6, <1>7

LEMMA ConfirmedKeeps ==
  ASSUME LegacyInv, NEW h \in tick, h.at = "read", Confirmed(h.of) PROVE Preserves
<1> DEFINE j == h.of
<1>1. /\ j.pend # 0 /\ NoFault
      /\ IF Confirms(j) = {} THEN Throws(j) ELSE \E n \in Confirms(j) : Saves(n)
  BY DEF Confirmed
<1>2. Recorded(j) /\ j.status \in EthStep /\ Numbered BY DEF LegacyInv, OneEach
<1>3. ASSUME ~Forgotten, j.status # "bridge_token" PROVE Harmless(j.pend)
  <2>1. Good(j) BY <1>3, TickView
  <2>2. j.status \notin Bridging BY <1>1, <1>3, <2>1 DEF Good, Bridging
  <2> QED BY <1>2, <2>1, <2>2 DEF Good, Harmless
<1>4. CASE Confirms(j) = {}
  <2>1. j.status # "bridge_token" BY <1>2, <1>4, ConfirmsFacts
  <2>2. Throws(j) BY <1>1, <1>4
  <2>3. Forgotten => Forgotten' BY <1>1, <1>2, <2>2, ChainUntouched DEF Throws, chain
  <2> QED BY <1>1, <1>3, <2>1, <2>2, <2>3, ThrowsKeeps
<1>5. CASE Confirms(j) # {}
  <2>1. PICK n \in Confirms(j) : Saves(n) BY <1>1, <1>5
  <2>2. CASE j.status # "bridge_token"
    <3>1. Idle(n, j) BY <1>2, <2>1, <2>2, ConfirmsFacts
    <3>2. ASSUME ~Forgotten PROVE Good(n)
      <4>1. n.bridge = 0 BY <3>1, <3>2, TickView DEF Idle
      <4> QED BY <1>2, <3>1, <4>1, CleanIsGood DEF Idle
    <3>3. ~Forgotten /\ Followed /\ Alive' = Alive => Followed' BY <1>3, <2>2, TickFree
    <3> QED BY <1>1, <2>1, <3>1, <3>2, <3>3, SavesKeeps DEF Idle
  <2>3. CASE j.status = "bridge_token"
    <3>1. /\ Recorded(n) /\ n.pend = 0 /\ n.bridge = j.pend /\ n.status = "awaiting_signatures"
      BY <1>2, <2>1, <2>3, ConfirmsFacts
    <3>2. Good(n) BY <1>2, <3>1, CleanIsGood
    <3>3. ASSUME ~Forgotten, Followed, Alive' = Alive PROVE Followed'
      <4>1. job = {j} /\ tick = {h} /\ h.new = j /\ j.bridge = 0 BY <3>3, TickView
      <4>2. job' = {n} /\ tick' = {} BY <2>1 DEF Saves
      <4>3. Known' = Known BY <3>1, <4>1, <4>2 DEF Known
      <4> QED BY <3>3, <4>3 DEF Followed
    <3> QED BY <1>1, <2>1, <3>1, <3>2, <3>3, SavesKeeps
  <2> QED BY <2>2, <2>3
<1> QED BY <1>4, <1>5

\* A send: the transaction it adds, and the record that will be saved.
LEMMA SentFacts ==
  ASSUME Numbered, NEW x, x.id = sent + 1, pool' = Append(pool, x), sent' = sent + 1,
         UNCHANGED mined, NEW k, Fault(k) \/ NoFault
  PROVE  /\ Numbered' /\ Alive' = Alive \cup {x} /\ (Forgotten => Forgotten')
         /\ \A t \in Alive : t.id # x.id
<1> DEFINE q == Append(pool, x)
<1>1. /\ sent \in Nat /\ pool \in Seq(Range(pool)) /\ Len(pool) \in Nat
      /\ DOMAIN pool = 1..Len(pool) /\ \A i \in DOMAIN pool : pool[i] \in Range(pool)
  BY SeqRange DEF Numbered, Range
<1>2. /\ q \in Seq(Range(q)) /\ Range(q) = Range(pool) \cup {x}
      /\ Len(q) = Len(pool) + 1 /\ DOMAIN q = 1..Len(q)
      /\ \A i \in DOMAIN pool : q[i] = pool[i]
      /\ q[Len(pool) + 1] = x
  BY <1>1, AppendRange
<1>3. pool' = q OBVIOUS
<1> HIDE DEF q
<1>4. \A t \in Range(pool) : t.id \in 1..sent BY DEF Numbered
<1>5. sent + 1 \notin 1..sent /\ 1..sent \subseteq 1..sent + 1 /\ sent + 1 \in 1..sent + 1
  BY <1>1
<1>6. \A i, l \in DOMAIN q : q[i].id = q[l].id => i = l
  <2>1. \A i \in DOMAIN q : i \in DOMAIN pool \/ i = Len(pool) + 1 BY <1>1, <1>2
  <2>2. \A i \in DOMAIN pool : q[i].id # x.id BY <1>1, <1>2, <1>4, <1>5
  <2>3. \A i, l \in DOMAIN pool : pool[i].id = pool[l].id => i = l BY DEF Numbered
  <2> QED BY <1>2, <2>1, <2>2, <2>3
<1>7. faults' \in Seq(Range(faults')) /\ (Forgotten => Forgotten')
  BY FaultFacts DEF Numbered
<1>8. \A t \in Range(q) : t.id \in 1..sent + 1 BY <1>2, <1>4, <1>5
<1>9. \A m \in mined : m.tx.id \in 1..sent /\ m.ok \in BOOLEAN BY DEF Numbered
<1>10. \A m \in mined : \A t \in Range(q) : t.id # m.tx.id BY <1>2, <1>5, <1>9 DEF Numbered
<1>11. Numbered'
  BY <1>1, <1>2, <1>3, <1>5, <1>6, <1>7, <1>8, <1>9, <1>10 DEF Numbered
<1>12. Alive' = Alive \cup {x} BY <1>2, <1>3 DEF Alive
<1> QED BY <1>5, <1>7, <1>11, <1>12, AliveIds

LEMMA NotedFacts ==
  ASSUME NEW j, Recorded(j), NEW id, id = sent + 1
  PROVE  LET n == Noted(j)
         IN /\ Recorded(n)
            /\ j.status = "deposit_eth" =>
                 n.status = "awaiting_signatures" /\ n.bridge = id /\ n.pend = j.pend
            /\ j.status # "deposit_eth" =>
                 n.status = j.status /\ n.bridge = j.bridge /\ n.pend = id
<1>1. CASE j.status = "deposit_eth" BY <1>1 DEF Noted, At, Recorded
<1>2. CASE j.status = "collect_fee" BY <1>2 DEF Noted, At, Recorded
<1>3. CASE j.status = "wh_redeem" BY <1>3 DEF Noted, At, Recorded
<1>4. CASE j.status \notin {"deposit_eth", "collect_fee", "wh_redeem"}
  <2>1. Noted(j) = [j EXCEPT !.pend = id] BY <1>4 DEF Noted
  <2> QED BY <1>4, <2>1 DEF Recorded
<1> QED BY <1>1, <1>2, <1>3, <1>4

LEMMA SendsKeeps ==
  ASSUME LegacyInv, NEW h \in tick, h.at = "read", Sends(h.of) PROVE Preserves
<1>a. PICK j : j = h.of OBVIOUS
<1>b. PICK x : x = Tx(j) OBVIOUS
<1>c. PICK n : n = Noted(j) OBVIOUS
<1>d. PICK g : g = [at |-> "sent", of |-> j, new |-> n] OBVIOUS
<1>1. Numbered /\ OneEach /\ Recorded(j) /\ j.status \in EthStep BY <1>a DEF LegacyInv, OneEach
<1>2. j.pend = 0 BY <1>a DEF Sends
<1>3. PICK b \in {bal, was} :
        /\ Reads(b)
        /\ IF Affords(j, b) /\ Works(Tx(j), b)
           THEN /\ pool' = Append(pool, x) /\ sent' = sent + 1 /\ tick' = {g}
                /\ UNCHANGED <<job, retry, bal, was, allow, mined, vaa>>
           ELSE Throws(j)
  BY <1>a, <1>b, <1>c, <1>d DEF Sends
<1>4. Fault("behind") \/ NoFault BY <1>3 DEF Reads
<1>5. CASE Throws(j) BY <1>a, <1>1, <1>2, <1>4, <1>5, HarmlessFresh, ThrowsKeeps
<1>6. CASE /\ pool' = Append(pool, x) /\ sent' = sent + 1 /\ tick' = {g}
           /\ UNCHANGED <<job, retry, mined>>
  <2>1. x.id = sent + 1 /\ x.step = j.status BY <1>b DEF Tx
  <2>2. /\ Recorded(n)
        /\ j.status = "deposit_eth" =>
             n.status = "awaiting_signatures" /\ n.bridge = x.id /\ n.pend = 0
        /\ j.status # "deposit_eth" =>
             n.status = j.status /\ n.bridge = j.bridge /\ n.pend = x.id
    BY <1>1, <1>2, <1>c, <2>1, NotedFacts
  <2>3. g.at = "sent" /\ g.of = j /\ g.new = n BY <1>d
  <2>4. /\ Numbered' /\ Alive' = Alive \cup {x} /\ (Forgotten => Forgotten')
        /\ \A t \in Alive : t.id # x.id
    BY <1>1, <1>4, <1>6, <2>1, SentFacts
  <2>5. OneEach' BY <1>1, <1>6, <2>2, <2>3 DEF OneEach, Recorded
  <2>6. \A t \in Alive' : t.id # 0
    <3>1. sent \in Nat /\ \A t \in Alive : t.id \in 1..sent BY <1>1, AliveIds DEF Numbered
    <3> QED BY <2>1, <2>4, <3>1
  <2>7. ASSUME ~Forgotten'
        PROVE  /\ TickKnows' /\ RetryKnows' /\ \A i \in job' : Good(i)'
               /\ Followed => Followed'
    <3>1. retry = {} /\ job = {j} /\ tick = {h} /\ h.new = j /\ j.bridge = 0
      BY <1>a, <2>4, <2>7, TickView
    <3>2. Good(j)' BY <1>1, <1>2, <2>6, <3>1 DEF Good, Harmless
    <3>3. Good(n)'
      <4>1. CASE j.status = "deposit_eth" BY <2>2, <2>6, <4>1 DEF Good, Harmless, EthStep, Approval, Spending
      <4>2. CASE j.status # "deposit_eth" BY <1>1, <2>1, <2>2, <2>4, <3>1, <4>2 DEF Good
      <4> QED BY <4>1, <4>2
    <3>4. TickKnows' BY <1>2, <1>6, <2>3, <3>1, <3>3 DEF TickKnows
    <3>5. ASSUME Followed PROVE Followed'
      <4>1. Harmless(j.pend) BY <1>1, <1>2, HarmlessFresh
      <4>2. \A t \in Alive : t.step \notin Bridging BY <1>1, <3>1, <3>5, <4>1, NoneCarries
      <4>3. x.id \in {n.bridge, n.pend} BY <2>2
      <4>4. x.id \in Known' BY <1>6, <2>3, <4>3 DEF Known
      <4> QED BY <2>4, <4>2, <4>4 DEF Followed
    <3> QED BY <1>6, <3>1, <3>2, <3>4, <3>5 DEF RetryKnows
  <2> QED BY <2>4, <2>5, <2>7 DEF Preserves, LegacyInv
<1> QED BY <1>3, <1>5, <1>6

LEMMA SaveSentKeeps == ASSUME LegacyInv, SaveSent PROVE Preserves
<1>1. PICK h \in tick : h.at = "sent" /\ job' = {h.new} BY DEF SaveSent
<1>2. NoFault /\ tick' = {} /\ UNCHANGED <<retry, pool, mined, sent>> BY DEF SaveSent, chain
<1>3. Numbered /\ OneEach BY DEF LegacyInv
<1>4. Numbered' /\ Alive' = Alive /\ (Forgotten => Forgotten') BY <1>2, <1>3, ChainUntouched
<1>5. OneEach' BY <1>1, <1>2, <1>3 DEF OneEach, Recorded
<1>6. ASSUME ~Forgotten'
      PROVE  /\ TickKnows' /\ RetryKnows' /\ \A j \in job' : Good(j)'
             /\ Followed => Followed'
  <2>1. /\ retry = {} /\ job = {h.of} /\ h.of.pend = 0 /\ Good(h.new) /\ Good(h.of)
        /\ h.of.status \in EthStep /\ tick = {h}
    BY <1>1, <1>3, <1>4, <1>6 DEF LegacyInv, TickKnows, OneEach
  <2>2. h.of.bridge = 0 BY <2>1 DEF Good, EthStep, Approval, Spending
  <2>3. Good(h.new)' BY <1>4, <2>1, GoodKept
  <2>4. \A t \in Alive : t.id # 0 BY <1>3, AliveIds DEF Numbered
  <2>5. ASSUME NEW i \in Known, i # 0 PROVE i \in Known' BY <1>1, <1>2, <2>1, <2>2, <2>5 DEF Known
  <2> QED BY <1>1, <1>2, <1>4, <2>1, <2>3, <2>4, <2>5 DEF TickKnows, RetryKnows, Followed
<1> QED BY <1>4, <1>5, <1>6 DEF Preserves, LegacyInv

LEMMA RecoversKeeps == ASSUME LegacyInv, Recovers PROVE Preserves
<1>1. PICK h \in tick, now \in job, b \in {bal, was} :
        /\ h.at = "failed" /\ Reads(b)
        /\ \/ \E n \in Found(h.of, now, b) :
                Saves([n EXCEPT !.pend = 0, !.recoveries = h.of.recoveries + 1])
           \/ Saves([At(now, "error") EXCEPT !.failedAt = h.of.status])
  BY DEF Recovers
<1>2. Fault("behind") \/ NoFault BY <1>1 DEF Reads
<1>3. Numbered /\ OneEach /\ Recorded(now) /\ Recorded(h.of) BY DEF LegacyInv, OneEach
<1>4. ASSUME ~Forgotten
      PROVE  now = h.of /\ h.of.bridge = 0 /\ Harmless(h.of.pend)
  BY <1>1, <1>4, TickView
<1>5. ~Forgotten /\ Followed /\ Alive' = Alive => Followed' BY <1>1, <1>4, TickFree
<1>6. CASE \E n \in Found(h.of, now, b) :
             Saves([n EXCEPT !.pend = 0, !.recoveries = h.of.recoveries + 1])
  <2>1. PICK m \in Found(h.of, now, b) :
          Saves([m EXCEPT !.pend = 0, !.recoveries = h.of.recoveries + 1])
    BY <1>6
  <2> DEFINE n == [m EXCEPT !.pend = 0, !.recoveries = h.of.recoveries + 1]
  <2>2. Recorded(m) /\ m.bridge = now.bridge BY <1>3, FoundFacts
  <2>3. Recorded(n) /\ n.pend = 0 /\ n.bridge = now.bridge BY <2>2 DEF Recorded
  <2> HIDE DEF n
  <2>4. ~Forgotten => Good(n) BY <1>3, <1>4, <2>3, CleanIsGood
  <2>5. Saves(n) BY <2>1 DEF n
  <2> QED BY <1>1, <1>2, <1>5, <2>3, <2>4, <2>5, SavesKeeps
<1>7. CASE Saves([At(now, "error") EXCEPT !.failedAt = h.of.status])
  <2> DEFINE n == [At(now, "error") EXCEPT !.failedAt = h.of.status]
  <2>1. Recorded(n) /\ n.pend = now.pend /\ n.bridge = now.bridge /\ n.status = "error"
    BY <1>3 DEF At, Recorded
  <2> HIDE DEF n
  <2>2. ASSUME ~Forgotten PROVE Good(n)
    BY <1>4, <2>1, <2>2 DEF Good, EthStep, Approval, Spending
  <2>3. Saves(n) BY <1>7 DEF n
  <2> QED BY <1>1, <1>2, <1>5, <2>1, <2>2, <2>3, SavesKeeps
<1> QED BY <1>1, <1>6, <1>7

LEMMA VisitKeeps == ASSUME LegacyInv, Visit PROVE Preserves
<1>1. PICK j \in job : j.status \in EthStep /\ tick' = {[at |-> "read", of |-> j, new |-> j]}
  BY DEF Visit
<1>2. PICK g : g = [at |-> "read", of |-> j, new |-> j] OBVIOUS
<1>3. g.at = "read" /\ g.of = j /\ g.new = j /\ tick' = {g} BY <1>1, <1>2
<1>4. /\ tick = {} /\ (IF retry = {} THEN NoFault ELSE Fault("overlap"))
      /\ UNCHANGED <<job, retry, pool, mined, sent>>
  BY DEF Visit, chain
<1>5. Numbered /\ OneEach BY DEF LegacyInv
<1>6. /\ Numbered' /\ Alive' = Alive /\ (Forgotten => Forgotten')
      /\ retry # {} => Forgotten'
  BY <1>4, <1>5, ChainUntouched DEF Forgets
<1>7. OneEach' BY <1>1, <1>3, <1>4, <1>5 DEF OneEach, Recorded
<1>8. ASSUME ~Forgotten' PROVE TickKnows' /\ RetryKnows' /\ \A i \in job' : Good(i)'
  <2>1. retry = {} /\ job = {j} /\ Good(j) BY <1>5, <1>6, <1>8 DEF LegacyInv, OneEach
  <2>2. Good(j)' BY <1>6, <2>1, GoodKept
  <2> QED BY <1>3, <1>4, <2>1, <2>2 DEF TickKnows, RetryKnows
<1>9. Known' = Known BY <1>3, <1>4 DEF Known
<1> QED BY <1>6, <1>7, <1>8, <1>9 DEF Preserves, LegacyInv, Followed

LEMMA ResumeKeeps == ASSUME LegacyInv, NEW j \in job, Resume(j) PROVE Preserves
<1>1. PICK keep \in BOOLEAN, k \in {"overlap", "stalled", "unread", "none"} :
        /\ retry' = {[of |-> j, keep |-> keep]} /\ (Fault(k) \/ NoFault)
        /\ \/ k \in Forgets /\ Fault(k)
           \/ tick = {} /\ Stuck(j) /\ keep \in Keeps(j)
  <2>1. Keeps(j) \subseteq BOOLEAN BY DEF Keeps
  <2>2. {"overlap", "stalled", "unread"} \subseteq Forgets BY DEF Forgets
  <2>3. CASE \E keep \in Keeps(j) : retry' = {[of |-> j, keep |-> keep]}
                                    /\ IF tick # {} THEN Fault("overlap")
                                       ELSE IF Stuck(j) THEN NoFault ELSE Fault("stalled")
    BY <2>1, <2>2, <2>3
  <2>4. CASE Fault("unread") /\ retry' = {[of |-> j, keep |-> TRUE]}
    BY <2>2, <2>4
  <2> QED BY <2>3, <2>4 DEF Resume
<1>2. PICK r : r = [of |-> j, keep |-> keep] OBVIOUS
<1>3. r.of = j /\ r.keep = keep /\ retry' = {r} BY <1>1, <1>2
<1>4. j.status \in EthStep \cup {"error"} /\ UNCHANGED <<job, tick, pool, mined, sent>>
  BY DEF Resume, chain
<1>5. Numbered /\ OneEach BY DEF LegacyInv
<1>6. /\ Numbered' /\ Alive' = Alive /\ (Forgotten => Forgotten')
      /\ ~Forgotten' => tick = {} /\ Stuck(j) /\ keep \in Keeps(j)
  BY <1>1, <1>4, <1>5, ChainUntouched
<1>7. OneEach' BY <1>3, <1>4, <1>5 DEF OneEach, Recorded
<1>8. ASSUME ~Forgotten' PROVE TickKnows' /\ RetryKnows' /\ \A i \in job' : Good(i)'
  <2>1. job = {j} /\ Good(j) BY <1>5, <1>6, <1>8 DEF LegacyInv, OneEach
  <2>2. Harmless(j.pend)
    <3>1. CASE j.status = "error" BY <2>1, <3>1 DEF Good, EthStep, Approval, Spending
    <3>2. CASE Status(j.pend) = "gone" BY <1>5, <3>2, StatusFacts DEF Harmless
    <3> QED BY <1>6, <1>8, <3>1, <3>2 DEF Stuck
  <2>3. keep = FALSE
    <3>1. j.status = "error" \/ (j.pend # 0 /\ Status(j.pend) = "gone") BY <1>6, <1>8 DEF Stuck
    <3>2. Keeps(j) = {FALSE} BY <3>1 DEF Keeps
    <3> QED BY <1>6, <1>8, <3>2
  <2>4. Good(j)' /\ Harmless(j.pend)' BY <1>6, <2>1, <2>2, GoodKept
  <2> QED BY <1>3, <1>4, <1>6, <1>8, <2>1, <2>3, <2>4 DEF TickKnows, RetryKnows
<1>9. Known' = Known BY <1>4 DEF Known
<1> QED BY <1>6, <1>7, <1>8, <1>9 DEF Preserves, LegacyInv, Followed

LEMMA RetriedKeeps == ASSUME LegacyInv, Retried PROVE Preserves
<1>1. PICK r \in retry :
        LET j == r.of
            recorded == At(j, IF j.status = "error" THEN j.failedAt ELSE j.status)
            resumes(n) == job' = {[n EXCEPT !.failedAt = "none", !.pend = IF r.keep THEN @ ELSE 0]}
        IN \/ Fault("unasked") /\ resumes(recorded)
           \/ \E b \in {bal, was} :
                /\ Reads(b)
                /\ \E n \in IF Found(j, j, b) = {} THEN {recorded} ELSE Found(j, j, b) : resumes(n)
  BY Zenon DEF Retried
<1>2. PICK j : j = r.of OBVIOUS
<1>3. PICK l : l = At(j, IF j.status = "error" THEN j.failedAt ELSE j.status) OBVIOUS
<1>4. PICK k, m :
        /\ Fault(k) \/ NoFault
        /\ m = l \/ \E b : m \in Found(j, j, b)
        /\ job' = {[m EXCEPT !.failedAt = "none", !.pend = IF r.keep THEN @ ELSE 0]}
  <2>1. CASE Fault("unasked") /\ job' = {[l EXCEPT !.failedAt = "none", !.pend = IF r.keep THEN @ ELSE 0]}
    BY <2>1
  <2>2. CASE \E b \in {bal, was} :
               /\ Reads(b)
               /\ \E n \in IF Found(j, j, b) = {} THEN {l} ELSE Found(j, j, b) :
                    job' = {[n EXCEPT !.failedAt = "none", !.pend = IF r.keep THEN @ ELSE 0]}
    <3>1. PICK b, n :
            /\ Reads(b) /\ (n = l \/ n \in Found(j, j, b))
            /\ job' = {[n EXCEPT !.failedAt = "none", !.pend = IF r.keep THEN @ ELSE 0]}
      BY <2>2
    <3>2. Fault("behind") \/ NoFault BY <3>1 DEF Reads
    <3> QED BY <3>1, <3>2
  <2> QED BY <1>1, <1>2, <1>3, <2>1, <2>2
<1>5. PICK n : n = [m EXCEPT !.failedAt = "none", !.pend = IF r.keep THEN @ ELSE 0] OBVIOUS
<1>6. Numbered /\ OneEach /\ Recorded(j) BY <1>2 DEF LegacyInv, OneEach
<1>7. /\ Recorded(m) /\ m.bridge = j.bridge
      /\ j.bridge # 0 => m.status = (IF j.status = "error" THEN j.failedAt ELSE j.status)
  BY <1>3, <1>4, <1>6, AtSame, FoundFacts DEF Same
<1>8. /\ Recorded(n) /\ n.bridge = j.bridge /\ n.status = m.status
      /\ r.keep = FALSE => n.pend = 0
  BY <1>5, <1>7 DEF Recorded
<1>9. job' = {n} /\ retry' = {} /\ UNCHANGED <<tick, pool, mined, sent>>
  BY <1>4, <1>5 DEF Retried, chain
<1>10. Numbered' /\ Alive' = Alive /\ (Forgotten => Forgotten') BY <1>4, <1>6, <1>9, ChainUntouched
<1>11. OneEach' BY <1>6, <1>8, <1>9 DEF OneEach, Recorded
<1>12. ASSUME ~Forgotten'
       PROVE  /\ TickKnows' /\ RetryKnows' /\ \A i \in job' : Good(i)'
              /\ Followed => Followed'
  <2>1. /\ tick = {} /\ job \in {{}, {j}} /\ n.pend = 0 /\ Harmless(j.pend) /\ Good(j)
        /\ j.status \in EthStep \cup {"error"}
    BY <1>2, <1>8, <1>10, <1>12 DEF LegacyInv, TickKnows, RetryKnows
  <2>2. n.bridge # 0 => n.status = "awaiting_signatures"
    BY <1>7, <1>8, <2>1 DEF Good, EthStep, Approval, Spending
  <2>3. Good(n) BY <1>6, <1>8, <2>1, <2>2, CleanIsGood
  <2>4. Good(n)' BY <1>10, <2>3, GoodKept
  <2>5. ASSUME Followed, NEW t \in Alive, t.step \in Bridging PROVE t.id \in Known'
    <3>1. t.id \in {0, j.bridge, j.pend} BY <2>1, <2>5 DEF Followed, Known
    <3>2. t.id # 0 /\ t.id # j.pend BY <1>6, <2>1, <2>5, AliveIds DEF Harmless, Numbered
    <3> QED BY <1>8, <1>9, <3>1, <3>2 DEF Known
  <2>6. Followed => Followed' BY <1>10, <2>5 DEF Followed
  <2> QED BY <1>9, <2>1, <2>4, <2>6 DEF TickKnows, RetryKnows
<1> QED BY <1>10, <1>11, <1>12 DEF Preserves, LegacyInv

LEMMA TimesOutKeeps == ASSUME LegacyInv, NEW j \in job, TimesOut(j) PROVE Preserves
<1>1. PICK n : n = [At(j, "error") EXCEPT !.failedAt = "awaiting_signatures"] OBVIOUS
<1>2. /\ j.status = "awaiting_signatures" /\ Fault("slow")
      /\ job' = {n} /\ UNCHANGED <<tick, retry, pool, mined, sent>>
  BY <1>1 DEF TimesOut, chain
<1>3. Numbered /\ OneEach /\ Recorded(j) /\ job = {j} BY DEF LegacyInv, OneEach
<1>4. /\ Recorded(n) /\ n.pend = j.pend /\ n.bridge = j.bridge
      /\ n.status = "error" /\ n.failedAt = "awaiting_signatures"
  BY <1>1, <1>3 DEF At, Recorded
<1>5. Numbered' /\ Alive' = Alive /\ (Forgotten => Forgotten') BY <1>2, <1>3, ChainUntouched
<1>6. OneEach' BY <1>2, <1>3, <1>4 DEF OneEach, Recorded
<1>7. ASSUME ~Forgotten' PROVE TickKnows' /\ RetryKnows' /\ \A i \in job' : Good(i)'
  <2>1. TickKnows /\ RetryKnows /\ Good(j) BY <1>5, <1>7 DEF LegacyInv
  <2>2. j.status \notin EthStep \cup {"error"} BY <1>2 DEF EthStep, Approval, Spending
  <2>3. tick = {} /\ retry = {} BY <1>3, <2>1, <2>2 DEF TickKnows, RetryKnows, OneEach
  <2>4. Good(n) BY <1>4, <2>1, <2>2 DEF Good, EthStep, Approval, Spending
  <2>5. Good(n)' BY <1>5, <2>4, GoodKept
  <2> QED BY <1>2, <2>3, <2>5 DEF TickKnows, RetryKnows
<1>8. Known' = Known BY <1>2, <1>3, <1>4 DEF Known
<1> QED BY <1>5, <1>6, <1>7, <1>8 DEF Preserves, LegacyInv, Followed

LEMMA ResetKeeps == ASSUME LegacyInv, NEW j \in job, Reset(j) PROVE Preserves
<1>1. /\ j.status = "error" /\ j.bridge = 0 /\ NoFault
      /\ job' = {} /\ UNCHANGED <<tick, retry, pool, mined, sent>>
  BY DEF Reset, chain
<1>2. Numbered /\ OneEach /\ job = {j} BY DEF LegacyInv, OneEach
<1>3. Numbered' /\ Alive' = Alive /\ (Forgotten => Forgotten') BY <1>1, <1>2, ChainUntouched
<1>4. OneEach' BY <1>1, <1>2 DEF OneEach, Recorded
<1>5. ASSUME ~Forgotten'
      PROVE  /\ TickKnows' /\ RetryKnows' /\ \A i \in job' : Good(i)'
             /\ Followed => Followed'
  <2>1. TickKnows /\ RetryKnows /\ Good(j) BY <1>3, <1>5 DEF LegacyInv
  <2>2. j.status \notin EthStep BY <1>1 DEF EthStep, Approval, Spending
  <2>3. tick = {} BY <1>2, <2>1, <2>2 DEF TickKnows, OneEach
  <2>4. \A r : (Good(r) => Good(r)') /\ (Harmless(r.pend) => Harmless(r.pend)')
    BY <1>3, GoodKept
  <2>5. RetryKnows' BY <1>1, <2>1, <2>4 DEF RetryKnows
  <2>6. ASSUME Followed PROVE Followed'
    <3>1. Harmless(j.pend) BY <2>1, <2>2 DEF Good
    <3>2. \A t \in Alive : t.step \notin Bridging BY <1>1, <1>2, <2>3, <2>6, <3>1, NoneCarries
    <3> QED BY <1>3, <3>2, FollowedThen
  <2> QED BY <1>1, <2>3, <2>5, <2>6 DEF TickKnows
<1> QED BY <1>3, <1>4, <1>5 DEF Preserves, LegacyInv

-----------------------------------------------------------------------------
(* The chain's own steps. *)

LEMMA MinedFacts ==
  ASSUME Numbered, pool # << >>, pool' = Tail(pool), NEW ok \in BOOLEAN,
         mined' = mined \cup {[tx |-> Head(pool), ok |-> ok]}, UNCHANGED sent,
         NEW k, Fault(k) \/ NoFault
  PROVE  Numbered' /\ Alive' \subseteq Alive /\ (Forgotten => Forgotten')
<1> DEFINE q == Tail(pool)
<1>1. PICK x : x = pool[1] OBVIOUS
<1>2. PICK e : e = [tx |-> x, ok |-> ok] OBVIOUS
<1>3. e.tx = x /\ e.ok = ok BY <1>2
<1>4. /\ pool \in Seq(Range(pool)) /\ Len(pool) \in Nat /\ DOMAIN pool = 1..Len(pool)
      /\ \A i \in DOMAIN pool : pool[i] \in Range(pool)
  BY SeqRange DEF Numbered, Range
<1>5. /\ q \in Seq(Range(q)) /\ DOMAIN q = 1..Len(pool) - 1 /\ 1 \in DOMAIN pool
      /\ \A i \in DOMAIN q : i + 1 \in DOMAIN pool /\ q[i] = pool[i + 1]
  BY <1>4, TailRange
<1>6. Head(pool) = x BY <1>1, <1>4
<1>7. pool' = q /\ mined' = mined \cup {e} BY <1>2, <1>6
<1> HIDE DEF q
<1>8. x \in Range(pool) BY <1>1, <1>4, <1>5
<1>9. Range(q) \subseteq Range(pool) BY <1>4, <1>5 DEF Range
<1>10. \A i, l \in DOMAIN pool : pool[i].id = pool[l].id => i = l BY DEF Numbered
<1>11. \A i \in DOMAIN q : i + 1 # 1 /\ i \in Int BY <1>4, <1>5
<1>12. \A t \in Range(q) : t.id # x.id BY <1>1, <1>5, <1>10, <1>11 DEF Range
<1>13. \A i, l \in DOMAIN q : q[i].id = q[l].id => i = l
  <2> SUFFICES ASSUME NEW i \in DOMAIN q, NEW l \in DOMAIN q, q[i].id = q[l].id PROVE i = l
    OBVIOUS
  <2>1. i + 1 = l + 1 BY <1>5, <1>10
  <2> QED BY <1>11, <2>1
<1>14. faults' \in Seq(Range(faults')) /\ (Forgotten => Forgotten') BY FaultFacts DEF Numbered
<1>15. /\ \A t \in Range(pool) : t.id \in 1..sent
       /\ \A m \in mined : m.tx.id \in 1..sent /\ m.ok \in BOOLEAN
       /\ \A m \in mined : \A t \in Range(pool) : t.id # m.tx.id
       /\ \A m, n \in mined : m.tx.id = n.tx.id => m = n
       /\ sent \in Nat
  BY DEF Numbered
<1>16. \A m, n \in mined' : m.tx.id = n.tx.id => m = n BY <1>3, <1>7, <1>8, <1>15
<1>17. \A m \in mined' : \A t \in Range(q) : t.id # m.tx.id BY <1>3, <1>7, <1>9, <1>12, <1>15
<1>18. \A m \in mined' : m.tx.id \in 1..sent /\ m.ok \in BOOLEAN BY <1>3, <1>7, <1>8, <1>15
<1>19. Numbered'
  BY <1>5, <1>7, <1>9, <1>13, <1>14, <1>15, <1>16, <1>17, <1>18 DEF Numbered
<1>20. Alive' \subseteq Alive BY <1>3, <1>7, <1>8, <1>9 DEF Alive
<1> QED BY <1>14, <1>19, <1>20

LEMMA MineKeeps == ASSUME LegacyInv, Mine PROVE Preserves
<1>1. pool # << >> /\ pool' = Tail(pool) /\ UNCHANGED <<job, tick, retry, sent>> BY DEF Mine
<1>2. /\ Fault("reverted") \/ NoFault
      /\ \E ok \in BOOLEAN : mined' = mined \cup {[tx |-> Head(pool), ok |-> ok]}
  BY DEF Mine
<1>3. Numbered BY DEF LegacyInv
<1>4. Numbered' /\ Alive' \subseteq Alive /\ (Forgotten => Forgotten')
  BY <1>1, <1>2, <1>3, MinedFacts
<1> QED BY <1>1, <1>4, ChainKeeps

LEMMA DropKeeps == ASSUME LegacyInv, Drop PROVE Preserves
<1> DEFINE q == Front(pool)
<1>1. /\ pool # << >> /\ Fault("dropped") /\ pool' = q
      /\ UNCHANGED <<job, tick, retry, mined, sent>>
  BY DEF Drop
<1>2. Numbered BY DEF LegacyInv
<1>3. /\ q \in Seq(Range(q)) /\ DOMAIN q \subseteq DOMAIN pool
      /\ \A i \in DOMAIN q : q[i] = pool[i]
  BY <1>1, <1>2, FrontRange DEF Numbered
<1> HIDE DEF q
<1>4. Range(q) \subseteq Range(pool) BY <1>3 DEF Range
<1>5. faults' \in Seq(Range(faults')) /\ (Forgotten => Forgotten')
  BY <1>1, <1>2, FaultFacts DEF Numbered
<1>6. \A i, l \in DOMAIN q : q[i].id = q[l].id => i = l BY <1>2, <1>3 DEF Numbered
<1>7. Numbered' BY <1>1, <1>2, <1>3, <1>4, <1>5, <1>6 DEF Numbered
<1>8. Alive' \subseteq Alive BY <1>1, <1>4 DEF Alive
<1> QED BY <1>1, <1>5, <1>7, <1>8, ChainKeeps

LEMMA LapseKeeps == ASSUME LegacyInv, Lapse PROVE Preserves
<1>1. Fault("lapsed") /\ UNCHANGED <<job, tick, retry, pool, mined, sent>> BY DEF Lapse
<1>2. Numbered' /\ Alive' = Alive /\ (Forgotten => Forgotten') BY <1>1, ChainUntouched DEF LegacyInv
<1> QED BY <1>1, <1>2, ChainKeeps

LEMMA RelayedKeeps == ASSUME LegacyInv, Relayed PROVE Preserves
<1>1. NoFault /\ UNCHANGED <<job, tick, retry, pool, mined, sent>> BY DEF Relayed
<1>2. Numbered' /\ Alive' = Alive /\ (Forgotten => Forgotten') BY <1>1, ChainUntouched DEF LegacyInv
<1> QED BY <1>1, <1>2, ChainKeeps

-----------------------------------------------------------------------------

LEMMA LegacyInitHolds == LegacyInit => LegacyInv
<1> SUFFICES ASSUME LegacyInit PROVE LegacyInv
  OBVIOUS
<1>1. PICK s \in Deposits : job = {s.job} /\ pool = s.pool /\ sent = Len(s.pool) BY DEF LegacyInit
<1>2. tick = {} /\ retry = {} /\ mined = {} /\ faults = << >> BY DEF LegacyInit
<1>3. /\ Recorded(s.job) /\ s.job.status \in EthStep /\ s.job.bridge = 0
      /\ s.job.status = "deposit_eth" => s.job.pend = 0
      /\ pool \in Seq(Range(pool))
      /\ \A i \in DOMAIN pool : pool[i].id = i /\ (i = s.job.pend => pool[i].step = s.job.status)
  BY <1>1, DepositsAreLeft DEF Recorded
<1>4. sent \in Nat /\ DOMAIN pool = 1..sent BY <1>1, <1>3, SeqRange
<1>5. \A t \in Range(pool) : t.id \in DOMAIN pool /\ (t.id = s.job.pend => t.step = s.job.status)
  BY <1>3 DEF Range
<1>6. faults \in Seq(Range(faults)) BY <1>2, EmptySeq
<1>7. Numbered BY <1>2, <1>3, <1>4, <1>5, <1>6 DEF Numbered
<1>8. OneEach BY <1>1, <1>2, <1>3 DEF OneEach
<1>9. Alive = Range(pool) BY <1>2 DEF Alive
<1>10. Good(s.job) BY <1>3, <1>5, <1>9 DEF Good
<1> QED BY <1>1, <1>2, <1>7, <1>8, <1>10 DEF LegacyInv, TickKnows, RetryKnows

LEMMA LegacyStepKeeps == LegacyInv /\ [LegacyNext]_legacyVars => Preserves
<1> SUFFICES ASSUME LegacyInv, [LegacyNext]_legacyVars PROVE Preserves
  OBVIOUS
<1>1. CASE Mine BY <1>1, MineKeeps
<1>2. CASE Drop BY <1>2, DropKeeps
<1>3. CASE Lapse BY <1>3, LapseKeeps
<1>4. CASE Relayed BY <1>4, RelayedKeeps
<1>5. CASE Visit BY <1>5, VisitKeeps
<1>6. CASE SaveSent BY <1>6, SaveSentKeeps
<1>7. CASE Dies BY <1>7, DiesKeeps
<1>8. CASE Recovers BY <1>8, RecoversKeeps
<1>9. CASE \E j \in Reading : Advances(j)
  <2>1. PICK h \in tick : h.at = "read" /\ Advances(h.of) BY <1>9 DEF Reading
  <2> QED BY <2>1, WaitsKeeps, RevertedKeeps, ConfirmedKeeps, SkipsKeeps, HonouredKeeps,
             SendsKeeps, BreaksKeeps DEF Advances
<1>10. CASE \E j \in job : Resume(j) \/ TimesOut(j) \/ Reset(j)
  BY <1>10, ResumeKeeps, TimesOutKeeps, ResetKeeps
<1>11. CASE Retried BY <1>11, RetriedKeeps
<1>12. CASE UNCHANGED legacyVars
  <2>1. NoFault /\ UNCHANGED <<job, tick, retry, pool, mined, sent>>
    BY <1>12 DEF legacyVars, chain, NoFault
  <2>2. Numbered' /\ Alive' = Alive /\ (Forgotten => Forgotten') BY <2>1, ChainUntouched DEF LegacyInv
  <2> QED BY <2>1, <2>2, ChainKeeps
<1> QED BY <1>1, <1>2, <1>3, <1>4, <1>5, <1>6, <1>7, <1>8, <1>9, <1>10, <1>11, <1>12 DEF LegacyNext

\* The numbers of the transactions, the copies of the job that the timer and Retry go
\* by and what its record says of its transactions: the strengthening of KeepsTransfer.
THEOREM LegacyHolds == LegacySpec => []LegacyInv
<1>1. LegacyInv /\ [LegacyNext]_legacyVars => LegacyInv'
  BY LegacyStepKeeps DEF Preserves
<1> QED BY LegacyInitHolds, <1>1, PTL DEF LegacySpec

\* A transaction that hands the deposit to the bridge stays on the job's record, unless
\* its hash was forgotten in one of the four ways: whatever else fails, is dropped,
\* recovered, retried or reset (advanceEth(), failOrRecover(), resume(), reset()).
THEOREM TransferKept == LegacySpec => KeepsTransfer
<1>1. LegacyInv /\ [LegacyNext]_legacyVars => [Followed /\ ~Followed' => Forgotten']_legacyVars
  BY LegacyStepKeeps DEF Preserves
<1> QED BY LegacyHolds, <1>1, PTL DEF LegacySpec, KeepsTransfer

===============================================================================
