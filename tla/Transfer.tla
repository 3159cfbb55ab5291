------------------------------ MODULE Transfer ------------------------------
(***************************************************************************)
(* The transfer engine of adbrsync-core (transfer.rs): a pool of workers,  *)
(* each with its own sync stream, pulls files from one shared queue, reads *)
(* each file from the device once and writes it to every destination that  *)
(* needs it, through a temporary name and a rename.                        *)
(*                                                                         *)
(* A worker's step is one access to state it shares with the others (the   *)
(* queue, the counters of Stats) or one operation on a disk; steps on a    *)
(* worker's own variables are folded into the access next to them.  A file *)
(* is abstracted to the number of its DATA chunks.  Any disk operation and *)
(* any read from the device may fail.                                      *)
(***************************************************************************)
EXTENDS Integers, Sequences, FiniteSets, FiniteSetsExt

CONSTANTS
  Transfers,     \* plan.transfers: the files to read, in queue order
  Targets,       \* TransferItem.targets: the destinations that need a file
  Size,          \* the number of DATA chunks the device sends for a file
  Dests,         \* the indices of the destinations
  Streams,       \* TransferOptions.streams
  PreserveMtime, \* TransferOptions.preserve_mtime
  Limit,         \* DEST_FAILURE_LIMIT
  NoItem         \* what a worker holds before its first file

Items == {Transfers[k] : k \in 1..Len(Transfers)}

(* The planner emits each file once, with at least one target; an empty    *)
(* plan never starts a worker (transfer.rs:269).                           *)
ASSUME TransferAssumption ==
  /\ Transfers \in Seq(Items) /\ Transfers # <<>>
  /\ \A j, k \in 1..Len(Transfers) : Transfers[j] = Transfers[k] => j = k
  /\ Dests \subseteq Nat /\ Dests # {} /\ IsFiniteSet(Dests)
  /\ Targets \in [Items -> (SUBSET Dests) \ {{}}]
  /\ Size \in [Items -> Nat]
  /\ Streams \in Nat /\ PreserveMtime \in BOOLEAN
  /\ Limit \in Nat \ {0}
  /\ NoItem \notin Items

(* opts.streams.clamp(1, plan.transfers.len()) *)
StreamCount == IF Streams < 1 THEN 1
               ELSE IF Streams > Len(Transfers) THEN Len(Transfers) ELSE Streams
Workers == 1..StreamCount

Absent == -1     \* no such file, or still the one an earlier run left

VARIABLES
  phase,        \* "prepare", "run", "finished" or "aborted"
  unprepared,   \* destinations create_dirs could not prepare
  queue,        \* the shared VecDeque<TransferItem>
  \* Stats, shared by all workers
  failures, disabled, bytesDone, filesDone, destFiles,
  \* one worker's progress through its loop and through fetch_one
  pc, item, todo, targets, open, failed, writtenOff, limitHit, chunks,
  \* the destinations: the temporary and the final name of every file
  temp, final,
  \* the workers' results, joined: what the TransferReport is made of
  files, bytes, errFile, errDest, errGiveUp, errStream, unstarted,
  \* history: disk failures per destination, temporaries that could not be
  \* removed, copies whose time could not be set, and files the device or
  \* the stream failed to deliver
  hurt, stuck, undated, devFailed

stats   == <<failures, disabled, bytesDone, filesDone, destFiles>>
fetch   == <<item, todo, targets, open, failed, writtenOff, limitHit, chunks>>
disk    == <<temp, final>>
results == <<files, bytes, errFile, errDest, errGiveUp, errStream, unstarted>>
history == <<hurt, stuck, undated, devFailed>>
vars == <<phase, unprepared, queue, stats, pc, fetch, disk, results, history>>

-----------------------------------------------------------------------------
Init ==
  /\ phase = "prepare" /\ unprepared = {}
  /\ queue = Transfers
  /\ failures = [d \in Dests |-> 0] /\ disabled = [d \in Dests |-> FALSE]
  /\ bytesDone = 0 /\ filesDone = 0 /\ destFiles = [d \in Dests |-> 0]
  /\ pc = [w \in Workers |-> "start"]
  /\ item = [w \in Workers |-> NoItem]
  /\ todo = [w \in Workers |-> {}] /\ targets = [w \in Workers |-> {}]
  /\ open = [w \in Workers |-> {}] /\ failed = [w \in Workers |-> {}]
  /\ writtenOff = [w \in Workers |-> {}] /\ limitHit = [w \in Workers |-> {}]
  /\ chunks = [w \in Workers |-> 0]
  /\ temp = [d \in Dests |-> [i \in Items |-> Absent]]
  /\ final = [d \in Dests |-> [i \in Items |-> Absent]]
  /\ files = 0 /\ bytes = 0
  /\ errFile = {} /\ errDest = {} /\ errGiveUp = {}
  /\ errStream = {} /\ unstarted = {}
  /\ hurt = [d \in Dests |-> 0] /\ stuck = {} /\ undated = {} /\ devFailed = {}

(* create_dirs: a destination that cannot be prepared is left out and      *)
(* disabled; when none can be, the run ends before any transfer.           *)
CreateDirs ==
  /\ phase = "prepare"
  /\ \E bad \in SUBSET Dests :
       /\ unprepared' = bad
       /\ phase' = IF bad = Dests THEN "aborted" ELSE "run"
       /\ disabled' = [d \in Dests |-> d \in bad /\ bad # Dests]
  /\ UNCHANGED <<queue, failures, bytesDone, filesDone, destFiles, pc, fetch,
                 disk, results, history>>

-----------------------------------------------------------------------------
(* The worker loop.                                                        *)

At(w, p)   == phase = "run" /\ pc[w] = p /\ limitHit[w] = {}
Goto(w, p) == pc' = [pc EXCEPT ![w] = p]

(* The loops over item.targets visit the destinations in index order. *)
NextDest(w) == Min(todo[w])
Visited(w)  == todo' = [todo EXCEPT ![w] = @ \ {NextDest(w)}]

OpenStream(w) ==
  /\ At(w, "start")
  /\ \/ Goto(w, "loop") /\ UNCHANGED unstarted
     \/ Goto(w, "done") /\ unstarted' = unstarted \union {w}
  /\ UNCHANGED <<phase, unprepared, queue, stats, fetch, disk, files, bytes,
                 errFile, errDest, errGiveUp, errStream, history>>

CheckDests(w) ==
  /\ At(w, "loop")
  /\ Goto(w, IF \A d \in Dests : disabled[d] THEN "done" ELSE "pop")
  /\ UNCHANGED <<phase, unprepared, queue, stats, fetch, disk, results, history>>

AfterLastSpins == "loop" \* mutant: continue
AfterLast == "done"      \* break

QueueEmpty(w) ==
  /\ At(w, "pop") /\ queue = <<>>
  /\ Goto(w, AfterLast)
  /\ UNCHANGED <<phase, unprepared, queue, stats, fetch, disk, results, history>>

PopItem(w) ==
  /\ At(w, "pop") /\ queue # <<>>
  /\ queue' = Tail(queue)
  /\ item' = [item EXCEPT ![w] = Head(queue)]
  /\ todo' = [todo EXCEPT ![w] = Targets[Head(queue)]]
  /\ targets' = [targets EXCEPT ![w] = {}] /\ open' = [open EXCEPT ![w] = {}]
  /\ failed' = [failed EXCEPT ![w] = {}]
  /\ writtenOff' = [writtenOff EXCEPT ![w] = {}]
  /\ Goto(w, "open")
  /\ UNCHANGED <<phase, unprepared, stats, limitHit, chunks, disk, results, history>>

ReportedNone(w) == {}    \* mutant: fetched.failed is dropped
Reported(w) == {item[w]} \X failed[w]

(* fetch_one returned Ok: the failures it collected become errors of the   *)
(* report, and the file counts as done.                                    *)
FetchOk(w) ==
  /\ files' = files + 1 /\ bytes' = bytes + chunks[w]
  /\ errDest' = errDest \union Reported(w)
  /\ errGiveUp' = errGiveUp \union writtenOff[w]
  /\ filesDone' = filesDone + 1
  /\ chunks' = [chunks EXCEPT ![w] = 0]
  /\ Goto(w, "loop")
  /\ UNCHANGED <<errFile, errStream, unstarted>>

AfterErrorStops(broke) == IF broke THEN "reopen" ELSE "done" \* mutant: break
AfterError(broke) == IF broke THEN "reopen" ELSE "loop"

(* fetch_one returned Err: one error names the file, what it had collected *)
(* is lost, and the stream is replaced when breaks_stream says so.         *)
FetchErr(w, broke) ==
  /\ errFile' = errFile \union {item[w]}
  /\ filesDone' = filesDone + 1
  /\ chunks' = [chunks EXCEPT ![w] = 0]
  /\ Goto(w, AfterError(broke))
  /\ UNCHANGED <<files, bytes, errDest, errGiveUp, errStream, unstarted>>

Reopen(w) ==
  /\ At(w, "reopen")
  /\ \/ Goto(w, "loop") /\ UNCHANGED errStream
     \/ Goto(w, "done") /\ errStream' = errStream \union {w}
  /\ UNCHANGED <<phase, unprepared, queue, stats, fetch, disk, files, bytes,
                 errFile, errDest, errGiveUp, unstarted, history>>

-----------------------------------------------------------------------------
(* fetch_one, first part: a temporary file at every target still in use.   *)

SkipDisabled(w) ==
  /\ At(w, "open") /\ todo[w] # {}
  /\ disabled[NextDest(w)]
  /\ Visited(w)
  /\ UNCHANGED <<phase, unprepared, queue, stats, pc, item, targets, open, failed,
                 writtenOff, limitHit, chunks, disk, results, history>>

OpenTemp(w) ==
  LET d == NextDest(w) IN
  /\ At(w, "open") /\ todo[w] # {}
  /\ ~disabled[d]
  /\ Visited(w)
  /\ temp' = [temp EXCEPT ![d][item[w]] = 0]
  /\ targets' = [targets EXCEPT ![w] = @ \union {d}]
  /\ open' = [open EXCEPT ![w] = @ \union {d}]
  /\ UNCHANGED <<phase, unprepared, queue, stats, pc, item, failed, writtenOff,
                 limitHit, chunks, final, results, history>>

(* The path is unsafe, or its directory or the file cannot be created. *)
OpenFails(w) ==
  LET d == NextDest(w) IN
  /\ At(w, "open") /\ todo[w] # {}
  /\ ~disabled[d]
  /\ Visited(w)
  /\ failed' = [failed EXCEPT ![w] = @ \union {d}]
  /\ hurt' = [hurt EXCEPT ![d] = @ + 1]
  /\ UNCHANGED <<phase, unprepared, queue, stats, pc, item, targets, open,
                 writtenOff, limitHit, chunks, disk, results, stuck, undated, devFailed>>

AllVisited(w) ==
  /\ At(w, "open") /\ todo[w] = {}
  /\ todo' = [todo EXCEPT ![w] = failed[w]]
  /\ Goto(w, "noteOpen")
  /\ UNCHANGED <<phase, unprepared, queue, stats, item, targets, open, failed,
                 writtenOff, limitHit, chunks, disk, results, history>>

LimitPassed(d) == failures[d] = Limit      \* mutant: the count before the add
LimitReached(d) == failures[d] + 1 = Limit

(* DestStats::note_failure is two atomic operations: the count, then, for  *)
(* the failure that reaches the limit, the swap of disabled (GiveUp).      *)
NoteFailure(w) ==
  /\ At(w, "noteOpen") \/ At(w, "noteWrite")
  /\ \E d \in todo[w] :
       /\ todo' = [todo EXCEPT ![w] = @ \ {d}]
       /\ failures' = [failures EXCEPT ![d] = @ + 1]
       /\ limitHit' = [limitHit EXCEPT ![w] = IF LimitReached(d) THEN {d} ELSE {}]
  /\ UNCHANGED <<phase, unprepared, queue, disabled, bytesDone, filesDone,
                 destFiles, pc, item, targets, open, failed, writtenOff, chunks,
                 disk, results, history>>

(* The open phase passes a scratch vector and drops what it collects. *)
GiveUp(w) ==
  /\ phase = "run"
  /\ \E d \in limitHit[w] :
       /\ disabled' = [disabled EXCEPT ![d] = TRUE]
       /\ writtenOff' = [writtenOff EXCEPT ![w] =
                           IF disabled[d] \/ pc[w] = "noteOpen" THEN @
                           ELSE @ \union {d}]
  /\ limitHit' = [limitHit EXCEPT ![w] = {}]
  /\ UNCHANGED <<phase, unprepared, queue, failures, bytesDone, filesDone,
                 destFiles, pc, item, todo, targets, open, failed, chunks, disk,
                 results, history>>

OpenPhaseOver(w) == At(w, "noteOpen") /\ todo[w] = {}
SomeTargetDisabled(w) == \E d \in Targets[item[w]] : disabled[d] \* mutant: any
AllTargetsDisabled(w) == \A d \in Targets[item[w]] : disabled[d]

(* Nothing was opened and every target is written off: Ok, with no error. *)
SkipFile(w) ==
  /\ OpenPhaseOver(w) /\ targets[w] = {} /\ AllTargetsDisabled(w)
  /\ failed' = [failed EXCEPT ![w] = {}]
  /\ files' = files + 1 /\ filesDone' = filesDone + 1
  /\ Goto(w, "loop")
  /\ UNCHANGED <<phase, unprepared, queue, failures, disabled, bytesDone,
                 destFiles, item, todo, targets, open, writtenOff, limitHit,
                 chunks, disk, bytes, errFile, errDest, errGiveUp, errStream,
                 unstarted, history>>

(* Nothing was opened: an io error, which breaks_stream takes for a lost   *)
(* stream although no request was sent.                                    *)
NothingOpened(w) ==
  /\ OpenPhaseOver(w) /\ targets[w] = {} /\ ~AllTargetsDisabled(w)
  /\ FetchErr(w, TRUE)
  /\ UNCHANGED <<phase, unprepared, queue, failures, disabled, bytesDone,
                 destFiles, item, todo, targets, open, failed, writtenOff,
                 limitHit, disk, history>>

StartRecv(w) ==
  /\ OpenPhaseOver(w) /\ targets[w] # {}
  /\ Goto(w, "recv")
  /\ UNCHANGED <<phase, unprepared, queue, stats, fetch, disk, results, history>>

-----------------------------------------------------------------------------
(* fetch_one, second part: SyncSession::recv into the Fanout.  A write to  *)
(* tokio's File returns once the chunk is buffered, so its failure shows   *)
(* at the next write or at the flush: when chunk k + 1 is accepted, chunk  *)
(* k is on disk.  The first write of a file is always accepted.            *)

HurtAll(S) == hurt' = [d \in Dests |-> hurt[d] + IF d \in S THEN 1 ELSE 0]
Landed(w, S) == temp' = [d \in Dests |->
                   IF d \in S THEN [temp[d] EXCEPT ![item[w]] = chunks[w]]
                   ELSE temp[d]]

AnyClosed(w, bad) == bad # {}             \* mutant: one failure ends the write
AllClosed(w, bad) == open[w] \subseteq bad

ReceiveData(w) ==
  /\ At(w, "recv") /\ chunks[w] < Size[item[w]]
  /\ \E bad \in SUBSET open[w] :
       /\ ~AllClosed(w, bad) /\ (chunks[w] = 0 => bad = {})
       /\ open' = [open EXCEPT ![w] = @ \ bad]
       /\ HurtAll(bad)
       /\ Landed(w, open[w] \ bad)
  /\ chunks' = [chunks EXCEPT ![w] = @ + 1]
  /\ bytesDone' = bytesDone + 1
  /\ UNCHANGED <<phase, unprepared, queue, failures, disabled, filesDone, destFiles,
                 pc, item, todo, targets, failed, writtenOff, limitHit, final,
                 results, stuck, undated, devFailed>>

(* Every destination has gone: the write itself fails, with the response   *)
(* half read.                                                              *)
SinkGone(w) ==
  /\ At(w, "recv") /\ chunks[w] \in 1..(Size[item[w]] - 1)
  /\ \E bad \in SUBSET open[w] :
       /\ AllClosed(w, bad)
       /\ open' = [open EXCEPT ![w] = @ \ bad]
       /\ HurtAll(bad)
  /\ Goto(w, "discardBroken")
  /\ UNCHANGED <<phase, unprepared, queue, stats, item, todo, targets, failed,
                 writtenOff, limitHit, chunks, disk, results, stuck, undated, devFailed>>

(* The device answers FAIL, which keeps the session, or the stream breaks. *)
RecvFails(w) ==
  /\ At(w, "recv")
  /\ \E p \in {"discard", "discardBroken"} : Goto(w, p)
  /\ devFailed' = devFailed \union {item[w]}
  /\ UNCHANGED <<phase, unprepared, queue, stats, fetch, disk, results, hurt, stuck,
                 undated>>

WrittenPlanned(w) == Size[item[w]]  \* mutant: the planned size
WrittenNone(w) == 0                \* mutant: no fetch_sub
Written(w) == chunks[w]

PartialsOpen(w) == open[w]          \* mutant: those that failed are forgotten
Partials(w) == targets[w]

Discard(w) ==
  /\ At(w, "discard") \/ At(w, "discardBroken")
  /\ bytesDone' = bytesDone - Written(w)
  /\ \E left \in SUBSET Partials(w) :
       /\ temp' = [d \in Dests |->
                     IF d \in Partials(w) \ left
                     THEN [temp[d] EXCEPT ![item[w]] = Absent] ELSE temp[d]]
       /\ stuck' = stuck \union (left \X {item[w]})
  /\ FetchErr(w, pc[w] = "discardBroken")
  /\ UNCHANGED <<phase, unprepared, queue, failures, disabled, destFiles, item, todo,
                 targets, open, failed, writtenOff, limitHit, final, hurt, undated,
                 devFailed>>

(* DONE: the flush settles the last buffered chunk at every destination. *)
RecvDone(w) ==
  /\ At(w, "recv") /\ chunks[w] = Size[item[w]]
  /\ \E bad \in SUBSET open[w] :
       LET still == open[w] \ bad
           lost  == targets[w] \ still
       IN  /\ open' = [open EXCEPT ![w] = still]
           /\ HurtAll(bad)
           /\ Landed(w, still)
           /\ failed' = [failed EXCEPT ![w] = @ \union lost]
           /\ todo' = [todo EXCEPT ![w] = lost]
  /\ Goto(w, "noteWrite")
  /\ UNCHANGED <<phase, unprepared, queue, stats, item, targets, writtenOff,
                 limitHit, chunks, final, results, stuck, undated, devFailed>>

-----------------------------------------------------------------------------
(* fetch_one, third part: rename into place at every destination that took *)
(* the whole file.                                                         *)

BeginInstall(w) ==
  /\ At(w, "noteWrite") /\ todo[w] = {}
  /\ todo' = [todo EXCEPT ![w] = targets[w]]
  /\ Goto(w, "install")
  /\ UNCHANGED <<phase, unprepared, queue, stats, item, targets, open, failed,
                 writtenOff, limitHit, chunks, disk, results, history>>

StillTarget(w, d) == d \in targets[w]  \* mutant: write failures are ignored
TookWhole(w, d) == d \in open[w]

RemoveTemp(w, d) ==
  \/ /\ temp' = [temp EXCEPT ![d][item[w]] = Absent]
     /\ UNCHANGED stuck
  \/ /\ stuck' = stuck \union {<<d, item[w]>>}
     /\ UNCHANGED temp

DropTarget(w) ==
  /\ At(w, "install") /\ todo[w] # {}
  /\ ~TookWhole(w, NextDest(w))
  /\ Visited(w)
  /\ RemoveTemp(w, NextDest(w))
  /\ UNCHANGED <<phase, unprepared, queue, stats, pc, item, targets, open, failed,
                 writtenOff, limitHit, chunks, final, results, hurt, undated, devFailed>>

(* The rename, then the modification time.  A time that cannot be set is   *)
(* reported but the file counts as written.                                *)
Install(w) ==
  LET d == NextDest(w) IN
  /\ At(w, "install") /\ todo[w] # {}
  /\ TookWhole(w, d)
  /\ Visited(w)
  /\ final' = [final EXCEPT ![d][item[w]] = temp[d][item[w]]]
  /\ temp' = [temp EXCEPT ![d][item[w]] = Absent]
  /\ destFiles' = [destFiles EXCEPT ![d] = @ + 1]
  /\ \/ UNCHANGED <<failed, undated>>
     \/ /\ PreserveMtime
        /\ failed' = [failed EXCEPT ![w] = @ \union {d}]
        /\ undated' = undated \union {<<item[w], d>>}
  /\ UNCHANGED <<phase, unprepared, queue, failures, disabled, bytesDone, filesDone,
                 pc, item, targets, open, writtenOff, limitHit, chunks, results,
                 hurt, stuck, devFailed>>

RenameFails(w) ==
  LET d == NextDest(w) IN
  /\ At(w, "install") /\ todo[w] # {}
  /\ TookWhole(w, d)
  /\ Visited(w)
  /\ failed' = [failed EXCEPT ![w] = @ \union {d}]
  /\ failures' = [failures EXCEPT ![d] = @ + 1]
  /\ limitHit' = [limitHit EXCEPT ![w] = IF LimitReached(d) THEN {d} ELSE {}]
  /\ hurt' = [hurt EXCEPT ![d] = @ + 1]
  /\ RemoveTemp(w, d)
  /\ UNCHANGED <<phase, unprepared, queue, disabled, bytesDone, filesDone, destFiles,
                 pc, item, targets, open, writtenOff, chunks, final, results,
                 undated, devFailed>>

FinishFile(w) ==
  /\ At(w, "install") /\ todo[w] = {}
  /\ FetchOk(w)
  /\ UNCHANGED <<phase, unprepared, queue, failures, disabled, bytesDone,
                 destFiles, item, todo, targets, open, failed, writtenOff,
                 limitHit, disk, history>>

-----------------------------------------------------------------------------
(* transfer::run joins the workers; no stream at all is an error. *)
Join ==
  /\ phase = "run" /\ \A w \in Workers : pc[w] = "done"
  /\ phase' = IF unstarted = Workers THEN "aborted" ELSE "finished"
  /\ UNCHANGED <<unprepared, queue, stats, pc, fetch, disk, results, history>>

Ended == phase \in {"finished", "aborted"} /\ UNCHANGED vars

WorkerStep(w) ==
  \/ OpenStream(w) \/ CheckDests(w) \/ QueueEmpty(w) \/ PopItem(w) \/ Reopen(w)
  \/ SkipDisabled(w) \/ OpenTemp(w) \/ OpenFails(w) \/ AllVisited(w)
  \/ NoteFailure(w) \/ GiveUp(w)
  \/ SkipFile(w) \/ NothingOpened(w) \/ StartRecv(w)
  \/ ReceiveData(w) \/ SinkGone(w) \/ RecvFails(w) \/ Discard(w) \/ RecvDone(w)
  \/ BeginInstall(w) \/ DropTarget(w) \/ Install(w) \/ RenameFails(w)
  \/ FinishFile(w)

Next == CreateDirs \/ Join \/ Ended \/ \E w \in Workers : WorkerStep(w)

(* tokio polls a ready task, and the device answers or the stream breaks:  *)
(* no read in the code has a timeout, so this is an assumption.  Since no  *)
(* worker waits for another, it need not be fair to each of them.          *)
Work == CreateDirs \/ Join \/ \E w \in Workers : WorkerStep(w)
Fairness == WF_vars(Work)

Spec == Init /\ [][Next]_vars /\ Fairness

-----------------------------------------------------------------------------
(* Correctness.                                                            *)

(* The type of every variable; a file name holds nothing or some prefix of *)
(* the file, which is what makes NoTruncatedFinal worth stating.           *)
TypeOK ==
  /\ phase \in {"prepare", "run", "finished", "aborted"}
  /\ unprepared \subseteq Dests
  /\ queue \in Seq(Items)
  /\ failures \in [Dests -> Nat] /\ disabled \in [Dests -> BOOLEAN]
  /\ bytesDone \in Nat /\ filesDone \in Nat /\ destFiles \in [Dests -> Nat]
  /\ pc \in [Workers -> {"start", "loop", "pop", "open", "noteOpen", "recv", "discard",
                         "discardBroken", "noteWrite", "install", "reopen", "done"}]
  /\ item \in [Workers -> Items \union {NoItem}]
  /\ todo \in [Workers -> SUBSET Dests] /\ targets \in [Workers -> SUBSET Dests]
  /\ open \in [Workers -> SUBSET Dests] /\ failed \in [Workers -> SUBSET Dests]
  /\ writtenOff \in [Workers -> SUBSET Dests]
  /\ limitHit \in [Workers -> SUBSET Dests]
  /\ chunks \in [Workers -> Nat]
  /\ temp \in [Dests -> [Items -> Nat \union {Absent}]]
  /\ final \in [Dests -> [Items -> Nat \union {Absent}]]
  /\ files \in Nat /\ bytes \in Nat
  /\ errFile \subseteq Items /\ errDest \subseteq Items \X Dests
  /\ errGiveUp \subseteq Dests
  /\ errStream \subseteq Workers /\ unstarted \subseteq Workers
  /\ hurt \in [Dests -> Nat] /\ stuck \subseteq Dests \X Items
  /\ undated \subseteq Items \X Dests /\ devFailed \subseteq Items

(* "An interrupted run never leaves a truncated file that looks complete"  *)
(* (fetch_one): in every state, the one an interruption would leave        *)
(* included, a final name holds nothing new or the whole file.             *)
NoTruncatedFinal ==
  \A d \in Dests, i \in Items : final[d][i] \in {Absent, Size[i]}

(* The progress counters: the bytes counted as they land are those of the  *)
(* files that were fetched plus those of the files now being received, and *)
(* every file is queued, in some worker's hands, or counted as done.       *)
InHand == {w \in Workers : pc[w] \in {"open", "noteOpen", "recv", "discard",
                                      "discardBroken", "noteWrite", "install"}}
InFlight == UNION {{w} \X (1..chunks[w]) : w \in Workers}
ProgressExact ==
  /\ bytesDone = bytes + Cardinality(InFlight)
  /\ filesDone + Cardinality(InHand) + Len(queue) = Len(Transfers)

(* A destination is written off by the failure that reaches the limit and  *)
(* by no other: with the count there, it is disabled or the worker that    *)
(* counted the last failure is about to disable it.                        *)
WriteOffExact ==
  \A d \in Dests :
    /\ failures[d] >= Limit =>
         disabled[d] \/ \E w \in Workers : d \in limitHit[w]
    /\ disabled[d] => failures[d] >= Limit \/ d \in unprepared

Queued == {queue[k] : k \in 1..Len(queue)}

(* The streams that did start pick up the share of those that did not, and *)
(* of those that broke: files are left in the queue only when no stream or *)
(* no destination is left.                                                 *)
QueueDrained ==
  phase = "finished" /\ queue # <<>> =>
    \/ \A d \in Dests : disabled[d]
    \/ \A w \in Workers : w \in unstarted \union errStream

(* "A destination that fails does not take the others down with it": one   *)
(* that had no failure of its own ends with every file the device could    *)
(* deliver, whatever happened to the others.                               *)
HealthyDestComplete ==
  phase = "finished" =>
    \A i \in Items \ (devFailed \union Queued) : \A d \in Targets[i] \ unprepared :
      hurt[d] = 0 => final[d][i] = Size[i]

(* No copy goes missing without a reason in the report: an error of the    *)
(* file, an error of the destination, or a destination that was disabled.  *)
(* And no reason is given for a copy that is there, unless that its time   *)
(* could not be set.                                                       *)
ReportExact ==
  phase = "finished" =>
    /\ \A i \in Items \ Queued : \A d \in Targets[i] :
         final[d][i] = Absent => i \in errFile \/ <<i, d>> \in errDest \/ disabled[d]
    /\ \A i \in errFile, d \in Dests : final[d][i] = Absent
    /\ \A e \in errDest : final[e[2]][e[1]] = Absent \/ e \in undated

(* What the exit code of the program is decided from (main.rs run). *)
CleanExit == /\ phase = "finished" /\ unprepared = {}
             /\ errFile = {} /\ errDest = {} /\ errGiveUp = {}
             /\ errStream = {} /\ unstarted = {}

(* A run that reports no error has copied every file to every destination  *)
(* that needed it.                                                         *)
CleanExitMeansComplete ==
  CleanExit => \A i \in Items : \A d \in Targets[i] : final[d][i] = Size[i]

(* A finished run leaves a temporary file only where the file system       *)
(* refused to remove it.                                                   *)
TempsRemoved ==
  phase = "finished" =>
    \A d \in Dests, i \in Items : temp[d][i] # Absent => <<d, i>> \in stuck

(* The run ends: no failure of a disk or of a stream makes workers wait.   *)
Termination == <>(phase \in {"finished", "aborted"})

(* README: "After ten failures a destination is written off for the        *)
(* remainder of the run".                                                  *)
FailingDestWrittenOff ==
  phase = "finished" => \A d \in Dests : hurt[d] >= Limit => disabled[d]

=============================================================================
