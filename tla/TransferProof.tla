---------------------------- MODULE TransferProof ----------------------------
(***************************************************************************)
(* Proofs about the transfer engine, for every list of files, set of       *)
(* destinations, number of streams and failure limit: first that no final  *)
(* name holds part of a file and that the counters are right, then what a  *)
(* run reports and leaves behind.                                          *)
(***************************************************************************)
EXTENDS Transfer, FiniteSetTheorems, SequenceTheorems, WellFoundedInduction, TLAPS

(* A file is in one place: in the queue once, or in one worker's hands.    *)
Exclusive ==
  /\ \A j, k \in 1..Len(queue) : queue[j] = queue[k] => j = k
  /\ \A w \in InHand : /\ item[w] \in Items
                       /\ \A k \in 1..Len(queue) : queue[k] # item[w]
  /\ \A v, w \in InHand : item[v] = item[w] => v = w

Receiving(w) == pc[w] \in {"recv", "discard", "discardBroken", "noteWrite", "install"}

(* A temporary file still open holds what the worker believes it holds:    *)
(* nothing before the first chunk, all but the chunk still buffered while  *)
(* receiving, and the whole file from the flush until its rename.          *)
TempKnown(w) ==
  /\ ~Receiving(w) => chunks[w] = 0
  /\ pc[w] \in {"open", "noteOpen"} => \A d \in open[w] : temp[d][item[w]] = 0
  /\ pc[w] = "recv" => \A d \in open[w] :
       temp[d][item[w]] = IF chunks[w] = 0 THEN 0 ELSE chunks[w] - 1
  /\ pc[w] = "noteWrite" => \A d \in open[w] : temp[d][item[w]] = Size[item[w]]
  /\ pc[w] = "install" =>
       \A d \in open[w] \intersect todo[w] : temp[d][item[w]] = Size[item[w]]
TempsKnown == \A w \in Workers : TempKnown(w)

IInv == TypeOK /\ ProgressExact /\ Exclusive /\ TempsKnown /\ NoTruncatedFinal

-----------------------------------------------------------------------------
(* What the assumptions on the constants give.                             *)

(* There is at least one worker, and finitely many.                        *)
LEMMA WorkersFinite ==
  /\ StreamCount \in Nat \ {0}
  /\ Workers \subseteq Nat
  /\ IsFiniteSet(Workers)
<1>1. Len(Transfers) \in Nat \ {0}
  BY TransferAssumption, EmptySeq
<1>2. StreamCount \in Nat \ {0}
  BY <1>1, TransferAssumption DEF StreamCount
<1> QED
  BY <1>2, FS_Interval DEF Workers

(* The loops over a file's targets always have a next destination to visit *)
(* while any is left (NextDest).                                           *)
LEMMA NextDestInTodo ==
  ASSUME NEW w, todo[w] \subseteq Dests, todo[w] # {}
  PROVE  NextDest(w) \in todo[w]
<1>1. todo[w] \subseteq Nat
  BY TransferAssumption
<1>2. PICK x \in todo[w] : \A y \in todo[w] : ~(<<y, x>> \in OpToRel(<, Nat))
  BY <1>1, WFMin, NatLessThanWellFounded
<1>3. ASSUME NEW y \in todo[w] PROVE x =< y
  <2>1. OpToRel(<, Nat) = {ss \in Nat \X Nat : ss[1] < ss[2]}
    BY Zenon DEF OpToRel
  <2>2. <<y, x>> \notin {ss \in Nat \X Nat : ss[1] < ss[2]}
    BY <1>2, <2>1, Zenon
  <2> QED
    BY <1>1, <2>2
<1> QED
  BY <1>2, <1>3 DEF NextDest, Min

-----------------------------------------------------------------------------
(* Type correctness.                                                       *)

(* The initial state has the types.                                        *)
LEMMA InitType == Init => TypeOK
  BY TransferAssumption, WorkersFinite DEF Init, TypeOK, Items, Absent

(* What remove_file may do to a temporary file keeps the types. *)
LEMMA RemoveTempType ==
  ASSUME TypeOK, NEW w, item[w] \in Items, NEW d \in Dests, RemoveTemp(w, d)
  PROVE  /\ temp' \in [Dests -> [Items -> Nat \union {Absent}]]
         /\ stuck' \subseteq Dests \X Items
<1>1. CASE temp' = [temp EXCEPT ![d][item[w]] = Absent] /\ UNCHANGED stuck
  BY <1>1 DEF TypeOK
<1>2. CASE stuck' = stuck \union {<<d, item[w]>>} /\ UNCHANGED temp
  BY <1>2 DEF TypeOK
<1> QED
  BY <1>1, <1>2 DEF RemoveTemp

(* Each action of a worker keeps the types; Discard is left aside, because *)
(* that its subtraction stays a natural number follows from ProgressExact. *)
LEMMA WorkerType ==
  ASSUME IInv, NEW w \in Workers, WorkerStep(w), ~Discard(w)
  PROVE  TypeOK'
<1> USE DEF TypeOK, stats, fetch, disk, results, history, At, Goto
<1>0. TypeOK /\ item[w] \in Items \union {NoItem}
  BY DEF IInv, Exclusive
<1>i. pc[w] \in {"open", "noteOpen", "recv", "noteWrite", "install"} => item[w] \in Items
  BY DEF IInv, Exclusive, InHand
<1>n. todo[w] # {} => NextDest(w) \in Dests
  BY <1>0, NextDestInTodo
<1>1. CASE OpenStream(w)
  BY <1>0, <1>i, <1>n, <1>1 DEF OpenStream
<1>2. CASE CheckDests(w)
  BY <1>0, <1>i, <1>n, <1>2 DEF CheckDests
<1>3. CASE QueueEmpty(w)
  BY <1>0, <1>i, <1>n, <1>3 DEF QueueEmpty, AfterLast
<1>4. CASE PopItem(w)
  <2>1. queue # <<>> /\ Head(queue) \in Items /\ Tail(queue) \in Seq(Items)
    BY <1>0, <1>4, HeadTailProperties DEF PopItem
  <2>2. Targets[Head(queue)] \in SUBSET Dests
    BY <2>1, TransferAssumption
  <2> QED
    BY <1>0, <1>4, <2>1, <2>2 DEF PopItem
<1>5. CASE Reopen(w)
  BY <1>0, <1>i, <1>n, <1>5 DEF Reopen
<1>6. CASE SkipDisabled(w)
  BY <1>0, <1>i, <1>n, <1>6 DEF SkipDisabled, Visited
<1>7. CASE OpenTemp(w)
  BY SMTT(60), <1>0, <1>i, <1>n, <1>7 DEF OpenTemp, Visited, Absent
<1>8. CASE OpenFails(w)
  BY <1>0, <1>i, <1>n, <1>8 DEF OpenFails, Visited
<1>9. CASE AllVisited(w)
  BY <1>0, <1>i, <1>n, <1>9 DEF AllVisited
<1>10. CASE NoteFailure(w)
  BY <1>0, <1>i, <1>n, <1>10 DEF NoteFailure, LimitReached
<1>11. CASE GiveUp(w)
  BY <1>0, <1>i, <1>n, <1>11 DEF GiveUp
<1>12. CASE SkipFile(w)
  BY SMTT(60), <1>0, <1>i, <1>n, <1>12 DEF SkipFile, OpenPhaseOver
<1>13. CASE NothingOpened(w)
  BY <1>0, <1>i, <1>n, <1>13 DEF NothingOpened, OpenPhaseOver, FetchErr, AfterError
<1>14. CASE StartRecv(w)
  BY <1>0, <1>i, <1>n, <1>14 DEF StartRecv, OpenPhaseOver
<1>15. CASE ReceiveData(w)
  <2>1. hurt' \in [Dests -> Nat]
    BY <1>0, <1>15 DEF ReceiveData, HurtAll
  <2>2. temp' \in [Dests -> [Items -> Nat \union {Absent}]]
    BY <1>0, <1>i, <1>15 DEF ReceiveData, Landed
  <2> QED
    BY SMTT(60), <1>0, <1>15, <2>1, <2>2 DEF ReceiveData
<1>16. CASE SinkGone(w)
  <2>1. hurt' \in [Dests -> Nat]
    BY <1>0, <1>16 DEF SinkGone, HurtAll
  <2> QED
    BY SMTT(60), <1>0, <1>16, <2>1 DEF SinkGone
<1>17. CASE RecvFails(w)
  BY <1>0, <1>i, <1>n, <1>17 DEF RecvFails
<1>18. CASE RecvDone(w)
  <2>1. hurt' \in [Dests -> Nat]
    BY <1>0, <1>18 DEF RecvDone, HurtAll
  <2>2. temp' \in [Dests -> [Items -> Nat \union {Absent}]]
    BY <1>0, <1>i, <1>18 DEF RecvDone, Landed
  <2> QED
    BY SMTT(60), <1>0, <1>18, <2>1, <2>2 DEF RecvDone
<1>19. CASE BeginInstall(w)
  BY <1>0, <1>i, <1>n, <1>19 DEF BeginInstall
<1>20. CASE DropTarget(w)
  <2>1. /\ temp' \in [Dests -> [Items -> Nat \union {Absent}]]
        /\ stuck' \subseteq Dests \X Items
    <3>1. NextDest(w) \in Dests /\ item[w] \in Items /\ RemoveTemp(w, NextDest(w))
      BY <1>i, <1>n, <1>20 DEF DropTarget
    <3> QED
      BY <1>0, <3>1, RemoveTempType
  <2> QED
    BY <1>0, <1>20, <2>1 DEF DropTarget, Visited
<1>21. CASE Install(w)
  <2>1. /\ temp' \in [Dests -> [Items -> Nat \union {Absent}]]
        /\ final' \in [Dests -> [Items -> Nat \union {Absent}]]
        /\ destFiles' \in [Dests -> Nat]
    BY <1>0, <1>i, <1>n, <1>21 DEF Install
  <2>2. todo' \in [Workers -> SUBSET Dests] /\ failed' \in [Workers -> SUBSET Dests]
    <3>1. failed' = failed \/ failed' = [failed EXCEPT ![w] = @ \union {NextDest(w)}]
      BY <1>21, Zenon DEF Install
    <3>2. todo[w] # {} /\ todo' = [todo EXCEPT ![w] = @ \ {NextDest(w)}]
      BY <1>21 DEF Install, Visited
    <3>3. NextDest(w) \in Dests
      BY <1>n, <3>2
    <3>4. failed' \in [Workers -> SUBSET Dests]
      <4>1. failed \in [Workers -> SUBSET Dests]
        BY <1>0
      <4>2. CASE failed' = failed
        BY <4>1, <4>2
      <4>3. CASE failed' = [failed EXCEPT ![w] = @ \union {NextDest(w)}]
        BY <4>1, <4>3, <3>3
      <4> QED
        BY <3>1, <4>2, <4>3
    <3> QED
      BY <1>0, <3>2, <3>4
  <2>3. undated' \subseteq Items \X Dests
    <3>1. undated' = undated \/ undated' = undated \union {<<item[w], NextDest(w)>>}
      BY <1>21, Zenon DEF Install
    <3> QED
      BY <1>0, <1>i, <1>n, <1>21, <3>1 DEF Install
  <2> QED
    BY <1>0, <1>21, <2>1, <2>2, <2>3 DEF Install
<1>22. CASE RenameFails(w)
  <2>1. /\ temp' \in [Dests -> [Items -> Nat \union {Absent}]]
        /\ stuck' \subseteq Dests \X Items
    <3>1. NextDest(w) \in Dests /\ item[w] \in Items /\ RemoveTemp(w, NextDest(w))
      BY <1>i, <1>n, <1>22 DEF RenameFails
    <3> QED
      BY <1>0, <3>1, RemoveTempType
  <2>2. /\ failures' \in [Dests -> Nat] /\ hurt' \in [Dests -> Nat]
        /\ limitHit' \in [Workers -> SUBSET Dests]
    BY <1>0, <1>n, <1>22 DEF RenameFails
  <2>3. todo' \in [Workers -> SUBSET Dests] /\ failed' \in [Workers -> SUBSET Dests]
    BY <1>0, <1>n, <1>22 DEF RenameFails, Visited
  <2> QED
    BY <1>0, <1>22, <2>1, <2>2, <2>3 DEF RenameFails
<1>23. CASE FinishFile(w)
  BY <1>0, <1>i, <1>n, <1>23 DEF FinishFile, FetchOk, Reported
<1> QED
  BY <1>1, <1>2, <1>3, <1>4, <1>5, <1>6, <1>7, <1>8, <1>9, <1>10, <1>11, <1>12, <1>13, <1>14, <1>15, <1>16, <1>17, <1>18, <1>19, <1>20, <1>21, <1>22, <1>23 DEF WorkerStep

-----------------------------------------------------------------------------
(* What a step of one worker leaves to the others.                         *)

OthersKeep(w) ==
  /\ \A v \in Workers \ {w} :
       /\ pc'[v] = pc[v] /\ item'[v] = item[v] /\ open'[v] = open[v]
       /\ todo'[v] = todo[v] /\ chunks'[v] = chunks[v]
  /\ \A d \in Dests, i \in Items : i # item[w] => temp'[d][i] = temp[d][i]

(* A step of worker w leaves the others where they are, and their files too. *)
LEMMA StepKeepsOthers ==
  ASSUME TypeOK, NEW w \in Workers, WorkerStep(w)
  PROVE  OthersKeep(w)
<1> USE DEF OthersKeep, stats, fetch, disk, results, history, Goto
<1>t. /\ pc = [v \in Workers |-> pc[v]] /\ item = [v \in Workers |-> item[v]]
      /\ open = [v \in Workers |-> open[v]] /\ todo = [v \in Workers |-> todo[v]]
      /\ chunks = [v \in Workers |-> chunks[v]]
      /\ temp \in [Dests -> [Items -> Nat \union {Absent}]]
  BY DEF TypeOK
<1>1. CASE OpenStream(w)
  BY <1>t, <1>1 DEF OpenStream
<1>2. CASE CheckDests(w)
  BY <1>t, <1>2 DEF CheckDests
<1>3. CASE QueueEmpty(w)
  BY <1>t, <1>3 DEF QueueEmpty
<1>4. CASE PopItem(w)
  BY <1>t, <1>4 DEF PopItem
<1>5. CASE Reopen(w)
  BY <1>t, <1>5 DEF Reopen
<1>6. CASE SkipDisabled(w)
  BY <1>t, <1>6 DEF SkipDisabled, Visited
<1>7. CASE OpenTemp(w)
  BY <1>t, <1>7 DEF OpenTemp, Visited
<1>8. CASE OpenFails(w)
  BY <1>t, <1>8 DEF OpenFails, Visited
<1>9. CASE AllVisited(w)
  BY <1>t, <1>9 DEF AllVisited
<1>10. CASE NoteFailure(w)
  BY <1>t, <1>10 DEF NoteFailure
<1>11. CASE GiveUp(w)
  BY <1>t, <1>11 DEF GiveUp
<1>12. CASE SkipFile(w)
  BY <1>t, <1>12 DEF SkipFile
<1>13. CASE NothingOpened(w)
  BY <1>t, <1>13 DEF NothingOpened, FetchErr
<1>14. CASE StartRecv(w)
  BY <1>t, <1>14 DEF StartRecv
<1>15. CASE ReceiveData(w)
  BY <1>t, <1>15 DEF ReceiveData, Landed
<1>16. CASE SinkGone(w)
  BY <1>t, <1>16 DEF SinkGone
<1>17. CASE RecvFails(w)
  BY <1>t, <1>17 DEF RecvFails
<1>18. CASE Discard(w)
  BY <1>t, <1>18 DEF Discard, FetchErr
<1>19. CASE RecvDone(w)
  BY <1>t, <1>19 DEF RecvDone, Landed
<1>20. CASE BeginInstall(w)
  BY <1>t, <1>20 DEF BeginInstall
<1>21. CASE DropTarget(w)
  <2>1. \A d \in Dests, i \in Items : i # item[w] => temp'[d][i] = temp[d][i]
    BY <1>t, <1>21 DEF DropTarget, RemoveTemp
  <2> QED
    BY <1>t, <1>21, <2>1 DEF DropTarget, Visited
<1>22. CASE Install(w)
  <2>1. /\ UNCHANGED <<pc, item, open, chunks>>
        /\ todo' = [todo EXCEPT ![w] = @ \ {NextDest(w)}]
        /\ temp' = [temp EXCEPT ![NextDest(w)][item[w]] = Absent]
    BY <1>22 DEF Install, Visited
  <2> QED
    BY <1>t, <2>1
<1>23. CASE RenameFails(w)
  <2>1. /\ UNCHANGED <<pc, item, open, chunks>>
        /\ todo' = [todo EXCEPT ![w] = @ \ {NextDest(w)}]
    BY <1>23 DEF RenameFails, Visited
  <2>2. \A d \in Dests, i \in Items : i # item[w] => temp'[d][i] = temp[d][i]
    BY <1>t, <1>23 DEF RenameFails, RemoveTemp
  <2> QED
    BY <1>t, <2>1, <2>2
<1>24. CASE FinishFile(w)
  BY <1>t, <1>24 DEF FinishFile, FetchOk
<1> QED
  BY <1>1, <1>2, <1>3, <1>4, <1>5, <1>6, <1>7, <1>8, <1>9, <1>10, <1>11, <1>12, <1>13, <1>14, <1>15, <1>16, <1>17, <1>18, <1>19, <1>20, <1>21, <1>22, <1>23, <1>24 DEF WorkerStep

-----------------------------------------------------------------------------
(* A file stays in one place.                                              *)

(* A step that takes no file from the queue keeps the queue and every      *)
(* worker's file, and puts no worker in charge of one.                     *)
LEMMA HandsOnlyEmpty ==
  ASSUME TypeOK, NEW w \in Workers, WorkerStep(w), ~PopItem(w)
  PROVE  queue' = queue /\ item' = item /\ InHand' \subseteq InHand
<1> USE DEF InHand, At, Goto, stats, fetch, disk, results, history
<1>t. pc = [v \in Workers |-> pc[v]]
  BY DEF TypeOK
<1>1. CASE OpenStream(w)
  BY <1>t, <1>1 DEF OpenStream
<1>2. CASE CheckDests(w)
  BY <1>t, <1>2 DEF CheckDests
<1>3. CASE QueueEmpty(w)
  BY <1>t, <1>3 DEF QueueEmpty, AfterLast
<1>4. CASE Reopen(w)
  BY <1>t, <1>4 DEF Reopen
<1>5. CASE SkipDisabled(w)
  BY <1>t, <1>5 DEF SkipDisabled, Visited
<1>6. CASE OpenTemp(w)
  BY <1>t, <1>6 DEF OpenTemp, Visited
<1>7. CASE OpenFails(w)
  BY <1>t, <1>7 DEF OpenFails, Visited
<1>8. CASE AllVisited(w)
  BY <1>t, <1>8 DEF AllVisited
<1>9. CASE NoteFailure(w)
  BY <1>t, <1>9 DEF NoteFailure
<1>10. CASE GiveUp(w)
  BY <1>t, <1>10 DEF GiveUp
<1>11. CASE SkipFile(w)
  BY <1>t, <1>11 DEF SkipFile, OpenPhaseOver
<1>12. CASE NothingOpened(w)
  BY <1>t, <1>12 DEF NothingOpened, OpenPhaseOver, FetchErr, AfterError
<1>13. CASE StartRecv(w)
  BY <1>t, <1>13 DEF StartRecv, OpenPhaseOver
<1>14. CASE ReceiveData(w)
  BY <1>t, <1>14 DEF ReceiveData
<1>15. CASE SinkGone(w)
  BY <1>t, <1>15 DEF SinkGone
<1>16. CASE RecvFails(w)
  BY <1>t, <1>16 DEF RecvFails
<1>17. CASE Discard(w)
  BY <1>t, <1>17 DEF Discard, FetchErr, AfterError
<1>18. CASE RecvDone(w)
  BY <1>t, <1>18 DEF RecvDone
<1>19. CASE BeginInstall(w)
  BY <1>t, <1>19 DEF BeginInstall
<1>20. CASE DropTarget(w)
  BY <1>t, <1>20 DEF DropTarget, Visited
<1>21. CASE Install(w)
  BY <1>t, <1>21 DEF Install, Visited
<1>22. CASE RenameFails(w)
  BY <1>t, <1>22 DEF RenameFails, Visited
<1>23. CASE FinishFile(w)
  BY <1>t, <1>23 DEF FinishFile, FetchOk
<1> QED
  BY <1>1, <1>2, <1>3, <1>4, <1>5, <1>6, <1>7, <1>8, <1>9, <1>10, <1>11, <1>12, <1>13, <1>14, <1>15, <1>16, <1>17, <1>18, <1>19, <1>20, <1>21, <1>22, <1>23 DEF WorkerStep

(* Popping the queue moves its head to one worker; no other step moves a file. *)
LEMMA ExclusiveStep ==
  ASSUME TypeOK, Exclusive, NEW w \in Workers, WorkerStep(w)
  PROVE  Exclusive'
<1>1. CASE ~PopItem(w)
  BY <1>1, HandsOnlyEmpty DEF Exclusive
<1>2. CASE PopItem(w)
  <2>1. /\ queue \in Seq(Items) /\ queue # <<>> /\ queue' = Tail(queue)
        /\ item' = [item EXCEPT ![w] = Head(queue)]
        /\ pc[w] = "pop" /\ pc' = [pc EXCEPT ![w] = "open"]
    BY <1>2 DEF PopItem, At, Goto, TypeOK
  <2>2. /\ Head(queue) = queue[1] /\ Head(queue) \in Items
        /\ Len(queue) \in Nat /\ Len(queue') = Len(queue) - 1
        /\ \A k \in 1..Len(queue') : queue'[k] = queue[k + 1]
    BY <2>1, HeadTailProperties, LenProperties
  <2>3. /\ InHand' = InHand \union {w} /\ w \notin InHand
        /\ item'[w] = Head(queue) /\ \A v \in InHand : item'[v] = item[v]
    BY <2>1 DEF TypeOK, InHand
  <2>4. \A j, k \in 1..Len(queue') : queue'[j] = queue'[k] => j = k
    BY <2>2 DEF Exclusive
  <2>5. ASSUME NEW v \in InHand'
        PROVE  item'[v] \in Items /\ \A k \in 1..Len(queue') : queue'[k] # item'[v]
    <3>1. CASE v = w
      BY <2>2, <2>3, <3>1 DEF Exclusive
    <3>2. CASE v # w
      BY <2>2, <2>3, <2>5, <3>2 DEF Exclusive
    <3> QED
      BY <3>1, <3>2
  <2>6. \A u, v \in InHand' : item'[u] = item'[v] => u = v
    BY <2>2, <2>3 DEF Exclusive
  <2> QED
    BY <2>4, <2>5, <2>6 DEF Exclusive
<1> QED
  BY <1>1, <1>2

-----------------------------------------------------------------------------
(* What the temporary files hold.                                          *)

(* The worker that steps knows what its temporary files hold.              *)
LEMMA OwnTemps ==
  ASSUME TypeOK, Exclusive, NEW w \in Workers, TempKnown(w), WorkerStep(w)
  PROVE  TempKnown(w)'
<1> USE DEF TempKnown, Receiving, At, Goto, stats, fetch, disk, results, history
<1>t. /\ pc = [v \in Workers |-> pc[v]] /\ item = [v \in Workers |-> item[v]]
      /\ open = [v \in Workers |-> open[v]] /\ todo = [v \in Workers |-> todo[v]]
      /\ chunks \in [Workers -> Nat]
      /\ temp \in [Dests -> [Items -> Nat \union {Absent}]]
      /\ open[w] \subseteq Dests /\ todo[w] \subseteq Dests
  BY DEF TypeOK
<1>i. w \in InHand => item[w] \in Items
  BY DEF Exclusive
<1>1. CASE OpenStream(w)
  BY <1>t, <1>1 DEF OpenStream
<1>2. CASE CheckDests(w)
  BY <1>t, <1>2 DEF CheckDests
<1>3. CASE QueueEmpty(w)
  BY <1>t, <1>3 DEF QueueEmpty, AfterLast
<1>4. CASE PopItem(w)
  BY <1>t, <1>4 DEF PopItem
<1>5. CASE Reopen(w)
  BY <1>t, <1>5 DEF Reopen
<1>6. CASE SkipDisabled(w)
  BY <1>t, <1>6 DEF SkipDisabled, Visited
<1>7. CASE OpenTemp(w)
  <2>1. /\ pc' = pc /\ item' = item /\ chunks' = chunks /\ pc[w] = "open"
        /\ NextDest(w) \in Dests /\ item[w] \in Items
        /\ temp' = [temp EXCEPT ![NextDest(w)][item[w]] = 0]
        /\ open'[w] = open[w] \union {NextDest(w)}
    BY <1>t, <1>i, <1>7, NextDestInTodo DEF OpenTemp, InHand
  <2>2. \A d \in open'[w] : temp'[d][item'[w]] = 0
    BY <1>t, <2>1
  <2> QED
    BY <2>1, <2>2
<1>8. CASE OpenFails(w)
  BY <1>t, <1>8 DEF OpenFails, Visited
<1>9. CASE AllVisited(w)
  BY <1>t, <1>9 DEF AllVisited
<1>10. CASE NoteFailure(w)
  BY <1>t, <1>10 DEF NoteFailure
<1>11. CASE GiveUp(w)
  BY <1>t, <1>11 DEF GiveUp
<1>12. CASE SkipFile(w)
  BY <1>t, <1>12 DEF SkipFile, OpenPhaseOver
<1>13. CASE NothingOpened(w)
  BY <1>t, <1>13 DEF NothingOpened, OpenPhaseOver, FetchErr, AfterError
<1>14. CASE StartRecv(w)
  BY <1>t, <1>14 DEF StartRecv, OpenPhaseOver
<1>15. CASE ReceiveData(w)
  <2>1. PICK bad \in SUBSET open[w] :
          /\ open' = [open EXCEPT ![w] = @ \ bad]
          /\ Landed(w, open[w] \ bad)
    BY <1>15 DEF ReceiveData
  <2>2. /\ pc' = pc /\ item' = item /\ pc[w] = "recv" /\ item[w] \in Items
        /\ chunks'[w] = chunks[w] + 1 /\ chunks[w] \in Nat
    BY <1>t, <1>i, <1>15 DEF ReceiveData, InHand
  <2>3. /\ open'[w] = open[w] \ bad
        /\ \A d \in open[w] \ bad : temp'[d][item[w]] = chunks[w]
    BY <1>t, <2>1, <2>2 DEF Landed
  <2> QED
    BY <2>2, <2>3
<1>16. CASE SinkGone(w)
  BY <1>t, <1>16 DEF SinkGone
<1>17. CASE RecvFails(w)
  BY <1>t, <1>17 DEF RecvFails
<1>18. CASE Discard(w)
  BY <1>t, <1>18 DEF Discard, FetchErr, AfterError
<1>19. CASE RecvDone(w)
  BY <1>t, <1>i, <1>19 DEF RecvDone, Landed, InHand
<1>20. CASE BeginInstall(w)
  BY <1>t, <1>20 DEF BeginInstall
<1>21. CASE DropTarget(w)
  BY <1>t, <1>i, <1>21 DEF DropTarget, Visited, RemoveTemp, TookWhole, InHand
<1>22. CASE Install(w)
  BY <1>t, <1>i, <1>22 DEF Install, Visited, InHand
<1>23. CASE RenameFails(w)
  BY <1>t, <1>i, <1>23 DEF RenameFails, Visited, RemoveTemp, InHand
<1>24. CASE FinishFile(w)
  BY <1>t, <1>24 DEF FinishFile, FetchOk
<1> QED
  BY <1>1, <1>2, <1>3, <1>4, <1>5, <1>6, <1>7, <1>8, <1>9, <1>10, <1>11, <1>12, <1>13, <1>14, <1>15, <1>16, <1>17, <1>18, <1>19, <1>20, <1>21, <1>22, <1>23, <1>24 DEF WorkerStep

(* A worker that holds no file touches no temporary file. *)
LEMMA TempsOfHeldFiles ==
  ASSUME NEW w \in Workers, WorkerStep(w), w \notin InHand
  PROVE  temp' = temp
<1> USE DEF InHand, At, disk
<1>1. ~(\/ OpenTemp(w) \/ ReceiveData(w) \/ Discard(w) \/ RecvDone(w)
        \/ DropTarget(w) \/ Install(w) \/ RenameFails(w))
  BY DEF OpenTemp, ReceiveData, Discard, RecvDone, DropTarget, Install, RenameFails
<1>2. CASE \/ OpenStream(w) \/ CheckDests(w) \/ QueueEmpty(w) \/ PopItem(w) \/ Reopen(w)
           \/ SkipDisabled(w) \/ OpenFails(w) \/ AllVisited(w)
  BY <1>2 DEF OpenStream, CheckDests, QueueEmpty, PopItem, Reopen, SkipDisabled,
              OpenFails, AllVisited
<1>3. CASE \/ NoteFailure(w) \/ GiveUp(w) \/ SkipFile(w) \/ NothingOpened(w)
           \/ StartRecv(w) \/ SinkGone(w) \/ RecvFails(w) \/ BeginInstall(w)
           \/ FinishFile(w)
  BY <1>3 DEF NoteFailure, GiveUp, SkipFile, NothingOpened, StartRecv, SinkGone,
              RecvFails, BeginInstall, FinishFile
<1> QED
  BY <1>1, <1>2, <1>3 DEF WorkerStep

(* A step keeps what every worker knows of its temporary files.            *)
LEMMA TempsStep ==
  ASSUME TypeOK, Exclusive, TempsKnown, NEW w \in Workers, WorkerStep(w)
  PROVE  TempsKnown'
<1> SUFFICES ASSUME NEW v \in Workers
             PROVE  TempKnown(v)'
  BY DEF TempsKnown
<1>1. CASE v = w
  BY <1>1, OwnTemps DEF TempsKnown
<1>2. CASE v # w
  <2>1. OthersKeep(w) /\ TempKnown(v) /\ open[v] \subseteq Dests
    BY StepKeepsOthers DEF TempsKnown, TypeOK
  <2>2. CASE v \notin InHand
    BY <1>2, <2>1, <2>2 DEF OthersKeep, TempKnown, Receiving, InHand
  <2>3. CASE v \in InHand
    <3>1. item[v] \in Items
      BY <2>3 DEF Exclusive
    <3>2. CASE w \in InHand
      <4>1. item[v] # item[w]
        BY <1>2, <2>3, <3>2 DEF Exclusive
      <4> QED
        BY <1>2, <2>1, <3>1, <4>1 DEF OthersKeep, TempKnown, Receiving
    <3>3. CASE w \notin InHand
      <4>1. temp' = temp
        BY <3>3, TempsOfHeldFiles
      <4> QED
        BY <1>2, <2>1, <4>1 DEF OthersKeep, TempKnown, Receiving
    <3> QED
      BY <3>2, <3>3
  <2> QED
    BY <2>2, <2>3
<1> QED
  BY <1>1, <1>2

(* A rename installs a whole file: TempKnown says so of the file it renames. *)
LEMMA FinalStep ==
  ASSUME TypeOK, Exclusive, TempsKnown, NoTruncatedFinal,
         NEW w \in Workers, WorkerStep(w)
  PROVE  NoTruncatedFinal'
<1>1. CASE Install(w)
  <2>1. /\ NextDest(w) \in open[w] \intersect todo[w] /\ NextDest(w) \in Dests
        /\ pc[w] = "install" /\ item[w] \in Items
        /\ final' = [final EXCEPT ![NextDest(w)][item[w]] = temp[NextDest(w)][item[w]]]
    BY <1>1, NextDestInTodo DEF Install, At, TookWhole, TypeOK, Exclusive, InHand
  <2>2. temp[NextDest(w)][item[w]] = Size[item[w]]
    BY <2>1 DEF TempsKnown, TempKnown
  <2>3. final \in [Dests -> [Items -> Nat \union {Absent}]]
    BY DEF TypeOK
  <2> QED
    BY <2>1, <2>2, <2>3 DEF NoTruncatedFinal
<1>2. CASE ~Install(w)
  <2>1. final' = final
    <3> USE DEF disk
    <3>1. CASE \/ OpenStream(w) \/ CheckDests(w) \/ QueueEmpty(w) \/ PopItem(w) \/ Reopen(w)
               \/ SkipDisabled(w) \/ OpenTemp(w) \/ OpenFails(w) \/ AllVisited(w)
      BY <3>1 DEF OpenStream, CheckDests, QueueEmpty, PopItem, Reopen, SkipDisabled,
                  OpenTemp, OpenFails, AllVisited
    <3>2. CASE \/ NoteFailure(w) \/ GiveUp(w) \/ SkipFile(w) \/ NothingOpened(w)
               \/ StartRecv(w) \/ ReceiveData(w) \/ SinkGone(w) \/ RecvFails(w)
      BY <3>2 DEF NoteFailure, GiveUp, SkipFile, NothingOpened, StartRecv,
                  ReceiveData, SinkGone, RecvFails
    <3>3. CASE \/ Discard(w) \/ RecvDone(w) \/ BeginInstall(w) \/ DropTarget(w)
               \/ RenameFails(w) \/ FinishFile(w)
      BY <3>3 DEF Discard, RecvDone, BeginInstall, DropTarget, RenameFails, FinishFile
    <3> QED
      BY <1>2, <3>1, <3>2, <3>3 DEF WorkerStep
  <2> QED
    BY <2>1 DEF NoTruncatedFinal
<1> QED
  BY <1>1, <1>2

-----------------------------------------------------------------------------
(* The progress counters.                                                  *)

(* The chunks one worker has received of the file it is fetching.          *)
OwnChunks(w) == {w} \X (1..chunks[w])

(* Finitely many chunks are in flight and files in hand.                   *)
LEMMA InFlightFinite ==
  ASSUME TypeOK
  PROVE  /\ IsFiniteSet(InFlight) /\ Cardinality(InFlight) \in Nat
         /\ IsFiniteSet(InHand) /\ Cardinality(InHand) \in Nat
<1>1. \A v \in Workers : IsFiniteSet(OwnChunks(v))
  <2> SUFFICES ASSUME NEW v \in Workers PROVE IsFiniteSet(OwnChunks(v))
    OBVIOUS
  <2>1. chunks[v] \in Nat
    BY DEF TypeOK
  <2> QED
    <3>1. IsFiniteSet({v}) /\ IsFiniteSet(1..chunks[v])
      <4>1. IsFiniteSet({v})
        BY FS_Singleton, Zenon
      <4>2. 1 \in Int /\ chunks[v] \in Int
        BY <2>1
      <4> QED
        BY <4>1, <4>2, FS_Interval, Zenon
    <3> QED
      BY <3>1, FS_Product, Zenon DEF OwnChunks
<1>2. IsFiniteSet({OwnChunks(v) : v \in Workers})
  <2> DEFINE own == [v \in Workers |-> OwnChunks(v)]
  <2>1. own \in Surjection(Workers, {OwnChunks(v) : v \in Workers})
    BY DEF Surjection
  <2> QED
    BY <2>1, WorkersFinite, FS_Surjection, Zenon
<1>3. IsFiniteSet(InFlight)
  BY <1>1, <1>2, FS_UNION DEF InFlight, OwnChunks
<1>4. IsFiniteSet(InHand)
  BY WorkersFinite, FS_Subset DEF InHand
<1> QED
  BY <1>3, <1>4, FS_CardinalityType

(* Worker w has chunks[w] of the chunks in flight.                         *)
LEMMA OwnChunksCount ==
  ASSUME TypeOK, NEW w \in Workers
  PROVE  /\ OwnChunks(w) \subseteq InFlight /\ IsFiniteSet(OwnChunks(w))
         /\ Cardinality(OwnChunks(w)) = chunks[w]
         /\ chunks[w] <= Cardinality(InFlight)
<1>1. chunks[w] \in Nat
  BY DEF TypeOK
<1>2. /\ IsFiniteSet({w}) /\ Cardinality({w}) = 1
      /\ IsFiniteSet(1..chunks[w]) /\ Cardinality(1..chunks[w]) = chunks[w]
  <2>1. IsFiniteSet({w}) /\ Cardinality({w}) = 1
    BY FS_Singleton, Zenon
  <2>2. 1 \in Int /\ chunks[w] \in Int
    BY <1>1
  <2>3. /\ IsFiniteSet(1..chunks[w])
        /\ Cardinality(1..chunks[w]) = IF 1 > chunks[w] THEN 0 ELSE chunks[w] - 1 + 1
    BY <2>2, FS_Interval, Zenon
  <2> QED
    BY <1>1, <2>1, <2>3
<1>3. IsFiniteSet(OwnChunks(w)) /\ Cardinality(OwnChunks(w)) = 1 * chunks[w]
  BY <1>2, FS_Product, ZenonT(60) DEF OwnChunks
<1>4. OwnChunks(w) \subseteq InFlight
  BY DEF OwnChunks, InFlight
<1> QED
  BY <1>1, <1>3, <1>4, InFlightFinite, FS_Subset

(* One more chunk of worker w is one more chunk in flight. *)
LEMMA InFlightGrows ==
  ASSUME TypeOK, NEW w \in Workers, chunks' = [chunks EXCEPT ![w] = @ + 1]
  PROVE  Cardinality(InFlight') = Cardinality(InFlight) + 1
<1>1. chunks \in [Workers -> Nat]
  BY DEF TypeOK
<1>2. InFlight' = InFlight \union {<<w, chunks[w] + 1>>}
  BY <1>1 DEF InFlight
<1>3. <<w, chunks[w] + 1>> \notin InFlight
  BY <1>1 DEF InFlight
<1> QED
  BY <1>2, <1>3, InFlightFinite, FS_AddElement

(* A file that is over takes its chunks out of flight. *)
LEMMA InFlightEnds ==
  ASSUME TypeOK, NEW w \in Workers, chunks' = [chunks EXCEPT ![w] = 0]
  PROVE  Cardinality(InFlight') = Cardinality(InFlight) - chunks[w]
<1>1. chunks \in [Workers -> Nat]
  BY DEF TypeOK
<1>2. InFlight' = InFlight \ OwnChunks(w)
  <2>1. \A v \in Workers : chunks'[v] = IF v = w THEN 0 ELSE chunks[v]
    BY <1>1
  <2>2. \A p : p \in InFlight <=> \E v \in Workers : \E k \in 1..chunks[v] : p = <<v, k>>
    BY DEF InFlight
  <2>3. \A p : p \in InFlight' <=>
          \E v \in Workers \ {w} : \E k \in 1..chunks[v] : p = <<v, k>>
    BY <2>1 DEF InFlight
  <2>4. \A p : p \in OwnChunks(w) <=> \E k \in 1..chunks[w] : p = <<w, k>>
    BY DEF OwnChunks
  <2> QED
    BY <2>2, <2>3, <2>4
<1>3. InFlight \intersect OwnChunks(w) = OwnChunks(w)
  BY OwnChunksCount
<1>4. Cardinality(InFlight \ OwnChunks(w)) =
        Cardinality(InFlight) - Cardinality(InFlight \intersect OwnChunks(w))
  BY InFlightFinite, FS_Difference, Zenon
<1> QED
  BY <1>2, <1>3, <1>4, OwnChunksCount

(* The steps that move no file in or out of a worker's hands and no byte.  *)
Uncounted(w) ==
  \/ OpenStream(w) \/ CheckDests(w) \/ QueueEmpty(w) \/ Reopen(w)
  \/ SkipDisabled(w) \/ OpenTemp(w) \/ OpenFails(w) \/ AllVisited(w)
  \/ NoteFailure(w) \/ GiveUp(w) \/ StartRecv(w) \/ SinkGone(w)
  \/ RecvFails(w) \/ RecvDone(w) \/ BeginInstall(w) \/ DropTarget(w)
  \/ Install(w) \/ RenameFails(w)

(* These steps leave every counter and what it counts as they were.        *)
LEMMA UncountedStep ==
  ASSUME TypeOK, ProgressExact, NEW w \in Workers, Uncounted(w)
  PROVE  ProgressExact'
<1> USE DEF stats, fetch, disk, results, history, At, Goto
<1>t. pc = [v \in Workers |-> pc[v]]
  BY DEF TypeOK
<1> DEFINE Quiet == /\ UNCHANGED <<queue, chunks, bytesDone, bytes, filesDone>>
                    /\ InHand' = InHand
<1>1. CASE OpenStream(w)
  <2> Quiet BY <1>t, <1>1 DEF OpenStream, InHand
  <2> QED BY DEF ProgressExact, InFlight
<1>2. CASE CheckDests(w)
  <2> Quiet BY <1>t, <1>2 DEF CheckDests, InHand
  <2> QED BY DEF ProgressExact, InFlight
<1>3. CASE QueueEmpty(w)
  <2> Quiet BY <1>t, <1>3 DEF QueueEmpty, AfterLast, InHand
  <2> QED BY DEF ProgressExact, InFlight
<1>4. CASE Reopen(w)
  <2> Quiet BY <1>t, <1>4 DEF Reopen, InHand
  <2> QED BY DEF ProgressExact, InFlight
<1>5. CASE SkipDisabled(w)
  <2> Quiet BY <1>t, <1>5 DEF SkipDisabled, InHand
  <2> QED BY DEF ProgressExact, InFlight
<1>6. CASE OpenTemp(w)
  <2> Quiet BY <1>t, <1>6 DEF OpenTemp, InHand
  <2> QED BY DEF ProgressExact, InFlight
<1>7. CASE OpenFails(w)
  <2> Quiet BY <1>t, <1>7 DEF OpenFails, InHand
  <2> QED BY DEF ProgressExact, InFlight
<1>8. CASE AllVisited(w)
  <2> Quiet BY <1>t, <1>8 DEF AllVisited, InHand
  <2> QED BY DEF ProgressExact, InFlight
<1>9. CASE NoteFailure(w)
  <2> Quiet BY <1>t, <1>9 DEF NoteFailure, InHand
  <2> QED BY DEF ProgressExact, InFlight
<1>10. CASE GiveUp(w)
  <2> Quiet BY <1>t, <1>10 DEF GiveUp, InHand
  <2> QED BY DEF ProgressExact, InFlight
<1>11. CASE StartRecv(w)
  <2> Quiet BY <1>t, <1>11 DEF StartRecv, OpenPhaseOver, InHand
  <2> QED BY DEF ProgressExact, InFlight
<1>12. CASE SinkGone(w)
  <2> Quiet BY <1>t, <1>12 DEF SinkGone, InHand
  <2> QED BY DEF ProgressExact, InFlight
<1>13. CASE RecvFails(w)
  <2> Quiet BY <1>t, <1>13 DEF RecvFails, InHand
  <2> QED BY DEF ProgressExact, InFlight
<1>14. CASE RecvDone(w)
  <2> Quiet BY <1>t, <1>14 DEF RecvDone, InHand
  <2> QED BY DEF ProgressExact, InFlight
<1>15. CASE BeginInstall(w)
  <2> Quiet BY <1>t, <1>15 DEF BeginInstall, InHand
  <2> QED BY DEF ProgressExact, InFlight
<1>16. CASE DropTarget(w)
  <2> Quiet BY <1>t, <1>16 DEF DropTarget, InHand
  <2> QED BY DEF ProgressExact, InFlight
<1>17. CASE Install(w)
  <2> Quiet BY <1>t, <1>17 DEF Install, InHand
  <2> QED BY DEF ProgressExact, InFlight
<1>18. CASE RenameFails(w)
  <2> Quiet BY <1>t, <1>18 DEF RenameFails, InHand
  <2> QED BY DEF ProgressExact, InFlight
<1> QED
  BY <1>1, <1>2, <1>3, <1>4, <1>5, <1>6, <1>7, <1>8, <1>9, <1>10, <1>11, <1>12, <1>13, <1>14, <1>15, <1>16, <1>17, <1>18 DEF Uncounted

(* Every other step moves a counter together with what it counts.          *)
LEMMA ProgressStep ==
  ASSUME TypeOK, Exclusive, TempsKnown, ProgressExact, NEW w \in Workers, WorkerStep(w)
  PROVE  ProgressExact'
<1> USE DEF stats, fetch, disk, results, history, At, Goto
<1>t. /\ pc = [v \in Workers |-> pc[v]] /\ chunks[w] \in Nat
      /\ bytes \in Nat /\ bytesDone \in Nat /\ filesDone \in Nat
      /\ Cardinality(InFlight) \in Nat /\ IsFiniteSet(InHand) /\ Cardinality(InHand) \in Nat
  BY InFlightFinite DEF TypeOK
(* When w takes a file in hand, or puts it down, only w is concerned. *)
<1>in. ASSUME w \notin InHand, InHand' = InHand \union {w}
       PROVE  Cardinality(InHand') = Cardinality(InHand) + 1
  BY <1>in, <1>t, FS_AddElement
<1>out. ASSUME w \in InHand, InHand' = InHand \ {w}
        PROVE  Cardinality(InHand') = Cardinality(InHand) - 1
  BY <1>out, <1>t, FS_RemoveElement
<1>1. CASE PopItem(w)
  <2>1. /\ Len(queue) \in Nat /\ Len(queue') = Len(queue) - 1
        /\ UNCHANGED <<chunks, bytesDone, bytes, filesDone>>
    BY <1>1, HeadTailProperties, LenProperties DEF PopItem, TypeOK
  <2>2. w \notin InHand /\ InHand' = InHand \union {w}
    BY <1>1, <1>t DEF PopItem, InHand
  <2>3. InFlight' = InFlight
    BY <2>1 DEF InFlight
  <2> QED
    BY SMTT(60), <1>t, <1>in, <2>1, <2>2, <2>3 DEF ProgressExact
<1>2. CASE SkipFile(w)
  <2>1. filesDone' = filesDone + 1 /\ UNCHANGED <<queue, chunks, bytesDone, bytes>>
    BY <1>2 DEF SkipFile
  <2>2. w \in InHand /\ InHand' = InHand \ {w}
    BY <1>2, <1>t DEF SkipFile, OpenPhaseOver, InHand
  <2>3. InFlight' = InFlight
    BY <2>1 DEF InFlight
  <2>4. Len(queue) \in Nat
    BY LenProperties DEF TypeOK
  <2> QED
    BY <1>t, <1>out, <2>1, <2>2, <2>3, <2>4 DEF ProgressExact
<1>3. CASE NothingOpened(w) \/ Discard(w) \/ FinishFile(w)
  <2>1. /\ filesDone' = filesDone + 1 /\ UNCHANGED queue
        /\ chunks' = [chunks EXCEPT ![w] = 0]
    BY <1>3 DEF NothingOpened, Discard, FinishFile, FetchErr, FetchOk
  <2>2. bytesDone' - bytes' = bytesDone - bytes - chunks[w] /\ bytes' \in Nat
        /\ bytesDone' \in Int
    <3>1. CASE NothingOpened(w)
      <4>1. chunks[w] = 0
        BY <3>1 DEF NothingOpened, OpenPhaseOver, TempsKnown, TempKnown, Receiving
      <4> QED
        BY <1>t, <3>1, <4>1 DEF NothingOpened, FetchErr
    <3>2. CASE Discard(w)
      BY <1>t, <3>2 DEF Discard, FetchErr, Written
    <3>3. CASE FinishFile(w)
      BY <1>t, <3>3 DEF FinishFile, FetchOk
    <3> QED
      BY <1>3, <3>1, <3>2, <3>3
  <2>3. w \in InHand /\ InHand' = InHand \ {w}
    BY <1>3, <1>t DEF NothingOpened, Discard, FinishFile, FetchErr, FetchOk, AfterError,
                      OpenPhaseOver, InHand
  <2>4. Cardinality(InFlight') = Cardinality(InFlight) - chunks[w]
    BY <2>1, InFlightEnds
  <2>5. Len(queue) \in Nat
    BY LenProperties DEF TypeOK
  <2>6. /\ bytesDone = bytes + Cardinality(InFlight)
        /\ filesDone + Cardinality(InHand) + Len(queue) = Len(Transfers)
    BY DEF ProgressExact
  <2>7. bytesDone' = bytes' + Cardinality(InFlight')
    BY <1>t, <2>2, <2>4, <2>6
  <2>8. filesDone' + Cardinality(InHand') + Len(queue') = Len(Transfers)
    BY <1>t, <1>out, <2>1, <2>3, <2>5, <2>6
  <2> QED
    BY <2>7, <2>8 DEF ProgressExact
<1>4. CASE ReceiveData(w)
  <2>1. /\ bytesDone' = bytesDone + 1 /\ UNCHANGED <<queue, bytes, filesDone, pc>>
        /\ chunks' = [chunks EXCEPT ![w] = @ + 1]
    BY <1>4 DEF ReceiveData
  <2>2. Cardinality(InFlight') = Cardinality(InFlight) + 1
    BY <2>1, InFlightGrows
  <2>3. InHand' = InHand
    BY <2>1 DEF InHand
  <2> QED
    BY <1>t, <2>1, <2>2, <2>3 DEF ProgressExact
<1>5. CASE Uncounted(w)
  BY <1>5, UncountedStep
<1> QED
  BY <1>1, <1>2, <1>3, <1>4, <1>5 DEF WorkerStep, Uncounted

(* The counter of bytes is unsigned: what fetch_sub takes off for a failed *)
(* file was added before.                                                  *)
LEMMA DiscardType ==
  ASSUME IInv, NEW w \in Workers, Discard(w)
  PROVE  TypeOK'
<1> USE DEF stats, fetch, disk, results, history, At, Goto
<1>1. /\ TypeOK /\ ProgressExact /\ Exclusive /\ chunks[w] <= Cardinality(InFlight)
      /\ Cardinality(InFlight) \in Nat
  BY InFlightFinite, OwnChunksCount DEF IInv
<1>2. bytesDone' \in Nat
  BY <1>1 DEF Discard, Written, ProgressExact, TypeOK
<1>3. item[w] \in Items /\ targets[w] \subseteq Dests
  BY <1>1 DEF Discard, Exclusive, InHand, TypeOK
<1>4. /\ temp' \in [Dests -> [Items -> Nat \union {Absent}]]
      /\ stuck' \subseteq Dests \X Items
  <2>1. PICK left \in SUBSET targets[w] :
          /\ temp' = [d \in Dests |->
                        IF d \in targets[w] \ left
                        THEN [temp[d] EXCEPT ![item[w]] = Absent] ELSE temp[d]]
          /\ stuck' = stuck \union (left \X {item[w]})
    BY DEF Discard, Partials
  <2> QED
    BY <1>1, <1>3, <2>1 DEF TypeOK
<1>5. UNCHANGED <<phase, unprepared, queue, failures, disabled, destFiles, item, todo,
                  targets, open, failed, writtenOff, limitHit, final, files, bytes,
                  errDest, errGiveUp, errStream, unstarted, hurt, undated, devFailed>>
  BY DEF Discard, FetchErr
<1>6. /\ pc' \in [Workers -> {"start", "loop", "pop", "open", "noteOpen", "recv", "discard",
                              "discardBroken", "noteWrite", "install", "reopen", "done"}]
      /\ chunks' \in [Workers -> Nat] /\ errFile' \subseteq Items /\ filesDone' \in Nat
  BY <1>1, <1>3 DEF Discard, FetchErr, AfterError, TypeOK
<1> QED
  BY <1>1, <1>2, <1>4, <1>5, <1>6 DEF TypeOK

-----------------------------------------------------------------------------
(* The inductive invariant.                                                *)

(* The inductive invariant holds at the start.                             *)
LEMMA InitInv == Init => IInv
<1> SUFFICES ASSUME Init PROVE IInv
  OBVIOUS
<1>1. TypeOK
  BY InitType
<1>2. InHand = {} /\ InFlight = {}
  BY DEF Init, InHand, InFlight
<1>3. ProgressExact
  BY <1>2, FS_EmptySet, TransferAssumption, LenProperties DEF Init, ProgressExact
<1>4. Exclusive
  BY <1>2, TransferAssumption DEF Init, Exclusive
<1>5. TempsKnown
  BY DEF Init, TempsKnown, TempKnown, Receiving
<1>6. NoTruncatedFinal
  BY DEF Init, NoTruncatedFinal
<1> QED
  BY <1>1, <1>3, <1>4, <1>5, <1>6 DEF IInv

(* Every step keeps the inductive invariant.                               *)
LEMMA StepInv == IInv /\ [Next]_vars => IInv'
<1> SUFFICES ASSUME IInv, [Next]_vars PROVE IInv'
  OBVIOUS
<1> USE DEF stats, fetch, disk, results, history
<1>i. TypeOK /\ ProgressExact /\ Exclusive /\ TempsKnown /\ NoTruncatedFinal
  BY DEF IInv
<1>1. CASE \E w \in Workers : WorkerStep(w)
  <2> PICK w \in Workers : WorkerStep(w)
    BY <1>1
  <2>1. TypeOK'
    BY WorkerType, DiscardType
  <2>2. ProgressExact'
    BY <1>i, ProgressStep
  <2>3. Exclusive'
    BY <1>i, ExclusiveStep
  <2>4. TempsKnown' /\ NoTruncatedFinal'
    BY <1>i, TempsStep, FinalStep
  <2> QED
    BY <2>1, <2>2, <2>3, <2>4 DEF IInv
<1>2. CASE CreateDirs \/ Join \/ Ended \/ UNCHANGED vars
  <2>1. UNCHANGED <<queue, pc, item, todo, open, chunks, temp, final, bytes, bytesDone,
                    filesDone>>
    BY <1>2 DEF CreateDirs, Join, Ended, vars
  <2>2. InHand' = InHand /\ InFlight' = InFlight
    BY <2>1 DEF InHand, InFlight
  <2>3. TypeOK'
    <3>1. CASE CreateDirs
      BY <1>i, <3>1 DEF CreateDirs, TypeOK
    <3>2. CASE Join
      BY <1>i, <3>2 DEF Join, TypeOK
    <3>3. CASE UNCHANGED vars
      BY <1>i, <3>3 DEF vars, TypeOK
    <3> QED
      BY <1>2, <3>1, <3>2, <3>3 DEF Ended
  <2>4. ProgressExact' /\ Exclusive'
    BY <1>i, <2>1, <2>2 DEF ProgressExact, Exclusive
  <2>5. TempsKnown' /\ NoTruncatedFinal'
    BY <1>i, <2>1 DEF TempsKnown, TempKnown, Receiving, NoTruncatedFinal
  <2> QED
    BY <2>3, <2>4, <2>5 DEF IInv
<1> QED
  BY <1>1, <1>2 DEF Next

(* The conjunction of everything above, in every reachable state. *)
THEOREM Invariance == Spec => []IInv
  BY InitInv, StepInv, PTL DEF Spec

(* Every variable keeps its type; in particular the unsigned counter of    *)
(* bytes never wraps when a failed file's bytes are taken off (fetch_sub). *)
THEOREM TypeCorrect == Spec => []TypeOK
<1>1. IInv => TypeOK
  BY DEF IInv
<1> QED
  BY <1>1, Invariance, PTL

(* However the workers interleave and whatever fails, and wherever the run *)
(* is interrupted, no final name holds a part of a file.                   *)
THEOREM NeverTruncated == Spec => []NoTruncatedFinal
<1>1. IInv => NoTruncatedFinal
  BY DEF IInv
<1> QED
  BY <1>1, Invariance, PTL

(* The counters behind the progress display and the report agree in every  *)
(* state with what is fetched, what is being fetched and what is queued.   *)
THEOREM ProgressCorrect == Spec => []ProgressExact
<1>1. IInv => ProgressExact
  BY DEF IInv
<1> QED
  BY <1>1, Invariance, PTL

-----------------------------------------------------------------------------
(* What a run reports and leaves behind: the destinations the engine       *)
(* writes off, the temporary files it removes, the copies it makes and the *)
(* errors it reports, on top of IInv.                                      *)

(* Before the workers start nothing has happened; after the last has ended *)
(* nothing does.                                                           *)
Phases ==
  /\ phase = "prepare" => /\ queue = Transfers
                          /\ \A w \in Workers : pc[w] = "start"
                          /\ \A d \in Dests : failures[d] = 0
  /\ phase = "finished" => \A w \in Workers : pc[w] = "done"

(* A worker that is about to write off a destination is about to write off *)
(* one, whose failures have reached the limit.                             *)
Limits ==
  \A w \in Workers : limitHit[w] = {} \/
    /\ pc[w] \in {"noteOpen", "noteWrite", "install"}
    /\ \E d \in Dests : limitHit[w] = {d} /\ failures[d] >= Limit

(* A worker that left the queue behind had a reason. *)
LeftFor(w) ==
  pc[w] = "done" => \/ queue = <<>> \/ \A d \in Dests : disabled[d]
                    \/ w \in unstarted \union errStream

AllLeft == \A w \in Workers : LeftFor(w)

(* The targets of a file that a worker is fetching, as they are opened,    *)
(* fail, and are dealt with at the end.                                    *)
Opening(w) == pc[w] \in {"open", "noteOpen"}
Targeted(w) ==
  /\ open[w] \subseteq targets[w]
  /\ pc[w] = "open" => todo[w] \intersect (targets[w] \union failed[w]) = {}
  /\ Opening(w) => open[w] = targets[w] /\ failed[w] \intersect targets[w] = {}
  /\ pc[w] = "noteOpen" => todo[w] \subseteq failed[w]
  /\ pc[w] = "recv" => failed[w] \intersect targets[w] = {}
  /\ pc[w] = "noteWrite" => todo[w] \subseteq targets[w] \ open[w]
  /\ pc[w] = "noteWrite" => failed[w] \intersect open[w] = {}
  /\ pc[w] = "install" => /\ todo[w] \subseteq targets[w]
                          /\ failed[w] \intersect open[w] \intersect todo[w] = {}
  /\ pc[w] \in {"noteWrite", "install"} => targets[w] \ open[w] \subseteq failed[w]

(* Every temporary file is removed already, or in the list of a worker that*)
(* will remove it.                                                         *)
Holds(w, d) == IF pc[w] = "install" THEN d \in todo[w] ELSE d \in targets[w]
TempsOwned ==
  \A d \in Dests, i \in Items : temp[d][i] # Absent =>
    <<d, i>> \in stuck \/ \E w \in InHand : item[w] = i /\ Holds(w, d)

(* Whatever a worker counts as a failure of a destination was one. *)
Blamed(w) ==
  /\ pc[w] \in {"open", "noteOpen", "recv"} => \A d \in failed[w] : hurt[d] > 0
  /\ w \in InHand => \A d \in targets[w] \ open[w] : hurt[d] > 0
Blameless == \A d \in Dests : failures[d] > 0 => hurt[d] > 0

(* A destination without a failure has the file, or will get it. *)
Coming(w, d) ==
  \/ pc[w] = "open" /\ d \in todo[w] \union open[w]
  \/ pc[w] \in {"noteOpen", "recv", "noteWrite"} /\ d \in open[w]
  \/ pc[w] = "install" /\ d \in todo[w] \intersect open[w]
Served ==
  \A i \in Items \ (devFailed \union Queued) : \A d \in Targets[i] \ unprepared :
    hurt[d] = 0 => final[d][i] = Size[i] \/ \E w \in InHand : item[w] = i /\ Coming(w, d)

(* A copy that is missing is accounted for, or will be. *)
Accounted(w, d) ==
  \/ pc[w] = "open" /\ d \in todo[w] \union targets[w] \union failed[w]
  \/ pc[w] \in {"noteOpen", "recv", "noteWrite"} /\ d \in targets[w] \union failed[w]
  \/ pc[w] = "install" /\ d \in todo[w] \union failed[w]
  \/ pc[w] \in {"discard", "discardBroken"}
Reasons ==
  \A i \in Items \ Queued : \A d \in Targets[i] :
    final[d][i] = Absent =>
      \/ i \in errFile \/ <<i, d>> \in errDest \/ disabled[d]
      \/ \E w \in InHand : item[w] = i /\ Accounted(w, d)

(* A file that is queued or in hand has no error yet, and no copy before   *)
(* the renames.                                                            *)
Fresh(i) == i \notin errFile /\ \A d \in Dests : <<i, d>> \notin errDest
Missing(i) == \A d \in Dests : final[d][i] = Absent
OwnUntouched(w) ==
  /\ Fresh(item[w])
  /\ pc[w] # "install" => Missing(item[w])
  /\ pc[w] = "install" =>
       /\ \A d \in todo[w] : final[d][item[w]] = Absent
       /\ \A d \in failed[w] : final[d][item[w]] = Absent \/ <<item[w], d>> \in undated
Untouched == /\ \A i \in Queued : Fresh(i) /\ Missing(i)
             /\ \A w \in InHand : OwnUntouched(w)
Blames ==
  /\ \A i \in errFile : Missing(i)
  /\ \A e \in errDest : final[e[2]][e[1]] = Absent \/ e \in undated

(* The failures of a destination that the report does not know of yet are  *)
(* those of the files in hand, one per file.                               *)
Noted(w) == CASE pc[w] = "open" -> {}
              [] pc[w] \in {"noteOpen", "noteWrite"} -> failed[w] \ todo[w]
              [] OTHER -> failed[w]
Unreported == unprepared = {} /\ errFile = {} /\ errDest = {}
Holders(d) == {w \in InHand : d \in Noted(w)}
Counts == Unreported => \A d \in Dests : failures[d] <= Cardinality(Holders(d))

AllTargeted == \A w \in Workers : Targeted(w)
AllBlamed == \A w \in Workers : Blamed(w)

-----------------------------------------------------------------------------
(* What any step of a worker leaves alone, and what it can only add to.    *)

OthersUntouched(w) ==
  \A v \in Workers \ {w} :
    /\ pc'[v] = pc[v] /\ item'[v] = item[v] /\ todo'[v] = todo[v]
    /\ targets'[v] = targets[v] /\ open'[v] = open[v] /\ failed'[v] = failed[v]
    /\ limitHit'[v] = limitHit[v]

OnlyAdds ==
  /\ phase = "run" /\ phase' = "run" /\ unprepared' = unprepared
  /\ \A d \in Dests : /\ hurt[d] <= hurt'[d] /\ failures[d] <= failures'[d]
                      /\ disabled[d] => disabled'[d]
  /\ stuck \subseteq stuck' /\ undated \subseteq undated' /\ devFailed \subseteq devFailed'
  /\ errFile \subseteq errFile' /\ errDest \subseteq errDest'
  /\ errStream \subseteq errStream' /\ unstarted \subseteq unstarted'

(* A step of worker w changes nothing of another worker's.                 *)
LEMMA StepFrame ==
  ASSUME TypeOK, NEW w \in Workers, WorkerStep(w)
  PROVE  OthersUntouched(w)
<1> USE DEF OthersUntouched, stats, fetch, disk, results, history, Goto
<1>t. /\ pc = [v \in Workers |-> pc[v]] /\ item = [v \in Workers |-> item[v]]
      /\ todo = [v \in Workers |-> todo[v]] /\ targets = [v \in Workers |-> targets[v]]
      /\ open = [v \in Workers |-> open[v]] /\ failed = [v \in Workers |-> failed[v]]
      /\ limitHit = [v \in Workers |-> limitHit[v]]
  BY DEF TypeOK
<1>1. CASE OpenStream(w)
  BY <1>t, <1>1 DEF OpenStream
<1>2. CASE CheckDests(w)
  BY <1>t, <1>2 DEF CheckDests
<1>3. CASE QueueEmpty(w)
  BY <1>t, <1>3 DEF QueueEmpty, AfterLast
<1>4. CASE PopItem(w)
  BY <1>t, <1>4 DEF PopItem
<1>5. CASE Reopen(w)
  BY <1>t, <1>5 DEF Reopen
<1>6. CASE SkipDisabled(w)
  BY <1>t, <1>6 DEF SkipDisabled, Visited
<1>7. CASE OpenTemp(w)
  BY <1>t, <1>7 DEF OpenTemp, Visited
<1>8. CASE OpenFails(w)
  BY <1>t, <1>8 DEF OpenFails, Visited
<1>9. CASE AllVisited(w)
  BY <1>t, <1>9 DEF AllVisited
<1>10. CASE NoteFailure(w)
  BY <1>t, <1>10 DEF NoteFailure, LimitReached
<1>11. CASE GiveUp(w)
  BY <1>t, <1>11 DEF GiveUp
<1>12. CASE SkipFile(w)
  BY <1>t, <1>12 DEF SkipFile, OpenPhaseOver
<1>13. CASE NothingOpened(w)
  BY <1>t, <1>13 DEF NothingOpened, OpenPhaseOver, FetchErr, AfterError
<1>14. CASE StartRecv(w)
  BY <1>t, <1>14 DEF StartRecv, OpenPhaseOver
<1>15. CASE ReceiveData(w)
  BY <1>t, <1>15 DEF ReceiveData, HurtAll, Landed
<1>16. CASE SinkGone(w)
  BY <1>t, <1>16 DEF SinkGone, HurtAll, AllClosed
<1>17. CASE RecvFails(w)
  BY <1>t, <1>17 DEF RecvFails
<1>18. CASE Discard(w)
  BY <1>t, <1>18 DEF Discard, Partials, FetchErr, AfterError
<1>19. CASE RecvDone(w)
  BY <1>t, <1>19 DEF RecvDone, HurtAll, Landed
<1>20. CASE BeginInstall(w)
  BY <1>t, <1>20 DEF BeginInstall
<1>21. CASE DropTarget(w)
  BY <1>t, <1>21 DEF DropTarget, Visited, RemoveTemp, TookWhole
<1>22. CASE Install(w)
  BY <1>t, <1>22 DEF Install, Visited, TookWhole
<1>23. CASE RenameFails(w)
  BY <1>t, <1>23 DEF RenameFails, Visited, RemoveTemp, TookWhole, LimitReached
<1>24. CASE FinishFile(w)
  BY <1>t, <1>24 DEF FinishFile, FetchOk, Reported
<1> QED
  BY <1>1, <1>2, <1>3, <1>4, <1>5, <1>6, <1>7, <1>8, <1>9, <1>10, <1>11, <1>12, <1>13, <1>14, <1>15, <1>16, <1>17, <1>18, <1>19, <1>20, <1>21, <1>22, <1>23, <1>24 DEF WorkerStep

(* Failures, errors and the record of what went wrong only accumulate, and *)
(* no destination that was written off is taken back.                      *)
LEMMA StepOnlyAdds ==
  ASSUME TypeOK, NEW w \in Workers, WorkerStep(w)
  PROVE  OnlyAdds
<1> USE DEF OnlyAdds, stats, fetch, disk, results, history, Goto, At
<1>t. /\ hurt \in [Dests -> Nat] /\ failures \in [Dests -> Nat]
      /\ disabled \in [Dests -> BOOLEAN]
  BY DEF TypeOK
<1>1. CASE OpenStream(w)
  BY <1>t, <1>1 DEF OpenStream
<1>2. CASE CheckDests(w)
  BY <1>t, <1>2 DEF CheckDests
<1>3. CASE QueueEmpty(w)
  BY <1>t, <1>3 DEF QueueEmpty, AfterLast
<1>4. CASE PopItem(w)
  BY <1>t, <1>4 DEF PopItem
<1>5. CASE Reopen(w)
  BY <1>t, <1>5 DEF Reopen
<1>6. CASE SkipDisabled(w)
  BY <1>t, <1>6 DEF SkipDisabled, Visited
<1>7. CASE OpenTemp(w)
  BY <1>t, <1>7 DEF OpenTemp, Visited
<1>8. CASE OpenFails(w)
  BY <1>t, <1>8 DEF OpenFails, Visited
<1>9. CASE AllVisited(w)
  BY <1>t, <1>9 DEF AllVisited
<1>10. CASE NoteFailure(w)
  <2>1. PICK d \in todo[w] : failures' = [failures EXCEPT ![d] = @ + 1]
    BY <1>10 DEF NoteFailure
  <2>2. /\ UNCHANGED <<phase, unprepared, disabled, files, bytes, errFile, errDest, errGiveUp,
                      errStream, unstarted, hurt, stuck, undated, devFailed>>
        /\ phase = "run"
    BY <1>10 DEF NoteFailure
  <2> QED
    <3>1. d \in Dests
      BY DEF TypeOK
    <3> QED
      BY <1>t, <2>1, <2>2, <3>1
<1>11. CASE GiveUp(w)
  BY <1>t, <1>11 DEF GiveUp
<1>12. CASE SkipFile(w)
  BY <1>t, <1>12 DEF SkipFile, OpenPhaseOver
<1>13. CASE NothingOpened(w)
  BY <1>t, <1>13 DEF NothingOpened, OpenPhaseOver, FetchErr, AfterError
<1>14. CASE StartRecv(w)
  BY <1>t, <1>14 DEF StartRecv, OpenPhaseOver
<1>15. CASE ReceiveData(w)
  BY <1>t, <1>15 DEF ReceiveData, HurtAll, Landed
<1>16. CASE SinkGone(w)
  BY <1>t, <1>16 DEF SinkGone, HurtAll, AllClosed
<1>17. CASE RecvFails(w)
  BY <1>t, <1>17 DEF RecvFails
<1>18. CASE Discard(w)
  BY <1>t, <1>18 DEF Discard, Partials, FetchErr, AfterError
<1>19. CASE RecvDone(w)
  BY <1>t, <1>19 DEF RecvDone, HurtAll, Landed
<1>20. CASE BeginInstall(w)
  BY <1>t, <1>20 DEF BeginInstall
<1>21. CASE DropTarget(w)
  BY <1>t, <1>21 DEF DropTarget, Visited, RemoveTemp, TookWhole
<1>22. CASE Install(w)
  BY <1>t, <1>22 DEF Install, Visited, TookWhole
<1>23. CASE RenameFails(w)
  BY <1>t, <1>23 DEF RenameFails, Visited, RemoveTemp, TookWhole, LimitReached
<1>24. CASE FinishFile(w)
  BY <1>t, <1>24 DEF FinishFile, FetchOk, Reported
<1> QED
  BY <1>1, <1>2, <1>3, <1>4, <1>5, <1>6, <1>7, <1>8, <1>9, <1>10, <1>11, <1>12, <1>13, <1>14, <1>15, <1>16, <1>17, <1>18, <1>19, <1>20, <1>21, <1>22, <1>23, <1>24 DEF WorkerStep

-----------------------------------------------------------------------------
(* Which destinations are written off, and what is left in the queue.      *)

(* A step that is not about a failure changes no count of failures and     *)
(* writes no destination off.                                              *)
LEMMA FailuresQuiet ==
  ASSUME NEW w \in Workers, WorkerStep(w),
         ~NoteFailure(w), ~RenameFails(w), ~GiveUp(w)
  PROVE  UNCHANGED <<failures, disabled, limitHit>>
<1> USE DEF stats, fetch
<1>1. CASE OpenStream(w)
  BY <1>1 DEF OpenStream
<1>2. CASE CheckDests(w)
  BY <1>2 DEF CheckDests
<1>3. CASE QueueEmpty(w)
  BY <1>3 DEF QueueEmpty, AfterLast
<1>4. CASE PopItem(w)
  BY <1>4 DEF PopItem
<1>5. CASE Reopen(w)
  BY <1>5 DEF Reopen
<1>6. CASE SkipDisabled(w)
  BY <1>6 DEF SkipDisabled, Visited
<1>7. CASE OpenTemp(w)
  BY <1>7 DEF OpenTemp, Visited
<1>8. CASE OpenFails(w)
  BY <1>8 DEF OpenFails, Visited
<1>9. CASE AllVisited(w)
  BY <1>9 DEF AllVisited
<1>10. CASE SkipFile(w)
  BY <1>10 DEF SkipFile, OpenPhaseOver
<1>11. CASE NothingOpened(w)
  BY <1>11 DEF NothingOpened, OpenPhaseOver, FetchErr, AfterError
<1>12. CASE StartRecv(w)
  BY <1>12 DEF StartRecv, OpenPhaseOver
<1>13. CASE ReceiveData(w)
  BY <1>13 DEF ReceiveData, HurtAll, Landed
<1>14. CASE SinkGone(w)
  BY <1>14 DEF SinkGone, HurtAll, AllClosed
<1>15. CASE RecvFails(w)
  BY <1>15 DEF RecvFails
<1>16. CASE Discard(w)
  BY <1>16 DEF Discard, Partials, FetchErr, AfterError
<1>17. CASE RecvDone(w)
  BY <1>17 DEF RecvDone, HurtAll, Landed
<1>18. CASE BeginInstall(w)
  BY <1>18 DEF BeginInstall
<1>19. CASE DropTarget(w)
  BY <1>19 DEF DropTarget, Visited, RemoveTemp, TookWhole
<1>20. CASE Install(w)
  BY <1>20 DEF Install, Visited, TookWhole
<1>21. CASE FinishFile(w)
  BY <1>21 DEF FinishFile, FetchOk, Reported
<1> QED
  BY <1>1, <1>2, <1>3, <1>4, <1>5, <1>6, <1>7, <1>8, <1>9, <1>10, <1>11, <1>12, <1>13, <1>14, <1>15, <1>16, <1>17, <1>18, <1>19, <1>20, <1>21 DEF WorkerStep

(* The count that reaches the limit writes the destination off, and none   *)
(* but that one does.                                                      *)
LEMMA LimitsStep ==
  ASSUME TypeOK, Limits, WriteOffExact, NEW w \in Workers, WorkerStep(w)
  PROVE  Limits' /\ WriteOffExact'
<1> USE DEF Limits, WriteOffExact, At, Goto
<1>t. /\ failures \in [Dests -> Nat] /\ disabled \in [Dests -> BOOLEAN]
      /\ limitHit \in [Workers -> SUBSET Dests] /\ pc = [v \in Workers |-> pc[v]]
      /\ Limit \in Nat \ {0} /\ todo[w] \subseteq Dests
  BY TransferAssumption DEF TypeOK
<1>f. /\ OnlyAdds /\ \A v \in Workers \ {w} : pc'[v] = pc[v] /\ limitHit'[v] = limitHit[v]
  BY StepFrame, StepOnlyAdds DEF OthersUntouched
<1>1. CASE NoteFailure(w) \/ RenameFails(w)
  <2>1. PICK d \in Dests :
          /\ failures' = [failures EXCEPT ![d] = @ + 1]
          /\ limitHit' = [limitHit EXCEPT ![w] = IF LimitReached(d) THEN {d} ELSE {}]
    <3>1. CASE NoteFailure(w)
      <4>1. PICK d \in todo[w] :
              /\ failures' = [failures EXCEPT ![d] = @ + 1]
              /\ limitHit' = [limitHit EXCEPT ![w] = IF LimitReached(d) THEN {d} ELSE {}]
        BY <3>1 DEF NoteFailure
      <4> QED
        BY <1>t, <4>1, Zenon
    <3>2. CASE RenameFails(w)
      <4>1. NextDest(w) \in Dests
        BY <1>t, <3>2, NextDestInTodo DEF RenameFails
      <4> QED
        BY <3>2, <4>1 DEF RenameFails
    <3> QED
      BY <1>1, <3>1, <3>2
  <2>2. /\ disabled' = disabled /\ unprepared' = unprepared /\ limitHit[w] = {}
        /\ pc' = pc /\ pc[w] \in {"noteOpen", "noteWrite", "install"}
    BY <1>1, <1>f DEF NoteFailure, RenameFails, OnlyAdds
  <2>3. Limits'
    BY <1>t, <1>f, <2>1, <2>2 DEF LimitReached
  <2>4. WriteOffExact'
    <3> SUFFICES ASSUME NEW e \in Dests
                 PROVE  /\ failures'[e] >= Limit =>
                             disabled'[e] \/ \E v \in Workers : e \in limitHit'[v]
                        /\ disabled'[e] => failures'[e] >= Limit \/ e \in unprepared'
      BY DEF WriteOffExact
    <3>1. \A v \in Workers : e \in limitHit[v] => e \in limitHit'[v]
      BY <1>t, <2>1, <2>2
    <3>2. failures'[e] = failures[e] \/ (failures'[e] = failures[e] + 1 /\ e = d)
      BY <1>t, <2>1
    <3>3. failures[e] + 1 = Limit /\ e = d => e \in limitHit'[w]
      BY <1>t, <2>1 DEF LimitReached
    <3> QED
      BY <1>t, <2>2, <3>1, <3>2, <3>3
  <2> QED
    BY <2>3, <2>4
<1>2. CASE GiveUp(w)
  <2>1. PICK d \in limitHit[w] : disabled' = [disabled EXCEPT ![d] = TRUE]
    BY <1>2 DEF GiveUp
  <2>2. /\ failures' = failures /\ unprepared' = unprepared /\ pc' = pc
        /\ limitHit' = [limitHit EXCEPT ![w] = {}]
    BY <1>2 DEF GiveUp
  <2>3. d \in Dests /\ limitHit[w] = {d} /\ failures[d] >= Limit
    BY <1>t, <2>1
  <2>4. Limits'
    BY <1>t, <2>2
  <2>5. WriteOffExact'
    <3> SUFFICES ASSUME NEW e \in Dests
                 PROVE  /\ failures'[e] >= Limit =>
                             disabled'[e] \/ \E v \in Workers : e \in limitHit'[v]
                        /\ disabled'[e] => failures'[e] >= Limit \/ e \in unprepared'
      BY DEF WriteOffExact
    <3>1. CASE e = d
      BY <1>t, <2>1, <2>2, <2>3, <3>1
    <3>2. CASE e # d
      <4>1. \A v \in Workers : e \in limitHit[v] => e \in limitHit'[v]
        BY <1>t, <2>2, <2>3, <3>2
      <4> QED
        BY <1>t, <2>1, <2>2, <3>2, <4>1
    <3> QED
      BY <3>1, <3>2
  <2> QED
    BY <2>4, <2>5
<1>3. CASE ~NoteFailure(w) /\ ~RenameFails(w) /\ ~GiveUp(w)
  <2>1. UNCHANGED <<failures, disabled, limitHit>>
    BY <1>3, FailuresQuiet
  <2>2. unprepared' = unprepared
    BY <1>f DEF OnlyAdds
  <2>3. limitHit[w] = {}
    BY <1>3 DEF WorkerStep, OpenStream, CheckDests, QueueEmpty, PopItem, Reopen,
                SkipDisabled, OpenTemp, OpenFails, AllVisited, SkipFile, NothingOpened,
                StartRecv, OpenPhaseOver, ReceiveData, SinkGone, RecvFails, Discard,
                RecvDone, BeginInstall, DropTarget, Install, FinishFile
  <2>4. Limits'
    <3> SUFFICES ASSUME NEW v \in Workers, limitHit'[v] # {}
                 PROVE  /\ pc'[v] \in {"noteOpen", "noteWrite", "install"}
                        /\ \E d \in Dests : limitHit'[v] = {d} /\ failures'[d] >= Limit
      BY DEF Limits
    <3>1. v # w /\ limitHit[v] # {} /\ pc'[v] = pc[v]
      BY <1>f, <2>1, <2>3
    <3> QED
      BY <2>1, <3>1
  <2> QED
    BY <2>1, <2>2, <2>4
<1> QED
  BY <1>1, <1>2, <1>3

(* A worker that is done leaves files behind only when no destination or   *)
(* no stream of its own is left.                                           *)
LEMMA LeftForStep ==
  ASSUME TypeOK, \A v \in Workers : LeftFor(v), NEW w \in Workers, WorkerStep(w)
  PROVE  \A v \in Workers : LeftFor(v)'
<1> SUFFICES ASSUME NEW v \in Workers, pc'[v] = "done"
             PROVE  \/ queue' = <<>> \/ \A d \in Dests : disabled'[d]
                    \/ v \in unstarted' \union errStream'
  BY DEF LeftFor
<1>f. OnlyAdds /\ (v # w => pc'[v] = pc[v])
  BY StepFrame, StepOnlyAdds DEF OthersUntouched
<1>q. queue = <<>> => queue' = <<>>
  BY HandsOnlyEmpty DEF PopItem
<1>1. CASE pc[v] = "done"
  BY <1>f, <1>q, <1>1 DEF LeftFor, OnlyAdds
<1>2. CASE v = w /\ pc[w] # "done"
  <2> USE DEF At, Goto, stats, fetch, results
  <2>t. pc = [u \in Workers |-> pc[u]]
    BY DEF TypeOK
  <2>1. \/ OpenStream(w) \/ CheckDests(w) \/ QueueEmpty(w) \/ Reopen(w)
    <3>1. CASE \/ PopItem(w) \/ SkipDisabled(w) \/ OpenTemp(w) \/ OpenFails(w)
               \/ AllVisited(w) \/ NoteFailure(w) \/ GiveUp(w) \/ SkipFile(w)
      BY <1>2, <2>t, <3>1 DEF PopItem, SkipDisabled, OpenTemp, OpenFails, AllVisited,
           NoteFailure, GiveUp, SkipFile
    <3>2. CASE \/ NothingOpened(w) \/ StartRecv(w) \/ ReceiveData(w) \/ SinkGone(w)
               \/ RecvFails(w) \/ Discard(w) \/ RecvDone(w)
      BY <1>2, <2>t, <3>2 DEF NothingOpened, StartRecv, ReceiveData, SinkGone, RecvFails,
           Discard, RecvDone, FetchErr, AfterError
    <3>3. CASE \/ BeginInstall(w) \/ DropTarget(w) \/ Install(w) \/ RenameFails(w)
               \/ FinishFile(w)
      BY <1>2, <2>t, <3>3 DEF BeginInstall, DropTarget, Install, RenameFails, FinishFile,
           FetchOk
    <3> QED
      BY <3>1, <3>2, <3>3 DEF WorkerStep
  <2>2. CASE OpenStream(w)
    BY <1>2, <2>t, <2>2 DEF OpenStream
  <2>3. CASE CheckDests(w)
    BY <1>2, <2>t, <2>3 DEF CheckDests
  <2>4. CASE QueueEmpty(w)
    BY <1>2, <2>t, <2>4 DEF QueueEmpty
  <2>5. CASE Reopen(w)
    BY <1>2, <2>t, <2>5 DEF Reopen
  <2> QED
    BY <2>1, <2>2, <2>3, <2>4, <2>5
<1> QED
  BY <1>f, <1>1, <1>2

-----------------------------------------------------------------------------
(* The targets of a file in hand.                                          *)

(* The worker that steps keeps its own lists of targets in order.          *)
LEMMA OwnTargets ==
  ASSUME TypeOK, NEW w \in Workers, Targeted(w), WorkerStep(w)
  PROVE  Targeted(w)'
<1> USE DEF Targeted, Opening, At, Goto, stats, fetch, disk, results, history
<1>t. /\ pc = [v \in Workers |-> pc[v]] /\ todo = [v \in Workers |-> todo[v]]
      /\ targets = [v \in Workers |-> targets[v]] /\ open = [v \in Workers |-> open[v]]
      /\ failed = [v \in Workers |-> failed[v]] /\ todo[w] \subseteq Dests
      /\ todo[w] # {} => NextDest(w) \in todo[w]
  BY NextDestInTodo DEF TypeOK
<1>1. CASE OpenStream(w)
  BY <1>t, <1>1 DEF OpenStream
<1>2. CASE CheckDests(w)
  BY <1>t, <1>2 DEF CheckDests
<1>3. CASE QueueEmpty(w)
  BY <1>t, <1>3 DEF QueueEmpty, AfterLast
<1>4. CASE PopItem(w)
  BY <1>t, <1>4 DEF PopItem
<1>5. CASE Reopen(w)
  BY <1>t, <1>5 DEF Reopen
<1>6. CASE SkipDisabled(w)
  BY <1>t, <1>6 DEF SkipDisabled, Visited
<1>7. CASE OpenTemp(w)
  BY <1>t, <1>7 DEF OpenTemp, Visited
<1>8. CASE OpenFails(w)
  BY <1>t, <1>8 DEF OpenFails, Visited
<1>9. CASE AllVisited(w)
  BY <1>t, <1>9 DEF AllVisited
<1>10. CASE NoteFailure(w)
  BY <1>t, <1>10 DEF NoteFailure, LimitReached
<1>11. CASE GiveUp(w)
  BY <1>t, <1>11 DEF GiveUp
<1>12. CASE SkipFile(w)
  BY <1>t, <1>12 DEF SkipFile, OpenPhaseOver
<1>13. CASE NothingOpened(w)
  BY <1>t, <1>13 DEF NothingOpened, OpenPhaseOver, FetchErr, AfterError
<1>14. CASE StartRecv(w)
  BY <1>t, <1>14 DEF StartRecv, OpenPhaseOver
<1>15. CASE ReceiveData(w)
  BY <1>t, <1>15 DEF ReceiveData, HurtAll, Landed
<1>16. CASE SinkGone(w)
  BY <1>t, <1>16 DEF SinkGone, HurtAll, AllClosed
<1>17. CASE RecvFails(w)
  BY <1>t, <1>17 DEF RecvFails
<1>18. CASE Discard(w)
  BY <1>t, <1>18 DEF Discard, Partials, FetchErr, AfterError
<1>19. CASE RecvDone(w)
  BY <1>t, <1>19 DEF RecvDone, HurtAll, Landed
<1>20. CASE BeginInstall(w)
  BY <1>t, <1>20 DEF BeginInstall
<1>21. CASE DropTarget(w)
  BY <1>t, <1>21 DEF DropTarget, Visited, RemoveTemp, TookWhole
<1>22. CASE Install(w)
  BY <1>t, <1>22 DEF Install, Visited, TookWhole
<1>23. CASE RenameFails(w)
  BY <1>t, <1>23 DEF RenameFails, Visited, RemoveTemp, TookWhole, LimitReached
<1>24. CASE FinishFile(w)
  BY <1>t, <1>24 DEF FinishFile, FetchOk, Reported
<1> QED
  BY <1>1, <1>2, <1>3, <1>4, <1>5, <1>6, <1>7, <1>8, <1>9, <1>10, <1>11, <1>12, <1>13, <1>14, <1>15, <1>16, <1>17, <1>18, <1>19, <1>20, <1>21, <1>22, <1>23, <1>24 DEF WorkerStep

(* So do the others, whose lists the step leaves alone.                    *)
LEMMA TargetsStep ==
  ASSUME TypeOK, AllTargeted, NEW w \in Workers, WorkerStep(w)
  PROVE  AllTargeted'
<1> SUFFICES ASSUME NEW v \in Workers PROVE Targeted(v)'
  BY DEF AllTargeted
<1>1. Targeted(v) /\ Targeted(w)
  BY DEF AllTargeted
<1>2. CASE v = w
  BY <1>1, <1>2, OwnTargets
<1>3. CASE v # w
  BY <1>1, <1>3, StepFrame DEF OthersUntouched, Targeted, Opening
<1> QED
  BY <1>2, <1>3

(* What a worker counts against a destination has happened there.          *)
LEMMA OwnBlame ==
  ASSUME TypeOK, NEW w \in Workers, Targeted(w), Blamed(w), WorkerStep(w)
  PROVE  Blamed(w)'
<1> USE DEF Blamed, InHand, At, Goto, stats, fetch, disk, results, history
<1>t. /\ pc = [v \in Workers |-> pc[v]] /\ todo = [v \in Workers |-> todo[v]]
      /\ targets = [v \in Workers |-> targets[v]] /\ open = [v \in Workers |-> open[v]]
      /\ failed = [v \in Workers |-> failed[v]] /\ todo[w] \subseteq Dests
      /\ targets[w] \subseteq Dests /\ open[w] \subseteq Dests /\ failed[w] \subseteq Dests
      /\ todo[w] # {} => NextDest(w) \in todo[w]
      /\ hurt \in [Dests -> Nat]
  BY NextDestInTodo DEF TypeOK
<1>1. CASE OpenStream(w)
  BY <1>t, <1>1 DEF OpenStream
<1>2. CASE CheckDests(w)
  BY <1>t, <1>2 DEF CheckDests
<1>3. CASE QueueEmpty(w)
  BY <1>t, <1>3 DEF QueueEmpty, AfterLast
<1>4. CASE PopItem(w)
  BY <1>t, <1>4 DEF PopItem
<1>5. CASE Reopen(w)
  BY <1>t, <1>5 DEF Reopen
<1>6. CASE SkipDisabled(w)
  BY <1>t, <1>6 DEF SkipDisabled, Visited
<1>7. CASE OpenTemp(w)
  BY <1>t, <1>7 DEF OpenTemp, Visited
<1>8. CASE OpenFails(w)
  BY <1>t, <1>8 DEF OpenFails, Visited
<1>9. CASE AllVisited(w)
  BY <1>t, <1>9 DEF AllVisited
<1>10. CASE NoteFailure(w)
  BY <1>t, <1>10 DEF NoteFailure, LimitReached
<1>11. CASE GiveUp(w)
  BY <1>t, <1>11 DEF GiveUp
<1>12. CASE SkipFile(w)
  BY <1>t, <1>12 DEF SkipFile, OpenPhaseOver
<1>13. CASE NothingOpened(w)
  BY <1>t, <1>13 DEF NothingOpened, OpenPhaseOver, FetchErr, AfterError
<1>14. CASE StartRecv(w)
  BY <1>t, <1>14 DEF StartRecv, OpenPhaseOver
<1>15. CASE ReceiveData(w)
  BY <1>t, <1>15 DEF ReceiveData, HurtAll, Landed
<1>16. CASE SinkGone(w)
  BY <1>t, <1>16 DEF SinkGone, HurtAll, AllClosed
<1>17. CASE RecvFails(w)
  BY <1>t, <1>17 DEF RecvFails
<1>18. CASE Discard(w)
  BY <1>t, <1>18 DEF Discard, Partials, FetchErr, AfterError
<1>19. CASE RecvDone(w)
  BY <1>t, <1>19 DEF RecvDone, HurtAll, Landed
<1>20. CASE BeginInstall(w)
  BY <1>t, <1>20 DEF BeginInstall
<1>21. CASE DropTarget(w)
  BY <1>t, <1>21 DEF DropTarget, Visited, RemoveTemp, TookWhole
<1>22. CASE Install(w)
  BY <1>t, <1>22 DEF Install, Visited, TookWhole
<1>23. CASE RenameFails(w)
  BY <1>t, <1>23 DEF RenameFails, Visited, RemoveTemp, TookWhole, LimitReached
<1>24. CASE FinishFile(w)
  BY <1>t, <1>24 DEF FinishFile, FetchOk, Reported
<1> QED
  BY <1>1, <1>2, <1>3, <1>4, <1>5, <1>6, <1>7, <1>8, <1>9, <1>10, <1>11, <1>12, <1>13, <1>14, <1>15, <1>16, <1>17, <1>18, <1>19, <1>20, <1>21, <1>22, <1>23, <1>24 DEF WorkerStep

(* And what the others counted stays true, since failures only add up.     *)
LEMMA BlameStep ==
  ASSUME TypeOK, TypeOK', AllTargeted, AllBlamed, Blameless, NEW w \in Workers, WorkerStep(w)
  PROVE  AllBlamed' /\ Blameless'
<1>f. OthersUntouched(w) /\ OnlyAdds
  BY StepFrame, StepOnlyAdds
<1>t. /\ hurt \in [Dests -> Nat] /\ hurt' \in [Dests -> Nat]
      /\ failures \in [Dests -> Nat]
      /\ \A v \in Workers : /\ failed[v] \subseteq Dests /\ targets[v] \subseteq Dests
                             /\ todo[v] \subseteq Dests
  BY DEF TypeOK
<1>1. AllBlamed'
  <2> SUFFICES ASSUME NEW v \in Workers PROVE Blamed(v)'
    BY DEF AllBlamed
  <2>1. CASE v = w
    BY <2>1, OwnBlame DEF AllBlamed, AllTargeted
  <2>2. CASE v # w
    BY <1>f, <1>t, <2>2 DEF AllBlamed, Blamed, OthersUntouched, OnlyAdds, InHand
  <2> QED
    BY <2>1, <2>2
<1>2. Blameless'
  <2>1. CASE NoteFailure(w)
    BY <1>t, <2>1 DEF NoteFailure, At, AllTargeted, Targeted, AllBlamed, Blamed, Blameless,
                      InHand, history
  <2>2. CASE RenameFails(w)
    <3>1. NextDest(w) \in Dests
      BY <1>t, <2>2, NextDestInTodo DEF RenameFails
    <3> QED
      BY <1>t, <2>2, <3>1 DEF RenameFails, Blameless
  <2>3. CASE ~NoteFailure(w) /\ ~RenameFails(w)
    <3>1. failures' = failures
      BY <2>3, FailuresQuiet DEF GiveUp
    <3> QED
      BY <1>f, <1>t, <3>1 DEF OnlyAdds, Blameless
  <2> QED
    BY <2>1, <2>2, <2>3
<1> QED
  BY <1>1, <1>2

-----------------------------------------------------------------------------
(* What becomes of the copies of one file.                                 *)

(* The worker that steps removes the temporary files of its own file, or   *)
(* goes on holding them.                                                   *)
LEMMA OwnTempsOwned ==
  ASSUME TypeOK, Exclusive, NEW w \in InHand, Targeted(w), WorkerStep(w), NEW d \in Dests,
         temp[d][item[w]] # Absent => <<d, item[w]>> \in stuck \/ Holds(w, d),
         temp'[d][item[w]] # Absent
  PROVE  <<d, item[w]>> \in stuck' \/ (w \in InHand' /\ Holds(w, d)')
<1> w \in Workers
  BY DEF InHand
<1>0. ~(OpenStream(w) \/ CheckDests(w) \/ QueueEmpty(w) \/ PopItem(w) \/ Reopen(w))
  BY DEF InHand, At, OpenStream, CheckDests, QueueEmpty, PopItem, Reopen
<1> USE DEF Targeted, Opening, Holds, InHand, At, Goto, stats, fetch, disk, results, history
<1>t. /\ pc = [v \in Workers |-> pc[v]] /\ todo = [v \in Workers |-> todo[v]]
      /\ targets = [v \in Workers |-> targets[v]] /\ open = [v \in Workers |-> open[v]]
      /\ failed = [v \in Workers |-> failed[v]] /\ todo[w] \subseteq Dests
      /\ targets[w] \subseteq Dests /\ open[w] \subseteq Dests /\ failed[w] \subseteq Dests
      /\ todo[w] # {} => NextDest(w) \in todo[w]
      /\ temp \in [Dests -> [Items -> Nat \union {Absent}]]
      /\ final \in [Dests -> [Items -> Nat \union {Absent}]]
      /\ hurt \in [Dests -> Nat] /\ item[w] \in Items
  BY NextDestInTodo DEF TypeOK, Exclusive
<1>1. CASE SkipDisabled(w)
  BY <1>t, <1>1 DEF SkipDisabled, Visited
<1>2. CASE OpenTemp(w)
  BY <1>t, <1>2 DEF OpenTemp, Visited
<1>3. CASE OpenFails(w)
  BY <1>t, <1>3 DEF OpenFails, Visited
<1>4. CASE AllVisited(w)
  BY <1>t, <1>4 DEF AllVisited
<1>5. CASE NoteFailure(w)
  BY <1>t, <1>5 DEF NoteFailure, LimitReached
<1>6. CASE GiveUp(w)
  BY <1>t, <1>6 DEF GiveUp
<1>7. CASE SkipFile(w)
  BY <1>t, <1>7 DEF SkipFile, OpenPhaseOver
<1>8. CASE NothingOpened(w)
  BY <1>t, <1>8 DEF NothingOpened, OpenPhaseOver, FetchErr, AfterError
<1>9. CASE StartRecv(w)
  BY <1>t, <1>9 DEF StartRecv, OpenPhaseOver
<1>10. CASE ReceiveData(w)
  BY <1>t, <1>10 DEF ReceiveData, HurtAll, Landed
<1>11. CASE SinkGone(w)
  BY <1>t, <1>11 DEF SinkGone, HurtAll, AllClosed
<1>12. CASE RecvFails(w)
  BY <1>t, <1>12 DEF RecvFails
<1>13. CASE Discard(w)
  BY <1>t, <1>13 DEF Discard, Partials, FetchErr, AfterError
<1>14. CASE RecvDone(w)
  BY <1>t, <1>14 DEF RecvDone, HurtAll, Landed
<1>15. CASE BeginInstall(w)
  BY <1>t, <1>15 DEF BeginInstall
<1>16. CASE DropTarget(w)
  BY <1>t, <1>16 DEF DropTarget, Visited, RemoveTemp, TookWhole
<1>17. CASE Install(w)
  BY <1>t, <1>17 DEF Install, Visited, TookWhole
<1>18. CASE RenameFails(w)
  BY <1>t, <1>18 DEF RenameFails, Visited, RemoveTemp, TookWhole, LimitReached
<1>19. CASE FinishFile(w)
  BY <1>t, <1>19 DEF FinishFile, FetchOk, Reported
<1> QED
  BY <1>0, <1>1, <1>2, <1>3, <1>4, <1>5, <1>6, <1>7, <1>8, <1>9, <1>10, <1>11, <1>12, <1>13, <1>14, <1>15, <1>16, <1>17, <1>18, <1>19 DEF WorkerStep

(* Every temporary file stays on record.                                   *)
LEMMA TempsOwnedStep ==
  ASSUME TypeOK, Exclusive, AllTargeted, TempsOwned, NEW w \in Workers, WorkerStep(w)
  PROVE  TempsOwned'
<1> SUFFICES ASSUME NEW d \in Dests, NEW i \in Items, temp'[d][i] # Absent
             PROVE  <<d, i>> \in stuck' \/ \E v \in InHand' : item'[v] = i /\ Holds(v, d)'
  BY DEF TempsOwned
<1>f. OthersUntouched(w) /\ OnlyAdds
  BY StepFrame, StepOnlyAdds
<1>1. CASE w \in InHand /\ item[w] = i
  <2>1. item' = item
    BY <1>1, HandsOnlyEmpty DEF PopItem, InHand, At
  <2>2. temp[d][i] # Absent => <<d, i>> \in stuck \/ Holds(w, d)
    BY <1>1 DEF TempsOwned, Exclusive
  <2>3. <<d, i>> \in stuck' \/ (w \in InHand' /\ Holds(w, d)')
    BY <1>1, <2>2, OwnTempsOwned DEF AllTargeted
  <2> QED
    BY <1>1, <2>1, <2>3
<1>2. CASE ~(w \in InHand /\ item[w] = i)
  <2>1. temp'[d][i] = temp[d][i]
    BY <1>2, TempsOfHeldFiles, StepKeepsOthers DEF OthersKeep
  <2>2. CASE <<d, i>> \in stuck
    BY <1>f, <2>2 DEF OnlyAdds
  <2>3. CASE \E v \in InHand : item[v] = i /\ Holds(v, d)
    <3>1. PICK v \in InHand : item[v] = i /\ Holds(v, d)
      BY <2>3
    <3>2. v # w /\ v \in Workers
      BY <1>2, <3>1 DEF InHand
    <3> QED
      BY <1>f, <3>1, <3>2 DEF OthersUntouched, InHand, Holds
  <2> QED
    BY <2>1, <2>2, <2>3 DEF TempsOwned
<1> QED
  BY <1>1, <1>2

(* A step changes the final names of the worker's own file only. *)
LEMMA FinalOfOthers ==
  ASSUME TypeOK, NEW w \in Workers, WorkerStep(w), NEW d \in Dests, NEW i \in Items,
         ~(w \in InHand /\ item[w] = i)
  PROVE  final'[d][i] = final[d][i]
<1>1. CASE Install(w)
  <2>1. w \in InHand /\ final' = [final EXCEPT ![NextDest(w)][item[w]] = temp[NextDest(w)][item[w]]]
    BY <1>1 DEF Install, InHand, At
  <2> QED
    BY <2>1 DEF TypeOK
<1>2. CASE ~Install(w)
  <2> USE DEF disk
  <2>1. CASE OpenStream(w)
    BY <2>1 DEF OpenStream
  <2>2. CASE CheckDests(w)
    BY <2>2 DEF CheckDests
  <2>3. CASE QueueEmpty(w)
    BY <2>3 DEF QueueEmpty, AfterLast
  <2>4. CASE PopItem(w)
    BY <2>4 DEF PopItem
  <2>5. CASE Reopen(w)
    BY <2>5 DEF Reopen
  <2>6. CASE SkipDisabled(w)
    BY <2>6 DEF SkipDisabled, Visited
  <2>7. CASE OpenTemp(w)
    BY <2>7 DEF OpenTemp, Visited
  <2>8. CASE OpenFails(w)
    BY <2>8 DEF OpenFails, Visited
  <2>9. CASE AllVisited(w)
    BY <2>9 DEF AllVisited
  <2>10. CASE NoteFailure(w)
    BY <2>10 DEF NoteFailure, LimitReached
  <2>11. CASE GiveUp(w)
    BY <2>11 DEF GiveUp
  <2>12. CASE SkipFile(w)
    BY <2>12 DEF SkipFile, OpenPhaseOver
  <2>13. CASE NothingOpened(w)
    BY <2>13 DEF NothingOpened, OpenPhaseOver, FetchErr, AfterError
  <2>14. CASE StartRecv(w)
    BY <2>14 DEF StartRecv, OpenPhaseOver
  <2>15. CASE ReceiveData(w)
    BY <2>15 DEF ReceiveData, HurtAll, Landed
  <2>16. CASE SinkGone(w)
    BY <2>16 DEF SinkGone, HurtAll, AllClosed
  <2>17. CASE RecvFails(w)
    BY <2>17 DEF RecvFails
  <2>18. CASE Discard(w)
    BY <2>18 DEF Discard, Partials, FetchErr, AfterError
  <2>19. CASE RecvDone(w)
    BY <2>19 DEF RecvDone, HurtAll, Landed
  <2>20. CASE BeginInstall(w)
    BY <2>20 DEF BeginInstall
  <2>21. CASE DropTarget(w)
    BY <2>21 DEF DropTarget, Visited, RemoveTemp, TookWhole
  <2>22. CASE RenameFails(w)
    BY <2>22 DEF RenameFails, Visited, RemoveTemp, TookWhole, LimitReached
  <2>23. CASE FinishFile(w)
    BY <2>23 DEF FinishFile, FetchOk, Reported
  <2> QED
    BY <1>2, <2>1, <2>2, <2>3, <2>4, <2>5, <2>6, <2>7, <2>8, <2>9, <2>10, <2>11, <2>12, <2>13, <2>14, <2>15, <2>16, <2>17, <2>18, <2>19, <2>20, <2>21, <2>22, <2>23 DEF WorkerStep
<1> QED
  BY <1>1, <1>2

(* A file stays in the queue until it is popped.                           *)
LEMMA QueuedStays ==
  ASSUME TypeOK, NEW w \in Workers, WorkerStep(w), NEW i \in Queued,
         ~(PopItem(w) /\ i = Head(queue))
  PROVE  i \in Queued'
<1>1. CASE ~PopItem(w)
  BY <1>1, HandsOnlyEmpty DEF Queued
<1>2. CASE PopItem(w)
  <2>1. queue \in Seq(Items) /\ queue # <<>> /\ queue' = Tail(queue) /\ i # Head(queue)
    BY <1>2 DEF PopItem, TypeOK
  <2>2. /\ Head(queue) = queue[1]
        /\ Len(queue) \in Nat /\ Len(queue') = Len(queue) - 1
        /\ \A k \in 1..Len(queue') : queue'[k] = queue[k + 1]
    BY <2>1, HeadTailProperties, LenProperties
  <2>3. PICK k \in 1..Len(queue) : i = queue[k]
    BY DEF Queued
  <2>4. k - 1 \in 1..Len(queue') /\ queue'[k - 1] = i
    BY <2>1, <2>2, <2>3
  <2> QED
    BY <2>4 DEF Queued
<1> QED
  BY <1>1, <1>2

(* A destination without a failure of its own is not written off.          *)
LEMMA HealthyNotDisabled ==
  ASSUME TypeOK, WriteOffExact, Blameless, NEW d \in Dests \ unprepared, hurt[d] = 0
  PROVE  ~disabled[d]
<1>1. failures[d] \in Nat /\ hurt[d] \in Nat /\ Limit \in Nat \ {0}
  BY TransferAssumption DEF TypeOK
<1>2. failures[d] = 0
  BY <1>1 DEF Blameless
<1>3. ~(failures[d] >= Limit)
  BY <1>1, <1>2
<1> QED
  BY <1>3 DEF WriteOffExact

(* The worker that steps brings its own file to the destinations without a *)
(* failure.                                                                *)
LEMMA OwnServed ==
  ASSUME TypeOK, TypeOK', Exclusive, TempsKnown, WriteOffExact, Blameless,
         NEW w \in InHand, Targeted(w), Blamed(w), WorkerStep(w),
         NEW d \in Targets[item[w]] \ unprepared, item[w] \notin devFailed', hurt'[d] = 0,
         final[d][item[w]] = Size[item[w]] \/ Coming(w, d)
  PROVE  final'[d][item[w]] = Size[item[w]] \/ (w \in InHand' /\ Coming(w, d)')
<1> w \in Workers
  BY DEF InHand
<1>0. ~(OpenStream(w) \/ CheckDests(w) \/ QueueEmpty(w) \/ PopItem(w) \/ Reopen(w))
  BY DEF InHand, At, OpenStream, CheckDests, QueueEmpty, PopItem, Reopen
<1>h. /\ d \in Dests /\ item[w] \in Items /\ hurt[d] = 0 /\ ~disabled[d]
      /\ item[w] \notin devFailed
  <2>1. item[w] \in Items /\ d \in Dests
    BY TransferAssumption DEF Exclusive
  <2>2. hurt[d] = 0 /\ item[w] \notin devFailed
    <3>1. hurt[d] \in Nat /\ hurt[d] <= hurt'[d] /\ devFailed \subseteq devFailed'
      BY <2>1, StepOnlyAdds DEF OnlyAdds, TypeOK
    <3> QED
      BY <3>1
  <2> QED
    BY <2>1, <2>2, HealthyNotDisabled
<1>k. /\ pc[w] = "install" => \A e \in open[w] \intersect todo[w] :
                                 temp[e][item[w]] = Size[item[w]]
  BY DEF TempsKnown, TempKnown
<1> USE DEF Targeted, Opening, Coming, InHand, At, Goto, stats, fetch, disk, results, history,
            Blamed
<1>t. /\ pc = [v \in Workers |-> pc[v]] /\ todo = [v \in Workers |-> todo[v]]
      /\ targets = [v \in Workers |-> targets[v]] /\ open = [v \in Workers |-> open[v]]
      /\ failed = [v \in Workers |-> failed[v]] /\ todo[w] \subseteq Dests
      /\ targets[w] \subseteq Dests /\ open[w] \subseteq Dests /\ failed[w] \subseteq Dests
      /\ todo[w] # {} => NextDest(w) \in todo[w]
      /\ temp \in [Dests -> [Items -> Nat \union {Absent}]]
      /\ final \in [Dests -> [Items -> Nat \union {Absent}]]
      /\ hurt \in [Dests -> Nat] /\ item[w] \in Items
  BY NextDestInTodo DEF TypeOK, Exclusive
<1>1. CASE SkipDisabled(w)
  BY <1>t, <1>h, <1>k, <1>1 DEF SkipDisabled, Visited
<1>2. CASE OpenTemp(w)
  BY <1>t, <1>h, <1>k, <1>2 DEF OpenTemp, Visited
<1>3. CASE OpenFails(w)
  BY <1>t, <1>h, <1>k, <1>3 DEF OpenFails, Visited
<1>4. CASE AllVisited(w)
  BY <1>t, <1>h, <1>k, <1>4 DEF AllVisited
<1>5. CASE NoteFailure(w)
  BY <1>t, <1>h, <1>k, <1>5 DEF NoteFailure, LimitReached
<1>6. CASE GiveUp(w)
  BY <1>t, <1>h, <1>k, <1>6 DEF GiveUp
<1>7. CASE SkipFile(w)
  BY <1>t, <1>h, <1>k, <1>7 DEF SkipFile, OpenPhaseOver
<1>8. CASE NothingOpened(w)
  BY <1>t, <1>h, <1>k, <1>8 DEF NothingOpened, OpenPhaseOver, FetchErr, AfterError
<1>9. CASE StartRecv(w)
  BY <1>t, <1>h, <1>k, <1>9 DEF StartRecv, OpenPhaseOver
<1>10. CASE ReceiveData(w)
  BY <1>t, <1>h, <1>k, <1>10 DEF ReceiveData, HurtAll, Landed
<1>11. CASE SinkGone(w)
  BY <1>t, <1>h, <1>k, <1>11 DEF SinkGone, HurtAll, AllClosed
<1>12. CASE RecvFails(w)
  BY <1>t, <1>h, <1>k, <1>12 DEF RecvFails
<1>13. CASE Discard(w)
  BY <1>t, <1>h, <1>k, <1>13 DEF Discard, Partials, FetchErr, AfterError
<1>14. CASE RecvDone(w)
  BY <1>t, <1>h, <1>k, <1>14 DEF RecvDone, HurtAll, Landed
<1>15. CASE BeginInstall(w)
  BY <1>t, <1>h, <1>k, <1>15 DEF BeginInstall
<1>16. CASE DropTarget(w)
  BY <1>t, <1>h, <1>k, <1>16 DEF DropTarget, Visited, RemoveTemp, TookWhole
<1>17. CASE Install(w)
  BY <1>t, <1>h, <1>k, <1>17 DEF Install, Visited, TookWhole
<1>18. CASE RenameFails(w)
  BY <1>t, <1>h, <1>k, <1>18 DEF RenameFails, Visited, RemoveTemp, TookWhole, LimitReached
<1>19. CASE FinishFile(w)
  BY <1>t, <1>h, <1>k, <1>19 DEF FinishFile, FetchOk, Reported
<1> QED
  BY <1>0, <1>1, <1>2, <1>3, <1>4, <1>5, <1>6, <1>7, <1>8, <1>9, <1>10, <1>11, <1>12, <1>13, <1>14, <1>15, <1>16, <1>17, <1>18, <1>19 DEF WorkerStep

(* Every destination without a failure has each file that left the queue,  *)
(* or is about to get it.                                                  *)
LEMMA ServedStep ==
  ASSUME TypeOK, TypeOK', Exclusive, TempsKnown, WriteOffExact, Blameless, AllTargeted,
         AllBlamed, Served, NEW w \in Workers, WorkerStep(w)
  PROVE  Served'
<1> SUFFICES ASSUME NEW i \in Items, i \notin devFailed', i \notin Queued',
                    NEW d \in Targets[i], d \notin unprepared', hurt'[d] = 0
             PROVE  final'[d][i] = Size[i] \/ \E v \in InHand' : item'[v] = i /\ Coming(v, d)'
  BY DEF Served
<1>f. OthersUntouched(w) /\ OnlyAdds
  BY StepFrame, StepOnlyAdds
<1>d. d \in Dests /\ hurt[d] = 0 /\ i \notin devFailed /\ d \notin unprepared
  <2>1. d \in Dests
    BY TransferAssumption
  <2> QED
    BY <1>f, <2>1 DEF OnlyAdds, TypeOK
<1>1. CASE PopItem(w) /\ i = Head(queue)
  <2>1. /\ item' = [item EXCEPT ![w] = i] /\ pc' = [pc EXCEPT ![w] = "open"]
        /\ todo' = [todo EXCEPT ![w] = Targets[i]]
    BY <1>1 DEF PopItem, Goto
  <2> QED
    BY <2>1 DEF TypeOK, InHand, Coming
<1>2. CASE i \in Queued /\ ~(PopItem(w) /\ i = Head(queue))
  <2>1. i \in Queued'
    BY <1>2, QueuedStays
  <2> QED
    BY <2>1
<1>3. CASE i \notin Queued
  <2>1. final[d][i] = Size[i] \/ \E v \in InHand : item[v] = i /\ Coming(v, d)
    BY <1>d, <1>3 DEF Served
  <2>2. CASE w \in InHand /\ item[w] = i
    <3>1. item' = item
      BY <2>2, HandsOnlyEmpty DEF PopItem, InHand, At
    <3>2. final[d][i] = Size[i] \/ Coming(w, d)
      BY <2>1, <2>2 DEF Exclusive
    <3>3. Targeted(w) /\ Blamed(w)
      BY DEF AllTargeted, AllBlamed
    <3>4. final'[d][i] = Size[i] \/ (w \in InHand' /\ Coming(w, d)')
      BY <1>d, <2>2, <3>2, <3>3, OwnServed
    <3> QED
      BY <2>2, <3>1, <3>4
  <2>3. CASE ~(w \in InHand /\ item[w] = i)
    <3>1. final'[d][i] = final[d][i]
      BY <1>d, <2>3, FinalOfOthers
    <3>2. CASE \E v \in InHand : item[v] = i /\ Coming(v, d)
      <4>1. PICK v \in InHand : item[v] = i /\ Coming(v, d)
        BY <3>2
      <4>2. v # w /\ v \in Workers
        BY <2>3, <4>1 DEF InHand
      <4> QED
        BY <1>f, <4>1, <4>2 DEF OthersUntouched, InHand, Coming
    <3> QED
      BY <2>1, <3>1, <3>2
  <2> QED
    BY <2>2, <2>3
<1> QED
  BY <1>1, <1>2, <1>3

-----------------------------------------------------------------------------
(* What the report says of the copies.                                     *)

(* The worker that steps accounts for its own file.                        *)
LEMMA OwnReasons ==
  ASSUME TypeOK, Exclusive, TempsKnown, NEW w \in InHand, Targeted(w), WorkerStep(w),
         NEW d \in Targets[item[w]], d \in Dests,
         final[d][item[w]] = Absent =>
           \/ item[w] \in errFile \/ <<item[w], d>> \in errDest \/ disabled[d]
           \/ Accounted(w, d),
         final'[d][item[w]] = Absent
  PROVE  \/ item[w] \in errFile' \/ <<item[w], d>> \in errDest' \/ disabled'[d]
         \/ w \in InHand' /\ Accounted(w, d)'
<1> w \in Workers
  BY DEF InHand
<1>0. ~(OpenStream(w) \/ CheckDests(w) \/ QueueEmpty(w) \/ PopItem(w) \/ Reopen(w))
  BY DEF InHand, At, OpenStream, CheckDests, QueueEmpty, PopItem, Reopen
<1>k. /\ Size[item[w]] \in Nat
      /\ pc[w] = "install" => \A e \in open[w] \intersect todo[w] :
                                 temp[e][item[w]] = Size[item[w]]
  BY TransferAssumption DEF TempsKnown, TempKnown, Exclusive
<1> USE DEF Targeted, Opening, Accounted, InHand, Absent, At, Goto, stats, fetch, disk, results,
            history
<1>t. /\ pc = [v \in Workers |-> pc[v]] /\ todo = [v \in Workers |-> todo[v]]
      /\ targets = [v \in Workers |-> targets[v]] /\ open = [v \in Workers |-> open[v]]
      /\ failed = [v \in Workers |-> failed[v]] /\ todo[w] \subseteq Dests
      /\ targets[w] \subseteq Dests /\ open[w] \subseteq Dests /\ failed[w] \subseteq Dests
      /\ todo[w] # {} => NextDest(w) \in todo[w]
      /\ final \in [Dests -> [Items -> Nat \union {Absent}]]
      /\ disabled \in [Dests -> BOOLEAN] /\ item[w] \in Items
  BY NextDestInTodo DEF TypeOK, Exclusive
<1>1. CASE SkipDisabled(w)
  BY <1>t, <1>k, <1>1 DEF SkipDisabled, Visited
<1>2. CASE OpenTemp(w)
  BY <1>t, <1>k, <1>2 DEF OpenTemp, Visited
<1>3. CASE OpenFails(w)
  BY <1>t, <1>k, <1>3 DEF OpenFails, Visited
<1>4. CASE AllVisited(w)
  BY <1>t, <1>k, <1>4 DEF AllVisited
<1>5. CASE NoteFailure(w)
  BY <1>t, <1>k, <1>5 DEF NoteFailure, LimitReached
<1>6. CASE GiveUp(w)
  BY <1>t, <1>k, <1>6 DEF GiveUp
<1>7. CASE SkipFile(w)
  BY <1>t, <1>k, <1>7 DEF SkipFile, OpenPhaseOver, AllTargetsDisabled
<1>8. CASE NothingOpened(w)
  BY <1>t, <1>k, <1>8 DEF NothingOpened, OpenPhaseOver, FetchErr, AfterError
<1>9. CASE StartRecv(w)
  BY <1>t, <1>k, <1>9 DEF StartRecv, OpenPhaseOver
<1>10. CASE ReceiveData(w)
  BY <1>t, <1>k, <1>10 DEF ReceiveData, HurtAll, Landed
<1>11. CASE SinkGone(w)
  BY <1>t, <1>k, <1>11 DEF SinkGone, HurtAll, AllClosed
<1>12. CASE RecvFails(w)
  BY <1>t, <1>k, <1>12 DEF RecvFails
<1>13. CASE Discard(w)
  BY <1>t, <1>k, <1>13 DEF Discard, Partials, FetchErr, AfterError
<1>14. CASE RecvDone(w)
  BY <1>t, <1>k, <1>14 DEF RecvDone, HurtAll, Landed
<1>15. CASE BeginInstall(w)
  BY <1>t, <1>k, <1>15 DEF BeginInstall
<1>16. CASE DropTarget(w)
  BY <1>t, <1>k, <1>16 DEF DropTarget, Visited, RemoveTemp, TookWhole
<1>17. CASE Install(w)
  BY <1>t, <1>k, <1>17 DEF Install, Visited, TookWhole
<1>18. CASE RenameFails(w)
  BY <1>t, <1>k, <1>18 DEF RenameFails, Visited, RemoveTemp, TookWhole, LimitReached
<1>19. CASE FinishFile(w)
  BY <1>t, <1>k, <1>19 DEF FinishFile, FetchOk, Reported
<1> QED
  BY <1>0, <1>1, <1>2, <1>3, <1>4, <1>5, <1>6, <1>7, <1>8, <1>9, <1>10, <1>11, <1>12, <1>13, <1>14, <1>15, <1>16, <1>17, <1>18, <1>19 DEF WorkerStep

(* A copy that is missing once its file has left the queue has a reason in *)
(* the report, or is still being worked on.                                *)
LEMMA ReasonsStep ==
  ASSUME TypeOK, Exclusive, TempsKnown, AllTargeted, Reasons, NEW w \in Workers, WorkerStep(w)
  PROVE  Reasons'
<1> SUFFICES ASSUME NEW i \in Items, i \notin Queued', NEW d \in Targets[i],
                    final'[d][i] = Absent
             PROVE  \/ i \in errFile' \/ <<i, d>> \in errDest' \/ disabled'[d]
                    \/ \E v \in InHand' : item'[v] = i /\ Accounted(v, d)'
  BY DEF Reasons
<1>f. OthersUntouched(w) /\ OnlyAdds
  BY StepFrame, StepOnlyAdds
<1>d. d \in Dests
  BY TransferAssumption
<1>1. CASE PopItem(w) /\ i = Head(queue)
  <2>1. /\ item' = [item EXCEPT ![w] = i] /\ pc' = [pc EXCEPT ![w] = "open"]
        /\ todo' = [todo EXCEPT ![w] = Targets[i]]
    BY <1>1 DEF PopItem, Goto
  <2> QED
    BY <2>1 DEF TypeOK, InHand, Accounted
<1>2. CASE i \in Queued /\ ~(PopItem(w) /\ i = Head(queue))
  BY <1>2, QueuedStays
<1>3. CASE i \notin Queued
  <2>1. final[d][i] = Absent =>
          \/ i \in errFile \/ <<i, d>> \in errDest \/ disabled[d]
          \/ \E v \in InHand : item[v] = i /\ Accounted(v, d)
    BY <1>3 DEF Reasons
  <2>2. CASE w \in InHand /\ item[w] = i
    <3>1. item' = item
      BY <2>2, HandsOnlyEmpty DEF PopItem, InHand, At
    <3>2. final[d][i] = Absent =>
            \/ i \in errFile \/ <<i, d>> \in errDest \/ disabled[d] \/ Accounted(w, d)
      BY <2>1, <2>2 DEF Exclusive
    <3>3. Targeted(w)
      BY DEF AllTargeted
    <3>4. \/ i \in errFile' \/ <<i, d>> \in errDest' \/ disabled'[d]
          \/ w \in InHand' /\ Accounted(w, d)'
      BY <1>d, <2>2, <3>2, <3>3, OwnReasons
    <3> QED
      BY <2>2, <3>1, <3>4
  <2>3. CASE ~(w \in InHand /\ item[w] = i)
    <3>1. final'[d][i] = final[d][i]
      BY <1>d, <2>3, FinalOfOthers
    <3>2. CASE \E v \in InHand : item[v] = i /\ Accounted(v, d)
      <4>1. PICK v \in InHand : item[v] = i /\ Accounted(v, d)
        BY <3>2
      <4>2. v # w /\ v \in Workers
        BY <2>3, <4>1 DEF InHand
      <4> QED
        BY <1>f, <4>1, <4>2 DEF OthersUntouched, InHand, Accounted
    <3> QED
      BY <1>d, <1>f, <2>1, <3>1, <3>2 DEF OnlyAdds
  <2> QED
    BY <2>2, <2>3
<1> QED
  BY <1>1, <1>2, <1>3

(* Only the end of a file makes an error, and of that file only.           *)
LEMMA ErrorsOfOthers ==
  ASSUME NEW w \in Workers, WorkerStep(w)
  PROVE  /\ w \notin InHand => errFile' = errFile /\ errDest' = errDest
         /\ errFile' \subseteq errFile \union {item[w]}
         /\ errDest' \subseteq errDest \union Reported(w)
         /\ errFile' # errFile => pc[w] \in {"noteOpen", "discard", "discardBroken"} /\ final' = final
         /\ errDest' # errDest => pc[w] = "install" /\ final' = final
<1> USE DEF results, disk
<1>a. CASE ~NothingOpened(w) /\ ~Discard(w) /\ ~FinishFile(w)
  <2> errFile' = errFile /\ errDest' = errDest
  <3>1. CASE OpenStream(w)
      BY <3>1 DEF OpenStream
    <3>2. CASE CheckDests(w)
      BY <3>2 DEF CheckDests
    <3>3. CASE QueueEmpty(w)
      BY <3>3 DEF QueueEmpty, AfterLast
    <3>4. CASE PopItem(w)
      BY <3>4 DEF PopItem
    <3>5. CASE Reopen(w)
      BY <3>5 DEF Reopen
    <3>6. CASE SkipDisabled(w)
      BY <3>6 DEF SkipDisabled, Visited
    <3>7. CASE OpenTemp(w)
      BY <3>7 DEF OpenTemp, Visited
    <3>8. CASE OpenFails(w)
      BY <3>8 DEF OpenFails, Visited
    <3>9. CASE AllVisited(w)
      BY <3>9 DEF AllVisited
    <3>10. CASE NoteFailure(w)
      BY <3>10 DEF NoteFailure, LimitReached
    <3>11. CASE GiveUp(w)
      BY <3>11 DEF GiveUp
    <3>12. CASE SkipFile(w)
      BY <3>12 DEF SkipFile, OpenPhaseOver
    <3>13. CASE StartRecv(w)
      BY <3>13 DEF StartRecv, OpenPhaseOver
    <3>14. CASE ReceiveData(w)
      BY <3>14 DEF ReceiveData, HurtAll, Landed
    <3>15. CASE SinkGone(w)
      BY <3>15 DEF SinkGone, HurtAll, AllClosed
    <3>16. CASE RecvFails(w)
      BY <3>16 DEF RecvFails
    <3>17. CASE RecvDone(w)
      BY <3>17 DEF RecvDone, HurtAll, Landed
    <3>18. CASE BeginInstall(w)
      BY <3>18 DEF BeginInstall
    <3>19. CASE DropTarget(w)
      BY <3>19 DEF DropTarget, Visited, RemoveTemp, TookWhole
    <3>20. CASE Install(w)
      BY <3>20 DEF Install, Visited, TookWhole
    <3>21. CASE RenameFails(w)
      BY <3>21 DEF RenameFails, Visited, RemoveTemp, TookWhole, LimitReached
    <3> QED
      BY <1>a, <3>1, <3>2, <3>3, <3>4, <3>5, <3>6, <3>7, <3>8, <3>9, <3>10, <3>11, <3>12, <3>13, <3>14, <3>15, <3>16, <3>17, <3>18, <3>19, <3>20, <3>21 DEF WorkerStep
  <2> QED
    OBVIOUS
<1>b. CASE NothingOpened(w)
  BY <1>b DEF NothingOpened, OpenPhaseOver, FetchErr, At, InHand
<1>c. CASE Discard(w)
  BY <1>c DEF Discard, FetchErr, At, InHand
<1>d. CASE FinishFile(w)
  BY <1>d DEF FinishFile, FetchOk, At, InHand
<1> QED
  BY <1>a, <1>b, <1>c, <1>d

(* The worker that steps has no error and no copy of its own file before   *)
(* the renames, as long as it has the file in hand.                        *)
LEMMA OwnUntouchedStep ==
  ASSUME TypeOK, Exclusive, NEW w \in InHand, w \in InHand', Targeted(w), OwnUntouched(w),
         WorkerStep(w)
  PROVE  OwnUntouched(w)'
<1> w \in Workers
  BY DEF InHand
<1>0. ~(OpenStream(w) \/ CheckDests(w) \/ QueueEmpty(w) \/ PopItem(w) \/ Reopen(w))
  BY DEF InHand, At, OpenStream, CheckDests, QueueEmpty, PopItem, Reopen
<1>i. item' = item
  BY <1>0, HandsOnlyEmpty
<1> USE DEF Targeted, Opening, OwnUntouched, Fresh, Missing, InHand, At, Goto, stats, fetch, disk,
            results, history
<1>t. /\ pc = [v \in Workers |-> pc[v]] /\ todo = [v \in Workers |-> todo[v]]
      /\ targets = [v \in Workers |-> targets[v]] /\ open = [v \in Workers |-> open[v]]
      /\ failed = [v \in Workers |-> failed[v]] /\ todo[w] \subseteq Dests
      /\ targets[w] \subseteq Dests /\ open[w] \subseteq Dests /\ failed[w] \subseteq Dests
      /\ todo[w] # {} => NextDest(w) \in todo[w]
      /\ final \in [Dests -> [Items -> Nat \union {Absent}]]
      /\ disabled \in [Dests -> BOOLEAN] /\ item[w] \in Items
  BY NextDestInTodo DEF TypeOK, Exclusive
<1>1. CASE SkipDisabled(w)
  BY <1>t, <1>i, <1>1 DEF SkipDisabled, Visited
<1>2. CASE OpenTemp(w)
  BY <1>t, <1>i, <1>2 DEF OpenTemp, Visited
<1>3. CASE OpenFails(w)
  BY <1>t, <1>i, <1>3 DEF OpenFails, Visited
<1>4. CASE AllVisited(w)
  BY <1>t, <1>i, <1>4 DEF AllVisited
<1>5. CASE NoteFailure(w)
  BY <1>t, <1>i, <1>5 DEF NoteFailure, LimitReached
<1>6. CASE GiveUp(w)
  BY <1>t, <1>i, <1>6 DEF GiveUp
<1>7. CASE SkipFile(w)
  BY <1>t, <1>i, <1>7 DEF SkipFile, OpenPhaseOver
<1>8. CASE NothingOpened(w)
  BY <1>t, <1>i, <1>8 DEF NothingOpened, OpenPhaseOver, FetchErr, AfterError
<1>9. CASE StartRecv(w)
  BY <1>t, <1>i, <1>9 DEF StartRecv, OpenPhaseOver
<1>10. CASE ReceiveData(w)
  BY <1>t, <1>i, <1>10 DEF ReceiveData, HurtAll, Landed
<1>11. CASE SinkGone(w)
  BY <1>t, <1>i, <1>11 DEF SinkGone, HurtAll, AllClosed
<1>12. CASE RecvFails(w)
  BY <1>t, <1>i, <1>12 DEF RecvFails
<1>13. CASE Discard(w)
  BY <1>t, <1>i, <1>13 DEF Discard, Partials, FetchErr, AfterError
<1>14. CASE RecvDone(w)
  BY <1>t, <1>i, <1>14 DEF RecvDone, HurtAll, Landed
<1>15. CASE BeginInstall(w)
  BY <1>t, <1>i, <1>15 DEF BeginInstall
<1>16. CASE DropTarget(w)
  BY <1>t, <1>i, <1>16 DEF DropTarget, Visited, RemoveTemp, TookWhole
<1>17. CASE Install(w)
  BY <1>t, <1>i, <1>17 DEF Install, Visited, TookWhole
<1>18. CASE RenameFails(w)
  BY <1>t, <1>i, <1>18 DEF RenameFails, Visited, RemoveTemp, TookWhole, LimitReached
<1>19. CASE FinishFile(w)
  BY <1>t, <1>i, <1>19 DEF FinishFile, FetchOk, Reported
<1> QED
  BY <1>0, <1>1, <1>2, <1>3, <1>4, <1>5, <1>6, <1>7, <1>8, <1>9, <1>10, <1>11, <1>12, <1>13, <1>14, <1>15, <1>16, <1>17, <1>18, <1>19 DEF WorkerStep

(* A file that is queued or in hand has no error, and none of its copies   *)
(* is there before it is renamed.                                          *)
LEMMA UntouchedStep ==
  ASSUME TypeOK, Exclusive, AllTargeted, Untouched, NEW w \in Workers, WorkerStep(w)
  PROVE  Untouched'
<1>f. OthersUntouched(w) /\ OnlyAdds
  BY StepFrame, StepOnlyAdds
<1>o. ASSUME NEW i \in Items, ~(w \in InHand /\ item[w] = i)
      PROVE  /\ Fresh(i) => Fresh(i)'
             /\ \A d \in Dests : final'[d][i] = final[d][i]
  <2>1. Fresh(i) => Fresh(i)'
    BY <1>o, ErrorsOfOthers DEF Fresh, Reported
  <2> QED
    BY <1>o, <2>1, FinalOfOthers
<1>q. ASSUME NEW i \in Queued
      PROVE  /\ i \in Items /\ ~(w \in InHand /\ item[w] = i)
             /\ Fresh(i)' /\ Missing(i)'
  <2>1. i \in Items /\ ~(w \in InHand /\ item[w] = i)
    BY DEF Queued, Exclusive, TypeOK
  <2> QED
    BY <1>o, <2>1 DEF Untouched, Missing
<1>p. Queued' \subseteq Queued /\ (PopItem(w) => Head(queue) \in Queued)
  <2>1. CASE ~PopItem(w)
    BY <2>1, HandsOnlyEmpty DEF Queued
  <2>2. CASE PopItem(w)
    <3>1. queue \in Seq(Items) /\ queue # <<>> /\ queue' = Tail(queue)
      BY <2>2 DEF PopItem, TypeOK
    <3>2. /\ Head(queue) = queue[1]
          /\ Len(queue) \in Nat \ {0} /\ Len(queue') = Len(queue) - 1
          /\ \A k \in 1..Len(queue') : queue'[k] = queue[k + 1]
      BY <3>1, HeadTailProperties, LenProperties, EmptySeq
    <3> QED
      BY <3>2 DEF Queued
  <2> QED
    BY <2>1, <2>2
<1>1. ASSUME NEW v \in InHand' PROVE OwnUntouched(v)'
  <2>1. CASE v = w /\ PopItem(w)
    <3>1. /\ item' = [item EXCEPT ![w] = Head(queue)] /\ pc' = [pc EXCEPT ![w] = "open"]
      BY <2>1 DEF PopItem, Goto
    <3>2. item'[w] = Head(queue) /\ pc'[w] = "open"
      BY <3>1 DEF TypeOK
    <3>3. Fresh(item[w])' /\ Missing(item[w])'
      BY <1>p, <1>q, <2>1, <3>2 DEF Fresh, Missing
    <3> QED
      BY <2>1, <3>2, <3>3 DEF OwnUntouched
  <2>2. CASE v = w /\ ~PopItem(w)
    <3>1. w \in InHand
      BY <2>2, HandsOnlyEmpty
    <3>2. OwnUntouched(w)
      BY <3>1 DEF Untouched, OwnUntouched
    <3> QED
      BY <2>2, <3>1, <3>2, OwnUntouchedStep DEF AllTargeted
  <2>3. CASE v # w
    <3>1. /\ v \in InHand /\ item'[v] = item[v] /\ pc'[v] = pc[v] /\ todo'[v] = todo[v]
          /\ failed'[v] = failed[v] /\ v \in Workers
      BY <1>f, <2>3 DEF InHand, OthersUntouched
    <3>2. item[v] \in Items /\ ~(w \in InHand /\ item[w] = item[v])
      BY <2>3, <3>1 DEF Exclusive
    <3>3. OwnUntouched(v) /\ todo[v] \subseteq Dests /\ failed[v] \subseteq Dests
      BY <3>1 DEF Untouched, OwnUntouched, TypeOK
    <3>4. /\ Fresh(item[v])' /\ \A d \in Dests : final'[d][item[v]] = final[d][item[v]]
      <4>1. /\ Fresh(item[v]) /\ \A d \in Dests : final'[d][item[v]] = final[d][item[v]]
        BY <1>o, <3>2, <3>3 DEF OwnUntouched
      <4>2. Fresh(item[v])'
        BY <3>1, <3>2, <4>1, ErrorsOfOthers DEF Fresh, Reported
      <4> QED
        BY <4>1, <4>2
    <3> QED
      BY <1>f, <3>1, <3>3, <3>4 DEF OwnUntouched, OnlyAdds, Missing
  <2> QED
    BY <2>1, <2>2, <2>3
<1> QED
  BY <1>p, <1>q, <1>1 DEF Untouched, OwnUntouched

(* An error of a file means that none of its copies is there; an error of  *)
(* one copy, that this one is not, or has not its time.                    *)
LEMMA BlamesStep ==
  ASSUME TypeOK, Exclusive, Untouched, Blames, NEW w \in Workers, WorkerStep(w)
  PROVE  Blames'
<1>f. undated \subseteq undated'
  BY StepOnlyAdds DEF OnlyAdds
<1>t. errFile' \subseteq Items /\ errDest' \subseteq Items \X Dests /\ failed[w] \subseteq Dests
  BY ErrorsOfOthers DEF TypeOK, Exclusive, Reported
<1>o. ASSUME NEW i \in Items, NEW d \in Dests, i \in errFile \/ <<i, d>> \in errDest
      PROVE  final'[d][i] = final[d][i]
  <2>1. ~(w \in InHand /\ item[w] = i)
    BY <1>o DEF Untouched, OwnUntouched, Fresh
  <2> QED
    BY <2>1, FinalOfOthers
<1>1. ASSUME NEW i \in errFile' PROVE Missing(i)'
  <2>1. CASE i \in errFile
    BY <1>o, <1>t, <2>1 DEF Blames, Missing
  <2>2. CASE i \notin errFile
    <3>1. i = item[w] /\ w \in InHand /\ pc[w] # "install" /\ final' = final
      BY <2>2, ErrorsOfOthers
    <3> QED
      BY <3>1 DEF Untouched, OwnUntouched, Missing
  <2> QED
    BY <2>1, <2>2
<1>2. ASSUME NEW e \in errDest' PROVE final'[e[2]][e[1]] = Absent \/ e \in undated'
  <2>e. e = <<e[1], e[2]>> /\ e[1] \in Items /\ e[2] \in Dests
    BY <1>t
  <2>1. CASE e \in errDest
    BY <1>f, <1>o, <2>e, <2>1 DEF Blames
  <2>2. CASE e \notin errDest
    <3>1. e \in Reported(w) /\ w \in InHand /\ pc[w] = "install" /\ final' = final
      BY <2>2, ErrorsOfOthers
    <3>2. e[1] = item[w] /\ e[2] \in failed[w]
      BY <3>1 DEF Reported
    <3> QED
      BY <1>f, <2>e, <3>1, <3>2 DEF Untouched, OwnUntouched
  <2> QED
    BY <2>1, <2>2
<1> QED
  BY <1>1, <1>2 DEF Blames

-----------------------------------------------------------------------------
(* What a run that reports no error has done.                              *)

(* The workers that hold a failure of destination d are no more than there *)
(* are workers.                                                            *)
LEMMA HoldersBounded ==
  ASSUME NEW d
  PROVE  /\ IsFiniteSet(Holders(d)) /\ Cardinality(Holders(d)) \in Nat
         /\ Cardinality(Holders(d)) <= StreamCount
<1>1. Holders(d) \subseteq Workers
  BY DEF Holders, InHand
<1>2. IsFiniteSet(Workers) /\ Cardinality(Workers) = StreamCount
  <2>1. StreamCount \in Nat \ {0} /\ 1 \in Int /\ StreamCount \in Int
    BY WorkersFinite
  <2>2. IsFiniteSet(1..StreamCount)
        /\ Cardinality(1..StreamCount) = IF 1 > StreamCount THEN 0 ELSE StreamCount - 1 + 1
    BY <2>1, FS_Interval, Zenon
  <2> QED
    BY <2>1, <2>2 DEF Workers
<1>3. IsFiniteSet(Holders(d)) /\ Cardinality(Holders(d)) <= Cardinality(Workers)
  BY <1>1, <1>2, FS_Subset
<1> QED
  BY <1>2, <1>3, FS_CardinalityType

(* With fewer workers than the limit no destination is written off before  *)
(* the report has an error.                                                *)
LEMMA NoneWrittenOff ==
  ASSUME TypeOK, WriteOffExact, Counts, Unreported, StreamCount < Limit, NEW d \in Dests
  PROVE  ~disabled[d]
<1>1. /\ failures[d] \in Nat /\ StreamCount \in Nat /\ Limit \in Nat
      /\ Cardinality(Holders(d)) \in Nat /\ Cardinality(Holders(d)) <= StreamCount
  BY WorkersFinite, HoldersBounded, TransferAssumption DEF TypeOK
<1>2. failures[d] <= Cardinality(Holders(d))
  BY DEF Counts
<1>3. ~(failures[d] >= Limit)
  BY <1>1, <1>2
<1> QED
  BY <1>3 DEF WriteOffExact, Unreported

(* A failure that a worker holds is not lost before it is in the report.   *)
LEMMA OwnNoted ==
  ASSUME TypeOK, Exclusive, WriteOffExact, Counts, StreamCount < Limit,
         NEW w \in InHand, Targeted(w), WorkerStep(w), Unreported, Unreported',
         NEW d \in Noted(w)
  PROVE  w \in InHand' /\ d \in Noted(w)'
<1> w \in Workers
  BY DEF InHand
<1>0. ~(OpenStream(w) \/ CheckDests(w) \/ QueueEmpty(w) \/ PopItem(w) \/ Reopen(w))
  BY DEF InHand, At, OpenStream, CheckDests, QueueEmpty, PopItem, Reopen
<1>n. ~AllTargetsDisabled(w)
  <2>1. PICK e \in Targets[item[w]] : e \in Dests
    BY TransferAssumption DEF Exclusive
  <2> QED
    BY <2>1, NoneWrittenOff DEF AllTargetsDisabled
<1> USE DEF Targeted, Opening, Noted, Unreported, InHand, At, Goto, stats, fetch, disk, results,
            history
<1>t. /\ pc = [v \in Workers |-> pc[v]] /\ todo = [v \in Workers |-> todo[v]]
      /\ targets = [v \in Workers |-> targets[v]] /\ open = [v \in Workers |-> open[v]]
      /\ failed = [v \in Workers |-> failed[v]] /\ todo[w] \subseteq Dests
      /\ item[w] \in Items
  BY DEF TypeOK, Exclusive
<1>1. CASE SkipDisabled(w)
  BY <1>t, <1>1 DEF SkipDisabled, Visited
<1>2. CASE OpenTemp(w)
  BY <1>t, <1>2 DEF OpenTemp, Visited
<1>3. CASE OpenFails(w)
  BY <1>t, <1>3 DEF OpenFails, Visited
<1>4. CASE AllVisited(w)
  BY <1>t, <1>4 DEF AllVisited
<1>5. CASE NoteFailure(w)
  BY <1>t, <1>5 DEF NoteFailure, LimitReached
<1>6. CASE GiveUp(w)
  BY <1>t, <1>6 DEF GiveUp
<1>7. CASE SkipFile(w)
  BY <1>n, <1>7 DEF SkipFile, AllTargetsDisabled
<1>8. CASE NothingOpened(w)
  BY <1>t, <1>8 DEF NothingOpened, OpenPhaseOver, FetchErr, AfterError
<1>9. CASE StartRecv(w)
  BY <1>t, <1>9 DEF StartRecv, OpenPhaseOver
<1>10. CASE ReceiveData(w)
  BY <1>t, <1>10 DEF ReceiveData, HurtAll, Landed
<1>11. CASE SinkGone(w)
  BY <1>t, <1>11 DEF SinkGone, HurtAll, AllClosed
<1>12. CASE RecvFails(w)
  BY <1>t, <1>12 DEF RecvFails
<1>13. CASE Discard(w)
  BY <1>t, <1>13 DEF Discard, Partials, FetchErr, AfterError
<1>14. CASE RecvDone(w)
  BY <1>t, <1>14 DEF RecvDone, HurtAll, Landed
<1>15. CASE BeginInstall(w)
  BY <1>t, <1>15 DEF BeginInstall
<1>16. CASE DropTarget(w)
  BY <1>t, <1>16 DEF DropTarget, Visited, RemoveTemp, TookWhole
<1>17. CASE Install(w)
  BY <1>t, <1>17 DEF Install, Visited, TookWhole
<1>18. CASE RenameFails(w)
  BY <1>t, <1>18 DEF RenameFails, Visited, RemoveTemp, TookWhole, LimitReached
<1>19. CASE FinishFile(w)
  <2>0. pc[w] = "install"
    BY <1>19 DEF FinishFile
  <2>1. d \in failed[w]
    BY <2>0
  <2>3. errDest' = errDest \union Reported(w)
    BY <1>19 DEF FinishFile, FetchOk
  <2>2. <<item[w], d>> \in errDest'
    <3>1. <<item[w], d>> \in Reported(w)
      BY <2>1 DEF Reported
    <3> QED
      BY <2>3, <3>1
  <2> QED
    BY <2>2
<1> QED
  BY <1>0, <1>1, <1>2, <1>3, <1>4, <1>5, <1>6, <1>7, <1>8, <1>9, <1>10, <1>11, <1>12, <1>13, <1>14, <1>15, <1>16, <1>17, <1>18, <1>19 DEF WorkerStep

(* A failure is counted when a worker comes to hold it.                    *)
LEMMA CountsStep ==
  ASSUME TypeOK, Exclusive, AllTargeted, WriteOffExact, StreamCount < Limit, Counts,
         NEW w \in Workers, WorkerStep(w)
  PROVE  Counts'
<1> SUFFICES ASSUME Unreported', NEW d \in Dests
             PROVE  failures'[d] <= Cardinality(Holders(d)')
  BY DEF Counts
<1>f. OthersUntouched(w) /\ OnlyAdds
  BY StepFrame, StepOnlyAdds
<1>u. Unreported
  BY <1>f DEF OnlyAdds, Unreported
<1>t. /\ failures \in [Dests -> Nat] /\ pc = [v \in Workers |-> pc[v]]
      /\ todo = [v \in Workers |-> todo[v]] /\ failed = [v \in Workers |-> failed[v]]
      /\ todo[w] \subseteq Dests
  BY DEF TypeOK
<1>h. /\ failures[d] <= Cardinality(Holders(d))
      /\ IsFiniteSet(Holders(d)) /\ Cardinality(Holders(d)) \in Nat
  BY <1>u, HoldersBounded DEF Counts
<1>k. Holders(d) \subseteq Holders(d)' /\ IsFiniteSet(Holders(d)') /\ Cardinality(Holders(d)') \in Nat
  <2>1. ASSUME NEW v \in Holders(d) PROVE v \in Holders(d)'
    <3>1. v \in InHand /\ d \in Noted(v)
      BY DEF Holders
    <3>2. CASE v = w
      BY <1>u, <3>1, <3>2, OwnNoted DEF AllTargeted, Holders
    <3>3. CASE v # w
      BY <1>f, <3>1, <3>3 DEF OthersUntouched, InHand, Noted, Holders
    <3> QED
      BY <3>2, <3>3
  <2>2. Holders(d)' \subseteq Workers
    BY DEF Holders, InHand
  <2>3. IsFiniteSet(Holders(d)')
    BY <2>2, WorkersFinite, FS_Subset
  <2> QED
    BY <2>1, <2>3, FS_CardinalityType
<1>m. Cardinality(Holders(d)) <= Cardinality(Holders(d)')
  BY <1>k, FS_Subset
<1>1. CASE failures'[d] = failures[d]
  BY <1>t, <1>h, <1>k, <1>m, <1>1
<1>2. CASE failures'[d] # failures[d]
  <2>1. /\ failures'[d] = failures[d] + 1
        /\ w \in Holders(d)' /\ w \notin Holders(d)
    <3>1. CASE NoteFailure(w)
      <4>1. PICK e \in todo[w] : /\ todo' = [todo EXCEPT ![w] = @ \ {e}]
                                 /\ failures' = [failures EXCEPT ![e] = @ + 1]
        BY <3>1 DEF NoteFailure
      <4>2. /\ pc' = pc /\ failed' = failed /\ w \in InHand
            /\ pc[w] \in {"noteOpen", "noteWrite"}
        BY <3>1 DEF NoteFailure, At, InHand
      <4>3. e = d /\ failures'[d] = failures[d] + 1
        BY <1>t, <1>2, <4>1
      <4>4. d \in failed[w]
        BY <1>t, <4>1, <4>2, <4>3 DEF AllTargeted, Targeted
      <4>5. d \in Noted(w)' /\ d \notin Noted(w)
        BY <1>t, <4>1, <4>2, <4>3, <4>4 DEF Noted
      <4> QED
        BY <4>2, <4>3, <4>5 DEF Holders, InHand
    <3>2. CASE RenameFails(w)
      <4>1. /\ NextDest(w) \in todo[w] \intersect open[w]
            /\ failures' = [failures EXCEPT ![NextDest(w)] = @ + 1]
            /\ failed' = [failed EXCEPT ![w] = @ \union {NextDest(w)}]
            /\ pc' = pc /\ pc[w] = "install" /\ w \in InHand
        BY <1>t, <3>2, NextDestInTodo DEF RenameFails, At, TookWhole, InHand
      <4>2. d = NextDest(w) /\ failures'[d] = failures[d] + 1
        BY <1>t, <1>2, <4>1
      <4>3. d \notin failed[w]
        BY <4>1, <4>2 DEF AllTargeted, Targeted
      <4> QED
        BY <1>t, <4>1, <4>2, <4>3 DEF Holders, InHand, Noted
    <3> QED
      BY <1>2, <3>1, <3>2, FailuresQuiet DEF GiveUp
  <2>2. Holders(d) \union {w} \subseteq Holders(d)'
    BY <1>k, <2>1
  <2>3. /\ IsFiniteSet(Holders(d) \union {w})
        /\ Cardinality(Holders(d) \union {w}) = Cardinality(Holders(d)) + 1
    BY <1>h, <2>1, FS_AddElement
  <2>4. Cardinality(Holders(d) \union {w}) <= Cardinality(Holders(d)')
    BY <1>k, <2>2, FS_Subset
  <2> QED
    BY <1>t, <1>h, <1>k, <2>1, <2>3, <2>4
<1> QED
  BY <1>1, <1>2

-----------------------------------------------------------------------------
(* The inductive invariant: that of TransferProof, and all of the above.   *)

CopiesInv == TempsOwned /\ Served /\ Reasons /\ Untouched /\ Blames
ReportInv ==
  /\ IInv /\ Phases /\ Limits /\ WriteOffExact /\ AllLeft
  /\ AllTargeted /\ AllBlamed /\ Blameless
  /\ CopiesInv
  /\ StreamCount < Limit => Counts

(* It holds at the start.                                                  *)
LEMMA InitReport == Init => ReportInv
<1> SUFFICES ASSUME Init PROVE ReportInv
  OBVIOUS
<1>1. IInv
  BY InitInv
<1>2. InHand = {} /\ Queued = Items /\ \A w \in Workers : pc[w] = "start"
  BY DEF Init, InHand, Queued, Items
<1>3. Limit \in Nat \ {0} /\ \A d \in Dests : failures[d] = 0 /\ ~disabled[d]
  BY TransferAssumption DEF Init
<1>4. Phases /\ Limits /\ WriteOffExact /\ AllLeft
  BY <1>2, <1>3 DEF Init, Phases, Limits, WriteOffExact, AllLeft, LeftFor
<1>5. AllTargeted /\ AllBlamed /\ Blameless
  BY <1>2, <1>3 DEF Init, AllTargeted, Targeted, Opening, AllBlamed, Blamed, Blameless
<1>6. TempsOwned /\ Served /\ Reasons /\ Untouched /\ Blames
  BY <1>2 DEF Init, TempsOwned, Served, Reasons, Untouched, Blames, Fresh, Missing
<1>7. Counts
  <2> SUFFICES ASSUME NEW d \in Dests PROVE failures[d] <= Cardinality(Holders(d))
    BY DEF Counts
  <2> QED
    BY <1>3, HoldersBounded
<1> QED
  BY <1>1, <1>4, <1>5, <1>6, <1>7 DEF ReportInv, CopiesInv

(* A step of a worker keeps it.                                            *)
LEMMA WorkerReport ==
  ASSUME ReportInv, NEW w \in Workers, WorkerStep(w)
  PROVE  ReportInv'
<1>1. /\ IInv /\ IInv' /\ TypeOK /\ TypeOK' /\ Exclusive /\ TempsKnown
  BY StepInv DEF ReportInv, IInv, Next
<1>2. /\ Phases /\ Limits /\ WriteOffExact /\ AllLeft /\ AllTargeted /\ AllBlamed /\ Blameless
      /\ TempsOwned /\ Served /\ Reasons /\ Untouched /\ Blames
  BY DEF ReportInv, CopiesInv
<1>3. Phases'
  BY <1>1, StepOnlyAdds DEF OnlyAdds, Phases
<1>4. Limits' /\ WriteOffExact'
  BY <1>1, <1>2, LimitsStep
<1>5. AllLeft'
  BY <1>1, <1>2, LeftForStep DEF AllLeft
<1>6. AllTargeted' /\ AllBlamed' /\ Blameless'
  BY <1>1, <1>2, TargetsStep, BlameStep
<1>7. CopiesInv'
  BY <1>1, <1>2, TempsOwnedStep, ServedStep, ReasonsStep, UntouchedStep, BlamesStep DEF CopiesInv
<1>8. StreamCount < Limit => Counts'
  BY <1>1, <1>2, CountsStep DEF ReportInv
<1> QED
  BY <1>1, <1>3, <1>4, <1>5, <1>6, <1>7, <1>8 DEF ReportInv

(* So do the preparation of the destinations and the end.                  *)
LEMMA OtherReport ==
  ASSUME ReportInv, CreateDirs \/ Join \/ UNCHANGED vars
  PROVE  ReportInv'
<1> USE DEF stats, fetch, disk, results, history
<1>1. IInv' /\ TypeOK /\ TypeOK'
  BY StepInv DEF ReportInv, IInv, Next
<1>2. /\ Phases /\ Limits /\ WriteOffExact /\ AllLeft /\ AllTargeted /\ AllBlamed /\ Blameless
      /\ TempsOwned /\ Served /\ Reasons /\ Untouched /\ Blames
  BY DEF ReportInv, CopiesInv
<1>3. /\ UNCHANGED <<queue, failures, pc, item, todo, targets, open, failed, limitHit, temp,
                     final, errFile, errDest, errStream, unstarted, hurt, stuck, undated,
                     devFailed>>
      /\ InHand' = InHand /\ Queued' = Queued
  BY DEF CreateDirs, Join, vars, InHand, Queued
<1>4. Limits'
  BY <1>2, <1>3 DEF Limits
<1>5. AllTargeted' /\ AllBlamed' /\ Blameless'
  BY <1>2, <1>3 DEF AllTargeted, Targeted, Opening, AllBlamed, Blamed, Blameless
<1>6. TempsOwned' /\ Untouched' /\ Blames'
  <2>1. TempsOwned'
    BY <1>2, <1>3 DEF TempsOwned, Holds
  <2>2. Untouched'
    BY <1>2, <1>3 DEF Untouched, OwnUntouched, Fresh, Missing
  <2>3. Blames'
    BY <1>2, <1>3 DEF Blames, Missing
  <2> QED
    BY <2>1, <2>2, <2>3
<1>7. \A d \in Dests : Holders(d)' = Holders(d)
  BY <1>3 DEF Holders, Noted
<1>8. CASE CreateDirs
  <2>1. /\ phase = "prepare" /\ phase' \in {"run", "aborted"}
        /\ \A d \in Dests : disabled'[d] => d \in unprepared'
    BY <1>8 DEF CreateDirs
  <2>2. /\ Queued = Items /\ Limit \in Nat \ {0}
        /\ \A w \in Workers : pc[w] = "start"
        /\ \A d \in Dests : failures[d] = 0
    BY <1>2, <2>1, TransferAssumption DEF Phases, Queued, Items
  <2>3. Phases' /\ WriteOffExact' /\ AllLeft'
    BY <1>3, <2>1, <2>2 DEF Phases, WriteOffExact, AllLeft, LeftFor
  <2>4. Served' /\ Reasons'
    BY <1>3, <2>2 DEF Served, Reasons
  <2>5. Counts'
    BY <1>3, <1>7, <2>2, HoldersBounded DEF Counts
  <2> QED
    BY <1>1, <1>4, <1>5, <1>6, <2>3, <2>4, <2>5 DEF ReportInv, CopiesInv
<1>9. CASE Join \/ UNCHANGED vars
  <2>1. UNCHANGED <<unprepared, disabled>>
    BY <1>9 DEF Join, vars
  <2>2. Phases'
    BY <1>2, <1>3, <1>9 DEF Phases, Join, vars
  <2>3. WriteOffExact' /\ AllLeft'
    BY <1>2, <1>3, <2>1 DEF WriteOffExact, AllLeft, LeftFor
  <2>4. Served' /\ Reasons'
    BY <1>2, <1>3, <2>1 DEF Served, Coming, Reasons, Accounted
  <2>5. Counts => Counts'
    BY <1>3, <1>7, <2>1 DEF Counts, Unreported
  <2> QED
    BY <1>1, <1>4, <1>5, <1>6, <2>2, <2>3, <2>4, <2>5 DEF ReportInv, CopiesInv
<1> QED
  BY <1>8, <1>9

(* It holds in every reachable state.                                      *)
THEOREM ReportInvariance == Spec => []ReportInv
<1>1. ReportInv /\ [Next]_vars => ReportInv'
  BY WorkerReport, OtherReport DEF Next, Ended
<1> QED
  BY InitReport, <1>1, PTL DEF Spec

-----------------------------------------------------------------------------
(* What follows for the transfer engine.                                   *)

(* The failure that reaches the limit writes its destination off, and      *)
(* nothing else does, however the counting and the writing off of several  *)
(* workers (note_failure) are interleaved.                                 *)
THEOREM WriteOffCorrect == Spec => []WriteOffExact
<1>1. ReportInv => WriteOffExact
  BY DEF ReportInv
<1> QED
  BY <1>1, ReportInvariance, PTL

(* Files are left in the queue only when no destination or no stream is    *)
(* left: the workers whose streams last take over the others' share.       *)
THEOREM QueueDrainedCorrect == Spec => []QueueDrained
<1>1. ReportInv => QueueDrained
  BY DEF ReportInv, Phases, AllLeft, LeftFor, QueueDrained
<1> QED
  BY <1>1, ReportInvariance, PTL

(* A finished run has removed every temporary file that could be removed,  *)
(* at the destinations that failed in the middle of a file as well.        *)
THEOREM TempsRemovedCorrect == Spec => []TempsRemoved
<1>1. ReportInv => TempsRemoved
  BY DEF ReportInv, CopiesInv, Phases, TempsOwned, InHand, TempsRemoved
<1> QED
  BY <1>1, ReportInvariance, PTL

(* A destination without a failure of its own ends with every file the     *)
(* device delivered, whatever happens to the others.                       *)
THEOREM HealthyDestCorrect == Spec => []HealthyDestComplete
<1>1. ReportInv => HealthyDestComplete
  BY DEF ReportInv, CopiesInv, Phases, Served, InHand, HealthyDestComplete
<1> QED
  BY <1>1, ReportInvariance, PTL

(* The report gives a reason for every copy that is missing, and for none  *)
(* that is there.                                                          *)
THEOREM ReportCorrect == Spec => []ReportExact
<1>1. ReportInv => ReportExact
  BY DEF ReportInv, CopiesInv, Phases, Reasons, Blames, Missing, InHand, ReportExact
<1> QED
  BY <1>1, ReportInvariance, PTL

(* With fewer workers than the failure limit, a run that reports no error  *)
(* has copied everything everywhere.  The hypothesis is needed: with as    *)
(* many workers as the limit they can write a destination off together and *)
(* each skip its file without an error.                                    *)
THEOREM CleanExitCorrect ==
  ASSUME StreamCount < Limit
  PROVE  Spec => []CleanExitMeansComplete
<1>1. ReportInv => CleanExitMeansComplete
  <2> SUFFICES ASSUME ReportInv, CleanExit, NEW i \in Items, NEW d \in Targets[i]
               PROVE  final[d][i] = Size[i]
    BY DEF CleanExitMeansComplete
  <2>1. /\ TypeOK /\ WriteOffExact /\ Counts /\ Unreported
        /\ \A w \in Workers : pc[w] = "done"
    BY DEF ReportInv, IInv, CleanExit, Unreported, Phases
  <2>2. d \in Dests /\ ~disabled[d]
    BY <2>1, TransferAssumption, NoneWrittenOff
  <2>3. queue = <<>>
    <3>1. 1 \in Workers
      BY WorkersFinite DEF Workers
    <3> QED
      BY <2>1, <2>2, <3>1 DEF ReportInv, AllLeft, LeftFor, CleanExit
  <2>4. i \notin Queued /\ InHand = {}
    BY <2>1, <2>3 DEF Queued, InHand
  <2>5. final[d][i] # Absent
    BY <2>2, <2>4 DEF ReportInv, CopiesInv, Reasons, CleanExit
  <2> QED
    BY <2>2, <2>5 DEF ReportInv, IInv, NoTruncatedFinal
<1> QED
  BY <1>1, ReportInvariance, PTL
==============================================================================
