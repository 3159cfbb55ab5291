----------------------------- MODULE FanoutProof -----------------------------
(***************************************************************************)
(* Proofs about Fanout: its types, that every destination still open has   *)
(* been given the same bytes once, that one which survives the flush has   *)
(* the whole file, and that the poll-level fan-out takes no step the       *)
(* abstract one of FanoutSpec does not.                                    *)
(***************************************************************************)
EXTENDS Fanout, FiniteSetTheorems, SequenceTheorems, TLAPS

N == Cardinality(Targets)

(* The files hold, and have on their way, bytes. *)
Types ==
  /\ inflight \in [Targets -> Seq(Nat)]
  /\ disk \in [Targets -> Seq(Nat)]

(* Where the caller is in the file: which chunk it has in hand, and what   *)
(* has been counted.                                                       *)
Position ==
  /\ pc \in {"poll", "loop"} =>
       chunk > 0 /\ counter = (chunk - 1) * ChunkLen
  /\ pc = "poll" => pending \in {<<>>, Bytes(chunk)}
  /\ pc = "loop" => pending = Bytes(chunk)
  /\ pc \in {"next", "flush", "flushed"} => counter = chunk * ChunkLen
  /\ pc \in {"flush", "flushed"} => chunk = Chunks
  /\ pc = "flushed" => open # {}
  /\ pc = "gone" => /\ open = {}
                    /\ \E k \in 0..Chunks : counter = k * ChunkLen

(* A failure is of a write that is over. *)
FailedIdle == \A d \in Targets : failedOp[d] => inflight[d] = <<>>

(* How much of the file a destination that is still open has been given:   *)
(* inside a write, those before the current one the whole chunk, the       *)
(* current one the part it took, those after it nothing of it.             *)
Given(d) ==
  IF pending = <<>>
  THEN IF pc \in {"poll", "loop"} THEN (chunk - 1) * ChunkLen ELSE chunk * ChunkLen
  ELSE CASE d < at -> chunk * ChunkLen
         [] d = at -> (chunk - 1) * ChunkLen + off
         [] d > at -> (chunk - 1) * ChunkLen
InStep(d) == /\ IsPrefixOfFile(disk[d] \o inflight[d])
             /\ Len(disk[d]) + Len(inflight[d]) = Given(d)
AllInStep == pc # "gone" => \A d \in open : failedOp[d] \/ InStep(d)

(* The destinations poll_flush has passed have nothing left to write. *)
FlushedBefore ==
  /\ pc = "flush" => \A d \in open : d < flushAt => Flushed(d)
  /\ pc = "flushed" => \A d \in open : Flushed(d)

FanoutInv ==
  TypeOK /\ Types /\ Position /\ counter = written /\ FailedIdle
  /\ AllInStep /\ FlushedBefore

-----------------------------------------------------------------------------
(* The positions are the numbers up to the number of destinations. *)
LEMMA Positions ==
  /\ N \in Nat /\ N > 0 /\ Targets = 1..N
  /\ \A d \in Targets : d \in Nat
<1>1. N \in Nat
  BY FanoutAssumption, FS_CardinalityType DEF N
<1>2. Targets = 1..N
  BY FanoutAssumption DEF N
<1> QED
  BY <1>1, <1>2, FanoutAssumption

(* A chunk is a sequence of ChunkLen bytes. *)
LEMMA BytesType ==
  ASSUME NEW k \in Nat \ {0}
  PROVE  /\ Bytes(k) \in Seq(Nat) /\ Len(Bytes(k)) = ChunkLen /\ Bytes(k) # <<>>
         /\ \A j \in 1..ChunkLen : Bytes(k)[j] = (k - 1) * ChunkLen + j
<1>1. \A j \in 1..ChunkLen : (k - 1) * ChunkLen + j \in Nat
  BY FanoutAssumption
<1>2. Bytes(k) \in Seq(Nat) /\ Len(Bytes(k)) = ChunkLen
  BY <1>1, FanoutAssumption DEF Bytes
<1> QED
  BY <1>2, FanoutAssumption DEF Bytes

(* Where a chunk begins and ends. *)
LEMMA Offsets ==
  ASSUME NEW k \in Nat \ {0}
  PROVE  /\ (k - 1) * ChunkLen \in Nat /\ k * ChunkLen \in Nat
         /\ k * ChunkLen = (k - 1) * ChunkLen + ChunkLen
  BY FanoutAssumption

(* What comes after a prefix of the file makes a longer prefix. *)
LEMMA PrefixGrows ==
  ASSUME NEW s \in Seq(Nat), NEW k \in Nat \ {0}, NEW o \in Nat, NEW n \in Nat \ {0},
         o + n <= ChunkLen, IsPrefixOfFile(s), Len(s) = (k - 1) * ChunkLen + o
  PROVE  /\ SubSeq(Bytes(k), o + 1, o + n) \in Seq(Nat)
         /\ Len(SubSeq(Bytes(k), o + 1, o + n)) = n
         /\ IsPrefixOfFile(s \o SubSeq(Bytes(k), o + 1, o + n))
<1> DEFINE t == SubSeq(Bytes(k), o + 1, o + n)
<1>1. t \in Seq(Nat) /\ Len(t) = n /\ \A j \in 1..n : t[j] = Bytes(k)[o + j]
  <2>1. \A j \in (o + 1)..(o + n) : Bytes(k)[j] \in Nat
    <3>1. Bytes(k) \in Seq(Nat) /\ Len(Bytes(k)) = ChunkLen
      BY BytesType
    <3> QED
      BY <3>1, FanoutAssumption
  <2> QED
    BY <2>1, SubSeqProperties
<1>2. \A j \in 1..n : t[j] = Len(s) + j
  BY <1>1, BytesType, FanoutAssumption
<1> HIDE DEF t
<1>3. \A j \in 1..(Len(s) + n) : (s \o t)[j] = j
  BY SMTT(60), <1>1, <1>2, ConcatProperties DEF IsPrefixOfFile
<1>4. Len(s \o t) = Len(s) + n
  BY <1>1, ConcatProperties
<1>5. IsPrefixOfFile(s \o t)
  BY <1>3, <1>4 DEF IsPrefixOfFile
<1> QED
  BY <1>1, <1>5 DEF t

-----------------------------------------------------------------------------
(* The fan-out starts with nothing given to anyone. *)
LEMMA InitFanout == Init => FanoutInv
<1> SUFFICES ASSUME Init PROVE FanoutInv
  OBVIOUS
<1>1. Types /\ failedOp \in [Targets -> BOOLEAN]
  BY DEF Init, Types
<1>2. at \in 1..(Cardinality(Targets) + 1) /\ flushAt \in 1..(Cardinality(Targets) + 1)
  BY Positions DEF Init, N
<1>3. TypeOK
  BY <1>1, <1>2, FanoutAssumption DEF Init, TypeOK
<1>4. AllInStep
  BY FanoutAssumption, ConcatEmptySeq DEF Init, AllInStep, InStep, Given, IsPrefixOfFile
<1> QED
  BY <1>1, <1>3, <1>4, FanoutAssumption
     DEF Init, FanoutInv, Position, FailedIdle, FlushedBefore

(* Every step keeps the types. *)
LEMMA TypesStep ==
  ASSUME FanoutInv, [Next]_vars
  PROVE  TypeOK' /\ Types'
<1> USE Positions, FanoutAssumption DEF N, FanoutInv, TypeOK, Types, fanout, files
<1>1. CASE NextChunk
  BY <1>1 DEF NextChunk
<1>2. CASE StartFlush
  BY <1>2 DEF StartFlush
<1>3. CASE PollWrite
  BY <1>3 DEF PollWrite, StashNeeded, Position
<1>4. CASE Advance
  BY <1>4 DEF Advance, Position
<1>5. CASE WriteDone
  <2>1. Len(pending) \in Nat /\ at \notin Targets
    BY <1>5, BytesType DEF WriteDone, Position
  <2> QED
    BY <1>5, <2>1 DEF WriteDone, Cleared, Counted
<1>6. CASE FlushDone
  BY <1>6 DEF FlushDone
<1>7. ASSUME NEW d \in Targets, WriteSome(d) PROVE TypeOK' /\ Types'
  <2>1. PICK n \in 1..(Len(pending) - off) :
          /\ inflight' = [inflight EXCEPT ![d] = SubSeq(pending, off + 1, off + n)]
          /\ off' = off + n
    BY <1>7 DEF WriteSome
  <2>2. pending = Bytes(chunk) /\ chunk \in Nat \ {0}
    BY <1>7 DEF WriteSome, InLoop, Position
  <2>3. SubSeq(pending, off + 1, off + n) \in Seq(Nat) /\ off + n <= ChunkLen
    <3>1. pending \in Seq(Nat) /\ Len(pending) = ChunkLen
      BY <2>2, BytesType
    <3>2. off + n <= ChunkLen
      BY <3>1
    <3>3. \A j \in (off + 1)..(off + n) : pending[j] \in Nat
      BY <3>1, <3>2
    <3> QED
      BY <3>2, <3>3, SubSeqProperties
  <2> QED
    BY SMTT(60), <1>7, <2>1, <2>3 DEF WriteSome, InLoop
<1>8. ASSUME NEW d \in Targets, WriteFails(d) PROVE TypeOK' /\ Types'
  BY <1>8 DEF WriteFails, InLoop, Fail
<1>9. ASSUME NEW d \in Targets, WritePending(d) PROVE TypeOK' /\ Types'
  BY <1>9 DEF WritePending, InLoop
<1>10. ASSUME NEW d \in Targets, FlushNext(d) PROVE TypeOK' /\ Types'
  BY <1>10 DEF FlushNext, InFlush
<1>11. ASSUME NEW d \in Targets, FlushFails(d) PROVE TypeOK' /\ Types'
  BY <1>11 DEF FlushFails, InFlush, Fail
<1>12. ASSUME NEW d \in Targets, FlushPending(d) PROVE TypeOK' /\ Types'
  BY <1>12 DEF FlushPending, InFlush
<1>13. ASSUME NEW d \in Targets, Background(d) PROVE TypeOK' /\ Types'
  <2>1. inflight' \in [Targets -> Seq(Nat)] /\ UNCHANGED <<pc, chunk, fanout>>
    BY <1>13 DEF Background
  <2>2. failedOp' \in [Targets -> BOOLEAN]
    BY <1>13 DEF Background
  <2>3. \A n \in 0..(Len(inflight[d]) - 1) : SubSeq(inflight[d], 1, n) \in Seq(Nat)
    BY SMTT(60), SubSeqProperties
  <2>4. disk' \in [Targets -> Seq(Nat)]
    <3>1. \A t \in Seq(Nat) : disk[d] \o t \in Seq(Nat)
      BY ConcatProperties
    <3>2. CASE disk' = [disk EXCEPT ![d] = @ \o inflight[d]]
      BY <3>1, <3>2
    <3>3. CASE \E n \in 0..(Len(inflight[d]) - 1) :
                 disk' = [disk EXCEPT ![d] = @ \o SubSeq(inflight[d], 1, n)]
      BY <2>3, <3>1, <3>3
    <3> QED
      BY <1>13, <3>2, <3>3 DEF Background
  <2> QED
    BY <2>1, <2>2, <2>4
<1>14. CASE UNCHANGED vars
  BY <1>14 DEF vars
<1> QED
  BY <1>1, <1>2, <1>3, <1>4, <1>5, <1>6, <1>7, <1>8, <1>9, <1>10, <1>11, <1>12, <1>13, <1>14
     DEF Next, Task, Over

(* The caller's place in the file and what was counted agree. *)
LEMMA PositionStep ==
  ASSUME FanoutInv, [Next]_vars
  PROVE  Position' /\ counter' = written'
<1> USE FanoutAssumption DEF FanoutInv, TypeOK, Position, fanout, files
<1>1. CASE NextChunk
  BY <1>1 DEF NextChunk
<1>2. CASE StartFlush
  BY <1>2 DEF StartFlush
<1>3. CASE PollWrite
  BY <1>3 DEF PollWrite, StashNeeded
<1>4. CASE Advance
  BY <1>4 DEF Advance
<1>5. CASE WriteDone
  <2>1. Len(pending) = ChunkLen /\ chunk \in Nat \ {0} /\ chunk \in 0..Chunks
    <3>1. chunk \in Nat \ {0} /\ pending = Bytes(chunk) /\ chunk \in 0..Chunks
      BY <1>5 DEF WriteDone
    <3> QED
      BY <3>1, BytesType
  <2>2. counter = (chunk - 1) * ChunkLen /\ counter + ChunkLen = chunk * ChunkLen
    BY <1>5, <2>1 DEF WriteDone
  <2>3. open = {} => chunk - 1 \in 0..Chunks
    BY <2>1
  <2> QED
    BY <1>5, <2>1, <2>2, <2>3 DEF WriteDone, Cleared, Counted, AllClosed
<1>6. CASE FlushDone
  BY <1>6 DEF FlushDone, AllClosed
<1>7. ASSUME NEW d \in Targets, WriteSome(d) PROVE Position' /\ counter' = written'
  BY <1>7 DEF WriteSome, InLoop
<1>8. ASSUME NEW d \in Targets, WriteFails(d) PROVE Position' /\ counter' = written'
  BY <1>8 DEF WriteFails, InLoop, Fail
<1>9. ASSUME NEW d \in Targets, WritePending(d) PROVE Position' /\ counter' = written'
  BY <1>9 DEF WritePending, InLoop
<1>10. ASSUME NEW d \in Targets, FlushNext(d) PROVE Position' /\ counter' = written'
  BY <1>10 DEF FlushNext, InFlush
<1>11. ASSUME NEW d \in Targets, FlushFails(d) PROVE Position' /\ counter' = written'
  BY <1>11 DEF FlushFails, InFlush, Fail
<1>12. ASSUME NEW d \in Targets, FlushPending(d) PROVE Position' /\ counter' = written'
  BY <1>12 DEF FlushPending, InFlush
<1>13. ASSUME NEW d \in Targets, Background(d) PROVE Position' /\ counter' = written'
  BY <1>13 DEF Background
<1>14. CASE UNCHANGED vars
  BY <1>14 DEF vars
<1> QED
  BY <1>1, <1>2, <1>3, <1>4, <1>5, <1>6, <1>7, <1>8, <1>9, <1>10, <1>11, <1>12, <1>13, <1>14
     DEF Next, Task, Over

(* A failure is reported once no write is left, and a file that poll_flush *)
(* has passed stays as it is.                                              *)
LEMMA FlushStep ==
  ASSUME FanoutInv, [Next]_vars
  PROVE  FailedIdle' /\ FlushedBefore'
<1> USE Positions DEF N, FanoutInv, TypeOK, Types, FailedIdle, FlushedBefore, Flushed, Busy, fanout, files
<1>1. CASE NextChunk
  BY <1>1 DEF NextChunk
<1>2. CASE StartFlush
  BY <1>2 DEF StartFlush
<1>3. CASE PollWrite
  BY <1>3 DEF PollWrite, StashNeeded
<1>4. CASE Advance
  BY <1>4 DEF Advance
<1>5. CASE WriteDone
  BY <1>5 DEF WriteDone, Cleared, Counted, AllClosed
<1>6. CASE FlushDone
  BY <1>6 DEF FlushDone, AllClosed
<1>7. ASSUME NEW d \in Targets, WriteSome(d) PROVE FailedIdle' /\ FlushedBefore'
  BY <1>7 DEF WriteSome, InLoop
<1>8. ASSUME NEW d \in Targets, WriteFails(d) PROVE FailedIdle' /\ FlushedBefore'
  BY <1>8 DEF WriteFails, InLoop, Fail
<1>9. ASSUME NEW d \in Targets, WritePending(d) PROVE FailedIdle' /\ FlushedBefore'
  BY <1>9 DEF WritePending, InLoop
<1>10. ASSUME NEW d \in Targets, FlushNext(d) PROVE FailedIdle' /\ FlushedBefore'
  BY SMTT(60), <1>10 DEF FlushNext, InFlush
<1>11. ASSUME NEW d \in Targets, FlushFails(d) PROVE FailedIdle' /\ FlushedBefore'
  <2>1. d = flushAt /\ flushAt' = flushAt + 1 /\ open' = open \ {d} /\ inflight' = inflight
        /\ pc = "flush" /\ pc' = "flush"
    BY <1>11 DEF FlushFails, InFlush, Fail
  <2>2. failedOp' = [failedOp EXCEPT ![d] = FALSE]
    BY <1>11 DEF FlushFails
  <2>3. \A e \in Targets : failedOp'[e] => failedOp[e]
    BY <2>2
  <2>4. \A e \in open' : e # d /\ failedOp'[e] = failedOp[e] /\ (e < flushAt' => e < flushAt)
    BY <2>1, <2>2
  <2> QED
    BY <2>1, <2>3, <2>4
<1>12. ASSUME NEW d \in Targets, FlushPending(d) PROVE FailedIdle' /\ FlushedBefore'
  BY <1>12 DEF FlushPending, InFlush
<1>13. ASSUME NEW d \in Targets, Background(d) PROVE FailedIdle' /\ FlushedBefore'
  BY <1>13 DEF Background
<1>14. CASE UNCHANGED vars
  BY <1>14 DEF vars
<1> QED
  BY <1>1, <1>2, <1>3, <1>4, <1>5, <1>6, <1>7, <1>8, <1>9, <1>10, <1>11, <1>12, <1>13, <1>14
     DEF Next, Task, Over

(* Every destination that is open and has no failure keeps in step. *)
LEMMA InStepStep ==
  ASSUME FanoutInv, [Next]_vars
  PROVE  AllInStep'
<1> USE FanoutAssumption, Positions
    DEF N, FanoutInv, TypeOK, Types, Position, AllInStep, InStep, Given, FailedIdle, fanout, files
<1>1. CASE NextChunk
  BY <1>1 DEF NextChunk
<1>2. CASE StartFlush
  BY <1>2 DEF StartFlush
<1>3. CASE PollWrite
  BY SMTT(60), <1>3 DEF PollWrite, StashNeeded
<1>4. CASE Advance
  <2>1. pending = Bytes(chunk) /\ chunk \in Nat \ {0}
    BY <1>4 DEF Advance
  <2>2. pending # <<>> /\ Len(pending) = ChunkLen
    BY <2>1, BytesType
  <2>3. chunk * ChunkLen = (chunk - 1) * ChunkLen + ChunkLen /\ (chunk - 1) * ChunkLen \in Nat
    BY <2>1, Offsets
  <2>4. /\ at' = at + 1 /\ off' = 0 /\ pc' = pc /\ chunk' = chunk /\ pending' = pending
        /\ (at \in open => off = ChunkLen) /\ at \in Nat
    BY <1>4, <2>2 DEF Advance
  <2>5. ASSUME NEW d \in open PROVE Given(d)' = Given(d)
    <3>1. d \in Nat
      OBVIOUS
    <3> HIDE DEF FanoutInv
    <3>2. CASE d < at
      BY <2>2, <2>4, <3>1, <3>2
    <3>3. CASE d = at
      BY <2>2, <2>3, <2>4, <3>1, <3>3
    <3>4. CASE d > at
      BY <2>2, <2>3, <2>4, <3>1, <3>4
    <3> QED
      BY <2>4, <3>1, <3>2, <3>3, <3>4
  <2> QED
    BY <1>4, <2>5 DEF Advance
<1>5. CASE WriteDone
  <2>1. CASE open = {}
    BY <1>5, <2>1 DEF WriteDone, AllClosed
  <2>2. CASE open # {}
    <3>1. pending # <<>> /\ pending' = <<>> /\ pc' = "next"
      BY SMTT(60), <1>5, <2>2, BytesType DEF WriteDone, Cleared, AllClosed
    <3>2. \A d \in open : d < at
      BY <1>5 DEF WriteDone
    <3>3. \A d \in open : Given(d)' = Given(d)
      BY SMTT(60), <1>5, <3>1, <3>2 DEF WriteDone
    <3> QED
      BY <1>5, <3>3 DEF WriteDone
  <2> QED
    BY <2>1, <2>2
<1>6. CASE FlushDone
  BY <1>6 DEF FlushDone, AllClosed
<1>7. ASSUME NEW d \in Targets, WriteSome(d) PROVE AllInStep'
  <2>1. PICK n \in 1..(Len(pending) - off) :
          /\ inflight' = [inflight EXCEPT ![d] = SubSeq(pending, off + 1, off + n)]
          /\ off' = off + n
    BY <1>7 DEF WriteSome
  <2>2. pending = Bytes(chunk) /\ chunk \in Nat \ {0} /\ pc = "loop" /\ d = at /\ d \in open
    BY <1>7 DEF WriteSome, InLoop
  <2>3. pending # <<>> /\ Len(pending) = ChunkLen
    BY <2>2, BytesType
  <2>4. inflight[d] = <<>> /\ ~failedOp[d]
        /\ UNCHANGED <<pc, chunk, open, pending, at, failedOp, disk>>
    BY <1>7 DEF WriteSome, Busy
  <2>5. IsPrefixOfFile(disk[d]) /\ Len(disk[d]) = (chunk - 1) * ChunkLen + off
    <3>1. disk[d] \in Seq(Nat) /\ disk[d] \o inflight[d] = disk[d] /\ Len(inflight[d]) = 0
      BY <2>2, <2>4, ConcatEmptySeq
    <3>2. InStep(d)
      BY <2>2, <2>4
    <3>3. at \in Nat
      OBVIOUS
    <3> HIDE DEF FanoutInv
    <3>4. Given(d) = (chunk - 1) * ChunkLen + off
      BY <2>2, <2>3, <3>3
    <3> HIDE DEF Given, InStep
    <3>5. IsPrefixOfFile(disk[d]) /\ Len(disk[d]) + Len(inflight[d]) = Given(d)
      BY <3>1, <3>2 DEF InStep
    <3> QED
      BY <3>1, <3>4, <3>5
  <2>6. /\ inflight'[d] \in Seq(Nat) /\ Len(inflight'[d]) = n
        /\ IsPrefixOfFile(disk[d] \o inflight'[d])
    <3>1. disk[d] \in Seq(Nat) /\ off \in Nat
      OBVIOUS
    <3>2. inflight'[d] = SubSeq(Bytes(chunk), off + 1, off + n)
      BY <2>1, <2>2
    <3> HIDE DEF FanoutInv
    <3>3. n \in Nat \ {0} /\ off + n <= ChunkLen
      <4>1. n \in 1..(ChunkLen - off)
        BY <2>3
      <4> QED
        BY <3>1, <4>1, FanoutAssumption
    <3> HIDE DEF IsPrefixOfFile, TypeOK, Types, Position
    <3>4. chunk \in Nat \ {0}
      BY <2>2
    <3>5. /\ SubSeq(Bytes(chunk), off + 1, off + n) \in Seq(Nat)
          /\ Len(SubSeq(Bytes(chunk), off + 1, off + n)) = n
          /\ IsPrefixOfFile(disk[d] \o SubSeq(Bytes(chunk), off + 1, off + n))
      BY <2>5, <3>1, <3>3, <3>4, PrefixGrows
    <3> QED
      BY <3>2, <3>5
  <2>7. Given(d)' = (chunk - 1) * ChunkLen + off + n
    BY SMTT(60), <2>1, <2>2, <2>3, <2>4
  <2>8. InStep(d)'
    BY <2>4, <2>5, <2>6, <2>7
  <2>9. \A e \in open \ {d} : Given(e)' = Given(e) /\ inflight'[e] = inflight[e]
    BY <2>1, <2>2, <2>4
  <2> QED
    BY <2>4, <2>8, <2>9
<1>8. ASSUME NEW d \in Targets, WriteFails(d) PROVE AllInStep'
  BY <1>8 DEF WriteFails, InLoop, Fail
<1>9. ASSUME NEW d \in Targets, WritePending(d) PROVE AllInStep'
  BY <1>9 DEF WritePending, InLoop
<1>10. ASSUME NEW d \in Targets, FlushNext(d) PROVE AllInStep'
  BY <1>10 DEF FlushNext, InFlush
<1>11. ASSUME NEW d \in Targets, FlushFails(d) PROVE AllInStep'
  BY <1>11 DEF FlushFails, InFlush, Fail
<1>12. ASSUME NEW d \in Targets, FlushPending(d) PROVE AllInStep'
  BY <1>12 DEF FlushPending, InFlush
<1>13. ASSUME NEW d \in Targets, Background(d) PROVE AllInStep'
  <2>1. /\ inflight' = [inflight EXCEPT ![d] = <<>>]
        /\ UNCHANGED <<pc, chunk, open, pending, at, off>>
    BY <1>13 DEF Background
  <2>2. /\ \A e \in open : Given(e)' = Given(e)
        /\ \A e \in open \ {d} : inflight'[e] = inflight[e]
    BY <2>1
  <2>3. \A e \in open \ {d} : disk'[e] = disk[e] /\ failedOp'[e] = failedOp[e]
    BY <1>13 DEF Background
  <2>4. CASE failedOp' = [failedOp EXCEPT ![d] = TRUE]
    BY <2>1, <2>2, <2>3, <2>4
  <2>5. CASE disk' = [disk EXCEPT ![d] = @ \o inflight[d]] /\ UNCHANGED failedOp
    <3>1. disk'[d] = disk[d] \o inflight[d] /\ inflight'[d] = <<>>
      BY <2>1, <2>5
    <3>2. /\ disk'[d] \in Seq(Nat) /\ disk'[d] \o inflight'[d] = disk[d] \o inflight[d]
          /\ Len(disk'[d]) + Len(inflight'[d]) = Len(disk[d]) + Len(inflight[d])
      BY <3>1, ConcatProperties, ConcatEmptySeq
    <3> QED
      BY ZenonT(60), <2>1, <2>2, <2>3, <2>5, <3>2
  <2> QED
    BY <1>13, <2>4, <2>5 DEF Background
<1>14. CASE UNCHANGED vars
  BY <1>14 DEF vars
<1> QED
  BY <1>1, <1>2, <1>3, <1>4, <1>5, <1>6, <1>7, <1>8, <1>9, <1>10, <1>11, <1>12, <1>13, <1>14
     DEF Next, Task, Over

(* Every step keeps the invariant. *)
LEMMA StepFanout == FanoutInv /\ [Next]_vars => FanoutInv'
<1> SUFFICES ASSUME FanoutInv, [Next]_vars PROVE FanoutInv'
  OBVIOUS
<1> QED
  BY TypesStep, PositionStep, FlushStep, InStepStep DEF FanoutInv

(* The inductive invariant of the fan-out. *)
THEOREM FanoutInvariance == Spec => []FanoutInv
<1> QED
  BY InitFanout, StepFanout, PTL DEF Spec

(* The variables keep their types, and no chunk is stashed between writes. *)
THEOREM FanoutTypes == Spec => []TypeOK
<1>1. FanoutInv => TypeOK
  BY DEF FanoutInv
<1> QED
  BY <1>1, FanoutInvariance, PTL

(* However the destinations take a chunk and however often poll_write is  *)
(* called again, each is given every byte once, in order, and the byte is  *)
(* counted once.                                                           *)
THEOREM NoByteTwiceCorrect == Spec => []NoByteTwice
<1>1. FanoutInv => NoByteTwice
  BY DEF FanoutInv, NoByteTwice, Position, AllInStep, InStep
<1> QED
  BY <1>1, FanoutInvariance, PTL

(* A destination that is open after the flush has the whole file.          *)
THEOREM OpenMeansWholeCorrect == Spec => []OpenMeansWhole
<1>1. FanoutInv => OpenMeansWhole
  <2> SUFFICES ASSUME FanoutInv, pc = "flushed", NEW d \in open
               PROVE  Len(disk[d]) = Chunks * ChunkLen /\ IsPrefixOfFile(disk[d])
    BY DEF OpenMeansWhole
  <2>1. d \in Targets /\ disk[d] \in Seq(Nat) /\ inflight[d] = <<>> /\ ~failedOp[d]
    BY DEF FanoutInv, TypeOK, Types, FlushedBefore, Flushed, Busy
  <2>2. InStep(d) /\ pending = <<>> /\ chunk = Chunks
    BY <2>1 DEF FanoutInv, TypeOK, Position, AllInStep
  <2>3. Given(d) = Chunks * ChunkLen
    BY <2>2 DEF Given
  <2> QED
    BY <2>1, <2>2, <2>3, FanoutAssumption, ConcatEmptySeq DEF InStep
<1> QED
  BY <1>1, FanoutInvariance, PTL

-----------------------------------------------------------------------------
(* Whole chunks are counted. *)
LEMMA WholeChunks ==
  ASSUME NEW k \in Nat
  PROVE  (k * ChunkLen) \div ChunkLen = k
  BY FanoutAssumption

(* The poll-level fan-out starts where the abstract one starts and takes   *)
(* only its steps: a chunk is taken whole, once; destinations only drop    *)
(* out; the write fails only when none is left.                            *)
THEOREM SafetyImplements == Spec => Abstract!Init /\ [][Abstract!Next]_Abstract!vars
<1>1. Init => Abstract!Init
  <2>1. 0 * ChunkLen = 0 /\ 0 \in Nat
    BY FanoutAssumption
  <2>2. 0 \div ChunkLen = 0
    BY <2>1, WholeChunks
  <2> QED
    BY <2>2 DEF Init, Abstract!Init, Phase
<1>2. FanoutInv /\ [Next]_vars => [Abstract!Next]_Abstract!vars
  <2> SUFFICES ASSUME FanoutInv, [Next]_vars PROVE [Abstract!Next]_Abstract!vars
    OBVIOUS
  <2> USE DEF Abstract!Next, Abstract!vars, Phase, fanout, files
  <2>1. CASE NextChunk
    BY <2>1 DEF NextChunk
  <2>2. CASE StartFlush
    BY <2>2 DEF StartFlush
  <2>3. CASE PollWrite
    BY <2>3 DEF PollWrite
  <2>4. CASE Advance
    BY <2>4 DEF Advance
  <2>5. CASE WriteDone
    <3>1. /\ chunk \in 1..Chunks /\ written = (chunk - 1) * ChunkLen /\ Len(pending) = ChunkLen
      <4>1. chunk \in Nat \ {0} /\ chunk \in 1..Chunks /\ pending = Bytes(chunk)
            /\ written = (chunk - 1) * ChunkLen
        BY <2>5, FanoutAssumption DEF WriteDone, FanoutInv, TypeOK, Position
      <4> QED
        BY <4>1, BytesType
    <3>2. written \div ChunkLen = chunk - 1
      BY <3>1, WholeChunks
    <3>3. CASE open = {}
      BY <2>5, <3>3 DEF WriteDone, AllClosed, Abstract!Gone
    <3>4. CASE open # {}
      <4>1. written' = chunk * ChunkLen
        BY <2>5, <3>1, <3>4, FanoutAssumption DEF WriteDone, AllClosed, Counted
      <4>2. written' \div ChunkLen = chunk
        BY <3>1, <4>1, WholeChunks
      <4> QED
        BY <2>5, <3>1, <3>2, <3>4, <4>2, FanoutAssumption
           DEF WriteDone, AllClosed, Abstract!Take
    <3> QED
      BY <3>3, <3>4
  <2>6. CASE FlushDone
    <3>1. written \div ChunkLen = Chunks
      BY <2>6, WholeChunks, FanoutAssumption DEF FlushDone, FanoutInv, Position
    <3> QED
      BY <2>6, <3>1 DEF FlushDone, AllClosed, Abstract!Gone, Abstract!Flush
  <2>7. ASSUME NEW d \in Targets, WriteSome(d) PROVE UNCHANGED Abstract!vars
    BY <2>7 DEF WriteSome
  <2>8. ASSUME NEW d \in Targets, WriteFails(d) PROVE Abstract!Drop
    BY <2>8 DEF WriteFails, InLoop, Fail, Abstract!Drop
  <2>9. ASSUME NEW d \in Targets, WritePending(d) PROVE UNCHANGED Abstract!vars
    BY <2>9 DEF WritePending, InLoop
  <2>10. ASSUME NEW d \in Targets, FlushNext(d) PROVE UNCHANGED Abstract!vars
    BY <2>10 DEF FlushNext
  <2>11. ASSUME NEW d \in Targets, FlushFails(d) PROVE Abstract!Drop
    BY <2>11 DEF FlushFails, InFlush, Fail, Abstract!Drop
  <2>12. ASSUME NEW d \in Targets, FlushPending(d) PROVE UNCHANGED Abstract!vars
    BY <2>12 DEF FlushPending
  <2>13. ASSUME NEW d \in Targets, Background(d) PROVE UNCHANGED Abstract!vars
    BY <2>13 DEF Background
  <2>14. CASE UNCHANGED vars
    BY <2>14 DEF vars
  <2> QED
    BY <2>1, <2>2, <2>3, <2>4, <2>5, <2>6, <2>7, <2>8, <2>9, <2>10, <2>11, <2>12, <2>13, <2>14
       DEF Next, Task, Over
<1> QED
  BY <1>1, <1>2, FanoutInvariance, PTL DEF Spec

==============================================================================
