------------------------------- MODULE Fanout -------------------------------
(***************************************************************************)
(* Fanout (transfer.rs) poll by poll: poll_write offers the chunk to one   *)
(* destination after the other, each of which may take part of it, fail,   *)
(* or not be ready, and then the same call is made again later.            *)
(*                                                                         *)
(* The files are tokio's, code outside the repository: a write is copied   *)
(* and carried out in the background; while it runs the file is not ready, *)
(* and if it fails, the next write or flush reports it.  A byte of the     *)
(* file is its position.                                                   *)
(***************************************************************************)
EXTENDS Integers, Sequences, FiniteSets

CONSTANTS
  Targets,   \* positions in Fanout.files, 1..n
  Chunks,    \* the number of chunks of the file
  ChunkLen   \* the number of bytes of a chunk

ASSUME FanoutAssumption ==
  /\ IsFiniteSet(Targets) /\ Targets # {} /\ Targets = 1..Cardinality(Targets)
  /\ Chunks \in Nat /\ ChunkLen \in Nat \ {0}

VARIABLES
  pc,        \* the caller: "next", "poll", "loop", "flush", "gone", "flushed"
  chunk,     \* the chunk recv is writing
  \* Fanout
  open, pending, at, off, written, counter,
  flushAt,   \* the loop variable of poll_flush
  \* tokio's files: bytes being written, a failure not yet reported
  inflight, failedOp, disk

fanout == <<open, pending, at, off, written, counter, flushAt>>
files  == <<inflight, failedOp, disk>>
vars == <<pc, chunk, fanout, files>>

Bytes(k) == [j \in 1..ChunkLen |-> (k - 1) * ChunkLen + j]

Init ==
  /\ pc = "next" /\ chunk = 0
  /\ open = Targets /\ pending = <<>> /\ at = 1 /\ off = 0
  /\ written = 0 /\ counter = 0 /\ flushAt = 1
  /\ inflight = [d \in Targets |-> <<>>] /\ failedOp = [d \in Targets |-> FALSE]
  /\ disk = [d \in Targets |-> <<>>]

-----------------------------------------------------------------------------
(* recv: the next chunk, or the flush after the last.                      *)

NextChunk ==
  /\ pc = "next" /\ chunk < Chunks
  /\ chunk' = chunk + 1 /\ pc' = "poll"
  /\ UNCHANGED <<fanout, files>>

(* fetch_one flushes, whatever the flush returns. *)
StartFlush ==
  /\ pc = "next" /\ chunk = Chunks
  /\ pc' = "flush" /\ flushAt' = 1
  /\ UNCHANGED <<chunk, open, pending, at, off, written, counter, files>>

-----------------------------------------------------------------------------
(* poll_write.                                                             *)

StashAlways == TRUE           \* mutant: every call starts over
StashNeeded == pending = <<>>

(* A call; "the chunk is stashed on the first call so that a Pending       *)
(* return can be resumed where it left off".                               *)
PollWrite ==
  /\ pc = "poll"
  /\ pc' = "loop"
  /\ IF StashNeeded
     THEN pending' = Bytes(chunk) /\ at' = 1 /\ off' = 0
     ELSE UNCHANGED <<pending, at, off>>
  /\ UNCHANGED <<chunk, open, written, counter, flushAt, files>>

Busy(d)   == inflight[d] # <<>>
InLoop(d) == pc = "loop" /\ at \in Targets /\ d = at /\ d \in open /\ off < Len(pending)

Advance ==
  /\ pc = "loop" /\ at \in Targets
  /\ at \notin open \/ off >= Len(pending)
  /\ at' = at + 1 /\ off' = 0
  /\ UNCHANGED <<pc, chunk, open, pending, written, counter, flushAt, files>>

(* The file takes the rest of the chunk or a part of it. *)
WriteSome(d) ==
  /\ InLoop(d) /\ ~Busy(d) /\ ~failedOp[d]
  /\ \E n \in 1..(Len(pending) - off) :
       /\ inflight' = [inflight EXCEPT ![d] = SubSeq(pending, off + 1, off + n)]
       /\ off' = off + n
  /\ UNCHANGED <<pc, chunk, open, pending, at, written, counter, flushAt, failedOp, disk>>

Fail(d) == open' = open \ {d}

(* An earlier write failed, or this one is refused or takes nothing. *)
WriteFails(d) ==
  /\ InLoop(d) /\ ~Busy(d)
  /\ Fail(d)
  /\ failedOp' = [failedOp EXCEPT ![d] = FALSE]
  /\ UNCHANGED <<pc, chunk, pending, at, off, written, counter, flushAt, inflight, disk>>

(* Pending: the call returns, and is repeated once the file is ready. *)
WritePending(d) ==
  /\ InLoop(d) /\ Busy(d)
  /\ pc' = "poll"
  /\ UNCHANGED <<chunk, fanout, files>>

AnyClosed == open # Targets   \* mutant: one failure ends the write
AllClosed == open = {}

Counted == Len(pending)
NotCleared == pending         \* mutant: the stash survives the chunk
Cleared == <<>>

WriteDone ==
  /\ pc = "loop" /\ at \notin Targets
  /\ IF AllClosed
     THEN pc' = "gone" /\ UNCHANGED <<pending, written, counter>>
     ELSE /\ pc' = "next" /\ pending' = Cleared
          /\ written' = written + Counted /\ counter' = counter + Counted
  /\ UNCHANGED <<chunk, open, at, off, flushAt, files>>

-----------------------------------------------------------------------------
(* poll_flush: from the first destination at every call.                   *)

InFlush(d) == pc = "flush" /\ flushAt \in Targets /\ d = flushAt

FlushesInFlight(d) == TRUE       \* mutant: does not wait for the file
Flushed(d) == ~Busy(d) /\ ~failedOp[d]

FlushNext(d) ==
  /\ InFlush(d)
  /\ d \notin open \/ Flushed(d)
  /\ flushAt' = flushAt + 1
  /\ UNCHANGED <<pc, chunk, open, pending, at, off, written, counter, files>>

FlushFails(d) ==
  /\ InFlush(d) /\ d \in open /\ failedOp[d]
  /\ Fail(d) /\ failedOp' = [failedOp EXCEPT ![d] = FALSE]
  /\ flushAt' = flushAt + 1
  /\ UNCHANGED <<pc, chunk, pending, at, off, written, counter, inflight, disk>>

FlushPending(d) ==
  /\ InFlush(d) /\ d \in open /\ Busy(d)
  /\ flushAt' = 1
  /\ UNCHANGED <<pc, chunk, open, pending, at, off, written, counter, files>>

FlushDone ==
  /\ pc = "flush" /\ flushAt \notin Targets
  /\ pc' = IF AllClosed THEN "gone" ELSE "flushed"
  /\ UNCHANGED <<chunk, fanout, files>>

-----------------------------------------------------------------------------
(* The background threads of tokio: a write succeeds, or fails after part  *)
(* of it.                                                                  *)
Background(d) ==
  /\ Busy(d)
  /\ inflight' = [inflight EXCEPT ![d] = <<>>]
  /\ \/ /\ disk' = [disk EXCEPT ![d] = @ \o inflight[d]]
        /\ UNCHANGED failedOp
     \/ /\ failedOp' = [failedOp EXCEPT ![d] = TRUE]
        /\ \E n \in 0..(Len(inflight[d]) - 1) :
             disk' = [disk EXCEPT ![d] = @ \o SubSeq(inflight[d], 1, n)]
  /\ UNCHANGED <<pc, chunk, fanout>>

Task ==
  \/ NextChunk \/ StartFlush \/ PollWrite \/ Advance \/ WriteDone \/ FlushDone
  \/ \E d \in Targets : \/ WriteSome(d) \/ WriteFails(d) \/ WritePending(d)
                        \/ FlushNext(d) \/ FlushFails(d) \/ FlushPending(d)

Over == pc \in {"gone", "flushed"} /\ UNCHANGED vars

Next == Task \/ Over \/ \E d \in Targets : Background(d)

(* The runtime polls a task that was woken, and its threads make progress. *)
Spec == Init /\ [][Next]_vars /\ WF_vars(Task)
        /\ \A d \in Targets : WF_vars(Background(d))

-----------------------------------------------------------------------------
(* The type of the variables; a chunk is stashed only inside a write.      *)
TypeOK ==
  /\ pc \in {"next", "poll", "loop", "flush", "gone", "flushed"}
  /\ chunk \in 0..Chunks /\ open \subseteq Targets
  /\ pending \in {<<>>} \union {Bytes(k) : k \in 1..Chunks}
  /\ pc \in {"next", "flush", "flushed"} => pending = <<>>
  /\ at \in 1..(Cardinality(Targets) + 1) /\ off \in 0..ChunkLen
  /\ written \in Nat /\ counter \in Nat
  /\ flushAt \in 1..(Cardinality(Targets) + 1)
  /\ failedOp \in [Targets -> BOOLEAN]

(* Whatever the destinations take at a time and however often the call is  *)
(* repeated, each gets the bytes of the file in order, none twice and none *)
(* left out: what is on disk and on its way is a prefix of the file.  And  *)
(* the byte is counted once, however many destinations take it, and not at *)
(* all if none took its chunk.                                             *)
IsPrefixOfFile(s) == \A k \in 1..Len(s) : s[k] = k
NoByteTwice ==
  /\ \A d \in open : ~failedOp[d] => IsPrefixOfFile(disk[d] \o inflight[d])
  /\ counter = written
  /\ pc \in {"next", "flush", "flushed"} => counter = chunk * ChunkLen

(* A destination still open after the flush has the whole file: those are  *)
(* the ones fetch_one renames into place.                                  *)
OpenMeansWhole ==
  pc = "flushed" => \A d \in open : Len(disk[d]) = Chunks * ChunkLen
                                    /\ IsPrefixOfFile(disk[d])

(* The fan-out as the rest of the program sees it. *)
Phase == IF pc \in {"gone", "flushed"} THEN pc ELSE "writing"
Abstract == INSTANCE FanoutSpec WITH
  taken <- written \div ChunkLen, phase <- Phase

(* The poll-level fan-out implements the abstract one, its liveness        *)
(* included: pending destinations and repeated calls never show.           *)
Implements == Abstract!Spec

=============================================================================
