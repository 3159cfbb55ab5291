-------------------------------- MODULE Perf --------------------------------
(***************************************************************************)
(* What a run measures of itself: the live counters that the streams move, *)
(* the sampler that reads them beside the transfer (transfer.rs run), the  *)
(* reading that ends it, and what is made of the readings and of the       *)
(* samples: the timeline (perf.rs) and the estimate of the cost per file   *)
(* (transfer.rs measure_cost).                                             *)
(*                                                                         *)
(* Time is counted in the smallest difference the clock can tell; a file   *)
(* takes at least that.  A byte is a unit that arrives at once.  The       *)
(* engine is Transfer; here a file ends well or fails, and one that has no *)
(* destination left, of which nothing is read, is one of size 0.  Ratios   *)
(* are compared crosswise, so none is rounded.                             *)
(***************************************************************************)
EXTENDS Integers, FiniteSets, Sequences, SequencesExt, FiniteSetsExt

CONSTANTS
  Streams,     \* the streams, numbers in the order they are joined
  Queues,      \* the plans: sequences of file sizes, largest first
  MinSamples,  \* MIN_SAMPLES
  SmallShare,  \* SMALLEST_SHARE
  Interval,    \* PROGRESS_SAMPLE_INTERVAL
  MaxTime      \* bound: how long a run lasts

ASSUME PerfAssumption ==
  /\ Streams \subseteq Nat /\ IsFiniteSet(Streams) /\ Streams # {}
  /\ Queues \subseteq Seq(Nat) /\ <<>> \notin Queues
  /\ {MinSamples, SmallShare, Interval} \subseteq Nat \ {0} /\ MaxTime \in Nat

VARIABLES
  now, queue,
  stream,    \* "opening", "idle", "busy", "over", or "refused": never opened
  file,      \* per stream, the file it reads: [size, written, began]
  bytesDone, filesDone,   \* Stats
  samples,   \* Sample: [by, size, duration, start]
  failed,    \* how many files failed
  sampler,   \* "parked", "due", "timed", "loaded"
  held,      \* the reading the sampler makes, holding the lock of the log
  nextTick, log,
  stage,     \* of the run: "join", "aborted", "over"
  stopped,   \* when the sampler was aborted
  progress, elapsed,
  arrived    \* history: bytes that ever arrived
engine == <<queue, stream, file, bytesDone, filesDone, samples, failed, arrived>>
sampling == <<sampler, held, nextTick, log>>
ending == <<stage, stopped, progress, elapsed>>
vars == <<now, engine, sampling, ending>>

Reading(at, bytes, files) ==
  [at |-> at, bytes |-> bytes, files |-> files, arrived |-> arrived]
Origin == [at |-> 0, bytes |-> 0, files |-> 0, arrived |-> 0]
NoFile == [size |-> 0, written |-> 0, began |-> 0]

Init ==
  /\ now = 0 /\ queue \in Queues
  /\ stream = [w \in Streams |-> "opening"] /\ file = [w \in Streams |-> NoFile]
  /\ bytesDone = 0 /\ filesDone = 0 /\ samples = {} /\ failed = 0 /\ arrived = 0
  /\ sampler = "parked" /\ nextTick = Interval /\ log = <<>>
  /\ held = Origin
  /\ stage = "join" /\ stopped = 0 /\ progress = <<>> /\ elapsed = 0

(* At the bound, time passes only for a file that has taken none, and once *)
(* after the abort.                                                        *)
Tick ==
  /\ stage # "over"
  /\ \/ now < MaxTime \/ (stage = "aborted" /\ now = stopped)
     \/ \E w \in Streams : stream[w] = "busy" /\ file[w].began = now
  /\ now' = now + 1
  /\ UNCHANGED <<engine, sampling, ending>>

-----------------------------------------------------------------------------
(* The streams.                                                            *)

Open(w) ==
  /\ stream[w] = "opening"
  /\ \E outcome \in {"idle", "refused"} : stream' = [stream EXCEPT ![w] = outcome]
  /\ UNCHANGED <<now, queue, file, bytesDone, filesDone, samples, failed, arrived,
                 sampling, ending>>

Take(w) ==
  /\ stream[w] = "idle"
  /\ IF queue = <<>>
     THEN stream' = [stream EXCEPT ![w] = "over"] /\ UNCHANGED <<queue, file>>
     ELSE /\ stream' = [stream EXCEPT ![w] = "busy"]
          /\ queue' = Tail(queue)
          /\ file' = [file EXCEPT ![w] =
               [size |-> Head(queue), written |-> 0, began |-> now]]
  /\ UNCHANGED <<now, bytesDone, filesDone, samples, failed, arrived, sampling, ending>>

Arrive(w) ==
  /\ stream[w] = "busy" /\ file[w].written < file[w].size
  /\ file' = [file EXCEPT ![w].written = @ + 1]
  /\ bytesDone' = bytesDone + 1 /\ arrived' = arrived + 1
  /\ UNCHANGED <<now, queue, stream, filesDone, samples, failed, sampling, ending>>

TimeTaken(w) == now - file[w].began

Finish(w) ==
  /\ stream[w] = "busy" /\ file[w].written = file[w].size /\ now > file[w].began
  /\ samples' = samples \union
       {[by |-> w, size |-> file[w].size, duration |-> TimeTaken(w), start |-> file[w].began]}
  /\ filesDone' = filesDone + 1
  /\ stream' = [stream EXCEPT ![w] = "idle"] /\ file' = [file EXCEPT ![w] = NoFile]
  /\ UNCHANGED <<now, queue, bytesDone, failed, arrived, sampling, ending>>

SizeGivenBack(w) == file[w].size   \* mutant: also what had not arrived
GivenBack(w) == file[w].written

Fail(w) ==
  /\ stream[w] = "busy" /\ now > file[w].began
  /\ bytesDone' = bytesDone - GivenBack(w)
  /\ filesDone' = filesDone + 1 /\ failed' = failed + 1
  /\ \E after \in {"idle", "over"} : stream' = [stream EXCEPT ![w] = after]
  /\ file' = [file EXCEPT ![w] = NoFile]
  /\ UNCHANGED <<now, queue, samples, arrived, sampling, ending>>

-----------------------------------------------------------------------------
(* The sampler: a reading loads one counter after the other, while the     *)
(* streams go on.  Aborted, it ends where it next waits.                   *)

Wake ==
  /\ sampler = "parked" /\ stage = "join" /\ now >= nextTick
  /\ sampler' = "due" /\ nextTick' = nextTick + Interval
  /\ UNCHANGED <<now, engine, held, log, ending>>

ReadClock ==
  /\ sampler = "due" /\ stage # "over"
  /\ sampler' = "timed" /\ held' = [held EXCEPT !.at = now]
  /\ UNCHANGED <<now, engine, nextTick, log, ending>>

LoadBytes ==
  /\ sampler = "timed"
  /\ sampler' = "loaded" /\ held' = Reading(held.at, bytesDone, 0)
  /\ UNCHANGED <<now, engine, nextTick, log, ending>>

LoadFiles ==
  /\ sampler = "loaded"
  /\ log' = Append(log, [held EXCEPT !.files = filesDone]) /\ held' = Origin
  /\ IF now >= nextTick THEN sampler' = "due" /\ nextTick' = nextTick + Interval
                        ELSE sampler' = "parked" /\ UNCHANGED nextTick
  /\ UNCHANGED <<now, engine, ending>>

-----------------------------------------------------------------------------
(* The end of run.                                                         *)

Started == {w \in Streams : stream[w] = "over"}

Join ==
  /\ stage = "join" /\ \A w \in Streams : stream[w] \in {"over", "refused"}
  /\ stage' = (IF Started = {} THEN "over" ELSE "aborted")
  /\ stopped' = now
  /\ UNCHANGED <<now, engine, sampling, progress, elapsed>>

LastTime == now

Collect ==
  /\ stage = "aborted" /\ sampler \in {"parked", "due"}
  /\ progress' = Append(log, Reading(LastTime, bytesDone, filesDone))
  /\ elapsed' = now /\ stage' = "over"
  /\ UNCHANGED <<now, engine, sampling, stopped>>

Done == stage = "over" /\ UNCHANGED vars

Next ==
  \/ \E w \in Streams : Open(w) \/ Take(w) \/ Arrive(w) \/ Finish(w) \/ Fail(w)
  \/ Tick \/ Wake \/ ReadClock \/ LoadBytes \/ LoadFiles \/ Join \/ Collect \/ Done

Spec == Init /\ [][Next]_vars
-----------------------------------------------------------------------------
(* What is made of the readings (perf.rs timeline).                        *)

WrappingSub(a, b) == (a - b) % 256       \* mutant: u64 subtraction, scaled
SaturatingSub(a, b) == IF a > b THEN a - b ELSE 0

KeptIfMoved(kept, r) ==    \* mutant: a stall is left out
  r.bytes # Last(kept).bytes
(* A reading is kept when time has passed since the last one that was. *)
IsKept(kept, r) == SaturatingSub(r.at, Last(kept).at) > 0
Kept(readings) ==
  FoldLeft(LAMBDA kept, r : IF IsKept(kept, r) THEN Append(kept, r) ELSE kept,
           <<Origin>>, readings)

TimelineOf(readings) ==
  LET kept == Kept(readings) IN
  [k \in 1 .. Len(kept) - 1 |->
     [at    |-> kept[k + 1].at,
      bytes |-> SaturatingSub(kept[k + 1].bytes, kept[k].bytes),
      files |-> SaturatingSub(kept[k + 1].files, kept[k].files),
      truth |-> kept[k + 1].arrived - kept[k].arrived]]

-----------------------------------------------------------------------------
(* What is made of the samples.                                            *)

Total(S, field) == SumFunction([s \in S |-> s[field]])
StreamTime == Total(samples, "duration")
Utilization == [busy |-> StreamTime, available |-> elapsed * Cardinality(Started)]

(* The order of the report: by start, of a tie the stream joined first. *)
Earlier(a, b) == a.start < b.start \/ (a.start = b.start /\ a.by < b.by)
ByStart ==
  CHOOSE row \in SetToSeqs(samples) : \A i, j \in DOMAIN row : i < j => Earlier(row[i], row[j])

(* measure_cost, of a sequence of samples.  The group are the smallest     *)
(* files, and all that are as small as the largest of them: those with     *)
(* fewer than Cut(n) smaller ones.                                         *)
Cut(n) == Min({Max({n \div SmallShare, MinSamples}), n})

FirstOfSmallest(row) ==    \* mutant: a fixed count of a stable sort
  {i \in DOMAIN row :
     Cardinality({j \in DOMAIN row :
       row[j].size < row[i].size \/ (row[j].size = row[i].size /\ j < i)}) < Cut(Len(row))}
Smaller(row, i) == {j \in DOMAIN row : row[j].size < row[i].size}
Group(row) == {i \in DOMAIN row : Cardinality(Smaller(row, i)) < Cut(Len(row))}

UpTo(row, group, i) == {j \in group : row[j].duration <= row[i].duration}
Median(row, group) ==
  Min({row[i].duration : i \in
         {i \in group : Cardinality(UpTo(row, group, i)) > Cardinality(group) \div 2}})

SumOf(row, field, set) == SumFunctionOnSet([i \in DOMAIN row |-> row[i][field]], set)

NoEstimate == [known |-> FALSE]

(* MAX_BYTE_SHARE: the mean bytes of the group at the rate of all samples, *)
(* bytes / time, must not take more than half of the median.               *)
TooMuchByteTime(byteTime, median) == 2 * byteTime > median

Cost(row) ==
  LET group == Group(row)
      bytes == SumOf(row, "size", DOMAIN row)
      time == SumOf(row, "duration", DOMAIN row)
      unit == Cardinality(group) * bytes       \* the common denominator
      byteTime == SumOf(row, "size", group) * time
      median == Median(row, group) * unit
  IN IF Len(row) < MinSamples \/ bytes * time = 0 \/ TooMuchByteTime(byteTime, median)
     THEN NoEstimate
     ELSE [known |-> TRUE, fixed |-> median - byteTime, unit |-> unit,
           files |-> Cardinality(group),
           largest |-> row[Max(group)].size]

-----------------------------------------------------------------------------
(* The type of the variables: the counters do not wrap.                    *)
TypeOK ==
  /\ stream \in [Streams -> {"opening", "idle", "busy", "over", "refused"}]
  /\ file \in [Streams -> [size : Nat, written : Nat, began : 0 .. now]]
  /\ queue \in Seq(Nat) /\ bytesDone \in Nat /\ filesDone \in Nat /\ failed \in Nat
  /\ \A s \in samples : s.by \in Streams /\ {s.size, s.duration, s.start} \subseteq Nat
  /\ sampler \in {"parked", "due", "timed", "loaded"}
  /\ stage \in {"join", "aborted", "over"} /\ elapsed \in 0 .. now

Reported == stage = "over" /\ progress # <<>>

(* No reading is older than the one before it, though two tasks make them  *)
(* ("in order", TransferReport; the interval of the timeline is the        *)
(* difference of two u64).  And the "bytes written since the previous      *)
(* reading" (Timeline) are never more than did arrive between the two,     *)
(* also when a file that failed was given back and the counter fell.       *)
TimelineSound ==
  /\ \A k \in 1 .. Len(progress) - 1 : progress[k].at <= progress[k + 1].at
  /\ Reported => \A k \in DOMAIN TimelineOf(progress) :
       TimelineOf(progress)[k].bytes <= TimelineOf(progress)[k].truth

(* The parts of the report, made of the counters, of the readings and of   *)
(* the samples, agree.  The timeline shows every file, and every byte but  *)
(* perhaps more, those of files that failed; it lacks only what the clock  *)
(* cannot tell from an earlier reading.  And stream_utilization is "a      *)
(* direct measurement": the streams that were opened were not busy for     *)
(* longer than the run lasted, so the cut at 1 never hides a wrong sum.    *)
Told(field) == LET timeline == TimelineOf(progress)
               IN  SumFunction([k \in DOMAIN timeline |-> timeline[k][field]])
LastTold == progress[Min({k \in DOMAIN progress : progress[k].at = Last(progress).at})]
ReportAddsUp ==
  Reported =>
    /\ filesDone = Cardinality(samples) + failed
    /\ bytesDone = Total(samples, "size")
    /\ Told("files") = LastTold.files
    /\ Told("bytes") >= LastTold.bytes
    /\ failed = 0 => Told("bytes") = LastTold.bytes
    /\ Utilization.busy <= Utilization.available

(* "Taking a fixed count instead biases the sample": the estimate does not *)
(* depend on the order in which the streams got to the files.  Nor is      *)
(* there one from "a run with no spread in file size, whether the files    *)
(* are all large or all tiny" (MAX_BYTE_SHARE), however long each took.    *)
Orders == {order \in [DOMAIN ByStart -> DOMAIN ByStart] : IsInjective(order)}
Essence(cost) == IF cost.known THEN <<cost.fixed, cost.unit, cost.files>> ELSE <<>>
EstimateSound ==
  Reported =>
    /\ \A order \in Orders :
         Essence(Cost([i \in DOMAIN order |-> ByStart[order[i]]])) = Essence(Cost(ByStart))
    /\ Cardinality({s.size : s \in samples}) = 1 => ~Cost(ByStart).known

=============================================================================
