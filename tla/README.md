# A TLA+ verification project for adbrsync

adbrsync pulls a directory tree from an Android device to one or several local
destinations, over the adb server, in the manner of rsync. This directory holds
TLA+ modules that model it, TLC configurations that check them on small
instances, and theorems that TLAPS proves for every instance. Paths below are
relative to the repository; `transfer.rs`, `plan.rs`, `filter.rs`, `scan.rs`,
`checksum.rs` and `perf.rs` are in `crates/adbrsync-core/src`, `sync.rs`,
`shell.rs`, `stream.rs` and `client.rs` in `crates/adb-proto/src`, `main.rs`,
`args.rs` and `report.rs` in `crates/adbrsync-cli/src`.

## 1. The system

### Components, their state and their operations

| Component | State | Operations | Where it is hard |
|---|---|---|---|
| Start of a run (`main.rs`, `client.rs`, `args.rs`) | the selector of the device, the probe of the source, the roots | `resolve`, `probe_source`, `resolve_destinations` | phones, the source and drives change between the steps that look at them |
| Run of the program (`main.rs`) | missing and unprepared destinations, the scan, the plan, the report | scan device and destinations, filter, plan, create directories, transfer, delete, report, exit code | a run is killed anywhere; runs follow each other; the ways out, each with its exit code |
| Transfer engine (`transfer.rs`) | a shared queue of files; `Stats`: bytes and files done, per destination failures and a disabled flag; per worker a stream and the file in hand | `run`, the worker loop, `fetch_one`, `create_dirs`, `apply_deletions` | N workers interleave on atomics and on the queue; every disk operation and every read may fail; temporaries must go on every path |
| Fan-out (`transfer.rs`, `Fanout`) | the open files, the stashed chunk, how far each file has taken it, the count of bytes | `poll_write`, `poll_flush`, `finish` | files take a chunk in different pieces, are not ready, and report failures late |
| Sync session (`sync.rs`, `client.rs`, `stream.rs`) | a FIFO connection; nothing says which request a response belongs to | open a service, `RECV`, `QUIT`, the worker's `breaks_stream` and `open_session` | an error in the middle of a response must not leak into the next one |
| Shell service and scan (`shell.rs`, `scan.rs`) | stdout, stderr and exit code collected from packets; entries and denied paths | `run`, `scan_remote`, `scan_local` | the walk and the connection may each stop partway and look complete |
| Checksums (`checksum.rs`) | the batches still to send, digests per path | batches of `sha256sum` on the device, local hashing, comparison per destination | limits of a batch, digests that are missing, lines that are lost or cut |
| Planner and filter (`plan.rs`, `filter.rs`) | none: a function of the scans | what to make, what to read for whom, what to delete and in which order | each destination on its own; what is filtered, too large or unlisted is not what is gone |
| Statistics (`perf.rs`, `transfer.rs`) | live counters, the log of the sampler, samples per file | the sampler task, the last reading, timeline, stream time, cost per file | two tasks read counters that others move, and that may fall |
| Progress, report, info flags, errors, entries | none | formatting and parsing | – |

How they interact: `run` resolves the device, probes the source, resolves the
destinations, calls the scans (which run side by side), the checksum comparison
and the planner one after the other, then `transfer::run`, which spawns the
workers and the sampler. Each worker owns one sync session; the workers share the
queue and `Stats`, nothing else; the sampler only reads `Stats`. A worker's
`fetch_one` hands a `Fanout` to the session's `recv` as the sink of the data.
The report is assembled from the workers' return values after all are joined,
and the exit code from the report and the lists of missing and unprepared
destinations.

### What makes each component correct

* Start of a run: one run talks to one phone; files land where the
  trailing-slash rule says; exit code 0 means that every destination that was
  named has everything; nothing is made implicitly; no destination loses files
  to the `--delete` pass of another.
* Run and planner: a run repairs every destination that had no failure of its
  own, from any state; exit code 0 means that all mirror the device; the next run
  finds nothing to do; deletions take only what is extraneous.
* Transfer engine: no final name ever holds part of a file; a destination that
  has no failure gets every file; every missing copy has its reason in the
  report; a destination is written off by the failure that reaches the limit;
  files are not left in the queue while somebody can serve them; temporaries go;
  it ends.
* Fan-out: each destination gets the bytes in order, once; bytes are counted
  once; one destination's failure is not the others'.
* Sync session: the data of one file never end up in another; a refusal by the
  device costs no session; the number of attempts to connect is bounded.
* Scan: an incomplete listing is never taken for a smaller tree.
* Checksums: a copy is taken for equal only if it is; an equal one is read again
  only if something failed; no command is too long.
* Statistics: what the report says agrees with what happened.

The hazards behind these, each at its line, are in `PROJECT.json`.

## 2. The modules

| Module | Models | Composition |
|---|---|---|
| `Transfer` | `transfer::run`, the workers, `fetch_one`, `create_dirs`, the failure counters | uses the fan-out chunk by chunk |
| `FanoutSpec` | what a fan-out promises: a chunk is taken or refused as a whole | – |
| `Fanout` | `Fanout` poll by poll over tokio's files | implements `FanoutSpec` (`Implements`) |
| `SyncSession` | one worker's session: handshake, requests, replacement | a host, two channels and a peer in one module |
| `Scan` | `scan_remote` over `shell::run` | a device, a channel and the program |
| `Checksum` | `compare_many`, after the scan | `EXTENDS Scan`: its packets, losses and reads carry the hash commands too |
| `Planner` | `plan.rs` and the filter, as operators | no state |
| `Backup` | whole runs, crashes, successive runs | `EXTENDS Planner`; `Transfer` in one step per file |
| `Destinations` | `resolve_destinations` and the fate of each destination | a run at the level of destinations and files |
| `Startup` | `resolve`, `probe_source`, the trailing-slash rule, the first scan of the device | `EXTENDS Destinations`: its steps before and between theirs |
| `Perf` | counters, sampler, timeline, stream time, cost per file | the engine at the level of whole files |
| `MC...` | instances of the above for TLC | `EXTENDS` them |
| `FoldLemmas` | no code: induction over numbers and finite sets, sums, what the folds of the community modules compute | – |
| `TransferProof`, `FanoutProof`, `SyncSessionProof`, `PerfProof`, `BackupProof` | theorems about the module of that name | `EXTENDS` it |
| `ScanProof` | theorems about `Scan` and `Checksum` | `EXTENDS Checksum` |
| `StartupProof` | theorems about `Destinations` and `Startup` | `EXTENDS Startup` |

Operators marked `\* mutant:` stand beside the definition they are a variant of.
Each is a slip one could make in that code (a dropped guard, a count before
instead of after the add); no specification uses them. They record which slip
each property catches (`PROJECT.json`, `mutants`).

### Transfer

A worker's step is one access to what it shares with the others, or one disk
operation; its own variables change with the step next to them. `pc[w]` follows
the code: `start` (`open_session`), `loop` and `pop` (the two tests at the head
of the worker loop, which are apart in the code), `open` and `noteOpen` (the
first half of `fetch_one`), `recv`, `discard` (the error path of `recv`;
`discardBroken` when `breaks_stream` will say so), `noteWrite`, `install`,
`reopen`, `done`.

* `note_failure` is two atomic operations, so it is two steps: `NoteFailure`
  counts, `GiveUp` swaps the flag; `limitHit` is the worker between the two.
* A file is the number of its DATA chunks, and a file on disk the number of
  chunks in it. tokio's `File` buffers a write and reports its failure at the
  next one or at the flush; therefore chunk k reaches the disk when chunk k + 1
  is accepted (`ReceiveData`, `RecvDone`), and the first write of a file never
  fails: `ReceiveData` takes the first chunk at every destination, and `SinkGone`,
  `recv` failing because all are gone, needs a second one.
* `FetchOk` and `FetchErr` are what the worker does with the result of
  `fetch_one`; with an error everything `fetch_one` had collected is lost.
* The history variables (`hurt`, `stuck`, `undated`, `devFailed`) record what
  failed, for the properties; no guard reads them.

### Fanout and FanoutSpec

Here a byte is its position in the file, so that an order, a gap or a repetition
shows. `Background` is the thread in which tokio carries out a write: it succeeds
or fails after part of it. `WritePending` leaves `poll_write` in the middle of a
chunk; the next call finds the chunk stashed. The refinement maps `taken` to the
number of chunks counted and hides everything about polls.

### SyncSession

`up` and `down` are the two directions of the connection, `alive` whether it
still is one. The peer is the adb server during the handshake and adbd after
it; it may refuse a file after any number of chunks, send a message the protocol
does not allow, and the connection may be lost with any prefix of what was in
flight arriving. A chunk carries the file it belongs to; the code cannot see
that, `NoCrossTalk` does.

### Scan and Checksum

The device prints the root and then the records, each cut in two pieces so that
a packet boundary falls inside; complaints go to stderr, and the exit code comes
last. find may break off with a complaint and still exit 0, as `scan.rs` notes, or be
killed, which leaves an exit code and no complaint (`Killed`).
`ReadEnd` is the end of the stream between two packets, which `shell::run` takes
for the end of the output.

`Checksum` goes on where the scan accepted a listing: `Start` picks the files
that some destination has, `RunBatch` sends the next command (`BatchOf` is the
greedy rule of `device_digests`), `Hash` and `HashExit` are the device, `Parse` is
`run_batch` after the stream ended, `CompareNext` one destination. `run_batch`
looks neither at the exit code nor at stderr, so a lost stream is only a set of
missing lines. A line that was cut in its path is a well-formed line for another
path (`CutTo`), and a line of a file with a line break in its name is read as one
for the part before it (`Spelled`); `MatchedMeansEqual` and `EqualIsMatched` name
these as the exceptions.

### Planner and Backup

A path is a sequence of components and a tree a function from paths to nodes:
files, directories, and symbolic links, of which only what they lead to is kept.
The plan is made of sets: in which order files and directories are taken does not
matter to what is there in the end, and of the deletions a deepest one is the
next (`DeleteNext`).
`Backup` runs the phases of `main.rs` over a device and several destinations,
with a crash between any two steps and inside a file (temporary left; renamed
but with the time of writing), failures of every operation, a device that
changes and a user who removes a copy. `atScan` is the device when the scan read
it, `hurt` the destinations an operation failed on, `fixable` whether the plan
could be applied at all. `Opts` are the options of the command line;
`FinishReporting` is `write_perf_report`. `LocalScan` is what `scan_local` makes
of a tree: it does not look behind links, and a time before 1970 reads as 0.

### Destinations and Startup

What is at a destination's path is a drive, nothing, a file, or a directory of
the internal disk that the program made. Drives are attached and unplugged at
any step. The flags `--mkpath`, `--skip-missing-dest` and `--delete` are part of
the initial state, so that one run covers all eight combinations.

Which destination's path lies in which other's is the constant `Overlapping`. A scan
walks into whatever is mounted below its path, so that, with `--delete`, it finds
there the files of the destinations that lie in it, to which the device has
nothing of the same name (`Foreign`); the plan marks them (`dels`), and `DeleteOne` is
`apply_deletions` for one of them, at the place where they are when it comes to
it. `Plan` ends the run with "nothing to do" when there is nothing to transfer, no
directory on the device and nothing to delete.

`Startup` puts the choice of the device, the probe and the device scan before and
beside these. `Chosen` is `resolve`, `Routed` the adb server, which picks a phone
again for each stream; between any two steps a phone may leave, another may
come, and the path of the source may become a file, a directory or nothing.
`Base` is what the trailing-slash rule appends to each destination, decided on
the word of the probe; `seen` is what the scan finds later.

### Perf

The streams take files, write bytes one by one, finish or give bytes back; the
sampler is asleep, woken, has read the clock, has loaded the bytes, and loads the
files (`Wake`, `ReadClock`, `LoadBytes`, `LoadFiles`), with the streams in
between. `Join` aborts it at any of these and `Collect` makes the last reading.
`TimelineOf` and `Cost` are functions of what was collected. Ratios are compared
crosswise, so there is no rounding in the model; the rounding of `f64` is left
out.

## 3. What the runs check

| Run | Instance | Distinct states | Shows |
|---|---|---|---|
| `transfer` | 2 workers, 3 files, 2 destinations, limit 3 | 1,388,747 | safety and termination of the engine |
| `fanout` | 3 destinations, 2 chunks of 3 bytes | 33,324 | bytes in order, counted once; refinement of `FanoutSpec` with its liveness |
| `session` | 3 files (2, 0 and 1 chunks), 3 attempts | 27,322 | no cross-talk; refusals are free; the worker ends |
| `remote` | a tree of 4 entries, one lockable; 3 files to hash, 2 destinations | 1,093,844 | what the scan accepts is complete, or a denial hides a lost stream or a killed find; equal exactly when equal; commands bounded; both end |
| `backup` | 2 destinations, 8 scenarios, up to 2 runs and 1 change | 658,555 | repair, exit code, nothing twice, what deletion may take; every run ends |
| `dests` | 3 destinations, one inside another, 2 files, 2 plug events; 2 phones, 2 events | 3,657,947 | exit code, no destination loses files to another, skipping, independence; one phone, the right place |
| `perf` | 2 streams, plans of up to 3 files | 3,985,759 | readings, timeline and estimate agree with what happened |
| `swallowed`, `uncounted`, `scan_truncated`, `denied_clean`, `unplugged` | as above, smaller | | disagreements, see 6 |

**Bounds.** The transfer engine has three files because the limit is three and
every file can fail at most once per destination: the destination with all three
files can just be written off, in the middle of two workers. Two workers are the
fewest that interleave. One file goes to two destinations and has two
chunks, so that one destination can fail before, between and after them while the
other goes on; the others are empty, the case in which only the flush can fail.
`CleanExitMeansComplete` needs fewer workers than the limit; `swallowed` is the
case with as many. `uncounted` has two files of two chunks: the failure of a
one-chunk file shows only at the flush, and is counted. Three destinations in `fanout` have one before and one after
the one that is not ready; chunks of three bytes can be taken in three ways.
In `session` a file with two chunks can fail before, between and after them, the
empty one has DONE as its first answer, and a third request follows any two
errors. `Misbehave` is bounded by two messages in flight, since the peer could
otherwise repeat itself for ever.

In `remote` any two neighbours of the three files fit into a command and all
three do not, so there are commands before and after a loss; the name of one file
has a line break, that of another begins with the name of a third, and one is full
of quotes, which the estimate leaves out. `MaxCommand` (20) and `MaxRequest`
(80) stand in the proportion of `MAX_COMMAND_BYTES` (16,384) to the 65,535 bytes
of a request; `QuotesFit` is that proportion, and that a path is short enough to
be sent alone in the worst case of its quoting (a path has at most 4,096 bytes).

In `backup` the second run meets everything the first, or a crash in it, can
leave; `maxRuns` and `maxChanges` bound runs and changes. The scenarios vary one
thing each: repeated runs with crashes and changes; filters and sizes, with and
without `-r`, with directories denied; `-c` without `-t`; no `--delete`; links at
the destinations with a report that may fail; dry runs; files from before 1970, with a
link to a directory where the device has a file and a directory in the way of a
temporary file (`Ancient`).
The junk directory with a junk file makes the order of deletions matter.

In `dests` the third destination lies in the first, and `--delete` may be given, so
that whenever the two are worked on together the files of one are extraneous to
the other; a drive mounted after the comparison of the roots is why the run
needs more than the initial states. `MaxPlugs` is two, to unplug a drive and to attach it again, and
`MaxEvents` two, for a phone that leaves while another comes. To keep the product
small either the phones and the source change in a behaviour or the drives do
(`MCInit`, and the guards on `plugs` and `events`); the two kinds of change are
not combined.

In `perf` a file can fall into the same reading as another or into a later one;
`MIN_SAMPLES`, `SMALLEST_SHARE` and the interval are scaled to 1, 2 and 2, so
that three files can have an estimate, and one taken from a part of them. Time at
the bound goes on only as long as a file needs to have taken any.

**Type invariants.** `Transfer`, `Fanout`, `Backup` and `Perf` have one that a run
checks: theirs says more than the shape of a variable (counters that must not
wrap, a stash that is empty between chunks, parents that are directories after
any crash). In the other modules it would only repeat the values assigned.

**Deadlock** is checked except in `Backup`, where the system rests after the last
run (nothing makes the user start another).

**Fairness.** Weak fairness of the workers together (`Transfer`: some ready
worker goes on, which is enough since none waits for another), of the program and of
its peer (`SyncSession`, `Scan`, `Checksum`), of the task and of tokio's threads
(`Fanout`), and of the phases of a run (`Backup`). tokio polls a task whose
awaited event has come, and no lock is held over an await.
That the peer answers or the connection is lost is an assumption: no read in the
code has a timeout, and a device that stops without closing the connection
stops the run. No liveness property needs strong fairness, and no failure is
fair: a destination that could fail need not. `Destinations`, `Startup` and
`Perf` state no fairness and no liveness: what they share with the other modules
ends for the same reasons.

## 4. What is proved

Eight modules hold theorems, one per component and one with lemmas about folds.
Each proves an inductive invariant of its specification, with the types that it
needs, and the properties of the runs from it; so what a run shows of a small
instance holds for every value of the constants that the `ASSUME` of the module
admits.

| Module | Invariant | Theorems (the property is the run's) |
|---|---|---|
| `TransferProof` | `IInv`, `ReportInv` | `TypeCorrect`, `NeverTruncated`, `ProgressCorrect`; `WriteOffCorrect`, `QueueDrainedCorrect`, `TempsRemovedCorrect`, `HealthyDestCorrect`, `ReportCorrect`, `CleanExitCorrect` |
| `FanoutProof` | `FanoutInv` | `FanoutTypes`, `NoByteTwiceCorrect`, `OpenMeansWholeCorrect`, `SafetyImplements` |
| `SyncSessionProof` | `SessionInv` | `NoCrossTalkCorrect`, `AlignedCorrect`, `RefusalsCorrect`, `AccountedCorrect` |
| `ScanProof` | `ScanInv`, `CompareInv` | `AcceptedCorrect`, `AcceptedBeforeComparing`; `MatchedCorrect`, `EqualCorrect`, `BoundedCorrect` |
| `StartupProof` | `DestInv`, `StartInv` | `CleanExitCorrect`, `DestsKeepTheirFilesCorrect`, `PresentGetBackupCorrect`, and the three again in `DestinationsInStartup`; `OnePhoneCorrect`, `LandsWhereDueCorrect` |
| `PerfProof` | `PerfInv` | `TypesCorrect`, `TimelineCorrect`, `ReportCorrect`, `EstimateCorrect` |
| `BackupProof` | `Sound`, `Accounted`, `Healthy`, `Kept`, `Clear` | `TypesCorrect`, `RemovesCorrect`; `HealthyDestCorrect`, `CleanExitCorrect`, `NothingTwiceCorrect`, `RepairCorrect` |

### Transfer

    IInv == TypeOK /\ ProgressExact /\ Exclusive /\ TempsKnown /\ NoTruncatedFinal

None of the three properties is inductive alone. `NoTruncatedFinal` says
nothing of the temporary files, and `Install` copies one: `TempsKnown` says what
each worker may assume of the temporaries it holds open (nothing before the
first chunk, all but the buffered chunk while receiving, the whole file from the
flush until the rename). That a second worker does not write the same
temporary needs `Exclusive`: a file is once in the queue or in one worker's
hands. And that `fetch_sub` on the unsigned counter stays natural needs
`ProgressExact`, since the bytes of a failed file are a part of the chunks in
flight. `StepKeepsOthers` is what a step leaves to the other workers.

`ReportInv` adds what every worker knows of the file in its hands: which of its
targets are open, have failed, are still to be dealt with (`Targeted`); who owns a
temporary file that is there (`TempsOwned`); that a copy is made, will be made,
or has a failure that was counted (`Served`, `Blamed`) and a reason that is or will
be in the report (`Reasons`, `Blames`); and that the worker between the counting
and the writing off is at a destination whose count has reached the limit
(`Limits`). `Counts` bounds the failures of a destination by the workers that
have not reported theirs yet, as long as the report is empty. From it follows
`CleanExitCorrect`, under `StreamCount < Limit`: that hypothesis is the whole
difference to the disagreement that the run `swallowed` shows.

### Fanout

`FanoutInv` says how many bytes each destination has been given at every place of
the code (`Given`: those before `at` are a piece ahead, those after it are not), that
what is on disk and under way is that prefix of the file, unless the destination
failed, and that those the flush has passed have nothing under way.
`SafetyImplements` is the safety part of the refinement: `Init` and every step map to
the initial state, a step or a stutter of `FanoutSpec`.

### SyncSession

`SessionInv` follows the messages: during the handshake at most one question or
answer is under way (`Shaking`); inside a request, all that is under way up to the
first message that is not data belongs to the current file, in order, and the
answer ends with DONE or FAIL (`Coming`, `Served`). `NoCrossTalk` alone says nothing
of what has not arrived. `Opened` counts connections against the files that broke
a stream.

### Scan and Checksum

`ScanInv`: as long as nothing was lost, what the walk has done shows in what
arrived or is under way (`Shown`), and, unless the find was killed, only the second
piece of a record ends a run of records (`Paired`). What is accepted is complete
because an exit code is the last packet, so that its arrival means that nothing
was lost, and that of a find that was killed is refused; the exceptions that the
property names are those of `scan_truncated`.

`CompareInv` goes on from there: every file that was sent in a command has its
digest, or its line is there or will come, or something was lost (`Gathered`); a
digest is that of a file whose line reads so (`Right`); the copies that match are,
without trouble, exactly the equal ones (`Exact`). `BoundedCorrect` has the hypothesis
`QuotesFit` (section 3).

### Destinations and Startup

`DestInv`: a destination is in `roots`, `missing` or still to be looked at
(`Sorted`); one that was there all along is a drive (`Attached`); a file that is not
in the plan is at the destination, and on the drive if that was always there
(`Known`, `Queued`). Two parts are for `DestsKeepTheirFiles`: roots that
were accepted do not overlap (`Disjoint`), and what is marked for deletion at a root is
of a destination that lies in it (`Marked`). So what a deletion takes belongs to
none of the roots (`DeleteSpares`), whatever was plugged or unplugged since the
scan; it belongs to one that was missing and skipped, which is the exception the
property names. `StartInv` adds that only the selected phone was talked to, and
what the probe and the scan found. The three properties of `Destinations` hold in
`Startup` as well, where the choice of a phone and the device scan come between
its steps: the lemmas are about the steps of both.

### Perf

`PerfInv`: the byte counter is what was measured plus what is under way, the file
counter the samples plus the failures (`Counters`); the times measured on a stream
do not overlap (`Durations`); a reading that is made, or half made, is not ahead of
the counters, and later than the ones before (`Sampled`). That the intervals of the timeline
add up to the last reading, and none shows more than arrived in it, is a fact
about the fold that keeps a reading only if the counter rose
(`KeptIs`, `Telescope`).

`EstimateCorrect`: two samples of one stream do not start together (`Apart`), so there
is one order by start (`InOrder`), and the estimate is a function of the set of the
samples, in whatever order the streams handed them in: group, median and sums do not
depend on it (`Resum`). With files of one size there is no estimate: together they
took more than half of what they would have if each had taken the median (`TimeIs`),
so the bytes account for too much of it (`NoSpread`).

### Backup

`Sound` is what every state has, `Init` and every step, with no further
hypothesis: the plan is one for what the scan found, every tree is one a file
system can hold, whatever a crash left. What the operations do to a tree is stated once, as
`Becomes`. `RemovesCorrect` is about steps, and follows from `Sound`.

`Accounted` (a destination that an operation failed on is on record) and `Healthy`
(at every destination without a failure, each selected file is held or still in
the plan, each directory is there once it was prepared, and what is extraneous is
still to be deleted) give `HealthyDestCorrect` and `CleanExitCorrect`; `Kept`, that the
disks stay as a clean run left them, gives `NothingTwiceCorrect`.

`Clear` gives `RepairCorrect`: as long as nothing fails by itself and the scan found
nothing in the way, nothing stands in the way of what is still to be done, at any
destination (`Free`): where a directory has to be, and above it, there is nothing but
directories and links to one; where a file goes there is no directory, and none that
has its temporary's name; what is to be deleted is no link to a directory, and
everything below it is to be deleted as well. The last is why the order of
deletions matters: the longest path is taken first, and `BelowIsDeeper` says that
what is below an entry has the longer path, so that a directory is empty when its
turn comes. It is also why the type of `Backup` names the three kinds of links: only a
link to a directory is walked through.

The theorems about mirrors have these hypotheses:

* `NamesApart`: no device file has the name of another's temporary file. The
  program does not ensure it, and the statements are false without it
  (`PROJECT.json`, the hazard at `transfer.rs:784`).
* `NothingDenied`, for `NothingTwiceCorrect` only: no directory is refused. A run that
  was refused one exits 0 (`denied_clean`), and the next one, which is not, has
  something to do.
* `NamesMeasured`, for `RepairCorrect` only: every name has a length. `NameLen` is a
  parameter because `Len` of a string is nothing the provers know of; the runs take
  the length itself.

Proving corrected two statements: `Held` (a copy is compared by the time that the
scan can read, `AsRead`) and `RemovesOnlyExtraneous` (what was seen through a link
that a file replaces), each with a case in the scenario `Ancient` that shows the need.

### Induction and folds

A lemma cannot have a predicate for a parameter, so induction is stated for a set:
a set of numbers with 0 and the successor of each member is `Nat` (`Induction`), a set
of subsets of a finite set likewise (`SubsetInduction`), both from the least
counterexample. The folds and sums of the community modules are recursive
functions; that they exist is `RecursionExists`, and the `Sum...` lemmas say what
they compute.

## 5. What is only model-checked, and what is not modelled

Only checked: liveness (`Termination`, `WorkerEnds`, `ComparisonEnds`, `RunEnds`, and
the liveness part of `Implements`), which is out of the proof system's reach.

Not modelled:

* Progress, the printed summary and the report (`progress.rs`, `report.rs`,
  `info.rs`): they read counters and print. Of the plan, the reasons, counts and
  bytes that only they use.
* Of `perf.rs`, size classes, rates and the facts that are copied into the file:
  arithmetic without state.
* Parsing in `args.rs` (sizes, `--info`), and the warnings about options that have
  no effect; the modules take the options as values.
* `LIST`, which no run uses, and the `features` and `version` queries, whose
  answers go into the performance report.
* Wildcards in patterns: patterns are names and paths here.
* `temp_path_for` maps names one to one; a device file that has the temporary
  name of another one is left out.
* Links on the device, which the planner ignores.
* The text of a record of the walk: it is whole or cut short.
* A find that stops early by itself and says nothing: the model of the device has
  one that breaks off with a complaint, whatever its exit code (`BreakOff`), and
  one that is killed without a word, but not with exit code 0 (`Killed`).
* Loss of power: the disk of the models is what the file system shows; the code
  does not sync a temporary before it renames it.
* The write-off of destinations inside `Backup`: it takes files from a
  destination, which there is a failure of that destination like any other;
  `Transfer` has it.

## 6. Disagreements between the code and its documents

Those with a run (quoted with their lines in `PROJECT.json`):

* `swallowed`: with at least as many streams as the limit, the failure that
  writes a destination off can land between another worker's own failure and its
  look at the flag. That worker takes its file for one that was skipped, drops
  its error and reports Ok; if it happens to all of them, exit code 0 and nothing
  is copied.
* `uncounted`: when all destinations of a file of two or more chunks fail while data
  arrive (with one destination, a full disk), which shows at the second write or a
  later one, `recv` returns the error first and no failure is counted: the
  destination is not written off. A file of one chunk fails at the flush, where
  the failure is counted.
* `scan_truncated`: after a "Permission denied" line every exit code is excused:
  the -1 that a lost stream leaves, and that of a find that was killed; the
  short list is accepted as the tree.
* `denied_clean`: a run that skipped a directory it could not read exits 0.
* `unplugged`: the empty mount point of a drive that is not there is a directory
  and passes for the destination; a drive that goes away after
  `resolve_destinations` is taken for an empty destination and its path is made
  on the internal disk.

Noticed while modelling, and left without a run of their own:

* `README.md:105` says that destinations of which one lies in another "are
  refused: their writes and their `--delete` passes would fight each other".
  `resolve_destinations` compares the roots that it keeps. One that is missing and
  skipped is compared with none; if its drive is mounted before the scan, inside
  another destination, `--delete` takes the files on it. `DestsKeepTheirFiles` names
  this as its exception; without it TLC finds the case.
* Checksums: the line of a file whose name has a line break is read as the line
  of the file named by the part before it, and a line whose path was cut by the
  end of the stream as one for the shorter path. If that other
  file has no line of its own, or an earlier one, the wrong digest stands for it,
  and a stale copy may be taken for equal (`Misreadable` in `Checksum`), although
  `checksum.rs:102-103` says "never silently keeps a stale file".
* A probe of the source that gets no answer counts as "not a file"; if the scan
  then succeeds and the source is a file, it lands in `DEST/name/name`
  (`LandsWhereDue`).
* A single file that is given through a symbolic link on the device gets the name
  of the file that the link leads to (`scan.rs:86-96`), a directory the name that
  was given.
* With `/` as the source, the root is no prefix followed by a slash of any path
  (`scan.rs:139-143`), so relative paths keep a leading slash. `safe_join` writes
  them below the destination, but no later scan finds them under that name: every
  run transfers them again, and `--delete` removes what was just written.
* The estimate of the cost per file is said to come from files "up to what size"
  (`perf.rs:112`), with "the largest of them" (`transfer.rs:878`). The size
  is taken from the last of the group (`transfer.rs:871`), and the group is in the
  order in which the files were started.
* `unchanged_everywhere` is said to be "Files already correct at every
  destination" (`plan.rs:101`); it is the least of the destinations' counts, which
  is more when the destinations lack different files.
* A performance report that cannot be written makes a run fail that did all its
  work (`FinishReporting`), while `main.rs:544-545` says of the device facts in it
  that a missing one "must not fail a transfer that already succeeded".
* `README.md:97-99` says of `--mkpath` and `--skip-missing-dest` "Either way the
  run exits 23"; a run that made all missing destinations exits 0.
* A file from before 1970 is transferred again in every run: its copy's time
  reads as 0. So is a file behind a link to a directory at the destination: the
  write follows the link and the scan does not (`NothingTwice`).
* A local error (no destination of a file could be opened, `transfer.rs:568`)
  counts as a broken stream, and a session that is in step is replaced
  (`NothingOpened` in `SyncSession`).
* A directory where the device has a file, or the reverse, is repaired by no run
  (`Repairable` in `Backup` names the exceptions).
* `apply_deletions` follows links: a dangling link stays and is counted as
  deleted, a link to a directory is a failure in every run (`DeleteNext`).
* With `--delete`, what a denied directory holds, and without `-r` everything
  below the top level, is not listed, hence extraneous, hence deleted.
* An error in the scan of one destination ends the run for all
  (`ScanLocalFails` in `Destinations`).

## 7. Plan

Done: all modules of section 2, and the theorems of section 4: every safety
property of the passing runs.

What is left: a lemma for each hypothesis of `Backup` that says how little of it is
needed, so that `NamesApart` is asked only of the files a run selects; and the
steps of the liveness arguments that are not temporal, such as the measure that
every step of a worker decreases.
