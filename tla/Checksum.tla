------------------------------ MODULE Checksum -------------------------------
(***************************************************************************)
(* The comparison by content, after the scan: compare_many (checksum.rs).  *)
(* The files that some destination has are hashed on the device, in        *)
(* commands of bounded size over the same shell::run as the scan; then     *)
(* every destination's copies are hashed and compared.  What run_batch     *)
(* makes of a command that fails is nothing: it looks neither at the exit  *)
(* code nor at stderr, and takes the lines it can read.                    *)
(*                                                                         *)
(* Code outside the repository: sha256sum, which prints one line for each  *)
(* file that it can read, in order.  A digest stands for the content; it   *)
(* is taken to be injective.                                               *)
(***************************************************************************)
EXTENDS Scan

CONSTANTS
  Files,       \* the entries that are files
  NumDests,    \* the number of destinations
  PathLen,     \* the bytes of a device path
  Quotes,      \* how many of them are single quotes
  MaxCommand,  \* MAX_COMMAND_BYTES
  MaxRequest,  \* the longest request of the adb protocol, 0xffff
  Content,     \* the content of each file on the device
  Locals,      \* what the destinations may hold: sets of [Dests -> [Files -> ..]]
  Spelled,     \* the path a whole line is read as: another one when the name
               \*   has a line break in it
  CutTo        \* the paths that a line broken off in its path may be read as

Dests == 0..(NumDests - 1)
Absent == "absent"

ASSUME ChecksumAssumption ==
  /\ Files \subseteq Entries /\ MaxCommand \in Nat /\ MaxRequest \in Nat
  /\ PathLen \in [Files -> Nat \ {0}] /\ Quotes \in [Files -> Nat]
  /\ NumDests \in Nat \ {0}
  /\ Spelled \in [Files -> Entries] /\ CutTo \in [Files -> SUBSET Entries]
  /\ \A f \in Files : Content[f] # Absent

(* A quote is a byte of its path; a path alone fits into a request however *)
(* it is quoted, as one of at most 4,096 bytes does; and MAX_COMMAND_BYTES *)
(* is a quarter of a request.                                              *)
QuotesFit ==
  /\ \A f \in Files : Quotes[f] <= PathLen[f] /\ PathLen[f] + 3 * Quotes[f] + 25 <= MaxRequest
  /\ 4 * MaxCommand - 4 <= MaxRequest

VARIABLES
  phase,      \* "scan", "hash", "compare" or "done"
  local,      \* the copies at every destination, as scan_local found them
  candidates, \* the files to hash, in the order of the scan
  batches,    \* history: the batches sent so far
  toHash,     \* the device: files of the command still to be hashed
  digests,    \* device_digests: what the lines said so far
  matched,    \* Digests.matched of the destinations compared so far
  trouble     \* history: a file was not hashed, or output was lost
cvars == <<phase, local, candidates, batches, toHash, digests, matched, trouble>>
allVars == <<vars, cvars>>

CInit ==
  /\ Init
  /\ phase = "scan" /\ local = [d \in Dests |-> [f \in Files |-> Absent]]
  /\ candidates = <<>> /\ batches = <<>> /\ toHash = <<>> /\ digests = <<>>
  /\ matched = <<>> /\ trouble = FALSE

-----------------------------------------------------------------------------
(* Which files, and in which commands.                                     *)

Present(d) == {f \in Files : local[d][f] # Absent}

(* "Only files that exist somewhere are worth hashing". *)
Start ==
  /\ phase = "scan" /\ pc = "accepted"
  /\ local' \in Locals
  /\ \E order \in SetToSeqs({f \in entries \intersect Files : \E d \in Dests : f \in Present(d)'}) :
       /\ candidates' = order
       /\ phase' = IF order = <<>> THEN "done" ELSE "hash"
       /\ matched' = IF order = <<>> THEN [k \in 1..NumDests |-> {}] ELSE <<>>
  /\ pc' = "batch"
  /\ UNCHANGED <<device, wire, link, stdout, stderr, exitCode, entries, denied>>
  /\ UNCHANGED <<batches, toHash, digests, trouble>>

SumOver(f(_), s) == SumFunction([k \in 1..Len(s) |-> f(s[k])])

(* Quoting adds two quotes and a blank; a quote in the name becomes four   *)
(* characters, which the estimate leaves out.                              *)
QuotedLen(f) == PathLen[f] + 4
RequestLen(batch) == SumOver(LAMBDA f : PathLen[f] + 3 + 3 * Quotes[f], batch) + 9 + 13

Pending == SubSeq(candidates, SumOver(Len, batches) + 1, Len(candidates))

FitsWithoutLast(s) ==       \* mutant: tests the bytes before it adds the path
  SumOver(QuotedLen, Front(s)) <= MaxCommand
Fits(s) == SumOver(QuotedLen, s) <= MaxCommand

(* Paths are taken while they fit; the first one always. *)
BatchOf(s) ==
  LET n == CHOOSE n \in 1..Len(s) :
             /\ \A k \in 2..n : Fits(SubSeq(s, 1, k))
             /\ n < Len(s) => ~Fits(SubSeq(s, 1, n + 1))
  IN  SubSeq(s, 1, n)

(* A command on a stream of its own. *)
RunBatch ==
  /\ phase = "hash" /\ pc = "batch"
  /\ LET batch == BatchOf(Pending) IN
       /\ RequestLen(batch) <= MaxRequest
       /\ batches' = Append(batches, batch) /\ toHash' = batch
  /\ pc' = "read"
  /\ wire' = <<>> /\ link' = "up" /\ stdout' = <<>> /\ stderr' = <<>> /\ exitCode' = -1
  /\ UNCHANGED <<device, entries, denied, phase, local, candidates, digests, matched, trouble>>

(* The stream cannot be opened, or the request is too long: an error of    *)
(* one command is an error of the comparison.                              *)
RunBatchFails ==
  /\ phase = "hash" /\ pc = "batch" /\ pc' = "failed"
  /\ UNCHANGED <<device, wire, link, stdout, stderr, exitCode, entries, denied, cvars>>

-----------------------------------------------------------------------------
(* The device (external): a file is hashed or complained about.            *)

Hash ==
  /\ phase = "hash" /\ toHash # <<>>
  /\ \/ Send(<<Out(Head(toHash), 1), Out(Head(toHash), 2)>>) /\ UNCHANGED trouble
     \/ Send(<<Complaint>>) /\ trouble' = TRUE
  /\ toHash' = Tail(toHash)
  /\ UNCHANGED <<device, program, phase, local, candidates, batches, digests, matched>>

HashExit ==
  /\ phase = "hash" /\ pc = "read" /\ toHash = <<>>
  /\ ~ \E k \in 1..Len(wire) : wire[k].id = "exit"
  /\ \E code \in {0, 1} : Send(<<Exit(code)>>)
  /\ UNCHANGED <<device, program, cvars>>

-----------------------------------------------------------------------------
(* parse_sha256sum and the comparison.                                     *)

Finished == {k \in 1..Len(stdout) : stdout[k].half = 2}
PathAt(k) == Spelled[stdout[k].of]

(* Of two lines for the same path the later one counts. *)
Lines == [path \in {PathAt(k) : k \in Finished} |->
            Content[stdout[Max({k \in Finished : PathAt(k) = path})].of]]

(* A last line that broke off is dropped, unless all that is missing is in *)
(* its path.                                                               *)
BrokenLines ==
  {<<>>} \union
  (IF CutShort THEN LET f == Last(stdout).of
                    IN  {[path \in {n} |-> Content[f]] : n \in {f} \union CutTo[f]}
   ELSE {})

Insert(map, new) == [path \in DOMAIN map \union DOMAIN new |->
                       IF path \in DOMAIN new THEN new[path] ELSE map[path]]

ParseFirstOnly ==           \* mutant: the batches after the first are not sent
  /\ phase = "hash" /\ pc = "judge"
  /\ \E broken \in BrokenLines : digests' = Insert(Insert(digests, Lines), broken)
  /\ pc' = "batch" /\ phase' = "compare" /\ trouble' = (trouble \/ exitCode = -1)
  /\ UNCHANGED <<device, wire, link, stdout, stderr, exitCode, entries, denied, local,
                 candidates, batches, toHash, matched>>

Parse ==
  /\ phase = "hash" /\ pc = "judge"
  /\ \E broken \in BrokenLines : digests' = Insert(Insert(digests, Lines), broken)
  /\ pc' = "batch" /\ phase' = IF Pending = <<>> THEN "compare" ELSE "hash"
  /\ trouble' = (trouble \/ exitCode = -1)
  /\ UNCHANGED <<device, wire, link, stdout, stderr, exitCode, entries, denied, local,
                 candidates, batches, toHash, matched>>

(* "A digest we could not obtain means `assume different'". *)
UnknownEqual(d, f) ==       \* mutant: a digest that is missing is not compared
  f \in DOMAIN digests => digests[f] = local[d][f]
SameDigest(d, f) == f \in DOMAIN digests /\ digests[f] = local[d][f]

(* The destinations in order; a copy that cannot be read has no digest.    *)
CompareNext ==
  LET d == Len(matched) IN
  /\ phase = "compare"
  /\ \E unreadable \in SUBSET (Present(d) \intersect ToSet(candidates)) :
       /\ matched' = Append(matched, {f \in ToSet(candidates) \intersect Present(d) :
                                        f \notin unreadable /\ SameDigest(d, f)})
       /\ trouble' = (trouble \/ unreadable # {})
  /\ phase' = IF d + 1 \in Dests THEN "compare" ELSE "done"
  /\ UNCHANGED <<vars, local, candidates, batches, toHash, digests>>

-----------------------------------------------------------------------------
Scanning == phase = "scan" /\ (DeviceStep \/ Judge) /\ UNCHANGED cvars
Reading == phase \in {"scan", "hash"} /\ (ReadPacket \/ ReadEnd) /\ UNCHANGED cvars
Losing == Lose /\ phase \in {"scan", "hash"} /\ pc = "read" /\ UNCHANGED cvars
Done == (pc = "failed" \/ phase = "done") /\ UNCHANGED allVars

CompareStep == Start \/ RunBatch \/ Parse \/ CompareNext
CNext == \/ Scanning \/ Reading \/ Losing \/ CompareStep \/ RunBatchFails
         \/ Hash \/ HashExit \/ Done

(* As in Scan: the device goes on, or the connection is lost. *)
CSpec ==
  /\ CInit /\ [][CNext]_allVars
  /\ WF_allVars(Scanning) /\ WF_allVars(Reading) /\ WF_allVars(CompareStep)
  /\ WF_allVars(Hash \/ HashExit)

-----------------------------------------------------------------------------
(* A path that the line of another file may be read as. *)
Misreadable(f) ==
  \E g \in ToSet(candidates) \ {f} : f = Spelled[g] \/ f \in CutTo[g]

(* "Never silently keeps a stale file" (compare_many): a copy that is      *)
(* taken for equal has the content that the device's file has, whatever    *)
(* failed in between, unless the line of another file can be read as the   *)
(* line of this one.                                                       *)
MatchedMeansEqual ==
  \A k \in 1..Len(matched) : \A f \in matched[k] :
    local[k - 1][f] = Content[f] \/ Misreadable(f)

(* And a failure is the only reason for a file to be read again: when all  *)
(* was hashed, exactly the equal files match, at every destination and     *)
(* however they were spread over the commands.                             *)
EqualIsMatched ==
  phase = "done" /\ ~trouble =>
    \A k \in 1..Len(matched) : \A f \in ToSet(candidates) :
      Misreadable(f) \/ Spelled[f] # f
      \/ (f \in matched[k] <=> local[k - 1][f] = Content[f])

(* "Keep each batched command well under any plausible ARG_MAX": a command *)
(* of more than one path is estimated within the bound; and whatever the   *)
(* estimate leaves out for quoting, no command is refused for its length.  *)
CommandsBounded ==
  /\ \A k \in 1..Len(batches) :
       Len(batches[k]) > 1 => SumOver(QuotedLen, batches[k]) <= MaxCommand
  /\ phase = "hash" /\ pc = "batch" => RequestLen(BatchOf(Pending)) <= MaxRequest

(* The scan and the comparison come to an end. *)
ComparisonEnds == <>(pc = "failed" \/ phase = "done")

==============================================================================
