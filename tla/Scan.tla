-------------------------------- MODULE Scan --------------------------------
(***************************************************************************)
(* The walk of the device tree: scan_remote (scan.rs) over shell::run      *)
(* (shell.rs).  One command prints the root and then one record per entry  *)
(* on stdout, complaints on stderr, and exits; adbd frames both outputs    *)
(* and the exit code as packets of one stream, cutting stdout anywhere,    *)
(* and taking the two outputs in any order.                                *)
(*                                                                         *)
(* Code outside the repository: the find of the device, which may stop     *)
(* partway and still exit 0 but then says so on stderr, or be killed in    *)
(* the middle of a record without a word; and adbd, which sends the exit   *)
(* code last.  The stream may be lost at any moment.                       *)
(***************************************************************************)
EXTENDS Integers, Sequences, FiniteSets, SequencesExt

CONSTANTS
  Entries,   \* what the walk lists, all readable directories included
  Lockable,  \* the directories the device may refuse to read, a subset
  Root       \* the record with the resolved root, printed first

ASSUME ScanAssumption ==
  IsFiniteSet(Entries) /\ Lockable \subseteq Entries /\ Root \notin Entries

VARIABLES
  locked,    \* the directories the device refuses to read
  walk,      \* the device: "root", "listing", "failed" or "exited"
  toList,    \* entries still to be listed
  toDeny,    \* locked directories still to be complained about
  wire,      \* packets in flight
  link,      \* "up", or how the stream ended: "closed", "cut"
  pc,        \* the program: "read", "judge", or the result; "batch" in Checksum
  stdout, stderr, exitCode,    \* ShellOutput
  entries, denied              \* RemoteScan
vars == <<locked, walk, toList, toDeny, wire, link, pc, stdout, stderr, exitCode,
          entries, denied>>

device  == <<locked, walk, toList, toDeny>>
program == <<pc, stdout, stderr, exitCode, entries, denied>>

(* A record is two pieces, so that a packet boundary can fall inside it. *)
Out(e, half) == [id |-> "stdout", of |-> e, half |-> half]
Denial(e)    == [id |-> "stderr", line |-> e]
Complaint    == [id |-> "stderr", line |-> "other"]
Exit(code)   == [id |-> "exit", code |-> code]
Ignored      == [id |-> "unknown"]

Init ==
  /\ locked \in SUBSET Lockable
  /\ walk = "root" /\ toList = Entries /\ toDeny = locked
  /\ wire = <<>> /\ link = "up"
  /\ pc = "read" /\ stdout = <<>> /\ stderr = <<>>
  /\ exitCode = -1
  /\ entries = {} /\ denied = {}

-----------------------------------------------------------------------------
(* The device runs the command of walk_command; how its find goes on and   *)
(* what adbd sends is external.                                            *)

Send(packets) == link = "up" /\ wire' = wire \o packets /\ UNCHANGED link

PrintRoot ==
  /\ walk = "root" /\ walk' = "listing"
  /\ Send(<<Out(Root, 1), Out(Root, 2)>>)
  /\ UNCHANGED <<locked, toList, toDeny, program>>

(* readlink found nothing: the command says so and exits with status 2. *)
NoSuchPath ==
  /\ walk = "root" /\ walk' = "exited"
  /\ Send(<<Complaint, Exit(2)>>)
  /\ UNCHANGED <<locked, toList, toDeny, program>>

List ==
  /\ walk = "listing"
  /\ \E e \in toList :
       /\ Send(<<Out(e, 1), Out(e, 2)>>)
       /\ toList' = toList \ {e}
  /\ UNCHANGED <<locked, walk, toDeny, program>>

Deny ==
  /\ walk = "listing"
  /\ \E e \in toDeny :
       /\ Send(<<Denial(e)>>)
       /\ toDeny' = toDeny \ {e}
  /\ UNCHANGED <<locked, walk, toList, program>>

(* The walk breaks off with a complaint, and exits with any status. *)
BreakOff ==
  /\ walk = "listing" /\ walk' = "failed"
  /\ Send(<<Complaint>>)
  /\ UNCHANGED <<locked, toList, toDeny, program>>

(* The find is killed; sh exits with 128 and the number of the signal.      *)
Signalled == 137
Killed ==
  /\ walk = "listing" /\ walk' = "exited"
  /\ \E rest \in {<<>>} \union {<<Out(e, 1)>> : e \in toList} :
       Send(rest \o <<Exit(Signalled)>>)
  /\ UNCHANGED <<locked, toList, toDeny, program>>

Finish ==
  /\ \/ walk = "listing" /\ toList = {} /\ toDeny = {}
     \/ walk = "failed"
  /\ \E code \in IF walk = "failed" THEN {0, 1} ELSE {IF locked = {} THEN 0 ELSE 1} :
       Send(<<Ignored, Exit(code)>>)
  /\ walk' = "exited"
  /\ UNCHANGED <<locked, toList, toDeny, program>>

(* The stream ends between two packets, or inside one: what was in flight  *)
(* arrives up to that point.                                               *)
Lose ==
  /\ link = "up"
  /\ \E how \in {"closed", "cut"}, n \in 0..Len(wire) :
       link' = how /\ wire' = SubSeq(wire, 1, n)
  /\ UNCHANGED <<device, program>>

-----------------------------------------------------------------------------
(* shell::run: packets until the exit code or the end of the stream.       *)

ReadPacket ==
  /\ pc = "read" /\ wire # <<>>
  /\ LET p == Head(wire) IN
       /\ stdout' = IF p.id = "stdout" THEN Append(stdout, p) ELSE stdout
       /\ stderr' = IF p.id = "stderr" THEN Append(stderr, p.line) ELSE stderr
       /\ exitCode' = IF p.id = "exit" THEN p.code ELSE exitCode
       /\ pc' = IF p.id = "exit" THEN "judge" ELSE "read"
  /\ wire' = Tail(wire)
  /\ UNCHANGED <<link, device, entries, denied>>

ReadEndSpins ==             \* mutant: the end of the stream does not end it
  /\ pc = "read" /\ wire = <<>> /\ link # "up"
  /\ pc' = IF link = "closed" THEN "read" ELSE "failed"
  /\ UNCHANGED <<wire, link, device, stdout, stderr, exitCode, entries, denied>>

(* "adbd closes the socket after the exit packet": an end between packets  *)
(* is taken for the end of the output; one inside a packet is an error.    *)
ReadEnd ==
  /\ pc = "read" /\ wire = <<>> /\ link # "up"
  /\ pc' = IF link = "closed" THEN "judge" ELSE "failed"
  /\ UNCHANGED <<wire, link, device, stdout, stderr, exitCode, entries, denied>>

-----------------------------------------------------------------------------
(* scan_remote: what the output is worth.                                  *)

Complained == \E k \in 1..Len(stderr) : stderr[k] = "other"
DeniedLines == {stderr[k] : k \in 1..Len(stderr)} \ {"other"}

BadExit == exitCode # 0 /\ DeniedLines = {}

ComplaintsIgnored == BadExit \* mutant: only the exit code decides
Refused == Complained \/ BadExit

(* The records whose two pieces arrived; a last one of which only the      *)
(* first did has its path cut short, or cannot be parsed at all.           *)
Whole == {stdout[k].of : k \in {k \in 1..Len(stdout) : stdout[k].half = 2}}
Records == Whole \ {Root}
CutShort == stdout # <<>> /\ Last(stdout).half = 1

Judge ==
  /\ pc = "judge"
  /\ \/ /\ Refused \/ stdout = <<>> \/ CutShort
        /\ pc' = "failed" /\ UNCHANGED <<entries, denied>>
     \/ /\ ~Refused /\ stdout # <<>>
        /\ pc' = "accepted"
        /\ entries' = Records \union
                      (IF CutShort /\ Len(stdout) > 2 THEN {"stump"} ELSE {})
        /\ denied' = DeniedLines
  /\ UNCHANGED <<wire, link, device, stdout, stderr, exitCode>>

-----------------------------------------------------------------------------
DeviceStep == PrintRoot \/ NoSuchPath \/ List \/ Deny \/ BreakOff \/ Killed \/ Finish
ProgramStep == ReadPacket \/ ReadEnd \/ Judge
Over == pc \in {"failed", "accepted"} /\ UNCHANGED vars

Next == DeviceStep \/ Lose \/ ProgramStep \/ Over

(* The device goes on or the stream is lost: an assumption, the reads have *)
(* no timeout.                                                             *)
Fairness == WF_vars(ProgramStep) /\ WF_vars(DeviceStep)

Spec == Init /\ [][Next]_vars /\ Fairness

-----------------------------------------------------------------------------
(* "Anything else means the walk may be truncated" (scan_remote): what is  *)
(* accepted is the tree, and names every directory that could not be read. *)
(* The exception is a stream lost before the exit code, or a find that was *)
(* killed, when a denial hides that the exit code never came, or why it is *)
(* not 0.                                                                  *)
AcceptedIsComplete ==
  pc = "accepted" /\ (exitCode \notin {-1, Signalled} \/ denied = {}) =>
    entries = Entries /\ denied = locked

(* "A truncated walk would look exactly like a smaller tree.  Refuse to    *)
(* guess." (scan_remote): whatever is accepted is the whole tree.          *)
NeverSmallerTree == pc = "accepted" => entries = Entries /\ denied = locked

=============================================================================
