------------------------------ MODULE ScanProof ------------------------------
(***************************************************************************)
(* Proofs about Scan and Checksum.  A walk that is accepted although the   *)
(* stream may be cut anywhere, the find may stop anywhere and directories  *)
(* are locked, is the whole tree, the one exception aside that             *)
(* AcceptedIsComplete names.  And a copy that the comparison takes for     *)
(* equal is equal, whatever is lost of the commands that hash the files.   *)
(***************************************************************************)
EXTENDS Checksum, FoldLemmas

USE DEF Signalled

Packets ==
  [id : {"stdout"}, of : Entries \union {Root}, half : {1, 2}]
  \union [id : {"stderr"}, line : Entries \union {"other"}]
  \union [id : {"exit"}, code : {0, 1, 2, Signalled}]
  \union [id : {"unknown"}]
Pieces == [id : {"stdout"}, of : Entries \union {Root}, half : {1, 2}]

(* What the device sent is about its tree.                                 *)
Types ==
  /\ locked \in SUBSET Lockable /\ toList \in SUBSET Entries /\ toDeny \in SUBSET locked
  /\ walk \in {"root", "listing", "failed", "exited"}
  /\ wire \in Seq(Packets) /\ link \in {"up", "closed", "cut"}
  /\ pc \in {"read", "judge", "failed", "accepted", "batch"}
  /\ stdout \in Seq(Pieces) /\ stderr \in Seq(Entries \union {"other"})
  /\ \A k \in 1..Len(wire) : wire[k].id = "stderr" => wire[k].line \in locked \union {"other"}
  /\ \A k \in 1..Len(stderr) : stderr[k] \in locked \union {"other"}
  /\ exitCode \in {-1, 0, 1, 2, Signalled}

InWire(p) == \E k \in 1..Len(wire) : wire[k] = p
Listed(e) == InWire(Out(e, 2)) \/ e \in Whole
Said(l)   == InWire(Denial(l)) \/ \E k \in 1..Len(stderr) : stderr[k] = l

(* The exit code is the last thing the device sends, and the last that is  *)
(* read.                                                                   *)
Exiting == \E k \in 1..Len(wire) : wire[k].id = "exit"
ExitLast ==
  /\ \A k \in 1..Len(wire) : wire[k].id = "exit" => k = Len(wire)
  /\ Exiting => walk = "exited"
  /\ exitCode # -1 => wire = <<>> /\ walk = "exited" /\ pc # "read"

(* As long as nothing is lost, what the walk has done shows in what        *)
(* arrived or is under way: the entries, the denials, that it broke off;   *)
(* and, unless the find was killed, only the second piece of a record ends *)
(* a run of records.                                                       *)
Intact == link = "up" \/ Exiting \/ exitCode # -1
WasKilled == InWire(Exit(Signalled)) \/ exitCode = Signalled
Shown ==
  /\ \A e \in Entries \ toList : Listed(e)
  /\ \A l \in locked \ toDeny : Said(l)
  /\ walk = "root" => toList = Entries /\ toDeny = locked
  /\ walk = "failed" => Said("other")
  /\ walk = "exited" => Said("other") \/ (toList = {} /\ toDeny = {}) \/ WasKilled
Paired ==
  /\ \A k \in 1..Len(wire) : wire[k].id = "stdout" /\ wire[k].half = 1 =>
       k + 1 \in 1..Len(wire) /\ wire[k + 1].id = "stdout" /\ wire[k + 1].half = 2
  /\ CutShort => wire # <<>> /\ wire[1].id = "stdout" /\ wire[1].half = 2

ScanInv == Types /\ ExitLast /\ (Intact => Shown /\ (WasKilled \/ Paired))
           /\ AcceptedIsComplete

-----------------------------------------------------------------------------
(* The packets.                                                            *)
LEMMA PacketTypes ==
  /\ \A e \in Entries \union {Root}, h \in {1, 2} :
       /\ Out(e, h) \in Packets /\ Out(e, h) \in Pieces
       /\ Out(e, h).id = "stdout" /\ Out(e, h).of = e /\ Out(e, h).half = h
  /\ \A l \in Entries \union {"other"} :
       Denial(l) \in Packets /\ Denial(l).id = "stderr" /\ Denial(l).line = l
  /\ Complaint = Denial("other")
  /\ \A c \in {0, 1, 2, Signalled} : Exit(c) \in Packets /\ Exit(c).id = "exit" /\ Exit(c).code = c
  /\ Ignored \in Packets /\ Ignored.id = "unknown"
<1>1. \A e \in Entries \union {Root}, h \in {1, 2} :
       /\ Out(e, h) \in Packets /\ Out(e, h) \in Pieces
       /\ Out(e, h).id = "stdout" /\ Out(e, h).of = e /\ Out(e, h).half = h
  BY DEF Out, Packets, Pieces
<1>2. \A l \in Entries \union {"other"} :
       Denial(l) \in Packets /\ Denial(l).id = "stderr" /\ Denial(l).line = l
  BY DEF Denial, Packets
<1>3. \A c \in {0, 1, 2, Signalled} : Exit(c) \in Packets /\ Exit(c).id = "exit" /\ Exit(c).code = c
  BY DEF Exit, Packets
<1>4. Ignored \in Packets /\ Ignored.id = "unknown"
  BY DEF Ignored, Packets
<1>5. Complaint = Denial("other")
  BY DEF Complaint, Denial
<1> QED
  BY <1>1, <1>2, <1>3, <1>4, <1>5

(* A packet is what its id says.                                           *)
LEMMA PacketParts ==
  ASSUME NEW p \in Packets
  PROVE  /\ p.id \in {"stdout", "stderr", "exit", "unknown"}
         /\ p.id = "stdout" => p \in Pieces /\ p = Out(p.of, p.half)
         /\ p.id = "stderr" => p = Denial(p.line) /\ p.line \in Entries \union {"other"}
         /\ p.id = "exit" => p.code \in {0, 1, 2, Signalled}
<1>1. CASE p \in [id : {"stdout"}, of : Entries \union {Root}, half : {1, 2}]
  BY <1>1 DEF Pieces, Out
<1>2. CASE p \in [id : {"stderr"}, line : Entries \union {"other"}]
  BY <1>2 DEF Denial
<1>3. CASE p \in [id : {"exit"}, code : {0, 1, 2, Signalled}]
  BY <1>3
<1>4. CASE p \in [id : {"unknown"}]
  BY <1>4
<1> QED
  BY <1>1, <1>2, <1>3, <1>4 DEF Packets

(* What is sent comes after what is under way.                             *)
LEMMA Sent ==
  ASSUME NEW s \in Seq(Packets), wire \in Seq(Packets), wire' = wire \o s
  PROVE  /\ wire' \in Seq(Packets)
         /\ Len(wire) \in Nat /\ Len(s) \in Nat /\ Len(wire') = Len(wire) + Len(s)
         /\ \A k \in 1..Len(wire) : wire'[k] = wire[k]
         /\ \A j \in 1..Len(s) : wire'[Len(wire) + j] = s[j]
         /\ \A k \in 1..Len(wire') : \/ k \in 1..Len(wire) /\ wire'[k] = wire[k]
                                     \/ \E j \in 1..Len(s) : k = Len(wire) + j /\ wire'[k] = s[j]
         /\ \A p : InWire(p) => InWire(p)'
         /\ \A j \in 1..Len(s) : \A p : p = s[j] => InWire(p)'
<1>1. /\ wire' \in Seq(Packets)
      /\ Len(wire) \in Nat /\ Len(s) \in Nat /\ Len(wire') = Len(wire) + Len(s)
  BY ConcatProperties, LenProperties
<1>2. /\ \A k \in 1..Len(wire) : wire'[k] = wire[k]
      /\ \A j \in 1..Len(s) : wire'[Len(wire) + j] = s[j]
  BY <1>1, ConcatProperties
<1>3. \A k \in 1..Len(wire') : \/ k \in 1..Len(wire) /\ wire'[k] = wire[k]
                               \/ \E j \in 1..Len(s) : k = Len(wire) + j /\ wire'[k] = s[j]
  <2> SUFFICES ASSUME NEW k \in 1..Len(wire'), k \notin 1..Len(wire)
               PROVE  \E j \in 1..Len(s) : k = Len(wire) + j /\ wire'[k] = s[j]
    BY <1>2
  <2>1. k - Len(wire) \in 1..Len(s) /\ k = Len(wire) + (k - Len(wire))
    BY <1>1
  <2> QED
    BY <1>2, <2>1
<1>4. \A p : InWire(p) => InWire(p)'
  BY <1>1, <1>2 DEF InWire
<1>5. \A j \in 1..Len(s) : \A p : p = s[j] => InWire(p)'
  <2> SUFFICES ASSUME NEW j \in 1..Len(s)
               PROVE  \E k \in 1..Len(wire') : wire'[k] = s[j]
    BY DEF InWire
  <2>1. Len(wire) + j \in 1..Len(wire')
    BY <1>1
  <2> QED
    BY <1>2, <2>1
<1> QED
  BY <1>1, <1>2, <1>3, <1>4, <1>5

(* What is read was the first.                                             *)
LEMMA Received ==
  ASSUME wire \in Seq(Packets), wire # <<>>, wire' = Tail(wire)
  PROVE  /\ wire' \in Seq(Packets) /\ Head(wire) = wire[1] /\ wire[1] \in Packets
         /\ Len(wire) \in Nat \ {0} /\ Len(wire') = Len(wire) - 1
         /\ \A k \in 1..Len(wire') : k + 1 \in 1..Len(wire) /\ wire'[k] = wire[k + 1]
         /\ \A p : InWire(p) => p = wire[1] \/ InWire(p)'
<1>1. /\ wire' \in Seq(Packets) /\ Head(wire) = wire[1] /\ wire[1] \in Packets
      /\ Len(wire) \in Nat \ {0} /\ Len(wire') = Len(wire) - 1
      /\ \A k \in 1..Len(wire') : wire'[k] = wire[k + 1]
  BY HeadTailProperties, EmptySeq
<1>2. \A k \in 1..Len(wire') : k + 1 \in 1..Len(wire)
  BY <1>1
<1>3. ASSUME NEW k \in 1..Len(wire), k # 1
      PROVE  k - 1 \in 1..Len(wire') /\ wire[k] = wire'[k - 1]
  BY <1>1, <1>3
<1> QED
  BY <1>1, <1>2, <1>3 DEF InWire

(* What is sent in pairs.                                                  *)
PairedUp(s) ==
  \A j \in 1..Len(s) : s[j].id = "stdout" /\ s[j].half = 1 =>
    j + 1 \in 1..Len(s) /\ s[j + 1].id = "stdout" /\ s[j + 1].half = 2

(* What any sending keeps.                                                 *)
LEMMA SendKeeps ==
  ASSUME ScanInv, walk # "exited", NEW s \in Seq(Packets), Send(s),
         locked' = locked, UNCHANGED program,
         \A j \in 1..Len(s) : s[j].id = "exit" => j = Len(s) /\ walk' = "exited",
         \A j \in 1..Len(s) : s[j].id = "stderr" => s[j].line \in locked \union {"other"}
  PROVE  /\ wire' \in Seq(Packets) /\ link' = "up"
         /\ \A k \in 1..Len(wire') : wire'[k].id = "stderr" => wire'[k].line \in locked' \union {"other"}
         /\ ExitLast' /\ Shown /\ (PairedUp(s) => Paired')
         /\ \A e : Listed(e) => Listed(e)'
         /\ \A l : Said(l) => Said(l)'
         /\ \A j \in 1..Len(s) : \A p : p = s[j] => InWire(p)'
<1> USE DEF program
<1>1. /\ Types /\ ExitLast /\ ~Exiting /\ exitCode = -1 /\ link = "up" /\ link' = "up"
      /\ wire' = wire \o s
  BY DEF ScanInv, ExitLast, Send
<1>2. Shown /\ Paired
  <2>1. ~WasKilled
    BY <1>1, PacketTypes DEF WasKilled, InWire, Exiting
  <2> QED
    BY <1>1, <2>1 DEF ScanInv, Intact
<1>3. /\ wire \in Seq(Packets)
      /\ \A k \in 1..Len(wire) : wire[k].id = "stderr" => wire[k].line \in locked \union {"other"}
  BY <1>1 DEF Types
<1>4. /\ wire' \in Seq(Packets)
      /\ Len(wire) \in Nat /\ Len(s) \in Nat /\ Len(wire') = Len(wire) + Len(s)
      /\ \A k \in 1..Len(wire) : wire'[k] = wire[k]
      /\ \A j \in 1..Len(s) : wire'[Len(wire) + j] = s[j]
      /\ \A k \in 1..Len(wire') : \/ k \in 1..Len(wire) /\ wire'[k] = wire[k]
                                  \/ \E j \in 1..Len(s) : k = Len(wire) + j /\ wire'[k] = s[j]
  BY <1>1, <1>3, Sent
<1>5. /\ \A p : InWire(p) => InWire(p)'
      /\ \A j \in 1..Len(s) : \A p : p = s[j] => InWire(p)'
  BY <1>1, <1>3, Sent
<1>6. /\ \A e : Listed(e) => Listed(e)'
      /\ \A l : Said(l) => Said(l)'
  BY <1>5 DEF Listed, Said, Whole
<1>7. \A k \in 1..Len(wire') : wire'[k].id = "stderr" => wire'[k].line \in locked' \union {"other"}
  <2> SUFFICES ASSUME NEW k \in 1..Len(wire'), wire'[k].id = "stderr"
               PROVE  wire'[k].line \in locked \union {"other"}
    OBVIOUS
  <2>1. CASE k \in 1..Len(wire) /\ wire'[k] = wire[k]
    BY <1>3, <2>1
  <2>2. ASSUME NEW j \in 1..Len(s), wire'[k] = s[j] PROVE wire'[k].line \in locked \union {"other"}
    BY <2>2
  <2> QED
    BY <1>4, <2>1, <2>2
<1>8. ExitLast'
  <2>1. ASSUME NEW k \in 1..Len(wire'), wire'[k].id = "exit"
        PROVE  k = Len(wire') /\ walk' = "exited"
    BY <1>1, <1>4, <2>1 DEF Exiting
  <2> QED
    BY <1>1, <2>1 DEF ExitLast, Exiting
<1>9. ASSUME PairedUp(s) PROVE Paired'
  <2>1. ASSUME NEW k \in 1..Len(wire'), wire'[k].id = "stdout", wire'[k].half = 1
        PROVE  k + 1 \in 1..Len(wire') /\ wire'[k + 1].id = "stdout" /\ wire'[k + 1].half = 2
    <3>1. CASE k \in 1..Len(wire)
      <4>1. k + 1 \in 1..Len(wire) /\ wire[k + 1].id = "stdout" /\ wire[k + 1].half = 2
        BY <1>2, <1>4, <2>1, <3>1 DEF Paired
      <4> QED
        BY <1>4, <4>1
    <3>2. ASSUME NEW j \in 1..Len(s), k = Len(wire) + j, wire'[k] = s[j]
          PROVE  k + 1 \in 1..Len(wire') /\ wire'[k + 1].id = "stdout" /\ wire'[k + 1].half = 2
      <4>1. j + 1 \in 1..Len(s) /\ s[j + 1].id = "stdout" /\ s[j + 1].half = 2
        BY <1>9, <2>1, <3>2 DEF PairedUp
      <4>2. k + 1 = Len(wire) + (j + 1) /\ k + 1 \in 1..Len(wire')
        BY <1>4, <3>2, <4>1
      <4> QED
        BY <1>4, <4>1, <4>2
    <3> QED
      BY <1>4, <3>1, <3>2
  <2>2. CutShort' => wire' # <<>> /\ wire'[1].id = "stdout" /\ wire'[1].half = 2
    <3> SUFFICES ASSUME CutShort'
                 PROVE  wire' # <<>> /\ wire'[1].id = "stdout" /\ wire'[1].half = 2
      OBVIOUS
    <3>1. wire # <<>> /\ wire[1].id = "stdout" /\ wire[1].half = 2
      BY <1>2 DEF Paired, CutShort
    <3>2. 1 \in 1..Len(wire)
      BY <1>3, <3>1, EmptySeq
    <3>3. wire'[1] = wire[1] /\ Len(wire') # 0
      BY <1>4, <3>2
    <3> QED
      BY <3>1, <3>3, EmptySeq
  <2> QED
    BY <2>1, <2>2 DEF Paired
<1> QED
  BY <1>1, <1>2, <1>4, <1>5, <1>6, <1>7, <1>8, <1>9

(* A walk that was accepted stays as it was.                               *)
LEMMA AcceptedStays ==
  ASSUME AcceptedIsComplete, locked' = locked, UNCHANGED program
  PROVE  AcceptedIsComplete'
  BY DEF AcceptedIsComplete, program

(* Before the command nothing was sent.                                    *)
LEMMA InitScan == Init => ScanInv
<1> SUFFICES ASSUME Init PROVE ScanInv
  OBVIOUS
<1>1. wire = <<>> /\ Len(wire) = 0 /\ stderr = <<>> /\ Len(stderr) = 0 /\ stdout = <<>>
  BY EmptySeq DEF Init
<1>2. Types
  BY <1>1, ScanAssumption, EmptySeq DEF Init, Types
<1>3. ExitLast /\ Shown /\ Paired
  BY <1>1 DEF Init, ExitLast, Exiting, Shown, Paired, CutShort
<1> QED
  BY <1>2, <1>3 DEF Init, ScanInv, AcceptedIsComplete

(* Every step of the device keeps the invariant.                           *)
LEMMA DeviceKeeps ==
  ASSUME ScanInv, DeviceStep
  PROVE  ScanInv'
<1>t. /\ Types /\ AcceptedIsComplete
      /\ locked \in SUBSET Entries
  BY ScanAssumption DEF ScanInv, Types
<1> USE PacketTypes
<1>1. CASE PrintRoot
  <2>1. UNCHANGED <<locked, toList, toDeny, program>> /\ walk = "root" /\ walk' = "listing"
    BY <1>1 DEF PrintRoot
  <2> DEFINE s == <<Out(Root, 1), Out(Root, 2)>>
  <2>2. s \in Seq(Packets) /\ Len(s) = 2 /\ s[1] = Out(Root, 1) /\ s[2] = Out(Root, 2) /\ Send(s)
    BY <1>1 DEF PrintRoot
  <2> HIDE DEF s
  <2>3. \A j \in 1..Len(s) : j = 1 \/ j = 2
    BY <2>2
  <2>4. /\ \A j \in 1..Len(s) : s[j].id = "stdout"
        /\ \A j \in 1..Len(s) : s[j].half = 1 => j + 1 \in 1..Len(s) /\ s[j + 1].half = 2
    BY <2>2, <2>3
  <2>5. /\ wire' \in Seq(Packets) /\ link' = "up" /\ ExitLast' /\ Paired' /\ Shown
        /\ \A k \in 1..Len(wire') : wire'[k].id = "stderr" => wire'[k].line \in locked' \union {"other"}
        /\ \A e : Listed(e) => Listed(e)'
        /\ \A l : Said(l) => Said(l)'
    BY <2>1, <2>2, <2>4, SendKeeps DEF PairedUp
  <2>6. Types'
    BY <1>t, <2>1, <2>5 DEF Types, program
  <2>7. Shown'
    BY <2>1, <2>5 DEF Shown
  <2> QED
    BY <1>t, <2>1, <2>5, <2>6, <2>7, AcceptedStays DEF ScanInv
<1>2. CASE NoSuchPath
  <2>1. UNCHANGED <<locked, toList, toDeny, program>> /\ walk = "root" /\ walk' = "exited"
    BY <1>2 DEF NoSuchPath
  <2> DEFINE s == <<Complaint, Exit(2)>>
  <2>2. s \in Seq(Packets) /\ Len(s) = 2 /\ s[1] = Denial("other") /\ s[2] = Exit(2) /\ Send(s)
    BY <1>2 DEF NoSuchPath
  <2> HIDE DEF s
  <2>3. \A j \in 1..Len(s) : j = 1 \/ j = 2
    BY <2>2
  <2>4. /\ \A j \in 1..Len(s) : s[j].id # "stdout"
        /\ \A j \in 1..Len(s) : s[j].id = "exit" => j = Len(s)
        /\ \A j \in 1..Len(s) : s[j].id = "stderr" => s[j].line = "other"
    BY <2>2, <2>3
  <2>5. /\ wire' \in Seq(Packets) /\ link' = "up" /\ ExitLast' /\ Paired' /\ Shown
        /\ \A k \in 1..Len(wire') : wire'[k].id = "stderr" => wire'[k].line \in locked' \union {"other"}
        /\ \A e : Listed(e) => Listed(e)'
        /\ \A l : Said(l) => Said(l)'
        /\ \A j \in 1..Len(s) : \A p : p = s[j] => InWire(p)'
    BY <2>1, <2>2, <2>4, SendKeeps DEF PairedUp
  <2>6. Types'
    BY <1>t, <2>1, <2>5 DEF Types, program
  <2>7. Shown'
    BY <2>1, <2>2, <2>5 DEF Shown, Said
  <2> QED
    BY <1>t, <2>1, <2>5, <2>6, <2>7, AcceptedStays DEF ScanInv
<1>3. CASE List
  <2>1. PICK e \in toList : Send(<<Out(e, 1), Out(e, 2)>>) /\ toList' = toList \ {e}
    BY <1>3 DEF List
  <2>2. UNCHANGED <<locked, walk, toDeny, program>> /\ walk = "listing" /\ e \in Entries
    BY <1>3, <1>t DEF List, Types
  <2> DEFINE s == <<Out(e, 1), Out(e, 2)>>
  <2>3. s \in Seq(Packets) /\ Len(s) = 2 /\ s[1] = Out(e, 1) /\ s[2] = Out(e, 2) /\ Send(s)
    BY <2>1, <2>2
  <2> HIDE DEF s
  <2>4. \A j \in 1..Len(s) : j = 1 \/ j = 2
    BY <2>3
  <2>5. /\ \A j \in 1..Len(s) : s[j].id = "stdout"
        /\ \A j \in 1..Len(s) : s[j].half = 1 => j + 1 \in 1..Len(s) /\ s[j + 1].half = 2
    BY <2>2, <2>3, <2>4
  <2>6. /\ wire' \in Seq(Packets) /\ link' = "up" /\ ExitLast' /\ Paired' /\ Shown
        /\ \A k \in 1..Len(wire') : wire'[k].id = "stderr" => wire'[k].line \in locked' \union {"other"}
        /\ \A d : Listed(d) => Listed(d)'
        /\ \A l : Said(l) => Said(l)'
        /\ \A j \in 1..Len(s) : \A p : p = s[j] => InWire(p)'
    BY <2>2, <2>3, <2>5, SendKeeps DEF PairedUp
  <2>7. Types'
    BY <1>t, <2>1, <2>2, <2>6 DEF Types, program
  <2>8. Listed(e)'
    BY <2>3, <2>6 DEF Listed
  <2>9. Shown'
    BY <2>1, <2>2, <2>6, <2>8 DEF Shown
  <2> QED
    BY <1>t, <2>2, <2>6, <2>7, <2>9, AcceptedStays DEF ScanInv
<1>4. CASE Deny
  <2>1. PICK e \in toDeny : Send(<<Denial(e)>>) /\ toDeny' = toDeny \ {e}
    BY <1>4 DEF Deny
  <2>2. /\ UNCHANGED <<locked, walk, toList, program>> /\ walk = "listing"
        /\ e \in Entries /\ e \in locked
    BY <1>4, <1>t DEF Deny, Types
  <2> DEFINE s == <<Denial(e)>>
  <2>3. s \in Seq(Packets) /\ Len(s) = 1 /\ s[1] = Denial(e) /\ Send(s)
    BY <2>1, <2>2
  <2> HIDE DEF s
  <2>4. \A j \in 1..Len(s) : j = 1
    BY <2>3
  <2>5. \A j \in 1..Len(s) : s[j].id = "stderr" /\ s[j].line \in locked
    BY <2>2, <2>3, <2>4
  <2>6. /\ wire' \in Seq(Packets) /\ link' = "up" /\ ExitLast' /\ Paired' /\ Shown
        /\ \A k \in 1..Len(wire') : wire'[k].id = "stderr" => wire'[k].line \in locked' \union {"other"}
        /\ \A d : Listed(d) => Listed(d)'
        /\ \A l : Said(l) => Said(l)'
        /\ \A j \in 1..Len(s) : \A p : p = s[j] => InWire(p)'
    BY <2>2, <2>3, <2>5, SendKeeps DEF PairedUp
  <2>7. Types'
    BY <1>t, <2>1, <2>2, <2>6 DEF Types, program
  <2>8. Said(e)'
    BY <2>3, <2>6 DEF Said
  <2>9. Shown'
    BY <2>1, <2>2, <2>6, <2>8 DEF Shown
  <2> QED
    BY <1>t, <2>2, <2>6, <2>7, <2>9, AcceptedStays DEF ScanInv
<1>5. CASE BreakOff
  <2>1. UNCHANGED <<locked, toList, toDeny, program>> /\ walk = "listing" /\ walk' = "failed"
    BY <1>5 DEF BreakOff
  <2> DEFINE s == <<Complaint>>
  <2>2. s \in Seq(Packets) /\ Len(s) = 1 /\ s[1] = Denial("other") /\ Send(s)
    BY <1>5 DEF BreakOff
  <2> HIDE DEF s
  <2>3. \A j \in 1..Len(s) : j = 1
    BY <2>2
  <2>4. \A j \in 1..Len(s) : s[j].id = "stderr" /\ s[j].line = "other"
    BY <2>2, <2>3
  <2>5. /\ wire' \in Seq(Packets) /\ link' = "up" /\ ExitLast' /\ Paired' /\ Shown
        /\ \A k \in 1..Len(wire') : wire'[k].id = "stderr" => wire'[k].line \in locked' \union {"other"}
        /\ \A e : Listed(e) => Listed(e)'
        /\ \A l : Said(l) => Said(l)'
        /\ \A j \in 1..Len(s) : \A p : p = s[j] => InWire(p)'
    BY <2>1, <2>2, <2>4, SendKeeps DEF PairedUp
  <2>6. Types'
    BY <1>t, <2>1, <2>5 DEF Types, program
  <2>7. Shown'
    BY <2>1, <2>2, <2>5 DEF Shown, Said
  <2> QED
    BY <1>t, <2>1, <2>5, <2>6, <2>7, AcceptedStays DEF ScanInv
<1>k. CASE Killed
  <2>1. UNCHANGED <<locked, toList, toDeny, program>> /\ walk = "listing" /\ walk' = "exited"
    BY <1>k DEF Killed
  <2>2. PICK rest \in {<<>>} \union {<<Out(e, 1)>> : e \in toList} :
               Send(rest \o <<Exit(Signalled)>>)
    BY <1>k DEF Killed
  <2> DEFINE s == rest \o <<Exit(Signalled)>>
  <2>3. /\ rest \in Seq(Packets)
        /\ \A j \in 1..Len(rest) : rest[j].id = "stdout"
    <3>1. CASE rest = <<>>
      BY <3>1, EmptySeq
    <3>2. ASSUME NEW e \in toList, rest = <<Out(e, 1)>>
          PROVE  rest \in Seq(Packets) /\ \A j \in 1..Len(rest) : rest[j].id = "stdout"
      <4>1. e \in Entries
        BY <1>t DEF Types
      <4> QED
        BY <3>2, <4>1
    <3> QED
      BY <2>2, <3>1, <3>2
  <2>4. /\ s \in Seq(Packets) /\ Len(rest) \in Nat /\ Len(s) = Len(rest) + 1 /\ Send(s)
        /\ \A j \in 1..Len(rest) : s[j] = rest[j]
        /\ s[Len(s)] = Exit(Signalled) /\ Len(s) \in 1..Len(s)
    <3>1. <<Exit(Signalled)>> \in Seq(Packets) /\ Len(<<Exit(Signalled)>>) = 1
      OBVIOUS
    <3> QED
      BY <2>2, <2>3, <3>1, ConcatProperties, LenProperties
  <2> HIDE DEF s
  <2>5. \A j \in 1..Len(s) : s[j].id # "stderr" /\ (s[j].id = "exit" => j = Len(s))
    BY <2>3, <2>4
  <2>6. /\ wire' \in Seq(Packets) /\ link' = "up" /\ ExitLast' /\ Shown
        /\ \A k \in 1..Len(wire') : wire'[k].id = "stderr" => wire'[k].line \in locked' \union {"other"}
        /\ \A e : Listed(e) => Listed(e)'
        /\ \A l : Said(l) => Said(l)'
        /\ \A j \in 1..Len(s) : \A p : p = s[j] => InWire(p)'
    BY <2>1, <2>4, <2>5, SendKeeps
  <2>7. Types'
    BY <1>t, <2>1, <2>6 DEF Types, program
  <2>8. WasKilled'
    BY <2>4, <2>6 DEF WasKilled
  <2>9. Shown'
    BY <2>1, <2>6, <2>8 DEF Shown
  <2> QED
    BY <1>t, <2>1, <2>6, <2>7, <2>8, <2>9, AcceptedStays DEF ScanInv
<1>6. CASE Finish
  <2>1. /\ UNCHANGED <<locked, toList, toDeny, program>> /\ walk' = "exited"
        /\ \/ walk = "listing" /\ toList = {} /\ toDeny = {}
           \/ walk = "failed"
    BY <1>6 DEF Finish
  <2>2. PICK code \in {0, 1} : Send(<<Ignored, Exit(code)>>)
    BY <1>6 DEF Finish
  <2> DEFINE s == <<Ignored, Exit(code)>>
  <2>3. s \in Seq(Packets) /\ Len(s) = 2 /\ s[1] = Ignored /\ s[2] = Exit(code) /\ Send(s)
    BY <2>2
  <2> HIDE DEF s
  <2>4. \A j \in 1..Len(s) : j = 1 \/ j = 2
    BY <2>3
  <2>5. /\ \A j \in 1..Len(s) : s[j].id \notin {"stdout", "stderr"}
        /\ \A j \in 1..Len(s) : s[j].id = "exit" => j = Len(s)
    BY <2>3, <2>4
  <2>6. /\ wire' \in Seq(Packets) /\ link' = "up" /\ ExitLast' /\ Paired' /\ Shown
        /\ \A k \in 1..Len(wire') : wire'[k].id = "stderr" => wire'[k].line \in locked' \union {"other"}
        /\ \A e : Listed(e) => Listed(e)'
        /\ \A l : Said(l) => Said(l)'
    BY <2>1, <2>3, <2>5, SendKeeps DEF PairedUp
  <2>7. Types'
    BY <1>t, <2>1, <2>6 DEF Types, program
  <2>8. Shown'
    BY <2>1, <2>6 DEF Shown
  <2> QED
    BY <1>t, <2>1, <2>6, <2>7, <2>8, AcceptedStays DEF ScanInv
<1> QED
  BY <1>1, <1>2, <1>3, <1>4, <1>5, <1>k, <1>6 DEF DeviceStep

(* So does reading a packet.                                               *)
LEMMA ReadKeeps ==
  ASSUME ScanInv, ReadPacket
  PROVE  ScanInv'
<1> DEFINE p == wire[1]
<1>1. /\ Types /\ ExitLast /\ pc = "read" /\ exitCode = -1 /\ wire # <<>> /\ wire' = Tail(wire)
      /\ UNCHANGED <<link, device, entries, denied>>
  BY DEF ScanInv, ReadPacket, ExitLast
<1>2. /\ wire' \in Seq(Packets) /\ Head(wire) = p /\ p \in Packets
      /\ Len(wire) \in Nat \ {0} /\ Len(wire') = Len(wire) - 1
      /\ \A k \in 1..Len(wire') : k + 1 \in 1..Len(wire) /\ wire'[k] = wire[k + 1]
      /\ \A q : InWire(q) => q = p \/ InWire(q)'
  BY <1>1, Received DEF Types
<1>3. /\ p.id \in {"stdout", "stderr", "exit", "unknown"}
      /\ p.id = "stdout" => p \in Pieces /\ p = Out(p.of, p.half)
      /\ p.id = "stderr" => p = Denial(p.line) /\ p.line \in Entries \union {"other"}
      /\ p.id = "exit" => p.code \in {0, 1, 2, Signalled}
  BY <1>2, PacketParts
<1>4. /\ stdout' = IF p.id = "stdout" THEN Append(stdout, p) ELSE stdout
      /\ stderr' = IF p.id = "stderr" THEN Append(stderr, p.line) ELSE stderr
      /\ exitCode' = IF p.id = "exit" THEN p.code ELSE exitCode
      /\ pc' = IF p.id = "exit" THEN "judge" ELSE "read"
  BY <1>2 DEF ReadPacket
<1>5. 1 \in 1..Len(wire) /\ wire[1] = p
  BY <1>2
<1> HIDE DEF p
<1>6. /\ stdout' \in Seq(Pieces) /\ Len(stdout) \in Nat
      /\ \A k \in 1..Len(stdout) : k \in 1..Len(stdout') /\ stdout'[k] = stdout[k]
      /\ p.id = "stdout" => /\ Len(stdout') = Len(stdout) + 1
                            /\ stdout'[Len(stdout')] = p /\ Len(stdout') \in 1..Len(stdout')
  BY <1>1, <1>3, <1>4, AppendProperties DEF Types
<1>7. /\ stderr' \in Seq(Entries \union {"other"}) /\ Len(stderr) \in Nat
      /\ \A k \in 1..Len(stderr) : k \in 1..Len(stderr') /\ stderr'[k] = stderr[k]
      /\ p.id = "stderr" => /\ Len(stderr') = Len(stderr) + 1
                            /\ stderr'[Len(stderr')] = p.line /\ Len(stderr') \in 1..Len(stderr')
  BY <1>1, <1>3, <1>4, AppendProperties DEF Types
<1>8. Types'
  <2>1. \A k \in 1..Len(wire') : wire'[k].id = "stderr" => wire'[k].line \in locked' \union {"other"}
    BY <1>1, <1>2 DEF Types, device
  <2>2. ASSUME NEW k \in 1..Len(stderr') PROVE stderr'[k] \in locked' \union {"other"}
    <3>1. p.id = "stderr" => p.line \in locked \union {"other"}
      BY <1>1, <1>5 DEF Types
    <3>2. CASE k \in 1..Len(stderr)
      BY <1>1, <1>7, <3>2 DEF Types, device
    <3>3. CASE k \notin 1..Len(stderr)
      <4>1. p.id = "stderr" /\ k = Len(stderr')
        BY <1>4, <1>7, <3>3
      <4> QED
        BY <1>1, <1>7, <3>1, <4>1 DEF device
    <3> QED
      BY <3>2, <3>3
  <2> QED
    BY <1>1, <1>2, <1>3, <1>4, <1>6, <1>7, <2>1, <2>2 DEF Types, device
<1>9. Exiting' => Exiting
  BY <1>2 DEF Exiting
<1>10. p.id = "exit" => Exiting /\ wire' = <<>>
  <2> SUFFICES ASSUME p.id = "exit" PROVE Exiting /\ wire' = <<>>
    OBVIOUS
  <2>1. 1 = Len(wire) /\ Exiting
    BY <1>1, <1>5 DEF ExitLast, Exiting
  <2>2. wire' \in Seq(Packets) /\ Len(wire') = Len(wire) - 1
    BY <1>2
  <2>3. Len(wire') = 0
    BY <2>1, <2>2
  <2>4. wire' = <<>>
    BY <2>2, <2>3, EmptySeq
  <2> QED
    BY <2>1, <2>4
<1>11. ExitLast'
  <2>1. \A k \in 1..Len(wire') : wire'[k].id = "exit" => k = Len(wire')
    <3> SUFFICES ASSUME NEW k \in 1..Len(wire'), wire'[k].id = "exit" PROVE k = Len(wire')
      OBVIOUS
    <3>1. k + 1 = Len(wire)
      BY <1>1, <1>2 DEF ExitLast
    <3> QED
      BY <1>2, <3>1
  <2>2. Exiting' => walk' = "exited"
    BY <1>1, <1>9 DEF ExitLast, device
  <2>3. exitCode' # -1 => wire' = <<>> /\ walk' = "exited" /\ pc' # "read"
    BY <1>1, <1>4, <1>10 DEF ExitLast, device
  <2> QED
    BY <2>1, <2>2, <2>3 DEF ExitLast
<1>12. ASSUME Intact' PROVE Shown' /\ (WasKilled' \/ Paired')
  <2>1. Intact
    BY <1>1, <1>4, <1>9, <1>10, <1>12 DEF Intact
  <2>2. Shown /\ (WasKilled \/ Paired)
    BY <2>1 DEF ScanInv
  <2>k. WasKilled => WasKilled'
    BY <1>1, <1>2, <1>4, PacketTypes DEF WasKilled
  <2>3. Whole \subseteq Whole'
    BY <1>6 DEF Whole
  <2>4. ASSUME NEW e \in Entries, Listed(e) PROVE Listed(e)'
    <3>1. CASE Out(e, 2) = p
      <4>1. p.id = "stdout" /\ p.of = e /\ p.half = 2
        BY <3>1, PacketTypes
      <4> QED
        BY <1>6, <4>1 DEF Listed, Whole
    <3>2. CASE InWire(Out(e, 2))'
      BY <3>2 DEF Listed
    <3> QED
      BY <1>2, <2>3, <2>4, <3>1, <3>2 DEF Listed
  <2>5. ASSUME NEW l \in Entries \union {"other"}, Said(l) PROVE Said(l)'
    <3>1. CASE Denial(l) = p
      <4>1. p.id = "stderr" /\ p.line = l
        BY <3>1, PacketTypes
      <4> QED
        BY <1>7, <4>1 DEF Said
    <3>2. CASE InWire(Denial(l))'
      BY <3>2 DEF Said
    <3> QED
      BY <1>2, <1>7, <2>5, <3>1, <3>2 DEF Said
  <2>6. Shown'
    <3>1. locked \in SUBSET Entries
      BY <1>1, ScanAssumption DEF Types
    <3>2. /\ UNCHANGED <<walk, toList, toDeny, locked>>
          /\ \A e \in Entries \ toList : Listed(e)'
          /\ \A l \in locked \ toDeny : Said(l)'
          /\ Said("other") => Said("other")'
      BY <1>1, <2>2, <2>4, <2>5, <3>1 DEF Shown, device
    <3> QED
      BY <2>2, <2>k, <3>2 DEF Shown
  <2>p. SUFFICES ASSUME ~WasKilled' PROVE Shown' /\ Paired'
    BY <2>6
  <2>7. ASSUME NEW k \in 1..Len(wire'), wire'[k].id = "stdout", wire'[k].half = 1
        PROVE  k + 1 \in 1..Len(wire') /\ wire'[k + 1].id = "stdout" /\ wire'[k + 1].half = 2
    <3>1. k + 1 \in 1..Len(wire) /\ wire[k + 1].id = "stdout" /\ wire[k + 1].half = 1
      BY <1>2, <2>7
    <3>2. (k + 1) + 1 \in 1..Len(wire) /\ wire[(k + 1) + 1].id = "stdout" /\ wire[(k + 1) + 1].half = 2
      BY <2>2, <2>k, <2>p, <3>1 DEF Paired
    <3>3. k + 1 \in 1..Len(wire')
      BY <1>2, <3>2
    <3> QED
      BY <1>2, <3>2, <3>3
  <2>8. CutShort' => wire' # <<>> /\ wire'[1].id = "stdout" /\ wire'[1].half = 2
    <3> SUFFICES ASSUME CutShort'
                 PROVE  wire' # <<>> /\ wire'[1].id = "stdout" /\ wire'[1].half = 2
      OBVIOUS
    <3>1. p.id = "stdout"
      <4> SUFFICES ASSUME p.id # "stdout" PROVE FALSE
        OBVIOUS
      <4>1. CutShort
        BY <1>4 DEF CutShort
      <4> QED
        BY <1>5, <2>2, <2>k, <2>p, <4>1 DEF Paired
    <3>2. p.half = 1
      BY <1>6, <3>1 DEF CutShort, Last
    <3>3. 1 + 1 \in 1..Len(wire) /\ wire[1 + 1].id = "stdout" /\ wire[1 + 1].half = 2
      BY <1>5, <2>2, <2>k, <2>p, <3>1, <3>2 DEF Paired
    <3>4. 1 \in 1..Len(wire') /\ Len(wire') # 0
      BY <1>2, <3>3
    <3> QED
      BY <1>2, <3>3, <3>4, EmptySeq
  <2> QED
    BY <2>6, <2>7, <2>8 DEF Paired
<1>13. AcceptedIsComplete'
  BY <1>4 DEF AcceptedIsComplete
<1> QED
  BY <1>8, <1>11, <1>12, <1>13 DEF ScanInv

(* What arrives of a stream that is lost is the beginning of it; with the  *)
(* exit code, or after it, all of it.                                      *)
LEMMA Lost ==
  ASSUME wire \in Seq(Packets), Lose,
         \A k \in 1..Len(wire) : wire[k].id = "exit" => k = Len(wire),
         exitCode # -1 => wire = <<>>
  PROVE  /\ wire' \in Seq(Packets)
         /\ \A k \in 1..Len(wire') : k \in 1..Len(wire) /\ wire'[k] = wire[k]
         /\ Exiting' \/ exitCode # -1 => wire' = wire
         /\ Exiting' => Exiting
<1>2. PICK n \in 0..Len(wire) : wire' = SubSeq(wire, 1, n)
  BY DEF Lose
<1>3. Len(wire) \in Nat
  OBVIOUS
<1>4. /\ wire' \in Seq(Packets) /\ Len(wire') = n
      /\ \A k \in 1..n : k \in 1..Len(wire) /\ wire'[k] = wire[k]
  <2>1. \A k \in 1..n : k \in 1..Len(wire) /\ wire[k] \in Packets
    BY <1>3
  <2> QED
    BY <1>2, <1>3, <2>1, SubSeqProperties
<1>5. n = Len(wire) => wire' = wire
  BY <1>3, <1>4, SeqEqual
<1>6. Exiting' => wire' = wire /\ Exiting
  <2> SUFFICES ASSUME Exiting' PROVE wire' = wire /\ Exiting
    OBVIOUS
  <2>1. PICK k \in 1..Len(wire') : wire'[k].id = "exit"
    BY DEF Exiting
  <2>2. k = Len(wire) /\ k \in 1..Len(wire) /\ wire[k].id = "exit"
    BY <1>4, <2>1
  <2>3. n = Len(wire)
    BY <1>3, <1>4, <2>2
  <2> QED
    BY <1>5, <2>2, <2>3 DEF Exiting
<1>7. exitCode # -1 => wire' = wire
  <2> SUFFICES ASSUME exitCode # -1 PROVE wire' = wire
    OBVIOUS
  <2>1. Len(wire) = 0
    BY EmptySeq
  <2> QED
    BY <1>5, <2>1
<1> QED
  BY <1>4, <1>6, <1>7

(* And the end of the stream.                                              *)
LEMMA LoseKeeps ==
  ASSUME ScanInv, Lose
  PROVE  ScanInv'
<1>1. /\ Types /\ ExitLast /\ AcceptedIsComplete /\ link' \in {"closed", "cut"}
      /\ UNCHANGED <<device, program>>
  BY DEF ScanInv, Lose
<1>4. /\ wire' \in Seq(Packets)
      /\ \A k \in 1..Len(wire') : k \in 1..Len(wire) /\ wire'[k] = wire[k]
      /\ Exiting' \/ exitCode # -1 => wire' = wire
      /\ Exiting' => Exiting
  BY <1>1, Lost DEF Types, ExitLast
<1>8. Types'
  <2>1. \A k \in 1..Len(wire') : wire'[k].id = "stderr" => wire'[k].line \in locked' \union {"other"}
    BY <1>1, <1>4 DEF Types, device
  <2> QED
    BY <1>1, <1>4, <2>1 DEF Types, device, program
<1>9. ExitLast'
  <2>1. Exiting' => walk' = "exited"
    BY <1>1, <1>4 DEF ExitLast, device
  <2>2. exitCode' # -1 => wire' = <<>> /\ walk' = "exited" /\ pc' # "read"
    BY <1>1, <1>4 DEF ExitLast, device, program
  <2>3. \A k \in 1..Len(wire') : wire'[k].id = "exit" => k = Len(wire')
    BY <1>1, <1>4 DEF ExitLast, Exiting
  <2> QED
    BY <2>1, <2>2, <2>3 DEF ExitLast
<1>10. ASSUME Intact' PROVE Shown' /\ (WasKilled' \/ Paired')
  <2>1. wire' = wire /\ Intact
    BY <1>1, <1>4, <1>10 DEF Intact, program
  <2>2. Shown /\ (WasKilled \/ Paired)
    BY <2>1 DEF ScanInv
  <2> QED
    BY <1>1, <2>1, <2>2
       DEF WasKilled, Shown, Paired, Listed, Said, InWire, Whole, CutShort, device, program
<1> QED
  BY <1>1, <1>8, <1>9, <1>10, AcceptedStays DEF ScanInv, device

(* The output is judged by what arrived of it.                             *)
LEMMA JudgeKeeps ==
  ASSUME ScanInv, ReadEnd \/ Judge
  PROVE  ScanInv'
<1>1. /\ Types /\ ExitLast /\ (Intact => Shown /\ (WasKilled \/ Paired))
      /\ UNCHANGED <<wire, link, device, stdout, stderr, exitCode>>
      /\ pc \in {"read", "judge"} /\ pc' \in {"judge", "failed", "accepted"}
  BY DEF ScanInv, ReadEnd, Judge
<1>2. Types' /\ ExitLast' /\ (Intact' => Shown' /\ (WasKilled' \/ Paired'))
  BY <1>1 DEF WasKilled, Types, ExitLast, Exiting, Intact, Shown, Paired, Listed, Said, InWire, Whole,
              CutShort, device
<1>3. AcceptedIsComplete'
  <2> SUFFICES ASSUME pc' = "accepted",
                      exitCode' \notin {-1, Signalled} \/ denied' = {}
               PROVE  entries' = Entries /\ denied' = locked'
    BY DEF AcceptedIsComplete
  <2>1. /\ ~Refused /\ stdout # <<>> /\ denied' = DeniedLines
        /\ entries' = Records \union
                      (IF CutShort /\ Len(stdout) > 2 THEN {"stump"} ELSE {})
    BY DEF ReadEnd, Judge
  <2>2. exitCode \notin {-1, Signalled}
    BY <1>1, <2>1 DEF Refused, BadExit
  <2>i. wire = <<>> /\ walk = "exited" /\ Shown /\ (WasKilled \/ Paired)
    BY <1>1, <2>2 DEF ExitLast, Intact
  <2>4. \A q : ~InWire(q)
    BY <2>i, EmptySeq DEF InWire
  <2>3. wire = <<>> /\ walk = "exited" /\ Shown /\ Paired /\ ~WasKilled
    BY <2>2, <2>i, <2>4 DEF WasKilled
  <2>5. ~Said("other") /\ ~CutShort
    BY <2>1, <2>3, <2>4 DEF Said, Paired, Refused, Complained
  <2>6. toList = {} /\ toDeny = {}
    BY <2>3, <2>5 DEF Shown
  <2>7. Entries \subseteq Whole
    BY <2>3, <2>4, <2>6 DEF Shown, Listed
  <2>8. Whole \subseteq Entries \union {Root}
    <3>1. \A k \in 1..Len(stdout) : stdout[k] \in Pieces
      BY <1>1 DEF Types
    <3> QED
      BY <3>1 DEF Whole, Pieces
  <2>9. entries' = Entries
    BY <2>1, <2>5, <2>7, <2>8, ScanAssumption DEF Records
  <2>10. locked \subseteq DeniedLines
    BY <2>3, <2>4, <2>5, <2>6 DEF Shown, Said, DeniedLines
  <2>11. DeniedLines \subseteq locked
    BY <1>1 DEF Types, DeniedLines
  <2> QED
    BY <1>1, <2>1, <2>9, <2>10, <2>11 DEF device
<1> QED
  BY <1>2, <1>3 DEF ScanInv

(* Every step of the scan keeps the invariant.                             *)
LEMMA ScanStep ==
  ASSUME ScanInv, [Next]_vars
  PROVE  ScanInv'
<1>1. CASE UNCHANGED vars
  <2> USE <1>1 DEF vars
  <2>1. Types' /\ ExitLast' /\ AcceptedIsComplete'
    BY DEF ScanInv, Types, ExitLast, Exiting, AcceptedIsComplete
  <2>2. (Intact <=> Intact') /\ (Paired => Paired') /\ (WasKilled <=> WasKilled')
    BY DEF Intact, Exiting, Paired, CutShort, WasKilled, InWire
  <2>3. \A e : Listed(e) <=> Listed(e)'
    BY DEF Listed, InWire, Whole
  <2>4. \A l : Said(l) <=> Said(l)'
    BY DEF Said, InWire
  <2>5. Shown => Shown'
    BY <2>2, <2>3, <2>4 DEF Shown
  <2> QED
    BY <2>1, <2>2, <2>5 DEF ScanInv
<1> QED
  BY <1>1, DeviceKeeps, ReadKeeps, LoseKeeps, JudgeKeeps DEF Next, ProgramStep, Over

(* The inductive invariant of the scan.                                    *)
THEOREM ScanInvariance == Spec => []ScanInv
<1> QED
  BY InitScan, ScanStep, PTL DEF Spec

(* Whatever is lost of the stream and wherever the walk stops, a walk that *)
(* is accepted is the whole tree and names what could not be read, unless  *)
(* the exit code never came, or tells of a find that was killed, and a     *)
(* denial hides that.                                                      *)
THEOREM AcceptedCorrect == Spec => []AcceptedIsComplete
<1>1. ScanInv => AcceptedIsComplete
  BY DEF ScanInv
<1> QED
  BY <1>1, ScanInvariance, PTL

-----------------------------------------------------------------------------
(* The comparison by content goes on where the scan ended.  Until then it  *)
(* has done nothing.                                                       *)
Fresh == candidates = <<>> /\ batches = <<>> /\ toHash = <<>> /\ digests = <<>>
         /\ matched = <<>> /\ trouble = FALSE

Hashed == ToSet(candidates)
SentSoFar == SumOver(Len, batches)
Listening == phase = "hash" /\ pc \in {"read", "judge"}

(* How far the comparison has come.                                        *)
Work ==
  /\ phase \in {"hash", "compare", "done"} /\ pc # "accepted"
  /\ candidates \in Seq(Files) /\ toHash \in Seq(Hashed) /\ trouble \in BOOLEAN
  /\ batches \in Seq(Seq(Hashed)) /\ SentSoFar \in 0..Len(candidates)
  /\ phase \in {"compare", "done"} => pc = "batch" /\ SentSoFar = Len(candidates)
  /\ phase = "hash" => pc \in {"batch", "read", "judge", "failed"} /\ matched = <<>>
  /\ phase = "hash" /\ pc = "batch" => SentSoFar < Len(candidates)
  /\ matched \in Seq(SUBSET Hashed)

(* What the device says is about the files of the comparison, and the exit *)
(* code is the last of it.                                                 *)
About(s) == \A k \in 1..Len(s) : s[k].id = "stdout" => s[k].of \in Hashed
Talk ==
  Listening =>
    /\ wire \in Seq(Packets) /\ About(wire) /\ stdout \in Seq(Pieces) /\ About(stdout)
    /\ exitCode \in {-1, 0, 1, 2, Signalled}
    /\ \A k \in 1..Len(wire) : wire[k].id = "exit" => k = Len(wire)
    /\ Exiting => toHash = <<>>
    /\ exitCode # -1 => toHash = <<>> /\ wire = <<>> /\ pc = "judge"

(* Without trouble, every file that was sent has a digest, or its line is  *)
(* there or will come.                                                     *)
Known(f) == Spelled[f] \in DOMAIN digests
Due(f) == f \in ToSet(toHash) \/ InWire(Out(f, 2)) \/ f \in Whole
Gathered ==
  ~trouble => \A j \in 1..SentSoFar :
    /\ Listening /\ Intact => Known(candidates[j]) \/ Due(candidates[j])
    /\ pc = "batch" => Known(candidates[j])

(* A digest is that of a file whose line reads so.                         *)
ReadsAs(g, path) == path = g \/ path = Spelled[g] \/ path \in CutTo[g]
Right == \A path \in DOMAIN digests :
           \E g \in Hashed : ReadsAs(g, path) /\ digests[path] = Content[g]

(* Without trouble the files that match are exactly the equal ones.        *)
Exact ==
  ~trouble => \A k \in 1..Len(matched) : \A f \in Hashed :
    Misreadable(f) \/ Spelled[f] # f \/ (f \in matched[k] <=> local[k - 1][f] = Content[f])

Bounded == \A k \in 1..Len(batches) :
             Len(batches[k]) > 1 => SumOver(QuotedLen, batches[k]) <= MaxCommand

Results == Right /\ MatchedMeansEqual /\ Exact /\ Bounded
Comparing == phase # "scan" /\ Work /\ Talk /\ Gathered /\ Results

CompareInv == \/ phase = "scan" /\ ScanInv /\ Fresh
              \/ Comparing

-----------------------------------------------------------------------------
(* The elements of a sequence are what it holds at some place.             *)
LEMMA Holds ==
  ASSUME NEW S, NEW s \in Seq(S)
  PROVE  /\ Len(s) \in Nat /\ DOMAIN s = 1..Len(s) /\ ToSet(s) \subseteq S
         /\ s \in Seq(ToSet(s))
         /\ \A k \in 1..Len(s) : s[k] \in ToSet(s)
         /\ \A x \in ToSet(s) : \E k \in 1..Len(s) : s[k] = x
<1>1. /\ Len(s) \in Nat /\ DOMAIN s = 1..Len(s) /\ s = [k \in 1..Len(s) |-> s[k]]
      /\ \A k \in 1..Len(s) : s[k] \in S
  BY LenProperties
<1>2. \A k \in 1..Len(s) : s[k] \in ToSet(s)
  BY <1>1 DEF ToSet
<1>3. s \in [1..Len(s) -> ToSet(s)]
  BY <1>1, <1>2
<1>4. s \in Seq(ToSet(s))
  BY <1>1, <1>3, SeqDef
<1> QED
  BY <1>1, <1>2, <1>4 DEF ToSet

(* What was sent grows by the batch.                                       *)
LEMMA SentGrows ==
  ASSUME NEW S, batches \in Seq(Seq(S)), NEW b \in Seq(S), batches' = Append(batches, b)
  PROVE  SentSoFar' = SentSoFar + Len(b)
<1> DEFINE g == [k \in 1..Len(batches) |-> Len(batches[k])]
           h == [k \in 1..Len(batches') |-> Len(batches'[k])]
<1>1. /\ Len(batches) \in Nat /\ Len(batches') = Len(batches) + 1
      /\ \A k \in 1..Len(batches) : batches'[k] = batches[k] /\ batches[k] \in Seq(S)
      /\ batches'[Len(batches) + 1] = b
  BY AppendProperties
<1>2. Len(b) \in Nat /\ \A k \in 1..Len(batches) : Len(batches[k]) \in Nat
  BY <1>1, LenProperties
<1>3. /\ DOMAIN g = 1..Len(batches) /\ DOMAIN h = 1..(Len(batches) + 1)
      /\ \A k \in 1..Len(batches) : g[k] \in Int /\ h[k] = g[k]
      /\ h[Len(batches) + 1] = Len(b)
  BY <1>1, <1>2
<1>4. SentSoFar = SumFunctionOnSet(g, DOMAIN g) /\ SentSoFar' = SumFunctionOnSet(h, DOMAIN h)
  BY DEF SentSoFar, SumOver, SumFunction
<1> HIDE DEF g, h
<1>n. Len(batches) \in Nat /\ h[Len(batches) + 1] \in Int
  BY <1>1, <1>2, <1>3
<1>5. SumFunctionOnSet(h, 1..(Len(batches) + 1))
        = SumFunctionOnSet(g, 1..Len(batches)) + h[Len(batches) + 1]
  <2>1. \A k \in 1..Len(batches) : g[k] \in Int /\ h[k] = g[k]
    BY <1>3
  <2> QED
    BY ONLY <1>n, <2>1, SumGrows
<1> QED
  BY <1>3, <1>4, <1>5

(* A batch is the beginning of what is pending, and fits.                  *)
LEMMA BatchIs ==
  ASSUME NEW s \in Seq(Files), s # <<>>
  PROVE  \E n \in 1..Len(s) : /\ BatchOf(s) = SubSeq(s, 1, n)
                              /\ \A k \in 2..n : Fits(SubSeq(s, 1, k))
<1>1. Len(s) \in Nat \ {0}
  BY EmptySeq
<1> DEFINE Ends(n) == n < Len(s) => ~Fits(SubSeq(s, 1, n + 1))
           E == {n \in 1..Len(s) : Ends(n)}
           m == Min(E)
<1>2. E \in SUBSET Nat /\ Len(s) \in E
  BY <1>1
<1>3. m \in E /\ \A y \in E : m =< y
  BY <1>2, MinIsMember
<1>4. ASSUME NEW k \in 2..m PROVE Fits(SubSeq(s, 1, k))
  <2>1. m \in 1..Len(s) /\ k - 1 \in 1..Len(s) /\ k - 1 < Len(s) /\ (k - 1) + 1 = k /\ ~(m =< k - 1)
    BY <1>1, <1>3
  <2>2. k - 1 \notin E
    BY <1>3, <2>1
  <2> QED
    BY <2>1, <2>2
<1>5. m \in 1..Len(s) /\ (\A k \in 2..m : Fits(SubSeq(s, 1, k)))
      /\ (m < Len(s) => ~Fits(SubSeq(s, 1, m + 1)))
  BY <1>3, <1>4
<1> HIDE DEF m, E
<1>6. \E n \in 1..Len(s) : /\ \A k \in 2..n : Fits(SubSeq(s, 1, k))
                           /\ n < Len(s) => ~Fits(SubSeq(s, 1, n + 1))
  BY <1>5
<1> DEFINE n == CHOOSE n \in 1..Len(s) : /\ \A k \in 2..n : Fits(SubSeq(s, 1, k))
                                         /\ n < Len(s) => ~Fits(SubSeq(s, 1, n + 1))
<1>7. n \in 1..Len(s) /\ \A k \in 2..n : Fits(SubSeq(s, 1, k))
  BY <1>6
<1>8. BatchOf(s) = SubSeq(s, 1, n)
  BY DEF BatchOf
<1> QED
  BY <1>7, <1>8

(* While there is something pending, it is the rest of the candidates.     *)
LEMMA PendingIs ==
  ASSUME candidates \in Seq(Files), SentSoFar \in 0..Len(candidates)
  PROVE  /\ Pending \in Seq(Hashed) /\ Pending \in Seq(Files)
         /\ Len(Pending) = Len(candidates) - SentSoFar
         /\ \A j \in 1..Len(Pending) : Pending[j] = candidates[SentSoFar + j]
         /\ Pending = <<>> <=> SentSoFar = Len(candidates)
<1>1. /\ Len(candidates) \in Nat /\ Hashed \subseteq Files
      /\ \A k \in 1..Len(candidates) : candidates[k] \in Hashed
  BY Holds DEF Hashed
<1>2. \A k \in (SentSoFar + 1)..Len(candidates) : candidates[k] \in Hashed
  BY <1>1
<1>3. SentSoFar \in Int /\ SentSoFar + 1 \in Int /\ Len(candidates) \in Int
  BY <1>1
<1>4. Pending = SubSeq(candidates, SentSoFar + 1, Len(candidates))
  BY DEF Pending, SentSoFar
<1> HIDE DEF SentSoFar
<1>5. /\ Pending \in Seq(Hashed)
      /\ Len(Pending) = IF SentSoFar + 1 =< Len(candidates) THEN Len(candidates) - (SentSoFar + 1) + 1 ELSE 0
      /\ \A i \in 1..(Len(candidates) - (SentSoFar + 1) + 1) :
           Pending[i] = candidates[(SentSoFar + 1) + i - 1]
  BY <1>2, <1>3, <1>4, SubSeqProperties
<1>6. Len(Pending) = Len(candidates) - SentSoFar
  BY <1>1, <1>5
<1>7. ASSUME NEW j \in 1..Len(Pending) PROVE Pending[j] = candidates[SentSoFar + j]
  <2>1. j \in 1..(Len(candidates) - (SentSoFar + 1) + 1) /\ (SentSoFar + 1) + j - 1 = SentSoFar + j
    BY <1>1, <1>6
  <2> QED
    BY <1>5, <2>1
<1>8. Pending \in Seq(Files)
  BY <1>1, <1>5, SeqMonotonic
<1>9. Pending = <<>> <=> SentSoFar = Len(candidates)
  BY <1>1, <1>5, <1>6, EmptySeq
<1> QED
  BY <1>5, <1>6, <1>7, <1>8, <1>9

-----------------------------------------------------------------------------
(* What was found stays as long as nothing is parsed or compared.          *)
LEMMA ResultsStay ==
  ASSUME Results, UNCHANGED <<local, candidates, digests, matched>>, Bounded',
         trouble \in BOOLEAN, trouble => trouble'
  PROVE  Results'
<1>1. Hashed' = Hashed /\ \A f : Misreadable(f)' <=> Misreadable(f)
  BY DEF Hashed, Misreadable
<1>2. Right'
  BY <1>1 DEF Results, Right
<1>3. MatchedMeansEqual'
  BY <1>1 DEF Results, MatchedMeansEqual
<1>4. Exact'
  BY <1>1 DEF Results, Exact
<1> QED
  BY <1>2, <1>3, <1>4 DEF Results

(* The comparison begins with the files that some destination has.         *)
LEMMA StartKeeps ==
  ASSUME Fresh, Start
  PROVE  Comparing'
<1> DEFINE S == {f \in entries \intersect Files : \E d \in Dests : f \in Present(d)'}
<1>1. /\ candidates' \in SetToSeqs(S) /\ pc' = "batch"
      /\ phase' = IF candidates' = <<>> THEN "done" ELSE "hash"
      /\ matched' = IF candidates' = <<>> THEN [k \in 1..NumDests |-> {}] ELSE <<>>
      /\ batches' = <<>> /\ toHash' = <<>> /\ digests' = <<>> /\ trouble' = FALSE
  BY DEF Start, Fresh
<1>2. S \subseteq Files /\ IsFiniteSet(S)
  <2>1. S \subseteq Entries /\ S \subseteq Files
    BY ChecksumAssumption
  <2> QED
    BY <2>1, ScanAssumption, FS_Subset
<1> HIDE DEF S
<1>3. Cardinality(S) \in Nat /\ candidates' \in [1..Cardinality(S) -> S]
  BY <1>1, <1>2, FS_CardinalityType DEF SetToSeqs
<1>4. candidates' \in Seq(S)
  BY <1>3, SeqDef
<1>5. candidates' \in Seq(Files) /\ Len(candidates') \in Nat
  BY <1>2, <1>4, SeqMonotonic, LenProperties
<1>6. candidates' # <<>> => Len(candidates') > 0
  BY <1>5, EmptySeq
<1>7. SentSoFar' = 0
  <2>1. [k \in 1..Len(batches') |-> Len(batches'[k])] = <<>>
    BY <1>1
  <2>2. SentSoFar' = SumFunctionOnSet([k \in 1..Len(batches') |-> Len(batches'[k])],
                                      DOMAIN [k \in 1..Len(batches') |-> Len(batches'[k])])
    BY DEF SentSoFar, SumOver, SumFunction
  <2>3. DOMAIN [k \in 1..Len(batches') |-> Len(batches'[k])] = {}
    BY <1>1
  <2> QED
    BY <2>2, <2>3, SumEmpty
<1>8. matched' \in Seq(SUBSET Hashed')
  <2>1. [k \in 1..NumDests |-> {}] \in Seq(SUBSET Hashed')
    BY ChecksumAssumption
  <2>2. <<>> \in Seq(SUBSET Hashed')
    BY EmptySeq
  <2> QED
    BY <1>1, <2>1, <2>2
<1>9. toHash' \in Seq(Hashed') /\ batches' \in Seq(Seq(Hashed')) /\ Len(batches') = 0
  BY <1>1, EmptySeq
<1>10. candidates' = <<>> => Len(candidates') = 0
  BY EmptySeq
<1>11. phase' \in {"hash", "done"} /\ phase' # "scan"
  BY <1>1
<1>12. Work'
  <2>1. SentSoFar' \in 0..Len(candidates')
    BY <1>5, <1>7
  <2>2. phase' = "done" => SentSoFar' = Len(candidates')
    BY <1>1, <1>7, <1>10
  <2>3. phase' = "hash" => SentSoFar' < Len(candidates') /\ matched' = <<>>
    BY <1>1, <1>6, <1>7
  <2> QED
    BY <1>1, <1>5, <1>8, <1>9, <1>11, <2>1, <2>2, <2>3 DEF Work
<1>13. Talk' /\ Gathered'
  BY <1>1, <1>7 DEF Talk, Listening, Gathered
<1>14. Right' /\ Bounded'
  BY <1>1, <1>9 DEF Right, Bounded
<1>15. candidates' = <<>> => Hashed' = {}
  BY EmptySeq DEF Hashed, ToSet
<1>16. matched' = <<>> \/ (Hashed' = {} /\ \A k \in 1..Len(matched') : matched'[k] = {})
  <2>1. Len([k \in 1..NumDests |-> {}]) = NumDests
    BY ChecksumAssumption
  <2> QED
    BY <1>1, <1>15, <2>1
<1>17. MatchedMeansEqual' /\ Exact'
  BY <1>16, EmptySeq DEF MatchedMeansEqual, Exact
<1> QED
  BY <1>11, <1>12, <1>13, <1>14, <1>17 DEF Comparing, Results

(* A command is sent with the next batch.                                  *)
LEMMA RunBatchKeeps ==
  ASSUME Comparing, RunBatch
  PROVE  Comparing'
<1> DEFINE batch == BatchOf(Pending)
<1>1. /\ Work /\ Gathered /\ Results /\ phase = "hash" /\ pc = "batch" /\ pc' = "read"
      /\ SentSoFar < Len(candidates) /\ SentSoFar \in 0..Len(candidates)
      /\ candidates \in Seq(Files) /\ batches \in Seq(Seq(Hashed))
  BY DEF Comparing, Work, RunBatch
<1>2. /\ batches' = Append(batches, batch) /\ toHash' = batch
      /\ wire' = <<>> /\ stdout' = <<>> /\ exitCode' = -1
      /\ UNCHANGED <<phase, local, candidates, digests, matched, trouble>>
  BY DEF RunBatch
<1>3. /\ Pending \in Seq(Hashed) /\ Pending \in Seq(Files) /\ Pending # <<>>
      /\ Len(Pending) = Len(candidates) - SentSoFar /\ Len(candidates) \in Nat
      /\ \A j \in 1..Len(Pending) : Pending[j] = candidates[SentSoFar + j]
  BY <1>1, PendingIs
<1>4. PICK n \in 1..Len(Pending) : /\ batch = SubSeq(Pending, 1, n)
                                   /\ \A k \in 2..n : Fits(SubSeq(Pending, 1, k))
  BY <1>3, BatchIs
<1>5. /\ batch \in Seq(Hashed) /\ Len(batch) = n
      /\ \A j \in 1..n : batch[j] = candidates[SentSoFar + j]
  <2>1. \A i \in 1..n : Pending[i] \in Hashed
    BY <1>3
  <2>2. /\ batch \in Seq(Hashed) /\ Len(batch) = n
        /\ \A j \in 1..n : batch[j] = Pending[j]
    BY <1>3, <1>4, <2>1, SubSeqProperties
  <2> QED
    BY <1>3, <1>4, <2>2
<1>6. Len(batch) > 1 => Fits(batch)
  BY <1>4, <1>5
<1> HIDE DEF batch
<1>7. SentSoFar' = SentSoFar + n
  BY <1>1, <1>2, <1>5, SentGrows
<1>8. /\ batches' \in Seq(Seq(Hashed)) /\ Len(batches') = Len(batches) + 1 /\ Len(batches) \in Nat
      /\ \A k \in 1..Len(batches) : batches'[k] = batches[k]
      /\ batches'[Len(batches) + 1] = batch
  BY <1>1, <1>2, <1>5, AppendProperties
<1>9. Hashed' = Hashed
  BY <1>2 DEF Hashed
<1>10. Work'
  <2>1. SentSoFar' \in 0..Len(candidates)
    BY <1>1, <1>3, <1>4, <1>7
  <2> QED
    BY <1>1, <1>2, <1>5, <1>8, <1>9, <2>1 DEF Work
<1>11. Talk'
  <2>1. wire' \in Seq(Packets) /\ Len(wire') = 0 /\ stdout' \in Seq(Pieces) /\ Len(stdout') = 0
    BY <1>2, EmptySeq
  <2> QED
    BY <1>2, <2>1 DEF Talk, About, Exiting
<1>12. Gathered'
  <2> SUFFICES ASSUME ~trouble, NEW j \in 1..SentSoFar'
               PROVE  Known(candidates[j])' \/ Due(candidates[j])'
    BY <1>1, <1>2 DEF Gathered
  <2>1. CASE j \in 1..SentSoFar
    <3>1. Known(candidates[j])
      BY <1>1, <2>1 DEF Gathered
    <3> QED
      BY <1>2, <3>1 DEF Known
  <2>2. CASE j \notin 1..SentSoFar
    <3>1. j - SentSoFar \in 1..n /\ SentSoFar + (j - SentSoFar) = j
      BY <1>1, <1>3, <1>4, <1>7, <2>2
    <3>2. candidates[j] = toHash'[j - SentSoFar] /\ j - SentSoFar \in 1..Len(toHash')
      BY <1>2, <1>5, <3>1
    <3>3. candidates[j] \in ToSet(toHash')
      BY <1>2, <1>5, <3>2, Holds
    <3> QED
      BY <1>2, <3>3 DEF Due
  <2> QED
    BY <2>1, <2>2
<1>13. Bounded'
  <2> SUFFICES ASSUME NEW k \in 1..Len(batches'), Len(batches'[k]) > 1
               PROVE  SumOver(QuotedLen, batches'[k]) <= MaxCommand
    BY DEF Bounded, QuotedLen, SumOver
  <2>1. CASE k \in 1..Len(batches)
    BY <1>1, <1>8, <2>1 DEF Results, Bounded
  <2>2. CASE k = Len(batches) + 1
    BY <1>6, <1>8, <2>2 DEF Fits
  <2> QED
    BY <1>8, <2>1, <2>2
<1> QED
  BY <1>1, <1>2, <1>10, <1>11, <1>12, <1>13, ResultsStay DEF Comparing, Work

(* A file is hashed, or complained about.                                  *)
LEMMA HashKeeps ==
  ASSUME Comparing, Hash
  PROVE  Comparing'
<1>1. /\ Work /\ Talk /\ Gathered /\ Results /\ phase = "hash" /\ toHash # <<>>
      /\ toHash \in Seq(Hashed) /\ candidates \in Seq(Files) /\ trouble \in BOOLEAN
  BY DEF Comparing, Work, Hash
<1>2. /\ toHash' = Tail(toHash) /\ link' = link
      /\ UNCHANGED <<pc, stdout, exitCode, phase, local, candidates, batches, digests, matched>>
  BY DEF Hash, Send, program
<1> DEFINE f == Head(toHash)
<1>3. PICK s : /\ Send(s)
               /\ \/ s = <<Out(f, 1), Out(f, 2)>> /\ UNCHANGED trouble
                  \/ s = <<Complaint>> /\ trouble' = TRUE
  BY DEF Hash
<1>4. /\ f \in Hashed /\ toHash' \in Seq(Hashed)
      /\ \A x \in ToSet(toHash) : x = f \/ x \in ToSet(toHash')
  <2>1. /\ toHash' \in Seq(Hashed) /\ Len(toHash') = Len(toHash) - 1 /\ f \in Hashed
        /\ \A i \in 1..Len(toHash') : toHash'[i] = toHash[i + 1]
        /\ f = toHash[1] /\ Len(toHash) \in Nat
    BY <1>1, <1>2, HeadTailProperties, EmptySeq
  <2>2. ASSUME NEW x \in ToSet(toHash), x # f PROVE x \in ToSet(toHash')
    <3>1. PICK k \in 1..Len(toHash) : toHash[k] = x
      BY <1>1, Holds
    <3>2. k - 1 \in 1..Len(toHash') /\ (k - 1) + 1 = k
      BY <2>1, <2>2, <3>1
    <3>3. toHash'[k - 1] = x
      BY <2>1, <3>1, <3>2
    <3> QED
      BY <2>1, <3>2, <3>3, Holds
  <2> QED
    BY <2>1, <2>2
<1> HIDE DEF f
<1>5. Hashed' = Hashed /\ Hashed \subseteq Entries
  <2>1. Hashed \subseteq Files
    BY <1>1, Holds DEF Hashed
  <2> QED
    BY <1>2, <2>1, ChecksumAssumption DEF Hashed
<1>6. /\ s \in Seq(Packets)
      /\ \A j \in 1..Len(s) : s[j].id # "exit" /\ (s[j].id = "stdout" => s[j].of = f)
  <2>1. CASE s = <<Out(f, 1), Out(f, 2)>>
    <3>1. s \in Seq(Packets) /\ Len(s) = 2 /\ s[1] = Out(f, 1) /\ s[2] = Out(f, 2)
      BY <1>4, <1>5, <2>1, PacketTypes
    <3>2. \A j \in 1..Len(s) : j = 1 \/ j = 2
      BY <3>1
    <3>3. /\ Out(f, 1).id = "stdout" /\ Out(f, 1).of = f
          /\ Out(f, 2).id = "stdout" /\ Out(f, 2).of = f
      BY <1>4, <1>5, PacketTypes
    <3> QED
      BY <3>1, <3>2, <3>3
  <2>2. CASE s = <<Complaint>>
    <3>1. s \in Seq(Packets) /\ Len(s) = 1 /\ s[1] = Complaint
      BY <2>2, PacketTypes
    <3>2. \A j \in 1..Len(s) : j = 1
      BY <3>1
    <3>3. Complaint.id = "stderr"
      BY PacketTypes
    <3> QED
      BY <3>1, <3>2, <3>3
  <2> QED
    BY <1>3, <2>1, <2>2
<1>7. wire' = wire \o s
  BY <1>3 DEF Send
<1>8. ASSUME Listening
      PROVE  /\ wire \in Seq(Packets) /\ wire' \in Seq(Packets)
             /\ Len(wire) \in Nat /\ Len(s) \in Nat /\ Len(wire') = Len(wire) + Len(s)
             /\ \A k \in 1..Len(wire') : \/ k \in 1..Len(wire) /\ wire'[k] = wire[k]
                                         \/ \E j \in 1..Len(s) : k = Len(wire) + j /\ wire'[k] = s[j]
             /\ \A p : InWire(p) => InWire(p)'
             /\ \A j \in 1..Len(s) : \A p : p = s[j] => InWire(p)'
             /\ ~Exiting /\ exitCode = -1 /\ ~Exiting'
  <2>1. wire \in Seq(Packets) /\ ~Exiting /\ exitCode = -1
    BY <1>1, <1>8 DEF Talk
  <2>2. /\ wire' \in Seq(Packets)
        /\ Len(wire) \in Nat /\ Len(s) \in Nat /\ Len(wire') = Len(wire) + Len(s)
        /\ \A k \in 1..Len(wire') : \/ k \in 1..Len(wire) /\ wire'[k] = wire[k]
                                    \/ \E j \in 1..Len(s) : k = Len(wire) + j /\ wire'[k] = s[j]
        /\ \A p : InWire(p) => InWire(p)'
        /\ \A j \in 1..Len(s) : \A p : p = s[j] => InWire(p)'
    BY <1>6, <1>7, <2>1, Sent
  <2>3. ~Exiting'
    BY <1>6, <2>1, <2>2 DEF Exiting
  <2> QED
    BY <2>1, <2>2, <2>3
<1>9. trouble' \in BOOLEAN /\ (trouble => trouble')
  <2>1. CASE trouble' = trouble
    BY <1>1, <2>1
  <2>2. CASE trouble' = TRUE
    BY <2>2
  <2> QED
    BY <1>3, <2>1, <2>2
<1>10. SentSoFar' = SentSoFar
  BY <1>2 DEF SentSoFar, SumOver
<1>11. Work'
  BY <1>1, <1>2, <1>4, <1>5, <1>9, <1>10 DEF Work
<1>12. Talk'
  <2> SUFFICES ASSUME Listening PROVE Talk'
    BY <1>2 DEF Talk, Listening
  <2>1. /\ About(wire) /\ stdout \in Seq(Pieces) /\ About(stdout) /\ exitCode \in {-1, 0, 1, 2, Signalled}
    BY <1>1 DEF Talk
  <2>2. About(stdout)'
    BY <1>2, <1>5, <2>1 DEF About
  <2>3. ASSUME NEW k \in 1..Len(wire'), wire'[k].id = "stdout" PROVE wire'[k].of \in Hashed
    <3>1. CASE k \in 1..Len(wire) /\ wire'[k] = wire[k]
      BY <2>1, <2>3, <3>1 DEF About
    <3>2. ASSUME NEW j \in 1..Len(s), wire'[k] = s[j] PROVE wire'[k].of \in Hashed
      BY <1>4, <1>6, <2>3, <3>2
    <3>3. \/ k \in 1..Len(wire) /\ wire'[k] = wire[k]
          \/ \E j \in 1..Len(s) : k = Len(wire) + j /\ wire'[k] = s[j]
      BY <1>8
    <3> QED
      BY <3>1, <3>2, <3>3
  <2>4. About(wire)'
    BY <1>5, <2>3 DEF About
  <2>5. \A k \in 1..Len(wire') : wire'[k].id # "exit"
    BY <1>8 DEF Exiting
  <2> QED
    BY <1>2, <1>8, <2>1, <2>2, <2>4, <2>5 DEF Talk, Exiting
<1>13. Gathered'
  <2> SUFFICES ASSUME ~trouble', NEW j \in 1..SentSoFar
               PROVE  /\ Listening' /\ Intact' => Known(candidates[j]) \/ Due(candidates[j])'
                      /\ pc = "batch" => Known(candidates[j])
    BY <1>2, <1>10 DEF Gathered, Known
  <2>1. ~trouble /\ s = <<Out(f, 1), Out(f, 2)>>
    BY <1>3, <1>9
  <2>2. pc = "batch" => Known(candidates[j])
    BY <1>1, <2>1 DEF Gathered
  <2>3. ASSUME Listening', Intact', ~Known(candidates[j]) PROVE Due(candidates[j])'
    <3>1. Listening /\ Intact
      <4>1. Listening
        BY <1>2, <2>3 DEF Listening
      <4> QED
        BY <1>2, <1>8, <2>3, <4>1 DEF Intact
    <3>2. Due(candidates[j])
      BY <1>1, <2>1, <2>3, <3>1 DEF Gathered
    <3>3. CASE candidates[j] = f
      <4>1. 2 \in 1..Len(s) /\ s[2] = Out(f, 2)
        BY <2>1
      <4> QED
        BY <1>2, <1>8, <3>1, <3>3, <4>1 DEF Due
    <3>4. CASE candidates[j] # f
      BY <1>2, <1>4, <1>8, <3>1, <3>2, <3>4 DEF Due, Whole
    <3> QED
      BY <3>3, <3>4
  <2> QED
    BY <2>2, <2>3
<1>14. Bounded'
  BY <1>1, <1>2 DEF Results, Bounded, SumOver, QuotedLen
<1> QED
  BY <1>1, <1>2, <1>9, <1>11, <1>12, <1>13, <1>14, ResultsStay DEF Comparing

(* The hashing ends with its exit code.                                    *)
LEMMA HashExitKeeps ==
  ASSUME Comparing, HashExit
  PROVE  Comparing'
<1>1. /\ Work /\ Talk /\ Gathered /\ Results /\ phase = "hash" /\ toHash = <<>>
      /\ pc = "read" /\ ~Exiting /\ Listening
  BY DEF Comparing, HashExit, Exiting, Listening
<1>2. /\ link' = link
      /\ UNCHANGED <<pc, stdout, exitCode, phase, local, candidates, batches, toHash, digests,
                     matched, trouble>>
  BY DEF HashExit, Send, program, cvars
<1>3. PICK code \in {0, 1} : Send(<<Exit(code)>>)
  BY DEF HashExit
<1> DEFINE s == <<Exit(code)>>
<1>4. s \in Seq(Packets) /\ Len(s) = 1 /\ s[1].id = "exit" /\ link = "up"
  BY <1>3, PacketTypes DEF Send
<1>5. wire' = wire \o s
  BY <1>3 DEF Send
<1> HIDE DEF s
<1>6. /\ wire \in Seq(Packets) /\ About(wire) /\ stdout \in Seq(Pieces) /\ About(stdout)
      /\ exitCode = -1
  BY <1>1 DEF Talk
<1>7. /\ wire' \in Seq(Packets)
      /\ Len(wire) \in Nat /\ Len(wire') = Len(wire) + 1
      /\ \A k \in 1..Len(wire') : \/ k \in 1..Len(wire) /\ wire'[k] = wire[k]
                                  \/ \E j \in 1..Len(s) : k = Len(wire) + j /\ wire'[k] = s[j]
      /\ \A p : InWire(p) => InWire(p)'
  BY <1>4, <1>5, <1>6, Sent
<1>8. ASSUME NEW k \in 1..Len(wire') PROVE \/ k \in 1..Len(wire) /\ wire'[k] = wire[k]
                                           \/ k = Len(wire') /\ wire'[k].id = "exit"
  BY <1>4, <1>7
<1>9. Hashed' = Hashed /\ SentSoFar' = SentSoFar
  BY <1>2 DEF Hashed, SentSoFar, SumOver
<1>10. Work'
  BY <1>1, <1>2, <1>9 DEF Work
<1>11. Talk'
  <2>1. \A k \in 1..Len(wire') : wire'[k].id = "exit" => k = Len(wire')
    BY <1>1, <1>8 DEF Exiting
  <2>2. \A k \in 1..Len(wire') : wire'[k].id = "stdout" => wire'[k].of \in Hashed
    BY <1>6, <1>8 DEF About
  <2>3. \A k \in 1..Len(stdout') : stdout'[k].id = "stdout" => stdout'[k].of \in Hashed
    BY <1>2, <1>6 DEF About
  <2> QED
    BY <1>1, <1>2, <1>6, <1>7, <1>9, <2>1, <2>2, <2>3 DEF Talk, About
<1>12. Gathered'
  <2> SUFFICES ASSUME ~trouble, NEW j \in 1..SentSoFar
               PROVE  Known(candidates[j]) \/ Due(candidates[j])'
    BY <1>1, <1>2, <1>9 DEF Gathered, Known
  <2>1. Known(candidates[j]) \/ Due(candidates[j])
    BY <1>1, <1>4 DEF Gathered, Intact
  <2> QED
    BY <1>2, <1>7, <2>1 DEF Due, Whole
<1>13. Bounded'
  BY <1>1, <1>2 DEF Results, Bounded, SumOver, QuotedLen
<1> QED
  BY <1>1, <1>2, <1>10, <1>11, <1>12, <1>13, ResultsStay DEF Comparing, Work

(* The answer is read.                                                     *)
LEMMA AnswerKeeps ==
  ASSUME Comparing, ReadPacket, phase = "hash", UNCHANGED cvars
  PROVE  Comparing'
<1> DEFINE p == wire[1]
<1>1. /\ Work /\ Gathered /\ Results /\ pc = "read" /\ Listening /\ wire # <<>>
      /\ wire \in Seq(Packets) /\ About(wire) /\ stdout \in Seq(Pieces) /\ About(stdout)
      /\ exitCode = -1 /\ wire' = Tail(wire) /\ link' = link
      /\ \A k \in 1..Len(wire) : wire[k].id = "exit" => k = Len(wire) /\ toHash = <<>>
  BY DEF Comparing, ReadPacket, Listening, Talk, Exiting
<1>2. UNCHANGED <<phase, local, candidates, batches, toHash, digests, matched, trouble>>
  BY DEF cvars
<1>3. /\ wire' \in Seq(Packets) /\ Head(wire) = p /\ p \in Packets
      /\ Len(wire) \in Nat \ {0} /\ Len(wire') = Len(wire) - 1
      /\ \A k \in 1..Len(wire') : k + 1 \in 1..Len(wire) /\ wire'[k] = wire[k + 1]
      /\ \A q : InWire(q) => q = p \/ InWire(q)'
  BY <1>1, Received
<1>4. /\ p.id \in {"stdout", "stderr", "exit", "unknown"}
      /\ p.id = "stdout" => p \in Pieces /\ p = Out(p.of, p.half)
      /\ p.id = "exit" => p.code \in {0, 1, 2, Signalled}
  BY <1>3, PacketParts
<1>5. /\ stdout' = IF p.id = "stdout" THEN Append(stdout, p) ELSE stdout
      /\ exitCode' = IF p.id = "exit" THEN p.code ELSE exitCode
      /\ pc' = IF p.id = "exit" THEN "judge" ELSE "read"
  BY <1>3 DEF ReadPacket
<1>6. 1 \in 1..Len(wire) /\ wire[1] = p
  BY <1>3
<1> HIDE DEF p
<1>7. /\ stdout' \in Seq(Pieces) /\ Len(stdout) \in Nat
      /\ \A k \in 1..Len(stdout) : k \in 1..Len(stdout') /\ stdout'[k] = stdout[k]
      /\ p.id = "stdout" => /\ Len(stdout') = Len(stdout) + 1
                            /\ stdout'[Len(stdout')] = p /\ Len(stdout') \in 1..Len(stdout')
      /\ p.id # "stdout" => stdout' = stdout
  BY <1>1, <1>4, <1>5, AppendProperties
<1>8. Hashed' = Hashed /\ SentSoFar' = SentSoFar
  BY <1>2 DEF Hashed, SentSoFar, SumOver
<1>9. Work'
  BY <1>1, <1>2, <1>5, <1>8 DEF Work
<1>10. p.id = "exit" => wire' = <<>> /\ toHash = <<>> /\ Exiting
  <2> SUFFICES ASSUME p.id = "exit" PROVE wire' = <<>> /\ toHash = <<>> /\ Exiting
    OBVIOUS
  <2>1. 1 = Len(wire) /\ toHash = <<>> /\ Exiting
    BY <1>1, <1>6 DEF Exiting
  <2>2. Len(wire') = Len(wire) - 1
    BY <1>3
  <2>3. Len(wire') = 0
    BY <2>1, <2>2
  <2>4. wire' = <<>>
    BY <1>3, <2>3, EmptySeq
  <2> QED
    BY <2>1, <2>4
<1>11. Talk'
  <2>1. \A k \in 1..Len(wire') : wire'[k].id = "stdout" => wire'[k].of \in Hashed
    BY <1>1, <1>3 DEF About
  <2>2. ASSUME NEW k \in 1..Len(stdout'), stdout'[k].id = "stdout" PROVE stdout'[k].of \in Hashed
    <3>1. CASE k \in 1..Len(stdout)
      BY <1>1, <1>7, <2>2, <3>1 DEF About
    <3>2. CASE k \notin 1..Len(stdout)
      <4>1. p.id = "stdout" /\ stdout'[k] = p
        BY <1>7, <3>2
      <4> QED
        BY <1>1, <1>6, <4>1 DEF About
    <3> QED
      BY <3>1, <3>2
  <2>3. ASSUME NEW k \in 1..Len(wire'), wire'[k].id = "exit"
        PROVE  k = Len(wire') /\ toHash = <<>>
    <3>1. k + 1 = Len(wire) /\ toHash = <<>>
      BY <1>1, <1>3, <2>3
    <3> QED
      BY <1>3, <3>1
  <2>4. exitCode' # -1 => toHash = <<>> /\ wire' = <<>> /\ pc' = "judge"
    BY <1>1, <1>5, <1>10
  <2>5. exitCode' \in {-1, 0, 1, 2, Signalled}
    BY <1>1, <1>4, <1>5
  <2>6. About(wire)' /\ About(stdout)'
    BY <1>8, <2>1, <2>2 DEF About
  <2>7. \A k \in 1..Len(wire') : wire'[k].id = "exit" => k = Len(wire')
    BY <2>3
  <2>8. Exiting' => toHash' = <<>>
    BY <1>2, <2>3 DEF Exiting
  <2> QED
    BY <1>2, <1>3, <1>7, <2>4, <2>5, <2>6, <2>7, <2>8 DEF Talk
<1>12. Gathered'
  <2> SUFFICES ASSUME ~trouble, NEW j \in 1..SentSoFar, Intact', ~Known(candidates[j])
               PROVE  Due(candidates[j])'
    BY <1>1, <1>2, <1>5, <1>8 DEF Gathered, Known
  <2>1. Intact
    <3>1. Exiting' => Exiting
      BY <1>3 DEF Exiting
    <3> QED
      BY <1>1, <1>5, <1>10, <3>1 DEF Intact
  <2>2. Due(candidates[j])
    BY <1>1, <2>1 DEF Gathered
  <2>3. Whole \subseteq Whole'
    BY <1>7 DEF Whole
  <2>4. CASE p = Out(candidates[j], 2)
    <3>1. p.id = "stdout" /\ p.of = candidates[j] /\ p.half = 2
      BY <2>4 DEF Out
    <3>2. candidates[j] \in Whole'
      BY <1>7, <3>1 DEF Whole
    <3> QED
      BY <1>2, <3>2 DEF Due
  <2>5. CASE p # Out(candidates[j], 2)
    BY <1>2, <1>3, <2>2, <2>3, <2>5 DEF Due
  <2> QED
    BY <2>4, <2>5
<1>13. Bounded'
  BY <1>1, <1>2 DEF Results, Bounded, SumOver, QuotedLen
<1> QED
  BY <1>1, <1>2, <1>9, <1>11, <1>12, <1>13, ResultsStay DEF Comparing, Work

(* The stream ends, or is lost.                                            *)
LEMMA EndKeeps ==
  ASSUME Comparing, phase = "hash", pc = "read", UNCHANGED cvars,
         \/ ReadEnd
         \/ Lose
  PROVE  Comparing'
<1>1. /\ Work /\ Talk /\ Gathered /\ Results /\ Listening
      /\ wire \in Seq(Packets) /\ About(wire) /\ stdout \in Seq(Pieces) /\ About(stdout)
      /\ exitCode = -1
      /\ \A k \in 1..Len(wire) : wire[k].id = "exit" => k = Len(wire)
  BY DEF Comparing, Listening, Talk
<1>2. /\ UNCHANGED <<phase, local, candidates, batches, toHash, digests, matched, trouble>>
      /\ UNCHANGED <<stdout, exitCode>> /\ pc' \in {"read", "judge", "failed"}
  BY DEF cvars, ReadEnd, Lose, program
<1>3. /\ wire' \in Seq(Packets)
      /\ \A k \in 1..Len(wire') : k \in 1..Len(wire) /\ wire'[k] = wire[k]
      /\ Exiting' => wire' = wire
      /\ Exiting' => Exiting
      /\ link' = "up" => wire' = wire /\ link = "up"
  <2>1. CASE ReadEnd
    <3>1. wire' = wire /\ link' = link
      BY <2>1 DEF ReadEnd
    <3> QED
      BY <1>1, <3>1 DEF Exiting
  <2>2. CASE Lose
    <3>1. link' # "up"
      BY <2>2 DEF Lose
    <3> QED
      BY <1>1, <2>2, <3>1, Lost
  <2> QED
    BY <2>1, <2>2
<1>4. Hashed' = Hashed /\ SentSoFar' = SentSoFar
  BY <1>2 DEF Hashed, SentSoFar, SumOver
<1>5. Work'
  BY <1>1, <1>2, <1>4 DEF Work
<1>6. Talk'
  <2>1. About(wire)' /\ About(stdout)'
    BY <1>1, <1>2, <1>3, <1>4 DEF About
  <2>2. \A k \in 1..Len(wire') : wire'[k].id = "exit" => k = Len(wire')
    BY <1>1, <1>3 DEF Exiting
  <2>3. Exiting' => toHash' = <<>>
    BY <1>1, <1>2, <1>3 DEF Talk
  <2> QED
    BY <1>1, <1>2, <1>3, <2>1, <2>2, <2>3 DEF Talk
<1>7. Gathered'
  <2> SUFFICES ASSUME ~trouble, NEW j \in 1..SentSoFar, Intact', ~Known(candidates[j])
               PROVE  Due(candidates[j])'
    BY <1>1, <1>2, <1>4 DEF Gathered, Known
  <2>1. Intact /\ wire' = wire
    BY <1>1, <1>2, <1>3 DEF Intact
  <2>2. Due(candidates[j])
    BY <1>1, <2>1 DEF Gathered
  <2> QED
    BY <1>2, <2>1, <2>2 DEF Due, Whole, InWire
<1>8. Bounded'
  BY <1>1, <1>2 DEF Results, Bounded, SumOver, QuotedLen
<1> QED
  BY <1>1, <1>2, <1>5, <1>6, <1>7, <1>8, ResultsStay DEF Comparing, Work

(* Every line read says what the file of some line holds.                  *)
LEMMA LinesRight ==
  ASSUME stdout \in Seq(Pieces), About(stdout)
  PROVE  /\ \A path \in DOMAIN Lines :
              \E g \in Hashed : ReadsAs(g, path) /\ Lines[path] = Content[g]
         /\ \A f \in Whole : Spelled[f] \in DOMAIN Lines
<1>1. Len(stdout) \in Nat /\ \A k \in 1..Len(stdout) : stdout[k] \in Pieces
  BY LenProperties
<1>2. \A k \in 1..Len(stdout) : stdout[k].of \in Hashed
  BY <1>1 DEF Pieces, About
<1>3. Finished \subseteq 1..Len(stdout) /\ IsFiniteSet(1..Len(stdout))
  BY <1>1, FS_Interval DEF Finished
<1>4. ASSUME NEW path \in DOMAIN Lines
      PROVE  \E g \in Hashed : ReadsAs(g, path) /\ Lines[path] = Content[g]
  <2> DEFINE K == {k \in Finished : PathAt(k) = path}
  <2>1. K # {} /\ Lines[path] = Content[stdout[Max(K)].of]
    BY <1>4 DEF Lines
  <2>2. K \subseteq 1..Len(stdout) /\ K \in SUBSET Int /\ IsFiniteSet(K)
    <3>1. K \subseteq 1..Len(stdout)
      BY <1>3
    <3> QED
      BY <1>1, <1>3, <3>1, FS_Subset
  <2>3. Max(K) \in K
    BY <2>1, <2>2, MaxIsMember
  <2> DEFINE g == stdout[Max(K)].of
  <2>4. g \in Hashed /\ Spelled[g] = path /\ Lines[path] = Content[g]
    BY <1>2, <1>3, <2>1, <2>3 DEF PathAt
  <2> QED
    BY <2>4 DEF ReadsAs
<1>5. ASSUME NEW f \in Whole PROVE Spelled[f] \in DOMAIN Lines
  <2>1. PICK k \in 1..Len(stdout) : stdout[k].half = 2 /\ stdout[k].of = f
    BY DEF Whole
  <2>2. k \in Finished /\ PathAt(k) = Spelled[f]
    BY <2>1 DEF Finished, PathAt
  <2> QED
    BY <2>2 DEF Lines
<1> QED
  BY <1>4, <1>5

(* So does a line that broke off.                                          *)
LEMMA BrokenRight ==
  ASSUME stdout \in Seq(Pieces), About(stdout), NEW broken \in BrokenLines
  PROVE  \A path \in DOMAIN broken :
           \E g \in Hashed : ReadsAs(g, path) /\ broken[path] = Content[g]
<1>1. CASE broken = <<>>
  BY <1>1
<1>2. CASE broken # <<>>
  <2> DEFINE f == Last(stdout).of
  <2>1. CutShort /\ \E n \in {f} \union CutTo[f] : broken = [path \in {n} |-> Content[f]]
    BY <1>2 DEF BrokenLines
  <2>2. PICK n \in {f} \union CutTo[f] : broken = [path \in {n} |-> Content[f]]
    BY <2>1
  <2>3. Len(stdout) \in 1..Len(stdout) /\ Last(stdout) = stdout[Len(stdout)]
    BY <2>1, EmptySeq DEF CutShort, Last
  <2>4. stdout[Len(stdout)] \in Pieces
    BY <2>3, ElementOfSeq
  <2>5. f \in Hashed
    BY <2>3, <2>4 DEF Pieces, About
  <2>6. \A path \in DOMAIN broken : path = n /\ broken[path] = Content[f]
    BY <2>2
  <2> QED
    BY <2>5, <2>6 DEF ReadsAs
<1> QED
  BY <1>1, <1>2

(* What the lines of a command say is kept.                                *)
LEMMA ParseKeeps ==
  ASSUME Comparing, Parse
  PROVE  Comparing'
<1>1. /\ Work /\ Gathered /\ Results /\ phase = "hash" /\ pc = "judge" /\ pc' = "batch" /\ Listening
      /\ stdout \in Seq(Pieces) /\ About(stdout) /\ exitCode \in {-1, 0, 1, 2, Signalled}
      /\ exitCode # -1 => toHash = <<>> /\ wire = <<>>
      /\ candidates \in Seq(Files) /\ SentSoFar \in 0..Len(candidates) /\ trouble \in BOOLEAN
  BY DEF Comparing, Parse, Listening, Talk, Work
<1>2. PICK broken \in BrokenLines : digests' = Insert(Insert(digests, Lines), broken)
  BY DEF Parse
<1>3. /\ UNCHANGED <<wire, stdout, exitCode, local, candidates, batches, toHash, matched>>
      /\ phase' = IF Pending = <<>> THEN "compare" ELSE "hash"
      /\ trouble' = (trouble \/ exitCode = -1)
  BY DEF Parse
<1>4. Hashed' = Hashed /\ SentSoFar' = SentSoFar
  BY <1>3 DEF Hashed, SentSoFar, SumOver
<1>5. /\ Pending = <<>> <=> SentSoFar = Len(candidates)
      /\ Len(candidates) \in Nat
  BY <1>1, PendingIs, LenProperties
<1>6. /\ phase' = "hash" => SentSoFar < Len(candidates)
      /\ phase' = "compare" => SentSoFar = Len(candidates)
  <2>1. CASE SentSoFar = Len(candidates)
    BY <1>3, <1>5, <2>1
  <2>2. CASE SentSoFar # Len(candidates)
    BY <1>1, <1>3, <1>5, <2>2
  <2> QED
    BY <2>1, <2>2
<1>7. phase' \in {"hash", "compare"} /\ trouble' \in BOOLEAN /\ matched = <<>>
  BY <1>1, <1>3 DEF Work
<1>8. Work'
  BY <1>1, <1>3, <1>4, <1>6, <1>7 DEF Work
<1>9. Talk'
  BY <1>1 DEF Talk, Listening
<1>10. /\ DOMAIN digests' = DOMAIN digests \union DOMAIN Lines \union DOMAIN broken
       /\ \A path \in DOMAIN digests' :
            \/ path \in DOMAIN broken /\ digests'[path] = broken[path]
            \/ path \in DOMAIN Lines /\ digests'[path] = Lines[path]
            \/ path \in DOMAIN digests /\ digests'[path] = digests[path]
  <2> DEFINE first == Insert(digests, Lines)
  <2>1. /\ DOMAIN first = DOMAIN digests \union DOMAIN Lines
        /\ \A path \in DOMAIN first :
             first[path] = IF path \in DOMAIN Lines THEN Lines[path] ELSE digests[path]
    BY DEF Insert
  <2> HIDE DEF first
  <2>2. /\ DOMAIN digests' = DOMAIN first \union DOMAIN broken
        /\ \A path \in DOMAIN digests' :
             digests'[path] = IF path \in DOMAIN broken THEN broken[path] ELSE first[path]
    BY <1>2 DEF Insert, first
  <2> QED
    BY <2>1, <2>2
<1>11. Gathered'
  <2> SUFFICES ASSUME ~trouble', NEW j \in 1..SentSoFar
               PROVE  Spelled[candidates[j]] \in DOMAIN digests'
    BY <1>1, <1>3, <1>4 DEF Gathered, Known, Listening
  <2>1. ~trouble /\ exitCode # -1 /\ toHash = <<>> /\ wire = <<>>
    BY <1>1, <1>3
  <2>2. Known(candidates[j]) \/ Due(candidates[j])
    BY <1>1, <2>1 DEF Gathered, Intact
  <2>3. ToSet(toHash) = {} /\ ~InWire(Out(candidates[j], 2))
    BY <2>1, EmptySeq DEF ToSet, InWire
  <2>4. CASE Known(candidates[j])
    BY <1>10, <2>4 DEF Known
  <2>5. CASE candidates[j] \in Whole
    BY <1>1, <1>10, <2>5, LinesRight
  <2> QED
    BY <2>2, <2>3, <2>4, <2>5 DEF Due
<1>12. Right'
  <2> SUFFICES ASSUME NEW path \in DOMAIN digests'
               PROVE  \E g \in Hashed : ReadsAs(g, path) /\ digests'[path] = Content[g]
    BY <1>4 DEF Right, ReadsAs
  <2>1. CASE path \in DOMAIN broken /\ digests'[path] = broken[path]
    BY <1>1, <2>1, BrokenRight
  <2>2. CASE path \in DOMAIN Lines /\ digests'[path] = Lines[path]
    BY <1>1, <2>2, LinesRight
  <2>3. CASE path \in DOMAIN digests /\ digests'[path] = digests[path]
    BY <1>1, <2>3 DEF Results, Right
  <2> QED
    BY <1>10, <2>1, <2>2, <2>3
<1>13. MatchedMeansEqual' /\ Exact' /\ Bounded'
  <2>1. matched' = <<>> /\ Len(matched') = 0
    BY <1>3, <1>7, EmptySeq
  <2>2. Bounded'
    BY <1>1, <1>3 DEF Results, Bounded, SumOver, QuotedLen
  <2> QED
    BY <2>1, <2>2 DEF MatchedMeansEqual, Exact
<1> QED
  BY <1>7, <1>8, <1>9, <1>11, <1>12, <1>13 DEF Comparing, Results

(* A digest of a file that no other file can be read as is its own.        *)
LEMMA DigestIsOwn ==
  ASSUME Right, NEW f \in Hashed, ~Misreadable(f), f \in DOMAIN digests
  PROVE  digests[f] = Content[f]
<1>1. PICK g \in Hashed : ReadsAs(g, f) /\ digests[f] = Content[g]
  BY DEF Right
<1>2. g = f
  BY <1>1 DEF ReadsAs, Misreadable, Hashed
<1> QED
  BY <1>1, <1>2

(* A destination is compared.                                              *)
LEMMA CompareNextKeeps ==
  ASSUME Comparing, CompareNext
  PROVE  Comparing'
<1> DEFINE d == Len(matched)
<1>1. /\ Work /\ Gathered /\ Results /\ phase = "compare" /\ pc = "batch"
      /\ candidates \in Seq(Files) /\ trouble \in BOOLEAN /\ matched \in Seq(SUBSET Hashed)
      /\ SentSoFar = Len(candidates)
  BY DEF Comparing, Work, CompareNext
<1>2. PICK unreadable : 
        /\ matched' = Append(matched, {f \in ToSet(candidates) \intersect Present(d) :
                                         f \notin unreadable /\ SameDigest(d, f)})
        /\ trouble' = (trouble \/ unreadable # {})
  BY DEF CompareNext
<1>3. /\ UNCHANGED <<pc, local, candidates, batches, toHash, digests>>
      /\ phase' \in {"compare", "done"}
  BY DEF CompareNext, vars
<1> DEFINE M == {f \in ToSet(candidates) \intersect Present(d) :
                   f \notin unreadable /\ SameDigest(d, f)}
<1>4. M \subseteq Hashed
  BY DEF Hashed
<1>5. /\ \A f \in M : f \in DOMAIN digests /\ digests[f] = local[d][f]
      /\ \A f \in Hashed : f \in M <=> /\ f \in Present(d) /\ f \notin unreadable
                                       /\ f \in DOMAIN digests /\ digests[f] = local[d][f]
  BY DEF Hashed, SameDigest
<1>6. matched' = Append(matched, M)
  BY <1>2
<1> HIDE DEF M
<1>7. /\ matched' \in Seq(SUBSET Hashed) /\ d \in Nat /\ Len(matched') = d + 1
      /\ \A k \in 1..d : matched'[k] = matched[k]
      /\ matched'[d + 1] = M /\ (d + 1) - 1 = d
  BY <1>1, <1>4, <1>6, AppendProperties, LenProperties
<1>8. \A k \in 1..(d + 1) : k \in 1..d \/ k = d + 1
  BY <1>7
<1> HIDE DEF d
<1>9. /\ Hashed' = Hashed /\ SentSoFar' = SentSoFar /\ Hashed \subseteq Files
      /\ \A f : Misreadable(f)' <=> Misreadable(f)
  BY <1>1, <1>3, Holds DEF Hashed, SentSoFar, SumOver, Misreadable
<1>10. trouble' \in BOOLEAN /\ (~trouble' => ~trouble /\ unreadable = {})
  BY <1>1, <1>2
<1>11. Work'
  BY <1>1, <1>3, <1>7, <1>9, <1>10 DEF Work
<1>12. Talk'
  BY <1>3 DEF Talk, Listening
<1>13. Gathered'
  BY <1>1, <1>3, <1>9, <1>10 DEF Gathered, Known, Listening
<1>14. Right' /\ Bounded'
  BY <1>1, <1>3, <1>9 DEF Results, Right, ReadsAs, Bounded, SumOver, QuotedLen
<1>15. MatchedMeansEqual'
  <2> SUFFICES ASSUME NEW k \in 1..(d + 1), NEW f \in matched'[k]
               PROVE  local[k - 1][f] = Content[f] \/ Misreadable(f)
    BY <1>3, <1>7, <1>9 DEF MatchedMeansEqual
  <2>1. CASE k \in 1..d
    BY <1>1, <1>7, <2>1 DEF Results, MatchedMeansEqual, d
  <2>2. CASE k = d + 1
    <3>1. f \in M /\ k - 1 = d
      BY <1>7, <2>2
    <3>2. f \in Hashed /\ f \in DOMAIN digests /\ digests[f] = local[d][f]
      BY <1>4, <1>5, <3>1
    <3> QED
      BY <1>1, <3>1, <3>2, DigestIsOwn DEF Results
  <2> QED
    BY <1>8, <2>1, <2>2
<1>16. Exact'
  <2> SUFFICES ASSUME ~trouble, unreadable = {}, NEW k \in 1..(d + 1), NEW f \in Hashed,
                      ~Misreadable(f), Spelled[f] = f
               PROVE  f \in matched'[k] <=> local[k - 1][f] = Content[f]
    BY <1>3, <1>7, <1>9, <1>10 DEF Exact
  <2>1. CASE k \in 1..d
    BY <1>1, <1>7, <2>1 DEF Results, Exact, d
  <2>2. CASE k = d + 1
    <3>1. matched'[k] = M /\ k - 1 = d
      BY <1>7, <2>2
    <3>2. PICK j \in 1..Len(candidates) : candidates[j] = f
      BY <1>1, Holds DEF Hashed
    <3>3. f \in DOMAIN digests
      BY <1>1, <3>2 DEF Gathered, Known
    <3>4. digests[f] = Content[f]
      BY <1>1, <3>3, DigestIsOwn DEF Results
    <3>5. f \in Files /\ Content[f] # Absent
      BY <1>9, ChecksumAssumption
    <3>6. local[d][f] = Content[f] => f \in Present(d)
      BY <3>5 DEF Present
    <3>7. f \in M <=> local[d][f] = Content[f]
      BY <1>5, <3>3, <3>4, <3>6
    <3> QED
      BY <3>1, <3>7
  <2> QED
    BY <1>8, <2>1, <2>2
<1>17. phase' # "scan"
  BY <1>3
<1> QED
  BY <1>11, <1>12, <1>13, <1>14, <1>15, <1>16, <1>17 DEF Comparing, Results

(* Every step of the comparison keeps the invariant.                       *)
LEMMA CompareKeeps ==
  ASSUME CompareInv, [CNext]_allVars
  PROVE  CompareInv'
<1>1. CASE phase = "scan"
  <2>1. ScanInv /\ Fresh
    BY <1>1 DEF CompareInv, Comparing
  <2>2. CASE [Next]_vars /\ UNCHANGED cvars
    <3>1. ScanInv'
      BY <2>1, <2>2, ScanStep
    <3>2. phase' = "scan" /\ Fresh'
      BY <1>1, <2>1, <2>2 DEF cvars, Fresh
    <3> QED
      BY <3>1, <3>2 DEF CompareInv
  <2>3. CASE Scanning \/ Reading \/ Losing
    <3>1. Next /\ UNCHANGED cvars
      BY <2>3 DEF Scanning, Reading, Losing, Next, ProgramStep
    <3> QED
      BY <2>2, <3>1
  <2>4. CASE Start
    BY <2>1, <2>4, StartKeeps DEF CompareInv
  <2>5. CASE Done \/ UNCHANGED allVars
    <3>1. UNCHANGED allVars
      BY <2>5 DEF Done
    <3>2. UNCHANGED vars /\ UNCHANGED cvars
      BY <3>1 DEF allVars
    <3> QED
      BY <2>2, <3>2
  <2> QED
    BY <1>1, <2>3, <2>4, <2>5 DEF CNext, CompareStep, RunBatch, RunBatchFails, Hash, HashExit,
                                  Parse, CompareNext
<1>2. CASE phase # "scan"
  <2>1. Comparing /\ Work /\ pc # "accepted" /\ phase \in {"hash", "compare", "done"}
    BY <1>2 DEF CompareInv, Comparing, Work
  <2> SUFFICES Comparing'
    BY DEF CompareInv
  <2>2. CASE Reading
    <3>1. phase = "hash" /\ UNCHANGED cvars /\ (ReadPacket \/ ReadEnd)
      BY <1>2, <2>2 DEF Reading
    <3>2. CASE ReadPacket
      BY <2>1, <3>1, <3>2, AnswerKeeps
    <3>3. CASE ReadEnd
      <4>1. pc = "read"
        BY <3>3 DEF ReadEnd
      <4> QED
        BY <2>1, <3>1, <3>3, <4>1, EndKeeps
    <3> QED
      BY <3>1, <3>2, <3>3
  <2>3. CASE Losing
    <3>1. phase = "hash" /\ pc = "read" /\ UNCHANGED cvars /\ Lose
      BY <1>2, <2>3 DEF Losing
    <3> QED
      BY <2>1, <3>1, EndKeeps
  <2>4. CASE RunBatch
    BY <2>1, <2>4, RunBatchKeeps
  <2>5. CASE RunBatchFails
    <3>1. /\ Work /\ Gathered /\ Results /\ phase = "hash" /\ pc = "batch" /\ pc' = "failed"
          /\ UNCHANGED <<phase, local, candidates, batches, toHash, digests, matched, trouble>>
      BY <2>1, <2>5 DEF RunBatchFails, cvars, Comparing
    <3>2. Hashed' = Hashed /\ SentSoFar' = SentSoFar
      BY <3>1 DEF Hashed, SentSoFar, SumOver
    <3>3. Work'
      BY <3>1, <3>2 DEF Work
    <3>4. Talk' /\ Gathered'
      BY <3>1 DEF Talk, Gathered, Listening
    <3>5. Bounded'
      BY <3>1 DEF Results, Bounded, SumOver, QuotedLen
    <3> QED
      BY <3>1, <3>3, <3>4, <3>5, ResultsStay DEF Comparing, Work
  <2>6. CASE Hash
    BY <2>1, <2>6, HashKeeps
  <2>7. CASE HashExit
    BY <2>1, <2>7, HashExitKeeps
  <2>8. CASE Parse
    BY <2>1, <2>8, ParseKeeps
  <2>9. CASE CompareNext
    BY <2>1, <2>9, CompareNextKeeps
  <2>10. CASE Done \/ UNCHANGED allVars
    <3>1. UNCHANGED allVars
      BY <2>10 DEF Done
    <3>2. /\ UNCHANGED <<phase, local, candidates, batches, toHash, digests, matched, trouble>>
          /\ UNCHANGED <<wire, link, pc, stdout, exitCode>>
          /\ Work /\ Talk /\ Gathered /\ Results
      BY <2>1, <3>1 DEF allVars, cvars, vars, Comparing
    <3>3. Hashed' = Hashed /\ SentSoFar' = SentSoFar
      BY <3>2 DEF Hashed, SentSoFar, SumOver
    <3>4. Work'
      BY <3>2, <3>3 DEF Work
    <3>5. Talk'
      BY <3>2, <3>3 DEF Talk, Listening, About, Exiting
    <3>6. \A f : (Due(f)' <=> Due(f)) /\ (Known(f)' <=> Known(f))
      BY <3>2 DEF Due, Known, InWire, Whole
    <3>7. Intact' <=> Intact
      BY <3>2 DEF Intact, Exiting
    <3>8. Gathered'
      BY <3>2, <3>3, <3>6, <3>7 DEF Gathered, Listening
    <3>9. Bounded'
      BY <3>2 DEF Results, Bounded, SumOver, QuotedLen
    <3> QED
      BY <1>2, <3>2, <3>4, <3>5, <3>8, <3>9, ResultsStay DEF Comparing, Work
  <2> QED
    BY <1>2, <2>2, <2>3, <2>4, <2>5, <2>6, <2>7, <2>8, <2>9, <2>10
       DEF CNext, CompareStep, Scanning, Start
<1> QED
  BY <1>1, <1>2

(* The inductive invariant of the comparison.                              *)
THEOREM ComparisonInvariance == CSpec => []CompareInv
<1>1. CInit => CompareInv
  BY InitScan DEF CInit, CompareInv, Fresh
<1> QED
  BY <1>1, CompareKeeps, PTL DEF CSpec

(* In a run that goes on to compare by content, what was accepted before   *)
(* is the whole tree likewise.                                             *)
THEOREM AcceptedBeforeComparing == CSpec => []AcceptedIsComplete
<1>1. CompareInv => AcceptedIsComplete
  BY DEF CompareInv, Comparing, Work, ScanInv, AcceptedIsComplete
<1> QED
  BY <1>1, ComparisonInvariance, PTL

(* Whatever fails in between, a copy taken for equal is equal, or another  *)
(* file's line can be read as the file's own.                              *)
THEOREM MatchedCorrect == CSpec => []MatchedMeansEqual
<1>1. ASSUME Fresh PROVE MatchedMeansEqual
  <2>1. Len(matched) = 0
    BY <1>1, EmptySeq DEF Fresh
  <2> QED
    BY <2>1 DEF MatchedMeansEqual
<1>2. CompareInv => MatchedMeansEqual
  BY <1>1 DEF CompareInv, Comparing, Results
<1> QED
  BY <1>2, ComparisonInvariance, PTL

(* When all was hashed, exactly the equal files match.                     *)
THEOREM EqualCorrect == CSpec => []EqualIsMatched
<1>1. CompareInv => EqualIsMatched
  BY DEF CompareInv, Comparing, Results, Exact, EqualIsMatched, Hashed
<1> QED
  BY <1>1, ComparisonInvariance, PTL

-----------------------------------------------------------------------------
(* What is left of a command's length when every quote of it is counted.   *)
LEMMA LengthBound ==
  ASSUME QuotesFit, NEW s \in Seq(Files)
  PROVE  /\ RequestLen(s) \in Int /\ SumOver(QuotedLen, s) \in Int
         /\ RequestLen(s) + 13 * Len(s) =< 4 * SumOver(QuotedLen, s) + 22
         /\ Len(s) = 1 => RequestLen(s) =< MaxRequest
<1> DEFINE g == [k \in 1..Len(s) |-> PathLen[s[k]] + 4]
           h == [k \in 1..Len(s) |-> PathLen[s[k]] + 3 + 3 * Quotes[s[k]]]
           n == Len(s)
<1>1. n \in Nat /\ \A k \in 1..n : s[k] \in Files
  BY LenProperties
<1>2. /\ DOMAIN g = 1..n /\ DOMAIN h = 1..n
      /\ \A k \in 1..n : g[k] \in Int /\ h[k] \in Int /\ h[k] + 13 =< 4 * g[k]
  <2> SUFFICES ASSUME NEW k \in 1..n PROVE g[k] \in Int /\ h[k] \in Int /\ h[k] + 13 =< 4 * g[k]
    OBVIOUS
  <2>1. /\ PathLen[s[k]] \in Nat /\ Quotes[s[k]] \in Nat /\ Quotes[s[k]] =< PathLen[s[k]]
    BY <1>1, ChecksumAssumption DEF QuotesFit
  <2>2. g[k] = PathLen[s[k]] + 4 /\ h[k] = PathLen[s[k]] + 3 + 3 * Quotes[s[k]]
    OBVIOUS
  <2> QED
    BY SMTT(60), <2>1, <2>2
<1>3. n = 1 => h[1] + 22 =< MaxRequest
  <2> SUFFICES ASSUME n = 1 PROVE h[1] + 22 =< MaxRequest
    OBVIOUS
  <2>1. s[1] \in Files /\ h[1] = PathLen[s[1]] + 3 + 3 * Quotes[s[1]]
    BY <1>1
  <2>2. PathLen[s[1]] \in Nat /\ Quotes[s[1]] \in Nat /\ MaxRequest \in Nat
        /\ PathLen[s[1]] + 3 * Quotes[s[1]] + 25 =< MaxRequest
    BY <2>1, ChecksumAssumption DEF QuotesFit
  <2> QED
    BY <2>1, <2>2
<1>4. SumOver(QuotedLen, s) = SumFunctionOnSet(g, 1..n)
  BY <1>2 DEF SumOver, SumFunction, QuotedLen
<1>5. RequestLen(s) = SumFunctionOnSet(h, 1..n) + 9 + 13
  BY <1>2 DEF RequestLen, SumOver, SumFunction
<1> HIDE DEF g, h, n
<1> DEFINE T == {m \in Nat : m =< n =>
                   /\ SumFunctionOnSet(g, 1..m) \in Int /\ SumFunctionOnSet(h, 1..m) \in Int
                   /\ SumFunctionOnSet(h, 1..m) + 13 * m =< 4 * SumFunctionOnSet(g, 1..m)}
<1>6. 0 \in T
  <2>1. 1..0 = {}
    OBVIOUS
  <2> QED
    BY <2>1, SumEmpty
<1>7. ASSUME NEW m \in T PROVE m + 1 \in T
  <2> SUFFICES ASSUME m + 1 =< n
               PROVE  /\ SumFunctionOnSet(g, 1..(m + 1)) \in Int /\ SumFunctionOnSet(h, 1..(m + 1)) \in Int
                      /\ SumFunctionOnSet(h, 1..(m + 1)) + 13 * (m + 1)
                           =< 4 * SumFunctionOnSet(g, 1..(m + 1))
    OBVIOUS
  <2>1. m \in Nat /\ m =< n /\ m + 1 \in 1..n
    BY <1>1
  <2>2. /\ SumFunctionOnSet(g, 1..m) \in Int /\ SumFunctionOnSet(h, 1..m) \in Int
        /\ SumFunctionOnSet(h, 1..m) + 13 * m =< 4 * SumFunctionOnSet(g, 1..m)
    BY <2>1
  <2>3. /\ g[m + 1] \in Int /\ h[m + 1] \in Int /\ h[m + 1] + 13 =< 4 * g[m + 1]
    BY <1>2, <2>1
  <2>4. \A k \in 1..m : g[k] \in Int /\ g[k] = g[k] /\ h[k] \in Int /\ h[k] = h[k]
    BY <1>1, <1>2, <2>1
  <2>5. SumFunctionOnSet(g, 1..(m + 1)) = SumFunctionOnSet(g, 1..m) + g[m + 1]
    BY <2>1, <2>3, <2>4, SumGrows
  <2>6. SumFunctionOnSet(h, 1..(m + 1)) = SumFunctionOnSet(h, 1..m) + h[m + 1]
    BY <2>1, <2>3, <2>4, SumGrows
  <2>7. \A a, b, c, d \in Int :
          b + 13 * m =< 4 * a /\ d + 13 =< 4 * c => (b + d) + 13 * (m + 1) =< 4 * (a + c)
    BY <2>1
  <2>8. (SumFunctionOnSet(h, 1..m) + h[m + 1]) + 13 * (m + 1)
          =< 4 * (SumFunctionOnSet(g, 1..m) + g[m + 1])
    BY ONLY <2>2, <2>3, <2>7
  <2>9. /\ SumFunctionOnSet(g, 1..m) + g[m + 1] \in Int
        /\ SumFunctionOnSet(h, 1..m) + h[m + 1] \in Int
    BY <2>2, <2>3
  <2> QED
    BY ONLY <2>5, <2>6, <2>8, <2>9, Zenon
<1>8. n \in T
  <2>1. T = Nat
    BY <1>6, <1>7, Induction
  <2> QED
    BY <1>1, <2>1
<1>9. /\ SumFunctionOnSet(g, 1..n) \in Int /\ SumFunctionOnSet(h, 1..n) \in Int
      /\ SumFunctionOnSet(h, 1..n) + 13 * n =< 4 * SumFunctionOnSet(g, 1..n)
  BY <1>1, <1>8
<1>10. n = 1 => RequestLen(s) =< MaxRequest
  <2> SUFFICES ASSUME n = 1 PROVE RequestLen(s) =< MaxRequest
    OBVIOUS
  <2>1. SumFunctionOnSet(h, 1..(0 + 1)) = SumFunctionOnSet(h, 1..0) + h[0 + 1]
    <3>1. 0 \in Nat /\ h[0 + 1] \in Int /\ \A k \in 1..0 : h[k] \in Int /\ h[k] = h[k]
      BY <1>2
    <3> QED
      BY ONLY <3>1, SumGrows
  <2>2. 1..0 = {} /\ 0 + 1 = 1
    OBVIOUS
  <2>3. SumFunctionOnSet(h, 1..1) = 0 + h[1]
    BY <2>1, <2>2, SumEmpty
  <2>4. h[1] \in Int /\ MaxRequest \in Nat
    BY <1>2, ChecksumAssumption
  <2> QED
    BY <1>3, <1>5, <2>3, <2>4
<1>11. RequestLen(s) + 13 * n =< 4 * SumOver(QuotedLen, s) + 22
  BY <1>1, <1>4, <1>5, <1>9
<1> QED
  BY <1>4, <1>5, <1>9, <1>10, <1>11 DEF n

(* A command of several paths is estimated within the bound, and no        *)
(* command is refused for its length, however its names are quoted, when a *)
(* path alone fits and MAX_COMMAND_BYTES is a quarter of a request.        *)
THEOREM BoundedCorrect == ASSUME QuotesFit PROVE CSpec => []CommandsBounded
<1>1. ASSUME CompareInv PROVE CommandsBounded
  <2>1. Bounded
    <3>1. CASE Fresh
      <4>1. Len(batches) = 0
        BY <3>1, EmptySeq DEF Fresh
      <4> QED
        BY <4>1 DEF Bounded
    <3> QED
      BY <1>1, <3>1 DEF CompareInv, Comparing, Results
  <2>2. ASSUME phase = "hash", pc = "batch" PROVE RequestLen(BatchOf(Pending)) =< MaxRequest
    <3>1. candidates \in Seq(Files) /\ SentSoFar \in 0..Len(candidates)
          /\ SentSoFar < Len(candidates)
      BY <1>1, <2>2 DEF CompareInv, Comparing, Work
    <3>2. /\ Pending \in Seq(Files) /\ (Pending = <<>> <=> SentSoFar = Len(candidates))
          /\ Len(candidates) \in Nat
      BY <3>1, PendingIs, LenProperties
    <3>3. Pending # <<>>
      BY <3>1, <3>2
    <3>4. PICK n \in 1..Len(Pending) : /\ BatchOf(Pending) = SubSeq(Pending, 1, n)
                                       /\ \A k \in 2..n : Fits(SubSeq(Pending, 1, k))
      BY <3>2, <3>3, BatchIs
    <3> DEFINE s == SubSeq(Pending, 1, n)
    <3>5. s \in Seq(Files) /\ Len(s) = n /\ n \in Nat \ {0}
      <4>1. Len(Pending) \in Nat /\ \A i \in 1..n : Pending[i] \in Files
        BY <3>2
      <4> QED
        BY <4>1, SubSeqProperties
    <3>6. n > 1 => Fits(s)
      BY <3>4, <3>5
    <3> HIDE DEF s
    <3>7. /\ RequestLen(s) \in Int /\ SumOver(QuotedLen, s) \in Int
          /\ RequestLen(s) + 13 * Len(s) =< 4 * SumOver(QuotedLen, s) + 22
          /\ Len(s) = 1 => RequestLen(s) =< MaxRequest
      BY <3>5, LengthBound
    <3>8. CASE n = 1
      BY <3>4, <3>5, <3>7, <3>8 DEF s
    <3>9. CASE n > 1
      <4>1. SumOver(QuotedLen, s) =< MaxCommand
        BY <3>6, <3>9 DEF Fits
      <4>2. MaxCommand \in Nat /\ MaxRequest \in Nat /\ 4 * MaxCommand - 4 =< MaxRequest
        BY ChecksumAssumption DEF QuotesFit
      <4>3. RequestLen(s) =< MaxRequest
        BY <3>5, <3>7, <3>9, <4>1, <4>2
      <4> QED
        BY <3>4, <4>3 DEF s
    <3> QED
      BY <3>5, <3>8, <3>9
  <2> QED
    BY <2>1, <2>2 DEF CommandsBounded, Bounded, SumOver, QuotedLen
<1> QED
  BY <1>1, ComparisonInvariance, PTL

==============================================================================
