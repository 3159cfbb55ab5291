-------------------------- MODULE SyncSessionProof ---------------------------
(***************************************************************************)
(* Proofs about SyncSession: that a worker's session is never out of step  *)
(* with the device, and so no file gets the data of another; that every    *)
(* file is accounted for; and that only broken streams cost a connection.  *)
(***************************************************************************)
EXTENDS SyncSession, FiniteSetTheorems, SequenceTheorems, TLAPS

Kinds == {"OKAY", "FAIL", "BAD", "LONG", "DONE", "transport", "sync", "QUIT"}
Messages == [kind : Kinds] \union [kind : {"DATA"}, file : Names, at : Nat]
            \union [kind : {"RECV"}, file : Names]
Pieces == Names \X Nat

Types ==
  /\ pc \in {"connect", "transport", "service", "idle", "recv", "quit", "gaveUp"}
  /\ failedOpens \in Nat /\ pos \in 0..Len(Files) /\ (pc = "recv" => pos > 0)
  /\ sink \in Seq(Pieces)
  /\ outcome \in [Names -> {"todo", "fetched"} \union Errors]
  /\ copy \in [Names -> Seq(Pieces)]
  /\ up \in Seq(Messages) /\ down \in Seq(Messages) /\ alive \in BOOLEAN
  /\ peer \in {"server", "adbd", "sync"}
  /\ serving \in {<<>>} \union {<<f>> : f \in Names}
  /\ sent \in Nat /\ opens \in Nat

(* A connection that is given up is dropped; in the handshake one message  *)
(* is under way, ours or the answer to it.                                 *)
Asked(p)    == peer = p /\ Len(up) = 1 /\ down = <<>>
Answered(p) == peer = p /\ up = <<>> /\ Len(down) = 1
Shaking ==
  /\ pc \in {"connect", "gaveUp"} => ~alive
  /\ pc \in {"transport", "service"} => serving = <<>>
  /\ pc = "transport" /\ alive => Asked("server") \/ Answered("adbd")
  /\ pc = "service" /\ alive => Asked("adbd") \/ Answered("sync")
  /\ pc \in {"transport", "service"} /\ ~alive =>
       Len(down) <= 1 /\ (up = <<>> \/ down = <<>>)

(* Inside a request: what was written comes from the current file, and so  *)
(* does what is under way, up to the first message that is not data.  The  *)
(* answer ends with DONE or FAIL, and DONE comes after the last chunk.     *)
DataBefore(k) == \A j \in 1..Len(down) : j < k => down[j].kind = "DATA"
Requested ==
  /\ down = <<>> /\ sink = <<>> /\ up = <<Request(Current)>>
  /\ alive => serving = <<>>
Written == \A k \in 1..Len(sink) : sink[k] = <<Current, k>>
Coming ==
  \A k \in 1..Len(down) :
    /\ DataBefore(k) /\ down[k].kind = "DATA" => down[k] = Chunk(Current, Len(sink) + k)
    /\ DataBefore(k) /\ down[k].kind = "DONE" => Len(sink) + k - 1 = Size[Current]
    /\ down[k].kind \in {"DONE", "FAIL"} => k = Len(down) /\ serving = <<>>
Served ==
  alive => /\ peer = "sync"
           /\ serving # <<>> =>
                /\ serving = <<Current>>
                /\ DataBefore(Len(down) + 1) => sent = Len(sink) + Len(down)
Receiving ==
  pc = "recv" => Written /\ Coming /\ Served /\ (up # <<>> => Requested)

(* The files that broke the stream; each cost at most one session. *)
Broken == {f \in Names : outcome[f] \in Errors \ {"Sync"}}
Opened ==
  /\ opens <= 1 + Cardinality(Broken)
  /\ pc \notin {"idle", "recv", "quit"} => opens <= Cardinality(Broken)

SessionInv ==
  Types /\ Shaking /\ Aligned /\ Receiving /\ NoCrossTalk /\ EveryFileAccounted /\ Opened

-----------------------------------------------------------------------------
(* What the messages are. *)
LEMMA MessageTypes ==
  /\ \A k \in Kinds : Msg(k) \in Messages /\ Msg(k).kind = k
  /\ \A f \in Names, k \in Nat : /\ Chunk(f, k) \in Messages
                                /\ Chunk(f, k).kind = "DATA"
                                /\ Chunk(f, k).file = f /\ Chunk(f, k).at = k
  /\ \A f \in Names : /\ Request(f) \in Messages
                      /\ Request(f).kind = "RECV" /\ Request(f).file = f
  /\ \A m \in Messages : /\ m.kind = "RECV" => m.file \in Names
                         /\ m.kind = "DATA" => <<m.file, m.at>> \in Pieces
<1>1. \A k \in Kinds : Msg(k) \in Messages /\ Msg(k).kind = k
  BY DEF Messages, Msg
<1>2. \A f \in Names, k \in Nat : /\ Chunk(f, k) \in Messages
                                  /\ Chunk(f, k).kind = "DATA"
                                  /\ Chunk(f, k).file = f /\ Chunk(f, k).at = k
  BY DEF Messages, Chunk
<1>3. \A f \in Names : /\ Request(f) \in Messages
                        /\ Request(f).kind = "RECV" /\ Request(f).file = f
  BY DEF Messages, Request
<1>4. ASSUME NEW m \in Messages
      PROVE  /\ m.kind = "RECV" => m.file \in Names
             /\ m.kind = "DATA" => <<m.file, m.at>> \in Pieces
  <2>1. CASE m \in [kind : Kinds]
    BY <2>1 DEF Kinds
  <2>2. CASE m \in [kind : {"DATA"}, file : Names, at : Nat]
    BY <2>2 DEF Pieces
  <2>3. CASE m \in [kind : {"RECV"}, file : Names]
    BY <2>3
  <2> QED
    BY <2>1, <2>2, <2>3 DEF Messages
<1> QED
  BY <1>1, <1>2, <1>3, <1>4

(* The files are finitely many, and each has its place. *)
LEMMA FileNames ==
  /\ Len(Files) \in Nat /\ IsFiniteSet(Names)
  /\ \A k \in 1..Len(Files) : Files[k] \in Names
  /\ \A f \in Names : Size[f] \in Nat
  /\ \A f \in Names : \E k \in 1..Len(Files) : f = Files[k]
<1>1. Len(Files) \in Nat /\ Files \in [1..Len(Files) -> Names]
  BY SessionAssumption
<1>2. \A f \in Names : \E k \in 1..Len(Files) : f = Files[k]
  BY DEF Names
<1>3. Files \in Surjection(1..Len(Files), Names)
  BY <1>1, <1>2 DEF Surjection
<1>4. IsFiniteSet(1..Len(Files))
  BY <1>1, FS_Interval
<1>5. IsFiniteSet(Names)
  BY <1>3, <1>4, FS_Surjection
<1> QED
  BY <1>1, <1>2, <1>5, SessionAssumption

(* The worker starts without a connection. *)
LEMMA InitSession == Init => SessionInv
<1> SUFFICES ASSUME Init PROVE SessionInv
  OBVIOUS
<1>1. Types
  <2>1. outcome \in [Names -> {"todo", "fetched"} \union Errors]
    BY DEF Init
  <2>2. copy \in [Names -> Seq(Pieces)]
    BY DEF Init
  <2>3. sink \in Seq(Pieces) /\ up \in Seq(Messages) /\ down \in Seq(Messages)
    BY EmptySeq DEF Init
  <2>4. pos \in 0..Len(Files)
    BY FileNames DEF Init
  <2> QED
    BY <2>1, <2>2, <2>3, <2>4 DEF Init, Types
<1>2. EveryFileAccounted
  BY FileNames DEF Init, EveryFileAccounted
<1>3. Opened
  <2>1. IsFiniteSet(Broken) /\ Cardinality(Broken) \in Nat
    BY FileNames, FS_Subset, FS_CardinalityType DEF Broken
  <2> QED
    BY <2>1 DEF Init, Opened
<1> QED
  BY <1>1, <1>2, <1>3 DEF Init, SessionInv, Shaking, Aligned, Receiving, NoCrossTalk

(* What is left of a channel, and what is added to one. *)
LEMMA Channels ==
  ASSUME Types
  PROVE  /\ \A m \in Messages : Append(up, m) \in Seq(Messages) /\ Append(down, m) \in Seq(Messages)
         /\ down # <<>> => Head(down) \in Messages /\ Tail(down) \in Seq(Messages)
         /\ up # <<>> => Head(up) \in Messages /\ Tail(up) \in Seq(Messages)
         /\ \A n \in 0..Len(down) : SubSeq(down, 1, n) \in Seq(Messages)
  BY DEF Types
(* Every step keeps the types. *)
LEMMA TypesStep ==
  ASSUME SessionInv, [Next]_vars
  PROVE  Types'
<1>c. Types
  BY DEF SessionInv
<1> USE <1>c, FileNames, MessageTypes, Channels DEF Types, host, wire, dev, Errors, Kinds
<1>1. CASE Connect
  BY <1>1 DEF Connect
<1>2. CASE ConnectFails
  <2>1. pc' \in {"gaveUp", "connect"}
    BY <1>2 DEF ConnectFails, OpenFails
  <2>2. failedOpens' = failedOpens + 1 /\ alive' = FALSE
        /\ UNCHANGED <<up, down, pos, sink, outcome, copy, dev, opens>>
    BY <1>2 DEF ConnectFails, OpenFails
  <2>3. failedOpens' \in Nat
    BY <2>2
  <2>4. alive' \in BOOLEAN
    BY <2>2
  <2>5. UNCHANGED <<up, down, pos, sink, outcome, copy, peer, serving, sent, opens>>
    BY <2>2
  <2> QED
    BY <2>1, <2>3, <2>4, <2>5
<1>3. CASE TransportReady
  BY <1>3 DEF TransportReady, Next1
<1>4. CASE ServiceReady
  BY <1>4 DEF ServiceReady, Next1
<1>5. CASE HandshakeFails
  <2>1. pc' \in {"gaveUp", "connect"}
    BY <1>5 DEF HandshakeFails, OpenFails
  <2>2. failedOpens' = failedOpens + 1 /\ alive' = FALSE
        /\ UNCHANGED <<up, down, pos, sink, outcome, copy, dev, opens>>
    BY <1>5 DEF HandshakeFails, OpenFails
  <2>3. failedOpens' \in Nat
    BY <2>2
  <2>4. alive' \in BOOLEAN
    BY <2>2
  <2>5. UNCHANGED <<up, down, pos, sink, outcome, copy, peer, serving, sent, opens>>
    BY <2>2
  <2> QED
    BY <2>1, <2>3, <2>4, <2>5
<1>6. CASE SendRecv
  BY <1>6 DEF SendRecv
<1>7. CASE SendFails
  <2>1. Files[pos + 1] \in Names /\ pos + 1 \in 0..Len(Files)
    BY <1>7 DEF SendFails
  <2>2. outcome' = [outcome EXCEPT ![Files[pos + 1]] = "Io"] /\ pos' = pos + 1
        /\ pc' = "connect" /\ alive' = FALSE
        /\ UNCHANGED <<up, down, failedOpens, sink, copy, dev, opens>>
    BY <1>7 DEF SendFails, FileFails, BreaksStream
  <2>3. outcome' \in [Names -> {"todo", "fetched"} \union Errors]
    BY <2>1, <2>2
  <2> QED
    BY <2>1, <2>2, <2>3
<1>8. CASE NothingOpened
  <2>1. Files[pos + 1] \in Names /\ pos + 1 \in 0..Len(Files)
    BY <1>8 DEF NothingOpened
  <2>2. outcome' = [outcome EXCEPT ![Files[pos + 1]] = "NothingOpened"] /\ pos' = pos + 1
        /\ pc' = "connect" /\ alive' = FALSE
        /\ UNCHANGED <<up, down, failedOpens, sink, copy, dev, opens>>
    BY <1>8 DEF NothingOpened, FileFails, BreaksStream
  <2>3. outcome' \in [Names -> {"todo", "fetched"} \union Errors]
    BY <2>1, <2>2
  <2> QED
    BY <2>1, <2>2, <2>3
<1>9. CASE ReadData
  BY <1>9 DEF ReadData, Next1, Current
<1>10. CASE SinkGone
  BY <1>10 DEF SinkGone, Next1, FileFails, BreaksStream, Current
<1>11. CASE ReadDone
  BY <1>11 DEF ReadDone, Next1, Current
<1>12. CASE ReadFail
  BY <1>12 DEF ReadFail, Next1, FileFails, BreaksStream, Current
<1>13. CASE ReadUnexpected
  BY <1>13 DEF ReadUnexpected, FileFails, BreaksStream, Current
<1>14. CASE ReadEof
  BY <1>14 DEF ReadEof, Eof, FileFails, BreaksStream, Current
<1>15. CASE Quit
  BY <1>15 DEF Quit
<1>16. CASE Handshake
  BY <1>16 DEF Handshake, Answer
<1>17. CASE Accept
  BY <1>17 DEF Accept
<1>18. CASE Serve
  <2>1. serving[1] \in Names
    BY <1>18 DEF Serve
  <2>2. /\ Chunk(serving[1], sent + 1) \in Messages
        /\ Msg("DONE") \in Messages /\ Msg("FAIL") \in Messages
    BY <2>1
  <2>3. down' \in Seq(Messages)
    <3>1. \E m \in Messages : down' = Append(down, m)
      BY <1>18, <2>2 DEF Serve, Answer
    <3> QED
      BY <3>1
  <2>4. sent' \in Nat /\ serving' \in {<<>>} \union {<<f>> : f \in Names}
    BY <1>18 DEF Serve
  <2>5. UNCHANGED <<up, alive, peer, host>>
    BY <1>18 DEF Serve
  <2> QED
    BY <2>3, <2>4, <2>5
<1>19. CASE Misbehave
  BY <1>19 DEF Misbehave, Answer
<1>20. CASE Lose
  <2>1. /\ <<>> \in Seq(Messages) /\ down' \in Seq(Messages)
        /\ up' = <<>> /\ alive' = FALSE /\ UNCHANGED <<dev, host>>
    BY <1>20 DEF Lose
  <2> QED
    BY <2>1
<1>21. CASE UNCHANGED vars
  BY <1>21 DEF vars
<1> QED
  BY <1>1, <1>2, <1>3, <1>4, <1>5, <1>6, <1>7, <1>8, <1>9, <1>10, <1>11, <1>12,
     <1>13, <1>14, <1>15, <1>16, <1>17, <1>18, <1>19, <1>20, <1>21
     DEF Next, WorkerStep, PeerStep, Over

(* The first message of a channel, and the last.                           *)
LEMMA Ends ==
  ASSUME Types, down # <<>>
  PROVE  /\ Len(down) \in Nat /\ Len(down) > 0 /\ Head(down) = down[1]
         /\ Len(Tail(down)) = Len(down) - 1
         /\ \A k \in 1..(Len(down) - 1) : Tail(down)[k] = down[k + 1]
         /\ Len(down) = 1 => Tail(down) = <<>>
<1>1. Len(down) \in Nat /\ Len(down) > 0 /\ Tail(down) \in Seq(Messages)
      /\ Len(Tail(down)) = Len(down) - 1
      /\ \A k \in 1..(Len(down) - 1) : Tail(down)[k] = down[k + 1]
  BY HeadTailProperties, EmptySeq DEF Types
<1>2. Len(down) = 1 => Tail(down) = <<>>
  <2> SUFFICES ASSUME Len(down) = 1 PROVE Tail(down) = <<>>
    OBVIOUS
  <2>1. Len(Tail(down)) = 0
    BY <1>1
  <2> QED
    BY <1>1, <2>1, EmptySeq
<1> QED
  BY <1>1, <1>2 DEF Types

(* A message that the device adds comes last. *)
LEMMA Appended ==
  ASSUME Types, NEW m \in Messages, down' = Append(down, m)
  PROVE  /\ Len(down) \in Nat /\ Len(down') = Len(down) + 1
         /\ \A k \in 1..Len(down) : down'[k] = down[k]
         /\ down'[Len(down) + 1] = m
         /\ \A k \in 1..(Len(down) + 1) : DataBefore(k)' <=> DataBefore(k)
<1>1. /\ Len(down) \in Nat /\ Len(down') = Len(down) + 1
      /\ \A k \in 1..Len(down) : down'[k] = down[k]
      /\ down'[Len(down) + 1] = m
  BY AppendProperties DEF Types
<1> QED
  BY <1>1 DEF DataBefore

(* A message that the device may send keeps what is under way in order.   *)
LEMMA ComingAppended ==
  ASSUME Types, Coming, UNCHANGED <<pos, sink>>, serving # <<>>,
         NEW m \in Messages, down' = Append(down, m),
         DataBefore(Len(down) + 1) => sent = Len(sink) + Len(down),
         m.kind = "DATA" => m = Chunk(Current, sent + 1),
         m.kind = "DONE" => sent = Size[Current],
         m.kind \in {"DONE", "FAIL"} => serving' = <<>>
  PROVE  Coming'
<1>1. /\ Len(down) \in Nat /\ Len(sink) \in Nat /\ sent \in Nat
      /\ Len(down') = Len(down) + 1 /\ down'[Len(down) + 1] = m
      /\ \A k \in 1..Len(down) : down'[k] = down[k]
      /\ Current' = Current
  BY Appended DEF Types, Current
<1>2. \A k \in 1..(Len(down) + 1) : DataBefore(k)' => DataBefore(k)
  BY <1>1 DEF DataBefore
<1> SUFFICES ASSUME NEW k \in 1..Len(down')
             PROVE  /\ DataBefore(k)' /\ down'[k].kind = "DATA" =>
                         down'[k] = Chunk(Current, Len(sink) + k)
                    /\ DataBefore(k)' /\ down'[k].kind = "DONE" =>
                         Len(sink) + k - 1 = Size[Current]
                    /\ down'[k].kind \in {"DONE", "FAIL"} => k = Len(down') /\ serving' = <<>>
  BY <1>1 DEF Coming
<1>3. CASE k \in 1..Len(down)
  <2>1. /\ DataBefore(k) /\ down[k].kind = "DATA" => down[k] = Chunk(Current, Len(sink) + k)
        /\ DataBefore(k) /\ down[k].kind = "DONE" => Len(sink) + k - 1 = Size[Current]
        /\ down[k].kind \notin {"DONE", "FAIL"}
    BY <1>3 DEF Coming
  <2>2. down'[k] = down[k] /\ (DataBefore(k)' => DataBefore(k))
    BY <1>1, <1>2, <1>3
  <2> QED
    BY <2>1, <2>2
<1>4. CASE k = Len(down) + 1
  <2>1. down'[k] = m /\ k = Len(down') /\ (DataBefore(k)' => DataBefore(k))
    BY <1>1, <1>2, <1>4
  <2>2. DataBefore(k)' => sent + 1 = Len(sink) + k /\ sent = Len(sink) + k - 1
    BY <1>1, <1>4, <2>1
  <2> QED
    BY <2>1, <2>2
<1> QED
  BY <1>1, <1>3, <1>4

(* In the handshake, one message is under way. *)
LEMMA ShakingStep ==
  ASSUME SessionInv, [Next]_vars
  PROVE  Shaking'
<1>c. Types
  BY DEF SessionInv
<1>s. Shaking /\ Aligned /\ Receiving
  BY DEF SessionInv
<1> USE <1>c, <1>s DEF Shaking, Asked, Answered, host, wire, dev
<1>1. CASE Connect
  BY <1>1 DEF Connect
<1>2. CASE ConnectFails
  BY <1>2 DEF ConnectFails, OpenFails, NoAttemptLeft
<1>3. CASE TransportReady
  <2>1. /\ pc = "transport" /\ pc' = "service" /\ down # <<>> /\ down' = Tail(down)
        /\ up' = Append(up, Msg("sync")) /\ UNCHANGED <<alive, peer, serving>>
    BY <1>3 DEF TransportReady, Next1
  <2>2. Len(down) > 0
    BY <2>1, Ends
  <2>3. Len(down) = 1 /\ up = <<>> /\ (alive => peer = "adbd")
    <3>1. CASE alive
      BY <2>1, <2>2, <3>1
    <3>2. CASE ~alive
      <4>1. Len(down) <= 1 /\ up = <<>>
        BY <2>1, <3>2
      <4> QED
        BY <2>1, <2>2, <3>2, <4>1, Ends
    <3> QED
      BY <3>1, <3>2 DEF Types
  <2>4. down' = <<>> /\ Len(up') = 1 /\ Len(down') = 0
    BY <2>1, <2>3, Ends, EmptySeq
  <2> QED
    BY <2>1, <2>3, <2>4
<1>4. CASE ServiceReady
  BY <1>4 DEF ServiceReady, Next1
<1>5. CASE HandshakeFails
  BY <1>5 DEF HandshakeFails, OpenFails, NoAttemptLeft, Next1, Eof
<1>6. CASE SendRecv
  BY <1>6 DEF SendRecv
<1>7. CASE SendFails
  BY <1>7 DEF SendFails, FileFails, BreaksStream
<1>8. CASE NothingOpened
  BY <1>8 DEF NothingOpened, FileFails, BreaksStream
<1>9. CASE ReadData
  BY <1>9 DEF ReadData, Next1, Current
<1>10. CASE SinkGone
  BY <1>10 DEF SinkGone, Next1, FileFails, BreaksStream, Current
<1>11. CASE ReadDone
  BY <1>11 DEF ReadDone, Next1, Current
<1>12. CASE ReadFail
  BY <1>12 DEF ReadFail, Next1, FileFails, BreaksStream, Current
<1>13. CASE ReadUnexpected
  BY <1>13 DEF ReadUnexpected, FileFails, BreaksStream, Current
<1>14. CASE ReadEof
  BY <1>14 DEF ReadEof, Eof, FileFails, BreaksStream, Current
<1>15. CASE Quit
  BY <1>15 DEF Quit
<1>16. CASE Handshake
  <2>1. /\ alive /\ up # <<>> /\ up' = Tail(up) /\ UNCHANGED <<alive, serving, pc>>
        /\ peer' = IF peer = "server" THEN "adbd" ELSE "sync"
    BY <1>16 DEF Handshake
  <2>2. PICK m \in Messages : down' = Append(down, m)
    BY <1>16, MessageTypes DEF Handshake, Answer, Kinds
  <2>3. CASE pc \in {"transport", "service"}
    <3>1. Len(up) = 1 /\ down = <<>>
      BY <2>1, <2>3, EmptySeq
    <3>2. up' = <<>> /\ Len(down') = 1
      BY <2>1, <2>2, <3>1, EmptySeq, HeadTailProperties DEF Types
    <3> QED
      BY <2>1, <2>3, <3>1, <3>2
  <2> QED
    BY <2>1, <2>3
<1>17. CASE Accept
  BY <1>17 DEF Accept
<1>18. CASE Serve
  BY <1>18 DEF Serve, Answer
<1>19. CASE Misbehave
  BY <1>19 DEF Misbehave, Answer
<1>20. CASE Lose
  BY <1>20 DEF Lose
<1>21. CASE UNCHANGED vars
  BY <1>21 DEF vars
<1> QED
  BY <1>1, <1>2, <1>3, <1>4, <1>5, <1>6, <1>7, <1>8, <1>9, <1>10, <1>11, <1>12,
     <1>13, <1>14, <1>15, <1>16, <1>17, <1>18, <1>19, <1>20, <1>21
     DEF Next, WorkerStep, PeerStep, Over

(* The session stays in step with the device: inside a request, and        *)
(* between two.                                                            *)
LEMMA ReceivingStep ==
  ASSUME SessionInv, [Next]_vars
  PROVE  Aligned' /\ Receiving'
<1>c. Types /\ Types'
  BY TypesStep DEF SessionInv
<1>s. Shaking /\ Aligned /\ Receiving
  BY DEF SessionInv
<1>n. /\ Len(down) \in Nat /\ Len(sink) \in Nat /\ sent \in Nat /\ Len(down') \in Nat
      /\ pc = "recv" => Current \in Names
  BY <1>c, FileNames DEF Types, Current
<1> USE <1>c, <1>s, <1>n, MessageTypes DEF host, wire, dev, Kinds
<1>1. CASE Connect
  <2>1. pc' \notin {"idle", "recv"}
    BY <1>1 DEF Connect
  <2> QED
    BY <2>1 DEF Aligned, Receiving
<1>2. CASE ConnectFails
  <2>1. pc' \notin {"idle", "recv"}
    BY <1>2 DEF ConnectFails, OpenFails, NoAttemptLeft
  <2> QED
    BY <2>1 DEF Aligned, Receiving
<1>3. CASE TransportReady
  <2>1. pc' \notin {"idle", "recv"}
    BY <1>3 DEF TransportReady, Next1
  <2> QED
    BY <2>1 DEF Aligned, Receiving
<1>4. CASE ServiceReady
  <2>1. /\ pc' = "idle" /\ up' = up /\ down' = Tail(down) /\ alive' = alive
        /\ serving' = serving /\ peer' = peer
        /\ pc = "service" /\ down # <<>>
    BY <1>4 DEF ServiceReady, Next1
  <2>2. Len(down) = 1 /\ up = <<>> /\ serving = <<>> /\ (alive => peer = "sync")
    <3>1. Len(down) > 0 /\ (Len(down) <= 1 => Len(down) = 1)
      BY <2>1, Ends
    <3>2. CASE alive
      BY <2>1, <3>1, <3>2 DEF Shaking, Asked, Answered
    <3>3. CASE ~alive
      <4>1. Len(down) <= 1 /\ up = <<>> /\ serving = <<>>
        BY <2>1, <3>3 DEF Shaking
      <4>2. Len(down) = 1
        BY <3>1, <4>1
      <4> QED
        BY <3>3, <4>1, <4>2
    <3> QED
      BY <3>2, <3>3 DEF Types
  <2>3. down' = <<>>
    BY <2>1, <2>2, Ends
  <2> QED
    BY <2>1, <2>2, <2>3 DEF Aligned, Receiving
<1>5. CASE HandshakeFails
  <2>1. pc' \notin {"idle", "recv"}
    BY <1>5 DEF HandshakeFails, OpenFails, NoAttemptLeft, Next1, Eof
  <2> QED
    BY <2>1 DEF Aligned, Receiving
<1>6. CASE SendRecv
  <2>1. /\ pc' = "recv" /\ pos' = pos + 1 /\ sink' = <<>> /\ down' = down /\ alive' = alive
        /\ serving' = serving /\ peer' = peer /\ up' = Append(up, Request(Files[pos + 1]))
    BY <1>6 DEF SendRecv
  <2>2. up = <<>> /\ down = <<>> /\ (alive => peer = "sync" /\ serving = <<>>)
    BY <1>6 DEF SendRecv, Aligned
  <2>3. up' = <<Request(Current')>>
    BY <2>1, <2>2 DEF Current
  <2>4. Len(sink') = 0 /\ Len(down') = 0
    BY <2>1, <2>2, EmptySeq
  <2> QED
    BY <2>1, <2>2, <2>3, <2>4 DEF Aligned, Receiving, Requested, Written, Coming, Served
<1>7. CASE SendFails
  <2>1. pc' \notin {"idle", "recv"}
    BY <1>7 DEF SendFails, FileFails, BreaksStream
  <2> QED
    BY <2>1 DEF Aligned, Receiving
<1>8. CASE NothingOpened
  <2>1. pc' \notin {"idle", "recv"}
    BY <1>8 DEF NothingOpened, FileFails, BreaksStream
  <2> QED
    BY <2>1 DEF Aligned, Receiving
<1>9. CASE ReadData
  <2>1. /\ pc = "recv" /\ down # <<>> /\ down[1].kind = "DATA"
        /\ down' = Tail(down) /\ sink' = Append(sink, <<down[1].file, down[1].at>>)
        /\ UNCHANGED <<pc, pos, up, alive, peer, serving, sent>>
    BY <1>9, Ends DEF ReadData, Next1
  <2>2. 1 \in 1..Len(down) /\ DataBefore(1)
    BY <2>1, Ends DEF DataBefore
  <2>3. down[1] = Chunk(Current, Len(sink) + 1)
    BY <2>1, <2>2 DEF Receiving, Coming
  <2>4. Current \in Names /\ Current' = Current /\ Len(sink) \in Nat
    BY <2>1 DEF Current
  <2>5. sink' = Append(sink, <<Current, Len(sink) + 1>>)
    BY <2>1, <2>3, <2>4
  <2>6. /\ Len(sink') = Len(sink) + 1
        /\ \A k \in 1..Len(sink) : sink'[k] = sink[k]
        /\ sink'[Len(sink) + 1] = <<Current, Len(sink) + 1>>
    <3>1. <<Current, Len(sink) + 1>> \in Pieces
      BY <2>4 DEF Pieces
    <3> HIDE DEF Types
    <3> QED
      BY <2>5, <3>1, AppendProperties DEF Types
  <2>7. Written'
    BY <2>1, <2>4, <2>6 DEF Receiving, Written
  <2>8. /\ Len(down') = Len(down) - 1 /\ Len(down) \in Nat
        /\ \A k \in 1..Len(down') : down'[k] = down[k + 1]
    BY <2>1, Ends
  <2>9. \A k \in 1..(Len(down') + 1) : DataBefore(k)' => DataBefore(k + 1)
    <3> SUFFICES ASSUME NEW k \in 1..(Len(down') + 1), DataBefore(k)',
                        NEW j \in 1..Len(down), j < k + 1
                 PROVE  down[j].kind = "DATA"
      BY DEF DataBefore
    <3>1. CASE j = 1
      BY <2>1, <3>1
    <3>2. CASE j > 1
      <4>1. j - 1 \in 1..Len(down') /\ j - 1 < k
        BY <2>8, <3>2
      <4>2. down'[j - 1] = down[j]
        BY <2>8, <4>1
      <4> QED
        BY <4>1, <4>2 DEF DataBefore
    <3> QED
      BY <3>1, <3>2
  <2>10. Coming'
    <3> SUFFICES ASSUME NEW k \in 1..Len(down')
                 PROVE  /\ DataBefore(k)' /\ down'[k].kind = "DATA" =>
                             down'[k] = Chunk(Current, Len(sink') + k)
                        /\ DataBefore(k)' /\ down'[k].kind = "DONE" =>
                             Len(sink') + k - 1 = Size[Current]
                        /\ down'[k].kind \in {"DONE", "FAIL"} =>
                             k = Len(down') /\ serving' = <<>>
      BY <2>4, <2>1 DEF Coming
    <3>1. k + 1 \in 1..Len(down) /\ down'[k] = down[k + 1] /\ (DataBefore(k)' => DataBefore(k + 1))
      BY <2>8, <2>9
    <3>2. /\ DataBefore(k + 1) /\ down[k + 1].kind = "DATA" =>
               down[k + 1] = Chunk(Current, Len(sink) + (k + 1))
          /\ DataBefore(k + 1) /\ down[k + 1].kind = "DONE" =>
               Len(sink) + (k + 1) - 1 = Size[Current]
          /\ down[k + 1].kind \in {"DONE", "FAIL"} => k + 1 = Len(down) /\ serving = <<>>
      BY <2>1, <3>1 DEF Receiving, Coming
    <3>3. Len(sink) + (k + 1) = Len(sink') + k /\ Len(sink) + (k + 1) - 1 = Len(sink') + k - 1
      BY <2>4, <2>6
    <3>4. k + 1 = Len(down) => k = Len(down')
      BY <2>8
    <3> QED
      BY <2>1, <2>6, <3>1, <3>2, <3>3, <3>4
  <2>11. Served'
    <3>1. Len(down') + 1 \in 1..(Len(down') + 1) /\ (Len(down') + 1) + 1 = Len(down) + 1
      BY <2>8
    <3>2. DataBefore(Len(down) + 1)' => DataBefore(Len(down) + 1)
      <4>1. (\A j \in 1..Len(down') : j < Len(down') + 1 => down'[j].kind = "DATA")
             => DataBefore((Len(down') + 1) + 1)
        BY <2>9, <3>1 DEF DataBefore
      <4> QED
        BY <3>1, <4>1 DEF DataBefore
    <3>3. Len(sink') + Len(down') = Len(sink) + Len(down)
      BY <2>6, <2>8
    <3>4. serving' # <<>> /\ alive' => serving = <<Current>> /\ (DataBefore(Len(down) + 1) => sent = Len(sink) + Len(down))
      BY <2>1 DEF Receiving, Served
    <3>5. alive' => peer' = "sync"
      BY <2>1 DEF Receiving, Served
    <3> QED
      BY <2>1, <2>4, <3>2, <3>3, <3>4, <3>5 DEF Served
  <2>12. up = <<>>
    BY <2>1 DEF Receiving, Requested
  <2> QED
    BY <2>1, <2>7, <2>10, <2>11, <2>12 DEF Receiving, Aligned
<1>10. CASE SinkGone
  <2>1. pc' \notin {"idle", "recv"}
    BY <1>10 DEF SinkGone, Next1, FileFails, BreaksStream, Current
  <2> QED
    BY <2>1 DEF Aligned, Receiving
<1>11. CASE ReadDone
  <2>1. /\ pc = "recv" /\ down # <<>> /\ Len(down) \in Nat /\ 1 \in 1..Len(down)
        /\ down[1].kind = "DONE" /\ pc' = "idle"
        /\ down' = Tail(down) /\ UNCHANGED <<up, alive, peer, serving>>
    BY <1>11, Ends DEF ReadDone, Next1
  <2>2. Len(down) = 1 /\ serving = <<>>
    BY <2>1 DEF Receiving, Coming
  <2>3. down' = <<>>
    BY <2>1, <2>2, Ends
  <2>4. up = <<>> /\ (alive => peer = "sync")
    BY <2>1 DEF Receiving, Requested, Served
  <2> QED
    BY <2>1, <2>2, <2>3, <2>4 DEF Aligned, Receiving
<1>12. CASE ReadFail
  <2>1. /\ pc = "recv" /\ down # <<>> /\ Len(down) \in Nat /\ 1 \in 1..Len(down)
        /\ down[1].kind = "FAIL" /\ pc' = "idle"
        /\ down' = Tail(down) /\ UNCHANGED <<up, alive, peer, serving>>
    BY <1>12, Ends DEF ReadFail, Next1, FileFails, BreaksStream
  <2>2. Len(down) = 1 /\ serving = <<>>
    BY <2>1 DEF Receiving, Coming
  <2>3. down' = <<>>
    BY <2>1, <2>2, Ends
  <2>4. up = <<>> /\ (alive => peer = "sync")
    BY <2>1 DEF Receiving, Requested, Served
  <2> QED
    BY <2>1, <2>2, <2>3, <2>4 DEF Aligned, Receiving
<1>13. CASE ReadUnexpected
  <2>1. pc' \notin {"idle", "recv"}
    BY <1>13 DEF ReadUnexpected, FileFails, BreaksStream, Current
  <2> QED
    BY <2>1 DEF Aligned, Receiving
<1>14. CASE ReadEof
  <2>1. pc' \notin {"idle", "recv"}
    BY <1>14 DEF ReadEof, Eof, FileFails, BreaksStream, Current
  <2> QED
    BY <2>1 DEF Aligned, Receiving
<1>15. CASE Quit
  <2>1. pc' \notin {"idle", "recv"}
    BY <1>15 DEF Quit
  <2> QED
    BY <2>1 DEF Aligned, Receiving
<1>16. CASE Handshake
  <2>1. alive /\ peer # "sync" /\ pc' = pc
    BY <1>16 DEF Handshake
  <2> QED
    BY <2>1 DEF Receiving, Served, Aligned
<1>17. CASE Accept
  <2>1. /\ alive /\ up # <<>> /\ serving = <<>> /\ up' = Tail(up)
        /\ serving' = <<Head(up).file>> /\ sent' = 0
        /\ UNCHANGED <<down, alive, peer, pc, pos, sink>>
    BY <1>17 DEF Accept
  <2>2. CASE pc = "recv"
    <3>1. Requested /\ Written /\ Served
      BY <2>1, <2>2 DEF Receiving
    <3>2. up' = <<>> /\ serving' = <<Current>> /\ Current \in Names
      BY <2>1, <2>2, <3>1 DEF Requested, Current
    <3>3. Len(down) = 0 /\ Len(sink) = 0
      BY <3>1, EmptySeq DEF Requested
    <3>4. Written' /\ Coming' /\ Current' = Current
      BY <2>1, <3>1, <3>3 DEF Written, Coming, Current
    <3>5. Served'
      BY <2>1, <3>1, <3>2, <3>3, <3>4 DEF Served
    <3> QED
      BY <2>1, <2>2, <3>2, <3>4, <3>5 DEF Receiving, Aligned
  <2>3. CASE pc = "idle"
    BY <2>1, <2>3 DEF Aligned
  <2> QED
    BY <2>1, <2>2, <2>3 DEF Receiving, Aligned
<1>18. CASE Serve
  <2>1. alive /\ serving # <<>> /\ UNCHANGED <<up, alive, peer, pc, pos, sink>>
    BY <1>18 DEF Serve
  <2>2. CASE pc = "recv"
    <3>1. serving = <<Current>> /\ serving[1] = Current /\ Current \in Names
      BY <2>1, <2>2 DEF Receiving, Served, Current
    <3>2. CASE /\ sent' = sent + 1 /\ serving' = serving
               /\ down' = Append(down, Chunk(Current, sent + 1))
      <4>1. Chunk(Current, sent + 1) \in Messages /\ Chunk(Current, sent + 1).kind = "DATA"
        BY <3>1
      <4>2. Coming'
        BY <2>1, <2>2, <3>1, <3>2, <4>1, ComingAppended DEF Receiving, Served
      <4>3. Served'
        <5>1. down' = Append(down, Chunk(Current, sent + 1)) /\ Len(down') = Len(down) + 1
          BY <3>2, <4>1, Appended
        <5>2. DataBefore(Len(down) + 1)' => DataBefore(Len(down) + 1)
          BY <3>2, <4>1, <5>1, Appended DEF DataBefore
        <5>3. DataBefore(Len(down) + 1) => sent = Len(sink) + Len(down)
          BY <2>1, <2>2 DEF Receiving, Served
        <5> QED
          BY <2>1, <2>2, <3>1, <3>2, <5>1, <5>2, <5>3 DEF Receiving, Served, Current
      <4> QED
        BY <2>1, <2>2, <4>2, <4>3 DEF Receiving, Written, Current, Requested, Aligned
    <3>3. CASE /\ serving' = <<>> /\ sent' = sent
               /\ \/ sent = Size[Current] /\ down' = Append(down, Msg("DONE"))
                  \/ down' = Append(down, Msg("FAIL"))
      <4>1. PICK m \in {Msg("DONE"), Msg("FAIL")} :
              /\ m \in Messages /\ m.kind \in {"DONE", "FAIL"} /\ down' = Append(down, m)
              /\ (m.kind = "DONE" => sent = Size[Current])
        BY <3>3
      <4>2. Coming'
        BY <2>1, <2>2, <3>1, <3>3, <4>1, ComingAppended DEF Receiving, Served
      <4>3. Served'
        BY <2>1, <2>2, <3>3 DEF Receiving, Served
      <4> QED
        BY <2>1, <2>2, <4>2, <4>3 DEF Receiving, Written, Current, Requested, Aligned
    <3> QED
      BY <1>18, <3>1, <3>2, <3>3 DEF Serve, Answer
  <2>3. CASE pc = "idle"
    BY <2>1, <2>3 DEF Aligned
  <2> QED
    BY <2>1, <2>2, <2>3 DEF Receiving, Aligned
<1>19. CASE Misbehave
  <2>1. /\ alive /\ serving # <<>>
        /\ UNCHANGED <<up, alive, peer, pc, pos, sink, serving, sent>>
    BY <1>19 DEF Misbehave
  <2>2. CASE pc = "recv"
    <3>1. PICK m \in {Msg("BAD"), Msg("LONG")} :
            /\ m \in Messages /\ m.kind \in {"BAD", "LONG"} /\ down' = Append(down, m)
      BY <1>19 DEF Misbehave, Answer
    <3>3. Coming'
      BY <2>1, <2>2, <3>1, ComingAppended DEF Receiving, Served
    <3>4. ~DataBefore(Len(down) + 1)'
      BY <3>1, Appended DEF DataBefore
    <3>5. Served'
      BY <2>1, <2>2, <3>4 DEF Receiving, Served, Current
    <3> QED
      BY <2>1, <2>2, <3>3, <3>5 DEF Receiving, Written, Current, Requested, Aligned
  <2>3. CASE pc = "idle"
    BY <2>1, <2>3 DEF Aligned
  <2> QED
    BY <2>1, <2>2, <2>3 DEF Receiving, Aligned
<1>20. CASE Lose
  <2>1. /\ alive' = FALSE /\ up' = <<>> /\ UNCHANGED <<pc, pos, sink, serving, sent, peer>>
    BY <1>20 DEF Lose
  <2>2. PICK n \in 0..Len(down) : down' = SubSeq(down, 1, n)
    BY <1>20 DEF Lose
  <2>3. /\ Len(down') = n /\ n \in Nat /\ Len(down) \in Nat /\ n <= Len(down)
        /\ \A k \in 1..n : down'[k] = down[k]
    BY <2>2
  <2>4. CASE pc = "recv"
    <3>1. \A k \in 1..n : DataBefore(k)' => DataBefore(k)
      BY <2>3 DEF DataBefore
    <3>2. Coming' /\ Written'
      <4>1. Coming /\ Written /\ Current' = Current
        BY <2>1, <2>4 DEF Receiving, Current
      <4>2. Written'
        BY <2>1, <4>1 DEF Written
      <4>3. ASSUME NEW k \in 1..Len(down')
            PROVE  /\ DataBefore(k)' /\ down'[k].kind = "DATA" =>
                        down'[k] = Chunk(Current, Len(sink) + k)
                   /\ DataBefore(k)' /\ down'[k].kind = "DONE" =>
                        Len(sink) + k - 1 = Size[Current]
                   /\ down'[k].kind \in {"DONE", "FAIL"} => k = Len(down') /\ serving = <<>>
        <5>1. k \in 1..Len(down) /\ k \in 1..n /\ k \in Nat /\ down'[k] = down[k]
          BY <2>3
        <5>2. /\ DataBefore(k) /\ down[k].kind = "DATA" => down[k] = Chunk(Current, Len(sink) + k)
              /\ DataBefore(k) /\ down[k].kind = "DONE" => Len(sink) + k - 1 = Size[Current]
              /\ down[k].kind \in {"DONE", "FAIL"} => k = Len(down) /\ serving = <<>>
          BY <4>1, <5>1 DEF Coming
        <5>3. k = Len(down) => k = Len(down')
          BY <2>3, <5>1
        <5> QED
          BY <3>1, <5>1, <5>2, <5>3
      <4>4. Coming'
        BY <2>1, <4>1, <4>3 DEF Coming
      <4> QED
        BY <4>2, <4>4
    <3> QED
      BY <2>1, <2>4, <3>2 DEF Receiving, Served, Aligned
  <2>5. CASE pc = "idle"
    <3>1. Len(down) = 0
      BY <2>5, EmptySeq DEF Aligned
    <3>2. Len(down') = 0 /\ down' \in Seq(Messages)
      BY <2>3, <3>1
    <3>3. down' = <<>>
      BY <3>2
    <3> QED
      BY <2>1, <2>5, <3>3 DEF Aligned, Receiving
  <2> QED
    BY <2>1, <2>4, <2>5 DEF Receiving, Aligned
<1>21. CASE UNCHANGED vars
  BY <1>21 DEF vars, Aligned, Receiving, Written, Coming, Served, Requested, DataBefore, Current
<1> QED
  BY <1>1, <1>2, <1>3, <1>4, <1>5, <1>6, <1>7, <1>8, <1>9, <1>10, <1>11, <1>12,
     <1>13, <1>14, <1>15, <1>16, <1>17, <1>18, <1>19, <1>20, <1>21
     DEF Next, WorkerStep, PeerStep, Over

(* A file that fails or is fetched is not left to do; the others are as    *)
(* they were.                                                              *)
LEMMA Retired ==
  ASSUME Types, EveryFileAccounted, NEW k \in 1..Len(Files),
         NEW e \in {"fetched"} \union Errors, outcome' = [outcome EXCEPT ![Files[k]] = e],
         \/ k = pos + 1 /\ pc = "idle" /\ pos' = k
         \/ k = pos /\ pc = "recv" /\ pos' = pos,
         pc' \notin {"recv", "quit"}
  PROVE  EveryFileAccounted'
<1>1. \A j \in 1..Len(Files) : outcome'[Files[j]] = IF j = k THEN e ELSE outcome[Files[j]]
  BY FileNames, SessionAssumption DEF Types
<1>2. \A j \in 1..Len(Files) : j # k => (j > pos <=> j > pos')
  BY FileNames DEF Types
<1>3. ~(k > pos')
  BY FileNames DEF Types
<1>4. e # "todo"
  BY DEF Errors
<1> QED
  BY <1>1, <1>2, <1>3, <1>4 DEF EveryFileAccounted

(* The files are finitely many, and so are those. *)
LEMMA BrokenFinite == IsFiniteSet(Broken) /\ Cardinality(Broken) \in Nat
<1>1. IsFiniteSet(Broken)
  BY FileNames, FS_Subset DEF Broken
<1> QED
  BY <1>1, FS_CardinalityType

(* A file that breaks the stream is one more, once. *)
LEMMA BrokenGrows ==
  ASSUME Types, NEW f \in Names, outcome[f] = "todo",
         NEW e \in Errors \ {"Sync"}, outcome' = [outcome EXCEPT ![f] = e]
  PROVE  Cardinality(Broken') = Cardinality(Broken) + 1
<1>1. f \notin Broken
  BY DEF Broken, Errors
<1>2. Broken' = Broken \union {f}
  BY DEF Types, Broken, Errors
<1> QED
  BY <1>1, <1>2, BrokenFinite, FS_AddElement

(* One that is refused or fetched does not break it. *)
LEMMA BrokenStays ==
  ASSUME Types, NEW f \in Names, outcome[f] = "todo",
         NEW e \in {"fetched", "Sync"}, outcome' = [outcome EXCEPT ![f] = e]
  PROVE  Broken' = Broken
  BY DEF Types, Broken, Errors

(* What was fetched is the file that was asked for, and stays so. *)
LEMMA CrossTalkStep ==
  ASSUME SessionInv, [Next]_vars
  PROVE  NoCrossTalk'
<1>c. Types /\ Receiving /\ NoCrossTalk
  BY DEF SessionInv
<1> USE <1>c DEF host, wire, dev
<1>1. CASE Connect
  BY <1>1 DEF Connect, NoCrossTalk
<1>2. CASE ConnectFails
  BY <1>2 DEF ConnectFails, OpenFails, NoAttemptLeft, NoCrossTalk
<1>3. CASE TransportReady
  BY <1>3 DEF TransportReady, Next1, NoCrossTalk
<1>4. CASE ServiceReady
  BY <1>4 DEF ServiceReady, Next1, NoCrossTalk
<1>5. CASE HandshakeFails
  BY <1>5 DEF HandshakeFails, OpenFails, NoAttemptLeft, Next1, Eof, NoCrossTalk
<1>6. CASE SendRecv
  BY <1>6 DEF SendRecv, NoCrossTalk
<1>7. CASE SendFails
  <2>1. outcome' = [outcome EXCEPT ![Files[pos + 1]] = "Io"] /\ copy' = copy
    BY <1>7 DEF SendFails, FileFails, BreaksStream
  <2> QED
    BY <2>1 DEF Types, NoCrossTalk
<1>8. CASE NothingOpened
  <2>1. outcome' = [outcome EXCEPT ![Files[pos + 1]] = "NothingOpened"] /\ copy' = copy
    BY <1>8 DEF NothingOpened, FileFails, BreaksStream
  <2> QED
    BY <2>1 DEF Types, NoCrossTalk
<1>9. CASE ReadData
  BY <1>9 DEF ReadData, Next1, Current, NoCrossTalk
<1>10. CASE SinkGone
  <2>1. outcome' = [outcome EXCEPT ![Current] = "Io"] /\ copy' = copy
    BY <1>10 DEF SinkGone, Next1, FileFails, BreaksStream, Current
  <2> QED
    BY <2>1 DEF Types, NoCrossTalk
<1>11. CASE ReadDone
  <2>1. /\ pc = "recv" /\ down # <<>> /\ 1 \in 1..Len(down) /\ down[1].kind = "DONE"
        /\ outcome' = [outcome EXCEPT ![Current] = "fetched"]
        /\ copy' = [copy EXCEPT ![Current] = sink]
    BY <1>11, Ends DEF ReadDone, Next1
  <2>2. Current \in Names /\ Len(sink) \in Nat
    BY <2>1, FileNames DEF Types, Current
  <2>3. Len(sink) = Size[Current]
    <3>1. DataBefore(1)
      BY DEF DataBefore
    <3>2. Len(sink) + 1 - 1 = Size[Current]
      BY <2>1, <3>1 DEF Receiving, Coming
    <3> QED
      BY <2>2, <3>2, FileNames
  <2>4. sink = Content(Current)
    <3>1. \A k \in 1..Len(sink) : sink[k] = Content(Current)[k]
      BY <2>1, <2>3 DEF Receiving, Written, Content
    <3>2. sink \in [1..Len(sink) -> Pieces]
      BY LenProperties DEF Types
    <3>3. Content(Current) = [k \in 1..Len(sink) |-> Content(Current)[k]]
      BY <2>3 DEF Content
    <3> QED
      BY <3>1, <3>2, <3>3
  <2>5. copy'[Current] = sink /\ \A f \in Names \ {Current} :
          copy'[f] = copy[f] /\ outcome'[f] = outcome[f]
    BY <2>1, <2>2 DEF Types
  <2> QED
    BY <2>4, <2>5 DEF NoCrossTalk
<1>12. CASE ReadFail
  <2>1. outcome' = [outcome EXCEPT ![Current] = "Sync"] /\ copy' = copy
    BY <1>12 DEF ReadFail, Next1, FileFails, BreaksStream, Current
  <2> QED
    BY <2>1 DEF Types, NoCrossTalk
<1>13. CASE ReadUnexpected
  <2>1. outcome' = [outcome EXCEPT ![Current] = "Protocol"] /\ copy' = copy
    BY <1>13 DEF ReadUnexpected, FileFails, BreaksStream, Current
  <2> QED
    BY <2>1 DEF Types, NoCrossTalk
<1>14. CASE ReadEof
  <2>1. outcome' = [outcome EXCEPT ![Current] = "Io"] /\ copy' = copy
    BY <1>14 DEF ReadEof, Eof, FileFails, BreaksStream, Current
  <2> QED
    BY <2>1 DEF Types, NoCrossTalk
<1>15. CASE Quit
  BY <1>15 DEF Quit, NoCrossTalk
<1>16. CASE Handshake
  BY <1>16 DEF Handshake, Answer, NoCrossTalk
<1>17. CASE Accept
  BY <1>17 DEF Accept, NoCrossTalk
<1>18. CASE Serve
  BY <1>18 DEF Serve, Answer, NoCrossTalk
<1>19. CASE Misbehave
  BY <1>19 DEF Misbehave, Answer, NoCrossTalk
<1>20. CASE Lose
  BY <1>20 DEF Lose, NoCrossTalk
<1>21. CASE UNCHANGED vars
  BY <1>21 DEF vars, NoCrossTalk
<1> QED
  BY <1>1, <1>2, <1>3, <1>4, <1>5, <1>6, <1>7, <1>8, <1>9, <1>10, <1>11, <1>12,
     <1>13, <1>14, <1>15, <1>16, <1>17, <1>18, <1>19, <1>20, <1>21
     DEF Next, WorkerStep, PeerStep, Over

(* No step passes a file over. *)
LEMMA AccountedStep ==
  ASSUME SessionInv, [Next]_vars
  PROVE  EveryFileAccounted'
<1>c. Types /\ EveryFileAccounted
  BY DEF SessionInv
<1> USE <1>c DEF host, wire, dev, Errors
<1>1. CASE Connect
  BY <1>1 DEF Connect, EveryFileAccounted
<1>2. CASE ConnectFails
  BY <1>2 DEF ConnectFails, OpenFails, NoAttemptLeft, EveryFileAccounted
<1>3. CASE TransportReady
  BY <1>3 DEF TransportReady, Next1, EveryFileAccounted
<1>4. CASE ServiceReady
  BY <1>4 DEF ServiceReady, Next1, EveryFileAccounted
<1>5. CASE HandshakeFails
  BY <1>5 DEF HandshakeFails, OpenFails, NoAttemptLeft, Next1, Eof, EveryFileAccounted
<1>6. CASE SendRecv
  <2>1. pos' = pos + 1 /\ pc = "idle" /\ pc' = "recv" /\ outcome' = outcome
    BY <1>6 DEF SendRecv
  <2>2. \A k \in 1..Len(Files) : k > pos <=> k > pos + 1 \/ k = pos + 1
    BY FileNames DEF Types
  <2> QED
    BY <2>1, <2>2 DEF EveryFileAccounted
<1>7. CASE SendFails
  <2>1. /\ outcome' = [outcome EXCEPT ![Files[pos + 1]] = "Io"]
        /\ pc = "idle" /\ pc' = "connect" /\ pos' = pos + 1 /\ pos < Len(Files)
    BY <1>7 DEF SendFails, FileFails, BreaksStream
  <2>2. pos + 1 \in 1..Len(Files)
    BY <2>1, FileNames DEF Types
  <2> QED
    BY <2>1, <2>2, Retired DEF EveryFileAccounted
<1>8. CASE NothingOpened
  <2>1. /\ outcome' = [outcome EXCEPT ![Files[pos + 1]] = "NothingOpened"]
        /\ pc = "idle" /\ pc' = "connect" /\ pos' = pos + 1 /\ pos < Len(Files)
    BY <1>8 DEF NothingOpened, FileFails, BreaksStream
  <2>2. pos + 1 \in 1..Len(Files)
    BY <2>1, FileNames DEF Types
  <2> QED
    BY <2>1, <2>2, Retired DEF EveryFileAccounted
<1>9. CASE ReadData
  BY <1>9 DEF ReadData, Next1, Current, EveryFileAccounted
<1>10. CASE SinkGone
  <2>1. /\ outcome' = [outcome EXCEPT ![Current] = "Io"]
        /\ pc = "recv" /\ pc' = "connect" /\ pos' = pos
    BY <1>10 DEF SinkGone, Next1, FileFails, BreaksStream, Current
  <2>2. pos \in 1..Len(Files)
    BY <2>1, FileNames DEF Types
  <2> QED
    BY <2>1, <2>2, Retired DEF EveryFileAccounted, Current
<1>11. CASE ReadDone
  <2>1. /\ outcome' = [outcome EXCEPT ![Current] = "fetched"]
        /\ pc = "recv" /\ pc' = "idle" /\ pos' = pos
    BY <1>11 DEF ReadDone, Next1, Current
  <2>2. pos \in 1..Len(Files)
    BY <2>1, FileNames DEF Types
  <2> QED
    BY <2>1, <2>2, Retired DEF EveryFileAccounted, Current
<1>12. CASE ReadFail
  <2>1. /\ outcome' = [outcome EXCEPT ![Current] = "Sync"]
        /\ pc = "recv" /\ pc' = "idle" /\ pos' = pos
    BY <1>12 DEF ReadFail, Next1, FileFails, BreaksStream, Current
  <2>2. pos \in 1..Len(Files)
    BY <2>1, FileNames DEF Types
  <2> QED
    BY <2>1, <2>2, Retired DEF EveryFileAccounted, Current
<1>13. CASE ReadUnexpected
  <2>1. /\ outcome' = [outcome EXCEPT ![Current] = "Protocol"]
        /\ pc = "recv" /\ pc' = "connect" /\ pos' = pos
    BY <1>13 DEF ReadUnexpected, FileFails, BreaksStream, Current
  <2>2. pos \in 1..Len(Files)
    BY <2>1, FileNames DEF Types
  <2> QED
    BY <2>1, <2>2, Retired DEF EveryFileAccounted, Current
<1>14. CASE ReadEof
  <2>1. /\ outcome' = [outcome EXCEPT ![Current] = "Io"]
        /\ pc = "recv" /\ pc' = "connect" /\ pos' = pos
    BY <1>14 DEF ReadEof, Eof, FileFails, BreaksStream, Current
  <2>2. pos \in 1..Len(Files)
    BY <2>1, FileNames DEF Types
  <2> QED
    BY <2>1, <2>2, Retired DEF EveryFileAccounted, Current
<1>15. CASE Quit
  BY <1>15 DEF Quit, EveryFileAccounted
<1>16. CASE Handshake
  BY <1>16 DEF Handshake, Answer, EveryFileAccounted
<1>17. CASE Accept
  BY <1>17 DEF Accept, EveryFileAccounted
<1>18. CASE Serve
  BY <1>18 DEF Serve, Answer, EveryFileAccounted
<1>19. CASE Misbehave
  BY <1>19 DEF Misbehave, Answer, EveryFileAccounted
<1>20. CASE Lose
  BY <1>20 DEF Lose, EveryFileAccounted
<1>21. CASE UNCHANGED vars
  BY <1>21 DEF vars, EveryFileAccounted
<1> QED
  BY <1>1, <1>2, <1>3, <1>4, <1>5, <1>6, <1>7, <1>8, <1>9, <1>10, <1>11, <1>12,
     <1>13, <1>14, <1>15, <1>16, <1>17, <1>18, <1>19, <1>20, <1>21
     DEF Next, WorkerStep, PeerStep, Over

(* A connection is opened for the first file, and after each broken one.   *)
LEMMA OpenedStep ==
  ASSUME SessionInv, [Next]_vars
  PROVE  Opened'
<1>c. Types /\ EveryFileAccounted /\ Opened
  BY DEF SessionInv
<1>b. Cardinality(Broken) \in Nat /\ opens \in Nat
  BY <1>c, BrokenFinite DEF Types
<1> USE <1>c DEF host, wire, dev
<1>1. CASE Connect
  BY <1>1, <1>b DEF Connect, Opened, Broken
<1>2. CASE ConnectFails
  BY <1>2, <1>b DEF ConnectFails, OpenFails, NoAttemptLeft, Opened, Broken
<1>3. CASE TransportReady
  BY <1>3, <1>b DEF TransportReady, Next1, Opened, Broken
<1>4. CASE ServiceReady
  BY <1>4, <1>b DEF ServiceReady, Next1, Opened, Broken
<1>5. CASE HandshakeFails
  BY <1>5, <1>b DEF HandshakeFails, OpenFails, NoAttemptLeft, Next1, Eof, Opened, Broken
<1>6. CASE SendRecv
  BY <1>6, <1>b DEF SendRecv, Opened, Broken
<1>7. CASE SendFails
  <2>1. /\ outcome' = [outcome EXCEPT ![Files[pos + 1]] = "Io"]
        /\ pc = "idle" /\ pc' = "connect" /\ opens' = opens /\ pos < Len(Files)
    BY <1>7 DEF SendFails, FileFails, BreaksStream
  <2>2. Files[pos + 1] \in Names /\ outcome[Files[pos + 1]] = "todo"
    BY <2>1, FileNames DEF Types, EveryFileAccounted
  <2>3. Cardinality(Broken') = Cardinality(Broken) + 1
    BY <2>1, <2>2, BrokenGrows DEF Errors
  <2> QED
    BY <2>1, <2>3, <1>b DEF Opened, Types
<1>8. CASE NothingOpened
  <2>1. /\ outcome' = [outcome EXCEPT ![Files[pos + 1]] = "NothingOpened"]
        /\ pc = "idle" /\ pc' = "connect" /\ opens' = opens /\ pos < Len(Files)
    BY <1>8 DEF NothingOpened, FileFails, BreaksStream
  <2>2. Files[pos + 1] \in Names /\ outcome[Files[pos + 1]] = "todo"
    BY <2>1, FileNames DEF Types, EveryFileAccounted
  <2>3. Cardinality(Broken') = Cardinality(Broken) + 1
    BY <2>1, <2>2, BrokenGrows DEF Errors
  <2> QED
    BY <2>1, <2>3, <1>b DEF Opened, Types
<1>9. CASE ReadData
  BY <1>9, <1>b DEF ReadData, Next1, Current, Opened, Broken
<1>10. CASE SinkGone
  <2>1. /\ outcome' = [outcome EXCEPT ![Current] = "Io"]
        /\ pc = "recv" /\ pc' = "connect" /\ opens' = opens
    BY <1>10 DEF SinkGone, Next1, FileFails, BreaksStream, Current
  <2>2. Current \in Names /\ outcome[Current] = "todo"
    BY <2>1, FileNames DEF Types, EveryFileAccounted, Current
  <2>3. Cardinality(Broken') = Cardinality(Broken) + 1
    BY <2>1, <2>2, BrokenGrows DEF Errors
  <2> QED
    BY <2>1, <2>3, <1>b DEF Opened, Types
<1>11. CASE ReadDone
  <2>1. /\ outcome' = [outcome EXCEPT ![Current] = "fetched"]
        /\ pc = "recv" /\ pc' = "idle" /\ opens' = opens
    BY <1>11 DEF ReadDone, Next1, Current
  <2>2. Current \in Names /\ outcome[Current] = "todo"
    BY <2>1, FileNames DEF Types, EveryFileAccounted, Current
  <2>3. Broken' = Broken
    BY <2>1, <2>2, BrokenStays DEF Errors
  <2> QED
    BY <2>1, <2>3, <1>b DEF Opened, Types
<1>12. CASE ReadFail
  <2>1. /\ outcome' = [outcome EXCEPT ![Current] = "Sync"]
        /\ pc = "recv" /\ pc' = "idle" /\ opens' = opens
    BY <1>12 DEF ReadFail, Next1, FileFails, BreaksStream, Current
  <2>2. Current \in Names /\ outcome[Current] = "todo"
    BY <2>1, FileNames DEF Types, EveryFileAccounted, Current
  <2>3. Broken' = Broken
    BY <2>1, <2>2, BrokenStays DEF Errors
  <2> QED
    BY <2>1, <2>3, <1>b DEF Opened, Types
<1>13. CASE ReadUnexpected
  <2>1. /\ outcome' = [outcome EXCEPT ![Current] = "Protocol"]
        /\ pc = "recv" /\ pc' = "connect" /\ opens' = opens
    BY <1>13 DEF ReadUnexpected, FileFails, BreaksStream, Current
  <2>2. Current \in Names /\ outcome[Current] = "todo"
    BY <2>1, FileNames DEF Types, EveryFileAccounted, Current
  <2>3. Cardinality(Broken') = Cardinality(Broken) + 1
    BY <2>1, <2>2, BrokenGrows DEF Errors
  <2> QED
    BY <2>1, <2>3, <1>b DEF Opened, Types
<1>14. CASE ReadEof
  <2>1. /\ outcome' = [outcome EXCEPT ![Current] = "Io"]
        /\ pc = "recv" /\ pc' = "connect" /\ opens' = opens
    BY <1>14 DEF ReadEof, Eof, FileFails, BreaksStream, Current
  <2>2. Current \in Names /\ outcome[Current] = "todo"
    BY <2>1, FileNames DEF Types, EveryFileAccounted, Current
  <2>3. Cardinality(Broken') = Cardinality(Broken) + 1
    BY <2>1, <2>2, BrokenGrows DEF Errors
  <2> QED
    BY <2>1, <2>3, <1>b DEF Opened, Types
<1>15. CASE Quit
  BY <1>15, <1>b DEF Quit, Opened, Broken
<1>16. CASE Handshake
  BY <1>16, <1>b DEF Handshake, Answer, Opened, Broken
<1>17. CASE Accept
  BY <1>17, <1>b DEF Accept, Opened, Broken
<1>18. CASE Serve
  BY <1>18, <1>b DEF Serve, Answer, Opened, Broken
<1>19. CASE Misbehave
  BY <1>19, <1>b DEF Misbehave, Answer, Opened, Broken
<1>20. CASE Lose
  BY <1>20, <1>b DEF Lose, Opened, Broken
<1>21. CASE UNCHANGED vars
  BY <1>21 DEF vars, Opened, Broken
<1> QED
  BY <1>1, <1>2, <1>3, <1>4, <1>5, <1>6, <1>7, <1>8, <1>9, <1>10, <1>11, <1>12,
     <1>13, <1>14, <1>15, <1>16, <1>17, <1>18, <1>19, <1>20, <1>21
     DEF Next, WorkerStep, PeerStep, Over

-----------------------------------------------------------------------------
(* The inductive invariant of a worker's session. *)
THEOREM SessionInvariance == Spec => []SessionInv
<1>1. SessionInv /\ [Next]_vars => SessionInv'
  BY TypesStep, ShakingStep, ReceivingStep, CrossTalkStep, AccountedStep, OpenedStep
     DEF SessionInv
<1> QED
  BY <1>1, InitSession, PTL DEF Spec

(* A file that was fetched has its own chunks, all of them, in order,      *)
(* although no response says which request it answers.                     *)
THEOREM NoCrossTalkCorrect == Spec => []NoCrossTalk
<1>1. SessionInv => NoCrossTalk
  BY DEF SessionInv
<1> QED
  BY <1>1, SessionInvariance, PTL

(* Between two files nothing of an answer is left, on the wire or at the   *)
(* device.                                                                 *)
THEOREM AlignedCorrect == Spec => []Aligned
<1>1. SessionInv => Aligned
  BY DEF SessionInv
<1> QED
  BY <1>1, SessionInvariance, PTL

(* However many files the device refuses, no connection is opened again    *)
(* for them: one is for the first file, and one for each broken stream.    *)
THEOREM RefusalsCorrect == Spec => []RefusalsCostNoSession
<1>1. SessionInv => RefusalsCostNoSession
  BY DEF SessionInv, Opened, Broken, RefusalsCostNoSession
<1> QED
  BY <1>1, SessionInvariance, PTL

(* The files taken from the queue, and only they, have an outcome.         *)
THEOREM AccountedCorrect == Spec => []EveryFileAccounted
<1>1. SessionInv => EveryFileAccounted
  BY DEF SessionInv
<1> QED
  BY <1>1, SessionInvariance, PTL

==============================================================================
