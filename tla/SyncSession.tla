----------------------------- MODULE SyncSession -----------------------------
(***************************************************************************)
(* One worker's sync stream: opening it through the adb server             *)
(* (client.rs, stream.rs), the RECV requests on it (sync.rs), and the      *)
(* worker's decision to keep or to replace it after an error               *)
(* (transfer.rs).                                                          *)
(*                                                                         *)
(* A connection is two FIFO channels of messages.  The peer, which is not  *)
(* part of this code, answers the handshake, then serves one request at a  *)
(* time; it may refuse a file after any number of chunks, violate the      *)
(* protocol, or be lost, and then what was in flight is cut off anywhere.  *)
(* A chunk carries the file and the position it comes from, which the real *)
(* messages do not: the code never looks at it, the properties do.         *)
(***************************************************************************)
EXTENDS Integers, Sequences, FiniteSets

CONSTANTS
  Files,     \* the files this worker takes from the queue, in order
  Size,      \* the number of DATA chunks of a file
  Attempts   \* ATTEMPTS in open_session

Names == {Files[k] : k \in 1..Len(Files)}

ASSUME SessionAssumption ==
  /\ Files \in Seq(Names)
  /\ \A j, k \in 1..Len(Files) : Files[j] = Files[k] => j = k
  /\ Size \in [Names -> Nat]
  /\ Attempts \in Nat \ {0}

VARIABLES
  pc,        \* where the worker is
  failedOpens, \* the attempts of the current open_session that failed
  pos,       \* the number of files taken so far
  sink,      \* what recv has written to the fanout for the current file
  outcome,   \* what became of every file
  copy,      \* the contents of the files that were fetched
  \* the connection, dropped when the worker replaces it
  up, down, alive,
  \* the peer
  peer, serving, sent,
  \* history: the connections that became sessions
  opens

host == <<pc, failedOpens, pos, sink, outcome, copy, opens>>
wire == <<up, down, alive>>
dev  == <<peer, serving, sent>>
vars == <<host, wire, dev>>

Current == Files[pos]

Msg(k)      == [kind |-> k]
Chunk(f, k) == [kind |-> "DATA", file |-> f, at |-> k]
Request(f)  == [kind |-> "RECV", file |-> f]

Init ==
  /\ pc = "connect" /\ failedOpens = 0 /\ pos = 0 /\ sink = <<>>
  /\ outcome = [f \in Names |-> "todo"] /\ copy = [f \in Names |-> <<>>]
  /\ up = <<>> /\ down = <<>> /\ alive = FALSE
  /\ peer = "server" /\ serving = <<>> /\ sent = 0
  /\ opens = 0

-----------------------------------------------------------------------------
(* The worker: open_session.                                               *)

(* AdbStream::connect, then the request for the device's transport. *)
Connect ==
  /\ pc = "connect"
  /\ up' = <<Msg("transport")>> /\ down' = <<>> /\ alive' = TRUE
  /\ peer' = "server" /\ serving' = <<>> /\ sent' = 0
  /\ pc' = "transport"
  /\ UNCHANGED <<failedOpens, pos, sink, outcome, copy, opens>>

NoAttemptLeft == failedOpens + 1 = Attempts

OpenFailsUncounted ==  \* mutant: the attempts are not counted
  /\ pc' = "connect" /\ alive' = FALSE
  /\ UNCHANGED <<failedOpens, up, down, pos, sink, outcome, copy, dev, opens>>

(* One attempt failed; the last one ends the worker, whether this is its   *)
(* first session or a replacement.                                         *)
OpenFails ==
  /\ failedOpens' = failedOpens + 1
  /\ pc' = IF NoAttemptLeft THEN "gaveUp" ELSE "connect"
  /\ alive' = FALSE
  /\ UNCHANGED <<up, down, pos, sink, outcome, copy, dev, opens>>

ConnectFails == pc = "connect" /\ OpenFails

(* A read finds its message, or the end of a connection that was lost. *)
Next1(k) == down # <<>> /\ Head(down).kind = k
Eof      == down = <<>> /\ ~alive

TransportReady ==
  /\ pc = "transport" /\ Next1("OKAY")
  /\ down' = Tail(down) /\ up' = Append(up, Msg("sync"))
  /\ pc' = "service"
  /\ UNCHANGED <<alive, failedOpens, pos, sink, outcome, copy, dev, opens>>

ServiceReady ==
  /\ pc = "service" /\ Next1("OKAY")
  /\ down' = Tail(down)
  /\ pc' = "idle" /\ opens' = opens + 1 /\ failedOpens' = 0
  /\ UNCHANGED <<up, alive, pos, sink, outcome, copy, dev>>

(* FAIL, anything but OKAY or FAIL, or the end of the stream. *)
HandshakeFails ==
  /\ pc \in {"transport", "service"}
  /\ Eof \/ (down # <<>> /\ ~Next1("OKAY"))
  /\ OpenFails

-----------------------------------------------------------------------------
(* The worker: one file after the other.                                   *)

SyncBreaks(error) == TRUE                      \* mutant: any Adb error
IoSurvives(error) == error = "Protocol"        \* mutant: framing errors only
ProtocolSurvives(error) == error \in {"Io", "NothingOpened"} \* mutant: io only
BreaksStream(error) == error # "Sync"

(* The request; when the connection is lost, its write may succeed still.  *)
SendRecv ==
  /\ pc = "idle" /\ pos < Len(Files)
  /\ pos' = pos + 1 /\ sink' = <<>>
  /\ up' = Append(up, Request(Files[pos + 1]))
  /\ pc' = "recv"
  /\ UNCHANGED <<down, alive, failedOpens, outcome, copy, dev, opens>>

(* The file failed with this error; after one that breaks the stream the   *)
(* session is dropped and open_session starts anew.                        *)
FileFails(f, error) ==
  /\ outcome' = [outcome EXCEPT ![f] = error]
  /\ IF BreaksStream(error)
     THEN pc' = "connect" /\ alive' = FALSE
     ELSE pc' = "idle" /\ UNCHANGED alive

SendFailsUnreported ==  \* mutant: the error is not tied to the file
  /\ pc = "idle" /\ pos < Len(Files) /\ ~alive
  /\ pos' = pos + 1 /\ pc' = "connect"
  /\ UNCHANGED <<failedOpens, sink, outcome, copy, opens, wire, dev>>

SendFails ==
  /\ pc = "idle" /\ pos < Len(Files) /\ ~alive
  /\ pos' = pos + 1
  /\ FileFails(Files[pos + 1], "Io")
  /\ UNCHANGED <<up, down, failedOpens, sink, copy, dev, opens>>

(* fetch_one could open no destination: an io error before any request. *)
NothingOpened ==
  /\ pc = "idle" /\ pos < Len(Files)
  /\ pos' = pos + 1
  /\ FileFails(Files[pos + 1], "NothingOpened")
  /\ UNCHANGED <<up, down, failedOpens, sink, copy, dev, opens>>

ReadData ==
  /\ pc = "recv" /\ Next1("DATA")
  /\ down' = Tail(down)
  /\ sink' = Append(sink, <<Head(down).file, Head(down).at>>)
  /\ UNCHANGED <<pc, failedOpens, pos, outcome, copy, up, alive, dev, opens>>

(* Every destination has gone: the write fails in the middle of the        *)
(* response.                                                               *)
SinkGone ==
  /\ pc = "recv" /\ Next1("DATA")
  /\ down' = Tail(down)
  /\ FileFails(Current, "Io")
  /\ UNCHANGED <<failedOpens, pos, sink, copy, up, dev, opens>>

ReadDone ==
  /\ pc = "recv" /\ Next1("DONE")
  /\ down' = Tail(down)
  /\ outcome' = [outcome EXCEPT ![Current] = "fetched"]
  /\ copy' = [copy EXCEPT ![Current] = sink]
  /\ pc' = "idle"
  /\ UNCHANGED <<failedOpens, pos, sink, up, alive, dev, opens>>

ReadFail ==
  /\ pc = "recv" /\ Next1("FAIL")
  /\ down' = Tail(down)
  /\ FileFails(Current, "Sync")
  /\ UNCHANGED <<failedOpens, pos, sink, copy, up, dev, opens>>

(* An unknown id, or a DATA header that announces more than 64 KiB, whose  *)
(* payload stays unread.                                                   *)
ReadUnexpected ==
  /\ pc = "recv" /\ down # <<>>
  /\ Head(down).kind \notin {"DATA", "DONE", "FAIL"}
  /\ down' = Tail(down)
  /\ FileFails(Current, "Protocol")
  /\ UNCHANGED <<failedOpens, pos, sink, copy, up, dev, opens>>

ReadEof ==
  /\ pc = "recv" /\ Eof
  /\ FileFails(Current, "Io")
  /\ UNCHANGED <<up, down, failedOpens, pos, sink, copy, dev, opens>>

Quit ==
  /\ pc = "idle" /\ pos = Len(Files)
  /\ up' = Append(up, Msg("QUIT"))
  /\ pc' = "quit"
  /\ UNCHANGED <<failedOpens, pos, sink, outcome, copy, down, alive, dev, opens>>

-----------------------------------------------------------------------------
(* The peer: the adb server during the handshake, then the device's adbd.  *)

Answer(m) == down' = Append(down, m)

Handshake ==
  /\ alive /\ up # <<>> /\ peer \in {"server", "adbd"}
  /\ up' = Tail(up)
  /\ \E k \in {"OKAY", "FAIL", "BAD"} : Answer(Msg(k))
  /\ peer' = IF peer = "server" THEN "adbd" ELSE "sync"
  /\ UNCHANGED <<alive, serving, sent, host>>

Accept ==
  /\ alive /\ up # <<>> /\ peer = "sync" /\ serving = <<>>
  /\ Head(up).kind = "RECV"
  /\ up' = Tail(up)
  /\ serving' = <<Head(up).file>> /\ sent' = 0
  /\ UNCHANGED <<down, alive, peer, host>>

(* The next chunk, or DONE after the last; FAIL at any point; a message    *)
(* the protocol does not allow, after which adbd goes on as before.        *)
Serve ==
  /\ alive /\ serving # <<>>
  /\ \/ /\ sent < Size[serving[1]]
        /\ sent' = sent + 1 /\ Answer(Chunk(serving[1], sent + 1))
        /\ UNCHANGED serving
     \/ /\ sent = Size[serving[1]]
        /\ Answer(Msg("DONE"))
        /\ serving' = <<>> /\ UNCHANGED sent
     \/ /\ Answer(Msg("FAIL"))
        /\ serving' = <<>> /\ UNCHANGED sent
  /\ UNCHANGED <<up, alive, peer, host>>

Misbehave ==
  /\ alive /\ serving # <<>> /\ Len(down) < 2
  /\ \E k \in {"BAD", "LONG"} : Answer(Msg(k))
  /\ UNCHANGED <<up, alive, dev, host>>

(* The connection is lost: of what was in flight, any prefix arrives. *)
Lose ==
  /\ alive
  /\ alive' = FALSE /\ up' = <<>>
  /\ \E n \in 0..Len(down) : down' = SubSeq(down, 1, n)
  /\ UNCHANGED <<dev, host>>

-----------------------------------------------------------------------------
WorkerStep ==
  \/ Connect \/ ConnectFails \/ TransportReady \/ ServiceReady \/ HandshakeFails
  \/ SendRecv \/ SendFails \/ NothingOpened
  \/ ReadData \/ SinkGone \/ ReadDone \/ ReadFail \/ ReadUnexpected \/ ReadEof
  \/ Quit

PeerStep == Handshake \/ Accept \/ Serve

Over == pc \in {"quit", "gaveUp"} /\ UNCHANGED vars

Next == WorkerStep \/ PeerStep \/ Misbehave \/ Lose \/ Over

(* tokio polls a task that can go on.  That the peer answers what it was   *)
(* sent, or the connection is lost, is an assumption about the peer: no    *)
(* read in the code has a timeout.                                         *)
Fairness == WF_vars(WorkerStep) /\ WF_vars(PeerStep)

Spec == Init /\ [][Next]_vars /\ Fairness

-----------------------------------------------------------------------------
Errors == {"Io", "Protocol", "Sync", "NothingOpened"}

Content(f) == [k \in 1..Size[f] |-> <<f, k>>]

(* "Requests are answered in order and responses carry no request tag"     *)
(* (SyncSession): nothing but the worker's care ties a response to its     *)
(* file.  A file that was fetched has exactly its own chunks, in order,    *)
(* whatever failed before it on the same session.                          *)
NoCrossTalk ==
  \A f \in Names : outcome[f] = "fetched" => copy[f] = Content(f)

(* Between two files a session holds nothing of the last response, and the *)
(* peer serves nothing: the next answer read is the next request's.        *)
Aligned ==
  pc = "idle" =>
    up = <<>> /\ down = <<>> /\ (alive => peer = "sync" /\ serving = <<>>)

(* "The session survives" a FAIL response (breaks_stream): a device that   *)
(* refuses files costs no reconnection, however many it refuses.           *)
RefusalsCostNoSession ==
  opens <= 1 + Cardinality({f \in Names : outcome[f] \in Errors \ {"Sync"}})

(* No file is passed over: those taken have an outcome, except the current *)
(* one, and a worker that leaves politely has dealt with all of them.      *)
EveryFileAccounted ==
  /\ \A k \in 1..Len(Files) :
       outcome[Files[k]] = "todo" <=> k > pos \/ (k = pos /\ pc = "recv")
  /\ pc = "quit" => pos = Len(Files)

(* The worker ends: whatever the peer sends and whenever it is lost, it    *)
(* reaches the end of its files or has no attempt left.                    *)
WorkerEnds == <>(pc \in {"quit", "gaveUp"})

=============================================================================
