---------------------------- MODULE ModbusStream ----------------------------
(***************************************************************************)
(* The bytes between the Modbus test server (DevUtils/ModbusTestServer.c)  *)
(* and MbRun: connecting, framing, partial sends and receives, and         *)
(* reconnecting.  Server and client are threads of one process.            *)
(*                                                                         *)
(* A frame is a sequence of cells: the header, shortened to the length and *)
(* the unit id, then function code, byte count, the data, and the zero     *)
(* that the server sends because it counts the unit id twice.  A cell      *)
(* knows its packet and its place in the frame; read at any other place it *)
(* can be taken for any number.  The kernel's TCP is external.  The pipe   *)
(* behind MbRun is the subject of ModbusWithPostgres.                      *)
(***************************************************************************)
EXTENDS SdbTime, Sequences, FiniteSetsExt, SequencesExt

CONSTANTS
  DataLength,  \* size of a packet, which is also the PacketSize of the pipe
  MaxLength,   \* MODBUS_TCP_FRAME_MAX_SIZE - MODBUS_TCP_HEADER_LEN
  BufferCap,   \* bytes the kernel holds for a connection
  MaxConns,    \* bound on the connections
  MaxId,       \* packets from this number on are not told apart
  ArenaCap     \* attempts to connect that fit MbArena

ASSUME StreamAssumption ==
  /\ DataLength \in Nat \ {0} /\ MaxLength \in Nat /\ BufferCap \in Nat
  /\ MaxConns \in Nat /\ MaxId \in Nat /\ ArenaCap \in Nat

VARIABLES
  alive, ShutdownRequested,
  spc, NewFd, Id,        \* the server: control state, its connection, next packet
  cpc, SockFd, Frame, Length, \* MbRun
  used,                  \* attempts that have pushed on MbArena
  backlog, link, stream, \* TCP: not accepted, what the server's end knows, bytes
  short,                 \* history: connections with a partial send
  newest                 \* history: the highest number of a packet MbRun stored whole

serverVars == <<spc, NewFd, Id>>
clientVars == <<cpc, SockFd, Frame, Length, used, newest>>
tcpVars == <<backlog, link, stream, short>>
vars == <<alive, ShutdownRequested, serverVars, clientVars, tcpVars>>

Conns == 1 .. MaxConns
HeaderLen == 2
None == 0

(* A frame as SendModbusData lays it out: a header and Length cells.       *)
FrameOf(id) == [i \in 1 .. HeaderLen + DataLength + 3 |-> [pkt |-> id, at |-> i]]

Init ==
  /\ alive = TRUE /\ ShutdownRequested = FALSE
  /\ spc = "accept" /\ NewFd = None /\ Id = 0
  /\ cpc = "outer" /\ SockFd = None /\ Frame = <<>> /\ Length = 0 /\ used = 0 /\ newest = 0
  /\ backlog = <<>> /\ link = [c \in Conns |-> "none"] /\ stream = [c \in Conns |-> <<>>]
  /\ short = {}

-----------------------------------------------------------------------------
(* The server.                                                             *)

(* Fault: the packets of a connection are numbered from the start.         *)
AcceptNumbersAnew ==
  /\ alive /\ spc = "accept" /\ ~ShutdownRequested /\ backlog # <<>>
  /\ NewFd' = Head(backlog) /\ backlog' = Tail(backlog) /\ spc' = "send" /\ Id' = 0
  /\ UNCHANGED <<alive, ShutdownRequested, clientVars, link, stream, short>>

(* Without a connection to accept it sleeps and looks again.               *)
Accept ==
  /\ alive /\ spc = "accept" /\ ~ShutdownRequested /\ backlog # <<>>
  /\ NewFd' = Head(backlog) /\ backlog' = Tail(backlog) /\ spc' = "send"
  /\ UNCHANGED <<alive, ShutdownRequested, Id, clientVars, link, stream, short>>

Room(c) == BufferCap - Len(stream[c])

(* Every call of SendModbusData makes a new packet.                        *)
GenerateShaftPowerDataRandom == IF Id < MaxId THEN Id + 1 ELSE Id

(* What the kernel takes of a frame on a non-blocking socket.              *)
Taken(c) == Min({Room(c), HeaderLen + DataLength + 3})

(* SendModbusData on an open connection.  A partial send is a success, and *)
(* what was not taken is never sent.  Without any room it is EAGAIN.       *)
Send ==
  /\ alive /\ spc = "send" /\ ~ShutdownRequested /\ link[NewFd] = "open"
  /\ Id' = GenerateShaftPowerDataRandom
  /\ stream' = [stream EXCEPT ![NewFd] = @ \o SubSeq(FrameOf(Id'), 1, Taken(NewFd))]
  /\ short' = IF Taken(NewFd) \in 1 .. HeaderLen + DataLength + 2
              THEN short \cup {NewFd} ELSE short
  /\ UNCHANGED <<alive, ShutdownRequested, spc, NewFd, clientVars, backlog, link>>

(* Fault: every error of send is taken for a full buffer.                  *)
SendToClosedAgain ==
  /\ alive /\ spc = "send" /\ ~ShutdownRequested /\ link[NewFd] # "open"
  /\ Id' = GenerateShaftPowerDataRandom
  /\ CASE link[NewFd] = "closed" -> link' = [link EXCEPT ![NewFd] = "pipe"] /\ UNCHANGED alive
       [] link[NewFd] = "pipe"   -> alive' = FALSE /\ UNCHANGED link
       [] link[NewFd] = "reset"  -> UNCHANGED <<link, alive>>
  /\ UNCHANGED <<ShutdownRequested, spc, NewFd, clientVars, backlog, stream, short>>

(* A connection the client has closed: the first send is answered by a     *)
(* reset, and the next one raises SIGPIPE, for which there is no handler.  *)
(* If the client left bytes unread the reset was there before: the send is *)
(* an error and the server closes.                                         *)
SendToClosed ==
  /\ alive /\ spc = "send" /\ ~ShutdownRequested /\ link[NewFd] # "open"
  /\ Id' = GenerateShaftPowerDataRandom
  /\ CASE link[NewFd] = "closed" -> /\ link' = [link EXCEPT ![NewFd] = "pipe"]
                                    /\ UNCHANGED <<alive, spc>>
       [] link[NewFd] = "pipe"   -> alive' = FALSE /\ UNCHANGED <<link, spc>>
       [] link[NewFd] = "reset"  -> spc' = "close" /\ UNCHANGED <<link, alive>>
  /\ UNCHANGED <<ShutdownRequested, NewFd, clientVars, backlog, stream, short>>

(* Fault: only an error ends the loop.                                     *)
ServerClosesOnError ==
  /\ alive /\ spc = "close"
  /\ spc' = "accept"
  /\ link' = [link EXCEPT ![NewFd] = IF @ = "open" THEN "eof" ELSE "gone"]
  /\ NewFd' = None
  /\ UNCHANGED <<alive, ShutdownRequested, Id, clientVars, backlog, stream, short>>

(* The end of the inner loop, after an error or a shutdown request.        *)
ServerCloses ==
  /\ alive /\ (spc = "close" \/ (spc = "send" /\ ShutdownRequested))
  /\ spc' = "accept"
  /\ link' = [link EXCEPT ![NewFd] = IF @ = "open" THEN "eof" ELSE "gone"]
  /\ NewFd' = None
  /\ UNCHANGED <<alive, ShutdownRequested, Id, clientVars, backlog, stream, short>>

(* The listening socket is closed and the connections in it are reset.     *)
ServerStops ==
  /\ alive /\ spc = "accept" /\ ShutdownRequested
  /\ spc' = "done" /\ backlog' = <<>>
  /\ link' = [c \in Conns |-> IF c \in ToSet(backlog) THEN "eof" ELSE link[c]]
  /\ UNCHANGED <<alive, ShutdownRequested, NewFd, Id, clientVars, stream, short>>

-----------------------------------------------------------------------------
(* MbRun.                                                                  *)

Client(label) == alive /\ cpc = label
Rest == UNCHANGED <<alive, ShutdownRequested, serverVars>>

OuterTest ==
  /\ Client("outer") /\ Rest
  /\ cpc' = IF ShutdownRequested THEN "done" ELSE "prepare"
  /\ UNCHANGED <<SockFd, Frame, Length, used, newest, tcpVars>>

(* MbPrepareCtx pushes the context, the file and the address on MbArena    *)
(* and never takes them off; without room the pushed NULL is written to.   *)
ArenaExhausted ==
  /\ Client("prepare") /\ used = ArenaCap
  /\ alive' = FALSE
  /\ UNCHANGED <<ShutdownRequested, serverVars, clientVars, tcpVars>>

(* No file, no address in it, no socket, or no server listening.           *)
PrepareFails ==
  /\ Client("prepare") /\ Rest /\ used < ArenaCap
  /\ used' = used + 1 /\ cpc' = "outer"
  /\ UNCHANGED <<SockFd, Frame, Length, newest, tcpVars>>

Unused == {c \in Conns : link[c] = "none"}

(* SocketCreate: the kernel completes the connection before it is accepted.*)
SocketCreate ==
  /\ Client("prepare") /\ Rest /\ used < ArenaCap /\ spc # "done" /\ Unused # {}
  /\ LET c == Min(Unused)
     IN /\ SockFd' = c /\ backlog' = Append(backlog, c)
        /\ link' = [link EXCEPT ![c] = "open"]
  /\ used' = used + 1 /\ cpc' = "inner"
  /\ UNCHANGED <<Frame, Length, newest, stream, short>>

InnerTest ==
  /\ Client("inner") /\ Rest
  /\ cpc' = IF ShutdownRequested THEN "reconnect" ELSE "header"
  /\ Frame' = <<>>
  /\ UNCHANGED <<SockFd, Length, used, newest, tcpVars>>

(* SocketRecvWithTimeout: cells that are there, the end of the stream, or  *)
(* -2 after the timeout.  A recv may return less than there is.            *)
Available == stream[SockFd]
AtEnd == Available = <<>> /\ link[SockFd] = "eof"
Received(n) ==
  /\ Frame' = Frame \o SubSeq(Available, 1, n)
  /\ stream' = [stream EXCEPT ![SockFd] = SubSeq(@, n + 1, Len(@))]
  /\ UNCHANGED <<backlog, link, short>>

(* A number read from a cell: what the server wrote there, if the cell is  *)
(* the one that is meant.                                                  *)
Number(cell, at, written) == IF cell.at = at THEN {written} ELSE 0 .. MaxLength + 1

(* Fault: the length is not checked against the frame.                     *)
ReceiveHeaderUnchecked ==
  /\ Client("header") /\ Rest /\ Available # <<>>
  /\ \E n \in 1 .. Min({HeaderLen, Len(Available)}) :
       /\ Received(n)
       /\ IF n # HeaderLen THEN cpc' = "reconnect" /\ UNCHANGED Length
          ELSE Length' \in Number(Frame'[1], 1, DataLength + 3) /\ cpc' = "data"
  /\ UNCHANGED <<SockFd, used, newest>>

ReceiveHeader ==
  /\ Client("header") /\ Rest /\ Available # <<>>
  /\ \E n \in 1 .. Min({HeaderLen, Len(Available)}) :
       /\ Received(n)
       /\ IF n # HeaderLen THEN cpc' = "reconnect" /\ UNCHANGED Length
          ELSE /\ Length' \in Number(Frame'[1], 1, DataLength + 3)
               /\ cpc' = IF Length' > MaxLength THEN "reconnect" ELSE "data"
  /\ UNCHANGED <<SockFd, used, newest>>

ReceiveNoHeader ==
  /\ Client("header") /\ Rest /\ Available = <<>>
  /\ cpc' = IF AtEnd THEN "reconnect" ELSE "inner"
  /\ UNCHANGED <<SockFd, Frame, Length, used, newest, tcpVars>>

(* Fault: an incomplete frame is skipped and the connection is kept.       *)
ReceiveDataOrSkip ==
  /\ Client("data") /\ Rest /\ Available # <<>>
  /\ \E n \in Min({Length, 1}) .. Min({Length, Len(Available)}) :
       /\ Received(n)
       /\ cpc' = IF n = Length THEN "parse" ELSE "inner"
  /\ UNCHANGED <<SockFd, Length, used, newest>>

(* The data portion has to come with one recv.                             *)
ReceiveData ==
  /\ Client("data") /\ Rest /\ Available # <<>>
  /\ \E n \in Min({Length, 1}) .. Min({Length, Len(Available)}) :
       /\ Received(n)
       /\ cpc' = IF n = Length THEN "parse" ELSE "reconnect"
  /\ UNCHANGED <<SockFd, Length, used, newest>>

ReceiveNoData ==
  /\ Client("data") /\ Rest /\ Available = <<>>
  /\ cpc' = IF AtEnd /\ Length = 0 THEN "parse" ELSE "reconnect"
  /\ UNCHANGED <<SockFd, Frame, Length, used, newest, tcpVars>>

(* MbParseTcpFrame: the byte count; the frame was cleared before.          *)
ByteCounts == IF Len(Frame) < HeaderLen + 2 THEN {0}
              ELSE Number(Frame[HeaderLen + 2], HeaderLen + 2, DataLength)

Data(frame) == SubSeq(frame, HeaderLen + 3, HeaderLen + 2 + DataLength)
Whole(data, id) == data = Data(FrameOf(id))

(* The checks on the frame, and the copy of the packet to the buffer.      *)
ParseAndStore ==
  /\ Client("parse") /\ Rest
  /\ \E count \in ByteCounts :
       IF Length = count + 3 /\ count = DataLength
       THEN /\ newest' = Max({newest} \cup {id \in 1 .. MaxId : Whole(Data(Frame), id)})
            /\ cpc' = "inner"
       ELSE cpc' = "reconnect" /\ UNCHANGED newest
  /\ UNCHANGED <<SockFd, Frame, Length, used, tcpVars>>

(* select or recv returns -1, whatever there is to receive.                *)
ReceiveFails ==
  /\ (Client("header") \/ Client("data")) /\ Rest
  /\ cpc' = "reconnect"
  /\ UNCHANGED <<SockFd, Frame, Length, used, newest, tcpVars>>

(* The reconnect label: close, and the kernel drops what was not read.     *)
Reconnect ==
  /\ Client("reconnect") /\ Rest
  /\ link' = [link EXCEPT ![SockFd] = CASE @ = "eof" -> "gone"
                                        [] @ = "open" /\ Available = <<>> -> "closed"
                                        [] OTHER -> "reset"]
  /\ stream' = [stream EXCEPT ![SockFd] = <<>>]
  /\ SockFd' = None /\ cpc' = "outer"
  /\ UNCHANGED <<Frame, Length, used, newest, backlog, short>>

(* SIGINT or SIGTERM.                                                      *)
Signal ==
  /\ alive /\ ~ShutdownRequested
  /\ ShutdownRequested' = TRUE
  /\ UNCHANGED <<alive, serverVars, clientVars, tcpVars>>

-----------------------------------------------------------------------------
ServerStep == Accept \/ Send \/ SendToClosed \/ ServerCloses \/ ServerStops

ClientStep ==
  \/ OuterTest \/ ArenaExhausted \/ PrepareFails \/ SocketCreate \/ InnerTest
  \/ ReceiveHeader \/ ReceiveNoHeader \/ ReceiveData \/ ReceiveNoData
  \/ ReceiveFails \/ ParseAndStore \/ Reconnect

Next == ServerStep \/ ClientStep \/ Signal

(* Both threads are scheduled.  Nothing is assumed of the network.         *)
Spec == Init /\ [][Next]_vars /\ WF_vars(ServerStep) /\ WF_vars(ClientStep)

-----------------------------------------------------------------------------
(* The variables have their types, and the two ends of a connection agree  *)
(* on what it is for.                                                      *)
StreamTypeOK ==
  /\ alive \in BOOLEAN /\ ShutdownRequested \in BOOLEAN
  /\ spc \in {"accept", "send", "close", "done"} /\ NewFd \in Conns \cup {None} /\ Id \in 0 .. MaxId
  /\ cpc \in {"outer", "prepare", "inner", "header", "data", "parse", "reconnect", "done"}
  /\ Len(Frame) <= HeaderLen + MaxLength /\ used \in 0 .. ArenaCap
  /\ \A c \in Conns : /\ Len(stream[c]) <= BufferCap
                      /\ c \in ToSet(backlog) => c # NewFd /\ link[c] # "none"
  /\ NewFd # None <=> spc \in {"send", "close"}
  /\ SockFd # None <=> cpc \notin {"outer", "prepare", "done"}

Stores == cpc = "parse" /\ cpc' = "inner"

(* What MbRun stores is exactly the data of one packet, however recv cuts  *)
(* the stream, as long as the server has sent the frames of the connection *)
(* completely.                                                             *)
StoresWhole ==
  Stores /\ SockFd \notin short => \E id \in 1 .. MaxId : Whole(Data(Frame), id)

(* A packet stored whole is newer than all that were stored whole before,  *)
(* over reconnects, full buffers and torn packets in between: packets may  *)
(* be skipped, but none is stored twice or after a later one.  MaxId       *)
(* stands for all packets from that number on.                             *)
StoresInOrder ==
  \A id \in 1 .. MaxId - 1 : Stores /\ Whole(Data(Frame), id) => id > newest

(* What MbRun stores are whole packets in order.                           *)
PacketsRight == [][StoresWhole /\ StoresInOrder]_vars

(* A client that has connected is served, or reset by a server that stops, *)
(* also when the server is still sending on the connection before, unless  *)
(* the process dies of it.                                                 *)
ClientsServed ==
  \A c \in Conns : c \in ToSet(backlog) ~> (c \notin ToSet(backlog) \/ ~alive)

(* After a shutdown request both threads end, whatever the network does.   *)
ShutdownEnds == ShutdownRequested ~> (spc = "done" /\ cpc = "done") \/ ~alive

Deltas == {0, 1, 256, 257, 1000, 458752000, 500000000, 999999000, 999999999,
           1000000000, 1999999999}

(* The times that bound the waits of the threads, before MbRun connects,   *)
(* from the first seconds of a clock and from the present: a deadline is   *)
(* delta after its start; it is never taken for expired before it has      *)
(* passed, and always once it is past by more than a double of the time of *)
(* day can miss; and a receive with a timeout below a second waits no      *)
(* longer than asked (Time.c).                                             *)
TimeoutsRight ==
  cpc = "outer" /\ used = 0 /\ spc = "accept" =>
    \A s \in {0, 1, 1700000000}, ns \in {0, 1, 384, 500000000, 999999999}, d \in Deltas :
      LET start == Time(s, ns)  end == SdbTimeAdd(start, d)
      IN  /\ end.tv_nsec \in 0 .. NsPerS - 1
          /\ SdbTimePrintSpecDiffWT(start, end) = SdbTimespec(d)
          /\ ~ SdbTimeoutExpired(end, start)
          /\ SdbTimeoutExpired(start, end) => d > 0
          /\ d > (IF Spacing(end) = 1 THEN 0 ELSE Spacing(end)) => SdbTimeoutExpired(start, end)
          /\ d < NsPerS => SdbTimeval(d).tv_sec = 0 /\ SdbTimeval(d).tv_usec <= d \div 1000

(* Types, the two ends of every connection, and the timeouts of both.      *)
StreamInv == StreamTypeOK /\ TimeoutsRight
=============================================================================
