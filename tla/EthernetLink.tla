---------------------------- MODULE EthernetLink ----------------------------
(***************************************************************************)
(* EthernetCommunication: the link of the vehicle HAL to the server at     *)
(* mIPServer, when the configuration asks for it instead of SPI.  A monitor *)
(* thread connects, looks every three seconds whether the connection is    *)
(* alive and builds a new one when it is not; a reader and a writer thread *)
(* serve each connection; transferThread_V1_2, the only caller, sends a    *)
(* request and then asks for a packet, again and again.                    *)
(*                                                                         *)
(* The stream from the server is a sequence of pieces: the head of a packet *)
(* (marker and length), its body, and noise between packets that holds no  *)
(* marker.                                                                 *)
(*                                                                         *)
(* Only destructors call closeDevice, at the end of the process: mExitThreads *)
(* is always false here.                                                   *)
(***************************************************************************)
EXTENDS Naturals, Sequences

CONSTANTS
  PieceBound,  \* bound: pieces sent by the server and not yet returned
  QueueBound   \* bound: requests queued when the caller queues another

ASSUME EthernetAssumption == PieceBound \in Nat /\ QueueBound \in Nat \ {0}

\* `now': the piece belongs to the connection that is open
Piece == [part : {"head", "body", "noise"}, id : {0, 1}, now : BOOLEAN]

\* A request was accepted for the open connection, for an earlier one, or by
\* a SendMessage that had tested mConnectionActive when an earlier one ended.
Request == {"now", "before", "overlap"}

VARIABLES
  socketFd, mConnectionActive, mReadBuffer, mPacketBuffer, mWriteQueue,
  pcMonitor, pcRead, pcWrite, toSend,
  pcCall, asked, received,      \* the caller, its request, its last packet
  peer, wire, next              \* the server, bytes not read, its next piece

bufferVars == <<mReadBuffer, mPacketBuffer, mWriteQueue>>
callVars == <<pcCall, asked, received>>
farVars == <<peer, wire, next>>
vars == <<socketFd, mConnectionActive, bufferVars, pcMonitor, pcRead, pcWrite, toSend,
          callVars, farVars>>

MonitorPc == {"loop", "activate", "spawnRead", "spawnWrite", "check", "pause", "joinRead",
              "joinWrite", "close", "clearRead", "clearWrite"}

TypeOK ==
  /\ socketFd \in {"closed", "open"} /\ mConnectionActive \in BOOLEAN
  /\ mReadBuffer \in Seq(Piece) /\ mPacketBuffer \in Seq(Piece)
  /\ mWriteQueue \in Seq(Request)
  /\ pcMonitor \in MonitorPc
  /\ pcRead \in {"none", "loop", "recv", "notify", "leave", "exited", "joined"}
  /\ pcWrite \in {"none", "loop", "wait", "send", "exited", "joined"}
  /\ toSend \in Request
  /\ pcCall \in {"idle", "push", "receive", "wait"} /\ asked \in Request
  /\ received \in Seq(Piece) /\ Len(received) \in {0, 2}
  /\ peer \in {"up", "closed", "reset"} /\ wire \in Seq(Piece)
  /\ next \in [part : {"head", "body"}, id : {0, 1}]

Init ==
  /\ socketFd = "closed" /\ mConnectionActive = FALSE
  /\ mReadBuffer = <<>> /\ mPacketBuffer = <<>> /\ mWriteQueue = <<>>
  /\ pcMonitor = "loop" /\ pcRead = "none" /\ pcWrite = "none" /\ toSend = "now"
  /\ pcCall = "idle" /\ asked = "now" /\ received = <<>>
  /\ peer = "reset" /\ wire = <<>> /\ next = [part |-> "head", id |-> 0]

-----------------------------------------------------------------------------
(* connectionMonitorThreadFunc.                                            *)

ConnectFails ==
  /\ pcMonitor = "loop" /\ ~mConnectionActive
  /\ pcMonitor' = "pause"
  /\ UNCHANGED <<socketFd, mConnectionActive, bufferVars, pcRead, pcWrite, toSend, callVars,
                 farVars>>

\* What is left of an earlier connection becomes old.
AgedPieces(s) == [i \in 1..Len(s) |-> [s[i] EXCEPT !.now = FALSE]]
AgedRequest(r) == IF r = "now" THEN "before" ELSE r

createConnection ==
  /\ pcMonitor = "loop" /\ ~mConnectionActive
  /\ socketFd' = "open" /\ pcMonitor' = "activate"
  /\ peer' = "up" /\ wire' = <<>> /\ next' = [next EXCEPT !.part = "head"]
  /\ mReadBuffer' = AgedPieces(mReadBuffer)
  /\ mPacketBuffer' = AgedPieces(mPacketBuffer)
  /\ mWriteQueue' = [i \in 1..Len(mWriteQueue) |-> AgedRequest(mWriteQueue[i])]
  /\ UNCHANGED <<mConnectionActive, pcRead, pcWrite, toSend, callVars>>

Activate ==
  /\ pcMonitor = "activate"
  /\ mConnectionActive' = TRUE /\ pcMonitor' = "spawnRead"
  /\ UNCHANGED <<socketFd, bufferVars, pcRead, pcWrite, toSend, callVars, farVars>>

\* startReadWriteThreads; there is no thread left that it could wait for
SpawnRead ==
  /\ pcMonitor = "spawnRead" /\ pcRead = "none" /\ pcWrite = "none"
  /\ pcRead' = "loop" /\ pcMonitor' = "spawnWrite"
  /\ UNCHANGED <<socketFd, mConnectionActive, bufferVars, pcWrite, toSend, callVars, farVars>>

SpawnWrite ==
  /\ pcMonitor = "spawnWrite"
  /\ pcWrite' = "loop" /\ pcMonitor' = "check"
  /\ UNCHANGED <<socketFd, mConnectionActive, bufferVars, pcRead, toSend, callVars, farVars>>

\* A connection the server has closed passes for alive until it is reset,
\* and a reset need not be the first error that send reports.
isConnectionAlive ==
  /\ pcMonitor = "check"
  /\ pcMonitor' = "pause"
  /\ UNCHANGED <<socketFd, mConnectionActive, bufferVars, pcRead, pcWrite, toSend, callVars,
                 farVars>>

\* mutant: the socket is closed before the threads are joined
LostAndClosed ==
  /\ pcMonitor = "check" /\ peer = "reset"
  /\ mConnectionActive' = FALSE /\ socketFd' = "closed" /\ pcMonitor' = "joinRead"
  /\ UNCHANGED <<bufferVars, pcRead, pcWrite, toSend, callVars, farVars>>

Lost ==
  /\ pcMonitor = "check" /\ peer = "reset"
  /\ mConnectionActive' = FALSE /\ pcMonitor' = "joinRead"
  /\ UNCHANGED <<socketFd, bufferVars, pcRead, pcWrite, toSend, callVars, farVars>>

JoinRead ==
  /\ pcMonitor = "joinRead" /\ pcRead = "exited"
  /\ pcRead' = "joined" /\ pcMonitor' = "joinWrite"
  /\ UNCHANGED <<socketFd, mConnectionActive, bufferVars, pcWrite, toSend, callVars, farVars>>

JoinWrite ==
  /\ pcMonitor = "joinWrite" /\ pcWrite = "exited"
  /\ pcWrite' = "joined" /\ pcMonitor' = "close"
  /\ UNCHANGED <<socketFd, mConnectionActive, bufferVars, pcRead, toSend, callVars, farVars>>

CloseSocket ==
  /\ pcMonitor = "close"
  /\ socketFd' = "closed" /\ pcMonitor' = "clearRead"
  /\ pcRead' = "none" /\ pcWrite' = "none" /\ wire' = <<>>
  /\ UNCHANGED <<mConnectionActive, bufferVars, toSend, callVars, peer, next>>

\* mutant: bytes of a packet that was cut off stay
ClearReadBuffer ==
  /\ pcMonitor = "clearRead"
  /\ mReadBuffer' = <<>> /\ pcMonitor' = "clearWrite"
  /\ UNCHANGED <<socketFd, mConnectionActive, mPacketBuffer, mWriteQueue, pcRead, pcWrite,
                 toSend, callVars, farVars>>

ClearRead ==
  /\ pcMonitor = "clearRead"
  /\ mReadBuffer' = <<>> /\ mPacketBuffer' = <<>> /\ pcMonitor' = "clearWrite"
  /\ UNCHANGED <<socketFd, mConnectionActive, mWriteQueue, pcRead, pcWrite, toSend, callVars,
                 farVars>>

\* mutant: requests of the lost connection stay
KeepWrite ==
  /\ pcMonitor = "clearWrite"
  /\ pcMonitor' = "loop"
  /\ asked' = IF pcCall = "push" THEN "overlap" ELSE asked
  /\ UNCHANGED <<socketFd, mConnectionActive, bufferVars, pcRead, pcWrite,
                 toSend, pcCall, received, farVars>>

ClearWrite ==
  /\ pcMonitor = "clearWrite"
  /\ mWriteQueue' = <<>> /\ pcMonitor' = "loop"
  /\ asked' = IF pcCall = "push" THEN "overlap" ELSE asked
  /\ UNCHANGED <<socketFd, mConnectionActive, mReadBuffer, mPacketBuffer, pcRead, pcWrite,
                 toSend, pcCall, received, farVars>>

\* The end of a wait of three or five seconds, and the next turn.
EndPause ==
  /\ pcMonitor = "pause"
  /\ pcMonitor' = IF mConnectionActive THEN "check" ELSE "loop"
  /\ UNCHANGED <<socketFd, mConnectionActive, bufferVars, pcRead, pcWrite, toSend, callVars,
                 farVars>>

-----------------------------------------------------------------------------
(* readThreadFunc.                                                         *)

ReadLoop ==
  /\ pcRead = "loop"
  /\ pcRead' = IF mConnectionActive THEN "recv" ELSE "leave"
  /\ UNCHANGED <<socketFd, mConnectionActive, bufferVars, pcMonitor, pcWrite, toSend,
                 callVars, farVars>>

Recv ==
  /\ pcRead = "recv"
  /\ \E n \in 1..Len(wire) :
       /\ mReadBuffer' = mReadBuffer \o SubSeq(wire, 1, n)
       /\ wire' = SubSeq(wire, n + 1, Len(wire))
  /\ pcRead' = "notify"
  /\ UNCHANGED <<socketFd, mConnectionActive, mPacketBuffer, mWriteQueue, pcMonitor, pcWrite,
                 toSend, callVars, peer, next>>

\* recv returns 0 or an error
RecvEnds ==
  /\ pcRead = "recv" /\ peer # "up" /\ wire = <<>>
  /\ pcRead' = "leave"
  /\ UNCHANGED <<socketFd, mConnectionActive, bufferVars, pcMonitor, pcWrite, toSend,
                 callVars, farVars>>

\* notify_one after each read and notify_all at the end: the caller alone waits
ReadNotify ==
  /\ pcRead \in {"notify", "leave"}
  /\ pcRead' = IF pcRead = "notify" THEN "loop" ELSE "exited"
  /\ pcCall' = IF pcCall = "wait" THEN "receive" ELSE pcCall
  /\ UNCHANGED <<socketFd, mConnectionActive, bufferVars, pcMonitor, pcWrite, toSend,
                 asked, received, farVars>>

-----------------------------------------------------------------------------
(* writeThreadFunc.                                                        *)

WriteWait ==
  /\ pcWrite = "loop" /\ mConnectionActive /\ mWriteQueue = <<>>
  /\ pcWrite' = "wait"
  /\ UNCHANGED <<socketFd, mConnectionActive, bufferVars, pcMonitor, pcRead, toSend,
                 callVars, farVars>>

WriteTake ==
  /\ pcWrite = "loop" /\ mConnectionActive /\ mWriteQueue # <<>>
  /\ toSend' = Head(mWriteQueue) /\ mWriteQueue' = Tail(mWriteQueue)
  /\ pcWrite' = "send"
  /\ UNCHANGED <<socketFd, mConnectionActive, mReadBuffer, mPacketBuffer, pcMonitor, pcRead,
                 callVars, farVars>>

WriteLeave ==
  /\ pcWrite = "loop" /\ ~mConnectionActive
  /\ pcWrite' = "exited"
  /\ UNCHANGED <<socketFd, mConnectionActive, bufferVars, pcMonitor, pcRead, toSend,
                 callVars, farVars>>

\* A server that has closed answers what is written with a reset.
Send ==
  /\ pcWrite = "send"
  /\ pcWrite' = "loop" /\ toSend' = "now"
  /\ peer' \in {peer} \cup IF peer = "closed" THEN {"reset"} ELSE {}
  /\ UNCHANGED <<socketFd, mConnectionActive, bufferVars, pcMonitor, pcRead, callVars, wire,
                 next>>

SendFails ==
  /\ pcWrite = "send" /\ peer = "reset"
  /\ pcWrite' = "exited" /\ toSend' = "now"
  /\ UNCHANGED <<socketFd, mConnectionActive, bufferVars, pcMonitor, pcRead, callVars,
                 farVars>>

-----------------------------------------------------------------------------
(* transferData_V1_2: SendMessage and, if it succeeds, receiveData.        *)

SendMessageTest ==
  /\ pcCall = "idle" /\ mConnectionActive
  /\ Len(mWriteQueue) < QueueBound
  /\ pcCall' = "push" /\ received' = <<>>
  /\ UNCHANGED <<socketFd, mConnectionActive, bufferVars, pcMonitor, pcRead, pcWrite, toSend,
                 asked, farVars>>

\* mutant: the writer is told only when requests have piled up
SendMessagePushLazily ==
  /\ pcCall = "push"
  /\ mWriteQueue' = Append(mWriteQueue, asked)
  /\ pcWrite' = IF pcWrite = "wait" /\ mWriteQueue # <<>> THEN "loop" ELSE pcWrite
  /\ pcCall' = "receive" /\ asked' = "now"
  /\ UNCHANGED <<socketFd, mConnectionActive, mReadBuffer, mPacketBuffer, pcMonitor, pcRead,
                 toSend, received, farVars>>

SendMessagePush ==
  /\ pcCall = "push"
  /\ mWriteQueue' = Append(mWriteQueue, asked)
  /\ pcWrite' = IF pcWrite = "wait" THEN "loop" ELSE pcWrite
  /\ pcCall' = "receive" /\ asked' = "now"
  /\ UNCHANGED <<socketFd, mConnectionActive, mReadBuffer, mPacketBuffer, pcMonitor, pcRead,
                 toSend, received, farVars>>

\* mutant: what earlier reads left over is not looked at before waiting
NothingNew == mReadBuffer = <<>>
NothingThere == mPacketBuffer = <<>> /\ mReadBuffer = <<>>

ReceiveWait ==
  /\ pcCall = "receive" /\ mConnectionActive /\ NothingThere
  /\ pcCall' = "wait"
  /\ UNCHANGED <<socketFd, mConnectionActive, bufferVars, pcMonitor, pcRead, pcWrite, toSend,
                 asked, received, farVars>>

ReceiveNothing ==
  /\ pcCall = "receive" /\ ~mConnectionActive
  /\ pcCall' = "idle"
  /\ UNCHANGED <<socketFd, mConnectionActive, bufferVars, pcMonitor, pcRead, pcWrite, toSend,
                 asked, received, farVars>>

\* The bytes before the first marker are dropped; without a marker all but
\* the last ones, which may be the first of a marker.
Heads(b) == {i \in 1..Len(b) : b[i].part = "head"}
FromHead(b) ==
  LET cuts == Heads(b) \cup {Len(b)}
  IN  IF b = <<>> THEN b ELSE SubSeq(b, CHOOSE i \in cuts : \A j \in cuts : i <= j, Len(b))

\* What follows the head has the length the head names.
Whole(b) == Heads(b) # {} /\ Len(b) >= 2
Packet(b) == SubSeq(b, 1, 2)

Receive ==
  /\ pcCall = "receive" /\ mConnectionActive /\ ~NothingThere
  /\ mReadBuffer' = <<>>
  /\ LET b == FromHead(mPacketBuffer \o mReadBuffer) IN
     \/ /\ Whole(b)
        /\ received' = Packet(b) /\ mPacketBuffer' = SubSeq(b, 3, Len(b))
     \/ /\ ~Whole(b)
        /\ mPacketBuffer' = b /\ UNCHANGED received
  /\ pcCall' = "idle"
  /\ UNCHANGED <<socketFd, mConnectionActive, mWriteQueue, pcMonitor, pcRead, pcWrite, toSend,
                 asked, farVars>>

-----------------------------------------------------------------------------
(* The server and the network.                                             *)

Pending == Len(wire) + Len(mReadBuffer) + Len(mPacketBuffer)

PeerSends ==
  /\ peer = "up" /\ Pending < PieceBound
  /\ wire' = Append(wire, [part |-> next.part, id |-> next.id, now |-> TRUE])
  /\ next' = IF next.part = "head" THEN [next EXCEPT !.part = "body"]
                                   ELSE [part |-> "head", id |-> 1 - next.id]
  /\ UNCHANGED <<socketFd, mConnectionActive, bufferVars, pcMonitor, pcRead, pcWrite, toSend,
                 callVars, peer>>

PeerNoise ==
  /\ peer = "up" /\ Pending < PieceBound /\ next.part = "head"
  /\ wire' = Append(wire, [part |-> "noise", id |-> 0, now |-> TRUE])
  /\ UNCHANGED <<socketFd, mConnectionActive, bufferVars, pcMonitor, pcRead, pcWrite, toSend,
                 callVars, peer, next>>

\* The server closes, or the connection is reset; bytes may be lost with it.
PeerGone ==
  /\ \/ peer = "up" /\ peer' = "closed" /\ UNCHANGED wire
     \/ peer # "reset" /\ socketFd = "open" /\ peer' = "reset" /\ wire' \in {wire, <<>>}
  /\ UNCHANGED <<socketFd, mConnectionActive, bufferVars, pcMonitor, pcRead, pcWrite, toSend,
                 callVars, next>>

SpuriousWakeup ==
  /\ \/ pcWrite = "wait" /\ pcWrite' = "loop" /\ UNCHANGED pcCall
     \/ pcCall = "wait" /\ pcCall' = "receive" /\ UNCHANGED pcWrite
  /\ UNCHANGED <<socketFd, mConnectionActive, bufferVars, pcMonitor, pcRead, toSend, asked,
                 received, farVars>>

-----------------------------------------------------------------------------
connectionMonitorThreadFunc ==
  \/ ConnectFails \/ createConnection \/ Activate \/ SpawnRead \/ SpawnWrite
  \/ isConnectionAlive \/ Lost \/ JoinRead \/ JoinWrite \/ CloseSocket
  \/ ClearRead \/ ClearWrite \/ EndPause
readThreadFunc == ReadLoop \/ Recv \/ RecvEnds \/ ReadNotify
writeThreadFunc == WriteWait \/ WriteTake \/ WriteLeave \/ Send \/ SendFails
transferData_V1_2 ==
  SendMessageTest \/ SendMessagePush \/ ReceiveWait \/ ReceiveNothing \/ Receive
Server == PeerSends \/ PeerNoise \/ PeerGone

Next == connectionMonitorThreadFunc \/ readThreadFunc \/ writeThreadFunc
          \/ transferData_V1_2 \/ Server \/ SpuriousWakeup

Spec == Init /\ [][Next]_vars

\* The four threads are scheduled; nothing is assumed of the server, and
\* spurious wake-ups are not relied on.
FairSpec ==
  /\ Spec
  /\ WF_vars(connectionMonitorThreadFunc) /\ WF_vars(readThreadFunc)
  /\ WF_vars(writeThreadFunc) /\ WF_vars(transferData_V1_2)

-----------------------------------------------------------------------------
(* Properties.                                                             *)

Using == (IF pcRead \in {"loop", "recv", "notify", "leave"} THEN {"read"} ELSE {})
           \cup (IF pcWrite \in {"loop", "wait", "send"} THEN {"write"} ELSE {})
Done == (IF pcRead \in {"exited", "joined"} THEN {"read"} ELSE {})
          \cup (IF pcWrite \in {"exited", "joined"} THEN {"write"} ELSE {})

Sockets == INSTANCE SocketUse WITH
  Users <- {"read", "write"}, open <- socketFd = "open", using <- Using, done <- Done,
  begins <- FALSE

\* Every connection gets one reader and one writer and is closed after both
\* have left; no thread of a lost connection is there when the next one is
\* opened (createConnection, startReadWriteThreads, stopReadWriteThreads).
UsedInTurn == Sockets!Spec

\* A packet that receiveData returns is a head with its own body, both from
\* the connection that is open: no packet is put together from two
\* connections or from two packets.
PacketsWhole ==
  received # <<>> =>
    /\ received[1].part = "head" /\ received[2].part = "body"
    /\ received[1].id = received[2].id
    /\ received[1].now /\ received[2].now

\* A request that waited in the queue when its connection ended is not sent
\* over the next one; only the request of a SendMessage that was past its
\* test of mConnectionActive is.
NothingOldSent == pcWrite = "send" /\ mConnectionActive => toSend # "before"

\* A caller of receiveData gets the packet that is in the buffers, or the
\* connection ends: it does not wait for more bytes to come.
PacketReturned ==
  /\ pcCall \in {"receive", "wait"} /\ mConnectionActive
  /\ Whole(FromHead(mPacketBuffer \o mReadBuffer))
  ~> pcCall = "idle" \/ ~mConnectionActive

\* A queued request is taken by the writer, unless the connection ends.
RequestsWritten ==
  mWriteQueue # <<>> /\ mConnectionActive
  ~> pcWrite \in {"send", "exited"} \/ ~mConnectionActive

\* A connection found dead is followed by the attempt to reconnect at once
\* ("立即尝试重连", EthernetCommunication.cpp:163).
LossReconnects == pcMonitor = "joinRead" ~> pcMonitor = "loop"
=============================================================================
