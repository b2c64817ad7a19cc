--------------------------- MODULE EthernetProofs ---------------------------
(***************************************************************************)
(* Proofs about EthernetLink.  ThreadsInv ties the place of the monitor to *)
(* the socket, the flag and the threads; QueueInv and StreamInv say that   *)
(* nothing of a connection is left when the next one is opened, and that   *)
(* what is between the server and the caller is a stream of whole packets. *)
(***************************************************************************)
EXTENDS EthernetLink, SequenceTheorems, WellFoundedInduction, TLAPS

\* A set of natural numbers that is not empty has a least element.
LEMMA LeastElement ==
  ASSUME NEW T, T \subseteq Nat, T # {}
  PROVE  \E x \in T : \A y \in T : x <= y
<1> DEFINE less == {ss \in Nat \X Nat : ss[1] < ss[2]}
<1>1. IsWellFoundedOn(less, Nat)
  BY NatLessThanWellFounded, Zenon DEF OpToRel
<1>2. \E x \in T : \A y \in T : ~ (<<y, x>> \in less)
  <2> HIDE DEF less
  <2> QED
    BY <1>1, WFMin
<1>3. ASSUME NEW x \in T, NEW y \in T, ~ (<<y, x>> \in less)
      PROVE  x <= y
  <2>1. <<y, x>> \in Nat \X Nat
    OBVIOUS
  <2>2. ~ (y < x)
    BY <1>3, <2>1 DEF less
  <2> QED
    BY <2>2
<1> QED
  BY <1>2, <1>3

\* FromHead cuts off what is before the first head, or all but the last piece.
LEMMA FromHeadCuts ==
  ASSUME NEW b \in Seq(Piece), b # <<>>
  PROVE  \E k \in 1..Len(b) :
           /\ FromHead(b) = SubSeq(b, k, Len(b))
           /\ Heads(b) # {} => b[k].part = "head"
           /\ Heads(b) = {} => k = Len(b)
<1> DEFINE cuts == Heads(b) \cup {Len(b)}
           k == CHOOSE i \in cuts : \A j \in cuts : i <= j
<1>1. Len(b) \in Nat \ {0}
  OBVIOUS
<1>2. cuts \subseteq 1..Len(b) /\ cuts # {}
  BY <1>1 DEF Heads
<1>3. \E i \in cuts : \A j \in cuts : i <= j
  <2>1. cuts \subseteq Nat
    BY <1>2
  <2> HIDE DEF cuts
  <2> QED
    BY <1>2, <2>1, LeastElement
<1>4. k \in cuts /\ \A j \in cuts : k <= j
  BY <1>3
<1>5. FromHead(b) = SubSeq(b, k, Len(b))
  BY DEF FromHead
<1>6. Heads(b) # {} => b[k].part = "head"
  <2>1. ASSUME NEW h \in Heads(b) PROVE k \in Heads(b)
    <3>1. h \in 1..Len(b) /\ b[h].part = "head"
      BY DEF Heads
    <3>2. k <= h
      BY <1>4
    <3>3. CASE k = Len(b)
      <4>1. h = k
        BY <1>1, <3>1, <3>2, <3>3
      <4> QED
        BY <4>1
    <3> QED
      BY <1>4, <3>3
  <2> QED
    BY <2>1 DEF Heads
<1>7. Heads(b) = {} => k = Len(b)
  BY <1>4
<1>8. k \in 1..Len(b)
  BY <1>2, <1>4
<1> QED
  BY <1>5, <1>6, <1>7, <1>8

\* What FromHead leaves is a buffer, and no longer.
LEMMA FromHeadType ==
  ASSUME NEW b \in Seq(Piece)
  PROVE  FromHead(b) \in Seq(Piece) /\ Len(FromHead(b)) <= Len(b)
<1>1. CASE b = <<>>
  BY <1>1 DEF FromHead
<1>2. CASE b # <<>>
  <2>1. PICK k \in 1..Len(b) : FromHead(b) = SubSeq(b, k, Len(b))
    BY <1>2, FromHeadCuts
  <2>2. \A i \in k..Len(b) : b[i] \in Piece
    OBVIOUS
  <2> QED
    BY <2>1, <2>2, SubSeqProperties
<1> QED
  BY <1>1, <1>2

-----------------------------------------------------------------------------
(* Types.                                                                  *)

\* The initial states have the types.
LEMMA InitType == Init => TypeOK
<1> SUFFICES ASSUME Init PROVE TypeOK
  OBVIOUS
<1>1. mConnectionActive \in BOOLEAN
  BY DEF Init
<1> QED
  BY <1>1 DEF Init, TypeOK, MonitorPc, Request

\* Aging keeps the types.
LEMMA AgedTypes ==
  /\ \A s \in Seq(Piece) : AgedPieces(s) \in Seq(Piece)
  /\ \A q \in Seq(Request) : [i \in 1..Len(q) |-> AgedRequest(q[i])] \in Seq(Request)
<1>1. ASSUME NEW s \in Seq(Piece) PROVE AgedPieces(s) \in Seq(Piece)
  <2>1. ASSUME NEW p \in Piece PROVE [p EXCEPT !.now = FALSE] \in Piece
    BY DEF Piece
  <2>2. \A i \in 1..Len(s) : s[i] \in Piece
    OBVIOUS
  <2> QED
    BY <2>1, <2>2 DEF AgedPieces
<1>2. ASSUME NEW q \in Seq(Request)
      PROVE  [i \in 1..Len(q) |-> AgedRequest(q[i])] \in Seq(Request)
  <2>1. \A i \in 1..Len(q) : AgedRequest(q[i]) \in Request
    BY DEF AgedRequest, Request
  <2> QED
    BY <2>1
<1> QED
  BY <1>1, <1>2

\* What receiveData does with the buffers keeps their types.
LEMMA ReceiveType == TypeOK /\ Receive => TypeOK'
<1> SUFFICES ASSUME TypeOK, Receive PROVE TypeOK'
  OBVIOUS
<1> DEFINE b == FromHead(mPacketBuffer \o mReadBuffer)
<1>1. b \in Seq(Piece)
  <2>1. mPacketBuffer \o mReadBuffer \in Seq(Piece)
    BY ConcatProperties DEF TypeOK
  <2> QED
    BY <2>1, FromHeadType
<1>2. /\ mReadBuffer' \in Seq(Piece)
      /\ mPacketBuffer' \in Seq(Piece)
      /\ received' \in Seq(Piece) /\ Len(received') \in {0, 2}
  <2> HIDE DEF b
  <2>1. CASE Whole(b) /\ received' = Packet(b) /\ mPacketBuffer' = SubSeq(b, 3, Len(b))
                      /\ mReadBuffer' = <<>>
    <3>1. Len(b) \in Nat /\ Len(b) >= 2 /\ \A i \in 1..Len(b) : b[i] \in Piece
      BY <1>1, <2>1 DEF Whole
    <3>2. Packet(b) \in Seq(Piece) /\ Len(Packet(b)) = 2
      BY <3>1, SubSeqProperties DEF Packet
    <3>3. SubSeq(b, 3, Len(b)) \in Seq(Piece)
      BY <3>1, SubSeqProperties
    <3> QED
      BY <2>1, <3>2, <3>3
  <2>2. CASE mPacketBuffer' = b /\ UNCHANGED received /\ mReadBuffer' = <<>>
    BY <1>1, <2>2 DEF TypeOK
  <2> QED
    BY <2>1, <2>2 DEF Receive, b
<1>3. mConnectionActive' \in BOOLEAN
  BY DEF Receive, TypeOK
<1> QED
  BY <1>2, <1>3 DEF Receive, TypeOK, farVars

\* Every step preserves the types.
LEMMA TypeStep == TypeOK /\ [Next]_vars => TypeOK'
<1> SUFFICES ASSUME TypeOK, [Next]_vars PROVE TypeOK'
  OBVIOUS
<1> USE DEF TypeOK, MonitorPc, bufferVars, callVars, farVars
<1>1. CASE ConnectFails
  BY <1>1 DEF ConnectFails
<1>2. CASE createConnection
  BY <1>2, AgedTypes DEF createConnection
<1>3. CASE Activate
  BY <1>3 DEF Activate
<1>4. CASE SpawnRead
  BY <1>4 DEF SpawnRead
<1>5. CASE SpawnWrite
  BY <1>5 DEF SpawnWrite
<1>6. CASE isConnectionAlive
  BY <1>6 DEF isConnectionAlive
<1>7. CASE Lost
  <2>1. mConnectionActive' \in BOOLEAN
    BY <1>7 DEF Lost
  <2> QED
    BY <1>7, <2>1 DEF Lost
<1>8. CASE JoinRead
  BY <1>8 DEF JoinRead
<1>9. CASE JoinWrite
  BY <1>9 DEF JoinWrite
<1>10. CASE CloseSocket
  BY <1>10 DEF CloseSocket
<1>11. CASE ClearRead
  BY <1>11 DEF ClearRead
<1>12. CASE ClearWrite
  BY <1>12 DEF ClearWrite, Request
<1>13. CASE EndPause
  BY <1>13 DEF EndPause
<1>14. CASE ReadLoop
  BY <1>14 DEF ReadLoop
<1>15. CASE Recv
  <2>1. PICK n \in 1..Len(wire) : /\ mReadBuffer' = mReadBuffer \o SubSeq(wire, 1, n)
                                  /\ wire' = SubSeq(wire, n + 1, Len(wire))
    BY <1>15 DEF Recv
  <2>2. \A i \in 1..Len(wire) : wire[i] \in Piece
    OBVIOUS
  <2>3. SubSeq(wire, 1, n) \in Seq(Piece) /\ SubSeq(wire, n + 1, Len(wire)) \in Seq(Piece)
    BY <2>2, SubSeqProperties
  <2>4. mReadBuffer' \in Seq(Piece) /\ wire' \in Seq(Piece)
    BY <2>1, <2>3, ConcatProperties
  <2> QED
    BY <1>15, <2>4 DEF Recv
<1>16. CASE RecvEnds
  BY <1>16 DEF RecvEnds
<1>17. CASE ReadNotify
  BY <1>17 DEF ReadNotify
<1>18. CASE WriteWait
  BY <1>18 DEF WriteWait
<1>19. CASE WriteTake
  BY <1>19 DEF WriteTake
<1>20. CASE WriteLeave
  BY <1>20 DEF WriteLeave
<1>21. CASE Send
  BY <1>21 DEF Send, Request
<1>22. CASE SendFails
  BY <1>22 DEF SendFails, Request
<1>23. CASE SendMessageTest
  BY <1>23 DEF SendMessageTest, Request
<1>24. CASE SendMessagePush
  BY <1>24 DEF SendMessagePush, Request
<1>25. CASE ReceiveWait
  BY <1>25 DEF ReceiveWait
<1>26. CASE ReceiveNothing
  BY <1>26 DEF ReceiveNothing
<1>27. CASE Receive
  BY <1>27, ReceiveType
<1>28. CASE PeerSends
  <2>1. [part |-> next.part, id |-> next.id, now |-> TRUE] \in Piece
    BY DEF Piece
  <2>2. wire' \in Seq(Piece)
    BY <1>28, <2>1 DEF PeerSends
  <2>3. next' \in [part : {"head", "body"}, id : {0, 1}]
    <3>1. 1 - next.id \in {0, 1}
      OBVIOUS
    <3> QED
      BY <1>28, <3>1 DEF PeerSends
  <2>4. mConnectionActive' \in BOOLEAN
    BY <1>28 DEF PeerSends
  <2> QED
    BY <1>28, <2>2, <2>3, <2>4 DEF PeerSends
<1>29. CASE PeerNoise
  <2>1. [part |-> "noise", id |-> 0, now |-> TRUE] \in Piece
    BY DEF Piece
  <2>2. wire' \in Seq(Piece)
    BY <1>29, <2>1 DEF PeerNoise
  <2>3. mConnectionActive' \in BOOLEAN
    BY <1>29 DEF PeerNoise
  <2> QED
    BY <1>29, <2>2, <2>3 DEF PeerNoise
<1>30. CASE PeerGone
  <2>1. peer' \in {"closed", "reset"} /\ (wire' = wire \/ wire' = <<>>)
    BY <1>30 DEF PeerGone
  <2>3. <<>> \in Seq(Piece)
    OBVIOUS
  <2>4. wire' \in Seq(Piece) /\ peer' \in {"up", "closed", "reset"}
    BY <2>1, <2>3
  <2>2. mConnectionActive' \in BOOLEAN
    BY <1>30 DEF PeerGone
  <2> QED
    BY <1>30, <2>2, <2>4 DEF PeerGone
<1>31. CASE SpuriousWakeup
  BY <1>31 DEF SpuriousWakeup
<1>32. CASE UNCHANGED vars
  BY <1>32 DEF vars
<1> QED
  BY <1>1, <1>2, <1>3, <1>4, <1>5, <1>6, <1>7, <1>8, <1>9, <1>10, <1>11, <1>12, <1>13,
     <1>14, <1>15, <1>16, <1>17, <1>18, <1>19, <1>20, <1>21, <1>22, <1>23, <1>24,
     <1>25, <1>26, <1>27, <1>28, <1>29, <1>30, <1>31, <1>32
  DEF Next, connectionMonitorThreadFunc, readThreadFunc, writeThreadFunc,
      transferData_V1_2, Server

-----------------------------------------------------------------------------
(* Threads and socket.                                                     *)

\* The place of the monitor says whether the connection is active, whether the
\* socket is open and which threads there are.
Apart == {"loop", "clearRead", "clearWrite"}
ThreadsInv ==
  /\ pcMonitor \in {"spawnRead", "spawnWrite", "check"} => mConnectionActive
  /\ pcMonitor \in Apart \cup {"activate", "joinRead", "joinWrite", "close"}
       => ~mConnectionActive
  /\ socketFd = "closed" <=> pcMonitor \in Apart \/ (pcMonitor = "pause" /\ ~mConnectionActive)
  /\ pcRead = "none" <=> socketFd = "closed" \/ pcMonitor \in {"activate", "spawnRead"}
  /\ pcWrite = "none" <=> \/ socketFd = "closed"
                          \/ pcMonitor \in {"activate", "spawnRead", "spawnWrite"}
  /\ pcRead = "joined" <=> pcMonitor \in {"joinWrite", "close"}
  /\ pcWrite = "joined" <=> pcMonitor = "close"

\* ThreadsInv holds initially.
LEMMA InitThreads == Init => ThreadsInv
BY DEF Init, ThreadsInv, Apart

\* Every step preserves ThreadsInv.
LEMMA ThreadsStep == TypeOK /\ ThreadsInv /\ [Next]_vars => ThreadsInv'
<1> SUFFICES ASSUME TypeOK, ThreadsInv, [Next]_vars PROVE ThreadsInv'
  OBVIOUS
<1> USE DEF TypeOK, ThreadsInv, Apart, MonitorPc, bufferVars, callVars, farVars
<1>1. CASE ConnectFails
  BY <1>1 DEF ConnectFails
<1>2. CASE createConnection
  BY <1>2 DEF createConnection
<1>3. CASE Activate
  BY <1>3 DEF Activate
<1>4. CASE SpawnRead
  BY <1>4 DEF SpawnRead
<1>5. CASE SpawnWrite
  BY <1>5 DEF SpawnWrite
<1>6. CASE isConnectionAlive
  BY <1>6 DEF isConnectionAlive
<1>7. CASE Lost
  BY <1>7 DEF Lost
<1>8. CASE JoinRead
  BY <1>8 DEF JoinRead
<1>9. CASE JoinWrite
  BY <1>9 DEF JoinWrite
<1>10. CASE CloseSocket
  BY <1>10 DEF CloseSocket
<1>11. CASE ClearRead
  BY <1>11 DEF ClearRead
<1>12. CASE ClearWrite
  BY <1>12 DEF ClearWrite
<1>13. CASE EndPause
  BY <1>13 DEF EndPause
<1>14. CASE ReadLoop
  BY <1>14 DEF ReadLoop
<1>15. CASE Recv
  BY <1>15 DEF Recv
<1>16. CASE RecvEnds
  BY <1>16 DEF RecvEnds
<1>17. CASE ReadNotify
  BY <1>17 DEF ReadNotify
<1>18. CASE WriteWait
  BY <1>18 DEF WriteWait
<1>19. CASE WriteTake
  BY <1>19 DEF WriteTake
<1>20. CASE WriteLeave
  BY <1>20 DEF WriteLeave
<1>21. CASE Send
  BY <1>21 DEF Send
<1>22. CASE SendFails
  BY <1>22 DEF SendFails
<1>23. CASE SendMessageTest
  BY <1>23 DEF SendMessageTest
<1>24. CASE SendMessagePush
  BY <1>24 DEF SendMessagePush
<1>25. CASE ReceiveWait
  BY <1>25 DEF ReceiveWait
<1>26. CASE ReceiveNothing
  BY <1>26 DEF ReceiveNothing
<1>27. CASE Receive
  BY <1>27 DEF Receive
<1>28. CASE PeerSends
  BY <1>28 DEF PeerSends
<1>29. CASE PeerNoise
  BY <1>29 DEF PeerNoise
<1>30. CASE PeerGone
  BY <1>30 DEF PeerGone
<1>31. CASE SpuriousWakeup
  BY <1>31 DEF SpuriousWakeup
<1>32. CASE UNCHANGED vars
  BY <1>32 DEF vars
<1> QED
  BY <1>1, <1>2, <1>3, <1>4, <1>5, <1>6, <1>7, <1>8, <1>9, <1>10, <1>11, <1>12, <1>13,
     <1>14, <1>15, <1>16, <1>17, <1>18, <1>19, <1>20, <1>21, <1>22, <1>23, <1>24,
     <1>25, <1>26, <1>27, <1>28, <1>29, <1>30, <1>31, <1>32
  DEF Next, connectionMonitorThreadFunc, readThreadFunc, writeThreadFunc,
      transferData_V1_2, Server

-----------------------------------------------------------------------------
(* Refinement of SocketUse.                                                *)

\* The initial states map to the initial state of SocketUse.
LEMMA SocketInit == Init => Sockets!Init
BY DEF Init, Sockets!Init, Using, Done

\* Every step maps to a step of SocketUse or leaves its state alone.
LEMMA SocketStep ==
  TypeOK /\ ThreadsInv /\ [Next]_vars => [Sockets!Next]_<<socketFd = "open", Using, Done>>
<1> SUFFICES ASSUME TypeOK, ThreadsInv, [Next]_vars
             PROVE  [Sockets!Next]_<<socketFd = "open", Using, Done>>
  OBVIOUS
<1> USE DEF TypeOK, ThreadsInv, Apart, MonitorPc, bufferVars, callVars, farVars, Using, Done
<1>1. CASE ConnectFails
  BY <1>1 DEF ConnectFails
<1>2. CASE createConnection
  <2>1. Sockets!Open
    BY <1>2 DEF createConnection, Sockets!Open
  <2> QED
    BY <2>1 DEF Sockets!Next
<1>3. CASE Activate
  BY <1>3 DEF Activate
<1>4. CASE SpawnRead
  <2>1. Sockets!Enter("read")
    BY <1>4 DEF SpawnRead, Sockets!Enter
  <2> QED
    BY <2>1 DEF Sockets!Next
<1>5. CASE SpawnWrite
  <2>1. Sockets!Enter("write")
    BY <1>5 DEF SpawnWrite, Sockets!Enter
  <2> QED
    BY <2>1 DEF Sockets!Next
<1>6. CASE isConnectionAlive
  BY <1>6 DEF isConnectionAlive
<1>7. CASE Lost
  BY <1>7 DEF Lost
<1>8. CASE JoinRead
  BY <1>8 DEF JoinRead
<1>9. CASE JoinWrite
  BY <1>9 DEF JoinWrite
<1>10. CASE CloseSocket
  <2>1. Sockets!Close
    BY <1>10 DEF CloseSocket, Sockets!Close
  <2> QED
    BY <2>1 DEF Sockets!Next
<1>11. CASE ClearRead
  BY <1>11 DEF ClearRead
<1>12. CASE ClearWrite
  BY <1>12 DEF ClearWrite
<1>13. CASE EndPause
  BY <1>13 DEF EndPause
<1>14. CASE ReadLoop
  BY <1>14 DEF ReadLoop
<1>15. CASE Recv
  BY <1>15 DEF Recv
<1>16. CASE RecvEnds
  BY <1>16 DEF RecvEnds
<1>17. CASE ReadNotify
  <2>1. CASE pcRead = "notify"
    BY <1>17, <2>1 DEF ReadNotify
  <2>2. CASE pcRead = "leave"
    <3>1. Sockets!Leave("read")
      BY <1>17, <2>2 DEF ReadNotify, Sockets!Leave
    <3> QED
      BY <3>1 DEF Sockets!Next
  <2> QED
    BY <1>17, <2>1, <2>2 DEF ReadNotify
<1>18. CASE WriteWait
  BY <1>18 DEF WriteWait
<1>19. CASE WriteTake
  BY <1>19 DEF WriteTake
<1>20. CASE WriteLeave
  <2>1. Sockets!Leave("write")
    BY <1>20 DEF WriteLeave, Sockets!Leave
  <2> QED
    BY <2>1 DEF Sockets!Next
<1>21. CASE Send
  BY <1>21 DEF Send
<1>22. CASE SendFails
  <2>1. Sockets!Leave("write")
    BY <1>22 DEF SendFails, Sockets!Leave
  <2> QED
    BY <2>1 DEF Sockets!Next
<1>23. CASE SendMessageTest
  BY <1>23 DEF SendMessageTest
<1>24. CASE SendMessagePush
  BY <1>24 DEF SendMessagePush
<1>25. CASE ReceiveWait
  BY <1>25 DEF ReceiveWait
<1>26. CASE ReceiveNothing
  BY <1>26 DEF ReceiveNothing
<1>27. CASE Receive
  BY <1>27 DEF Receive
<1>28. CASE PeerSends
  BY <1>28 DEF PeerSends
<1>29. CASE PeerNoise
  BY <1>29 DEF PeerNoise
<1>30. CASE PeerGone
  BY <1>30 DEF PeerGone
<1>31. CASE SpuriousWakeup
  BY <1>31 DEF SpuriousWakeup
<1>32. CASE UNCHANGED vars
  BY <1>32 DEF vars
<1> QED
  BY <1>1, <1>2, <1>3, <1>4, <1>5, <1>6, <1>7, <1>8, <1>9, <1>10, <1>11, <1>12, <1>13,
     <1>14, <1>15, <1>16, <1>17, <1>18, <1>19, <1>20, <1>21, <1>22, <1>23, <1>24,
     <1>25, <1>26, <1>27, <1>28, <1>29, <1>30, <1>31, <1>32
  DEF Next, connectionMonitorThreadFunc, readThreadFunc, writeThreadFunc,
      transferData_V1_2, Server

-----------------------------------------------------------------------------
(* Requests.                                                               *)

\* Whether the monitor has given up one connection and has not opened another.
Parted == pcMonitor = "loop" \/ (pcMonitor = "pause" /\ ~mConnectionActive)

\* Nothing old is under way to the socket; what a late SendMessage queues
\* between two connections is marked.
QueueInv ==
  /\ asked # "before" /\ toSend # "before"
  /\ \A i \in 1..Len(mWriteQueue) : mWriteQueue[i] # "before"
  /\ Parted => /\ \A i \in 1..Len(mWriteQueue) : mWriteQueue[i] # "now"
               /\ pcCall = "push" => asked # "now"

\* QueueInv holds initially.
LEMMA InitQueue == Init => QueueInv
BY DEF Init, QueueInv, Parted

\* Every step preserves QueueInv.
LEMMA QueueStep == TypeOK /\ ThreadsInv /\ QueueInv /\ [Next]_vars => QueueInv'
<1> SUFFICES ASSUME TypeOK, ThreadsInv, QueueInv, [Next]_vars PROVE QueueInv'
  OBVIOUS
<1> USE DEF TypeOK, ThreadsInv, Apart, QueueInv, Parted, MonitorPc, bufferVars, callVars, farVars
<1>1. CASE ConnectFails
  BY <1>1 DEF ConnectFails
<1>2. CASE createConnection
  <2>1. mWriteQueue' = [i \in 1..Len(mWriteQueue) |-> AgedRequest(mWriteQueue[i])]
    BY <1>2 DEF createConnection
  <2>2. \A i \in 1..Len(mWriteQueue) : AgedRequest(mWriteQueue[i]) # "before"
    BY <1>2 DEF createConnection, AgedRequest
  <2>3. Len(mWriteQueue') = Len(mWriteQueue)
    BY <2>1
  <2> QED
    BY <1>2, <2>1, <2>2, <2>3 DEF createConnection
<1>3. CASE Activate
  BY <1>3 DEF Activate
<1>4. CASE SpawnRead
  BY <1>4 DEF SpawnRead
<1>5. CASE SpawnWrite
  BY <1>5 DEF SpawnWrite
<1>6. CASE isConnectionAlive
  BY <1>6 DEF isConnectionAlive
<1>7. CASE Lost
  BY <1>7 DEF Lost
<1>8. CASE JoinRead
  BY <1>8 DEF JoinRead
<1>9. CASE JoinWrite
  BY <1>9 DEF JoinWrite
<1>10. CASE CloseSocket
  BY <1>10 DEF CloseSocket
<1>11. CASE ClearRead
  BY <1>11 DEF ClearRead
<1>12. CASE ClearWrite
  BY <1>12 DEF ClearWrite
<1>13. CASE EndPause
  BY <1>13 DEF EndPause
<1>14. CASE ReadLoop
  BY <1>14 DEF ReadLoop
<1>15. CASE Recv
  BY <1>15 DEF Recv
<1>16. CASE RecvEnds
  BY <1>16 DEF RecvEnds
<1>17. CASE ReadNotify
  BY <1>17 DEF ReadNotify
<1>18. CASE WriteWait
  BY <1>18 DEF WriteWait
<1>19. CASE WriteTake
  BY <1>19 DEF WriteTake
<1>20. CASE WriteLeave
  BY <1>20 DEF WriteLeave
<1>21. CASE Send
  BY <1>21 DEF Send
<1>22. CASE SendFails
  BY <1>22 DEF SendFails
<1>23. CASE SendMessageTest
  BY <1>23 DEF SendMessageTest
<1>24. CASE SendMessagePush
  BY <1>24 DEF SendMessagePush
<1>25. CASE ReceiveWait
  BY <1>25 DEF ReceiveWait
<1>26. CASE ReceiveNothing
  BY <1>26 DEF ReceiveNothing
<1>27. CASE Receive
  BY <1>27 DEF Receive
<1>28. CASE PeerSends
  BY <1>28 DEF PeerSends
<1>29. CASE PeerNoise
  BY <1>29 DEF PeerNoise
<1>30. CASE PeerGone
  BY <1>30 DEF PeerGone
<1>31. CASE SpuriousWakeup
  BY <1>31 DEF SpuriousWakeup
<1>32. CASE UNCHANGED vars
  BY <1>32 DEF vars
<1> QED
  BY <1>1, <1>2, <1>3, <1>4, <1>5, <1>6, <1>7, <1>8, <1>9, <1>10, <1>11, <1>12, <1>13,
     <1>14, <1>15, <1>16, <1>17, <1>18, <1>19, <1>20, <1>21, <1>22, <1>23, <1>24,
     <1>25, <1>26, <1>27, <1>28, <1>29, <1>30, <1>31, <1>32
  DEF Next, connectionMonitorThreadFunc, readThreadFunc, writeThreadFunc,
      transferData_V1_2, Server

-----------------------------------------------------------------------------
(* The stream of pieces.                                                   *)

\* Every body follows its head, every head that is not the last piece has its
\* body, and all is from the open connection.
InOrder(s) ==
  /\ \A i \in 1..Len(s) : s[i].now
  /\ \A i \in 1..Len(s) :
       s[i].part = "body" => i > 1 /\ s[i - 1].part = "head" /\ s[i - 1].id = s[i].id
  /\ \A i \in 1..(Len(s) - 1) :
       s[i].part = "head" => s[i + 1].part = "body" /\ s[i + 1].id = s[i].id

\* The piece nx may follow s.
Continues(s, nx) ==
  /\ nx.part = "body" => s # <<>> /\ s[Len(s)].part = "head" /\ s[Len(s)].id = nx.id
  /\ nx.part = "head" => (s # <<>> => s[Len(s)].part # "head")

Held == mPacketBuffer \o mReadBuffer
Between == Held \o wire

StreamInv ==
  /\ InOrder(Between)
  /\ peer = "up" => Continues(Between, next)

\* The monitor gives up a connection that was reset, and what it leaves is empty.
EndsInv ==
  /\ pcMonitor \in {"joinRead", "joinWrite", "close", "clearRead", "clearWrite"} \/ Parted
       => peer = "reset"
  /\ pcMonitor \in {"clearRead", "clearWrite"} \/ Parted => wire = <<>>
  /\ pcMonitor = "clearWrite" \/ Parted => mReadBuffer = <<>> /\ mPacketBuffer = <<>>

\* The beginning of a stream in order is in order.
LEMMA InOrderPrefix ==
  ASSUME NEW s \in Seq(Piece), NEW t \in Seq(Piece), InOrder(s \o t)
  PROVE  InOrder(s)
<1>1. /\ Len(s) \in Nat /\ Len(t) \in Nat /\ Len(s \o t) = Len(s) + Len(t)
      /\ \A i \in 1..Len(s) : (s \o t)[i] = s[i]
  BY ConcatProperties
<1> DEFINE w == s \o t
<1>2. InOrder(w) /\ Len(w) = Len(s) + Len(t) /\ \A i \in 1..Len(s) : w[i] = s[i]
  BY <1>1
<1> HIDE DEF w
<1>3. \A i \in 1..Len(s) : s[i].now
  BY <1>1, <1>2 DEF InOrder
<1>4. ASSUME NEW i \in 1..Len(s), s[i].part = "body"
      PROVE  i > 1 /\ s[i - 1].part = "head" /\ s[i - 1].id = s[i].id
  <2>1. i \in 1..Len(w) /\ w[i] = s[i]
    BY <1>1, <1>2
  <2>2. i > 1 /\ w[i - 1].part = "head" /\ w[i - 1].id = w[i].id
    BY <1>2, <1>4, <2>1 DEF InOrder
  <2>3. w[i - 1] = s[i - 1]
    BY <1>1, <1>2, <2>2
  <2> QED
    BY <2>1, <2>2, <2>3
<1>5. ASSUME NEW i \in 1..(Len(s) - 1), s[i].part = "head"
      PROVE  s[i + 1].part = "body" /\ s[i + 1].id = s[i].id
  <2>1. i \in 1..(Len(w) - 1) /\ w[i] = s[i] /\ w[i + 1] = s[i + 1]
    BY <1>1, <1>2
  <2> QED
    BY <1>2, <1>5, <2>1 DEF InOrder
<1> QED
  BY <1>3, <1>4, <1>5 DEF InOrder

\* So is its end, unless it begins with a body.
LEMMA InOrderSuffix ==
  ASSUME NEW s \in Seq(Piece), InOrder(s), NEW k \in 1..(Len(s) + 1),
         k <= Len(s) => s[k].part # "body"
  PROVE  InOrder(SubSeq(s, k, Len(s)))
<1> DEFINE u == SubSeq(s, k, Len(s))
<1>1. \A i \in k..Len(s) : s[i] \in Piece
  OBVIOUS
<1>2. /\ Len(u) = Len(s) + 1 - k
      /\ \A i \in 1..(Len(s) + 1 - k) : u[i] = s[k + i - 1]
  BY <1>1, SubSeqProperties
<1> HIDE DEF u
<1>3. \A i \in 1..Len(u) : u[i].now
  BY <1>2 DEF InOrder
<1>4. ASSUME NEW i \in 1..Len(u), u[i].part = "body"
      PROVE  i > 1 /\ u[i - 1].part = "head" /\ u[i - 1].id = u[i].id
  <2>1. k + i - 1 \in 1..Len(s) /\ s[k + i - 1].part = "body"
    BY <1>2, <1>4
  <2>2. s[k + i - 2].part = "head" /\ s[k + i - 2].id = s[k + i - 1].id
    BY <2>1 DEF InOrder
  <2>3. i > 1
    BY <1>2, <2>1
  <2>4. i - 1 \in 1..(Len(s) + 1 - k) /\ u[i - 1] = s[k + i - 2] /\ u[i] = s[k + i - 1]
    BY <1>2, <2>3
  <2> QED
    BY <2>2, <2>3, <2>4
<1>5. ASSUME NEW i \in 1..(Len(u) - 1), u[i].part = "head"
      PROVE  u[i + 1].part = "body" /\ u[i + 1].id = u[i].id
  <2>1. PICK j \in 1..(Len(s) - 1) : j = k + i - 1
    BY <1>2
  <2>2. u[i] = s[j] /\ u[i + 1] = s[j + 1]
    BY <1>2, <2>1
  <2> QED
    BY <1>5, <2>2 DEF InOrder
<1> QED
  BY <1>3, <1>4, <1>5 DEF InOrder, u

\* The server's next piece, and noise between packets, keep the order.
LEMMA InOrderAppend ==
  ASSUME NEW s \in Seq(Piece), InOrder(s), NEW p \in Piece, p.now,
         p.part = "body" => s # <<>> /\ s[Len(s)].part = "head" /\ s[Len(s)].id = p.id,
         p.part # "body" => (s # <<>> => s[Len(s)].part # "head")
  PROVE  InOrder(Append(s, p))
<1>1. /\ Len(s) \in Nat /\ Len(Append(s, p)) = Len(s) + 1
      /\ \A i \in 1..Len(s) : Append(s, p)[i] = s[i]
      /\ Append(s, p)[Len(s) + 1] = p
  BY AppendProperties
<1>2. s # <<>> <=> Len(s) > 0
  BY <1>1
<1> QED
  BY <1>1, <1>2 DEF InOrder

\* What may follow a stream may follow its end.
LEMMA ContinuesSuffix ==
  ASSUME NEW s \in Seq(Piece), NEW nx, Continues(s, nx), NEW k \in 1..(Len(s) + 1),
         k <= Len(s) \/ s[Len(s)].part # "head"
  PROVE  Continues(SubSeq(s, k, Len(s)), nx)
<1> DEFINE u == SubSeq(s, k, Len(s))
<1>1. \A i \in k..Len(s) : s[i] \in Piece
  OBVIOUS
<1>2. /\ u \in Seq(Piece) /\ Len(u) = Len(s) + 1 - k
      /\ \A i \in 1..(Len(s) + 1 - k) : u[i] = s[k + i - 1]
  BY <1>1, SubSeqProperties
<1> HIDE DEF u
<1>3. CASE k <= Len(s)
  <2>1. u # <<>> /\ s # <<>> /\ Len(u) \in 1..(Len(s) + 1 - k) /\ k + Len(u) - 1 = Len(s)
    BY <1>2, <1>3
  <2>2. u[Len(u)] = s[Len(s)]
    BY <1>2, <2>1
  <2> QED
    BY <2>1, <2>2 DEF Continues, u
<1>4. CASE ~ (k <= Len(s))
  <2>1. u = <<>>
    BY <1>2, <1>4
  <2> QED
    BY <1>4, <2>1 DEF Continues, u
<1> QED
  BY <1>3, <1>4

\* The end of one sequence followed by another is the end of both.
LEMMA SuffixOfConcat ==
  ASSUME NEW m \in Seq(Piece), NEW w \in Seq(Piece), NEW k \in 1..(Len(m) + 1)
  PROVE  SubSeq(m, k, Len(m)) \o w = SubSeq(m \o w, k, Len(m \o w))
<1> DEFINE u == SubSeq(m, k, Len(m))
           t == m \o w
           v == SubSeq(t, k, Len(t))
<1>1. \A i \in k..Len(m) : m[i] \in Piece
  OBVIOUS
<1>2. /\ u \in Seq(Piece) /\ Len(u) = Len(m) + 1 - k
      /\ \A i \in 1..(Len(m) + 1 - k) : u[i] = m[k + i - 1]
  BY <1>1, SubSeqProperties
<1>3. /\ t \in Seq(Piece) /\ Len(t) = Len(m) + Len(w)
      /\ \A i \in 1..(Len(m) + Len(w)) : t[i] = IF i <= Len(m) THEN m[i] ELSE w[i - Len(m)]
  BY ConcatProperties
<1> HIDE DEF t
<1>4. \A i \in k..Len(t) : t[i] \in Piece
  BY <1>3
<1>5. /\ v \in Seq(Piece) /\ Len(v) = Len(t) + 1 - k
      /\ \A i \in 1..(Len(t) + 1 - k) : v[i] = t[k + i - 1]
  BY <1>3, <1>4, SubSeqProperties
<1> HIDE DEF u, v
<1>6. /\ u \o w \in Seq(Piece) /\ Len(u \o w) = Len(u) + Len(w)
      /\ \A i \in 1..(Len(u) + Len(w)) :
           (u \o w)[i] = IF i <= Len(u) THEN u[i] ELSE w[i - Len(u)]
  BY <1>2, ConcatProperties
<1>7. Len(u \o w) = Len(v)
  BY <1>2, <1>3, <1>5, <1>6
<1>8. ASSUME NEW i \in 1..Len(u \o w) PROVE (u \o w)[i] = v[i]
  <2>1. v[i] = t[k + i - 1] /\ k + i - 1 \in 1..(Len(m) + Len(w))
    BY <1>2, <1>3, <1>5, <1>6
  <2>2. CASE i <= Len(u)
    <3>1. (u \o w)[i] = u[i]
      BY <1>6, <2>2
    <3>2. u[i] = m[k + i - 1] /\ k + i - 1 <= Len(m)
      BY <1>2, <2>2
    <3> QED
      BY <1>3, <2>1, <3>1, <3>2
  <2>3. CASE ~ (i <= Len(u))
    <3>1. k + i - 1 - Len(m) = i - Len(u) /\ ~ (k + i - 1 <= Len(m))
      BY <1>2, <2>3
    <3> QED
      BY <1>3, <1>6, <2>1, <2>3, <3>1
  <2> QED
    BY <2>2, <2>3
<1>9. u \o w = v
  BY <1>5, <1>6, <1>7, <1>8, SeqEqual
<1> QED
  BY <1>9 DEF u, v, t

\* The end of an end.
LEMMA SuffixOfSuffix ==
  ASSUME NEW m \in Seq(Piece), NEW k \in 1..Len(m), k < Len(m),
         NEW b, b = SubSeq(m, k, Len(m))
  PROVE  /\ SubSeq(b, 3, Len(b)) = SubSeq(m, k + 2, Len(m))
         /\ b[1] = m[k] /\ b[2] = m[k + 1]
<1>1. \A i \in k..Len(m) : m[i] \in Piece
  OBVIOUS
<1>2. /\ b \in Seq(Piece) /\ Len(b) = Len(m) + 1 - k
      /\ \A i \in 1..(Len(m) + 1 - k) : b[i] = m[k + i - 1]
  BY <1>1, SubSeqProperties
<1>3. \A i \in 3..Len(b) : b[i] \in Piece
  BY <1>2
<1> DEFINE u == SubSeq(b, 3, Len(b))
           v == SubSeq(m, k + 2, Len(m))
<1>4. /\ u \in Seq(Piece) /\ Len(u) = Len(b) - 2
      /\ \A i \in 1..(Len(b) - 2) : u[i] = b[i + 2]
  BY <1>2, <1>3, SubSeqProperties
<1>5. /\ v \in Seq(Piece) /\ Len(v) = Len(m) - k - 1
      /\ \A i \in 1..(Len(m) - k - 1) : v[i] = m[k + i + 1]
  BY <1>1, SubSeqProperties
<1> HIDE DEF u, v
<1>6. Len(u) = Len(v) /\ \A i \in 1..Len(u) : u[i] = v[i]
  <2>1. Len(u) = Len(v)
    BY <1>2, <1>4, <1>5
  <2>2. ASSUME NEW i \in 1..Len(u) PROVE u[i] = v[i]
    <3>1. u[i] = b[i + 2] /\ v[i] = m[k + i + 1]
      BY <1>4, <1>5, <2>1
    <3>2. PICK j \in 1..(Len(m) + 1 - k) : j = i + 2
      BY <1>2, <1>4
    <3>3. b[j] = m[k + j - 1] /\ k + j - 1 = k + i + 1
      BY <1>2, <3>2
    <3> QED
      BY <3>1, <3>2, <3>3
  <2> QED
    BY <2>1, <2>2
<1>7. u = v
  BY <1>4, <1>5, <1>6, SeqEqual
<1>8. b[1] = m[k] /\ b[2] = m[k + 1]
  BY <1>2
<1> QED
  BY <1>7, <1>8 DEF u, v

\* The stream is a sequence of pieces that begins with what is held here.
LEMMA BetweenType == TypeOK => /\ Held \in Seq(Piece) /\ Between \in Seq(Piece)
                               /\ Len(Between) = Len(Held) + Len(wire)
                               /\ \A i \in 1..Len(Held) : Between[i] = Held[i]
<1> SUFFICES ASSUME TypeOK
             PROVE  /\ Held \in Seq(Piece) /\ Between \in Seq(Piece)
                    /\ Len(Between) = Len(Held) + Len(wire)
                    /\ \A i \in 1..Len(Held) : Between[i] = Held[i]
  OBVIOUS
<1>1. Held \in Seq(Piece)
  BY ConcatProperties DEF TypeOK, Held
<1>2. wire \in Seq(Piece)
  BY DEF TypeOK
<1> HIDE DEF Held
<1> QED
  BY <1>1, <1>2, ConcatProperties DEF Between

\* Where FromHead cuts a stream in order no body begins.
LEMMA CutAtPacket ==
  ASSUME NEW m \in Seq(Piece), m # <<>>, NEW w \in Seq(Piece),
         NEW s \in Seq(Piece), s = m \o w, InOrder(s)
  PROVE  \E k \in 1..Len(m) :
           /\ FromHead(m) = SubSeq(m, k, Len(m))
           /\ Heads(m) # {} => m[k].part = "head"
           /\ s[k].part # "body" /\ k \in 1..Len(s)
<1>1. /\ Len(m) \in Nat /\ Len(w) \in Nat /\ Len(s) = Len(m) + Len(w)
      /\ \A i \in 1..Len(m) : s[i] = m[i]
  BY ConcatProperties
<1>2. PICK k \in 1..Len(m) : /\ FromHead(m) = SubSeq(m, k, Len(m))
                             /\ Heads(m) # {} => m[k].part = "head"
                             /\ Heads(m) = {} => k = Len(m)
  BY FromHeadCuts
<1>3. k \in 1..Len(s) /\ s[k] = m[k]
  BY <1>1
<1>4. s[k].part # "body"
  <2> SUFFICES ASSUME s[k].part = "body" PROVE FALSE
    OBVIOUS
  <2>1. k > 1 /\ s[k - 1].part = "head"
    BY <1>3 DEF InOrder
  <2>2. k - 1 \in 1..Len(m) /\ m[k - 1].part = "head"
    BY <1>1, <2>1
  <2>3. Heads(m) # {}
    BY <2>2 DEF Heads
  <2>4. m[k].part = "head"
    BY <1>2, <2>3
  <2> QED
    BY <1>3, <2>4
<1> QED
  BY <1>2, <1>3, <1>4

\* b, whole, is what FromHead leaves of the buffer m; s is the stream.
Taken(m, s, b) ==
  /\ Packet(b)[1].part = "head" /\ Packet(b)[2].part = "body"
  /\ Packet(b)[1].id = Packet(b)[2].id
  /\ Packet(b)[1].now /\ Packet(b)[2].now
  /\ \E j \in 1..(Len(m) + 1) :
       /\ SubSeq(b, 3, Len(b)) = SubSeq(m, j, Len(m))
       /\ j <= Len(s) => s[j].part # "body"
       /\ j <= Len(s) \/ s[Len(s)].part # "head"

\* The packet that is taken is a head with its body, and no body follows.
LEMMA TakePacket ==
  ASSUME NEW m \in Seq(Piece), m # <<>>, NEW w \in Seq(Piece),
         NEW s \in Seq(Piece), s = m \o w, InOrder(s),
         NEW b, b = FromHead(m), Whole(b)
  PROVE  Taken(m, s, b)
<1>1. /\ Len(m) \in Nat /\ Len(w) \in Nat /\ Len(s) = Len(m) + Len(w)
      /\ \A i \in 1..Len(m) : s[i] = m[i]
  BY ConcatProperties
<1>2. PICK k \in 1..Len(m) : /\ b = SubSeq(m, k, Len(m))
                             /\ Heads(m) # {} => m[k].part = "head"
  BY CutAtPacket
<1>3. \A i \in k..Len(m) : m[i] \in Piece
  OBVIOUS
<1>4. /\ Len(b) = Len(m) + 1 - k /\ b \in Seq(Piece)
      /\ \A i \in 1..(Len(m) + 1 - k) : b[i] = m[k + i - 1]
  BY <1>2, <1>3, SubSeqProperties
<1>5. k < Len(m)
  BY <1>1, <1>4 DEF Whole
<1>6. m[k].part = "head"
  <2>1. PICK i \in 1..Len(b) : b[i].part = "head"
    BY DEF Whole, Heads
  <2>2. PICK j \in 1..Len(m) : j = k + i - 1
    BY <1>1, <1>4
  <2>3. b[i] = m[j]
    BY <1>4, <2>1, <2>2
  <2>4. Heads(m) # {}
    BY <2>1, <2>3 DEF Heads
  <2> QED
    BY <1>2, <2>4
<1>7. /\ SubSeq(b, 3, Len(b)) = SubSeq(m, k + 2, Len(m))
      /\ b[1] = m[k] /\ b[2] = m[k + 1]
  BY <1>2, <1>5, SuffixOfSuffix
<1>8. /\ k \in 1..(Len(s) - 1) /\ k + 1 \in 1..Len(s) /\ k \in 1..Len(s)
      /\ s[k] = m[k] /\ s[k + 1] = m[k + 1]
  BY <1>1, <1>5
<1>9. /\ s[k + 1].part = "body" /\ s[k + 1].id = s[k].id
      /\ s[k].now /\ s[k + 1].now
  BY <1>6, <1>8 DEF InOrder
<1>10. Packet(b)[1] = b[1] /\ Packet(b)[2] = b[2]
  <2>1. \A i \in 1..2 : b[i] \in Piece
    BY <1>4, <1>5
  <2> QED
    BY <2>1, SubSeqProperties DEF Packet
<1>11. k + 2 <= Len(s) => s[k + 2].part # "body"
  <2> SUFFICES ASSUME k + 2 <= Len(s), s[k + 2].part = "body" PROVE FALSE
    OBVIOUS
  <2>1. PICK i \in 1..Len(s) : i = k + 2
    BY <1>1
  <2>2. s[i - 1].part = "head" /\ i - 1 = k + 1
    BY <2>1 DEF InOrder
  <2> QED
    BY <1>9, <2>2
<1>12. k + 2 <= Len(s) \/ s[Len(s)].part # "head"
  <2> SUFFICES ASSUME ~ (k + 2 <= Len(s)) PROVE s[Len(s)].part # "head"
    OBVIOUS
  <2>1. Len(s) = k + 1
    BY <1>1, <1>8
  <2> QED
    BY <1>9, <2>1
<1>13. k + 2 \in 1..(Len(m) + 1)
  BY <1>1, <1>5
<1> QED
  BY <1>6, <1>7, <1>8, <1>9, <1>10, <1>11, <1>12, <1>13 DEF Taken

\* receiveData takes a whole packet off a stream in order, or only what is
\* before the first packet, and what is left is in order.
LEMMA ReceiveStream ==
  ASSUME TypeOK, StreamInv, PacketsWhole, Receive
  PROVE  /\ InOrder(Between)' /\ PacketsWhole'
         /\ Continues(Between, next) => Continues(Between, next)'
<1>1. /\ Held \in Seq(Piece) /\ Between \in Seq(Piece) /\ Between = Held \o wire
      /\ wire \in Seq(Piece) /\ Len(wire) \in Nat /\ Len(Held) \in Nat
      /\ Len(Between) = Len(Held) + Len(wire)
  BY BetweenType DEF TypeOK, Between
<1>2. Held # <<>>
  BY ConcatEqualIffEmpty DEF Receive, NothingThere, TypeOK, Held
<1>3. PICK b : b = FromHead(Held)
  OBVIOUS
<1>4. \/ Whole(b) /\ received' = Packet(b) /\ mPacketBuffer' = SubSeq(b, 3, Len(b))
      \/ mPacketBuffer' = b /\ received' = received
  BY <1>3 DEF Receive, Held
<1>5. mReadBuffer' = <<>> /\ wire' = wire /\ next' = next
  BY DEF Receive, farVars
<1>6. InOrder(Between)
  BY DEF StreamInv
<1>7. PacketsWhole' /\ \E j \in 1..(Len(Held) + 1) :
         /\ mPacketBuffer' = SubSeq(Held, j, Len(Held))
         /\ j <= Len(Between) => Between[j].part # "body"
         /\ j <= Len(Between) \/ Between[Len(Between)].part # "head"
  <2> HIDE DEF Held, Between
  <2>1. CASE Whole(b) /\ received' = Packet(b) /\ mPacketBuffer' = SubSeq(b, 3, Len(b))
    <3>1. Taken(Held, Between, b)
      <4>1. Whole(b)
        BY <2>1
      <4> QED
        BY <1>1, <1>2, <1>3, <1>6, <4>1, TakePacket
    <3> QED
      BY <2>1, <3>1 DEF PacketsWhole, Taken
  <2>2. CASE mPacketBuffer' = b /\ received' = received
    <3>1. PICK k \in 1..Len(Held) : /\ b = SubSeq(Held, k, Len(Held))
                                    /\ Between[k].part # "body" /\ k \in 1..Len(Between)
      BY <1>1, <1>2, <1>3, <1>6, CutAtPacket
    <3>2. k \in 1..(Len(Held) + 1) /\ k <= Len(Between)
      BY <1>1, <3>1
    <3> QED
      BY <2>2, <3>1, <3>2 DEF PacketsWhole
  <2> QED
    BY <1>4, <2>1, <2>2
<1>8. PICK j \in 1..(Len(Held) + 1) :
         /\ mPacketBuffer' = SubSeq(Held, j, Len(Held))
         /\ j <= Len(Between) => Between[j].part # "body"
         /\ j <= Len(Between) \/ Between[Len(Between)].part # "head"
  BY <1>7
<1>9. Held' = SubSeq(Held, j, Len(Held))
  <2>1. \A i \in j..Len(Held) : Held[i] \in Piece
    BY <1>1
  <2>2. SubSeq(Held, j, Len(Held)) \in Seq(Piece)
    BY <1>1, <2>1, SubSeqProperties
  <2>3. mPacketBuffer' \o <<>> = mPacketBuffer'
    BY <1>8, <2>2, ConcatEmptySeq
  <2> QED
    BY <1>5, <1>8, <2>3 DEF Held
<1>10. Between' = SubSeq(Between, j, Len(Between))
  <2>1. Between' = Held' \o wire'
    BY DEF Between
  <2> HIDE DEF Held, Between
  <2> QED
    BY <1>1, <1>5, <1>9, <2>1, SuffixOfConcat
<1>11. j \in 1..(Len(Between) + 1)
  BY <1>1
<1>12. InOrder(SubSeq(Between, j, Len(Between)))
  BY <1>1, <1>6, <1>8, <1>11, InOrderSuffix
<1>13. Continues(Between, next) => Continues(SubSeq(Between, j, Len(Between)), next)
  BY <1>1, <1>8, <1>11, ContinuesSuffix
<1> QED
  BY <1>5, <1>7, <1>10, <1>12, <1>13 DEF InOrder, Continues

\* The invariant holds initially.
LEMMA InitStream == Init => EndsInv /\ StreamInv /\ PacketsWhole
<1> SUFFICES ASSUME Init PROVE EndsInv /\ StreamInv /\ PacketsWhole
  OBVIOUS
<1>1. Between = <<>>
  BY ConcatEmptySeq DEF Init, Between, Held
<1>2. InOrder(<<>>)
  BY DEF InOrder
<1> QED
  BY <1>1, <1>2 DEF Init, EndsInv, Parted, StreamInv, PacketsWhole

\* The reader moves pieces on; the stream stays as it is.
LEMMA RecvStream == TypeOK /\ Recv => Between' = Between
<1> SUFFICES ASSUME TypeOK, Recv PROVE Between' = Between
  OBVIOUS
<1>1. PICK n \in 1..Len(wire) : /\ mReadBuffer' = mReadBuffer \o SubSeq(wire, 1, n)
                               /\ wire' = SubSeq(wire, n + 1, Len(wire))
  BY DEF Recv
<1>2. /\ wire \in Seq(Piece) /\ mReadBuffer \in Seq(Piece) /\ mPacketBuffer \in Seq(Piece)
      /\ mPacketBuffer' = mPacketBuffer
  BY DEF TypeOK, Recv
<1>11. SubSeq(wire, 1, n) \in Seq(Piece) /\ SubSeq(wire, n + 1, Len(wire)) \in Seq(Piece)
  <2>1. \A i \in 1..Len(wire) : wire[i] \in Piece
    BY <1>2
  <2> QED
    BY <1>2, <2>1, SubSeqProperties
<1>3. PICK u \in Seq(Piece) : u = SubSeq(wire, 1, n)
  BY <1>11
<1>4. PICK v \in Seq(Piece) : v = SubSeq(wire, n + 1, Len(wire))
  BY <1>11
<1>5. u \o v = wire
  <2>1. 1 \in 1..(Len(wire) + 1) /\ n \in 0..Len(wire) /\ Len(wire) \in n..Len(wire)
    BY <1>2
  <2>2. SubSeq(wire, 1, n) \o SubSeq(wire, n + 1, Len(wire)) = SubSeq(wire, 1, Len(wire))
    BY <1>2, <2>1, ConcatAdjacentSubSeq
  <2> QED
    BY <1>2, <1>3, <1>4, <2>2, SubSeqFull
<1>6. PICK a \in Seq(Piece) : a = mPacketBuffer
  BY <1>2
<1>7. PICK r \in Seq(Piece) : r = mReadBuffer
  BY <1>2
<1>8. (a \o r) \o u = a \o (r \o u)
  BY ConcatAssociative, SMTT(60)
<1>9. a \o r \in Seq(Piece)
  BY ConcatProperties
<1>10. ((a \o r) \o u) \o v = (a \o r) \o (u \o v)
  <2>1. PICK x \in Seq(Piece) : x = a \o r
    BY <1>9
  <2>2. (x \o u) \o v = x \o (u \o v)
    BY ConcatAssociative, SMTT(60)
  <2> QED
    BY <2>1, <2>2
<1>12. Between' = (a \o (r \o u)) \o v
  BY <1>1, <1>2, <1>3, <1>4, <1>6, <1>7 DEF Between, Held
<1> QED
  BY <1>5, <1>6, <1>7, <1>8, <1>10, <1>12 DEF Between, Held

\* The server adds a piece at the end of the stream.
LEMMA AppendStream ==
  ASSUME TypeOK, NEW p \in Piece, wire' = Append(wire, p),
         mReadBuffer' = mReadBuffer, mPacketBuffer' = mPacketBuffer
  PROVE  Between' = Append(Between, p)
<1>1. Held \in Seq(Piece) /\ wire \in Seq(Piece) /\ Between \in Seq(Piece)
  BY BetweenType DEF TypeOK
<1>2. Held' = Held
  BY DEF Held
<1>3. Between' = Held \o Append(wire, p)
  BY <1>2 DEF Between
<1> HIDE DEF Held
<1>4. <<p>> \in Seq(Piece)
  OBVIOUS
<1>5. Append(wire, p) = wire \o <<p>> /\ Append(Between, p) = Between \o <<p>>
  BY <1>1, AppendIsConcat
<1>6. Held \o (wire \o <<p>>) = (Held \o wire) \o <<p>>
  BY <1>1, <1>4, ConcatAssociative, SMTT(60)
<1> QED
  BY <1>3, <1>5, <1>6 DEF Between

\* Every step preserves EndsInv.
LEMMA EndsStep == TypeOK /\ ThreadsInv /\ EndsInv /\ [Next]_vars => EndsInv'
<1> SUFFICES ASSUME TypeOK, ThreadsInv, EndsInv, [Next]_vars PROVE EndsInv'
  OBVIOUS
<1> USE DEF TypeOK, ThreadsInv, Apart, EndsInv, Parted, MonitorPc, bufferVars, callVars, farVars
<1>1. CASE ConnectFails
  BY <1>1 DEF ConnectFails
<1>2. CASE createConnection
  BY <1>2 DEF createConnection
<1>3. CASE Activate
  BY <1>3 DEF Activate
<1>4. CASE SpawnRead
  BY <1>4 DEF SpawnRead
<1>5. CASE SpawnWrite
  BY <1>5 DEF SpawnWrite
<1>6. CASE isConnectionAlive
  BY <1>6 DEF isConnectionAlive
<1>7. CASE Lost
  BY <1>7 DEF Lost
<1>8. CASE JoinRead
  BY <1>8 DEF JoinRead
<1>9. CASE JoinWrite
  BY <1>9 DEF JoinWrite
<1>10. CASE CloseSocket
  BY <1>10 DEF CloseSocket
<1>11. CASE ClearRead
  BY <1>11 DEF ClearRead
<1>12. CASE ClearWrite
  BY <1>12 DEF ClearWrite
<1>13. CASE EndPause
  BY <1>13 DEF EndPause
<1>14. CASE ReadLoop
  BY <1>14 DEF ReadLoop
<1>15. CASE Recv
  BY <1>15 DEF Recv
<1>16. CASE RecvEnds
  BY <1>16 DEF RecvEnds
<1>17. CASE ReadNotify
  BY <1>17 DEF ReadNotify
<1>18. CASE WriteWait
  BY <1>18 DEF WriteWait
<1>19. CASE WriteTake
  BY <1>19 DEF WriteTake
<1>20. CASE WriteLeave
  BY <1>20 DEF WriteLeave
<1>21. CASE Send
  BY <1>21 DEF Send
<1>22. CASE SendFails
  BY <1>22 DEF SendFails
<1>23. CASE SendMessageTest
  BY <1>23 DEF SendMessageTest
<1>24. CASE SendMessagePush
  BY <1>24 DEF SendMessagePush
<1>25. CASE ReceiveWait
  BY <1>25 DEF ReceiveWait
<1>26. CASE ReceiveNothing
  BY <1>26 DEF ReceiveNothing
<1>27. CASE Receive
  BY <1>27 DEF Receive
<1>28. CASE PeerSends
  BY <1>28 DEF PeerSends
<1>29. CASE PeerNoise
  BY <1>29 DEF PeerNoise
<1>30. CASE PeerGone
  BY <1>30 DEF PeerGone
<1>31. CASE SpuriousWakeup
  BY <1>31 DEF SpuriousWakeup
<1>32. CASE UNCHANGED vars
  BY <1>32 DEF vars
<1> QED
  BY <1>1, <1>2, <1>3, <1>4, <1>5, <1>6, <1>7, <1>8, <1>9, <1>10, <1>11, <1>12, <1>13,
     <1>14, <1>15, <1>16, <1>17, <1>18, <1>19, <1>20, <1>21, <1>22, <1>23, <1>24,
     <1>25, <1>26, <1>27, <1>28, <1>29, <1>30, <1>31, <1>32
  DEF Next, connectionMonitorThreadFunc, readThreadFunc, writeThreadFunc,
      transferData_V1_2, Server

\* Steps that leave the stream alone preserve StreamInv.
LEMMA QuietStream ==
  ASSUME StreamInv, wire' = wire, mReadBuffer' = mReadBuffer,
         mPacketBuffer' = mPacketBuffer, next' = next, peer' = "up" => peer = "up"
  PROVE  StreamInv'
<1>1. Between' = Between
  BY DEF Between, Held
<1> QED
  BY <1>1 DEF StreamInv, InOrder, Continues

\* A connection begins with the empty stream.
LEMMA EmptyStream ==
  ASSUME wire' = <<>>, mReadBuffer' = <<>>, mPacketBuffer' = <<>>,
         peer' # "up" \/ next'.part = "head"
  PROVE  StreamInv'
<1>1. Between' = <<>>
  BY ConcatEmptySeq DEF Between, Held
<1> QED
  BY <1>1 DEF StreamInv, InOrder, Continues

\* Bytes not yet read may be lost when the connection is.
LEMMA CutStream ==
  ASSUME TypeOK, StreamInv, wire' = <<>>, mReadBuffer' = mReadBuffer,
         mPacketBuffer' = mPacketBuffer, peer' # "up"
  PROVE  StreamInv'
<1>1. Held \in Seq(Piece) /\ wire \in Seq(Piece)
  BY BetweenType DEF TypeOK
<1>2. Held' = Held
  BY DEF Held
<1>3. Between' = Held
  BY <1>1, <1>2, ConcatEmptySeq DEF Between
<1>4. InOrder(Held \o wire)
  BY DEF StreamInv, Between
<1>5. InOrder(Held)
  BY <1>1, <1>4, InOrderPrefix
<1> QED
  BY <1>3, <1>5 DEF StreamInv, InOrder

\* Every step preserves StreamInv.
LEMMA StreamStep ==
  TypeOK /\ EndsInv /\ StreamInv /\ PacketsWhole /\ [Next]_vars => StreamInv'
<1> SUFFICES ASSUME TypeOK, EndsInv, StreamInv, PacketsWhole, [Next]_vars PROVE StreamInv'
  OBVIOUS
<1> USE DEF bufferVars, callVars, farVars
<1>1. CASE ConnectFails
  BY <1>1, QuietStream DEF ConnectFails
<1>2. CASE createConnection
  <2>1. wire' = <<>> /\ mReadBuffer' = <<>> /\ mPacketBuffer' = <<>> /\ next'.part = "head"
    BY <1>2 DEF createConnection, AgedPieces, EndsInv, Parted
  <2> QED
    BY <2>1, EmptyStream
<1>3. CASE Activate
  BY <1>3, QuietStream DEF Activate
<1>4. CASE SpawnRead
  BY <1>4, QuietStream DEF SpawnRead
<1>5. CASE SpawnWrite
  BY <1>5, QuietStream DEF SpawnWrite
<1>6. CASE isConnectionAlive
  BY <1>6, QuietStream DEF isConnectionAlive
<1>7. CASE Lost
  BY <1>7, QuietStream DEF Lost
<1>8. CASE JoinRead
  BY <1>8, QuietStream DEF JoinRead
<1>9. CASE JoinWrite
  BY <1>9, QuietStream DEF JoinWrite
<1>10. CASE CloseSocket
  <2>1. wire' = <<>> /\ mReadBuffer' = mReadBuffer /\ mPacketBuffer' = mPacketBuffer
    BY <1>10 DEF CloseSocket
  <2>2. peer' # "up"
    BY <1>10 DEF CloseSocket, EndsInv
  <2> QED
    BY <2>1, <2>2, CutStream
<1>11. CASE ClearRead
  <2>1. wire' = <<>> /\ mReadBuffer' = <<>> /\ mPacketBuffer' = <<>> /\ peer' # "up"
    BY <1>11 DEF ClearRead, EndsInv
  <2> QED
    BY <2>1, EmptyStream
<1>12. CASE ClearWrite
  BY <1>12, QuietStream DEF ClearWrite
<1>13. CASE EndPause
  BY <1>13, QuietStream DEF EndPause
<1>14. CASE ReadLoop
  BY <1>14, QuietStream DEF ReadLoop
<1>15. CASE Recv
  <2>1. Between' = Between /\ next' = next /\ peer' = peer
    BY <1>15, RecvStream DEF Recv
  <2> QED
    BY <2>1 DEF StreamInv, InOrder, Continues
<1>16. CASE RecvEnds
  BY <1>16, QuietStream DEF RecvEnds
<1>17. CASE ReadNotify
  BY <1>17, QuietStream DEF ReadNotify
<1>18. CASE WriteWait
  BY <1>18, QuietStream DEF WriteWait
<1>19. CASE WriteTake
  BY <1>19, QuietStream DEF WriteTake
<1>20. CASE WriteLeave
  BY <1>20, QuietStream DEF WriteLeave
<1>21. CASE Send
  BY <1>21, QuietStream DEF Send
<1>22. CASE SendFails
  BY <1>22, QuietStream DEF SendFails
<1>23. CASE SendMessageTest
  BY <1>23, QuietStream DEF SendMessageTest
<1>24. CASE SendMessagePush
  BY <1>24, QuietStream DEF SendMessagePush
<1>25. CASE ReceiveWait
  BY <1>25, QuietStream DEF ReceiveWait
<1>26. CASE ReceiveNothing
  BY <1>26, QuietStream DEF ReceiveNothing
<1>27. CASE Receive
  <2>1. peer' = peer
    BY <1>27 DEF Receive
  <2>2. Continues(Between, next) => Continues(Between, next)'
    BY <1>27, ReceiveStream
  <2>3. InOrder(Between)'
    BY <1>27, ReceiveStream
  <2> QED
    BY <2>1, <2>2, <2>3 DEF StreamInv
<1>28. CASE PeerSends
  <2>1. PICK p \in Piece : p = [part |-> next.part, id |-> next.id, now |-> TRUE]
    BY DEF TypeOK, Piece
  <2>2. /\ wire' = Append(wire, p) /\ mReadBuffer' = mReadBuffer
        /\ mPacketBuffer' = mPacketBuffer /\ peer = "up"
    BY <1>28, <2>1 DEF PeerSends
  <2>3. Continues(Between, next)
    BY <2>2 DEF StreamInv
  <2>4. Between' = Append(Between, p)
    BY <2>2, AppendStream
  <2>5. p.now /\ p.part = next.part /\ p.id = next.id /\ next.part \in {"head", "body"}
    BY <2>1 DEF TypeOK
  <2>6. InOrder(Append(Between, p))
    BY <2>3, <2>5, BetweenType, InOrderAppend DEF StreamInv, Continues
  <2>7. Continues(Append(Between, p), next')
    <3>1. /\ Len(Append(Between, p)) = Len(Between) + 1 /\ Len(Between) \in Nat
          /\ Append(Between, p)[Len(Between) + 1] = p /\ Append(Between, p) # <<>>
      BY BetweenType, AppendProperties
    <3>2. CASE next.part = "head"
      <4>1. next'.part = "body" /\ next'.id = next.id
        BY <1>28, <3>2 DEF PeerSends, TypeOK
      <4> QED
        BY <2>5, <3>1, <3>2, <4>1 DEF Continues
    <3>3. CASE next.part = "body"
      <4>1. next'.part = "head"
        BY <1>28, <3>3 DEF PeerSends
      <4> QED
        BY <2>5, <3>1, <3>3, <4>1 DEF Continues
    <3> QED
      BY <2>5, <3>2, <3>3
  <2> QED
    BY <2>4, <2>6, <2>7 DEF StreamInv, InOrder, Continues
<1>29. CASE PeerNoise
  <2>1. PICK p \in Piece : p = [part |-> "noise", id |-> 0, now |-> TRUE]
    BY DEF Piece
  <2>2. /\ wire' = Append(wire, p) /\ mReadBuffer' = mReadBuffer /\ next' = next
        /\ mPacketBuffer' = mPacketBuffer /\ peer = "up" /\ next.part = "head"
    BY <1>29, <2>1 DEF PeerNoise
  <2>3. Continues(Between, next)
    BY <2>2 DEF StreamInv
  <2>4. Between' = Append(Between, p)
    BY <2>2, AppendStream
  <2>5. p.now /\ p.part = "noise"
    BY <2>1
  <2>6. InOrder(Append(Between, p))
    BY <2>2, <2>3, <2>5, BetweenType, InOrderAppend DEF StreamInv, Continues
  <2>7. Continues(Append(Between, p), next)
    <3>1. /\ Len(Append(Between, p)) = Len(Between) + 1 /\ Len(Between) \in Nat
          /\ Append(Between, p)[Len(Between) + 1] = p /\ Append(Between, p) # <<>>
      BY BetweenType, AppendProperties
    <3> QED
      BY <2>2, <2>5, <3>1 DEF Continues
  <2> QED
    BY <2>2, <2>4, <2>6, <2>7 DEF StreamInv, InOrder, Continues
<1>30. CASE PeerGone
  <2>1. /\ peer' # "up" /\ mReadBuffer' = mReadBuffer /\ mPacketBuffer' = mPacketBuffer
        /\ next' = next
    BY <1>30 DEF PeerGone
  <2>2. CASE wire' = wire
    BY <2>1, <2>2, QuietStream
  <2>3. CASE wire' = <<>>
    BY <2>1, <2>3, CutStream
  <2> QED
    BY <1>30, <2>2, <2>3 DEF PeerGone
<1>31. CASE SpuriousWakeup
  BY <1>31, QuietStream DEF SpuriousWakeup
<1>32. CASE UNCHANGED vars
  BY <1>32, QuietStream DEF vars
<1> QED
  BY <1>1, <1>2, <1>3, <1>4, <1>5, <1>6, <1>7, <1>8, <1>9, <1>10, <1>11, <1>12, <1>13,
     <1>14, <1>15, <1>16, <1>17, <1>18, <1>19, <1>20, <1>21, <1>22, <1>23, <1>24,
     <1>25, <1>26, <1>27, <1>28, <1>29, <1>30, <1>31, <1>32
  DEF Next, connectionMonitorThreadFunc, readThreadFunc, writeThreadFunc,
      transferData_V1_2, Server

\* Every step preserves PacketsWhole.
LEMMA PacketsStep ==
  TypeOK /\ StreamInv /\ PacketsWhole /\ [Next]_vars => PacketsWhole'
<1> SUFFICES ASSUME TypeOK, StreamInv, PacketsWhole, [Next]_vars PROVE PacketsWhole'
  OBVIOUS
<1>1. CASE Receive
  BY <1>1, ReceiveStream
<1>2. CASE SendMessageTest
  BY <1>2 DEF SendMessageTest, PacketsWhole
<1>3. CASE ~Receive /\ ~SendMessageTest
  <2>1. received' = received
    BY <1>3
    DEF Next, connectionMonitorThreadFunc, readThreadFunc, writeThreadFunc,
        transferData_V1_2, Server, vars, bufferVars, callVars, farVars, ConnectFails,
        createConnection, Activate, SpawnRead, SpawnWrite, isConnectionAlive, Lost,
        JoinRead, JoinWrite, CloseSocket, ClearRead, ClearWrite, EndPause, ReadLoop, Recv,
        RecvEnds, ReadNotify, WriteWait, WriteTake, WriteLeave, Send, SendFails,
        SendMessagePush, ReceiveWait, ReceiveNothing, PeerSends, PeerNoise, PeerGone,
        SpuriousWakeup
  <2> QED
    BY <2>1 DEF PacketsWhole
<1> QED
  BY <1>1, <1>2, <1>3

-----------------------------------------------------------------------------
(* The invariant and the theorems.                                         *)

IInv == TypeOK /\ ThreadsInv /\ QueueInv /\ EndsInv /\ StreamInv /\ PacketsWhole

\* The inductive invariant holds in every reachable state.
LEMMA Invariance == Spec => []IInv
<1>1. Init => IInv
  BY InitType, InitThreads, InitQueue, InitStream DEF IInv
<1>2. IInv /\ [Next]_vars => IInv'
  BY TypeStep, ThreadsStep, QueueStep, EndsStep, StreamStep, PacketsStep DEF IInv
<1> QED
  BY <1>1, <1>2, PTL DEF Spec

\* Every variable keeps its type: what receiveData returns is nothing or a
\* packet of a head and one more piece.
THEOREM TypeCorrect == Spec => []TypeOK
<1>1. IInv => TypeOK
  BY DEF IInv
<1> QED
  BY <1>1, Invariance, PTL

\* The monitor, the reader and the writer use the sockets in turn: each
\* connection has one reader and one writer, is closed after both have been
\* joined, and the next is opened after that.
THEOREM SocketRefinement == Spec => UsedInTurn
<1>1. Init => Sockets!Init
  BY SocketInit
<1>2. IInv /\ [Next]_vars => [Sockets!Next]_<<socketFd = "open", Using, Done>>
  BY SocketStep DEF IInv
<1> QED
  BY <1>1, <1>2, Invariance, PTL DEF Spec, UsedInTurn, Sockets!Spec

\* No request that waited in the queue when its connection ended is sent over
\* another: connectionMonitorThreadFunc clears the queue before it reconnects.
THEOREM RequestsFresh == Spec => []NothingOldSent
<1>1. IInv => NothingOldSent
  BY DEF IInv, QueueInv, NothingOldSent
<1> QED
  BY <1>1, Invariance, PTL

\* Every packet that receiveData returns is a head with its own body, both
\* from the connection that was open when it was returned.
THEOREM PacketsInOrder == Spec => []PacketsWhole
<1>1. IInv => PacketsWhole
  BY DEF IInv
<1> QED
  BY <1>1, Invariance, PTL
=============================================================================
