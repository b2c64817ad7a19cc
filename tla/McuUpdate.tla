------------------------------ MODULE McuUpdate ------------------------------
(***************************************************************************)
(* The update of the MCU's firmware over SPI (the part of                  *)
(* transferThread_V1_2 between "OTA" and "OTA end", and what it does with  *)
(* the reply).  A file holds the word that an update is under way and      *)
(* survives a restart.  The image goes out piece by piece, the size and    *)
(* checksum of the file first: a packet, then an empty message to fetch    *)
(* the answer, then the next packet if the answer was the packet's number, *)
(* and the same one again otherwise.  After three more attempts the update *)
(* is given up.                                                            *)
(*                                                                         *)
(* One iteration of the thread is two steps: what it prepares, and the     *)
(* transfer with what follows.  The MCU is external: its boot loader takes *)
(* pieces by their number, confirms the last one it took as often as it is *)
(* sent, and says that it is done when it has the whole image; answers may *)
(* be lost or late.  Outside an update it says other things.               *)
(***************************************************************************)
EXTENDS Naturals, Sequences

CONSTANT N   \* pieces of the image; packet 0 is its size and checksum

\* otaIndex is 16 bits wide.
ASSUME ImageAssumption == N \in Nat \ {0} /\ N < 65535

VARIABLES
  updating,                         \* MCUUpdateFlag is "1"
  asked,                            \* gecko.mcu.update: somebody wants an update
  pcUpdate,                         \* the transfer thread
  out, sendOtaLastBuf,              \* the message in psendBuf, the packet to repeat
  otaIndex, otaReSendCount, otaAckState, needMakeMsgFlag, needParseAckFlag,
  fileSizeSendFlag, piecesRead,     \* packet 0 is made; fileReadLenTotal in pieces
  boot, resets, stored, pending,    \* the MCU: boot loader, restart due, pieces, answer
  skipped, disturbed                \* history: a packet was left without its answer; the last
                                    \* transfer failed or brought something else

flagVars == <<updating, asked>>
sendVars == <<out, sendOtaLastBuf, fileSizeSendFlag, piecesRead>>
otaVars == <<otaIndex, otaReSendCount, otaAckState, needMakeMsgFlag, needParseAckFlag>>
mcuVars == <<boot, resets, stored, pending>>
updateVars == <<flagVars, pcUpdate, sendVars, otaVars, mcuVars, skipped, disturbed>>

Message(type, index, piece) == [type |-> type, index |-> index, piece |-> piece]
EmptyMsg == Message("empty", 0, 0)
StartMsg == Message("start", 0, 0)
Messages == [type : {"empty", "start", "packet"}, index : 0..(N + 1), piece : 0..N]
Says(type, index) == [type |-> type, index |-> index]
Nothing == Says("nothing", 0)    \* empty, damaged, or that the last message was wrong
Sayings == [type : {"nothing", "ack", "done", "other"}, index : 0..(N + 1)]
Image == [i \in 1..(N + 1) |-> i - 1]

UpdateTypeOK ==
  /\ updating \in BOOLEAN /\ asked \in BOOLEAN /\ pcUpdate \in {"top", "ota", "last"}
  /\ out \in Messages /\ sendOtaLastBuf \in Messages
  /\ otaIndex \in 0..(N + 1) /\ otaReSendCount \in 0..3
  /\ otaAckState \in {0, 1} /\ needMakeMsgFlag \in {0, 1} /\ needParseAckFlag \in {0, 1}
  /\ fileSizeSendFlag \in {0, 1} /\ piecesRead \in 0..N
  /\ boot \in BOOLEAN /\ resets \in BOOLEAN /\ stored \in Seq(0..N) /\ pending \in Sayings
  /\ skipped \in BOOLEAN /\ disturbed \in BOOLEAN

UpdateInit ==
  /\ updating = FALSE /\ asked = FALSE /\ pcUpdate = "top"
  /\ out = EmptyMsg /\ sendOtaLastBuf = EmptyMsg
  /\ otaIndex = 0 /\ otaReSendCount = 0 /\ otaAckState = 0
  /\ needMakeMsgFlag = 1 /\ needParseAckFlag = 0
  /\ fileSizeSendFlag = 0 /\ piecesRead = 0
  /\ boot = FALSE /\ resets = FALSE /\ stored = <<>> /\ pending = Nothing
  /\ skipped = FALSE /\ disturbed = FALSE

-----------------------------------------------------------------------------
(* What the thread prepares.                                               *)

Prepares == pcUpdate = "top" /\ pcUpdate' = "ota" /\ UNCHANGED <<asked, mcuVars, skipped, disturbed>>

\* The word is in the file before the MCU is told.
startMcuOta ==
  /\ asked /\ Prepares
  /\ updating' = TRUE /\ out' = StartMsg
  /\ UNCHANGED <<sendOtaLastBuf, fileSizeSendFlag, piecesRead, otaVars>>

Continues == updating /\ ~asked

\* mutant: The repetitions are not counted.
ResendUncounted ==
  /\ Continues /\ otaAckState = 1 /\ otaReSendCount < 3 /\ Prepares
  /\ out' = sendOtaLastBuf /\ needParseAckFlag' = 0
  /\ UNCHANGED <<updating, sendOtaLastBuf, fileSizeSendFlag, piecesRead,
                 otaIndex, otaReSendCount, otaAckState, needMakeMsgFlag>>

Resend ==
  /\ Continues /\ otaAckState = 1 /\ otaReSendCount < 3 /\ Prepares
  /\ out' = sendOtaLastBuf /\ needParseAckFlag' = 0 /\ otaReSendCount' = otaReSendCount + 1
  /\ UNCHANGED <<updating, sendOtaLastBuf, fileSizeSendFlag, piecesRead,
                 otaIndex, otaAckState, needMakeMsgFlag>>

\* The packet is sent once more all the same; reboot() is empty.
GiveUp ==
  /\ pcUpdate = "top" /\ Continues /\ otaAckState = 1 /\ otaReSendCount = 3
  /\ out' = sendOtaLastBuf /\ needParseAckFlag' = 0
  /\ updating' = FALSE /\ pcUpdate' = "last"
  /\ UNCHANGED <<asked, mcuVars, skipped, disturbed, sendOtaLastBuf, fileSizeSendFlag, piecesRead,
                 otaIndex, otaReSendCount, otaAckState, needMakeMsgFlag>>

\* sendMcuOtaMsg: packet 0, the next piece, the end of the file, or an empty
\* message to fetch the answer.
Sends == Continues /\ otaAckState = 0 /\ Prepares /\ UNCHANGED updating
Makes(type, piece, parse) ==
  /\ out' = Message(type, IF type = "packet" THEN otaIndex ELSE 0, piece)
  /\ sendOtaLastBuf' = IF type = "packet" THEN out' ELSE sendOtaLastBuf
  /\ needParseAckFlag' = parse
  /\ UNCHANGED <<otaIndex, otaReSendCount, otaAckState, needMakeMsgFlag>>

SendFileSize ==
  /\ Sends /\ needMakeMsgFlag = 1 /\ fileSizeSendFlag = 0
  /\ Makes("packet", 0, 0) /\ fileSizeSendFlag' = 1 /\ UNCHANGED piecesRead

SendPiece ==
  /\ Sends /\ needMakeMsgFlag = 1 /\ fileSizeSendFlag = 1 /\ piecesRead < N
  /\ Makes("packet", piecesRead + 1, 0) /\ piecesRead' = piecesRead + 1
  /\ UNCHANGED fileSizeSendFlag

SendEnd ==
  /\ Sends /\ needMakeMsgFlag = 1 /\ fileSizeSendFlag = 1 /\ piecesRead = N
  /\ Makes("empty", 0, 1) /\ UNCHANGED <<fileSizeSendFlag, piecesRead>>

\* The file is not there, or cannot be opened: psendBuf stays as it is.
NoFile ==
  /\ Sends /\ needMakeMsgFlag = 1 /\ piecesRead = 0
  /\ UNCHANGED <<sendVars, otaVars>>

SendQuery ==
  /\ Sends /\ needMakeMsgFlag = 0
  /\ Makes("empty", 0, 1) /\ UNCHANGED <<fileSizeSendFlag, piecesRead>>

sendMcuOtaMsg == SendFileSize \/ SendPiece \/ SendEnd \/ NoFile \/ SendQuery

-----------------------------------------------------------------------------
(* The boot loader, external.                                              *)

Confirms(m) ==
  m.type = "packet" /\ (m.index = 0 \/ m.index = Len(stored) \/ m.index + 1 = Len(stored))

StoredWith(m) ==
  CASE m.type = "packet" /\ m.index = 0 -> <<m.piece>>
    [] m.type = "packet" /\ m.index # 0 /\ m.index = Len(stored) -> Append(stored, m.piece)
    [] OTHER -> stored

Reply(m) ==
  CASE Confirms(m) -> Says("ack", m.index)
    [] m.type = "empty" /\ stored = Image -> Says("done", 0)
    [] OTHER -> Nothing

\* A message arrives or is damaged; outside the boot loader the MCU speaks of
\* other things.  An answer that was not fetched may still come.
BootTakes(arrives) ==
  /\ stored' = IF arrives THEN StoredWith(out) ELSE stored
  /\ resets' = (resets \/ (arrives /\ out.type = "start"))
  /\ UNCHANGED boot
AppTakes(arrives) ==
  /\ boot' = (arrives /\ out.type = "start") /\ resets' = boot' /\ UNCHANGED stored
Answering(arrives, heard) ==
  \/ pending' = IF boot /\ arrives THEN Reply(out) ELSE Nothing
  \/ boot /\ heard = Nothing /\ pending' = pending
  \/ ~boot /\ ~boot' /\ pending' = Says("other", 0)
Mcu(arrives, heard) ==
  /\ heard \in {pending, Nothing}
  /\ IF boot THEN BootTakes(arrives) ELSE AppTakes(arrives)
  /\ Answering(arrives, heard)

-----------------------------------------------------------------------------
(* The transfer, and what the thread does with the reply.                  *)

\* parseOtaMsg: 0 (the packet is confirmed, or this is some other message), 1
\* and 2.
\* mutant: Any number will do.
AckedByAny(heard) == heard.type = "ack"
Acked(heard) == heard = Says("ack", otaIndex)
parseOtaMsg(heard) ==
  IF Acked(heard) \/ heard.type = "other" THEN 0 ELSE IF heard.type = "done" THEN 2 ELSE 1

Parsed(heard) ==
  LET ret == parseOtaMsg(heard) IN
  /\ otaIndex' = IF Acked(heard) THEN otaIndex + 1 ELSE otaIndex
  /\ otaReSendCount' = IF Acked(heard) THEN 0 ELSE otaReSendCount
  /\ otaAckState' = IF ret = 1 THEN 1 ELSE 0
  /\ needMakeMsgFlag' = CASE ret = 0 -> 1 [] ret = 1 -> needMakeMsgFlag [] OTHER -> 0
  /\ updating' = (updating /\ ret # 2)
  /\ disturbed' = (heard.type = "other")
  /\ skipped' = (skipped \/ (heard.type = "other" /\ needMakeMsgFlag = 0))
  /\ UNCHANGED needParseAckFlag

\* mutant: The next piece does not wait for the answer.
UnparsedInHaste ==
  /\ otaAckState' = 0 /\ disturbed' = FALSE
  /\ UNCHANGED <<updating, otaIndex, otaReSendCount, needMakeMsgFlag, needParseAckFlag, skipped>>

\* The reply to the transfer of a packet is not looked at.
Unparsed ==
  /\ needMakeMsgFlag' = 0 /\ otaAckState' = 0 /\ disturbed' = FALSE
  /\ UNCHANGED <<updating, otaIndex, otaReSendCount, needParseAckFlag, skipped>>

Transfer(arrives, heard) ==
  /\ pcUpdate = "ota" /\ pcUpdate' = "top"
  /\ Mcu(arrives, heard)
  /\ IF needParseAckFlag = 1 THEN Parsed(heard) ELSE Unparsed
  /\ UNCHANGED <<asked, sendVars>>

\* Nothing is exchanged; the next iteration starts from what this one left.
TransferFails ==
  /\ pcUpdate \in {"ota", "last"} /\ pcUpdate' = "top"
  /\ disturbed' = TRUE
  /\ skipped' = (skipped \/ (out.type = "packet" /\ needMakeMsgFlag = 1 /\ otaAckState = 0))
  /\ UNCHANGED <<flagVars, sendVars, otaVars, mcuVars>>

\* The transfer after the update was given up: the reply is an ordinary message.
LastTransfer(arrives, heard) ==
  /\ pcUpdate = "last" /\ pcUpdate' = "top"
  /\ Mcu(arrives, heard)
  /\ disturbed' = FALSE
  /\ UNCHANGED <<flagVars, sendVars, otaVars, skipped>>

\* An iteration without an update.
Ordinary ==
  /\ pcUpdate = "top" /\ ~updating /\ ~asked
  /\ disturbed' = FALSE
  /\ UNCHANGED <<flagVars, pcUpdate, sendVars, otaVars, mcuVars, skipped>>

-----------------------------------------------------------------------------
(* Whoever wants an update, and the power.                                 *)

Ask ==
  /\ ~updating /\ ~asked /\ asked' = TRUE
  /\ UNCHANGED <<updating, pcUpdate, sendVars, otaVars, mcuVars, skipped, disturbed>>

\* Both processors start again, because the MCU was told to or because the
\* power fails; the MCU finds its boot loader or an older program.
Restart ==
  /\ asked' = FALSE /\ pcUpdate' = "top" /\ UNCHANGED updating
  /\ out' = EmptyMsg /\ sendOtaLastBuf' = EmptyMsg
  /\ otaIndex' = 0 /\ otaReSendCount' = 0 /\ otaAckState' = 0
  /\ needMakeMsgFlag' = 1 /\ needParseAckFlag' = 0
  /\ fileSizeSendFlag' = 0 /\ piecesRead' = 0
  /\ boot' \in IF resets THEN {boot} ELSE {boot, FALSE}
  /\ resets' = FALSE /\ stored' = <<>> /\ pending' = Nothing
  /\ skipped' = FALSE /\ disturbed' = ~resets

Prepare == startMcuOta \/ Resend \/ GiveUp \/ sendMcuOtaMsg

UpdateNext ==
  \/ Prepare \/ TransferFails \/ Ordinary
  \/ \E arrives \in BOOLEAN, heard \in {pending, Nothing} :
       Transfer(arrives, heard) \/ LastTransfer(arrives, heard)
  \/ Ask \/ Restart

UpdateSpec == UpdateInit /\ [][UpdateNext]_updateVars

-----------------------------------------------------------------------------
(* Properties.                                                             *)

\* "上一包的回复正确，组新的下一包发送" (CommConn.cpp:5739): the number of a packet is
\* the place of its piece in the image, also when it is sent again, and the MCU
\* stores the pieces in their order, each once; unless a packet was left
\* without its answer.
InStep ==
  ~skipped =>
    /\ \A m \in {out, sendOtaLastBuf} : m.type = "packet" => m.index = m.piece
    /\ \A i \in 1..Len(stored) : stored[i] = i - 1

\* What counts as confirmed is with the MCU, whichever answers were lost, late
\* or about a packet that was sent twice.
ConfirmedStored == boot => otaIndex <= Len(stored)

\* An update that was begun ends, with success or after three repetitions,
\* unless transfers go on to fail or the MCU goes on to say other things.
UpdateEnds ==
  <>[]~disturbed => (updating /\ ~asked ~> ~updating)
=============================================================================
