------------------------------- MODULE McuProofs -------------------------------
(***************************************************************************)
(* Proofs about the exchange with the MCU (McuLink), the update of its     *)
(* firmware (McuUpdate) and their composition (McuTransfer), for every     *)
(* size of the ring and of the image.                                      *)
(***************************************************************************)
EXTENDS McuTransfer, TLAPS

-----------------------------------------------------------------------------
(* The link.                                                               *)

\* An answer "right" is about the buffer whose packet the MCU has; a packet is
\* overtaken once per attempt at most.
LinkInv ==
  /\ LinkTypeOK
  /\ reply = "right" /\ sendBuf[Other(psendBuf)] = "packet" => has[Other(psendBuf)]
  /\ \A b \in Buffers : overtaken[b] <= spisendcounter[b]
  /\ ~lostAcked

\* There are two buffers, and each is the other's other.
LEMMA TwoBuffers ==
  ASSUME NEW b \in Buffers
  PROVE  Other(b) \in Buffers /\ Other(b) # b /\ Other(Other(b)) = b
         /\ Buffers = {b, Other(b)}
BY DEF Buffers, Other

\* A failed attempt is counted up to the limit.
LEMMA CountBound ==
  ASSUME LinkTypeOK, NEW heard, Counted(heard) # 0
  PROVE  /\ Counted(heard) = spisendcounter[Other(psendBuf)] + 1
         /\ spisendcounter[Other(psendBuf)] < Attempts
BY DEF Counted

LEMMA CountType ==
  ASSUME LinkTypeOK, NEW heard
  PROVE  Counted(heard) \in 0..Attempts
BY TwoBuffers DEF LinkTypeOK, Counted, Attempts

LEMMA LinkInitially == LinkInit => LinkInv
<1> SUFFICES ASSUME LinkInit PROVE LinkInv
  OBVIOUS
<1>1. LinkTypeOK
  <2>1. ring \in 0..RingSize /\ reply \in Answers /\ first2msgflag \in 0..2
    BY RingAssumption DEF LinkInit, Answers
  <2>2. psendBuf \in Buffers /\ older \in Buffers /\ lostAcked \in BOOLEAN
    BY DEF LinkInit, Buffers
  <2>3. /\ sendBuf \in [Buffers -> {"empty", "packet", "update"}]
        /\ has \in [Buffers -> BOOLEAN] /\ overtaken \in [Buffers -> Nat]
    BY DEF LinkInit
  <2>4. spisendcounter \in [Buffers -> 0..Attempts]
    BY DEF LinkInit, Attempts
  <2> QED
    BY <2>1, <2>2, <2>3, <2>4 DEF LinkTypeOK
<1>2. \A b \in Buffers : overtaken[b] <= spisendcounter[b]
  BY DEF LinkInit
<1> QED
  BY <1>1, <1>2 DEF LinkInit, LinkInv

\* A buffer is sent again, and what was in psendBuf may overtake it.
LEMMA SendsAgain ==
  ASSUME LinkInv, NEW heard \in parseMsg, NEW arrives \in BOOLEAN,
         NEW answer \in AnswersTo(arrives),
         Exchange(heard, arrives, answer), Resends(heard)
  PROVE  LinkInv'
<1> DEFINE p == psendBuf
           b == Other(psendBuf)
<1>1. p \in Buffers /\ b \in Buffers /\ b # p /\ Other(b) = p /\ Buffers = {p, b}
  BY TwoBuffers DEF LinkInv, LinkTypeOK
<1>2. /\ psendBuf' = b /\ reply' = answer
      /\ spisendcounter' = [spisendcounter EXCEPT ![b] = Counted(heard)]
      /\ has' = [has EXCEPT ![p] = @ \/ Stores(arrives)]
      /\ overtaken' = [overtaken EXCEPT ![b] = IF Overtakes(arrives) THEN @ + 1 ELSE @]
      /\ UNCHANGED <<ring, sendBuf, older, lostAcked>>
      /\ first2msgflag' = IF first2msgflag > 0 THEN first2msgflag - 1 ELSE 0
  BY DEF Exchange, getQueueVaryMsg, SendAgain
<1>3. Stores(arrives) \in BOOLEAN
  BY DEF Stores
<1>4. Counted(heard) = spisendcounter[b] + 1 /\ Counted(heard) \in 0..Attempts
  BY CountBound, CountType DEF Resends, LinkInv
<1>5. answer \in Answers
  BY DEF AnswersTo, Answers
<1>6. LinkTypeOK'
  BY <1>1, <1>2, <1>3, <1>4, <1>5 DEF LinkInv, LinkTypeOK
<1>7. reply' = "right" /\ sendBuf'[Other(psendBuf')] = "packet" => has'[Other(psendBuf')]
  BY <1>1, <1>2 DEF LinkInv, LinkTypeOK, AnswersTo, Stores
<1>8. \A c \in Buffers : overtaken'[c] <= spisendcounter'[c]
  <2>1. overtaken'[p] <= spisendcounter'[p]
    BY <1>1, <1>2 DEF LinkInv, LinkTypeOK
  <2>2. overtaken'[b] <= spisendcounter'[b]
    BY <1>1, <1>2, <1>4 DEF LinkInv, LinkTypeOK
  <2> QED
    BY <1>1, <2>1, <2>2
<1> QED
  BY <1>2, <1>6, <1>7, <1>8 DEF LinkInv

\* A buffer is filled anew.
LEMMA SendsNext ==
  ASSUME LinkInv, NEW heard \in parseMsg, NEW arrives \in BOOLEAN,
         NEW answer \in AnswersTo(arrives),
         Exchange(heard, arrives, answer), ~Resends(heard)
  PROVE  LinkInv'
<1> DEFINE p == psendBuf
           b == Other(psendBuf)
<1>1. p \in Buffers /\ b \in Buffers /\ b # p /\ Other(b) = p /\ Buffers = {p, b}
  BY TwoBuffers DEF LinkInv, LinkTypeOK
<1>2. /\ psendBuf' = b /\ reply' = answer
      /\ spisendcounter' = [spisendcounter EXCEPT ![b] = Counted(heard)]
      /\ has' = [has EXCEPT ![p] = @ \/ Stores(arrives), ![b] = FALSE]
      /\ overtaken' = [overtaken EXCEPT ![b] = 0]
      /\ older' = p
      /\ lostAcked' = (lostAcked \/ (/\ sendBuf[b] = "packet" /\ ~has[b]
                                     /\ heard = "right" /\ reply # "other"))
      /\ first2msgflag' = IF first2msgflag > 0 THEN first2msgflag - 1 ELSE 0
      /\ Pack(b)
  BY DEF Exchange, getQueueVaryMsg, SendNext
<1>3. /\ \/ sendBuf' = [sendBuf EXCEPT ![b] = "empty"]
         \/ sendBuf' = [sendBuf EXCEPT ![b] = "packet"]
      /\ ring' \in 0..RingSize
  BY <1>2, RingAssumption DEF Pack, LinkInv, LinkTypeOK
<1>4. Stores(arrives) \in BOOLEAN /\ Counted(heard) \in 0..Attempts /\ answer \in Answers
  BY CountType DEF Stores, AnswersTo, Answers, LinkInv
<1>5. ~lostAcked'
  BY <1>1, <1>2 DEF LinkInv, parseMsg
<1>6. LinkTypeOK'
  BY <1>1, <1>2, <1>3, <1>4, <1>5 DEF LinkInv, LinkTypeOK
<1>7. reply' = "right" /\ sendBuf'[Other(psendBuf')] = "packet" => has'[Other(psendBuf')]
  BY <1>1, <1>2, <1>3 DEF LinkInv, LinkTypeOK, AnswersTo, Stores
<1>8. \A c \in Buffers : overtaken'[c] <= spisendcounter'[c]
  <2>1. overtaken'[p] <= spisendcounter'[p]
    BY <1>1, <1>2 DEF LinkInv, LinkTypeOK
  <2>2. overtaken'[b] <= spisendcounter'[b]
    BY <1>1, <1>2, <1>4 DEF LinkInv, LinkTypeOK
  <2> QED
    BY <1>1, <2>1, <2>2
<1> QED
  BY <1>5, <1>6, <1>7, <1>8 DEF LinkInv

LEMMA LinkStep == LinkInv /\ [LinkNext]_linkVars => LinkInv'
<1> SUFFICES ASSUME LinkInv, [LinkNext]_linkVars PROVE LinkInv'
  OBVIOUS
<1>1. ASSUME pb_add_raw_vary_data PROVE LinkInv'
  BY <1>1, RingAssumption
     DEF pb_add_raw_vary_data, LinkInv, LinkTypeOK, bufVars, histVars
<1>2. ASSUME NEW heard \in parseMsg, NEW arrives \in BOOLEAN, NEW answer \in AnswersTo(arrives),
             Exchange(heard, arrives, answer)
      PROVE LinkInv'
  BY <1>2, SendsAgain, SendsNext
<1>3. ASSUME NEW content \in {"empty", "update"}, Overwrite(content) PROVE LinkInv'
  <2>1. Other(psendBuf) \in Buffers /\ Other(psendBuf) # psendBuf /\ psendBuf \in Buffers
        /\ Buffers = {psendBuf, Other(psendBuf)}
    BY TwoBuffers DEF LinkInv, LinkTypeOK
  <2>2. LinkTypeOK'
    BY <1>3 DEF Overwrite, LinkInv, LinkTypeOK
  <2>3. \A c \in Buffers : overtaken'[c] <= spisendcounter'[c]
    <3>1. overtaken'[psendBuf] <= spisendcounter'[psendBuf]
      BY <1>3, <2>1 DEF Overwrite, LinkInv, LinkTypeOK, Attempts
    <3>2. overtaken'[Other(psendBuf)] <= spisendcounter'[Other(psendBuf)]
      BY <1>3, <2>1 DEF Overwrite, LinkInv, LinkTypeOK
    <3> QED
      BY <2>1, <3>1, <3>2
  <2>4. reply' = "right" /\ sendBuf'[Other(psendBuf')] = "packet" => has'[Other(psendBuf')]
    BY <1>3, <2>1 DEF Overwrite, LinkInv, LinkTypeOK
  <2> QED
    BY <1>3, <2>2, <2>3, <2>4 DEF Overwrite, LinkInv
<1>4. ASSUME Elsewhere PROVE LinkInv'
  BY <1>4 DEF Elsewhere, LinkInv, LinkTypeOK, bufVars, histVars, Answers
<1>5. ASSUME LinkRestart PROVE LinkInv'
  <2>1. LinkTypeOK'
    <3>1. ring' \in 0..RingSize /\ reply' \in Answers /\ first2msgflag' \in 0..2
      BY <1>5, RingAssumption DEF LinkRestart, Answers
    <3>2. psendBuf' \in Buffers /\ older' \in Buffers /\ lostAcked' \in BOOLEAN
      BY <1>5 DEF LinkRestart, Buffers
    <3>3. /\ sendBuf' \in [Buffers -> {"empty", "packet", "update"}]
          /\ has' \in [Buffers -> BOOLEAN] /\ overtaken' \in [Buffers -> Nat]
      BY <1>5 DEF LinkRestart
    <3>4. spisendcounter' \in [Buffers -> 0..Attempts]
      BY <1>5 DEF LinkRestart, Attempts
    <3> QED
      BY <3>1, <3>2, <3>3, <3>4 DEF LinkTypeOK
  <2>2. \A b \in Buffers : overtaken'[b] <= spisendcounter'[b]
    BY <1>5 DEF LinkRestart
  <2> QED
    BY <1>5, <2>1, <2>2 DEF LinkRestart, LinkInv
<1>6. ASSUME UNCHANGED linkVars PROVE LinkInv'
  BY <1>6 DEF linkVars, LinkInv, LinkTypeOK, bufVars, histVars
<1> QED
  BY <1>1, <1>2, <1>3, <1>4, <1>5, <1>6 DEF LinkNext

\* The types, that what was acknowledged is with the MCU, and that a packet is
\* overtaken three times at most.
THEOREM LinkSafe == LinkSpec => [](LinkTypeOK /\ AckedStored /\ OvertakenFew)
<1>1. LinkInv => LinkTypeOK /\ AckedStored /\ OvertakenFew
  <2> SUFFICES ASSUME LinkInv, NEW b \in Buffers PROVE overtaken[b] <= Attempts
    BY DEF LinkInv, AckedStored, OvertakenFew
  <2> QED
    BY DEF LinkInv, LinkTypeOK, Attempts
<1> QED
  BY <1>1, LinkInitially, LinkStep, PTL DEF LinkSpec

-----------------------------------------------------------------------------
(* The update.                                                             *)

made == fileSizeSendFlag + piecesRead
Packet(m) == m.type = "packet"

\* The packet to repeat is the last one made; otaIndex is its number, or the
\* next one once it is confirmed.
LastInv ==
  /\ fileSizeSendFlag = 0 => piecesRead = 0
  /\ Packet(out) => out = sendOtaLastBuf
  /\ Packet(sendOtaLastBuf) =>
       /\ otaIndex = sendOtaLastBuf.index \/ otaIndex = sendOtaLastBuf.index + 1
       /\ sendOtaLastBuf.index < made
  /\ ~Packet(sendOtaLastBuf) => made = 0 /\ otaIndex = 0

\* An answer under way is about a packet that was made and is stored.
AckInv ==
  /\ pending.type = "ack" =>
       /\ boot /\ Packet(sendOtaLastBuf)
       /\ pending.index <= sendOtaLastBuf.index /\ pending.index < Len(stored)
  /\ boot => otaIndex <= Len(stored)
  /\ ~boot => otaIndex = 0

\* Unless a packet was left without its answer, the next one is made when all
\* that were made are confirmed.
PhaseInv ==
  ~skipped =>
    /\ needMakeMsgFlag = 1 =>
         \/ made = otaIndex
         \/ /\ made = otaIndex + 1 /\ pcUpdate = "ota" /\ Packet(out)
            /\ otaAckState = 0 /\ needParseAckFlag = 0
    /\ needMakeMsgFlag = 0 => made = otaIndex \/ made = otaIndex + 1
    /\ Packet(sendOtaLastBuf) => sendOtaLastBuf.index = sendOtaLastBuf.piece
    /\ \A i \in 1..Len(stored) : stored[i] = i - 1

UpdateInv == UpdateTypeOK /\ LastInv /\ AckInv /\ PhaseInv

\* The fields of the messages.
LEMMA MessageTypes ==
  /\ EmptyMsg \in Messages /\ EmptyMsg.type = "empty"
  /\ StartMsg \in Messages /\ StartMsg.type = "start"
  /\ Nothing \in Sayings /\ Nothing.type = "nothing"
  /\ \A i \in 0..(N + 1), p \in 0..N :
       /\ Message("packet", i, p) \in Messages
       /\ Message("packet", i, p).type = "packet"
       /\ Message("packet", i, p).index = i /\ Message("packet", i, p).piece = p
BY ImageAssumption
   DEF EmptyMsg, StartMsg, Message, Messages, Nothing, Says, Sayings

LEMMA UpdateInitially == UpdateInit => UpdateInv
<1> SUFFICES ASSUME UpdateInit PROVE UpdateInv
  OBVIOUS
<1>1. UpdateTypeOK
  <2>1. otaIndex \in 0..(N + 1) /\ piecesRead \in 0..N
    BY ImageAssumption DEF UpdateInit
  <2>2. stored \in Seq(0..N)
    BY DEF UpdateInit
  <2>3. out \in Messages /\ sendOtaLastBuf \in Messages /\ pending \in Sayings
    BY MessageTypes DEF UpdateInit
  <2>4. /\ otaReSendCount \in 0..3 /\ otaAckState \in {0, 1}
        /\ needMakeMsgFlag \in {0, 1} /\ needParseAckFlag \in {0, 1} /\ fileSizeSendFlag \in {0, 1}
    BY DEF UpdateInit
  <2>5. /\ updating \in BOOLEAN /\ asked \in BOOLEAN /\ pcUpdate \in {"top", "ota", "last"}
        /\ boot \in BOOLEAN /\ resets \in BOOLEAN /\ skipped \in BOOLEAN /\ disturbed \in BOOLEAN
    BY DEF UpdateInit
  <2> QED
    BY <2>1, <2>2, <2>3, <2>4, <2>5 DEF UpdateTypeOK
<1>2. LastInv /\ AckInv /\ PhaseInv
  BY DEF UpdateInit, LastInv, AckInv, PhaseInv, Packet, made, EmptyMsg, Message, Nothing, Says
<1> QED
  BY <1>1, <1>2 DEF UpdateInv

\* What the thread prepares without making a packet changes no number.
LEMMA PreparesNoPacket ==
  ASSUME UpdateInv,
         out' \in {out, EmptyMsg, StartMsg, sendOtaLastBuf},
         needParseAckFlag' \in {0, 1},
         Packet(out') => needParseAckFlag' \in {0, needParseAckFlag},
         pcUpdate' \in {"ota", "last"}, updating' \in BOOLEAN, otaReSendCount' \in 0..3,
         pcUpdate = "top",
         UNCHANGED <<asked, sendOtaLastBuf, fileSizeSendFlag, piecesRead, otaIndex, otaAckState,
                     needMakeMsgFlag, mcuVars, skipped, disturbed>>
  PROVE  UpdateInv'
<1>1. UpdateTypeOK'
  BY MessageTypes DEF UpdateInv, UpdateTypeOK, mcuVars
<1>2. LastInv'
  BY MessageTypes DEF UpdateInv, LastInv, Packet, made
<1>3. AckInv'
  BY DEF UpdateInv, AckInv, Packet, mcuVars
<1>4. PhaseInv'
  BY DEF UpdateInv, PhaseInv, Packet, made, mcuVars
<1> QED
  BY <1>1, <1>2, <1>3, <1>4 DEF UpdateInv

\* A new packet has the number of those that are confirmed.
LEMMA PreparesPacket ==
  ASSUME UpdateInv, NEW piece \in 0..N,
         otaAckState = 0, needMakeMsgFlag = 1, pcUpdate = "top", piece = made,
         out' = Message("packet", otaIndex, piece), sendOtaLastBuf' = out',
         needParseAckFlag' = 0, pcUpdate' = "ota",
         fileSizeSendFlag' = 1, piecesRead' = piece,
         UNCHANGED <<flagVars, otaIndex, otaReSendCount, otaAckState, needMakeMsgFlag,
                     mcuVars, skipped, disturbed>>
  PROVE  UpdateInv'
<1>1. otaIndex \in 0..(N + 1) /\ otaIndex <= made /\ made' = made + 1 /\ made \in Nat
  BY ImageAssumption DEF UpdateInv, UpdateTypeOK, LastInv, made, Packet, Messages
<1>2. /\ out' \in Messages /\ Packet(out)' /\ Packet(sendOtaLastBuf)'
      /\ out'.index = otaIndex /\ out'.piece = piece
  BY <1>1, MessageTypes DEF Packet
<1>3. UpdateTypeOK'
  BY <1>2 DEF UpdateInv, UpdateTypeOK, mcuVars, flagVars
<1>4. LastInv'
  BY <1>1, <1>2 DEF LastInv
<1>5. AckInv'
  BY <1>2 DEF UpdateInv, UpdateTypeOK, LastInv, AckInv, mcuVars, Packet, Messages, Sayings
<1>6. PhaseInv'
  BY <1>1, <1>2 DEF UpdateInv, PhaseInv, mcuVars
<1> QED
  BY <1>3, <1>4, <1>5, <1>6 DEF UpdateInv

LEMMA StepPrepare == UpdateInv /\ Prepare => UpdateInv'
<1> SUFFICES ASSUME UpdateInv, Prepare PROVE UpdateInv'
  OBVIOUS
<1> USE DEF Prepares, Sends, Continues, otaVars, flagVars, sendVars
<1>1. CASE startMcuOta
  <2>1. ~Packet(out') /\ needParseAckFlag' \in {0, 1} /\ otaReSendCount' \in 0..3
    BY <1>1, MessageTypes DEF startMcuOta, Packet, UpdateInv, UpdateTypeOK
  <2> QED
    BY <1>1, <2>1, PreparesNoPacket DEF startMcuOta
<1>2. CASE Resend
  <2>1. otaReSendCount' \in 0..3 /\ updating' \in BOOLEAN
    BY <1>2 DEF Resend, UpdateInv, UpdateTypeOK
  <2> QED
    BY <1>2, <2>1, PreparesNoPacket DEF Resend
<1>3. CASE GiveUp
  <2>1. otaReSendCount' \in 0..3
    BY <1>3 DEF GiveUp
  <2> QED
    BY <1>3, <2>1, PreparesNoPacket DEF GiveUp
<1>4. CASE SendFileSize
  <2>1. made = 0 /\ 0 \in 0..N
    BY <1>4, ImageAssumption DEF SendFileSize, UpdateInv, LastInv, made
  <2>2. piecesRead = 0
    BY <1>4 DEF SendFileSize, UpdateInv, LastInv
  <2> QED
    BY <1>4, <2>1, <2>2, PreparesPacket DEF SendFileSize, Makes
<1>5. CASE SendPiece
  <2>1. made = piecesRead + 1 /\ piecesRead + 1 \in 0..N
    BY <1>5, ImageAssumption DEF SendPiece, UpdateInv, UpdateTypeOK, made
  <2> QED
    BY <1>5, <2>1, PreparesPacket DEF SendPiece, Makes
<1>6. CASE SendEnd \/ SendQuery
  <2>1. out' = EmptyMsg /\ ~Packet(out') /\ otaReSendCount' \in 0..3 /\ updating' \in BOOLEAN
        /\ sendOtaLastBuf' = sendOtaLastBuf
    BY <1>6, MessageTypes
       DEF SendEnd, SendQuery, Makes, EmptyMsg, Packet, UpdateInv, UpdateTypeOK
  <2> QED
    BY <1>6, <2>1, PreparesNoPacket DEF SendEnd, SendQuery, Makes
<1>7. CASE NoFile
  <2>1. needParseAckFlag' \in {0, 1} /\ otaReSendCount' \in 0..3 /\ updating' \in BOOLEAN
    BY <1>7 DEF NoFile, UpdateInv, UpdateTypeOK
  <2> QED
    BY <1>7, <2>1, PreparesNoPacket DEF NoFile
<1> QED
  BY <1>1, <1>2, <1>3, <1>4, <1>5, <1>6, <1>7 DEF Prepare, sendMcuOtaMsg

\* What the boot loader does with a message keeps what it has in order, and its
\* answer is about a packet it has.
LEMMA McuKeeps ==
  ASSUME UpdateInv, NEW arrives \in BOOLEAN, NEW heard, Mcu(arrives, heard)
  PROVE  /\ boot' \in BOOLEAN /\ resets' \in BOOLEAN /\ (boot => boot')
         /\ stored' \in Seq(0..N) /\ pending' \in Sayings
         /\ heard \in Sayings
         /\ boot => ((otaIndex <= Len(stored') /\ Len(stored) <= Len(stored'))
                     \/ (Packet(out) /\ out.index = 0 /\ Len(stored') = 1))
         /\ pending'.type = "ack" =>
              /\ boot /\ Packet(sendOtaLastBuf)
              /\ pending'.index <= sendOtaLastBuf.index /\ pending'.index < Len(stored')
         /\ ~skipped => \A i \in 1..Len(stored') : stored'[i] = i - 1
<1> USE DEF Packet
<1>1. /\ out \in Messages /\ out.index \in Nat /\ out.index \in 0..(N + 1) /\ out.piece \in 0..N
      /\ stored \in Seq(0..N) /\ Len(stored) \in Nat /\ pending \in Sayings
      /\ sendOtaLastBuf.index \in Nat /\ otaIndex \in Nat
  BY ImageAssumption DEF UpdateInv, UpdateTypeOK, Messages
<1>2. heard \in Sayings
  BY <1>1, MessageTypes DEF Mcu
<1>3. CASE ~boot
  <2>1. stored' = stored /\ boot' \in BOOLEAN /\ resets' \in BOOLEAN
    BY <1>3 DEF Mcu, AppTakes
  <2>2. pending' = Nothing \/ pending' = Says("other", 0)
    BY <1>3 DEF Mcu, Answering
  <2>3. pending' \in Sayings /\ pending'.type # "ack"
    BY <2>2, ImageAssumption DEF Sayings, Says, Nothing
  <2> QED
    BY <1>1, <1>2, <1>3, <2>1, <2>3 DEF UpdateInv, PhaseInv
<1>4. CASE boot
  <2>1. boot' = boot /\ resets' \in BOOLEAN
    BY <1>4 DEF Mcu, BootTakes, UpdateInv, UpdateTypeOK
  <2>2. stored' = stored \/ (arrives /\ stored' = StoredWith(out))
    BY <1>4 DEF Mcu, BootTakes
  <2>3. \/ stored' = stored
        \/ Packet(out) /\ out.index = 0 /\ stored' = <<out.piece>>
        \/ Packet(out) /\ out.index = Len(stored) /\ stored' = Append(stored, out.piece)
    BY <2>2 DEF StoredWith
  <2>4. /\ stored' \in Seq(0..N)
        /\ Len(stored) <= Len(stored') \/ (Packet(out) /\ out.index = 0 /\ Len(stored') = 1)
    <3>1. CASE stored' = stored
      <4>1. Len(stored') = Len(stored) /\ stored' \in Seq(0..N)
        BY <1>1, <3>1
      <4>2. Len(stored) <= Len(stored')
        BY <1>1, <4>1
      <4> QED
        BY <4>1, <4>2
    <3>2. CASE Packet(out) /\ out.index = 0 /\ stored' = <<out.piece>>
      <4>1. <<out.piece>> \in Seq(0..N) /\ Len(<<out.piece>>) = 1
        BY <1>1
      <4> QED
        BY <3>2, <4>1
    <3>3. CASE Packet(out) /\ out.index = Len(stored) /\ stored' = Append(stored, out.piece)
      <4>1. Append(stored, out.piece) \in Seq(0..N)
            /\ Len(Append(stored, out.piece)) = Len(stored) + 1
        BY <1>1
      <4>2. Len(stored) <= Len(stored) + 1
        BY <1>1
      <4> QED
        BY <3>3, <4>1, <4>2
    <3> QED
      BY <2>3, <3>1, <3>2, <3>3
  <2>5. ~skipped => \A i \in 1..Len(stored') : stored'[i] = i - 1
    <3> SUFFICES ASSUME ~skipped, NEW i \in 1..Len(stored') PROVE stored'[i] = i - 1
      OBVIOUS
    <3>1. Packet(out) => out.piece = out.index
      BY DEF UpdateInv, LastInv, PhaseInv
    <3>2. \A j \in 1..Len(stored) : stored[j] = j - 1
      BY DEF UpdateInv, PhaseInv
    <3>3. CASE stored' = stored
      BY <3>2, <3>3
    <3>4. CASE Packet(out) /\ out.index = 0 /\ stored' = <<out.piece>>
      BY <1>1, <3>1, <3>4
    <3>5. CASE Packet(out) /\ out.index = Len(stored) /\ stored' = Append(stored, out.piece)
      <4>1. Len(stored') = Len(stored) + 1
        BY <1>1, <3>5
      <4>2. CASE i = Len(stored) + 1
        BY <1>1, <3>1, <3>5, <4>2
      <4>3. CASE i \in 1..Len(stored)
        BY <1>1, <3>2, <3>5, <4>3
      <4> QED
        BY <1>1, <4>1, <4>2, <4>3
    <3> QED
      BY <2>3, <3>3, <3>4, <3>5
  <2>6. pending' = pending \/ pending' = Nothing \/ (arrives /\ pending' = Reply(out))
    BY <1>4, <2>1 DEF Mcu, Answering
  <2>7. Reply(out) \in Sayings
    BY <1>1, ImageAssumption DEF Reply, Says, Sayings, Nothing
  <2>8. pending' \in Sayings
    BY <1>1, <2>6, <2>7, MessageTypes
  <2>9. ASSUME pending'.type = "ack"
        PROVE  /\ Packet(sendOtaLastBuf)
               /\ pending'.index <= sendOtaLastBuf.index /\ pending'.index < Len(stored')
    <3>1. CASE pending' = pending
      <4>1. /\ Packet(sendOtaLastBuf) /\ pending.index <= sendOtaLastBuf.index
            /\ pending.index < Len(stored)
        BY <2>9, <3>1 DEF UpdateInv, AckInv
      <4>2. pending.index \in Nat
        BY <1>1 DEF Sayings
      <4>3. Packet(out) /\ out.index = 0 => pending.index = 0
        BY <4>1, <4>2 DEF UpdateInv, LastInv
      <4>4. Len(stored') \in Nat
        BY <2>4
      <4>5. pending.index < Len(stored')
        <5>1. CASE Len(stored) <= Len(stored')
          BY <1>1, <4>1, <4>2, <4>4, <5>1
        <5>2. CASE Packet(out) /\ out.index = 0 /\ Len(stored') = 1
          BY <4>3, <5>2
        <5> QED
          BY <2>4, <5>1, <5>2
      <4> QED
        BY <3>1, <4>1, <4>5
    <3>2. CASE pending' = Reply(out) /\ arrives
      <4>1. Confirms(out) /\ pending'.index = out.index /\ Packet(out)
        BY <2>9, <3>2 DEF Reply, Says, Nothing, Confirms
      <4>2. sendOtaLastBuf = out
        BY <4>1 DEF UpdateInv, LastInv
      <4>3. stored' = StoredWith(out)
        BY <1>4, <3>2 DEF Mcu, BootTakes
      <4>4. out.index < Len(stored')
        <5>1. CASE out.index = 0
          BY <4>1, <4>3, <5>1 DEF StoredWith
        <5>2. CASE out.index # 0 /\ out.index = Len(stored)
          <6>1. stored' = Append(stored, out.piece)
            BY <4>1, <4>3, <5>2 DEF StoredWith
          <6> QED
            BY <1>1, <5>2, <6>1
        <5>3. CASE out.index # 0 /\ out.index + 1 = Len(stored)
          <6>1. stored' = stored
            BY <1>1, <4>3, <5>3 DEF StoredWith
          <6> QED
            BY <1>1, <5>3, <6>1
        <5> QED
          BY <4>1, <5>1, <5>2, <5>3 DEF Confirms
      <4> QED
        BY <1>1, <4>1, <4>2, <4>4
    <3>3. CASE pending' = Nothing
      BY <2>9, <3>3, MessageTypes
    <3> QED
      BY <2>6, <3>1, <3>2, <3>3
  <2>10. otaIndex <= Len(stored)
    BY <1>4 DEF UpdateInv, AckInv
  <2>11. (otaIndex <= Len(stored') /\ Len(stored) <= Len(stored'))
         \/ (Packet(out) /\ out.index = 0 /\ Len(stored') = 1)
    BY <1>1, <2>4, <2>10
  <2> QED
    BY <1>2, <1>4, <2>1, <2>4, <2>5, <2>8, <2>9, <2>11
<1> QED
  BY <1>3, <1>4 DEF UpdateInv, UpdateTypeOK

\* A transfer of an update.
LEMMA StepTransfer ==
  ASSUME UpdateInv, NEW arrives \in BOOLEAN, NEW heard \in {pending, Nothing},
         Transfer(arrives, heard)
  PROVE  UpdateInv'
<1> USE DEF Packet
<1>1. /\ boot' \in BOOLEAN /\ resets' \in BOOLEAN /\ (boot => boot')
      /\ stored' \in Seq(0..N) /\ pending' \in Sayings /\ heard \in Sayings
      /\ boot => ((otaIndex <= Len(stored') /\ Len(stored) <= Len(stored'))
                  \/ (Packet(out) /\ out.index = 0 /\ Len(stored') = 1))
      /\ pending'.type = "ack" =>
           /\ boot /\ Packet(sendOtaLastBuf)
           /\ pending'.index <= sendOtaLastBuf.index /\ pending'.index < Len(stored')
      /\ ~skipped => \A i \in 1..Len(stored') : stored'[i] = i - 1
  BY McuKeeps DEF Transfer
<1>2. /\ pcUpdate = "ota" /\ pcUpdate' = "top"
      /\ UNCHANGED <<asked, out, sendOtaLastBuf, fileSizeSendFlag, piecesRead>>
  BY DEF Transfer, sendVars
<1>3. /\ sendOtaLastBuf.index \in Nat /\ otaIndex \in Nat /\ made \in Nat /\ made <= N + 1
      /\ made' = made /\ Len(stored) \in Nat /\ Len(stored') \in Nat /\ out.index \in Nat
      /\ otaIndex <= made
  BY <1>1, <1>2, ImageAssumption DEF UpdateInv, UpdateTypeOK, Messages, made, LastInv
<1>0. Packet(out) /\ out.index = 0 => otaIndex <= 1 /\ otaIndex \in Nat
  BY <1>3 DEF UpdateInv, LastInv
\* A confirmed packet is the last one that was made, and it is stored.
<1>4. ASSUME Acked(heard)
      PROVE  /\ boot /\ Packet(sendOtaLastBuf) /\ sendOtaLastBuf.index = otaIndex
             /\ otaIndex < made /\ otaIndex < Len(stored)
  <2>1. heard = pending /\ heard.type = "ack" /\ heard.index = otaIndex
    BY <1>4, MessageTypes DEF Acked, Says
  <2> QED
    BY <1>3, <2>1 DEF UpdateInv, AckInv, LastInv
<1>5. CASE needParseAckFlag = 1
  <2>1. Parsed(heard)
    BY <1>5 DEF Transfer
  <2>2. \/ Acked(heard) /\ otaIndex' = otaIndex + 1
        \/ ~Acked(heard) /\ otaIndex' = otaIndex
    BY <2>1 DEF Parsed
  <2>3. /\ otaIndex' \in 0..(N + 1) /\ otaReSendCount' \in 0..3 /\ otaAckState' \in {0, 1}
        /\ needMakeMsgFlag' \in {0, 1} /\ needParseAckFlag' \in {0, 1}
        /\ updating' \in BOOLEAN /\ skipped' \in BOOLEAN /\ disturbed' \in BOOLEAN
    <3>1. otaIndex' \in 0..(N + 1)
      BY <1>3, <1>4, <2>2, ImageAssumption
    <3> QED
      BY <2>1, <3>1 DEF Parsed, UpdateInv, UpdateTypeOK
  <2>4. UpdateTypeOK'
    BY <1>1, <1>2, <2>3 DEF UpdateInv, UpdateTypeOK
  <2>5. LastInv'
    BY <1>2, <1>3, <1>4, <2>2 DEF UpdateInv, LastInv
  <2>6. AckInv'
    <3>1. boot' => otaIndex' <= Len(stored')
      <4>1. CASE boot /\ Len(stored) <= Len(stored') /\ otaIndex <= Len(stored')
        BY <1>3, <1>4, <2>2, <4>1
      <4>3. CASE Packet(out) /\ out.index = 0 /\ Len(stored') = 1
        <5>1. Acked(heard) => otaIndex = 0
          BY <1>4, <4>3 DEF UpdateInv, LastInv
        <5> QED
          BY <1>0, <1>3, <2>2, <4>3, <5>1
      <4>2. CASE ~boot
        BY <1>3, <1>4, <2>2, <4>2 DEF UpdateInv, AckInv
      <4> QED
        BY <1>1, <4>1, <4>2, <4>3
    <3>2. ~boot' => otaIndex' = 0
      BY <1>1, <1>4, <2>2 DEF UpdateInv, AckInv
    <3> QED
      BY <1>1, <1>2, <3>1, <3>2 DEF AckInv
  <2>7. PhaseInv'
    <3> SUFFICES ASSUME ~skipped' PROVE PhaseInv'
      BY DEF PhaseInv
    <3>1. ~skipped /\ ~(heard.type = "other" /\ needMakeMsgFlag = 0)
      BY <2>1 DEF Parsed
    <3>2. needMakeMsgFlag = 1 => made = otaIndex
      BY <1>5, <3>1 DEF UpdateInv, PhaseInv
    <3>3. made = otaIndex \/ made = otaIndex + 1
      BY <3>1, <3>2 DEF UpdateInv, UpdateTypeOK, PhaseInv
    <3>4. CASE Acked(heard)
      <4>1. made = otaIndex'
        BY <1>3, <1>4, <2>2, <3>3, <3>4
      <4> QED
        BY <1>1, <1>2, <1>3, <3>1, <4>1 DEF UpdateInv, PhaseInv
    <3>5. CASE ~Acked(heard)
      <4>1. otaIndex' = otaIndex
        BY <2>2, <3>5
      <4>2. needMakeMsgFlag' = 1 => needMakeMsgFlag = 1
        BY <2>1, <3>1, <3>5 DEF Parsed, parseOtaMsg, UpdateInv, UpdateTypeOK
      <4> QED
        BY <1>1, <1>2, <1>3, <3>1, <3>2, <3>3, <4>1, <4>2 DEF UpdateInv, PhaseInv
    <3> QED
      BY <3>4, <3>5
  <2> QED
    BY <2>4, <2>5, <2>6, <2>7 DEF UpdateInv
<1>6. CASE needParseAckFlag # 1
  <2>1. /\ needMakeMsgFlag' = 0 /\ otaAckState' = 0 /\ disturbed' = FALSE
        /\ UNCHANGED <<updating, otaIndex, otaReSendCount, needParseAckFlag, skipped>>
    BY <1>6 DEF Transfer, Unparsed
  <2>2. UpdateTypeOK'
    BY <1>1, <1>2, <2>1 DEF UpdateInv, UpdateTypeOK
  <2>3. LastInv'
    BY <1>2, <1>3, <2>1 DEF UpdateInv, LastInv
  <2>4. AckInv'
    <3>1. boot' => otaIndex <= Len(stored')
      <4>1. CASE boot
        BY <1>0, <1>1, <1>3, <4>1
      <4>2. CASE ~boot
        BY <1>3, <4>2 DEF UpdateInv, AckInv
      <4> QED
        BY <4>1, <4>2
    <3> QED
      BY <1>1, <1>2, <2>1, <3>1 DEF UpdateInv, AckInv
  <2>5. PhaseInv'
    <3>1. ~skipped => made = otaIndex \/ made = otaIndex + 1
      BY DEF UpdateInv, UpdateTypeOK, PhaseInv
    <3> QED
      BY <1>1, <1>2, <1>3, <2>1, <3>1 DEF UpdateInv, PhaseInv
  <2> QED
    BY <2>2, <2>3, <2>4, <2>5 DEF UpdateInv
<1> QED
  BY <1>5, <1>6

LEMMA StepLast ==
  ASSUME UpdateInv, NEW arrives \in BOOLEAN, NEW heard \in {pending, Nothing},
         LastTransfer(arrives, heard)
  PROVE  UpdateInv'
<1>1. /\ boot' \in BOOLEAN /\ resets' \in BOOLEAN /\ (boot => boot')
      /\ stored' \in Seq(0..N) /\ pending' \in Sayings
      /\ boot => ((otaIndex <= Len(stored') /\ Len(stored) <= Len(stored'))
                  \/ (Packet(out) /\ out.index = 0 /\ Len(stored') = 1))
      /\ pending'.type = "ack" =>
           /\ boot /\ Packet(sendOtaLastBuf)
           /\ pending'.index <= sendOtaLastBuf.index /\ pending'.index < Len(stored')
      /\ ~skipped => \A i \in 1..Len(stored') : stored'[i] = i - 1
  BY McuKeeps DEF LastTransfer
<1>2. /\ pcUpdate = "last" /\ pcUpdate' = "top" /\ disturbed' = FALSE
      /\ UNCHANGED <<updating, asked, out, sendOtaLastBuf, fileSizeSendFlag, piecesRead,
                     otaIndex, otaReSendCount, otaAckState, needMakeMsgFlag, needParseAckFlag,
                     skipped>>
  BY DEF LastTransfer, sendVars, otaVars, flagVars
<1>3. Packet(out) /\ out.index = 0 => otaIndex <= 1
  BY DEF UpdateInv, LastInv, Packet
<1>4. UpdateTypeOK'
  BY <1>1, <1>2 DEF UpdateInv, UpdateTypeOK
<1>5. LastInv'
  BY <1>2 DEF UpdateInv, LastInv, Packet, made
<1>6. AckInv'
  <2>1. boot' => otaIndex <= Len(stored')
    <3>1. CASE boot
      BY <1>1, <1>3, <3>1
    <3>2. CASE ~boot
      BY <1>1, <3>2 DEF UpdateInv, AckInv
    <3> QED
      BY <3>1, <3>2
  <2> QED
    BY <1>1, <1>2, <2>1 DEF UpdateInv, AckInv, Packet
<1>7. PhaseInv'
  BY <1>1, <1>2 DEF UpdateInv, PhaseInv, Packet, made
<1> QED
  BY <1>4, <1>5, <1>6, <1>7 DEF UpdateInv

LEMMA UpdateStep == UpdateInv /\ [UpdateNext]_updateVars => UpdateInv'
<1> SUFFICES ASSUME UpdateInv, [UpdateNext]_updateVars PROVE UpdateInv'
  OBVIOUS
<1>1. CASE Prepare
  BY <1>1, StepPrepare
<1>2. ASSUME NEW arrives \in BOOLEAN, NEW heard \in {pending, Nothing},
             Transfer(arrives, heard) \/ LastTransfer(arrives, heard)
      PROVE  UpdateInv'
  BY <1>2, StepTransfer, StepLast
<1>3. CASE TransferFails
  <2>1. /\ pcUpdate' = "top" /\ disturbed' = TRUE
        /\ skipped' = (skipped \/ (out.type = "packet" /\ needMakeMsgFlag = 1 /\ otaAckState = 0))
        /\ UNCHANGED <<updating, asked, out, sendOtaLastBuf, fileSizeSendFlag, piecesRead,
                       otaIndex, otaReSendCount, otaAckState, needMakeMsgFlag, needParseAckFlag,
                       boot, resets, stored, pending>>
    BY <1>3 DEF TransferFails, flagVars, sendVars, otaVars, mcuVars
  <2>2. UpdateTypeOK'
    BY <2>1 DEF UpdateInv, UpdateTypeOK
  <2>3. LastInv' /\ AckInv'
    BY <2>1 DEF UpdateInv, LastInv, AckInv, Packet, made
  <2>4. PhaseInv'
    BY <2>1 DEF UpdateInv, PhaseInv, Packet, made
  <2> QED
    BY <2>2, <2>3, <2>4 DEF UpdateInv
<1>4. CASE Ordinary \/ Ask \/ UNCHANGED updateVars
  <2>1. /\ asked' \in BOOLEAN /\ disturbed' \in BOOLEAN
        /\ pcUpdate' = pcUpdate
        /\ UNCHANGED <<updating, out, sendOtaLastBuf, fileSizeSendFlag, piecesRead,
                       otaIndex, otaReSendCount, otaAckState, needMakeMsgFlag, needParseAckFlag,
                       boot, resets, stored, pending, skipped>>
    BY <1>4 DEF Ordinary, Ask, updateVars, flagVars, sendVars, otaVars, mcuVars,
                UpdateInv, UpdateTypeOK
  <2>2. UpdateTypeOK'
    BY <2>1 DEF UpdateInv, UpdateTypeOK
  <2>3. LastInv' /\ AckInv' /\ PhaseInv'
    BY <2>1 DEF UpdateInv, LastInv, AckInv, PhaseInv, Packet, made
  <2> QED
    BY <2>2, <2>3 DEF UpdateInv
<1>5. CASE Restart
  <2>1. /\ otaIndex' \in 0..(N + 1) /\ piecesRead' \in 0..N /\ stored' \in Seq(0..N)
        /\ out' \in Messages /\ sendOtaLastBuf' \in Messages /\ pending' \in Sayings
    BY <1>5, MessageTypes, ImageAssumption DEF Restart
  <2>2. /\ otaReSendCount' \in 0..3 /\ otaAckState' \in {0, 1}
        /\ needMakeMsgFlag' \in {0, 1} /\ needParseAckFlag' \in {0, 1} /\ fileSizeSendFlag' \in {0, 1}
    BY <1>5 DEF Restart
  <2>3. /\ updating' \in BOOLEAN /\ asked' \in BOOLEAN /\ pcUpdate' \in {"top", "ota", "last"}
        /\ boot' \in BOOLEAN /\ resets' \in BOOLEAN /\ skipped' \in BOOLEAN
        /\ disturbed' \in BOOLEAN
    BY <1>5 DEF Restart, UpdateInv, UpdateTypeOK
  <2>4. UpdateTypeOK'
    BY <2>1, <2>2, <2>3 DEF UpdateTypeOK
  <2>5. ~Packet(out') /\ ~Packet(sendOtaLastBuf') /\ made' = 0 /\ pending'.type # "ack"
        /\ otaIndex' = 0 /\ fileSizeSendFlag' = 0 /\ piecesRead' = 0 /\ stored' = <<>>
    BY <1>5, MessageTypes DEF Restart, Packet, made
  <2>6. LastInv' /\ AckInv' /\ PhaseInv'
    BY <1>5, <2>5 DEF Restart, LastInv, AckInv, PhaseInv
  <2> QED
    BY <2>4, <2>6 DEF UpdateInv
<1> QED
  BY <1>1, <1>2, <1>3, <1>4, <1>5 DEF UpdateNext

\* The types, that the pieces go out and are stored in their order, and that
\* what counts as confirmed is with the MCU, for an image of any size.
THEOREM UpdateSafe == UpdateSpec => [](UpdateTypeOK /\ InStep /\ ConfirmedStored)
<1>1. UpdateInv => UpdateTypeOK /\ InStep /\ ConfirmedStored
  BY DEF UpdateInv, LastInv, AckInv, PhaseInv, Packet, InStep, ConfirmedStored
<1> QED
  BY <1>1, UpdateInitially, UpdateStep, PTL DEF UpdateSpec

-----------------------------------------------------------------------------
(* The two together.                                                       *)

\* What the thread does is a step of the link or leaves it alone, and a step of
\* the update or leaves it alone.
LEMMA StepOfLink == [Next]_vars => [LinkNext]_linkVars
<1> SUFFICES ASSUME [Next]_vars PROVE LinkNext \/ UNCHANGED linkVars
  OBVIOUS
<1>1. CASE UNCHANGED vars
  BY <1>1 DEF vars
<1>2. CASE Put
  BY <1>2 DEF Put, LinkNext
<1>3. CASE Converse
  BY <1>3 DEF Converse, Exchanges, LinkNext
<1>4. CASE Compose
  <2>1. ASSUME NEW content \in {"empty", "update"}, Overwrite(content) PROVE LinkNext
    BY <2>1 DEF LinkNext
  <2> QED
    BY <1>4, <2>1 DEF Compose
<1>5. CASE Deliver
  BY <1>5 DEF Deliver, LinkNext
<1>6. CASE DeliverLast
  <2>1. "other" \in AnswersTo(FALSE)
    BY DEF AnswersTo
  <2> QED
    BY <1>6, <2>1 DEF DeliverLast, LinkNext
<1>7. CASE FailToDeliver
  BY <1>7 DEF FailToDeliver
<1>8. CASE Request
  BY <1>8 DEF Request
<1>9. CASE PowerOn
  BY <1>9 DEF PowerOn, LinkNext
<1> QED
  BY <1>1, <1>2, <1>3, <1>4, <1>5, <1>6, <1>7, <1>8, <1>9 DEF Next, transferThread_V1_2

LEMMA StepOfUpdate == [Next]_vars => [UpdateNext]_updateVars
<1> SUFFICES ASSUME [Next]_vars PROVE UpdateNext \/ UNCHANGED updateVars
  OBVIOUS
<1>1. CASE UNCHANGED vars
  BY <1>1 DEF vars
<1>2. CASE Put
  BY <1>2 DEF Put
<1>3. CASE Converse
  BY <1>3 DEF Converse, UpdateNext
<1>4. CASE Compose
  BY <1>4 DEF Compose, UpdateNext, Prepare, sendMcuOtaMsg
<1>5. CASE Deliver
  BY <1>5 DEF Deliver, UpdateNext
<1>6. CASE DeliverLast
  BY <1>6 DEF DeliverLast, UpdateNext
<1>7. CASE FailToDeliver
  BY <1>7 DEF FailToDeliver, UpdateNext
<1>8. CASE Request
  BY <1>8 DEF Request, UpdateNext
<1>9. CASE PowerOn
  BY <1>9 DEF PowerOn, UpdateNext
<1> QED
  BY <1>1, <1>2, <1>3, <1>4, <1>5, <1>6, <1>7, <1>8, <1>9 DEF Next, transferThread_V1_2

\* The transfer thread implements the exchange of messages and the update, each
\* as if the other were not there.
THEOREM Composition == Spec => LinkSpec /\ UpdateSpec
BY StepOfLink, StepOfUpdate, PTL DEF Spec, Init, LinkSpec, UpdateSpec

\* The properties of the two hold of the transfer thread.
THEOREM TransferSafe ==
  Spec => [](TypeOK /\ AckedStored /\ OvertakenFew /\ InStep /\ ConfirmedStored)
BY Composition, LinkSafe, UpdateSafe, PTL DEF TypeOK

\* transferThread_V1_2 keeps its types while it goes from messages to an update and
\* back: the ring never holds more than RingSize packets, and no piece has a number
\* that the image has not.
COROLLARY TransferTypes == Spec => []TypeOK
BY TransferSafe, PTL

\* The buffers of transferThread_V1_2 take turns: a packet that has to be sent again
\* is overtaken no more often than it has attempts, also when an update writes over
\* one of the buffers.
COROLLARY PacketsOvertaken == Spec => []OvertakenFew
BY TransferSafe, PTL

=============================================================================
