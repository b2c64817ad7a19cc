------------------------------- MODULE McuLink -------------------------------
(***************************************************************************)
(* The messages between HAL and MCU over SPI, as CommConn exchanges them:  *)
(* other threads put messages into a ring (pb_add_raw_vary_data); the      *)
(* transfer thread packs the first of them into one of two buffers, sends  *)
(* it and gets a message of the MCU in return.  What the MCU says of a     *)
(* packet comes with the next transfer, when the other buffer is under way:*)
(* the answer that arrives while one buffer is sent is about the other one.*)
(* A packet that was not understood is sent again, three times at most.    *)
(*                                                                         *)
(* The MCU and the line are external.  Of the ring the model keeps how     *)
(* many messages wait; of a packet whether the MCU has it and how many     *)
(* newer ones it got first.                                                *)
(***************************************************************************)
EXTENDS Naturals

CONSTANT RingSize       \* PB_MAX_BUFF_LEN

ASSUME RingAssumption == RingSize \in Nat \ {0}

VARIABLES
  ring,                           \* messages in g_pw_vary_buff
  sendBuf, psendBuf,              \* what the two buffers hold, the one to be sent next
  first2msgflag, spisendcounter,  \* packets to go before answers count; failed attempts
  reply,                          \* what the MCU will say in the next transfer
  has, overtaken, older,          \* history: the MCU has a buffer's packet, newer packets it got
                                  \* before it, the buffer with the older packet
  lostAcked                       \* history: a packet that its own answer confirmed was not there

bufVars == <<sendBuf, psendBuf, first2msgflag, spisendcounter>>
histVars == <<has, overtaken, older, lostAcked>>
linkVars == <<ring, bufVars, reply, histVars>>

Buffers == {0, 1}
Other(b) == 1 - b
Attempts == 3
\* What the MCU says of the message before; "other" is an answer to an update.
Answers == {"empty", "right", "wrong", "other"}

LinkTypeOK ==
  /\ ring \in 0..RingSize
  /\ sendBuf \in [Buffers -> {"empty", "packet", "update"}] /\ psendBuf \in Buffers
  /\ first2msgflag \in 0..2 /\ spisendcounter \in [Buffers -> 0..Attempts]
  /\ reply \in Answers
  /\ has \in [Buffers -> BOOLEAN] /\ overtaken \in [Buffers -> Nat] /\ older \in Buffers
  /\ lostAcked \in BOOLEAN

LinkInit ==
  /\ ring = 0
  /\ sendBuf = [b \in Buffers |-> "empty"] /\ psendBuf = 0
  /\ first2msgflag = 2 /\ spisendcounter = [b \in Buffers |-> 0]
  /\ reply = "empty"
  /\ has = [b \in Buffers |-> FALSE] /\ overtaken = [b \in Buffers |-> 0] /\ older = 0
  /\ lostAcked = FALSE

-----------------------------------------------------------------------------
(* Other threads.                                                          *)

\* mutant: The message is written whether or not the slot is free.
AddUnchecked ==
  /\ ring' = ring + 1
  /\ UNCHANGED <<bufVars, reply, histVars>>

\* A message that finds the ring full is dropped.
pb_add_raw_vary_data ==
  /\ ring < RingSize
  /\ ring' = ring + 1
  /\ UNCHANGED <<bufVars, reply, histVars>>

-----------------------------------------------------------------------------
(* The transfer thread, outside an update.                                 *)

\* mutant: The byte that says how the last message was received is not looked at.
IgnoresResponse ==
  {"empty", "damaged"} \cup (IF reply = "empty" THEN {} ELSE {"right"})

\* What a reply may be taken for: a damaged first byte makes it an empty message.
parseMsg ==
  {"empty", "damaged"} \cup (IF reply = "other" THEN {"right", "wrong"} ELSE {reply})

\* The answer counts for the buffer that is not being sent.
Failed(heard) ==
  heard = "wrong" \/ (heard = "damaged" /\ sendBuf[Other(psendBuf)] # "empty")
\* mutant: One attempt more.
CountedOnceMore(heard) ==
  IF Failed(heard) /\ spisendcounter[Other(psendBuf)] <= Attempts
  THEN spisendcounter[Other(psendBuf)] + 1
  ELSE 0
\* mutant: The counter stays at its limit.
CountedForEver(heard) ==
  IF ~Failed(heard) THEN 0
  ELSE IF spisendcounter[Other(psendBuf)] < Attempts
       THEN spisendcounter[Other(psendBuf)] + 1 ELSE Attempts
Counted(heard) ==
  IF Failed(heard) /\ spisendcounter[Other(psendBuf)] < Attempts
  THEN spisendcounter[Other(psendBuf)] + 1
  ELSE 0
\* The counter decides only after the first two packets.
Resends(heard) == first2msgflag = 0 /\ Counted(heard) # 0
\* How many messages go into a packet depends on their lengths and types: one
\* or more from the front of the ring, which another thread may be filling.
Pack(b) ==
  IF ring = 0
  THEN sendBuf' = [sendBuf EXCEPT ![b] = "empty"] /\ UNCHANGED ring
  ELSE sendBuf' = [sendBuf EXCEPT ![b] = "packet"] /\ ring' \in 0..(ring - 1)

\* The MCU gets the packet it is sent, and with it one that is newer than the
\* other, which it does not have yet.
Stores(arrives) == arrives /\ sendBuf[psendBuf] = "packet" /\ ~has[psendBuf]
Overtakes(arrives) ==
  LET b == Other(psendBuf)
  IN  Stores(arrives) /\ older = b /\ sendBuf[b] = "packet" /\ ~has[b]

\* The other buffer is sent next, as it is ...
SendAgain(arrives) ==
  LET b == Other(psendBuf) IN
  /\ has' = [has EXCEPT ![psendBuf] = @ \/ Stores(arrives)]
  /\ overtaken' = [overtaken EXCEPT ![b] = IF Overtakes(arrives) THEN @ + 1 ELSE @]
  /\ UNCHANGED <<ring, sendBuf, older, lostAcked>>

\* ... or with the next packet.
SendNext(heard, arrives) ==
  LET b == Other(psendBuf) IN
  /\ lostAcked' = (lostAcked \/ (/\ sendBuf[b] = "packet" /\ ~has[b]
                                /\ heard = "right" /\ reply # "other"))
  /\ Pack(b)
  /\ has' = [has EXCEPT ![psendBuf] = @ \/ Stores(arrives), ![b] = FALSE]
  /\ overtaken' = [overtaken EXCEPT ![b] = 0]
  /\ older' = psendBuf

getQueueVaryMsg(heard, arrives) ==
  /\ psendBuf' = Other(psendBuf)
  /\ first2msgflag' = IF first2msgflag > 0 THEN first2msgflag - 1 ELSE 0
  /\ spisendcounter' = [spisendcounter EXCEPT ![Other(psendBuf)] = Counted(heard)]
  /\ IF Resends(heard) THEN SendAgain(arrives) ELSE SendNext(heard, arrives)

\* transferData_V1_2 and what follows.  What arrives, whole or not, is answered
\* in the next transfer.
Exchange(heard, arrives, answer) ==
  /\ reply' = answer
  /\ getQueueVaryMsg(heard, arrives)

\* An update writes its messages into the buffer that is to be sent next, ...
Overwrite(content) ==
  /\ sendBuf' = [sendBuf EXCEPT ![psendBuf] = content]
  /\ has' = [has EXCEPT ![psendBuf] = FALSE] /\ overtaken' = [overtaken EXCEPT ![psendBuf] = 0]
  /\ UNCHANGED <<ring, psendBuf, first2msgflag, spisendcounter, reply, older, lostAcked>>

\* ... and reads other answers.
Elsewhere ==
  /\ reply' = "other"
  /\ UNCHANGED <<ring, bufVars, histVars>>

\* The process starts again, with an empty ring and empty buffers.
LinkRestart ==
  /\ ring' = 0
  /\ sendBuf' = [b \in Buffers |-> "empty"] /\ psendBuf' = 0
  /\ first2msgflag' = 2 /\ spisendcounter' = [b \in Buffers |-> 0]
  /\ reply' = "empty"
  /\ has' = [b \in Buffers |-> FALSE] /\ overtaken' = [b \in Buffers |-> 0] /\ older' = 0
  /\ lostAcked' = FALSE

\* The MCU says of a packet whether it arrived, or nothing; its boot loader,
\* which takes none, says other things.
AnswersTo(arrives) == {"empty"} \cup IF arrives THEN {"right"} ELSE {"wrong", "other"}

LinkNext ==
  \/ pb_add_raw_vary_data
  \/ \E heard \in parseMsg, arrives \in BOOLEAN :
       \E answer \in AnswersTo(arrives) : Exchange(heard, arrives, answer)
  \/ \E content \in {"empty", "update"} : Overwrite(content)
  \/ Elsewhere \/ LinkRestart

LinkSpec == LinkInit /\ [][LinkNext]_linkVars

-----------------------------------------------------------------------------
(* Properties.                                                             *)

\* "1：上次收到的正确" (CommConn.cpp:5660): a packet that makes room for the next
\* one because of an answer to it that says it was right is a packet the MCU
\* has, although the answer arrives while the other one is being sent.
AckedStored == ~lostAcked

\* A packet that has to be sent again is overtaken by no more packets than it
\* has further attempts: the two buffers take turns (getQueueVaryMsg).
OvertakenFew == \A b \in Buffers : overtaken[b] <= Attempts
=============================================================================
