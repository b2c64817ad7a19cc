------------------------------ MODULE McuTransfer ------------------------------
(***************************************************************************)
(* The transfer thread of CommConn (transferThread_V1_2): one loop that    *)
(* exchanges ordinary messages (McuLink) and updates the MCU's firmware    *)
(* (McuUpdate) through the same two buffers.  Each step of the loop is a   *)
(* step of one module joined to what it does to the other's state.         *)
(***************************************************************************)
EXTENDS McuLink, McuUpdate

vars == <<linkVars, updateVars>>

TypeOK == LinkTypeOK /\ UpdateTypeOK

Init == LinkInit /\ UpdateInit

-----------------------------------------------------------------------------
(* Other threads put their messages into the ring, during an update too.   *)
Put == pb_add_raw_vary_data /\ UNCHANGED updateVars

\* The boot loader takes no packets.
Exchanges ==
  \E heard \in parseMsg, arrives \in BOOLEAN :
    /\ boot => ~arrives
    /\ \E answer \in AnswersTo(arrives) : Exchange(heard, arrives, answer)

\* An iteration without an update.
Converse == Ordinary /\ Exchanges

\* An iteration of an update: its message is written over psendBuf, unless the
\* image cannot be opened.
Compose ==
  \/ (startMcuOta \/ SendFileSize \/ SendPiece) /\ Overwrite("update")
  \/ (Resend \/ GiveUp) /\ Overwrite(IF out'.type = "empty" THEN "empty" ELSE "update")
  \/ (SendEnd \/ SendQuery) /\ Overwrite("empty")
  \/ NoFile /\ UNCHANGED linkVars

Deliver ==
  \E arrives \in BOOLEAN, heard \in {pending, Nothing} :
    /\ Transfer(arrives, heard)
    /\ Elsewhere

\* After the update was given up, the thread goes on with ordinary messages
\* within the same iteration.
DeliverLast ==
  /\ \E arrives \in BOOLEAN, heard \in {pending, Nothing} : LastTransfer(arrives, heard)
  /\ \E heard \in parseMsg : Exchange(heard, FALSE, "other")

FailToDeliver == TransferFails /\ UNCHANGED linkVars

transferThread_V1_2 == Converse \/ Compose \/ Deliver \/ DeliverLast \/ FailToDeliver

Request == Ask /\ UNCHANGED linkVars
PowerOn == Restart /\ LinkRestart

Next == Put \/ transferThread_V1_2 \/ Request \/ PowerOn

Spec == Init /\ [][Next]_vars

\* The thread never waits.
FairSpec == Spec /\ WF_vars(transferThread_V1_2)

-----------------------------------------------------------------------------
(* Properties.                                                             *)

\* Other threads find room again: a full ring is emptied, whatever the MCU says
\* of the packets, unless transfers go on to fail or an update is wanted.
RingDrains ==
  <>[](~disturbed /\ ~asked) => (ring = RingSize ~> ring < RingSize)
=============================================================================
