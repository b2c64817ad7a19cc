--------------------------- MODULE ReportPipeline ---------------------------
(***************************************************************************)
(* The way of a report from the task that creates it to the platform:      *)
(* straight through the live queue when the session is in real time, or    *)
(* through the save queue, the message file and the cache queue when it is *)
(* not, or when the live queue has grown too long.                         *)
(*                                                                         *)
(* Reports are numbered in the order they enter mMsgQueue.  Other messages *)
(* share mSendQueue with them and only delay them.  No lock covers the     *)
(* file: what MessageSaveTask appends after readMessages has read the last *)
(* line and before it has removed the file is lost.                        *)
(***************************************************************************)
EXTENDS Naturals, Sequences, SequencesExt

CONSTANTS
  DumpsWhenDown,   \* the task saves all reports while the session is down: TRUE
                   \* for the platform link, FALSE for the sample link
  Limit,           \* reports the live queue may hold before it is saved (10)
  ReportBound,     \* bound: reports created
  CrashBound       \* bound: restarts of the process

ASSUME PipelineAssumption ==
  /\ DumpsWhenDown \in BOOLEAN
  /\ Limit \in Nat /\ ReportBound \in Nat /\ CrashBound \in Nat

VARIABLES
  mMsgQueue, mSaveQueue, mCacheSendQueue, mSendQueue, mCacheResult,
  file,               \* the lines of the message file
  lines,              \* result in readMessages, before the file is removed
  pcCons, msg,        \* the consumer task: where it is and the report in its hand
  pcSend,             \* SendTask
  saveDataMessage,    \* the report in the hand of MessageSaveTask
  mState, link,       \* the session and the connection
  created, delivered, dropped, crashes,  \* history
  unread              \* history: lines that were removed with the file, unread

consVars == <<pcCons, msg>>
cacheVars == <<mCacheSendQueue, mCacheResult, lines, pcSend>>
saveVars == <<mSaveQueue, saveDataMessage>>
envVars == <<mState, link>>
histVars == <<created, delivered, dropped, crashes, unread>>
vars == <<mMsgQueue, mSendQueue, file, consVars, cacheVars, saveVars, envVars, histVars>>

Reports == 1..ReportBound
None == 0

TypeOK ==
  /\ \A q \in {mMsgQueue, mSaveQueue, mCacheSendQueue, mSendQueue, mCacheResult, file, lines} :
       q \in Seq(Reports)
  /\ pcCons \in {"test", "dump", "save", "send"} /\ msg \in Reports \cup {None}
  /\ pcSend \in {"test", "fill", "remove", "push"}
  /\ saveDataMessage \in Reports \cup {None}
  /\ mState \in {"Realtime", "Logout"} /\ link \in {"down", "up", "lost"}
  /\ created \in 0..ReportBound /\ delivered \subseteq Reports /\ dropped \subseteq Reports
  /\ crashes \in 0..CrashBound /\ unread \subseteq Reports

Init ==
  /\ mMsgQueue = <<>> /\ mSaveQueue = <<>> /\ mCacheSendQueue = <<>> /\ mSendQueue = <<>>
  /\ mCacheResult = <<>> /\ file = <<>> /\ lines = <<>>
  /\ pcCons = "test" /\ msg = None /\ pcSend = "test" /\ saveDataMessage = None
  /\ mState = "Logout" /\ link = "down"
  /\ created = 0 /\ delivered = {} /\ dropped = {} /\ crashes = 0 /\ unread = {}

-----------------------------------------------------------------------------
(* MessageCreateTask puts a report into the live queue.                    *)

MessageCreateTask ==
  /\ created < ReportBound
  /\ created' = created + 1 /\ mMsgQueue' = Append(mMsgQueue, created + 1)
  /\ UNCHANGED <<mSendQueue, file, consVars, cacheVars, saveVars, envVars, delivered,
                 dropped, crashes, unread>>

-----------------------------------------------------------------------------
(* MessageconsumerTask and MessageconsumerTaskSample.                      *)

\* The queue is saved, and emptied.
Saves == (DumpsWhenDown /\ mState # "Realtime") \/ Len(mMsgQueue) > Limit

StartDump ==
  /\ pcCons = "test" /\ Saves /\ mMsgQueue # <<>>
  /\ pcCons' = "dump"
  /\ UNCHANGED <<mMsgQueue, mSendQueue, file, msg, cacheVars, saveVars, envVars, histVars>>

DumpTake ==
  /\ pcCons = "dump" /\ mMsgQueue # <<>>
  /\ msg' = Head(mMsgQueue) /\ mMsgQueue' = Tail(mMsgQueue) /\ pcCons' = "save"
  /\ UNCHANGED <<mSendQueue, file, cacheVars, saveVars, envVars, histVars>>

DumpPut ==
  /\ pcCons = "save"
  /\ mSaveQueue' = Append(mSaveQueue, msg) /\ msg' = None /\ pcCons' = "dump"
  /\ UNCHANGED <<mMsgQueue, mSendQueue, file, saveDataMessage, cacheVars, envVars, histVars>>

DumpEnd ==
  /\ pcCons = "dump" /\ mMsgQueue = <<>>
  /\ pcCons' = "test"
  /\ UNCHANGED <<mMsgQueue, mSendQueue, file, msg, cacheVars, saveVars, envVars, histVars>>

\* Nothing is sent before the last message is gone.
MaySend == pcCons = "test" /\ ~Saves /\ mState = "Realtime" /\ mSendQueue = <<>>

TakeLive ==
  /\ MaySend /\ mMsgQueue # <<>>
  /\ msg' = Head(mMsgQueue) /\ mMsgQueue' = Tail(mMsgQueue) /\ pcCons' = "send"
  /\ UNCHANGED <<mSendQueue, file, cacheVars, saveVars, envVars, histVars>>

\* mutant: a cached report is sent when there is a live one to send
NotIdle == mMsgQueue # <<>>
\* Cached reports are sent in the idle time of the live queue.
IdleTime == mMsgQueue = <<>>

TakeCached ==
  /\ MaySend /\ IdleTime /\ mCacheSendQueue # <<>>
  /\ msg' = Head(mCacheSendQueue) /\ mCacheSendQueue' = Tail(mCacheSendQueue)
  /\ pcCons' = "send"
  /\ UNCHANGED <<mMsgQueue, mSendQueue, file, mCacheResult, lines, pcSend, saveVars, envVars,
                 histVars>>

SendPut ==
  /\ pcCons = "send"
  /\ mSendQueue' = Append(mSendQueue, msg) /\ msg' = None /\ pcCons' = "test"
  /\ UNCHANGED <<mMsgQueue, file, cacheVars, saveVars, envVars, histVars>>

MessageconsumerTask ==
  StartDump \/ DumpTake \/ DumpPut \/ DumpEnd \/ TakeLive \/ TakeCached \/ SendPut

-----------------------------------------------------------------------------
(* MessageSaveTask and BinaryMessage::appendMessage.                       *)

SaveTake ==
  /\ saveDataMessage = None /\ mSaveQueue # <<>>
  /\ saveDataMessage' = Head(mSaveQueue) /\ mSaveQueue' = Tail(mSaveQueue)
  /\ UNCHANGED <<mMsgQueue, mSendQueue, file, consVars, cacheVars, envVars, histVars>>

appendMessage ==
  /\ saveDataMessage # None
  /\ file' = Append(file, saveDataMessage) /\ saveDataMessage' = None
  /\ UNCHANGED <<mMsgQueue, mSendQueue, mSaveQueue, consVars, cacheVars, envVars, histVars>>

MessageSaveTask == SaveTake \/ appendMessage

-----------------------------------------------------------------------------
(* SendTask in real time, with BinaryMessage::readMessages.                *)

SendTest ==
  /\ pcSend = "test" /\ mState = "Realtime"
  /\ pcSend' = "fill"
  /\ UNCHANGED <<mMsgQueue, mSendQueue, file, mCacheSendQueue, mCacheResult, lines, consVars,
                 saveVars, envVars, histVars>>

CacheFull ==
  /\ pcSend = "fill" /\ mCacheSendQueue # <<>>
  /\ pcSend' = "test"
  /\ UNCHANGED <<mMsgQueue, mSendQueue, file, mCacheSendQueue, mCacheResult, lines, consVars,
                 saveVars, envVars, histVars>>

\* mutant: the file is read whether what was read before is used up or not
ReadsAlways == TRUE
ReadsFile == mCacheResult = <<>>

ReadLines ==
  /\ pcSend = "fill" /\ mCacheSendQueue = <<>> /\ ReadsFile
  /\ lines' = file /\ pcSend' = "remove"
  /\ UNCHANGED <<mMsgQueue, mSendQueue, file, mCacheSendQueue, mCacheResult, consVars,
                 saveVars, envVars, histVars>>

\* mutant: the file is kept
FileKept == file
FileRemoved == <<>>

RemoveFile ==
  /\ pcSend = "remove"
  /\ mCacheResult' = lines /\ lines' = <<>> /\ file' = FileRemoved /\ pcSend' = "test"
  /\ unread' = unread \cup (ToSet(file) \ ToSet(lines))
  /\ UNCHANGED <<mMsgQueue, mSendQueue, mCacheSendQueue, consVars, saveVars, envVars, created,
                 delivered, dropped, crashes>>

StartPush ==
  /\ pcSend = "fill" /\ mCacheSendQueue = <<>> /\ ~ReadsFile
  /\ pcSend' = "push"
  /\ UNCHANGED <<mMsgQueue, mSendQueue, file, mCacheSendQueue, mCacheResult, lines, consVars,
                 saveVars, envVars, histVars>>

\* A report that is more than seven days old is dropped.
Push ==
  /\ pcSend = "push" /\ mCacheResult # <<>>
  /\ \/ mCacheSendQueue' = Append(mCacheSendQueue, Head(mCacheResult)) /\ UNCHANGED dropped
     \/ dropped' = dropped \cup {Head(mCacheResult)} /\ UNCHANGED mCacheSendQueue
  /\ mCacheResult' = Tail(mCacheResult)
  /\ UNCHANGED <<mMsgQueue, mSendQueue, file, lines, pcSend, consVars, saveVars, envVars,
                 created, delivered, crashes, unread>>

EndPush ==
  /\ pcSend = "push" /\ mCacheResult = <<>>
  /\ pcSend' = "test"
  /\ UNCHANGED <<mMsgQueue, mSendQueue, file, mCacheSendQueue, mCacheResult, lines, consVars,
                 saveVars, envVars, histVars>>

SendTask ==
  SendTest \/ CacheFull \/ ReadLines \/ RemoveFile \/ StartPush \/ Push \/ EndPush

-----------------------------------------------------------------------------
(* NetworkComm: its writer, and what the rest of TboxLink does to a report. *)

sendFunc ==
  /\ link # "down" /\ mSendQueue # <<>>
  /\ \/ delivered' = delivered \cup {Head(mSendQueue)} /\ UNCHANGED dropped
     \/ dropped' = dropped \cup {Head(mSendQueue)} /\ UNCHANGED delivered
  /\ mSendQueue' = Tail(mSendQueue)
  /\ UNCHANGED <<mMsgQueue, file, consVars, cacheVars, saveVars, envVars, created, crashes,
                 unread>>

\* mState follows the time answers, also one of an earlier connection.
TimeOk ==
  /\ mState # "Realtime"
  /\ mState' = "Realtime"
  /\ UNCHANGED <<mMsgQueue, mSendQueue, file, consVars, cacheVars, saveVars, link, histVars>>

LinkLost ==
  /\ link = "up"
  /\ link' = "lost" /\ mState' = "Logout"
  /\ UNCHANGED <<mMsgQueue, mSendQueue, file, consVars, cacheVars, saveVars, histVars>>

stop ==
  /\ link = "lost"
  /\ link' = "down"
  /\ UNCHANGED <<mMsgQueue, mSendQueue, file, consVars, cacheVars, saveVars, mState, histVars>>

\* Start clears the queue of the last connection.
Start ==
  /\ link = "down"
  /\ link' = "up"
  /\ dropped' = dropped \cup ToSet(mSendQueue) /\ mSendQueue' = <<>>
  /\ UNCHANGED <<mMsgQueue, file, consVars, cacheVars, saveVars, mState, created, delivered,
                 crashes, unread>>

-----------------------------------------------------------------------------
\* What a process that ends takes with it: everything but the file.
Opt(r) == IF r = None THEN <<>> ELSE <<r>>
Memory == mMsgQueue \o Opt(msg) \o mSaveQueue \o Opt(saveDataMessage) \o mCacheSendQueue
            \o mSendQueue \o mCacheResult

Restart ==
  /\ crashes < CrashBound
  /\ crashes' = crashes + 1 /\ dropped' = dropped \cup ToSet(Memory)
  /\ mMsgQueue' = <<>> /\ mSaveQueue' = <<>> /\ mCacheSendQueue' = <<>> /\ mSendQueue' = <<>>
  /\ mCacheResult' = <<>> /\ lines' = <<>>
  /\ pcCons' = "test" /\ msg' = None /\ pcSend' = "test" /\ saveDataMessage' = None
  /\ mState' = "Logout" /\ link' = "down"
  /\ UNCHANGED <<file, created, delivered, unread>>

Next ==
  \/ MessageCreateTask \/ MessageconsumerTask \/ MessageSaveTask \/ SendTask
  \/ sendFunc \/ TimeOk \/ LinkLost \/ stop \/ Start \/ Restart

Spec == Init /\ [][Next]_vars

\* The tasks of the process are scheduled; nothing is assumed of the session.
Fairness ==
  /\ WF_vars(MessageconsumerTask) /\ WF_vars(MessageSaveTask) /\ WF_vars(SendTask)
  /\ WF_vars(sendFunc)

FairSpec == Spec /\ Fairness

-----------------------------------------------------------------------------
(* Properties.                                                             *)

\* The reports on their way through the file, the one that is sent first first,
\* and with them the live ones, which may be saved yet.
Store ==
  mCacheSendQueue \o mCacheResult \o file \o Opt(saveDataMessage) \o mSaveQueue
    \o (IF pcCons = "save" THEN Opt(msg) ELSE <<>>)
Backlog == Store \o mMsgQueue

\* Reports that were saved are sent in the order they were created, each one
\* once, over the file, its removal and a restart of the process.
BacklogInOrder ==
  \A i, j \in 1..Len(Backlog) : i < j => Backlog[i] < Backlog[j]

\* Every report that was created is in exactly one place, or was written to the
\* socket, or is gone for a reason the code can see: a write that failed, the
\* queue of a closed connection, seven days, a restart; or it was appended while
\* the file was being read.
AllAccounted ==
  LET held == Memory \o file
  IN /\ ToSet(held) \cup delivered \cup dropped \cup unread = 1..created
     /\ \A i, j \in 1..Len(held) : held[i] = held[j] => i = j
     /\ ToSet(held) \cap (delivered \cup dropped \cup unread) = {}

\* The reports that were taken to be sent: the consumer's, and what waits for the
\* writer.
Sending == ToSet(mSendQueue) \cup (IF pcCons = "send" THEN {msg} ELSE {})

Reporting == INSTANCE StoreAndForward WITH
  live <- ToSet(mMsgQueue), stored <- ToSet(Store), sending <- Sending,
  sent <- delivered, lost <- dropped \cup unread

\* The tasks, their queues and the file are together one store: reports enter it
\* and leave it in the order they were created, are sent one at a time and from
\* the store only when none is live, and a live one is lost only with the process.
ImplementsStoreAndForward == Reporting!Spec

\* Once the session stays in real time every report that was saved leaves the
\* vehicle: the file is read, the cache is filled and the idle time comes.
BacklogDrains ==
  <>[](mState = "Realtime" /\ link = "up") => <>[](Backlog = <<>> /\ mSendQueue = <<>>)
=============================================================================
