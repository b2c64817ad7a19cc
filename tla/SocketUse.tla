----------------------------- MODULE SocketUse ------------------------------
(***************************************************************************)
(* What NetworkComm promises about its socket, whatever its threads do in  *)
(* between: a connection is opened when nothing uses the last one, every   *)
(* user comes once and leaves once, and it is closed after all have left.  *)
(***************************************************************************)
CONSTANT Users
VARIABLES
  open,    \* the descriptor names a connected socket
  using,   \* the users that read or write through it
  done,    \* the users that have finished with this connection
  begins   \* the process is where it begins, about to open a connection

Init == open = FALSE /\ using = {} /\ done = {}

Open ==
  /\ ~open
  /\ open' = TRUE
  /\ UNCHANGED <<using, done>>

Enter(u) ==
  /\ open /\ u \notin using \cup done
  /\ using' = using \cup {u}
  /\ UNCHANGED <<open, done>>

Leave(u) ==
  /\ u \in using
  /\ using' = using \ {u} /\ done' = done \cup {u}
  /\ UNCHANGED open

Close ==
  /\ open /\ done = Users
  /\ open' = FALSE /\ done' = {}
  /\ UNCHANGED using

Next == Open \/ Close \/ \E u \in Users : Enter(u) \/ Leave(u)

Spec == Init /\ [][Next]_<<open, using, done>>

\* For a process that may end at any point and begins anew: what it has open is
\* closed for it.  A process that goes on has to close, and so to wait.
Exit == begins' /\ open' = FALSE /\ using' = {} /\ done' = {}
SpecWithExit == Init /\ [][Next \/ Exit]_<<open, using, done>>
=============================================================================
