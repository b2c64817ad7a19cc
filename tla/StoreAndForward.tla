--------------------------- MODULE StoreAndForward ---------------------------
(***************************************************************************)
(* What the TBOX promises about its reports, whatever queues, hands and    *)
(* file they go through.  A report is live until it is sent or stored.     *)
(* Both ways are first in, first out; what is stored is sent when nothing  *)
(* is live; one report at a time is on its way to the socket.  A live      *)
(* report gets lost only with the process.                                 *)
(***************************************************************************)
EXTENDS Naturals

VARIABLES
  created,  \* the number of the newest report
  live,     \* reports that wait to be sent
  stored,   \* reports that wait for better times
  sending,  \* the report between its queue and the socket, if there is one
  sent,     \* reports written to the socket
  lost      \* reports that will not be sent

vars == <<created, live, stored, sending, sent, lost>>

Init ==
  /\ created = 0
  /\ live = {} /\ stored = {} /\ sending = {} /\ sent = {} /\ lost = {}

\* r was created before the others of the set.
First(r, reports) == r \in reports /\ \A s \in reports : r <= s

Create ==
  /\ created' = created + 1 /\ live' = live \cup {created + 1}
  /\ UNCHANGED <<stored, sending, sent, lost>>

Save(r) ==
  /\ First(r, live)
  /\ live' = live \ {r} /\ stored' = stored \cup {r}
  /\ UNCHANGED <<created, sending, sent, lost>>

SendLive(r) ==
  /\ sending = {} /\ First(r, live)
  /\ live' = live \ {r} /\ sending' = {r}
  /\ UNCHANGED <<created, stored, sent, lost>>

SendStored(r) ==
  /\ sending = {} /\ live = {} /\ First(r, stored)
  /\ stored' = stored \ {r} /\ sending' = {r}
  /\ UNCHANGED <<created, live, sent, lost>>

Write(r) ==
  /\ r \in sending
  /\ sending' = {} /\ sent' = sent \cup {r}
  /\ UNCHANGED <<created, live, stored, lost>>

\* The write fails or the connection ends.
Refuse(r) ==
  /\ r \in sending
  /\ sending' = {} /\ lost' = lost \cup {r}
  /\ UNCHANGED <<created, live, stored, sent>>

\* A stored report is too old, or one stored while the store is read is missed.
Discard ==
  /\ stored' \subseteq stored
  /\ lost' = lost \cup (stored \ stored')
  /\ UNCHANGED <<created, live, sending, sent>>

\* The process ends: a part of the store survives, and nothing else.
Restart ==
  /\ live' = {} /\ sending' = {} /\ stored' \subseteq stored
  /\ lost' = lost \cup live \cup sending \cup (stored \ stored')
  /\ UNCHANGED <<created, sent>>

Next ==
  \/ Create \/ Discard \/ Restart
  \/ \E r \in live : Save(r) \/ SendLive(r)
  \/ \E r \in stored : SendStored(r)
  \/ \E r \in sending : Write(r) \/ Refuse(r)

Spec == Init /\ [][Next]_vars
=============================================================================
