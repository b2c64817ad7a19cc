------------------------ MODULE SubscriptionManager -------------------------
(***************************************************************************)
(* Who is subscribed to which property of the vehicle, and what the HAL is *)
(* asked to poll: SubscriptionManager, the calls of VehicleHalManager that *)
(* use it, and the entries EmulatedVehicleHal makes in its recurrent timer.*)
(*                                                                         *)
(* Four threads serve the clients.  What SubscriptionManager does is under *)
(* its lock, which it also holds while it tells the HAL that a property is *)
(* no longer wanted; that a property is wanted the HAL is told after the   *)
(* lock is released, one property after the other.                         *)
(*                                                                         *)
(* A subscription is a record; without flags it stands for no entry in the *)
(* map it is looked up in.                                                 *)
(***************************************************************************)
EXTENDS Naturals, FiniteSets

CONSTANTS
  Clients,      \* callbacks of the clients, which are also their ids
  Props,        \* properties
  Continuous,   \* those whose change mode is CONTINUOUS
  Readable,     \* those that may be read
  Calls,        \* calls of subscribe that run at a time
  MaxRate,      \* bound: sample rates are 1..MaxRate
  FromAndroid,  \* bound: properties clients want to see set by Android
  ListBound,    \* bound: properties a call names
  Mortal        \* bound: clients whose process may end

ASSUME SubscriptionAssumption ==
  /\ Continuous \subseteq Props /\ Readable \subseteq Props /\ FromAndroid \subseteq Props
  /\ MaxRate \in Nat \ {0} /\ ListBound \in Nat \ {0}
  /\ Mortal \subseteq Clients

Flags == {"EVENTS_FROM_CAR", "EVENTS_FROM_ANDROID"}
Unsubscribed == [rate |-> 0, flags |-> {}]
Options == [rate : 0..MaxRate, flags : SUBSET Flags]

\* The rate VehicleHalManager::checkSampleRate lets through.
SampleRates(p) == IF p \in Continuous THEN 1..MaxRate ELSE {0}

VARIABLES
  \* SubscriptionManager; mSubscriptions is part of the HalClient
  mClients, mSubscriptions, mPropToClients, mHalEventSubscribeOptions,
  updatedOptions,      \* of each call, the rates the HAL has not yet been told
  mRecurrentTimer,     \* rate at which the HAL polls each property, 0 for never
  status, props,       \* the death of a client and what onCallbackDead has left to do
  asked, late          \* history: what clients asked for, who asked too late

mapVars == <<mClients, mSubscriptions, mPropToClients, mHalEventSubscribeOptions>>
vars == <<mapVars, updatedOptions, mRecurrentTimer, status, props, asked, late>>

Requests == [client : Clients, prop : Props, rate : 0..MaxRate]

TypeOK ==
  /\ mClients \subseteq Clients
  /\ mSubscriptions \in [Clients -> [Props -> Options]]
  /\ mPropToClients \in [Props -> SUBSET Clients]
  /\ mHalEventSubscribeOptions \in [Props -> Options]
  /\ updatedOptions \in [Calls -> [Props -> Nat]]
  /\ mRecurrentTimer \in [Props -> Nat]
  /\ status \in [Clients -> {"alive", "dead", "reported", "collected"}]
  /\ props \in [Clients -> SUBSET Props]
  /\ asked \subseteq Requests /\ late \subseteq Clients

Nothing == [p \in Props |-> Unsubscribed]

Init ==
  /\ mClients = {} /\ mSubscriptions = [c \in Clients |-> Nothing]
  /\ mPropToClients = [p \in Props |-> {}] /\ mHalEventSubscribeOptions = Nothing
  /\ updatedOptions = [t \in Calls |-> [p \in Props |-> 0]]
  /\ mRecurrentTimer = [p \in Props |-> 0]
  /\ status = [c \in Clients |-> "alive"] /\ props = [c \in Clients |-> {}]
  /\ asked = {} /\ late = {}

-----------------------------------------------------------------------------
\* mutant: the rate of the last request is taken
LastOptions(old, new) ==
  [rate |-> IF new.flags = {} THEN old.rate ELSE new.rate, flags |-> old.flags \cup new.flags]

\* The higher rate and the flags of both.
mergeSubscribeOptions(old, new) ==
  [rate |-> IF new.rate > old.rate THEN new.rate ELSE old.rate,
   flags |-> old.flags \cup new.flags]

FromCar(o) == "EVENTS_FROM_CAR" \in o.flags

\* A call names at least one property, each one once, with flags; only what can
\* be read can be subscribed to from the car (isSubscribable).
OptionLists ==
  LET Allowed(p) == {f \in Flags : IF f = "EVENTS_FROM_CAR" THEN p \in Readable
                                                            ELSE p \in FromAndroid}
      Wanted(p) == [rate : SampleRates(p), flags : (SUBSET Allowed(p)) \ {{}}]
  IN {o \in [Props -> {Unsubscribed} \cup UNION {Wanted(p) : p \in Props}] :
        /\ Cardinality({p \in Props : o[p] # Unsubscribed}) \in 1..ListBound
        /\ \A p \in Props : o[p] \in {Unsubscribed} \cup Wanted(p)}

\* The HAL's subscriptions after a call with the list opts, and before it is
\* told of the properties whose subscription has changed.
updateHalEventSubscription(opts) ==
  [p \in Props |->
     IF FromCar(opts[p])
     THEN mergeSubscribeOptions(mHalEventSubscribeOptions[p], opts[p])
     ELSE mHalEventSubscribeOptions[p]]

\* Of the requests of a client for a property the one with the highest rate.
Highest(S) ==
  {r \in S : ~\E q \in S : q.client = r.client /\ q.prop = r.prop /\ q.rate > r.rate}

\* A callback that has died can be linked to until its death is reported; a
\* call of it may have been on its way when it died.
subscribe(t, c, opts) ==
  LET updated == updateHalEventSubscription(opts)
  IN /\ \A p \in Props : updatedOptions[t][p] = 0
     /\ c \in mClients \/ status[c] \in {"alive", "dead"}
     /\ mClients' = mClients \cup {c}
     /\ mSubscriptions' = [mSubscriptions EXCEPT
          ![c] = [p \in Props |-> mergeSubscribeOptions(@[p], opts[p])]]
     /\ mPropToClients' = [p \in Props |->
          IF opts[p] # Unsubscribed THEN mPropToClients[p] \cup {c} ELSE mPropToClients[p]]
     /\ mHalEventSubscribeOptions' = updated
     /\ updatedOptions' = [updatedOptions EXCEPT ![t] = [p \in Props |->
          IF updated[p] # mHalEventSubscribeOptions[p] THEN updated[p].rate ELSE 0]]
     /\ asked' = Highest(asked \cup {[client |-> c, prop |-> p, rate |-> opts[p].rate] :
                                         p \in {q \in Props : FromCar(opts[q])}})
     /\ late' = IF status[c] = "collected" THEN late \cup {c} ELSE late
     /\ UNCHANGED <<mRecurrentTimer, status, props>>

\* EmulatedVehicleHal::subscribe: properties that are not continuous have no
\* rate and no entry in the timer.
HalSubscribe(t, p) ==
  /\ updatedOptions[t][p] # 0
  /\ mRecurrentTimer' = [mRecurrentTimer EXCEPT ![p] = updatedOptions[t][p]]
  /\ updatedOptions' = [updatedOptions EXCEPT ![t][p] = 0]
  /\ UNCHANGED <<mapVars, status, props, asked, late>>

-----------------------------------------------------------------------------
\* mutant: the HAL stops polling when any client leaves
HalUnsubscribeAlways(p, left) == mRecurrentTimer' = [mRecurrentTimer EXCEPT ![p] = 0]

\* mOnPropertyUnsubscribed, under the lock
HalUnsubscribe(p, left) ==
  mRecurrentTimer' = IF left = {} THEN [mRecurrentTimer EXCEPT ![p] = 0] ELSE mRecurrentTimer

\* mutant: the client is forgotten with the first property it leaves
RemainingFew(c, clients) == mClients \ {c}
\* The client is forgotten with the last property it leaves.
Remaining(c, clients) ==
  IF \E p \in Props : c \in clients[p] THEN mClients ELSE mClients \ {c}

\* The entry of the HalClient stays until the HalClient is forgotten.
unsubscribe(c, p) ==
  LET left == IF c \in mClients THEN mPropToClients[p] \ {c} ELSE mPropToClients[p]
  IN /\ mPropToClients' = [mPropToClients EXCEPT ![p] = left]
     /\ mClients' = Remaining(c, mPropToClients')
     /\ mSubscriptions' =
          IF c \in mClients' THEN mSubscriptions ELSE [mSubscriptions EXCEPT ![c] = Nothing]
     /\ mHalEventSubscribeOptions' =
          IF left = {} THEN [mHalEventSubscribeOptions EXCEPT ![p] = Unsubscribed]
                       ELSE mHalEventSubscribeOptions
     /\ HalUnsubscribe(p, left)
     /\ asked' = {r \in asked : r.client # c \/ r.prop # p}
     /\ UNCHANGED <<updatedOptions, late>>

Unsubscribe(c, p) == unsubscribe(c, p) /\ UNCHANGED <<status, props>>

-----------------------------------------------------------------------------
(* The death of a client: its process ends, hwbinder reports it, and       *)
(* onCallbackDead unsubscribes it from one property after the other.       *)

ClientDies(c) ==
  /\ c \in Mortal /\ status[c] = "alive"
  /\ status' = [status EXCEPT ![c] = "dead"]
  /\ UNCHANGED <<mapVars, updatedOptions, mRecurrentTimer, props, asked, late>>

serviceDied(c) ==
  /\ status[c] = "dead"
  /\ status' = [status EXCEPT ![c] = "reported"]
  /\ UNCHANGED <<mapVars, updatedOptions, mRecurrentTimer, props, asked, late>>

\* mutant: only what the client wants from the car is collected
getCarProperties(c) == {p \in Props : FromCar(mSubscriptions[c][p])}
getSubscribedProperties(c) == {p \in Props : mSubscriptions[c][p] # Unsubscribed}

onCallbackDead(c) ==
  /\ status[c] = "reported"
  /\ status' = [status EXCEPT ![c] = "collected"]
  /\ props' = [props EXCEPT ![c] = getSubscribedProperties(c)]
  /\ UNCHANGED <<mapVars, updatedOptions, mRecurrentTimer, asked, late>>

unsubscribeDead(c, p) ==
  /\ p \in props[c]
  /\ props' = [props EXCEPT ![c] = @ \ {p}]
  /\ unsubscribe(c, p)
  /\ UNCHANGED status

-----------------------------------------------------------------------------
Next ==
  \/ \E t \in Calls : \/ \E c \in Clients, o \in OptionLists : subscribe(t, c, o)
                       \/ \E p \in Props : HalSubscribe(t, p)
  \/ \E c \in Clients : ClientDies(c) \/ serviceDied(c) \/ onCallbackDead(c)
  \/ \E c \in Clients, p \in Props : Unsubscribe(c, p) \/ unsubscribeDead(c, p)

Spec == Init /\ [][Next]_vars

\* A death is reported, and what runs on a thread of the pool goes on.
FairSpec ==
  /\ Spec
  /\ \A c \in Clients : WF_vars(serviceDied(c)) /\ WF_vars(onCallbackDead(c))
  /\ \A c \in Clients, p \in Props : WF_vars(unsubscribeDead(c, p))

-----------------------------------------------------------------------------
(* Properties.                                                             *)

\* The four maps agree: a client is known exactly while it is listed for some
\* property, what it is listed for is in its own map, where onCallbackDead looks,
\* and the HAL keeps nothing for a property without clients.
MapsAgree ==
  /\ \A c \in Clients : c \in mClients <=> \E p \in Props : c \in mPropToClients[p]
  /\ \A p \in Props : /\ \A c \in mPropToClients[p] : mSubscriptions[c][p] # Unsubscribed
                      /\ mPropToClients[p] = {} => mHalEventSubscribeOptions[p] = Unsubscribed

\* What the HAL is subscribed to covers what every client asked for since it
\* last unsubscribed, whatever the others ask for and take back
\* (mergeSubscribeOptions, unsubscribe).
RateCovered ==
  \A r \in asked : /\ FromCar(mHalEventSubscribeOptions[r.prop])
                   /\ mHalEventSubscribeOptions[r.prop].rate >= r.rate

\* A continuous property that a client wants is polled, or a call that is still
\* under way will see to it: a call of unsubscribe never undoes what the HAL was
\* told for somebody else.
PolledWhileWanted ==
  \A r \in asked : r.prop \in Continuous =>
    mRecurrentTimer[r.prop] # 0 \/ \E t \in Calls : updatedOptions[t][r.prop] # 0

\* Nothing is left of a dead client, unless a call of it was carried out after
\* onCallbackDead had collected its properties.
DeadForgotten ==
  \A c \in Clients : status[c] # "alive" ~> c \notin mClients \/ c \in late
=============================================================================
