------------------------- MODULE SubscriptionProofs -------------------------
(***************************************************************************)
(* SubscriptionManager for any clients, properties, calls and rates: its   *)
(* maps agree, the HAL's subscription covers every request, and what is    *)
(* wanted is polled.  PolledWhileWanted is not inductive: it follows from  *)
(* RateCovered and from PolledInv, which speaks of the HAL's entries and   *)
(* not of the requests.                                                    *)
(***************************************************************************)
EXTENDS SubscriptionManager, FiniteSetTheorems, TLAPS

\* A request stands for a client that is listed.
AskedListed == \A r \in asked : r.client \in mPropToClients[r.prop]

\* What the HAL is subscribed to has a rate, and the timer has it, or a call
\* will tell the timer.
PolledInv ==
  \A p \in Continuous : mHalEventSubscribeOptions[p] # Unsubscribed =>
    /\ mHalEventSubscribeOptions[p].rate # 0
    /\ mRecurrentTimer[p] # 0 \/ \E t \in Calls : updatedOptions[t][p] # 0

IInv == TypeOK /\ MapsAgree /\ AskedListed /\ RateCovered /\ PolledInv

-----------------------------------------------------------------------------
(* The operators.                                                          *)

\* Merging keeps the type, both sets of flags, and a rate no lower than either.
LEMMA MergeType ==
  ASSUME NEW a \in Options, NEW b \in Options
  PROVE  LET m == mergeSubscribeOptions(a, b)
         IN /\ m \in Options
            /\ m.flags = a.flags \cup b.flags
            /\ m.rate >= a.rate /\ m.rate >= b.rate
<1> USE SubscriptionAssumption
<1> QED
  BY DEF mergeSubscribeOptions, Options

\* What a list of options holds: typed entries, some of them for a property,
\* those with flags and a rate the property may have.
LEMMA ListType ==
  ASSUME NEW o \in OptionLists
  PROVE  /\ o \in [Props -> Options]
         /\ \A p \in Props : o[p] # Unsubscribed =>
              o[p].flags # {} /\ (p \in Continuous => o[p].rate # 0)
         /\ \E p \in Props : o[p] # Unsubscribed
<1> USE SubscriptionAssumption
<1>1. /\ o \in [Props -> {Unsubscribed} \cup
                  UNION {[rate : SampleRates(p),
                          flags : (SUBSET {f \in Flags : IF f = "EVENTS_FROM_CAR"
                                     THEN p \in Readable ELSE p \in FromAndroid}) \ {{}}] :
                           p \in Props}]
      /\ Cardinality({p \in Props : o[p] # Unsubscribed}) \in 1..ListBound
      /\ \A p \in Props : o[p] \in {Unsubscribed} \cup
           [rate : SampleRates(p),
            flags : (SUBSET {f \in Flags : IF f = "EVENTS_FROM_CAR"
                       THEN p \in Readable ELSE p \in FromAndroid}) \ {{}}]
  BY DEF OptionLists
<1>2. \A p \in Props : SampleRates(p) \subseteq 0..MaxRate
  BY DEF SampleRates
<1>3. \A p \in Props : o[p] \in Options
  BY <1>1, <1>2 DEF Options, Unsubscribed
<1>4. o \in [Props -> Options]
  BY <1>1, <1>3
<1>5. \A p \in Props : o[p] # Unsubscribed => o[p].flags # {} /\ o[p].rate \in SampleRates(p)
  BY <1>1
<1>6. \E p \in Props : o[p] # Unsubscribed
  <2>1. SUFFICES ASSUME {p \in Props : o[p] # Unsubscribed} = {} PROVE FALSE
    OBVIOUS
  <2> QED
    BY <1>1, <2>1, FS_EmptySet
<1> QED
  BY <1>4, <1>5, <1>6 DEF SampleRates

\* The HAL's entries after a call: typed, no flag is lost and no rate lowered.
LEMMA UpdatedType ==
  ASSUME TypeOK, NEW o \in OptionLists
  PROVE  LET u == updateHalEventSubscription(o)
         IN /\ u \in [Props -> Options]
            /\ \A p \in Props :
                 /\ u[p].rate >= mHalEventSubscribeOptions[p].rate
                 /\ mHalEventSubscribeOptions[p].flags \subseteq u[p].flags
                 /\ FromCar(o[p]) => FromCar(u[p]) /\ u[p].rate >= o[p].rate
                 /\ ~FromCar(o[p]) => u[p] = mHalEventSubscribeOptions[p]
<1> DEFINE u == updateHalEventSubscription(o)
<1>1. o \in [Props -> Options] /\ mHalEventSubscribeOptions \in [Props -> Options]
  BY ListType DEF TypeOK
<1>2. \A p \in Props : u[p] = IF FromCar(o[p])
        THEN mergeSubscribeOptions(mHalEventSubscribeOptions[p], o[p])
        ELSE mHalEventSubscribeOptions[p]
  BY DEF updateHalEventSubscription
<1>3. ASSUME NEW p \in Props
      PROVE  /\ u[p] \in Options
             /\ u[p].rate >= mHalEventSubscribeOptions[p].rate
             /\ mHalEventSubscribeOptions[p].flags \subseteq u[p].flags
             /\ FromCar(o[p]) => FromCar(u[p]) /\ u[p].rate >= o[p].rate
             /\ ~FromCar(o[p]) => u[p] = mHalEventSubscribeOptions[p]
  <2>1. o[p] \in Options /\ mHalEventSubscribeOptions[p] \in Options
    BY <1>1
  <2>2. CASE FromCar(o[p])
    BY <2>1, <2>2, <1>2, MergeType DEF FromCar
  <2>3. CASE ~FromCar(o[p])
    BY <2>1, <2>3, <1>2, SubscriptionAssumption DEF Options
  <2> QED
    BY <2>2, <2>3
<1>4. u \in [Props -> Options]
  BY <1>3 DEF updateHalEventSubscription
<1> QED
  BY <1>3, <1>4

-----------------------------------------------------------------------------
(* The invariant.                                                          *)

LEMMA InitIInv == Init => IInv
<1> SUFFICES ASSUME Init PROVE IInv
  OBVIOUS
<1> USE SubscriptionAssumption DEF Init, Nothing
<1>1. Unsubscribed \in Options
  BY DEF Unsubscribed, Options
<1>2. TypeOK
  BY <1>1 DEF TypeOK
<1>3. MapsAgree /\ AskedListed /\ RateCovered /\ PolledInv
  BY DEF MapsAgree, AskedListed, RateCovered, PolledInv
<1> QED
  BY <1>2, <1>3 DEF IInv

\* What a call of subscribe does to the maps, one property at a time.
LEMMA SubscribeStep ==
  ASSUME IInv, NEW t \in Calls, NEW c \in Clients, NEW o \in OptionLists, subscribe(t, c, o)
  PROVE  IInv'
<1> DEFINE u == updateHalEventSubscription(o)
           new == {[client |-> c, prop |-> p, rate |-> o[p].rate] :
                     p \in {q \in Props : FromCar(o[q])}}
<1> USE SubscriptionAssumption
<1>0. TypeOK /\ MapsAgree /\ AskedListed /\ RateCovered /\ PolledInv
  BY DEF IInv
<1>o. /\ o \in [Props -> Options]
      /\ \A p \in Props : o[p] # Unsubscribed =>
           o[p].flags # {} /\ (p \in Continuous => o[p].rate # 0)
      /\ \E p \in Props : o[p] # Unsubscribed
  BY ListType
<1>u. /\ u \in [Props -> Options]
      /\ \A p \in Props :
           /\ u[p].rate >= mHalEventSubscribeOptions[p].rate
           /\ mHalEventSubscribeOptions[p].flags \subseteq u[p].flags
           /\ FromCar(o[p]) => FromCar(u[p]) /\ u[p].rate >= o[p].rate
           /\ ~FromCar(o[p]) => u[p] = mHalEventSubscribeOptions[p]
  BY <1>0, UpdatedType
<1>s. /\ mClients' = mClients \cup {c}
      /\ mSubscriptions' = [mSubscriptions EXCEPT
           ![c] = [p \in Props |-> mergeSubscribeOptions(@[p], o[p])]]
      /\ mPropToClients' = [p \in Props |->
           IF o[p] # Unsubscribed THEN mPropToClients[p] \cup {c} ELSE mPropToClients[p]]
      /\ mHalEventSubscribeOptions' = u
      /\ updatedOptions' = [updatedOptions EXCEPT ![t] = [p \in Props |->
           IF u[p] # mHalEventSubscribeOptions[p] THEN u[p].rate ELSE 0]]
      /\ asked' = Highest(asked \cup new)
      /\ late' \in {late, late \cup {c}}
      /\ UNCHANGED <<mRecurrentTimer, status, props>>
      /\ \A p \in Props : updatedOptions[t][p] = 0
  BY DEF subscribe
<1> HIDE DEF u
<1>a. asked' \subseteq asked \cup new
  BY <1>s DEF Highest
<1>n. \A p \in Props : FromCar(o[p]) => o[p] # Unsubscribed
  BY DEF FromCar, Unsubscribed
<1>m. /\ \A p \in Props : mSubscriptions'[c][p] \in Options
      /\ \A p \in Props : mSubscriptions[c][p] # Unsubscribed \/ o[p] # Unsubscribed =>
           mSubscriptions'[c][p] # Unsubscribed
  <2>1. ASSUME NEW p \in Props
        PROVE  LET m == mSubscriptions'[c][p]
               IN /\ m \in Options
                  /\ m.flags = mSubscriptions[c][p].flags \cup o[p].flags
                  /\ m.rate >= mSubscriptions[c][p].rate /\ m.rate >= o[p].rate
    BY <1>0, <1>s, <1>o, MergeType DEF TypeOK
  <2>2. ASSUME NEW x \in Options, x.flags = {}, x.rate = 0
        PROVE  x = Unsubscribed
    BY <2>2 DEF Options, Unsubscribed
  <2>3. ASSUME NEW p \in Props, mSubscriptions'[c][p] = Unsubscribed
        PROVE  mSubscriptions[c][p] = Unsubscribed /\ o[p] = Unsubscribed
    <3>1. mSubscriptions[c][p] \in Options /\ o[p] \in Options
      BY <1>0, <1>o DEF TypeOK
    <3>2. /\ mSubscriptions[c][p].flags = {} /\ o[p].flags = {}
      BY <2>1, <2>3 DEF Unsubscribed
    <3>3. mSubscriptions[c][p].rate = 0 /\ o[p].rate = 0
      BY <2>1, <2>3, <3>1 DEF Unsubscribed, Options
    <3> QED
      BY <2>2, <3>1, <3>2, <3>3
  <2> QED
    BY <2>1, <2>3
<1>1. TypeOK'
  <2>1. mSubscriptions' \in [Clients -> [Props -> Options]]
    <3>1. \A d \in Clients : d # c => mSubscriptions'[d] = mSubscriptions[d]
      BY <1>0, <1>s DEF TypeOK
    <3>2. mSubscriptions'[c] \in [Props -> Options]
      BY <1>0, <1>s, <1>m DEF TypeOK
    <3> QED
      BY <1>0, <1>s, <3>1, <3>2 DEF TypeOK
  <2>2. updatedOptions' \in [Calls -> [Props -> Nat]]
    <3>1. \A p \in Props : u[p].rate \in Nat
      BY <1>u DEF Options
    <3> QED
      BY <1>0, <1>s, <3>1 DEF TypeOK
  <2>3. asked' \subseteq Requests
    <3>1. new \subseteq Requests
      BY <1>o DEF Requests, Options
    <3> QED
      BY <1>0, <1>a, <3>1 DEF TypeOK
  <2>4. mPropToClients' \in [Props -> SUBSET Clients]
    BY <1>0, <1>s DEF TypeOK
  <2> QED
    BY <1>0, <1>s, <1>u, <2>1, <2>2, <2>3, <2>4 DEF TypeOK
<1>2. MapsAgree'
  <2>1. ASSUME NEW d \in Clients
        PROVE  d \in mClients' <=> \E p \in Props : d \in mPropToClients'[p]
    BY <1>0, <1>s, <1>o DEF MapsAgree
  <2>2. ASSUME NEW p \in Props, NEW d \in mPropToClients'[p]
        PROVE  mSubscriptions'[d][p] # Unsubscribed
    <3>1. d \in Clients
      BY <1>1 DEF TypeOK
    <3>2. CASE d # c
      BY <1>0, <1>s, <3>1, <3>2 DEF MapsAgree, TypeOK
    <3>3. CASE d = c
      BY <1>0, <1>s, <1>m, <3>3 DEF MapsAgree
    <3> QED
      BY <3>2, <3>3
  <2>3. ASSUME NEW p \in Props, mPropToClients'[p] = {}
        PROVE  mHalEventSubscribeOptions'[p] = Unsubscribed
    BY <1>0, <1>s, <1>u, <1>n, <2>3 DEF MapsAgree
  <2> QED
    BY <2>1, <2>2, <2>3 DEF MapsAgree
<1>3. AskedListed'
  <2>1. ASSUME NEW r \in asked PROVE r.client \in mPropToClients'[r.prop]
    BY <1>0, <1>s DEF AskedListed, TypeOK, Requests
  <2>2. ASSUME NEW r \in new PROVE r.client \in mPropToClients'[r.prop]
    BY <1>s, <1>n
  <2> QED
    BY <1>a, <2>1, <2>2 DEF AskedListed
<1>4. RateCovered'
  <2>1. ASSUME NEW r \in asked
        PROVE  FromCar(u[r.prop]) /\ u[r.prop].rate >= r.rate
    <3>1. r.prop \in Props /\ r.rate \in Nat
      BY <1>0 DEF TypeOK, Requests
    <3>2. u[r.prop].rate \in Nat /\ mHalEventSubscribeOptions[r.prop].rate \in Nat
      BY <1>0, <1>u, <3>1 DEF TypeOK, Options
    <3> QED
      BY <1>0, <1>u, <3>1, <3>2 DEF RateCovered, FromCar
  <2>2. ASSUME NEW r \in new
        PROVE  FromCar(u[r.prop]) /\ u[r.prop].rate >= r.rate
    BY <1>u
  <2> QED
    BY <1>a, <1>s, <2>1, <2>2 DEF RateCovered
<1>5. PolledInv'
  <2>1. SUFFICES ASSUME NEW p \in Continuous, u[p] # Unsubscribed
                 PROVE  /\ u[p].rate # 0
                        /\ \/ mRecurrentTimer'[p] # 0
                           \/ \E w \in Calls : updatedOptions'[w][p] # 0
    BY <1>s DEF PolledInv
  <2>2. p \in Props
    OBVIOUS
  <2>3. u[p].rate # 0
    <3>1. u[p].rate \in Nat /\ o[p].rate \in Nat
      BY <1>u, <1>o, <2>2 DEF Options
    <3>2. CASE FromCar(o[p])
      BY <1>o, <1>u, <1>n, <2>2, <3>1, <3>2
    <3>3. CASE ~FromCar(o[p])
      BY <1>0, <1>u, <2>1, <2>2, <3>3 DEF PolledInv
    <3> QED
      BY <3>2, <3>3
  <2>4. CASE u[p] # mHalEventSubscribeOptions[p]
    BY <1>0, <1>s, <2>2, <2>3, <2>4 DEF TypeOK
  <2>5. CASE u[p] = mHalEventSubscribeOptions[p]
    <3>1. CASE mRecurrentTimer[p] # 0
      BY <1>s, <2>3, <3>1
    <3>2. CASE \E w \in Calls : updatedOptions[w][p] # 0
      <4>1. PICK w \in Calls : updatedOptions[w][p] # 0
        BY <3>2
      <4>2. w # t
        BY <1>s, <2>2, <4>1
      <4>3. updatedOptions'[w] = updatedOptions[w]
        BY <1>0, <1>s, <4>2 DEF TypeOK
      <4> QED
        BY <2>3, <4>1, <4>3
    <3> QED
      BY <1>0, <2>1, <2>5, <3>1, <3>2 DEF PolledInv
  <2> QED
    BY <2>3, <2>4, <2>5
<1> QED
  BY <1>1, <1>2, <1>3, <1>4, <1>5 DEF IInv

\* What unsubscribe does, called by a client or for a dead one.
LEMMA UnsubscribeStep ==
  ASSUME IInv, NEW c \in Clients, NEW p \in Props, unsubscribe(c, p),
         status' \in [Clients -> {"alive", "dead", "reported", "collected"}],
         props' \in [Clients -> SUBSET Props]
  PROVE  IInv'
<1> DEFINE left == IF c \in mClients THEN mPropToClients[p] \ {c} ELSE mPropToClients[p]
<1> USE SubscriptionAssumption
<1>0. TypeOK /\ MapsAgree /\ AskedListed /\ RateCovered /\ PolledInv
  BY DEF IInv
<1>s. /\ mPropToClients' = [mPropToClients EXCEPT ![p] = left]
      /\ mClients' = IF \E q \in Props : c \in mPropToClients'[q]
                     THEN mClients ELSE mClients \ {c}
      /\ mSubscriptions' =
           IF c \in mClients' THEN mSubscriptions ELSE [mSubscriptions EXCEPT ![c] = Nothing]
      /\ mHalEventSubscribeOptions' =
           IF left = {} THEN [mHalEventSubscribeOptions EXCEPT ![p] = Unsubscribed]
                        ELSE mHalEventSubscribeOptions
      /\ mRecurrentTimer' =
           IF left = {} THEN [mRecurrentTimer EXCEPT ![p] = 0] ELSE mRecurrentTimer
      /\ asked' = {r \in asked : r.client # c \/ r.prop # p}
      /\ UNCHANGED <<updatedOptions, late>>
  BY DEF unsubscribe, Remaining, HalUnsubscribe
<1>l. left = mPropToClients[p] \ {c}
  BY <1>0 DEF MapsAgree
<1> HIDE DEF left
<1>u. Unsubscribed \in Options
  BY DEF Unsubscribed, Options
<1>p. /\ mPropToClients'[p] = left
      /\ \A q \in Props : q # p => mPropToClients'[q] = mPropToClients[q]
  BY <1>0, <1>s DEF TypeOK
<1>1. TypeOK'
  <2>1. left \subseteq Clients
    BY <1>0, <1>l DEF TypeOK
  <2>2. /\ mPropToClients' \in [Props -> SUBSET Clients]
        /\ mHalEventSubscribeOptions' \in [Props -> Options]
        /\ mRecurrentTimer' \in [Props -> Nat]
    BY <1>0, <1>s, <1>u, <2>1 DEF TypeOK
  <2>3. mSubscriptions' \in [Clients -> [Props -> Options]]
    BY <1>0, <1>s, <1>u DEF TypeOK, Nothing
  <2> QED
    BY <1>0, <1>s, <2>2, <2>3 DEF TypeOK
<1>2. MapsAgree'
  <2>1. ASSUME NEW d \in Clients
        PROVE  d \in mClients' <=> \E q \in Props : d \in mPropToClients'[q]
    <3>1. CASE d = c
      BY <1>0, <1>s, <1>p, <1>l, <3>1 DEF MapsAgree
    <3>2. CASE d # c
      <4>1. d \in mClients' <=> d \in mClients
        BY <1>s, <3>2
      <4>2. \A q \in Props : d \in mPropToClients'[q] <=> d \in mPropToClients[q]
        BY <1>p, <1>l, <3>2
      <4> QED
        BY <1>0, <4>1, <4>2 DEF MapsAgree
    <3> QED
      BY <3>1, <3>2
  <2>2. ASSUME NEW q \in Props, NEW d \in mPropToClients'[q]
        PROVE  mSubscriptions'[d][q] # Unsubscribed
    <3>1. d \in mPropToClients[q] /\ d \in Clients
      BY <1>0, <1>1, <1>p, <1>l DEF TypeOK
    <3>2. d = c => c \in mClients'
      BY <1>0, <1>s, <3>1 DEF MapsAgree
    <3>3. mSubscriptions'[d] = mSubscriptions[d]
      BY <1>0, <1>s, <3>1, <3>2 DEF TypeOK
    <3> QED
      BY <1>0, <3>1, <3>3 DEF MapsAgree
  <2>3. ASSUME NEW q \in Props, mPropToClients'[q] = {}
        PROVE  mHalEventSubscribeOptions'[q] = Unsubscribed
    <3>1. CASE q = p
      BY <1>0, <1>s, <1>p, <2>3, <3>1 DEF TypeOK
    <3>2. CASE q # p
      BY <1>0, <1>s, <1>p, <2>3, <3>2 DEF TypeOK, MapsAgree
    <3> QED
      BY <3>1, <3>2
  <2> QED
    BY <2>1, <2>2, <2>3 DEF MapsAgree
<1>3. ASSUME NEW r \in asked'
      PROVE  /\ r \in asked /\ r.client \in mPropToClients'[r.prop]
             /\ mHalEventSubscribeOptions'[r.prop] = mHalEventSubscribeOptions[r.prop]
  <2>1. /\ r \in asked /\ r.prop \in Props
        /\ r.client \in mPropToClients[r.prop] /\ (r.client # c \/ r.prop # p)
    BY <1>0, <1>s DEF TypeOK, Requests, AskedListed
  <2>2. CASE r.prop = p
    BY <1>s, <1>p, <1>l, <2>1, <2>2
  <2>3. CASE r.prop # p
    BY <1>0, <1>s, <1>p, <2>1, <2>3 DEF TypeOK
  <2> QED
    BY <2>1, <2>2, <2>3
<1>4. AskedListed' /\ RateCovered'
  BY <1>0, <1>3 DEF AskedListed, RateCovered, FromCar
<1>5. PolledInv'
  <2>1. SUFFICES ASSUME NEW q \in Continuous, mHalEventSubscribeOptions'[q] # Unsubscribed
                 PROVE  /\ mHalEventSubscribeOptions'[q].rate # 0
                        /\ \/ mRecurrentTimer'[q] # 0
                           \/ \E t \in Calls : updatedOptions'[t][q] # 0
    BY DEF PolledInv
  <2>2. /\ mHalEventSubscribeOptions'[q] = mHalEventSubscribeOptions[q]
        /\ mRecurrentTimer'[q] = mRecurrentTimer[q]
    BY <1>0, <1>s, <2>1 DEF TypeOK
  <2> QED
    BY <1>0, <1>s, <2>1, <2>2 DEF PolledInv
<1> QED
  BY <1>1, <1>2, <1>4, <1>5 DEF IInv

\* The timer is told of a rate.
LEMMA HalSubscribeStep ==
  ASSUME IInv, NEW t \in Calls, NEW p \in Props, HalSubscribe(t, p)
  PROVE  IInv'
<1> USE SubscriptionAssumption
<1>0. TypeOK /\ MapsAgree /\ AskedListed /\ RateCovered /\ PolledInv
  BY DEF IInv
<1>s. /\ mRecurrentTimer' = [mRecurrentTimer EXCEPT ![p] = updatedOptions[t][p]]
      /\ updatedOptions' = [updatedOptions EXCEPT ![t][p] = 0]
      /\ UNCHANGED <<mapVars, status, props, asked, late>>
      /\ updatedOptions[t][p] # 0
  BY DEF HalSubscribe
<1>1. TypeOK'
  BY <1>0, <1>s DEF TypeOK, mapVars
<1>2. MapsAgree' /\ AskedListed' /\ RateCovered'
  BY <1>0, <1>s DEF MapsAgree, AskedListed, RateCovered, mapVars
<1>3. PolledInv'
  <2>1. SUFFICES ASSUME NEW q \in Continuous, mHalEventSubscribeOptions[q] # Unsubscribed
                 PROVE  \/ mRecurrentTimer'[q] # 0
                        \/ \E w \in Calls : updatedOptions'[w][q] # 0
    BY <1>0, <1>s DEF PolledInv, mapVars
  <2>2. CASE q = p
    BY <1>0, <1>s, <2>2 DEF TypeOK
  <2>3. CASE q # p
    <3>1. /\ mRecurrentTimer'[q] = mRecurrentTimer[q]
          /\ \A w \in Calls : updatedOptions'[w][q] = updatedOptions[w][q]
      BY <1>0, <1>s, <2>3 DEF TypeOK
    <3> QED
      BY <1>0, <2>1, <3>1 DEF PolledInv
  <2> QED
    BY <2>2, <2>3
<1> QED
  BY <1>1, <1>2, <1>3 DEF IInv

LEMMA StepIInv == IInv /\ [Next]_vars => IInv'
<1> SUFFICES ASSUME IInv, [Next]_vars PROVE IInv'
  OBVIOUS
<1>0. TypeOK
  BY DEF IInv
<1> USE DEF mapVars
<1>1. CASE \E t \in Calls, c \in Clients, o \in OptionLists : subscribe(t, c, o)
  BY <1>1, SubscribeStep
<1>2. CASE \E t \in Calls, p \in Props : HalSubscribe(t, p)
  BY <1>2, HalSubscribeStep
<1>3. CASE \E c \in Clients : ClientDies(c) \/ serviceDied(c) \/ onCallbackDead(c)
  <2>1. PICK c \in Clients : ClientDies(c) \/ serviceDied(c) \/ onCallbackDead(c)
    BY <1>3
  <2>2. UNCHANGED <<mapVars, updatedOptions, mRecurrentTimer, asked, late>>
    BY <2>1 DEF ClientDies, serviceDied, onCallbackDead
  <2>3. /\ status' \in [Clients -> {"alive", "dead", "reported", "collected"}]
        /\ props' \in [Clients -> SUBSET Props]
    BY <1>0, <2>1 DEF TypeOK, ClientDies, serviceDied, onCallbackDead, getSubscribedProperties
  <2>4. TypeOK'
    BY <1>0, <2>2, <2>3 DEF TypeOK
  <2> QED
    BY <2>2, <2>4 DEF IInv, MapsAgree, AskedListed, RateCovered, PolledInv
<1>4. CASE \E c \in Clients, p \in Props : Unsubscribe(c, p)
  <2>1. PICK c \in Clients, p \in Props : Unsubscribe(c, p)
    BY <1>4
  <2>2. unsubscribe(c, p) /\ UNCHANGED <<status, props>>
    BY <2>1 DEF Unsubscribe
  <2> QED
    BY <1>0, <2>2, UnsubscribeStep DEF TypeOK
<1>5. CASE \E c \in Clients, p \in Props : unsubscribeDead(c, p)
  <2>1. PICK c \in Clients, p \in Props : unsubscribeDead(c, p)
    BY <1>5
  <2>2. /\ unsubscribe(c, p) /\ UNCHANGED status
        /\ props' \in [Clients -> SUBSET Props]
    BY <1>0, <2>1 DEF unsubscribeDead, TypeOK
  <2> QED
    BY <1>0, <2>2, UnsubscribeStep DEF TypeOK
<1>6. CASE UNCHANGED vars
  BY <1>6 DEF vars, IInv, TypeOK, MapsAgree, AskedListed, RateCovered, PolledInv
<1> QED
  BY <1>1, <1>2, <1>3, <1>4, <1>5, <1>6 DEF Next

THEOREM Invariance == Spec => []IInv
BY InitIInv, StepIInv, PTL DEF Spec

-----------------------------------------------------------------------------
(* The properties the runs check.                                          *)

\* Every variable keeps its type: in particular no rate ever leaves the range
\* that checkSampleRate lets through.
THEOREM TypeCorrect == Spec => []TypeOK
<1>1. IInv => TypeOK
  BY DEF IInv
<1> QED
  BY <1>1, Invariance, PTL

\* The maps of SubscriptionManager agree after every call.
THEOREM MapsConsistent == Spec => []MapsAgree
<1>1. IInv => MapsAgree
  BY DEF IInv
<1> QED
  BY <1>1, Invariance, PTL

\* The HAL is subscribed to what every client asked for, at its rate or above.
THEOREM RequestsCovered == Spec => []RateCovered
<1>1. IInv => RateCovered
  BY DEF IInv
<1> QED
  BY <1>1, Invariance, PTL

\* A continuous property that a client wants is polled or about to be.
THEOREM RequestsPolled == Spec => []PolledWhileWanted
<1>1. IInv => PolledWhileWanted
  BY DEF IInv, RateCovered, PolledInv, PolledWhileWanted, FromCar, Unsubscribed
<1> QED
  BY <1>1, Invariance, PTL
=============================================================================
