---------------------------- MODULE PipelineProofs ----------------------------
(***************************************************************************)
(* Theorems about ReportPipeline, for any number of reports and restarts   *)
(* and any limit of the live queue: the types, that saved reports keep     *)
(* their order, that every report is accounted for, and that tasks, queues *)
(* and the file together implement StoreAndForward.                        *)
(***************************************************************************)
EXTENDS ReportPipeline, SequenceTheorems, TLAPS

-----------------------------------------------------------------------------
(* Sequences of reports: increasing, without repetition, one before the    *)
(* other.                                                                  *)

Inc(s) == \A i, j \in 1..Len(s) : i < j => s[i] < s[j]
Inj(s) == \A i, j \in 1..Len(s) : s[i] = s[j] => i = j
Below(A, B) == \A x \in A, y \in B : x < y

\* Reports are natural numbers.
LEMMA ReportNumbers ==
  Reports \subseteq Nat /\ None \notin Reports
BY PipelineAssumption DEF Reports, None

LEMMA SetOf ==
  ASSUME NEW s \in Seq(Reports)
  PROVE  /\ ToSet(s) = {s[i] : i \in 1..Len(s)}
         /\ ToSet(s) \subseteq Reports
BY DEF ToSet

LEMMA OfEmpty ==
  ToSet(<<>>) = {} /\ Inc(<<>>) /\ Inj(<<>>)
BY DEF ToSet, Inc, Inj

LEMMA OfOne ==
  ASSUME NEW x \in Reports
  PROVE  <<x>> \in Seq(Reports) /\ ToSet(<<x>>) = {x} /\ Inc(<<x>>) /\ Inj(<<x>>)
BY DEF ToSet, Inc, Inj

LEMMA OfAppend ==
  ASSUME NEW s \in Seq(Reports), NEW x \in Reports
  PROVE  /\ Append(s, x) \in Seq(Reports)
         /\ ToSet(Append(s, x)) = ToSet(s) \cup {x}
         /\ Inc(s) /\ Below(ToSet(s), {x}) => Inc(Append(s, x))
         /\ Inj(s) /\ x \notin ToSet(s) => Inj(Append(s, x))
<1> DEFINE t == Append(s, x)
<1>1. /\ t \in Seq(Reports) /\ Len(t) = Len(s) + 1 /\ Len(s) \in Nat
      /\ \A i \in 1..Len(s) : t[i] = s[i] /\ t[Len(s) + 1] = x
  BY AppendProperties
<1> HIDE DEF t
<1>a. t[Len(s) + 1] = x
  BY AppendProperties DEF t
<1>2. ToSet(t) = {t[i] : i \in 1..Len(t)} /\ ToSet(s) = {s[i] : i \in 1..Len(s)}
  BY <1>1, SetOf
<1>3. ToSet(t) = ToSet(s) \cup {x}
  <2>1. ASSUME NEW y \in ToSet(t) PROVE y \in ToSet(s) \cup {x}
    BY <1>1, <1>a, <1>2, <2>1
  <2>2. ASSUME NEW y \in ToSet(s) PROVE y \in ToSet(t)
    BY <1>1, <1>2, <2>2
  <2>3. x \in ToSet(t)
    BY <1>1, <1>a, <1>2
  <2> QED
    BY <2>1, <2>2, <2>3
<1>4. ASSUME Inc(s), Below(ToSet(s), {x}) PROVE Inc(t)
  <2> SUFFICES ASSUME NEW i \in 1..Len(t), NEW j \in 1..Len(t), i < j PROVE t[i] < t[j]
    BY DEF Inc
  <2>1. i \in 1..Len(s)
    BY <1>1
  <2>2. CASE j \in 1..Len(s)
    BY <1>1, <1>4, <2>1, <2>2 DEF Inc
  <2>3. CASE j = Len(s) + 1
    BY <1>1, <1>a, <1>2, <1>4, <2>1, <2>3 DEF Below
  <2> QED
    BY <1>1, <2>2, <2>3
<1>5. ASSUME Inj(s), x \notin ToSet(s) PROVE Inj(t)
  <2> SUFFICES ASSUME NEW i \in 1..Len(t), NEW j \in 1..Len(t), t[i] = t[j] PROVE i = j
    BY DEF Inj
  <2>1. CASE i \in 1..Len(s) /\ j \in 1..Len(s)
    BY <1>1, <1>5, <2>1 DEF Inj
  <2>2. CASE i \in 1..Len(s) /\ j = Len(s) + 1
    BY <1>1, <1>a, <1>2, <1>5, <2>2
  <2>3. CASE i = Len(s) + 1 /\ j \in 1..Len(s)
    BY <1>1, <1>a, <1>2, <1>5, <2>3
  <2> QED
    BY <1>1, <2>1, <2>2, <2>3
<1> QED
  BY <1>1, <1>3, <1>4, <1>5 DEF t

LEMMA OfTail ==
  ASSUME NEW s \in Seq(Reports), s # <<>>
  PROVE  /\ Head(s) \in Reports /\ Tail(s) \in Seq(Reports)
         /\ ToSet(s) = {Head(s)} \cup ToSet(Tail(s))
         /\ Inc(s) => Inc(Tail(s)) /\ Below({Head(s)}, ToSet(Tail(s)))
         /\ Inj(s) => Inj(Tail(s)) /\ Head(s) \notin ToSet(Tail(s))
<1> DEFINE t == Tail(s)
           h == Head(s)
<1>1. /\ h \in Reports /\ t \in Seq(Reports) /\ Len(t) = Len(s) - 1 /\ Len(s) \in Nat /\ Len(s) > 0
      /\ \A i \in 1..Len(t) : t[i] = s[i + 1]
  BY HeadTailProperties, EmptySeq
<1>2. h = s[1]
  BY <1>1
<1> HIDE DEF t, h
<1>3. ToSet(t) = {t[i] : i \in 1..Len(t)} /\ ToSet(s) = {s[i] : i \in 1..Len(s)}
  BY <1>1, SetOf
<1>4. ToSet(s) = {h} \cup ToSet(t)
  <2>1. ASSUME NEW y \in ToSet(s) PROVE y \in {h} \cup ToSet(t)
    <3>1. PICK i \in 1..Len(s) : y = s[i]
      BY <1>3
    <3>2. CASE i = 1
      BY <1>2, <3>1, <3>2
    <3>3. CASE i # 1
      <4>1. i - 1 \in 1..Len(t) /\ t[i - 1] = s[i]
        BY <1>1, <3>3
      <4> QED
        BY <1>3, <3>1, <4>1
    <3> QED
      BY <3>2, <3>3
  <2>2. ASSUME NEW y \in ToSet(t) PROVE y \in ToSet(s)
    <3>1. PICK i \in 1..Len(t) : y = t[i]
      BY <1>3
    <3>2. i + 1 \in 1..Len(s) /\ s[i + 1] = y
      BY <1>1, <3>1
    <3> QED
      BY <1>3, <3>2
  <2>3. h \in ToSet(s)
    BY <1>1, <1>2, <1>3
  <2> QED
    BY <2>1, <2>2, <2>3
<1>5. ASSUME Inc(s) PROVE Inc(t) /\ Below({h}, ToSet(t))
  <2>1. Inc(t)
    BY <1>1, <1>5 DEF Inc
  <2>2. ASSUME NEW y \in ToSet(t) PROVE h < y
    <3>1. PICK i \in 1..Len(t) : y = t[i]
      BY <1>3
    <3> QED
      BY <1>1, <1>2, <1>5, <3>1 DEF Inc
  <2> QED
    BY <2>1, <2>2 DEF Below
<1>6. ASSUME Inj(s) PROVE Inj(t) /\ h \notin ToSet(t)
  <2>1. Inj(t)
    <3> SUFFICES ASSUME NEW i \in 1..Len(t), NEW j \in 1..Len(t), t[i] = t[j] PROVE i = j
      BY DEF Inj
    <3>1. i + 1 \in 1..Len(s) /\ j + 1 \in 1..Len(s) /\ s[i + 1] = s[j + 1]
      BY <1>1
    <3>2. i + 1 = j + 1
      BY <1>6, <3>1 DEF Inj
    <3> QED
      BY <3>2
  <2>2. ASSUME h \in ToSet(t) PROVE FALSE
    <3>1. PICK i \in 1..Len(t) : h = t[i]
      BY <1>3, <2>2
    <3>2. i + 1 \in 1..Len(s) /\ 1 \in 1..Len(s) /\ s[i + 1] = s[1]
      BY <1>1, <1>2, <3>1
    <3>3. i + 1 = 1
      BY <1>6, <3>2 DEF Inj
    <3> QED
      BY <3>3
  <2> QED
    BY <2>1, <2>2
<1> QED
  BY <1>1, <1>4, <1>5, <1>6 DEF t, h

LEMMA OfConcat ==
  ASSUME NEW s \in Seq(Reports), NEW t \in Seq(Reports)
  PROVE  /\ s \o t \in Seq(Reports)
         /\ ToSet(s \o t) = ToSet(s) \cup ToSet(t)
         /\ Inc(s) /\ Inc(t) /\ Below(ToSet(s), ToSet(t)) => Inc(s \o t)
         /\ Inj(s) /\ Inj(t) /\ ToSet(s) \cap ToSet(t) = {} => Inj(s \o t)
<1> DEFINE u == s \o t
<1>1. /\ u \in Seq(Reports) /\ Len(u) = Len(s) + Len(t) /\ Len(s) \in Nat /\ Len(t) \in Nat
      /\ \A i \in 1..(Len(s) + Len(t)) : u[i] = IF i <= Len(s) THEN s[i] ELSE t[i - Len(s)]
  BY ConcatProperties
<1> HIDE DEF u
<1>2. /\ ToSet(t) = {t[i] : i \in 1..Len(t)} /\ ToSet(s) = {s[i] : i \in 1..Len(s)}
      /\ ToSet(u) = {u[i] : i \in 1..Len(u)}
  BY <1>1, SetOf
<1>3. \A i \in 1..Len(u) : \/ i \in 1..Len(s) /\ u[i] = s[i] /\ u[i] \in ToSet(s)
                           \/ /\ i > Len(s) /\ i - Len(s) \in 1..Len(t)
                              /\ u[i] = t[i - Len(s)] /\ u[i] \in ToSet(t)
  BY <1>1, <1>2
<1>4. ToSet(u) = ToSet(s) \cup ToSet(t)
  <2>1. ASSUME NEW y \in ToSet(u) PROVE y \in ToSet(s) \cup ToSet(t)
    BY <1>2, <1>3
  <2>2. ASSUME NEW y \in ToSet(s) PROVE y \in ToSet(u)
    <3>1. PICK i \in 1..Len(s) : y = s[i]
      BY <1>2
    <3>2. i \in 1..Len(u) /\ u[i] = y
      BY <1>1, <3>1
    <3> QED
      BY <1>2, <3>2
  <2>3. ASSUME NEW y \in ToSet(t) PROVE y \in ToSet(u)
    <3>1. PICK i \in 1..Len(t) : y = t[i]
      BY <1>2
    <3>2. i + Len(s) \in 1..Len(u) /\ i + Len(s) \in 1..(Len(s) + Len(t))
          /\ ~(i + Len(s) <= Len(s)) /\ (i + Len(s)) - Len(s) = i
      BY <1>1
    <3>3. u[i + Len(s)] = y
      BY <1>1, <3>1, <3>2
    <3> QED
      BY <1>2, <3>2, <3>3
  <2> QED
    BY <2>1, <2>2, <2>3
<1>5. ASSUME Inc(s), Inc(t), Below(ToSet(s), ToSet(t)) PROVE Inc(u)
  <2> SUFFICES ASSUME NEW i \in 1..Len(u), NEW j \in 1..Len(u), i < j PROVE u[i] < u[j]
    BY DEF Inc
  <2>1. CASE i \in 1..Len(s) /\ j \in 1..Len(s)
    BY <1>1, <1>5, <2>1 DEF Inc
  <2>2. CASE i \in 1..Len(s) /\ j > Len(s)
    BY <1>1, <1>3, <1>5, <2>2 DEF Below
  <2>3. CASE i > Len(s) /\ j > Len(s)
    <3>1. i - Len(s) \in 1..Len(t) /\ j - Len(s) \in 1..Len(t) /\ i - Len(s) < j - Len(s)
      BY <1>1, <2>3
    <3>2. u[i] = t[i - Len(s)] /\ u[j] = t[j - Len(s)]
      BY <1>1, <2>3
    <3> QED
      BY <1>5, <3>1, <3>2 DEF Inc
  <2> QED
    BY <1>1, <2>1, <2>2, <2>3
<1>6. ASSUME Inj(s), Inj(t), ToSet(s) \cap ToSet(t) = {} PROVE Inj(u)
  <2> SUFFICES ASSUME NEW i \in 1..Len(u), NEW j \in 1..Len(u), u[i] = u[j] PROVE i = j
    BY DEF Inj
  <2>1. CASE i \in 1..Len(s) /\ j \in 1..Len(s)
    BY <1>1, <1>6, <2>1 DEF Inj
  <2>2. CASE i > Len(s) /\ j > Len(s)
    <3>1. i - Len(s) \in 1..Len(t) /\ j - Len(s) \in 1..Len(t)
      BY <1>1, <2>2
    <3>2. t[i - Len(s)] = t[j - Len(s)]
      BY <1>1, <2>2
    <3>3. i - Len(s) = j - Len(s)
      BY <1>6, <3>1, <3>2 DEF Inj
    <3> QED
      BY <1>1, <3>3
  <2>3. CASE (i > Len(s)) # (j > Len(s))
    BY <1>1, <1>3, <1>6, <2>3
  <2> QED
    BY <1>1, <2>1, <2>2, <2>3
<1> QED
  BY <1>1, <1>4, <1>5, <1>6 DEF u

-----------------------------------------------------------------------------
(* The backlog: seven sequences, the one that is sent first first.         *)

Stations == 1..7
backlog == <<mCacheSendQueue, mCacheResult, file, Opt(saveDataMessage), mSaveQueue,
             IF pcCons = "save" THEN Opt(msg) ELSE <<>>, mMsgQueue>>

Ordered(p) ==
  /\ \A a \in Stations : p[a] \in Seq(Reports) /\ Inc(p[a])
  /\ \A a, b \in Stations : a < b => Below(ToSet(p[a]), ToSet(p[b]))

\* Reports may leave any station.
LEMMA Thinned ==
  ASSUME NEW p, NEW q, Ordered(p),
         \A a \in Stations :
           q[a] \in Seq(Reports) /\ Inc(q[a]) /\ ToSet(q[a]) \subseteq ToSet(p[a])
  PROVE  Ordered(q)
BY DEF Ordered, Below

\* The first report of a station may go to the end of the one before.
LEMMA Moved ==
  ASSUME NEW p, NEW q, Ordered(p), NEW a \in 2..7, p[a] # <<>>,
         q[a] = Tail(p[a]), q[a - 1] = Append(p[a - 1], Head(p[a])),
         \A b \in Stations \ {a, a - 1} : q[b] = p[b]
  PROVE  Ordered(q)
<1> DEFINE h == Head(p[a])
<1>1. a \in Stations /\ a - 1 \in Stations /\ a - 1 < a
  BY DEF Stations
<1>2. /\ p[a] \in Seq(Reports) /\ p[a - 1] \in Seq(Reports) /\ Inc(p[a]) /\ Inc(p[a - 1])
      /\ Below(ToSet(p[a - 1]), ToSet(p[a]))
  BY <1>1 DEF Ordered
<1>3. /\ h \in Reports /\ q[a] \in Seq(Reports) /\ Inc(q[a])
      /\ ToSet(p[a]) = {h} \cup ToSet(q[a]) /\ Below({h}, ToSet(q[a]))
  <2>1. /\ h \in Reports /\ Tail(p[a]) \in Seq(Reports) /\ Inc(Tail(p[a]))
        /\ ToSet(p[a]) = {h} \cup ToSet(Tail(p[a])) /\ Below({h}, ToSet(Tail(p[a])))
    BY <1>2, OfTail
  <2> QED
    BY <2>1
<1> HIDE DEF h
<1>4. Below(ToSet(p[a - 1]), {h})
  BY <1>2, <1>3 DEF Below
<1>5. /\ q[a - 1] \in Seq(Reports) /\ Inc(q[a - 1])
      /\ ToSet(q[a - 1]) = ToSet(p[a - 1]) \cup {h}
  BY <1>2, <1>3, <1>4, OfAppend DEF h
<1>6. \A b \in Stations : q[b] \in Seq(Reports) /\ Inc(q[b])
  BY <1>3, <1>5 DEF Ordered
<1>7. ASSUME NEW b \in Stations, NEW c \in Stations, b < c
      PROVE  Below(ToSet(q[b]), ToSet(q[c]))
  <2>1. Below(ToSet(p[b]), ToSet(p[c]))
    BY <1>7 DEF Ordered
  <2>2. Below(ToSet(p[b]), ToSet(p[a])) \/ ~(b < a)
    BY <1>1 DEF Ordered
  <2>3. Below(ToSet(p[a]), ToSet(p[c])) \/ ~(a < c)
    BY <1>1 DEF Ordered
  <2>4. CASE b = a - 1 /\ c = a
    BY <1>2, <1>3, <1>5, <2>4 DEF Below
  <2>5. CASE b = a - 1 /\ c > a
    <3>1. q[c] = p[c]
      BY <2>5, <1>1
    <3> QED
      BY <1>1, <1>3, <1>5, <2>1, <2>3, <2>5, <3>1 DEF Below
  <2>6. CASE b = a
    <3>1. q[c] = p[c]
      BY <1>7, <2>6, <1>1 DEF Stations
    <3> QED
      BY <1>3, <2>1, <2>6, <3>1 DEF Below
  <2>7. CASE b # a /\ b # a - 1
    <3>1. q[b] = p[b]
      BY <2>7
    <3>2. CASE c = a - 1
      <4>1. b < a
        BY <1>7, <3>2 DEF Stations
      <4> QED
        BY <1>3, <1>5, <2>1, <2>2, <3>1, <3>2, <4>1 DEF Below
    <3>3. CASE c = a
      BY <1>3, <2>1, <3>1, <3>3 DEF Below
    <3>4. CASE c # a /\ c # a - 1
      BY <2>1, <3>1, <3>4
    <3> QED
      BY <3>2, <3>3, <3>4
  <2> QED
    BY <1>7, <2>4, <2>5, <2>6, <2>7 DEF Stations
<1> QED
  BY <1>6, <1>7 DEF Ordered

\* Seven sequences in order are one sequence in order.
LEMMA OrderedConcat ==
  ASSUME Ordered(backlog)
  PROVE  Inc(Backlog) /\ Backlog \in Seq(Reports)
<1> DEFINE p == backlog
           s2 == p[1] \o p[2]
           s3 == s2 \o p[3]
           s4 == s3 \o p[4]
           s5 == s4 \o p[5]
           s6 == s5 \o p[6]
           s7 == s6 \o p[7]
<1>1. Backlog = s7
  BY DEF Backlog, Store, backlog
<1> HIDE DEF p
<1>2. /\ \A a \in 1..7 : p[a] \in Seq(Reports) /\ Inc(p[a])
      /\ \A a, b \in 1..7 : a < b => Below(ToSet(p[a]), ToSet(p[b]))
  BY DEF Ordered, p, Stations
<1>3. /\ s2 \in Seq(Reports) /\ Inc(s2) /\ ToSet(s2) = ToSet(p[1]) \cup ToSet(p[2])
  BY <1>2, OfConcat
<1> HIDE DEF s2
<1>4. /\ s3 \in Seq(Reports) /\ ToSet(s3) = ToSet(s2) \cup ToSet(p[3]) /\ Inc(s3)
  <2>1. Below(ToSet(s2), ToSet(p[3]))
    BY <1>2, <1>3 DEF Below
  <2>2. p[3] \in Seq(Reports) /\ Inc(p[3])
    BY <1>2
  <2> QED
    BY <1>3, <2>1, <2>2, OfConcat
<1> HIDE DEF s3
<1>5. /\ s4 \in Seq(Reports) /\ ToSet(s4) = ToSet(s3) \cup ToSet(p[4]) /\ Inc(s4)
  <2>1. Below(ToSet(s3), ToSet(p[4]))
    BY <1>2, <1>3, <1>4 DEF Below
  <2>2. p[4] \in Seq(Reports) /\ Inc(p[4])
    BY <1>2
  <2> QED
    BY <1>4, <2>1, <2>2, OfConcat
<1> HIDE DEF s4
<1>6. /\ s5 \in Seq(Reports) /\ ToSet(s5) = ToSet(s4) \cup ToSet(p[5]) /\ Inc(s5)
  <2>1. Below(ToSet(s4), ToSet(p[5]))
    BY <1>2, <1>3, <1>4, <1>5 DEF Below
  <2>2. p[5] \in Seq(Reports) /\ Inc(p[5])
    BY <1>2
  <2> QED
    BY <1>5, <2>1, <2>2, OfConcat
<1> HIDE DEF s5
<1>7. /\ s6 \in Seq(Reports) /\ ToSet(s6) = ToSet(s5) \cup ToSet(p[6]) /\ Inc(s6)
  <2>1. Below(ToSet(s5), ToSet(p[6]))
    BY <1>2, <1>3, <1>4, <1>5, <1>6 DEF Below
  <2>2. p[6] \in Seq(Reports) /\ Inc(p[6])
    BY <1>2
  <2> QED
    BY <1>6, <2>1, <2>2, OfConcat
<1> HIDE DEF s6
<1>8. /\ s7 \in Seq(Reports) /\ Inc(s7)
  <2>1. Below(ToSet(s6), ToSet(p[7]))
    BY <1>2, <1>3, <1>4, <1>5, <1>6, <1>7 DEF Below
  <2>2. p[7] \in Seq(Reports) /\ Inc(p[7])
    BY <1>2
  <2> QED
    BY <1>7, <2>1, <2>2, OfConcat
<1> QED
  BY <1>1, <1>8

-----------------------------------------------------------------------------
(* Types.  A task that is about to put a report somewhere has one in hand. *)

Hand == pcCons \in {"save", "send"} <=> msg # None
TypeInv == TypeOK /\ Hand

LEMMA QueueTypes ==
  ASSUME TypeOK
  PROVE  /\ mMsgQueue \in Seq(Reports) /\ mSaveQueue \in Seq(Reports)
         /\ mCacheSendQueue \in Seq(Reports) /\ mSendQueue \in Seq(Reports)
         /\ mCacheResult \in Seq(Reports) /\ file \in Seq(Reports)
         /\ lines \in Seq(Reports)
BY DEF TypeOK

LEMMA TypeInit ==
  ASSUME Init
  PROVE  TypeInv
<1>1. <<>> \in Seq(Reports)
  OBVIOUS
<1> QED
  BY <1>1, PipelineAssumption DEF Init, TypeInv, TypeOK, Hand

\* What a queue gives and takes.
LEMMA HeadOf ==
  ASSUME NEW q \in Seq(Reports), q # <<>>
  PROVE  Head(q) \in Reports /\ Head(q) # None /\ Tail(q) \in Seq(Reports)
         /\ ToSet(q) \subseteq Reports /\ Head(q) \in ToSet(q)
BY OfTail, SetOf, ReportNumbers

LEMMA TypeConsumer ==
  ASSUME TypeInv, MessageconsumerTask
  PROVE  TypeInv'
<1> USE DEF TypeInv, Hand
<1>1. CASE StartDump
  BY <1>1 DEF StartDump, TypeOK, cacheVars, saveVars, envVars, histVars
<1>2. CASE DumpTake
  <2>1. Head(mMsgQueue) \in Reports \ {None} /\ Tail(mMsgQueue) \in Seq(Reports)
    BY <1>2, QueueTypes, HeadOf DEF DumpTake
  <2> QED
    BY <1>2, <2>1 DEF DumpTake, TypeOK, cacheVars, saveVars, envVars, histVars
<1>3. CASE DumpPut
  <2>1. msg \in Reports
    BY <1>3 DEF DumpPut, TypeOK
  <2>2. Append(mSaveQueue, msg) \in Seq(Reports)
    BY <2>1, QueueTypes, OfAppend
  <2> QED
    BY <1>3, <2>2 DEF DumpPut, TypeOK, cacheVars, saveVars, envVars, histVars
<1>4. CASE DumpEnd
  BY <1>4 DEF DumpEnd, TypeOK, cacheVars, saveVars, envVars, histVars
<1>5. CASE TakeLive
  <2>1. Head(mMsgQueue) \in Reports \ {None} /\ Tail(mMsgQueue) \in Seq(Reports)
    BY <1>5, QueueTypes, HeadOf DEF TakeLive
  <2> QED
    BY <1>5, <2>1 DEF TakeLive, TypeOK, cacheVars, saveVars, envVars, histVars
<1>6. CASE TakeCached
  <2>1. Head(mCacheSendQueue) \in Reports \ {None} /\ Tail(mCacheSendQueue) \in Seq(Reports)
    BY <1>6, QueueTypes, HeadOf DEF TakeCached
  <2> QED
    BY <1>6, <2>1 DEF TakeCached, TypeOK, saveVars, envVars, histVars
<1>7. CASE SendPut
  <2>1. msg \in Reports
    BY <1>7 DEF SendPut, TypeOK
  <2>2. Append(mSendQueue, msg) \in Seq(Reports)
    BY <2>1, QueueTypes, OfAppend
  <2> QED
    BY <1>7, <2>2 DEF SendPut, TypeOK, cacheVars, saveVars, envVars, histVars
<1> QED
  BY <1>1, <1>2, <1>3, <1>4, <1>5, <1>6, <1>7 DEF MessageconsumerTask

LEMMA TypeSender ==
  ASSUME TypeInv, SendTask
  PROVE  TypeInv'
<1> USE DEF TypeInv, Hand
<1>1. CASE SendTest
  BY <1>1 DEF SendTest, TypeOK, consVars, saveVars, envVars, histVars
<1>2. CASE CacheFull
  BY <1>2 DEF CacheFull, TypeOK, consVars, saveVars, envVars, histVars
<1>3. CASE ReadLines
  BY <1>3 DEF ReadLines, TypeOK, consVars, saveVars, envVars, histVars
<1>4. CASE RemoveFile
  <2>1. <<>> \in Seq(Reports) /\ ToSet(file) \subseteq Reports
    BY QueueTypes, SetOf
  <2> QED
    BY <1>4, <2>1 DEF RemoveFile, FileRemoved, TypeOK, consVars, saveVars, envVars
<1>5. CASE StartPush
  BY <1>5 DEF StartPush, TypeOK, consVars, saveVars, envVars, histVars
<1>6. CASE Push
  <2>1. Head(mCacheResult) \in Reports /\ Tail(mCacheResult) \in Seq(Reports)
    BY <1>6, QueueTypes, HeadOf DEF Push
  <2>2. Append(mCacheSendQueue, Head(mCacheResult)) \in Seq(Reports)
    BY <2>1, QueueTypes, OfAppend
  <2> QED
    BY <1>6, <2>1, <2>2 DEF Push, TypeOK, consVars, saveVars, envVars
<1>7. CASE EndPush
  BY <1>7 DEF EndPush, TypeOK, consVars, saveVars, envVars, histVars
<1> QED
  BY <1>1, <1>2, <1>3, <1>4, <1>5, <1>6, <1>7 DEF SendTask

\* What the places of the memory hold are reports.
LEMMA HandTypes ==
  ASSUME TypeOK
  PROVE  /\ Opt(msg) \in Seq(Reports) /\ Inc(Opt(msg)) /\ Inj(Opt(msg))
         /\ Opt(saveDataMessage) \in Seq(Reports) /\ Inc(Opt(saveDataMessage))
         /\ Inj(Opt(saveDataMessage))
<1>1. ASSUME NEW r \in Reports \cup {None}
      PROVE  Opt(r) \in Seq(Reports) /\ Inc(Opt(r)) /\ Inj(Opt(r))
  <2>1. CASE r = None
    BY <2>1, OfEmpty DEF Opt
  <2>2. CASE r \in Reports
    BY <2>2, OfOne, ReportNumbers DEF Opt
  <2> QED
    BY <2>1, <2>2
<1> QED
  BY <1>1 DEF TypeOK

LEMMA MemoryTypes ==
  ASSUME TypeOK
  PROVE  ToSet(Memory) \subseteq Reports
<1>1. Memory \in Seq(Reports)
  <2>1. mMsgQueue \o Opt(msg) \in Seq(Reports)
    BY QueueTypes, HandTypes, OfConcat
  <2>2. (mMsgQueue \o Opt(msg)) \o mSaveQueue \in Seq(Reports)
    BY <2>1, QueueTypes, OfConcat
  <2>3. ((mMsgQueue \o Opt(msg)) \o mSaveQueue) \o Opt(saveDataMessage) \in Seq(Reports)
    BY <2>2, HandTypes, OfConcat
  <2>4. (((mMsgQueue \o Opt(msg)) \o mSaveQueue) \o Opt(saveDataMessage)) \o mCacheSendQueue
          \in Seq(Reports)
    BY <2>3, QueueTypes, OfConcat
  <2>5. ((((mMsgQueue \o Opt(msg)) \o mSaveQueue) \o Opt(saveDataMessage)) \o mCacheSendQueue)
          \o mSendQueue \in Seq(Reports)
    BY <2>4, QueueTypes, OfConcat
  <2> QED
    BY <2>5, QueueTypes, OfConcat DEF Memory
<1> QED
  BY <1>1, SetOf

LEMMA TypeStep ==
  ASSUME TypeInv, Next
  PROVE  TypeInv'
<1>1. CASE MessageCreateTask
  <2>1. created + 1 \in Reports
    BY <1>1, PipelineAssumption DEF MessageCreateTask, TypeInv, TypeOK, Reports
  <2>2. Append(mMsgQueue, created + 1) \in Seq(Reports)
    BY <2>1, QueueTypes, OfAppend DEF TypeInv
  <2>3. created' \in 0..ReportBound
    BY <1>1, PipelineAssumption DEF MessageCreateTask, TypeInv, TypeOK
  <2> QED
    BY <1>1, <2>2, <2>3
    DEF MessageCreateTask, TypeInv, TypeOK, Hand, consVars, cacheVars, saveVars, envVars
<1>2. CASE MessageconsumerTask
  BY <1>2, TypeConsumer
<1>3. CASE SaveTake
  <2>1. Head(mSaveQueue) \in Reports /\ Tail(mSaveQueue) \in Seq(Reports)
    BY <1>3, QueueTypes, HeadOf DEF SaveTake, TypeInv
  <2> QED
    BY <1>3, <2>1
    DEF SaveTake, TypeInv, TypeOK, Hand, consVars, cacheVars, envVars, histVars
<1>4. CASE appendMessage
  <2>1. Append(file, saveDataMessage) \in Seq(Reports)
    BY <1>4, QueueTypes, OfAppend DEF appendMessage, TypeInv, TypeOK
  <2> QED
    BY <1>4, <2>1
    DEF appendMessage, TypeInv, TypeOK, Hand, consVars, cacheVars, envVars, histVars
<1>5. CASE SendTask
  BY <1>5, TypeSender
<1>6. CASE sendFunc
  <2>1. Head(mSendQueue) \in Reports /\ Tail(mSendQueue) \in Seq(Reports)
    BY <1>6, QueueTypes, HeadOf DEF sendFunc, TypeInv
  <2> QED
    BY <1>6, <2>1
    DEF sendFunc, TypeInv, TypeOK, Hand, consVars, cacheVars, saveVars, envVars
<1>7. CASE TimeOk
  BY <1>7 DEF TimeOk, TypeInv, TypeOK, Hand, consVars, cacheVars, saveVars, histVars
<1>8. CASE LinkLost
  BY <1>8 DEF LinkLost, TypeInv, TypeOK, Hand, consVars, cacheVars, saveVars, histVars
<1>9. CASE stop
  BY <1>9 DEF stop, TypeInv, TypeOK, Hand, consVars, cacheVars, saveVars, histVars
<1>10. CASE Start
  <2>1. ToSet(mSendQueue) \subseteq Reports /\ <<>> \in Seq(Reports)
    BY QueueTypes, SetOf DEF TypeInv
  <2> QED
    BY <1>10, <2>1
    DEF Start, TypeInv, TypeOK, Hand, consVars, cacheVars, saveVars
<1>11. CASE Restart
  <2>1. ToSet(Memory) \subseteq Reports /\ <<>> \in Seq(Reports)
    BY MemoryTypes DEF TypeInv
  <2>2. dropped' \subseteq Reports /\ crashes' \in 0..CrashBound
    BY <1>11, <2>1, PipelineAssumption DEF Restart, TypeInv, TypeOK
  <2> QED
    BY <1>11, <2>1, <2>2 DEF Restart, TypeInv, TypeOK, Hand
<1> QED
  BY <1>1, <1>2, <1>3, <1>4, <1>5, <1>6, <1>7, <1>8, <1>9, <1>10, <1>11
  DEF Next, MessageSaveTask

LEMMA TypeInvariant ==
  Spec => []TypeInv
<1>1. Init => TypeInv
  BY TypeInit
<1>2. TypeInv /\ [Next]_vars => TypeInv'
  <2>1. ASSUME TypeInv, UNCHANGED vars PROVE TypeInv'
    BY <2>1
    DEF TypeInv, TypeOK, Hand, vars, consVars, cacheVars, saveVars, envVars, histVars
  <2> QED
    BY <2>1, TypeStep
<1> QED
  BY <1>1, <1>2, PTL DEF Spec

\* The queues, the file and the hands of the tasks hold reports, and the tasks
\* are at a place of their code, for any number of reports and restarts.
THEOREM TypeCorrect ==
  Spec => []TypeOK
<1>1. TypeInv => TypeOK
  BY DEF TypeInv
<1> QED
  BY <1>1, TypeInvariant, PTL

-----------------------------------------------------------------------------
(* The order of the backlog.  To keep it, a report must not be newer than  *)
(* the counter, and while the file is read there must be nothing before it *)
(* in the line, and nothing read that the file does not hold.              *)

Fresh(p, n) == \A a \in Stations : ToSet(p[a]) \subseteq 1..n
Reading ==
  pcSend = "remove" =>
    /\ mCacheSendQueue = <<>> /\ mCacheResult = <<>>
    /\ Inc(lines) /\ ToSet(lines) \subseteq ToSet(file)
InLine == Ordered(backlog) /\ Fresh(backlog, created)
OrderInv == TypeInv /\ InLine /\ Reading

\* A report leaves the first place of a station: it is gone, or goes on.
Leaves(p, q, a) ==
  /\ p[a] # <<>> /\ q[a] = Tail(p[a])
  /\ \A b \in Stations \ {a} : q[b] = p[b]
Advances(p, q, a) ==
  /\ p[a] # <<>> /\ q[a] = Tail(p[a]) /\ q[a - 1] = Append(p[a - 1], Head(p[a]))
  /\ \A b \in Stations \ {a, a - 1} : q[b] = p[b]

LEMMA LeavesInLine ==
  ASSUME NEW p, NEW q, NEW n, Ordered(p), Fresh(p, n), NEW a \in Stations, Leaves(p, q, a)
  PROVE  Ordered(q) /\ Fresh(q, n)
<1>1. p[a] \in Seq(Reports) /\ Inc(p[a]) /\ p[a] # <<>>
  BY DEF Ordered, Leaves
<1>2. /\ Tail(p[a]) \in Seq(Reports) /\ Inc(Tail(p[a]))
      /\ ToSet(Tail(p[a])) \subseteq ToSet(p[a])
  BY <1>1, OfTail
<1>3. \A b \in Stations :
        q[b] \in Seq(Reports) /\ Inc(q[b]) /\ ToSet(q[b]) \subseteq ToSet(p[b])
  BY <1>2 DEF Ordered, Leaves
<1>4. Ordered(q)
  BY <1>3, Thinned
<1> QED
  BY <1>3, <1>4 DEF Fresh

LEMMA AdvancesInLine ==
  ASSUME NEW p, NEW q, NEW n, Ordered(p), Fresh(p, n), NEW a \in 2..7, Advances(p, q, a)
  PROVE  Ordered(q) /\ Fresh(q, n)
<1>1. Ordered(q)
  BY Moved DEF Advances
<1>2. a \in Stations /\ a - 1 \in Stations
  BY DEF Stations
<1>3. p[a] \in Seq(Reports) /\ p[a] # <<>> /\ p[a - 1] \in Seq(Reports)
  BY <1>2 DEF Ordered, Advances
<1>4. /\ ToSet(p[a]) = {Head(p[a])} \cup ToSet(Tail(p[a])) /\ Head(p[a]) \in Reports
  BY <1>3, OfTail
<1>5. ToSet(Append(p[a - 1], Head(p[a]))) = ToSet(p[a - 1]) \cup {Head(p[a])}
  BY <1>3, <1>4, OfAppend
<1>6. ToSet(q[a]) \subseteq 1..n /\ ToSet(q[a - 1]) \subseteq 1..n
  BY <1>2, <1>4, <1>5 DEF Fresh, Advances
<1>7. Fresh(q, n)
  BY <1>6 DEF Fresh, Advances
<1> QED
  BY <1>1, <1>7

\* The file is taken out of the line and what was read of it is put before it.
LEMMA RereadInLine ==
  ASSUME NEW p, NEW q, NEW n, Ordered(p), Fresh(p, n), NEW s \in Seq(Reports), Inc(s),
         ToSet(s) \subseteq ToSet(p[3]), p[1] = <<>>, q[1] = <<>>, q[2] = s, q[3] = <<>>,
         \A b \in 4..7 : q[b] = p[b]
  PROVE  Ordered(q) /\ Fresh(q, n)
<1>1. \A b \in Stations : b \in {1, 2, 3} \/ b \in 4..7
  BY DEF Stations
<1>2. \A b \in Stations : q[b] \in Seq(Reports) /\ Inc(q[b])
  <2>1. <<>> \in Seq(Reports) /\ Inc(<<>>)
    BY OfEmpty
  <2>2. \A b \in 4..7 : q[b] \in Seq(Reports) /\ Inc(q[b])
    BY DEF Ordered, Stations
  <2> QED
    BY <1>1, <2>1, <2>2
<1>3. ASSUME NEW b \in Stations, NEW c \in Stations, b < c
      PROVE  Below(ToSet(q[b]), ToSet(q[c]))
  <2>1. CASE b \in {1, 3}
    BY <2>1, OfEmpty DEF Below
  <2>2. CASE c = 3
    BY <2>2, OfEmpty DEF Below
  <2>3. CASE b = 2 /\ c \in 4..7
    <3>1. Below(ToSet(p[3]), ToSet(p[c]))
      BY <2>3 DEF Ordered, Stations
    <3> QED
      BY <2>3, <3>1 DEF Below
  <2>4. CASE b \in 4..7 /\ c \in 4..7
    <3>1. Below(ToSet(p[b]), ToSet(p[c]))
      BY <1>3 DEF Ordered
    <3> QED
      BY <2>4, <3>1
  <2> QED
    BY <1>3, <2>1, <2>2, <2>3, <2>4 DEF Stations
<1>4. Fresh(q, n)
  <2>1. ToSet(p[3]) \subseteq 1..n
    BY DEF Fresh, Stations
  <2> QED
    BY <1>1, <2>1, OfEmpty DEF Fresh
<1> QED
  BY <1>2, <1>3, <1>4 DEF Ordered

LEMMA OrderConsumer ==
  ASSUME OrderInv, MessageconsumerTask
  PROVE  InLine' /\ Reading'
<1> USE DEF InLine
<1>0. TypeInv /\ TypeInv' /\ Ordered(backlog) /\ Fresh(backlog, created)
  BY TypeConsumer DEF OrderInv
<1>1. ASSUME backlog' = backlog, created' = created
      PROVE  InLine'
  BY <1>0, <1>1 DEF Ordered, Fresh
<1>2. ASSUME UNCHANGED <<pcSend, mCacheResult, lines, file>>,
             mCacheSendQueue = <<>> => mCacheSendQueue' = <<>>
      PROVE  Reading'
  BY <1>2 DEF OrderInv, Reading
<1>3. CASE StartDump
  BY <1>1, <1>2, <1>3 DEF StartDump, backlog, cacheVars, saveVars, histVars
<1>4. CASE DumpTake
  <2>1. Head(mMsgQueue) # None
    BY <1>0, <1>4, QueueTypes, HeadOf DEF DumpTake, TypeInv
  <2>2. Advances(backlog, backlog', 7)
    BY <1>4, <2>1
    DEF DumpTake, Advances, backlog, Stations, Opt, cacheVars, saveVars
  <2>3. Ordered(backlog') /\ Fresh(backlog', created)
    BY <1>0, <2>2, AdvancesInLine
  <2> QED
    BY <1>2, <1>4, <2>3 DEF DumpTake, cacheVars, histVars, Ordered, Fresh
<1>5. CASE DumpPut
  <2>1. msg # None
    BY <1>0, <1>5 DEF DumpPut, TypeInv, Hand
  <2>2. Advances(backlog, backlog', 6)
    BY <1>5, <2>1
    DEF DumpPut, Advances, backlog, Stations, Opt, cacheVars
  <2>3. Ordered(backlog') /\ Fresh(backlog', created)
    BY <1>0, <2>2, AdvancesInLine
  <2> QED
    BY <1>2, <1>5, <2>3 DEF DumpPut, cacheVars, histVars, Ordered, Fresh
<1>6. CASE DumpEnd
  BY <1>1, <1>2, <1>6 DEF DumpEnd, backlog, cacheVars, saveVars, histVars
<1>7. CASE TakeLive
  <2>1. Leaves(backlog, backlog', 7)
    BY <1>7
    DEF TakeLive, MaySend, Leaves, backlog, Stations, Opt, cacheVars, saveVars
  <2>2. Ordered(backlog') /\ Fresh(backlog', created)
    BY <1>0, <2>1, LeavesInLine DEF Stations
  <2> QED
    BY <1>2, <1>7, <2>2 DEF TakeLive, cacheVars, histVars, Ordered, Fresh
<1>8. CASE TakeCached
  <2>1. Leaves(backlog, backlog', 1)
    BY <1>8 DEF TakeCached, MaySend, Leaves, backlog, Stations, Opt, saveVars
  <2>2. Ordered(backlog') /\ Fresh(backlog', created)
    BY <1>0, <2>1, LeavesInLine DEF Stations
  <2> QED
    BY <1>2, <1>8, <2>2 DEF TakeCached, histVars, Ordered, Fresh
<1>9. CASE SendPut
  BY <1>1, <1>2, <1>9 DEF SendPut, backlog, cacheVars, saveVars, histVars
<1> QED
  BY <1>3, <1>4, <1>5, <1>6, <1>7, <1>8, <1>9 DEF MessageconsumerTask

LEMMA OrderSender ==
  ASSUME OrderInv, SendTask
  PROVE  InLine' /\ Reading'
<1> USE DEF InLine
<1>0. TypeInv /\ Ordered(backlog) /\ Fresh(backlog, created)
  BY DEF OrderInv
<1>1. ASSUME backlog' = backlog, created' = created
      PROVE  InLine'
  BY <1>0, <1>1 DEF Ordered, Fresh
<1>2. CASE SendTest
  BY <1>1, <1>2 DEF SendTest, Reading, backlog, consVars, saveVars, histVars
<1>3. CASE CacheFull
  BY <1>1, <1>3 DEF CacheFull, Reading, backlog, consVars, saveVars, histVars
<1>4. CASE ReadLines
  <2>1. Inc(file)
    BY <1>0 DEF Ordered, backlog, Stations
  <2> QED
    BY <1>1, <1>4, <2>1
    DEF ReadLines, ReadsFile, Reading, backlog, consVars, saveVars, histVars
<1>5. CASE RemoveFile
  <2>1. /\ mCacheSendQueue = <<>> /\ Inc(lines) /\ ToSet(lines) \subseteq ToSet(file)
        /\ lines \in Seq(Reports)
    BY <1>0, <1>5, QueueTypes DEF RemoveFile, OrderInv, Reading, TypeInv
  <2>2. backlog[1] = <<>> /\ backlog[3] = file
    BY <2>1 DEF backlog
  <2>3. backlog'[1] = <<>> /\ backlog'[2] = lines /\ backlog'[3] = <<>>
    BY <1>5, <2>1 DEF RemoveFile, FileRemoved, backlog
  <2>4. \A b \in 4..7 : backlog'[b] = backlog[b]
    BY <1>5 DEF RemoveFile, backlog, consVars, saveVars
  <2>5. Ordered(backlog') /\ Fresh(backlog', created)
    BY <1>0, <2>1, <2>2, <2>3, <2>4, RereadInLine
  <2> QED
    BY <1>5, <2>5 DEF RemoveFile, Reading, Ordered, Fresh
<1>6. CASE StartPush
  BY <1>1, <1>6 DEF StartPush, Reading, backlog, consVars, saveVars, histVars
<1>7. CASE Push
  <2>1. ASSUME mCacheSendQueue' = Append(mCacheSendQueue, Head(mCacheResult))
        PROVE  Ordered(backlog') /\ Fresh(backlog', created)
    <3>1. Advances(backlog, backlog', 2)
      BY <1>7, <2>1 DEF Push, Advances, backlog, Stations, consVars, saveVars
    <3> QED
      BY <1>0, <3>1, AdvancesInLine
  <2>2. ASSUME mCacheSendQueue' = mCacheSendQueue
        PROVE  Ordered(backlog') /\ Fresh(backlog', created)
    <3>1. Leaves(backlog, backlog', 2)
      BY <1>7, <2>2 DEF Push, Leaves, backlog, Stations, consVars, saveVars
    <3> QED
      BY <1>0, <3>1, LeavesInLine DEF Stations
  <2>3. Ordered(backlog') /\ Fresh(backlog', created)
    BY <1>7, <2>1, <2>2 DEF Push
  <2> QED
    BY <1>7, <2>3 DEF Push, Reading, Ordered, Fresh
<1>8. CASE EndPush
  BY <1>1, <1>8 DEF EndPush, Reading, backlog, consVars, saveVars, histVars
<1> QED
  BY <1>2, <1>3, <1>4, <1>5, <1>6, <1>7, <1>8 DEF SendTask

LEMMA OrderSaver ==
  ASSUME OrderInv, MessageSaveTask
  PROVE  InLine' /\ Reading'
<1> USE DEF InLine
<1>0. TypeInv /\ Ordered(backlog) /\ Fresh(backlog, created)
  BY DEF OrderInv
<1>1. CASE SaveTake
  <2>1. Head(mSaveQueue) # None
    BY <1>0, <1>1, QueueTypes, HeadOf DEF SaveTake, TypeInv
  <2>2. Advances(backlog, backlog', 5)
    BY <1>1, <2>1 DEF SaveTake, Advances, backlog, Stations, Opt, cacheVars, consVars
  <2>3. Ordered(backlog') /\ Fresh(backlog', created)
    BY <1>0, <2>2, AdvancesInLine
  <2> QED
    BY <1>1, <2>3 DEF SaveTake, OrderInv, Reading, cacheVars, histVars, Ordered, Fresh
<1>2. CASE appendMessage
  <2>1. Advances(backlog, backlog', 4)
    BY <1>2 DEF appendMessage, Advances, backlog, Stations, Opt, cacheVars, consVars
  <2>2. Ordered(backlog') /\ Fresh(backlog', created)
    BY <1>0, <2>1, AdvancesInLine
  <2>3. ToSet(file') = ToSet(file) \cup {saveDataMessage}
    BY <1>0, <1>2, OfAppend, QueueTypes DEF appendMessage, TypeInv, TypeOK
  <2>4. Reading'
    BY <1>2, <2>3 DEF appendMessage, OrderInv, Reading, cacheVars
  <2> QED
    BY <1>2, <2>2, <2>4 DEF appendMessage, histVars, Ordered, Fresh
<1> QED
  BY <1>1, <1>2 DEF MessageSaveTask

LEMMA OrderCreate ==
  ASSUME OrderInv, MessageCreateTask
  PROVE  InLine' /\ Reading'
<1> DEFINE p == backlog
           q == backlog'
<1>0. Ordered(p) /\ Fresh(p, created) /\ created \in Nat /\ created + 1 \in Reports
  BY PipelineAssumption
  DEF OrderInv, InLine, TypeInv, TypeOK, MessageCreateTask, Reports
<1>1. /\ p[7] = mMsgQueue /\ q[7] = Append(mMsgQueue, created + 1)
      /\ \A b \in 1..6 : q[b] = p[b]
  BY DEF MessageCreateTask, backlog, consVars, cacheVars, saveVars
<1>2. created' = created + 1 /\ Reading'
  BY DEF MessageCreateTask, OrderInv, Reading, cacheVars
<1> HIDE DEF p, q
<1>3. /\ p[7] \in Seq(Reports) /\ Inc(p[7]) /\ ToSet(p[7]) \subseteq 1..created
  BY <1>0 DEF Ordered, Fresh, Stations
<1>4. Below(ToSet(p[7]), {created + 1})
  BY <1>0, <1>3 DEF Below
<1>5. /\ q[7] \in Seq(Reports) /\ Inc(q[7])
      /\ ToSet(q[7]) = ToSet(p[7]) \cup {created + 1}
  BY <1>0, <1>1, <1>3, <1>4, OfAppend
<1>6. \A b \in Stations : b = 7 \/ (b \in 1..6 /\ b < 7)
  BY DEF Stations
<1>7. \A b \in Stations : q[b] \in Seq(Reports) /\ Inc(q[b])
  BY <1>0, <1>1, <1>5, <1>6 DEF Ordered
<1>8. \A b \in 1..6 : Below(ToSet(p[b]), ToSet(q[7]))
  <2> SUFFICES ASSUME NEW b \in 1..6, NEW x \in ToSet(p[b]), NEW y \in ToSet(q[7])
               PROVE  x < y
    BY DEF Below
  <2>1. Below(ToSet(p[b]), ToSet(p[7])) /\ x \in 1..created
    BY <1>0 DEF Ordered, Fresh, Stations
  <2> QED
    BY <1>0, <1>5, <2>1 DEF Below
<1>9. ASSUME NEW b \in Stations, NEW c \in Stations, b < c
      PROVE  Below(ToSet(q[b]), ToSet(q[c]))
  <2>1. b \in 1..6 /\ q[b] = p[b]
    BY <1>1, <1>9 DEF Stations
  <2>2. Below(ToSet(p[b]), ToSet(p[c]))
    BY <1>0, <1>9 DEF Ordered
  <2> QED
    BY <1>1, <1>6, <1>8, <2>1, <2>2
<1>10. \A b \in Stations : ToSet(q[b]) \subseteq 1..(created + 1)
  <2>1. \A b \in Stations : ToSet(p[b]) \subseteq 1..(created + 1)
    BY <1>0 DEF Fresh
  <2>2. ToSet(q[7]) \subseteq 1..(created + 1)
    BY <1>0, <1>5, <2>1 DEF Stations
  <2> QED
    BY <1>1, <1>6, <2>1, <2>2
<1>11. Ordered(q) /\ Fresh(q, created + 1)
  BY <1>7, <1>9, <1>10 DEF Ordered, Fresh
<1> QED
  BY <1>2, <1>11 DEF q, InLine, Ordered, Fresh

LEMMA OrderRestart ==
  ASSUME OrderInv, Restart
  PROVE  InLine' /\ Reading'
<1>0. TypeInv /\ TypeInv' /\ Ordered(backlog) /\ Fresh(backlog, created)
  BY TypeStep DEF OrderInv, InLine, Next
<1>1. backlog' = <<<<>>, <<>>, file, <<>>, <<>>, <<>>, <<>>>>
  BY DEF Restart, backlog, Opt
<1>2. file = backlog[3] /\ 3 \in Stations
  BY DEF backlog, Stations
<1>3. \A b \in Stations : b = 3 \/ backlog'[b] = <<>>
  BY <1>1 DEF Stations
<1>4. backlog'[3] = backlog[3]
  BY <1>1, <1>2
<1>5. \A b \in Stations :
        /\ backlog'[b] \in Seq(Reports) /\ Inc(backlog'[b])
        /\ ToSet(backlog'[b]) \subseteq ToSet(backlog[b])
  <2>1. <<>> \in Seq(Reports) /\ Inc(<<>>) /\ ToSet(<<>>) = {}
    BY OfEmpty
  <2>2. backlog[3] \in Seq(Reports) /\ Inc(backlog[3])
    BY <1>0, <1>2 DEF Ordered
  <2> QED
    BY <1>3, <1>4, <2>1, <2>2
<1>6. Ordered(backlog')
  BY <1>0, <1>5, Thinned
<1>7. Fresh(backlog', created)
  BY <1>0, <1>5 DEF Fresh
<1> QED
  BY <1>6, <1>7 DEF Restart, InLine, Reading, Ordered, Fresh

LEMMA OrderInvariant ==
  Spec => []OrderInv
<1>1. Init => OrderInv
  <2> SUFFICES ASSUME Init PROVE OrderInv
    OBVIOUS
  <2>1. \A b \in Stations : backlog[b] = <<>>
    BY DEF Init, backlog, Stations, Opt
  <2>2. <<>> \in Seq(Reports) /\ Inc(<<>>) /\ ToSet(<<>>) = {}
    BY OfEmpty
  <2>3. InLine
    BY <2>1, <2>2 DEF InLine, Ordered, Fresh, Below
  <2> QED
    BY <2>3, TypeInit DEF OrderInv, Init, Reading
<1>2. OrderInv /\ [Next]_vars => OrderInv'
  <2> SUFFICES ASSUME OrderInv, [Next]_vars PROVE InLine' /\ Reading'
    BY TypeStep DEF OrderInv, TypeInv, TypeOK, Hand, vars, consVars, cacheVars, saveVars,
                    envVars, histVars
  <2>1. CASE UNCHANGED <<backlog, created, pcSend, mCacheSendQueue, mCacheResult, lines, file>>
    BY <2>1 DEF OrderInv, InLine, Reading, Ordered, Fresh
  <2>2. CASE MessageCreateTask
    BY <2>2, OrderCreate
  <2>3. CASE MessageconsumerTask
    BY <2>3, OrderConsumer
  <2>4. CASE MessageSaveTask
    BY <2>4, OrderSaver
  <2>5. CASE SendTask
    BY <2>5, OrderSender
  <2>6. CASE Restart
    BY <2>6, OrderRestart
  <2>7. CASE sendFunc
    BY <2>1, <2>7 DEF sendFunc, backlog, consVars, cacheVars, saveVars
  <2>8. CASE TimeOk \/ LinkLost \/ stop
    BY <2>1, <2>8 DEF TimeOk, LinkLost, stop, backlog, consVars, cacheVars, saveVars, histVars
  <2>9. CASE Start
    BY <2>1, <2>9 DEF Start, backlog, consVars, cacheVars, saveVars
  <2>10. CASE UNCHANGED vars
    BY <2>1, <2>10 DEF vars, backlog, consVars, cacheVars, saveVars, histVars
  <2> QED
    BY <2>2, <2>3, <2>4, <2>5, <2>6, <2>7, <2>8, <2>9, <2>10 DEF Next
<1> QED
  BY <1>1, <1>2, PTL DEF Spec

\* Saved reports are sent in the order they were created, each one once, over
\* the file, its removal and a restart of the process, for any number of
\* reports, any limit of the live queue and any number of restarts.
THEOREM SavedInOrder ==
  Spec => []BacklogInOrder
<1>1. OrderInv => BacklogInOrder
  BY OrderedConcat DEF OrderInv, InLine, BacklogInOrder, Inc
<1> QED
  BY <1>1, OrderInvariant, PTL

-----------------------------------------------------------------------------
(* Every report is accounted for: it is in one of eight places, once, or   *)
(* it is gone.                                                             *)

Places == 1..8
places == <<mMsgQueue, Opt(msg), mSaveQueue, Opt(saveDataMessage), mCacheSendQueue,
            mSendQueue, mCacheResult, file>>
Gone == delivered \cup dropped \cup unread

Separate(p, g, n) ==
  /\ \A a \in Places : p[a] \in Seq(Reports) /\ Inj(p[a]) /\ ToSet(p[a]) \cap g = {}
  /\ \A a, b \in Places : a # b => ToSet(p[a]) \cap ToSet(p[b]) = {}
  /\ \A x : x \in 1..n <=> x \in g \/ (\E a \in Places : x \in ToSet(p[a]))

Read ==
  pcSend = "remove" =>
    mCacheResult = <<>> /\ Inj(lines) /\ ToSet(lines) \subseteq ToSet(file)
Accounted == Separate(places, Gone, created)
AccountInv == TypeInv /\ Accounted /\ Read

\* The first report of a place goes to the end of another.
LEMMA PassedOn ==
  ASSUME NEW p, NEW q, NEW g, NEW n, Separate(p, g, n), NEW a \in Places, NEW b \in Places,
         a # b, p[a] # <<>>, q[a] = Tail(p[a]), q[b] = Append(p[b], Head(p[a])),
         \A c \in Places \ {a, b} : q[c] = p[c]
  PROVE  Separate(q, g, n)
<1> DEFINE h == Head(p[a])
<1>1. /\ p[a] \in Seq(Reports) /\ p[b] \in Seq(Reports) /\ Inj(p[a]) /\ Inj(p[b])
      /\ ToSet(p[a]) \cap ToSet(p[b]) = {} /\ ToSet(p[a]) \cap g = {}
  BY DEF Separate
<1>2. /\ q[a] \in Seq(Reports) /\ Inj(q[a]) /\ h \in Reports /\ h \notin ToSet(q[a])
      /\ ToSet(p[a]) = {h} \cup ToSet(q[a])
  <2>1. /\ Tail(p[a]) \in Seq(Reports) /\ Inj(Tail(p[a])) /\ h \in Reports
        /\ h \notin ToSet(Tail(p[a])) /\ ToSet(p[a]) = {h} \cup ToSet(Tail(p[a]))
    BY <1>1, OfTail
  <2> QED
    BY <2>1
<1> HIDE DEF h
<1>3. h \notin ToSet(p[b]) /\ h \notin g
  BY <1>1, <1>2
<1>4. /\ q[b] \in Seq(Reports) /\ Inj(q[b]) /\ ToSet(q[b]) = ToSet(p[b]) \cup {h}
  <2>1. /\ Append(p[b], h) \in Seq(Reports) /\ Inj(Append(p[b], h))
        /\ ToSet(Append(p[b], h)) = ToSet(p[b]) \cup {h}
    BY <1>1, <1>2, <1>3, OfAppend
  <2>2. q[b] = Append(p[b], h)
    BY DEF h
  <2> QED
    BY <2>1, <2>2
<1>5. \A c \in Places : q[c] \in Seq(Reports) /\ Inj(q[c]) /\ ToSet(q[c]) \cap g = {}
  BY <1>1, <1>2, <1>3, <1>4 DEF Separate
<1>6. \A c \in Places \ {a, b} : h \notin ToSet(p[c]) /\ ToSet(q[c]) = ToSet(p[c])
  BY <1>2 DEF Separate
<1>7. ASSUME NEW c \in Places, NEW d \in Places, c # d
      PROVE  ToSet(q[c]) \cap ToSet(q[d]) = {}
  <2>1. \A e \in Places : ToSet(q[e]) \subseteq ToSet(p[e]) \cup {h}
    BY <1>2, <1>4, <1>6
  <2>2. \A e \in Places : h \in ToSet(q[e]) => e = b
    BY <1>2, <1>6
  <2>3. ToSet(p[c]) \cap ToSet(p[d]) = {}
    BY <1>7 DEF Separate
  <2>4. ASSUME NEW x \in ToSet(q[c]), x \in ToSet(q[d]) PROVE FALSE
    <3>1. x # h
      BY <1>7, <2>2, <2>4
    <3> QED
      BY <2>1, <2>3, <2>4, <3>1
  <2> QED
    BY <2>4
<1>8. ASSUME NEW x
      PROVE  (\E c \in Places : x \in ToSet(q[c])) <=> (\E c \in Places : x \in ToSet(p[c]))
  BY <1>2, <1>4, <1>6
<1> QED
  BY <1>5, <1>7, <1>8 DEF Separate

\* The first report of a place is gone.
LEMMA FirstGone ==
  ASSUME NEW p, NEW q, NEW g, NEW n, Separate(p, g, n), NEW a \in Places,
         p[a] # <<>>, q[a] = Tail(p[a]), \A c \in Places \ {a} : q[c] = p[c]
  PROVE  Separate(q, g \cup {Head(p[a])}, n)
<1> DEFINE h == Head(p[a])
<1>1. /\ p[a] \in Seq(Reports) /\ Inj(p[a]) /\ ToSet(p[a]) \cap g = {}
  BY DEF Separate
<1>2. /\ q[a] \in Seq(Reports) /\ Inj(q[a]) /\ h \in Reports /\ h \notin ToSet(q[a])
      /\ ToSet(p[a]) = {h} \cup ToSet(q[a])
  <2>1. /\ Tail(p[a]) \in Seq(Reports) /\ Inj(Tail(p[a])) /\ h \in Reports
        /\ h \notin ToSet(Tail(p[a])) /\ ToSet(p[a]) = {h} \cup ToSet(Tail(p[a]))
    BY <1>1, OfTail
  <2> QED
    BY <2>1
<1> HIDE DEF h
<1>3. \A c \in Places \ {a} : h \notin ToSet(p[c]) /\ ToSet(q[c]) = ToSet(p[c])
  BY <1>2 DEF Separate
<1>4. \A c \in Places :
        q[c] \in Seq(Reports) /\ Inj(q[c]) /\ ToSet(q[c]) \cap (g \cup {h}) = {}
  <2>1. \A c \in Places \ {a} :
          q[c] \in Seq(Reports) /\ Inj(q[c]) /\ ToSet(q[c]) \cap g = {}
    BY DEF Separate
  <2>2. \A c \in Places \ {a} : h \notin ToSet(q[c])
    BY <1>3
  <2>3. ToSet(q[a]) \cap (g \cup {h}) = {}
    BY <1>1, <1>2
  <2>4. \A c \in Places \ {a} : ToSet(q[c]) \cap (g \cup {h}) = {}
    BY <2>1, <2>2
  <2> QED
    BY <1>2, <2>1, <2>3, <2>4
<1>5. ASSUME NEW c \in Places, NEW d \in Places, c # d
      PROVE  ToSet(q[c]) \cap ToSet(q[d]) = {}
  <2>1. ToSet(p[c]) \cap ToSet(p[d]) = {}
    BY <1>5 DEF Separate
  <2>2. ToSet(q[c]) \subseteq ToSet(p[c]) /\ ToSet(q[d]) \subseteq ToSet(p[d])
    BY <1>2, <1>3
  <2> QED
    BY <2>1, <2>2
<1>6. ASSUME NEW x
      PROVE  x \in g \cup {h} \/ (\E c \in Places : x \in ToSet(q[c]))
               <=> x \in g \/ (\E c \in Places : x \in ToSet(p[c]))
  BY <1>2, <1>3
<1> QED
  BY <1>4, <1>5, <1>6 DEF Separate, h

\* Places are emptied: what they held is gone.
LEMMA Emptied ==
  ASSUME NEW p, NEW q, NEW g, NEW f, NEW n, Separate(p, g, n),
         \A c \in Places : q[c] = p[c] \/ q[c] = <<>>,
         \A x : x \in f <=> x \in g \/ (\E c \in Places : q[c] = <<>> /\ x \in ToSet(p[c]))
  PROVE  Separate(q, f, n)
<1>1. <<>> \in Seq(Reports) /\ Inj(<<>>) /\ ToSet(<<>>) = {}
  BY OfEmpty
<1>2. \A c \in Places : ToSet(q[c]) = ToSet(p[c]) \/ (ToSet(q[c]) = {} /\ q[c] = <<>>)
  BY <1>1
<1>3. ASSUME NEW c \in Places
      PROVE  q[c] \in Seq(Reports) /\ Inj(q[c]) /\ ToSet(q[c]) \cap f = {}
  <2>1. CASE q[c] = <<>>
    BY <1>1, <2>1
  <2>2. CASE q[c] # <<>>
    <3>1. q[c] = p[c] /\ p[c] \in Seq(Reports) /\ Inj(p[c]) /\ ToSet(p[c]) \cap g = {}
      BY <2>2 DEF Separate
    <3>2. ASSUME NEW x \in ToSet(p[c]), x \in f PROVE FALSE
      <4>1. PICK d \in Places : q[d] = <<>> /\ x \in ToSet(p[d])
        BY <3>1, <3>2
      <4>2. c # d
        BY <2>2, <4>1
      <4> QED
        BY <3>2, <4>1, <4>2 DEF Separate
    <3> QED
      BY <3>1, <3>2
  <2> QED
    BY <2>1, <2>2
<1>4. ASSUME NEW c \in Places, NEW d \in Places, c # d
      PROVE  ToSet(q[c]) \cap ToSet(q[d]) = {}
  <2>1. ToSet(p[c]) \cap ToSet(p[d]) = {}
    BY <1>4 DEF Separate
  <2> QED
    BY <1>2, <2>1
<1>5. ASSUME NEW x
      PROVE  x \in f \/ (\E c \in Places : x \in ToSet(q[c]))
               <=> x \in g \/ (\E c \in Places : x \in ToSet(p[c]))
  BY <1>1, <1>2
<1> QED
  BY <1>3, <1>4, <1>5 DEF Separate

LEMMA AccountConsumer ==
  ASSUME AccountInv, MessageconsumerTask
  PROVE  Accounted' /\ Read'
<1>0. TypeInv /\ Separate(places, Gone, created)
  BY DEF AccountInv, Accounted
<1>1. UNCHANGED <<file, lines, pcSend, mCacheResult>> /\ Gone' = Gone /\ created' = created
  BY DEF MessageconsumerTask, StartDump, DumpTake, DumpPut, DumpEnd, TakeLive, TakeCached,
         SendPut, cacheVars, histVars, Gone
<1>2. Read'
  BY <1>1 DEF AccountInv, Read
<1>3. ASSUME Separate(places', Gone, created)
      PROVE  Accounted'
  BY <1>1, <1>3 DEF Accounted
<1>4. CASE StartDump \/ DumpEnd
  <2>1. places' = places
    BY <1>4 DEF StartDump, DumpEnd, places, cacheVars, saveVars
  <2> QED
    BY <1>0, <1>2, <1>3, <2>1
<1>5. CASE DumpTake \/ TakeLive
  <2>a. mMsgQueue # <<>> /\ pcCons \notin {"save", "send"}
    BY <1>5 DEF DumpTake, TakeLive, MaySend
  <2>b. Head(mMsgQueue) # None
    BY <1>0, <2>a, QueueTypes, HeadOf DEF TypeInv
  <2>1. Head(mMsgQueue) # None /\ msg = None /\ mMsgQueue # <<>>
    BY <1>0, <2>a, <2>b DEF TypeInv, Hand
  <2>2. /\ places[1] # <<>> /\ places'[1] = Tail(places[1])
        /\ places'[2] = Append(places[2], Head(places[1]))
    BY <1>5, <2>1 DEF DumpTake, TakeLive, places, Opt
  <2>3. \A c \in Places \ {1, 2} : places'[c] = places[c]
    BY <1>5 DEF DumpTake, TakeLive, places, Places, cacheVars, saveVars
  <2>8. 1 \in Places /\ 2 \in Places
    BY DEF Places
  <2>9. Separate(places', Gone, created)
    BY <1>0, <2>2, <2>3, <2>8, PassedOn
  <2> QED
    BY <1>2, <1>3, <2>9
<1>6. CASE DumpPut
  <2>1. msg # None
    BY <1>0, <1>6 DEF DumpPut, TypeInv, Hand
  <2>2. /\ places[2] # <<>> /\ places'[2] = Tail(places[2])
        /\ places'[3] = Append(places[3], Head(places[2]))
    BY <1>6, <2>1 DEF DumpPut, places, Opt
  <2>3. \A c \in Places \ {2, 3} : places'[c] = places[c]
    BY <1>6 DEF DumpPut, places, Places, cacheVars
  <2>8. 2 \in Places /\ 3 \in Places
    BY DEF Places
  <2>9. Separate(places', Gone, created)
    BY <1>0, <2>2, <2>3, <2>8, PassedOn
  <2> QED
    BY <1>2, <1>3, <2>9
<1>7. CASE TakeCached
  <2>1. Head(mCacheSendQueue) # None /\ msg = None
    BY <1>0, <1>7, QueueTypes, HeadOf DEF TakeCached, MaySend, TypeInv, Hand
  <2>2. /\ places[5] # <<>> /\ places'[5] = Tail(places[5])
        /\ places'[2] = Append(places[2], Head(places[5]))
    BY <1>7, <2>1 DEF TakeCached, places, Opt
  <2>3. \A c \in Places \ {5, 2} : places'[c] = places[c]
    BY <1>7 DEF TakeCached, places, Places, saveVars
  <2>8. 5 \in Places /\ 2 \in Places
    BY DEF Places
  <2>9. Separate(places', Gone, created)
    BY <1>0, <2>2, <2>3, <2>8, PassedOn
  <2> QED
    BY <1>2, <1>3, <2>9
<1>8. CASE SendPut
  <2>1. msg # None
    BY <1>0, <1>8 DEF SendPut, TypeInv, Hand
  <2>2. /\ places[2] # <<>> /\ places'[2] = Tail(places[2])
        /\ places'[6] = Append(places[6], Head(places[2]))
    BY <1>8, <2>1 DEF SendPut, places, Opt
  <2>3. \A c \in Places \ {2, 6} : places'[c] = places[c]
    BY <1>8 DEF SendPut, places, Places, cacheVars, saveVars
  <2>8. 2 \in Places /\ 6 \in Places
    BY DEF Places
  <2>9. Separate(places', Gone, created)
    BY <1>0, <2>2, <2>3, <2>8, PassedOn
  <2> QED
    BY <1>2, <1>3, <2>9
<1> QED
  BY <1>4, <1>5, <1>6, <1>7, <1>8 DEF MessageconsumerTask

LEMMA AccountSaver ==
  ASSUME AccountInv, MessageSaveTask
  PROVE  Accounted' /\ Read'
<1>0. TypeInv /\ Separate(places, Gone, created)
  BY DEF AccountInv, Accounted
<1>1. UNCHANGED <<lines, pcSend, mCacheResult>> /\ Gone' = Gone /\ created' = created
  BY DEF MessageSaveTask, SaveTake, appendMessage, cacheVars, histVars, Gone
<1>2. ASSUME Separate(places', Gone, created)
      PROVE  Accounted'
  BY <1>1, <1>2 DEF Accounted
<1>3. CASE SaveTake
  <2>1. Head(mSaveQueue) # None
    BY <1>0, <1>3, QueueTypes, HeadOf DEF SaveTake, TypeInv
  <2>2. /\ places[3] # <<>> /\ places'[3] = Tail(places[3])
        /\ places'[4] = Append(places[4], Head(places[3]))
    BY <1>3, <2>1 DEF SaveTake, places, Opt
  <2>3. \A c \in Places \ {3, 4} : places'[c] = places[c]
    BY <1>3 DEF SaveTake, places, Places, consVars, cacheVars
  <2>4. Read'
    BY <1>1, <1>3 DEF SaveTake, AccountInv, Read
  <2>8. 3 \in Places /\ 4 \in Places
    BY DEF Places
  <2>9. Separate(places', Gone, created)
    BY <1>0, <2>2, <2>3, <2>8, PassedOn
  <2> QED
    BY <1>2, <2>4, <2>9
<1>4. CASE appendMessage
  <2>1. /\ places[4] # <<>> /\ places'[4] = Tail(places[4])
        /\ places'[8] = Append(places[8], Head(places[4]))
    BY <1>4 DEF appendMessage, places, Opt
  <2>2. \A c \in Places \ {4, 8} : places'[c] = places[c]
    BY <1>4 DEF appendMessage, places, Places, consVars, cacheVars
  <2>3. ToSet(file') = ToSet(file) \cup {saveDataMessage}
    BY <1>0, <1>4, OfAppend, QueueTypes DEF appendMessage, TypeInv, TypeOK
  <2>4. Read'
    BY <1>1, <2>3 DEF AccountInv, Read
  <2>8. 4 \in Places /\ 8 \in Places
    BY DEF Places
  <2>9. Separate(places', Gone, created)
    BY <1>0, <2>1, <2>2, <2>8, PassedOn
  <2> QED
    BY <1>2, <2>4, <2>9
<1> QED
  BY <1>3, <1>4 DEF MessageSaveTask

\* The file is removed: what was not read of it is gone.
LEMMA Reread ==
  ASSUME NEW p, NEW q, NEW g, NEW n, Separate(p, g, n), NEW s \in Seq(Reports), Inj(s),
         ToSet(s) \subseteq ToSet(p[8]), p[7] = <<>>, q[7] = s, q[8] = <<>>,
         \A c \in 1..6 : q[c] = p[c]
  PROVE  Separate(q, g \cup (ToSet(p[8]) \ ToSet(s)), n)
<1> DEFINE f == g \cup (ToSet(p[8]) \ ToSet(s))
<1>1. <<>> \in Seq(Reports) /\ Inj(<<>>) /\ ToSet(<<>>) = {}
  BY OfEmpty
<1>2. \A c \in Places : c \in 1..6 \/ c = 7 \/ c = 8
  BY DEF Places
<1>3. /\ \A c \in 1..6 : ToSet(p[c]) \cap ToSet(p[8]) = {} /\ ToSet(p[c]) \cap g = {}
      /\ ToSet(p[8]) \cap g = {}
  <2>1. 8 \in Places /\ \A c \in 1..6 : c \in Places /\ c # 8
    BY DEF Places
  <2> QED
    BY <2>1 DEF Separate
<1>4. ASSUME NEW c \in Places
      PROVE  q[c] \in Seq(Reports) /\ Inj(q[c]) /\ ToSet(q[c]) \cap f = {}
  <2>1. CASE c \in 1..6
    <3>1. q[c] \in Seq(Reports) /\ Inj(q[c])
      BY <2>1 DEF Separate
    <3> QED
      BY <1>3, <2>1, <3>1
  <2>2. CASE c = 7
    BY <1>3, <2>2
  <2>3. CASE c = 8
    BY <1>1, <2>3
  <2> QED
    BY <1>2, <2>1, <2>2, <2>3
<1>5. ASSUME NEW c \in Places, NEW d \in Places, c # d
      PROVE  ToSet(q[c]) \cap ToSet(q[d]) = {}
  <2>1. CASE c = 8 \/ d = 8
    BY <1>1, <2>1
  <2>2. CASE c = 7 /\ d \in 1..6
    BY <1>3, <2>2
  <2>3. CASE c \in 1..6 /\ d = 7
    BY <1>3, <2>3
  <2>4. CASE c \in 1..6 /\ d \in 1..6
    BY <1>5, <2>4 DEF Separate
  <2> QED
    BY <1>2, <1>5, <2>1, <2>2, <2>3, <2>4
<1>6. ASSUME NEW x
      PROVE  x \in f \/ (\E c \in Places : x \in ToSet(q[c]))
               <=> x \in g \/ (\E c \in Places : x \in ToSet(p[c]))
  <2>1. ASSUME x \in f \/ (\E c \in Places : x \in ToSet(q[c]))
        PROVE  x \in g \/ (\E c \in Places : x \in ToSet(p[c]))
    BY <1>1, <1>2, <2>1 DEF Places
  <2>2. ASSUME x \in g \/ (\E c \in Places : x \in ToSet(p[c]))
        PROVE  x \in f \/ (\E c \in Places : x \in ToSet(q[c]))
    BY <1>1, <1>2, <2>2 DEF Places
  <2> QED
    BY <2>1, <2>2
<1> QED
  BY <1>4, <1>5, <1>6 DEF Separate

LEMMA AccountSender ==
  ASSUME AccountInv, SendTask
  PROVE  Accounted' /\ Read'
<1>0. TypeInv /\ Separate(places, Gone, created)
  BY DEF AccountInv, Accounted
<1>1. ASSUME UNCHANGED <<mCacheSendQueue, mCacheResult, file, mMsgQueue, mSendQueue, consVars,
                         saveVars, histVars>>
      PROVE  Accounted'
  <2>1. places' = places /\ Gone' = Gone /\ created' = created
    BY <1>1 DEF places, Gone, consVars, saveVars, histVars
  <2> QED
    BY <1>0, <2>1 DEF Accounted
<1>2. CASE SendTest \/ CacheFull \/ StartPush \/ EndPush
  <2>1. Read'
    BY <1>2 DEF SendTest, CacheFull, StartPush, EndPush, Read
  <2> QED
    BY <1>1, <1>2, <2>1 DEF SendTest, CacheFull, StartPush, EndPush
<1>3. CASE ReadLines
  <2>1. Inj(file)
    BY <1>0 DEF Separate, places, Places
  <2> QED
    BY <1>1, <1>3, <2>1 DEF ReadLines, ReadsFile, Read
<1>4. CASE RemoveFile
  <2>1. /\ mCacheResult = <<>> /\ Inj(lines) /\ ToSet(lines) \subseteq ToSet(file)
        /\ lines \in Seq(Reports)
    BY <1>0, <1>4, QueueTypes DEF RemoveFile, AccountInv, Read, TypeInv
  <2>2. places[7] = <<>> /\ places[8] = file /\ places'[7] = lines /\ places'[8] = <<>>
    BY <1>4, <2>1 DEF RemoveFile, FileRemoved, places
  <2>3. \A c \in 1..6 : places'[c] = places[c]
    BY <1>4 DEF RemoveFile, places, consVars, saveVars
  <2>4. /\ Gone' = Gone \cup (ToSet(places[8]) \ ToSet(lines)) /\ created' = created
    BY <1>4, <2>2 DEF RemoveFile, Gone
  <2>5. Separate(places', Gone \cup (ToSet(places[8]) \ ToSet(lines)), created)
    BY <1>0, <2>1, <2>2, <2>3, Reread
  <2>6. Separate(places', Gone', created')
    BY <2>4, <2>5
  <2> QED
    BY <1>4, <2>6 DEF Accounted, RemoveFile, Read
<1>5. CASE Push
  <2>1. places[7] # <<>> /\ places'[7] = Tail(places[7]) /\ created' = created
    BY <1>5 DEF Push, places
  <2>2. CASE /\ mCacheSendQueue' = Append(mCacheSendQueue, Head(mCacheResult))
             /\ dropped' = dropped
    <3>1. places'[5] = Append(places[5], Head(places[7])) /\ Gone' = Gone
      BY <1>5, <2>2 DEF Push, places, Gone
    <3>2. \A c \in Places \ {5, 7} : places'[c] = places[c]
      BY <1>5 DEF Push, places, Places, consVars, saveVars
    <3>3. Separate(places', Gone, created)
      BY <1>0, <2>1, <3>1, <3>2, PassedOn DEF Places
    <3> QED
      BY <1>5, <2>1, <3>1, <3>3 DEF Accounted, Push, Read
  <2>3. CASE /\ dropped' = dropped \cup {Head(mCacheResult)}
             /\ mCacheSendQueue' = mCacheSendQueue
    <3>1. Gone' = Gone \cup {Head(places[7])}
      BY <1>5, <2>3 DEF Push, places, Gone
    <3>2. \A c \in Places \ {7} : places'[c] = places[c]
      BY <1>5, <2>3 DEF Push, places, Places, consVars, saveVars
    <3>3. Separate(places', Gone \cup {Head(places[7])}, created)
      <4>1. 7 \in Places /\ places[7] # <<>> /\ places'[7] = Tail(places[7])
        BY <2>1 DEF Places
      <4> QED
        BY <1>0, <3>2, <4>1, FirstGone
    <3>4. Separate(places', Gone', created')
      BY <2>1, <3>1, <3>3
    <3> QED
      BY <1>5, <3>4 DEF Accounted, Push, Read
  <2> QED
    BY <1>5, <2>2, <2>3 DEF Push
<1> QED
  BY <1>2, <1>3, <1>4, <1>5 DEF SendTask

LEMMA AccountCreate ==
  ASSUME AccountInv, MessageCreateTask
  PROVE  Accounted' /\ Read'
<1> DEFINE p == places
           q == places'
           x == created + 1
<1>0. /\ Separate(p, Gone, created) /\ created \in Nat /\ x \in Reports
      /\ Gone \subseteq Reports
  BY PipelineAssumption
  DEF AccountInv, Accounted, TypeInv, TypeOK, MessageCreateTask, Reports, Gone
<1>1. /\ q[1] = Append(p[1], x) /\ \A c \in Places \ {1} : q[c] = p[c]
  BY DEF MessageCreateTask, places, Places, consVars, cacheVars, saveVars
<1>2. created' = x /\ Gone' = Gone /\ Read'
  BY DEF MessageCreateTask, AccountInv, Read, Gone, cacheVars
<1> HIDE DEF p, q
<1>3. \A c \in Places : x \notin ToSet(p[c])
  <2>1. x \notin 1..created
    BY <1>0
  <2> QED
    BY <1>0, <2>1 DEF Separate
<1>4. x \notin Gone
  <2>1. x \notin 1..created
    BY <1>0
  <2> QED
    BY <1>0, <2>1 DEF Separate
<1>5. 1..x = (1..created) \cup {x}
  BY <1>0
<1> HIDE DEF x
<1>6. /\ 1 \in Places /\ p[1] \in Seq(Reports) /\ Inj(p[1]) /\ ToSet(p[1]) \cap Gone = {}
  BY <1>0 DEF Separate, Places
<1>7. q[1] \in Seq(Reports) /\ Inj(q[1]) /\ ToSet(q[1]) = ToSet(p[1]) \cup {x}
  BY <1>0, <1>1, <1>3, <1>6, OfAppend
<1>8. \A c \in Places : q[c] \in Seq(Reports) /\ Inj(q[c]) /\ ToSet(q[c]) \cap Gone = {}
  <2>1. \A c \in Places \ {1} :
          q[c] \in Seq(Reports) /\ Inj(q[c]) /\ ToSet(q[c]) \cap Gone = {}
    BY <1>0, <1>1 DEF Separate
  <2>2. ToSet(q[1]) \cap Gone = {}
    BY <1>4, <1>6, <1>7
  <2> QED
    BY <1>7, <2>1, <2>2
<1>9. ASSUME NEW c \in Places, NEW d \in Places, c # d
      PROVE  ToSet(q[c]) \cap ToSet(q[d]) = {}
  <2>1. ToSet(p[c]) \cap ToSet(p[d]) = {}
    BY <1>0, <1>9 DEF Separate
  <2>2. \A e \in Places : ToSet(q[e]) \subseteq ToSet(p[e]) \cup {x}
    BY <1>1, <1>7
  <2>3. \A e \in Places : x \in ToSet(q[e]) => e = 1
    BY <1>1, <1>3
  <2>4. ASSUME NEW y \in ToSet(q[c]), y \in ToSet(q[d]) PROVE FALSE
    <3>1. y # x
      BY <1>9, <2>3, <2>4
    <3> QED
      BY <2>1, <2>2, <2>4, <3>1
  <2> QED
    BY <2>4
<1>10. ASSUME NEW y
       PROVE  y \in 1..x <=> y \in Gone \/ (\E c \in Places : y \in ToSet(q[c]))
  <2>1. y \in 1..created <=> y \in Gone \/ (\E c \in Places : y \in ToSet(p[c]))
    BY <1>0 DEF Separate
  <2>2. (\E c \in Places : y \in ToSet(q[c]))
          <=> y = x \/ (\E c \in Places : y \in ToSet(p[c]))
    BY <1>1, <1>6, <1>7
  <2> QED
    BY <1>5, <2>1, <2>2
<1>11. Separate(q, Gone, x)
  BY <1>8, <1>9, <1>10 DEF Separate
<1>12. Separate(q, Gone', created')
  BY <1>2, <1>11
<1> QED
  BY <1>2, <1>12 DEF q, Accounted

\* The eight places one behind the other are one sequence without repetition.
LEMMA HeldConcat ==
  ASSUME NEW g, NEW n, Separate(places, g, n)
  PROVE  /\ \A x : x \in ToSet(Memory) <=> \E a \in 1..7 : x \in ToSet(places[a])
         /\ \A x : x \in ToSet(Memory \o file) <=> \E a \in Places : x \in ToSet(places[a])
         /\ Inj(Memory \o file) /\ Memory \o file \in Seq(Reports)
<1> DEFINE p == places
           s2 == p[1] \o p[2]
           s3 == s2 \o p[3]
           s4 == s3 \o p[4]
           s5 == s4 \o p[5]
           s6 == s5 \o p[6]
           s7 == s6 \o p[7]
           s8 == s7 \o p[8]
<1>1. Memory = s7 /\ Memory \o file = s8
  BY DEF Memory, places
<1> HIDE DEF p
<1>2. /\ \A a \in 1..8 : p[a] \in Seq(Reports) /\ Inj(p[a])
      /\ \A a, b \in 1..8 : a # b => ToSet(p[a]) \cap ToSet(p[b]) = {}
  BY DEF Separate, p, Places
<1>3. /\ s2 \in Seq(Reports) /\ Inj(s2) /\ ToSet(s2) = ToSet(p[1]) \cup ToSet(p[2])
  <2>1. p[1] \in Seq(Reports) /\ Inj(p[1]) /\ p[2] \in Seq(Reports) /\ Inj(p[2])
        /\ ToSet(p[1]) \cap ToSet(p[2]) = {}
    BY <1>2
  <2> QED
    BY <2>1, OfConcat
<1> HIDE DEF s2
<1>4. /\ s3 \in Seq(Reports) /\ Inj(s3)
      /\ ToSet(s3) = ToSet(p[1]) \cup ToSet(p[2]) \cup ToSet(p[3])
  <2>1. ToSet(s2) \cap ToSet(p[3]) = {}
    BY <1>2, <1>3
  <2>2. p[3] \in Seq(Reports) /\ Inj(p[3])
    BY <1>2
  <2>3. /\ s3 \in Seq(Reports) /\ Inj(s3) /\ ToSet(s3) = ToSet(s2) \cup ToSet(p[3])
    BY <1>3, <2>1, <2>2, OfConcat
  <2> QED
    BY <1>3, <2>3
<1> HIDE DEF s3
<1>5. /\ s4 \in Seq(Reports) /\ Inj(s4)
      /\ ToSet(s4) = ToSet(p[1]) \cup ToSet(p[2]) \cup ToSet(p[3]) \cup ToSet(p[4])
  <2>1. ToSet(s3) \cap ToSet(p[4]) = {}
    BY <1>2, <1>4
  <2>2. p[4] \in Seq(Reports) /\ Inj(p[4])
    BY <1>2
  <2>3. /\ s4 \in Seq(Reports) /\ Inj(s4) /\ ToSet(s4) = ToSet(s3) \cup ToSet(p[4])
    BY <1>4, <2>1, <2>2, OfConcat
  <2> QED
    BY <1>4, <2>3
<1> HIDE DEF s4
<1>6. /\ s5 \in Seq(Reports) /\ Inj(s5)
      /\ ToSet(s5) = ToSet(p[1]) \cup ToSet(p[2]) \cup ToSet(p[3]) \cup ToSet(p[4]) \cup ToSet(p[5])
  <2>1. ToSet(s4) \cap ToSet(p[5]) = {}
    BY <1>2, <1>5
  <2>2. p[5] \in Seq(Reports) /\ Inj(p[5])
    BY <1>2
  <2>3. /\ s5 \in Seq(Reports) /\ Inj(s5) /\ ToSet(s5) = ToSet(s4) \cup ToSet(p[5])
    BY <1>5, <2>1, <2>2, OfConcat
  <2> QED
    BY <1>5, <2>3
<1> HIDE DEF s5
<1>7. /\ s6 \in Seq(Reports) /\ Inj(s6)
      /\ ToSet(s6) = ToSet(p[1]) \cup ToSet(p[2]) \cup ToSet(p[3]) \cup ToSet(p[4]) \cup ToSet(p[5])
           \cup ToSet(p[6])
  <2>1. ToSet(s5) \cap ToSet(p[6]) = {}
    BY <1>2, <1>6
  <2>2. p[6] \in Seq(Reports) /\ Inj(p[6])
    BY <1>2
  <2>3. /\ s6 \in Seq(Reports) /\ Inj(s6) /\ ToSet(s6) = ToSet(s5) \cup ToSet(p[6])
    BY <1>6, <2>1, <2>2, OfConcat
  <2> QED
    BY <1>6, <2>3
<1> HIDE DEF s6
<1>8. /\ s7 \in Seq(Reports) /\ Inj(s7)
      /\ ToSet(s7) = ToSet(p[1]) \cup ToSet(p[2]) \cup ToSet(p[3]) \cup ToSet(p[4]) \cup ToSet(p[5])
           \cup ToSet(p[6]) \cup ToSet(p[7])
  <2>1. ToSet(s6) \cap ToSet(p[7]) = {}
    BY <1>2, <1>7
  <2>2. p[7] \in Seq(Reports) /\ Inj(p[7])
    BY <1>2
  <2>3. /\ s7 \in Seq(Reports) /\ Inj(s7) /\ ToSet(s7) = ToSet(s6) \cup ToSet(p[7])
    BY <1>7, <2>1, <2>2, OfConcat
  <2> QED
    BY <1>7, <2>3
<1> HIDE DEF s7
<1>9. /\ s8 \in Seq(Reports) /\ Inj(s8)
      /\ ToSet(s8) = ToSet(p[1]) \cup ToSet(p[2]) \cup ToSet(p[3]) \cup ToSet(p[4]) \cup ToSet(p[5])
           \cup ToSet(p[6]) \cup ToSet(p[7]) \cup ToSet(p[8])
  <2>1. ToSet(s7) \cap ToSet(p[8]) = {}
    BY <1>2, <1>8
  <2>2. p[8] \in Seq(Reports) /\ Inj(p[8])
    BY <1>2
  <2>3. /\ s8 \in Seq(Reports) /\ Inj(s8) /\ ToSet(s8) = ToSet(s7) \cup ToSet(p[8])
    BY <1>8, <2>1, <2>2, OfConcat
  <2> QED
    BY <1>8, <2>3
<1> HIDE DEF s8
<1>10. \A x : x \in ToSet(s7) <=> \E a \in 1..7 : x \in ToSet(p[a])
  BY <1>8
<1>11. \A x : x \in ToSet(s8) <=> \E a \in Places : x \in ToSet(p[a])
  BY <1>9 DEF Places
<1> QED
  BY <1>1, <1>9, <1>10, <1>11 DEF p

LEMMA AccountLink ==
  ASSUME AccountInv, sendFunc \/ TimeOk \/ LinkLost \/ stop \/ Start
  PROVE  Accounted' /\ Read'
<1>0. TypeInv /\ Separate(places, Gone, created)
  BY DEF AccountInv, Accounted
<1>1. created' = created /\ Read'
  BY DEF sendFunc, TimeOk, LinkLost, stop, Start, AccountInv, Read, cacheVars, histVars
<1>2. \A c \in Places \ {6} : places'[c] = places[c]
  BY DEF sendFunc, TimeOk, LinkLost, stop, Start, places, Places, consVars, cacheVars, saveVars
<1>3. ASSUME Separate(places', Gone', created)
      PROVE  Accounted'
  BY <1>1, <1>3 DEF Accounted
<1>4. CASE sendFunc
  <2>1. 6 \in Places /\ places[6] # <<>> /\ places'[6] = Tail(places[6])
    BY <1>4 DEF sendFunc, places, Places
  <2>2. Gone' = Gone \cup {Head(places[6])}
    BY <1>4 DEF sendFunc, places, Gone
  <2>3. Separate(places', Gone \cup {Head(places[6])}, created)
    BY <1>0, <1>2, <2>1, FirstGone
  <2>4. Separate(places', Gone', created)
    BY <2>2, <2>3
  <2> QED
    BY <1>1, <1>3, <2>4
<1>5. CASE TimeOk \/ LinkLost \/ stop
  <2>1. places' = places /\ Gone' = Gone
    BY <1>5
    DEF TimeOk, LinkLost, stop, places, Gone, consVars, cacheVars, saveVars, histVars
  <2> QED
    BY <1>0, <1>1, <1>3, <2>1
<1>6. CASE Start
  <2>1. places'[6] = <<>> /\ Gone' = Gone \cup ToSet(places[6])
    BY <1>6 DEF Start, places, Gone
  <2>2. \A c \in Places : places'[c] = places[c] \/ places'[c] = <<>>
    BY <1>2, <2>1
  <2>3. \A x : x \in Gone' <=>
          x \in Gone \/ (\E c \in Places : places'[c] = <<>> /\ x \in ToSet(places[c]))
    <3>1. \A c \in Places \ {6} : places'[c] = <<>> => ToSet(places[c]) = {}
      BY <1>2, OfEmpty
    <3>2. 6 \in Places
      BY DEF Places
    <3> QED
      BY <2>1, <3>1, <3>2
  <2>4. Separate(places', Gone', created)
    BY <1>0, <2>2, <2>3, Emptied
  <2> QED
    BY <1>1, <1>3, <2>4
<1> QED
  BY <1>4, <1>5, <1>6

LEMMA AccountRestart ==
  ASSUME AccountInv, Restart
  PROVE  Accounted' /\ Read'
<1>0. TypeInv /\ Separate(places, Gone, created)
  BY DEF AccountInv, Accounted
<1>1. created' = created /\ Read' /\ Gone' = Gone \cup ToSet(Memory)
  BY DEF Restart, Read, Gone
<1>2. places' = <<<<>>, <<>>, <<>>, <<>>, <<>>, <<>>, <<>>, file>> /\ places[8] = file
  BY DEF Restart, places, Opt
<1>3. /\ \A c \in Places : c \in 1..7 \/ c = 8
      /\ \A c \in 1..7 : c \in Places /\ places'[c] = <<>>
      /\ places'[8] = places[8]
  BY <1>2 DEF Places
<1>4. \A x : x \in Gone' <=>
        x \in Gone \/ (\E c \in Places : places'[c] = <<>> /\ x \in ToSet(places[c]))
  <2>1. \A x : x \in ToSet(Memory) <=> \E c \in 1..7 : x \in ToSet(places[c])
    BY <1>0, HeldConcat
  <2>2. places'[8] = <<>> => ToSet(places[8]) = {}
    BY <1>3, OfEmpty
  <2> QED
    BY <1>1, <1>3, <2>1, <2>2
<1>5. Separate(places', Gone', created)
  BY <1>0, <1>3, <1>4, Emptied
<1> QED
  BY <1>1, <1>5 DEF Accounted

LEMMA AccountInvariant ==
  Spec => []AccountInv
<1>1. Init => AccountInv
  <2> SUFFICES ASSUME Init PROVE AccountInv
    OBVIOUS
  <2>1. \A a \in Places : places[a] = <<>>
    BY DEF Init, places, Places, Opt
  <2>2. <<>> \in Seq(Reports) /\ Inj(<<>>) /\ ToSet(<<>>) = {}
    BY OfEmpty
  <2>3. Gone = {} /\ created = 0 /\ 1..created = {}
    BY DEF Init, Gone
  <2>4. Separate(places, Gone, created)
    BY <2>1, <2>2, <2>3 DEF Separate
  <2> QED
    BY <2>4, TypeInit DEF AccountInv, Accounted, Init, Read
<1>2. AccountInv /\ [Next]_vars => AccountInv'
  <2> SUFFICES ASSUME AccountInv, [Next]_vars PROVE Accounted' /\ Read'
    BY TypeStep DEF AccountInv, TypeInv, TypeOK, Hand, vars, consVars, cacheVars, saveVars,
                    envVars, histVars
  <2>1. CASE UNCHANGED vars
    <3>1. UNCHANGED <<places, Gone, created, pcSend, mCacheResult, lines, file>>
      BY <2>1 DEF vars, places, Gone, consVars, cacheVars, saveVars, histVars
    <3> QED
      BY <3>1 DEF AccountInv, Accounted, Read
  <2> QED
    BY <2>1, AccountCreate, AccountConsumer, AccountSaver, AccountSender, AccountLink,
       AccountRestart DEF Next
<1> QED
  BY <1>1, <1>2, PTL DEF Spec

\* Every report that was created is in exactly one queue, hand or the file, or
\* is gone for a reason: written, refused, seven days old, of a closed
\* connection, of a process that ended, or appended while the file was read;
\* for any number of reports, any limit and any number of restarts.
THEOREM NoneLost ==
  Spec => []AllAccounted
<1>1. ASSUME AccountInv PROVE AllAccounted
  <2> DEFINE held == Memory \o file
  <2>1. Separate(places, Gone, created)
    BY <1>1 DEF AccountInv, Accounted
  <2>2. /\ \A x : x \in ToSet(held) <=> \E a \in Places : x \in ToSet(places[a])
        /\ Inj(held)
    BY <2>1, HeldConcat
  <2> HIDE DEF held
  <2>3. ToSet(held) \cup Gone = 1..created
    BY <2>1, <2>2 DEF Separate
  <2>4. ToSet(held) \cap Gone = {}
    BY <2>1, <2>2 DEF Separate
  <2> QED
    BY <2>2, <2>3, <2>4 DEF held, AllAccounted, Gone, Inj
<1> QED
  BY <1>1, AccountInvariant, PTL

-----------------------------------------------------------------------------
(* The pipeline implements StoreAndForward.  The store is the first six    *)
(* stations of the backlog; the last is the live queue.                    *)

\* The consumer takes a report to be sent when the writer has none.
OneSending ==
  /\ Len(mSendQueue) <= 1
  /\ pcCons = "send" => mSendQueue = <<>>
SendingInv == TypeInv /\ OneSending

LEMMA OneSendingInvariant ==
  Spec => []SendingInv
<1>1. Init => SendingInv
  BY TypeInit DEF Init, SendingInv, OneSending
<1>2. SendingInv /\ [Next]_vars => SendingInv'
  <2> SUFFICES ASSUME SendingInv, [Next]_vars PROVE OneSending'
    BY TypeStep DEF SendingInv, TypeInv, TypeOK, Hand, vars, consVars, cacheVars, saveVars,
                    envVars, histVars
  <2>1. CASE UNCHANGED <<mSendQueue, pcCons>>
    BY <2>1 DEF SendingInv, OneSending
  <2>2. CASE MessageCreateTask \/ MessageSaveTask \/ SendTask
    BY <2>1, <2>2
    DEF MessageCreateTask, MessageSaveTask, SaveTake, appendMessage, SendTask, SendTest,
        CacheFull, ReadLines, RemoveFile, StartPush, Push, EndPush, consVars
  <2>3. CASE StartDump \/ DumpTake \/ DumpPut \/ DumpEnd
    BY <2>3 DEF StartDump, DumpTake, DumpPut, DumpEnd, SendingInv, OneSending
  <2>4. CASE TakeLive \/ TakeCached
    BY <2>4 DEF TakeLive, TakeCached, MaySend, SendingInv, OneSending
  <2>5. CASE SendPut
    <3>1. mSendQueue' = <<msg>>
      BY <2>5 DEF SendPut, SendingInv, OneSending
    <3> QED
      BY <2>5, <3>1 DEF SendPut, OneSending
  <2>6. CASE sendFunc
    <3>1. mSendQueue \in Seq(Reports) /\ mSendQueue # <<>> /\ mSendQueue' = Tail(mSendQueue)
      BY <2>6, QueueTypes DEF sendFunc, SendingInv, TypeInv
    <3>2. Len(mSendQueue') = Len(mSendQueue) - 1 /\ Len(mSendQueue) \in Nat
      BY <3>1, HeadTailProperties
    <3>3. pcCons' # "send"
      BY <2>6, <3>1 DEF sendFunc, SendingInv, OneSending, consVars
    <3> QED
      BY <3>2, <3>3 DEF SendingInv, OneSending
  <2>7. CASE TimeOk \/ LinkLost \/ stop
    BY <2>1, <2>7 DEF TimeOk, LinkLost, stop, consVars
  <2>8. CASE Start \/ Restart
    BY <2>8 DEF Start, Restart, OneSending
  <2>9. CASE UNCHANGED vars
    BY <2>1, <2>9 DEF vars, consVars
  <2> QED
    BY <2>2, <2>3, <2>4, <2>5, <2>6, <2>7, <2>8, <2>9 DEF Next, MessageconsumerTask
<1> QED
  BY <1>1, <1>2, PTL DEF Spec

\* What is in the first six stations.
InStore(p) == UNION {ToSet(p[a]) : a \in 1..6}

LEMMA StoreConcat ==
  ASSUME NEW p, \A a \in 1..6 : p[a] \in Seq(Reports)
  PROVE  ToSet(p[1] \o p[2] \o p[3] \o p[4] \o p[5] \o p[6]) = InStore(p)
<1> DEFINE s2 == p[1] \o p[2]
           s3 == s2 \o p[3]
           s4 == s3 \o p[4]
           s5 == s4 \o p[5]
           s6 == s5 \o p[6]
<1>0. InStore(p) = ToSet(p[1]) \cup ToSet(p[2]) \cup ToSet(p[3]) \cup ToSet(p[4])
                     \cup ToSet(p[5]) \cup ToSet(p[6])
  BY DEF InStore
<1>1. s2 \in Seq(Reports) /\ ToSet(s2) = ToSet(p[1]) \cup ToSet(p[2])
  BY OfConcat
<1> HIDE DEF s2
<1>2. s3 \in Seq(Reports) /\ ToSet(s3) = ToSet(s2) \cup ToSet(p[3])
  BY <1>1, OfConcat
<1> HIDE DEF s3
<1>3. s4 \in Seq(Reports) /\ ToSet(s4) = ToSet(s3) \cup ToSet(p[4])
  BY <1>2, OfConcat
<1> HIDE DEF s4
<1>4. s5 \in Seq(Reports) /\ ToSet(s5) = ToSet(s4) \cup ToSet(p[5])
  BY <1>3, OfConcat
<1> HIDE DEF s5
<1>5. ToSet(s6) = ToSet(s5) \cup ToSet(p[6])
  BY <1>4, OfConcat
<1> HIDE DEF s6
<1>6. ToSet(s6) = InStore(p)
  BY <1>0, <1>1, <1>2, <1>3, <1>4, <1>5
<1> QED
  BY <1>6 DEF s2, s3, s4, s5, s6

LEMMA StoreIs ==
  ASSUME Ordered(backlog)
  PROVE  ToSet(Store) = InStore(backlog) /\ ToSet(mMsgQueue) = ToSet(backlog[7])
<1>1. \A a \in 1..6 : backlog[a] \in Seq(Reports)
  BY DEF Ordered, Stations
<1>2. ToSet(backlog[1] \o backlog[2] \o backlog[3] \o backlog[4] \o backlog[5] \o backlog[6])
        = InStore(backlog)
  BY <1>1, StoreConcat
<1> QED
  BY <1>2 DEF Store, backlog

LEMMA StoreIsNext ==
  ASSUME Ordered(backlog')
  PROVE  ToSet(Store)' = InStore(backlog') /\ ToSet(mMsgQueue)' = ToSet(backlog'[7])
<1> DEFINE q == backlog'
<1>1. \A a \in 1..6 : q[a] \in Seq(Reports)
  BY DEF Ordered, Stations
<1> HIDE DEF q
<1>2. ToSet(q[1] \o q[2] \o q[3] \o q[4] \o q[5] \o q[6]) = InStore(q)
  BY <1>1, StoreConcat
<1> QED
  BY <1>2 DEF q, Store, backlog

\* No report is in two stations, and the first one of a station is in front of
\* all that are behind it.
LEMMA Apart ==
  ASSUME NEW p, Ordered(p), NEW a \in Stations, NEW b \in Stations, a # b
  PROVE  ToSet(p[a]) \cap ToSet(p[b]) = {}
<1>1. ToSet(p[a]) \subseteq Nat /\ ToSet(p[b]) \subseteq Nat
  BY SetOf, ReportNumbers DEF Ordered
<1>2. a < b \/ b < a
  BY DEF Stations
<1>3. Below(ToSet(p[a]), ToSet(p[b])) \/ Below(ToSet(p[b]), ToSet(p[a]))
  BY <1>2 DEF Ordered
<1> QED
  BY <1>1, <1>3 DEF Below

LEMMA HeadApart ==
  ASSUME NEW p, Ordered(p), NEW a \in Stations, p[a] # <<>>
  PROVE  /\ Head(p[a]) \in Reports
         /\ ToSet(p[a]) = {Head(p[a])} \cup ToSet(Tail(p[a]))
         /\ ToSet(Tail(p[a])) = ToSet(p[a]) \ {Head(p[a])}
         /\ Reporting!First(Head(p[a]), ToSet(p[a]))
<1>1. p[a] \in Seq(Reports) /\ Inc(p[a])
  BY DEF Ordered
<1>2. /\ Head(p[a]) \in Reports /\ Tail(p[a]) \in Seq(Reports)
      /\ ToSet(p[a]) = {Head(p[a])} \cup ToSet(Tail(p[a]))
      /\ Below({Head(p[a])}, ToSet(Tail(p[a])))
  BY <1>1, OfTail
<1>3. Head(p[a]) \in Nat /\ ToSet(Tail(p[a])) \subseteq Nat
  BY <1>2, SetOf, ReportNumbers
<1> QED
  BY <1>2, <1>3 DEF Below, Reporting!First

\* A report that goes from one station of the store to another stays in it.
LEMMA MovesInside ==
  ASSUME NEW p, NEW q, Ordered(p), NEW a \in 2..6, Advances(p, q, a)
  PROVE  InStore(q) = InStore(p) /\ q[7] = p[7]
<1>1. a \in 1..6 /\ a - 1 \in 1..6 /\ a \in Stations /\ a - 1 \in Stations
  BY DEF Stations
<1>2. p[a - 1] \in Seq(Reports) /\ p[a] # <<>>
  BY <1>1 DEF Ordered, Advances
<1>3. /\ Head(p[a]) \in Reports /\ ToSet(p[a]) = {Head(p[a])} \cup ToSet(Tail(p[a]))
  BY <1>1, <1>2, HeadApart
<1>4. /\ ToSet(q[a]) = ToSet(Tail(p[a]))
      /\ ToSet(q[a - 1]) = ToSet(p[a - 1]) \cup {Head(p[a])}
  BY <1>2, <1>3, OfAppend DEF Advances
<1>5. \A b \in (1..6) \ {a, a - 1} : q[b] = p[b]
  BY DEF Advances, Stations
<1>6. q[7] = p[7]
  BY DEF Advances, Stations
<1>7. ASSUME NEW x PROVE x \in InStore(q) <=> x \in InStore(p)
  <2>1. x \in InStore(q) <=> \E b \in 1..6 : x \in ToSet(q[b])
    BY DEF InStore
  <2>2. x \in InStore(p) <=> \E b \in 1..6 : x \in ToSet(p[b])
    BY DEF InStore
  <2>3. ASSUME NEW b \in 1..6, x \in ToSet(q[b]) PROVE \E c \in 1..6 : x \in ToSet(p[c])
    BY <1>1, <1>3, <1>4, <1>5, <2>3
  <2>4. ASSUME NEW b \in 1..6, x \in ToSet(p[b]) PROVE \E c \in 1..6 : x \in ToSet(q[c])
    BY <1>1, <1>3, <1>4, <1>5, <2>4
  <2> QED
    BY <2>1, <2>2, <2>3, <2>4
<1> QED
  BY <1>6, <1>7

\* A report that is saved leaves the live queue and enters the store.
LEMMA MovesIn ==
  ASSUME NEW p, NEW q, Ordered(p), Advances(p, q, 7)
  PROVE  /\ InStore(q) = InStore(p) \cup {Head(p[7])}
         /\ ToSet(q[7]) = ToSet(p[7]) \ {Head(p[7])}
         /\ Reporting!First(Head(p[7]), ToSet(p[7]))
<1>1. /\ 7 \in Stations /\ p[7] # <<>> /\ q[7] = Tail(p[7])
      /\ q[6] = Append(p[6], Head(p[7])) /\ \A b \in 1..5 : q[b] = p[b]
      /\ p[6] \in Seq(Reports)
  BY DEF Advances, Stations, Ordered
<1>2. /\ Head(p[7]) \in Reports /\ ToSet(q[7]) = ToSet(p[7]) \ {Head(p[7])}
      /\ Reporting!First(Head(p[7]), ToSet(p[7]))
  BY <1>1, HeadApart
<1>3. ToSet(q[6]) = ToSet(p[6]) \cup {Head(p[7])}
  BY <1>1, <1>2, OfAppend
<1>4. \A b \in 1..6 : b = 6 \/ b \in 1..5
  OBVIOUS
<1>5. ASSUME NEW x PROVE x \in InStore(q) <=> x \in InStore(p) \cup {Head(p[7])}
  <2>1. x \in InStore(q) <=> x \in ToSet(q[6]) \/ \E b \in 1..5 : x \in ToSet(q[b])
    BY <1>4 DEF InStore
  <2>2. x \in InStore(p) <=> x \in ToSet(p[6]) \/ \E b \in 1..5 : x \in ToSet(p[b])
    BY <1>4 DEF InStore
  <2> QED
    BY <1>1, <1>3, <2>1, <2>2
<1> QED
  BY <1>2, <1>5

\* A report that leaves a station of the store for good leaves the store.
LEMMA MovesOut ==
  ASSUME NEW p, NEW q, Ordered(p), NEW a \in 1..6, Leaves(p, q, a)
  PROVE  /\ InStore(q) = InStore(p) \ {Head(p[a])} /\ q[7] = p[7]
         /\ Head(p[a]) \in InStore(p)
<1>1. a \in Stations /\ p[a] # <<>> /\ q[a] = Tail(p[a])
  BY DEF Leaves, Stations
<1>2. /\ Head(p[a]) \in ToSet(p[a]) /\ ToSet(q[a]) = ToSet(p[a]) \ {Head(p[a])}
  BY <1>1, HeadApart
<1>3. \A b \in (1..6) \ {a} : q[b] = p[b] /\ Head(p[a]) \notin ToSet(p[b])
  <2> SUFFICES ASSUME NEW b \in (1..6) \ {a}
               PROVE  q[b] = p[b] /\ Head(p[a]) \notin ToSet(p[b])
    OBVIOUS
  <2>1. b \in Stations /\ q[b] = p[b]
    BY DEF Leaves, Stations
  <2>2. ToSet(p[a]) \cap ToSet(p[b]) = {}
    BY <1>1, <2>1, Apart
  <2> QED
    BY <1>2, <2>1, <2>2
<1>4. ASSUME NEW x PROVE x \in InStore(q) <=> x \in InStore(p) \ {Head(p[a])}
  BY <1>2, <1>3 DEF InStore
<1>5. q[7] = p[7]
  BY DEF Leaves, Stations
<1> QED
  BY <1>2, <1>4, <1>5 DEF InStore

\* What is sent from the store is the first report of it.
LEMMA FirstOfStore ==
  ASSUME NEW p, Ordered(p), p[1] # <<>>
  PROVE  Reporting!First(Head(p[1]), InStore(p))
<1>1. 1 \in Stations
  BY DEF Stations
<1>2. /\ Head(p[1]) \in ToSet(p[1]) /\ Reporting!First(Head(p[1]), ToSet(p[1]))
  BY <1>1, HeadApart
<1>3. ASSUME NEW b \in 2..6, NEW x \in ToSet(p[b]) PROVE Head(p[1]) <= x
  <2>1. b \in Stations /\ 1 < b
    BY DEF Stations
  <2>2. Below(ToSet(p[1]), ToSet(p[b])) /\ p[b] \in Seq(Reports) /\ p[1] \in Seq(Reports)
    BY <1>1, <2>1 DEF Ordered
  <2>3. x \in Nat /\ Head(p[1]) \in Nat
    BY <1>2, <2>2, SetOf, ReportNumbers
  <2> QED
    BY <1>2, <2>2, <2>3 DEF Below
<1>4. \A b \in 1..6 : b = 1 \/ b \in 2..6
  OBVIOUS
<1> QED
  BY <1>2, <1>3, <1>4 DEF InStore, Reporting!First

-----------------------------------------------------------------------------
(* One lemma per part of the pipeline: what its steps are to the store.    *)

RefineInv == OrderInv /\ AccountInv /\ SendingInv

\* Every step keeps the line in order, so that the store can be told from the
\* stations before and after it.
LEMMA LineNext ==
  ASSUME OrderInv, Next
  PROVE  Ordered(backlog')
<1>1. CASE MessageCreateTask \/ MessageconsumerTask \/ MessageSaveTask \/ SendTask \/ Restart
  <2>1. InLine'
    BY <1>1, OrderCreate, OrderConsumer, OrderSaver, OrderSender, OrderRestart
  <2> QED
    BY <2>1 DEF InLine, Ordered
<1>2. CASE sendFunc \/ TimeOk \/ LinkLost \/ stop \/ Start
  <2>1. backlog' = backlog
    BY <1>2 DEF sendFunc, TimeOk, LinkLost, stop, Start, backlog, consVars, cacheVars, saveVars,
                histVars
  <2> QED
    BY <2>1 DEF OrderInv, InLine, Ordered
<1> QED
  BY <1>1, <1>2 DEF Next

\* A step that leaves every report in its part of the store is a stutter.
LEMMA StutterOf ==
  ASSUME RefineInv, Next, InStore(backlog') = InStore(backlog), backlog'[7] = backlog[7],
         Sending' = Sending, UNCHANGED histVars
  PROVE  UNCHANGED Reporting!vars
<1>1. Ordered(backlog) /\ Ordered(backlog')
  BY LineNext DEF RefineInv, OrderInv, InLine
<1>2. ToSet(Store)' = ToSet(Store) /\ ToSet(mMsgQueue)' = ToSet(mMsgQueue)
  BY <1>1, StoreIs, StoreIsNext
<1> QED
  BY <1>2 DEF Reporting!vars, histVars

LEMMA CreateRefines ==
  ASSUME RefineInv, MessageCreateTask
  PROVE  Reporting!Create
<1>1. /\ mMsgQueue \in Seq(Reports) /\ created + 1 \in Reports
  BY PipelineAssumption, QueueTypes
  DEF RefineInv, OrderInv, TypeInv, TypeOK, MessageCreateTask, Reports
<1>2. ToSet(mMsgQueue)' = ToSet(mMsgQueue) \cup {created + 1}
  BY <1>1, OfAppend DEF MessageCreateTask
<1>3. Store' = Store /\ Sending' = Sending
  BY DEF MessageCreateTask, Store, Sending, consVars, cacheVars, saveVars
<1> QED
  BY <1>2, <1>3 DEF MessageCreateTask, Reporting!Create

LEMMA ConsumerRefines ==
  ASSUME RefineInv, MessageconsumerTask
  PROVE  Reporting!Next \/ UNCHANGED Reporting!vars
<1>0. /\ TypeInv /\ OneSending /\ Ordered(backlog) /\ Ordered(backlog') /\ Next
  BY LineNext DEF RefineInv, OrderInv, InLine, SendingInv, Next
<1>1. /\ ToSet(Store) = InStore(backlog) /\ ToSet(Store)' = InStore(backlog')
      /\ ToSet(mMsgQueue) = ToSet(backlog[7]) /\ ToSet(mMsgQueue)' = ToSet(backlog'[7])
  BY <1>0, StoreIs, StoreIsNext
<1>2. CASE StartDump \/ DumpEnd
  <2>1. backlog' = backlog /\ Sending' = Sending
    BY <1>2 DEF StartDump, DumpEnd, backlog, Sending, cacheVars, saveVars
  <2> QED
    BY <1>0, <1>2, <2>1, StutterOf DEF StartDump, DumpEnd
<1>3. CASE DumpTake
  <2>1. Head(mMsgQueue) # None
    BY <1>0, <1>3, QueueTypes, HeadOf DEF DumpTake, TypeInv
  <2>2. Advances(backlog, backlog', 7)
    BY <1>3, <2>1 DEF DumpTake, Advances, backlog, Stations, Opt, cacheVars, saveVars
  <2>3. /\ ToSet(Store)' = ToSet(Store) \cup {Head(backlog[7])}
        /\ ToSet(mMsgQueue)' = ToSet(mMsgQueue) \ {Head(backlog[7])}
        /\ Reporting!First(Head(backlog[7]), ToSet(mMsgQueue))
    BY <1>0, <1>1, <2>2, MovesIn
  <2>4. Sending' = Sending
    BY <1>3 DEF DumpTake, Sending
  <2>5. Reporting!Save(Head(backlog[7]))
    BY <1>3, <2>3, <2>4 DEF DumpTake, Reporting!Save, histVars
  <2>6. Head(backlog[7]) \in ToSet(mMsgQueue)
    BY <2>3 DEF Reporting!First
  <2> QED
    BY <2>5, <2>6 DEF Reporting!Next
<1>4. CASE DumpPut
  <2>1. msg # None
    BY <1>0, <1>4 DEF DumpPut, TypeInv, Hand
  <2>2. Advances(backlog, backlog', 6)
    BY <1>4, <2>1 DEF DumpPut, Advances, backlog, Stations, Opt, cacheVars
  <2>3. Sending' = Sending
    BY <1>4 DEF DumpPut, Sending
  <2>4. InStore(backlog') = InStore(backlog) /\ backlog'[7] = backlog[7]
    BY <1>0, <2>2, MovesInside
  <2> QED
    BY <1>0, <1>4, <2>3, <2>4, StutterOf DEF DumpPut
<1>5. CASE TakeLive
  <2>1. /\ mMsgQueue # <<>> /\ mMsgQueue' = Tail(mMsgQueue) /\ backlog[7] = mMsgQueue
        /\ \A b \in 1..6 : backlog'[b] = backlog[b]
    BY <1>5 DEF TakeLive, MaySend, backlog, cacheVars, saveVars
  <2>2. 7 \in Stations
    BY DEF Stations
  <2>3. /\ Reporting!First(Head(mMsgQueue), ToSet(mMsgQueue))
        /\ ToSet(mMsgQueue)' = ToSet(mMsgQueue) \ {Head(mMsgQueue)}
    BY <1>0, <2>1, <2>2, HeadApart
  <2>4. ToSet(Store)' = ToSet(Store)
    BY <1>1, <2>1 DEF InStore
  <2>5. Sending = {} /\ Sending' = {Head(mMsgQueue)}
    BY <1>5, OfEmpty DEF TakeLive, MaySend, Sending
  <2>6. Reporting!SendLive(Head(mMsgQueue))
    BY <1>5, <2>3, <2>4, <2>5 DEF TakeLive, Reporting!SendLive, histVars
  <2>7. Head(mMsgQueue) \in ToSet(mMsgQueue)
    BY <2>3 DEF Reporting!First
  <2> QED
    BY <2>6, <2>7 DEF Reporting!Next
<1>6. CASE TakeCached
  <2>1. /\ Leaves(backlog, backlog', 1) /\ backlog[1] # <<>> /\ backlog[1] = mCacheSendQueue
    BY <1>6 DEF TakeCached, MaySend, Leaves, backlog, Stations, Opt, saveVars
  <2>2. /\ ToSet(Store)' = ToSet(Store) \ {Head(mCacheSendQueue)}
        /\ ToSet(mMsgQueue)' = ToSet(mMsgQueue)
    BY <1>0, <1>1, <2>1, MovesOut
  <2>3. Reporting!First(Head(mCacheSendQueue), ToSet(Store))
    BY <1>0, <1>1, <2>1, FirstOfStore
  <2>4. ToSet(mMsgQueue) = {}
    BY <1>6, OfEmpty DEF TakeCached, IdleTime
  <2>5. Sending = {} /\ Sending' = {Head(mCacheSendQueue)}
    BY <1>6, OfEmpty DEF TakeCached, MaySend, Sending
  <2>6. Reporting!SendStored(Head(mCacheSendQueue))
    BY <1>6, <2>2, <2>3, <2>4, <2>5 DEF TakeCached, Reporting!SendStored, histVars
  <2>7. Head(mCacheSendQueue) \in ToSet(Store)
    BY <2>3 DEF Reporting!First
  <2> QED
    BY <2>6, <2>7 DEF Reporting!Next
<1>7. CASE SendPut
  <2>1. backlog' = backlog
    BY <1>7 DEF SendPut, backlog, cacheVars, saveVars
  <2>2. msg \in Reports /\ mSendQueue = <<>> /\ mSendQueue' = <<msg>>
    BY <1>0, <1>7 DEF SendPut, TypeInv, TypeOK, Hand, OneSending
  <2>3. Sending' = Sending
    BY <1>7, <2>2, OfEmpty, OfOne DEF SendPut, Sending
  <2> QED
    BY <1>0, <1>7, <2>1, <2>3, StutterOf DEF SendPut
<1> QED
  BY <1>2, <1>3, <1>4, <1>5, <1>6, <1>7 DEF MessageconsumerTask

LEMMA SaverRefines ==
  ASSUME RefineInv, MessageSaveTask
  PROVE  UNCHANGED Reporting!vars
<1>0. TypeInv /\ Ordered(backlog) /\ Next
  BY DEF RefineInv, OrderInv, InLine, Next
<1>1. Sending' = Sending /\ UNCHANGED histVars
  BY DEF MessageSaveTask, SaveTake, appendMessage, Sending, consVars
<1>2. CASE SaveTake
  <2>1. Head(mSaveQueue) # None
    BY <1>0, <1>2, QueueTypes, HeadOf DEF SaveTake, TypeInv
  <2>2. Advances(backlog, backlog', 5)
    BY <1>2, <2>1 DEF SaveTake, Advances, backlog, Stations, Opt, cacheVars, consVars
  <2>3. InStore(backlog') = InStore(backlog) /\ backlog'[7] = backlog[7]
    BY <1>0, <2>2, MovesInside
  <2> QED
    BY <1>0, <1>1, <2>3, StutterOf
<1>3. CASE appendMessage
  <2>1. Advances(backlog, backlog', 4)
    BY <1>3 DEF appendMessage, Advances, backlog, Stations, Opt, cacheVars, consVars
  <2>2. InStore(backlog') = InStore(backlog) /\ backlog'[7] = backlog[7]
    BY <1>0, <2>1, MovesInside
  <2> QED
    BY <1>0, <1>1, <2>2, StutterOf
<1> QED
  BY <1>2, <1>3 DEF MessageSaveTask

LEMMA SenderRefines ==
  ASSUME RefineInv, SendTask
  PROVE  Reporting!Next \/ UNCHANGED Reporting!vars
<1>0. TypeInv /\ Ordered(backlog) /\ Ordered(backlog') /\ Next
  BY LineNext DEF RefineInv, OrderInv, InLine, Next
<1>1. /\ ToSet(Store) = InStore(backlog) /\ ToSet(Store)' = InStore(backlog')
      /\ ToSet(mMsgQueue) = ToSet(backlog[7]) /\ ToSet(mMsgQueue)' = ToSet(backlog'[7])
  BY <1>0, StoreIs, StoreIsNext
<1>2. /\ Sending' = Sending /\ created' = created /\ delivered' = delivered
      /\ ToSet(mMsgQueue)' = ToSet(mMsgQueue)
  BY DEF SendTask, SendTest, CacheFull, ReadLines, RemoveFile, StartPush, Push, EndPush, Sending,
         consVars, histVars
<1>3. ASSUME ToSet(Store)' \subseteq ToSet(Store),
             dropped' \cup unread' = (dropped \cup unread) \cup (ToSet(Store) \ ToSet(Store)')
      PROVE  Reporting!Next
  BY <1>2, <1>3 DEF Reporting!Next, Reporting!Discard
<1>4. CASE SendTest \/ CacheFull \/ ReadLines \/ StartPush \/ EndPush
  <2>1. backlog' = backlog /\ UNCHANGED histVars
    BY <1>4 DEF SendTest, CacheFull, ReadLines, StartPush, EndPush, backlog, consVars, saveVars
  <2> QED
    BY <1>0, <1>2, <2>1, StutterOf
<1>5. CASE RemoveFile
  <2>1. /\ mCacheSendQueue = <<>> /\ mCacheResult = <<>> /\ ToSet(lines) \subseteq ToSet(file)
    BY <1>5 DEF RemoveFile, RefineInv, OrderInv, Reading
  <2>2. backlog[1] = <<>> /\ backlog[2] = <<>> /\ backlog[3] = file
    BY <2>1 DEF backlog
  <2>3. backlog'[1] = <<>> /\ backlog'[2] = lines /\ backlog'[3] = <<>>
    BY <1>5, <2>1 DEF RemoveFile, FileRemoved, backlog
  <2>4. \A b \in 4..6 : backlog'[b] = backlog[b]
    BY <1>5 DEF RemoveFile, backlog, consVars, saveVars
  <2>5. \A b \in 1..6 : b \in {1, 2, 3} \/ b \in 4..6
    OBVIOUS
  <2>6. ASSUME NEW x
        PROVE  x \in InStore(backlog) <=> x \in ToSet(file) \/ \E b \in 4..6 : x \in ToSet(backlog[b])
    BY <2>2, <2>5, OfEmpty DEF InStore
  <2>7. ASSUME NEW x
        PROVE  x \in InStore(backlog') <=> x \in ToSet(lines) \/ \E b \in 4..6 : x \in ToSet(backlog[b])
    <3>1. x \in InStore(backlog') <=> \E b \in 1..6 : x \in ToSet(backlog'[b])
      BY DEF InStore
    <3>2. ToSet(<<>>) = {}
      BY OfEmpty
    <3> QED
      BY <2>3, <2>4, <2>5, <3>1, <3>2
  <2>8. \A b \in 4..6 : ToSet(file) \cap ToSet(backlog[b]) = {}
    BY <1>0, <2>2, Apart DEF Stations
  <2>9. /\ InStore(backlog') \subseteq InStore(backlog)
        /\ InStore(backlog) \ InStore(backlog') = ToSet(file) \ ToSet(lines)
    BY <2>1, <2>6, <2>7, <2>8
  <2>10. unread' = unread \cup (ToSet(file) \ ToSet(lines)) /\ dropped' = dropped
    BY <1>5 DEF RemoveFile
  <2> QED
    BY <1>1, <1>3, <2>9, <2>10
<1>6. CASE Push
  <2>1. CASE /\ mCacheSendQueue' = Append(mCacheSendQueue, Head(mCacheResult))
             /\ dropped' = dropped
    <3>1. Advances(backlog, backlog', 2)
      BY <1>6, <2>1 DEF Push, Advances, backlog, Stations, consVars, saveVars
    <3>2. InStore(backlog') = InStore(backlog) /\ backlog'[7] = backlog[7]
      BY <1>0, <3>1, MovesInside
    <3> QED
      BY <1>0, <1>2, <1>6, <2>1, <3>2, StutterOf DEF Push, histVars
  <2>2. CASE /\ dropped' = dropped \cup {Head(mCacheResult)}
             /\ mCacheSendQueue' = mCacheSendQueue
    <3>1. Leaves(backlog, backlog', 2) /\ backlog[2] = mCacheResult
      BY <1>6, <2>2 DEF Push, Leaves, backlog, Stations, consVars, saveVars
    <3>2. /\ InStore(backlog') = InStore(backlog) \ {Head(mCacheResult)}
          /\ Head(mCacheResult) \in InStore(backlog)
      BY <1>0, <3>1, MovesOut
    <3>3. unread' = unread
      BY <1>6 DEF Push
    <3> QED
      BY <1>1, <1>3, <2>2, <3>2, <3>3
  <2> QED
    BY <1>6, <2>1, <2>2 DEF Push
<1> QED
  BY <1>4, <1>5, <1>6 DEF SendTask

LEMMA LinkRefines ==
  ASSUME RefineInv, sendFunc \/ TimeOk \/ LinkLost \/ stop \/ Start
  PROVE  Reporting!Next \/ UNCHANGED Reporting!vars
<1>0. /\ TypeInv /\ OneSending /\ Next
  BY DEF RefineInv, OrderInv, SendingInv, Next
<1>1. /\ Store' = Store /\ mMsgQueue' = mMsgQueue /\ created' = created /\ unread' = unread
      /\ pcCons' = pcCons /\ msg' = msg
  BY DEF sendFunc, TimeOk, LinkLost, stop, Start, Store, consVars, cacheVars, saveVars, histVars
<1>2. ASSUME mSendQueue # <<>>
      PROVE  /\ Sending = {Head(mSendQueue)} /\ pcCons # "send"
             /\ ToSet(mSendQueue) = {Head(mSendQueue)} /\ Tail(mSendQueue) = <<>>
  <2>1. mSendQueue \in Seq(Reports) /\ pcCons # "send"
    BY <1>0, <1>2, QueueTypes DEF TypeInv, OneSending
  <2>2. /\ ToSet(mSendQueue) = {Head(mSendQueue)} \cup ToSet(Tail(mSendQueue))
        /\ Tail(mSendQueue) \in Seq(Reports)
    BY <1>2, <2>1, OfTail
  <2>3. Len(Tail(mSendQueue)) = 0
    <3>1. Len(mSendQueue) \in Nat /\ Len(mSendQueue) # 0
      BY <1>2, <2>1, EmptySeq
    <3>2. Len(Tail(mSendQueue)) = Len(mSendQueue) - 1
      BY <1>2, <2>1, HeadTailProperties
    <3> QED
      BY <1>0, <3>1, <3>2 DEF OneSending
  <2>4. Tail(mSendQueue) = <<>>
    BY <2>2, <2>3, EmptySeq
  <2> QED
    BY <2>1, <2>2, <2>4, OfEmpty DEF Sending
<1>3. CASE sendFunc
  <2>1. mSendQueue # <<>> /\ mSendQueue' = <<>> /\ Sending = {Head(mSendQueue)} /\ Sending' = {}
    BY <1>1, <1>2, <1>3, OfEmpty DEF sendFunc, Sending
  <2>2. CASE delivered' = delivered \cup {Head(mSendQueue)} /\ dropped' = dropped
    <3>1. Reporting!Write(Head(mSendQueue))
      BY <1>1, <2>1, <2>2 DEF Reporting!Write
    <3> QED
      BY <2>1, <3>1 DEF Reporting!Next
  <2>3. CASE dropped' = dropped \cup {Head(mSendQueue)} /\ delivered' = delivered
    <3>1. Reporting!Refuse(Head(mSendQueue))
      BY <1>1, <2>1, <2>3 DEF Reporting!Refuse
    <3> QED
      BY <2>1, <3>1 DEF Reporting!Next
  <2> QED
    BY <1>3, <2>2, <2>3 DEF sendFunc
<1>4. CASE TimeOk \/ LinkLost \/ stop
  <2>1. Sending' = Sending /\ UNCHANGED histVars
    BY <1>1, <1>4 DEF TimeOk, LinkLost, stop, Sending
  <2> QED
    BY <1>1, <2>1 DEF Reporting!vars, histVars
<1>5. CASE Start
  <2>1. mSendQueue' = <<>> /\ dropped' = dropped \cup ToSet(mSendQueue) /\ delivered' = delivered
    BY <1>5 DEF Start
  <2>2. CASE mSendQueue = <<>>
    BY <1>1, <2>1, <2>2, OfEmpty DEF Reporting!vars, Sending
  <2>3. CASE mSendQueue # <<>>
    <3>1. Sending' = {}
      BY <1>1, <1>2, <2>1, <2>3, OfEmpty DEF Sending
    <3>2. Reporting!Refuse(Head(mSendQueue))
      BY <1>1, <1>2, <2>1, <2>3, <3>1 DEF Reporting!Refuse
    <3> QED
      BY <1>2, <2>3, <3>2 DEF Reporting!Next
  <2> QED
    BY <2>2, <2>3
<1> QED
  BY <1>3, <1>4, <1>5

\* What the memory holds is live, on its way to the socket, or in the store and
\* not in the file.
LEMMA RestartRefines ==
  ASSUME RefineInv, Restart
  PROVE  Reporting!Restart
<1>0. /\ TypeInv /\ Ordered(backlog) /\ Ordered(backlog')
      /\ Separate(places, Gone, created)
  BY LineNext DEF RefineInv, OrderInv, InLine, AccountInv, Accounted, Next
<1>1. /\ ToSet(Store) = InStore(backlog) /\ ToSet(Store)' = InStore(backlog')
  BY <1>0, StoreIs, StoreIsNext
<1>2. ToSet(mMsgQueue)' = {} /\ Sending' = {}
  BY OfEmpty DEF Restart, Sending
<1>3. backlog' = <<<<>>, <<>>, file, <<>>, <<>>, <<>>, <<>>>>
  BY DEF Restart, backlog, Opt
<1>4. ToSet(Store)' = ToSet(file)
  <2>1. ASSUME NEW x PROVE x \in InStore(backlog') <=> x \in ToSet(file)
    <3>1. x \in InStore(backlog') <=> \E b \in 1..6 : x \in ToSet(backlog'[b])
      BY DEF InStore
    <3>2. \A b \in 1..6 : b = 3 \/ backlog'[b] = <<>>
      BY <1>3
    <3>3. backlog'[3] = file
      BY <1>3
    <3> QED
      BY <3>1, <3>2, <3>3, OfEmpty
  <2> QED
    BY <1>1, <2>1
<1>5. /\ ToSet(Opt(saveDataMessage)) = {saveDataMessage} \ {None}
      /\ ToSet(Opt(msg)) = {msg} \ {None}
  <2>1. ASSUME NEW r \in Reports \cup {None} PROVE ToSet(Opt(r)) = {r} \ {None}
    BY OfEmpty, OfOne, ReportNumbers DEF Opt
  <2> QED
    BY <1>0, <2>1 DEF TypeInv, TypeOK
<1>6. ASSUME NEW x
      PROVE  x \in ToSet(Store) <=>
               \/ x \in ToSet(mCacheSendQueue) \/ x \in ToSet(mCacheResult) \/ x \in ToSet(file)
               \/ x \in ToSet(Opt(saveDataMessage)) \/ x \in ToSet(mSaveQueue)
               \/ pcCons = "save" /\ x \in ToSet(Opt(msg))
  <2>1. x \in InStore(backlog) <=>
          \/ x \in ToSet(backlog[1]) \/ x \in ToSet(backlog[2]) \/ x \in ToSet(backlog[3])
          \/ x \in ToSet(backlog[4]) \/ x \in ToSet(backlog[5]) \/ x \in ToSet(backlog[6])
    BY DEF InStore
  <2>2. x \in ToSet(backlog[6]) <=> pcCons = "save" /\ x \in ToSet(Opt(msg))
    BY OfEmpty DEF backlog
  <2> QED
    BY <1>1, <2>1, <2>2 DEF backlog
<1>7. ASSUME NEW x
      PROVE  x \in ToSet(Memory) <=>
               \/ x \in ToSet(mMsgQueue) \/ x \in ToSet(Opt(msg)) \/ x \in ToSet(mSaveQueue)
               \/ x \in ToSet(Opt(saveDataMessage)) \/ x \in ToSet(mCacheSendQueue)
               \/ x \in ToSet(mSendQueue) \/ x \in ToSet(mCacheResult)
  <2>1. x \in ToSet(Memory) <=> \E a \in 1..7 : x \in ToSet(places[a])
    BY <1>0, HeldConcat
  <2>2. x \in ToSet(Memory) <=>
          \/ x \in ToSet(places[1]) \/ x \in ToSet(places[2]) \/ x \in ToSet(places[3])
          \/ x \in ToSet(places[4]) \/ x \in ToSet(places[5]) \/ x \in ToSet(places[6])
          \/ x \in ToSet(places[7])
    BY <2>1
  <2> QED
    BY <2>2 DEF places
<1>8. ASSUME NEW x, x \in ToSet(Memory) PROVE x \notin ToSet(file)
  <2>1. PICK a \in 1..7 : x \in ToSet(places[a])
    BY <1>0, <1>8, HeldConcat
  <2>2. ToSet(places[a]) \cap ToSet(places[8]) = {}
    BY <1>0 DEF Separate, Places
  <2> QED
    BY <2>1, <2>2 DEF places
<1>9. pcCons \in {"save", "send"} <=> msg # None
  BY <1>0 DEF TypeInv, Hand
<1>10. ASSUME NEW x PROVE x \in Sending <=> x \in ToSet(mSendQueue) \/ (pcCons = "send" /\ x = msg)
  BY DEF Sending
<1>11. ASSUME NEW x
       PROVE  x \in ToSet(Memory) <=>
                x \in ToSet(mMsgQueue) \/ x \in Sending \/ x \in ToSet(Store) \ ToSet(file)
  BY <1>5, <1>6, <1>7, <1>8, <1>9, <1>10
<1>12. dropped' \cup unread' = (dropped \cup unread) \cup ToSet(mMsgQueue) \cup Sending
                                 \cup (ToSet(Store) \ ToSet(file))
  BY <1>11 DEF Restart
<1>13. ToSet(file) \subseteq ToSet(Store)
  BY <1>6
<1> QED
  BY <1>2, <1>4, <1>12, <1>13 DEF Restart, Reporting!Restart

\* From its creation to the socket every report goes the way of StoreAndForward,
\* for any number of reports and restarts and any limit of the live queue: each
\* step of a task, of the link or of a restart is one of its actions or moves a
\* report inside the store.
THEOREM StoreRefinement ==
  Spec => ImplementsStoreAndForward
<1>1. Init => Reporting!Init
  <2> SUFFICES ASSUME Init PROVE Reporting!Init
    OBVIOUS
  <2>1. Store = <<>> /\ Sending = {}
    BY OfEmpty DEF Init, Store, Sending, Opt
  <2> QED
    BY <2>1, OfEmpty DEF Init, Reporting!Init
<1>2. RefineInv /\ [Next]_vars => [Reporting!Next]_(Reporting!vars)
  <2> SUFFICES ASSUME RefineInv, [Next]_vars
               PROVE  Reporting!Next \/ UNCHANGED Reporting!vars
    OBVIOUS
  <2>1. CASE UNCHANGED vars
    BY <2>1 DEF Reporting!vars, vars, Store, Sending, consVars, cacheVars, saveVars, histVars
  <2>2. CASE MessageCreateTask
    BY <2>2, CreateRefines DEF Reporting!Next
  <2>3. CASE Restart
    BY <2>3, RestartRefines DEF Reporting!Next
  <2> QED
    BY <2>1, <2>2, <2>3, ConsumerRefines, SaverRefines, SenderRefines, LinkRefines DEF Next
<1>3. Spec => []RefineInv
  BY OrderInvariant, AccountInvariant, OneSendingInvariant, PTL DEF RefineInv
<1> QED
  BY <1>1, <1>2, <1>3, PTL DEF Spec, ImplementsStoreAndForward, Reporting!Spec
=============================================================================
