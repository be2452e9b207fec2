--------------------------- MODULE QueueOpsLemmas ---------------------------
(***************************************************************************)
(* What the operations of QueueOps preserve, for any set It of items and   *)
(* any HistoryMax: the lists keep their types, no item comes to be in two  *)
(* places, and none leaves except where said.                              *)
(***************************************************************************)
EXTENDS QueueOps, SequenceTheorems, WellFoundedInduction, TLAPS

\* The identities in a list, and that none of them repeats.
IdsIn(s) == {s[i].id : i \in DOMAIN s}
Uniq(s) == \A i, j \in DOMAIN s : s[i].id = s[j].id => i = j

Engines(It) ==
    [queue : Seq(It), history : {h \in Seq(It) : Len(h) <= HistoryMax},
     current : It \cup {NoItem}, playing : BOOLEAN, paused : BOOLEAN]

\* Everything an engine value holds, and that it holds nothing twice.
IdCurrent(e) == IF e.current = NoItem THEN {} ELSE {e.current.id}
IdSet(e) == IdsIn(e.queue) \cup IdsIn(e.history) \cup IdCurrent(e)
Apart(e) ==
    /\ Uniq(e.queue) /\ Uniq(e.history)
    /\ IdsIn(e.queue) \cap IdsIn(e.history) = {}
    /\ IdCurrent(e) \cap (IdsIn(e.queue) \cup IdsIn(e.history)) = {}

\* The oldest history entry, where a full history makes room.
Oldest(e) ==
    IF Len(e.history) = HistoryMax THEN {e.history[HistoryMax].id} ELSE {}

-----------------------------------------------------------------------------
(* Lists *)

\* An item put in front of a list it is not in.
LEMMA ConsIds ==
  ASSUME NEW It, NEW s \in Seq(It), NEW x \in It
  PROVE  /\ <<x>> \o s \in Seq(It)
         /\ Len(<<x>> \o s) = Len(s) + 1
         /\ <<x>> \o s # <<>>
         /\ Head(<<x>> \o s) = x /\ Tail(<<x>> \o s) = s
         /\ IdsIn(<<x>> \o s) = {x.id} \cup IdsIn(s)
         /\ Uniq(s) /\ x.id \notin IdsIn(s) => Uniq(<<x>> \o s)
<1> DEFINE t == <<x>> \o s
<1>1. t \in Seq(It) /\ Len(t) = Len(s) + 1 /\ DOMAIN t = 1 .. Len(s) + 1
  OBVIOUS
<1>2. DOMAIN s = 1 .. Len(s) /\ Len(s) \in Nat
  OBVIOUS
<1>3. \A i \in 1 .. Len(s) + 1 : t[i] = IF i = 1 THEN x ELSE s[i - 1]
  BY <1>2
<1>4. \A i \in 1 .. Len(s) : t[i + 1] = s[i]
  BY <1>2, <1>3
<1> HIDE DEF t
<1>5. IdsIn(t) = {x.id} \cup IdsIn(s)
  <2>1. ASSUME NEW i \in DOMAIN t PROVE t[i].id \in {x.id} \cup IdsIn(s)
    <3>1. i = 1 \/ (i - 1 \in 1 .. Len(s) /\ i # 1)
      BY <1>1, <1>2
    <3> QED
      BY <1>1, <1>2, <1>3, <3>1 DEF IdsIn
  <2>2. ASSUME NEW i \in DOMAIN s PROVE s[i].id \in IdsIn(t)
    BY <1>1, <1>2, <1>4 DEF IdsIn
  <2>3. x.id \in IdsIn(t)
    BY <1>1, <1>2, <1>3 DEF IdsIn
  <2> QED
    BY <2>1, <2>2, <2>3 DEF IdsIn
<1>6. ASSUME Uniq(s), x.id \notin IdsIn(s) PROVE Uniq(t)
  <2> SUFFICES ASSUME NEW i \in DOMAIN t, NEW j \in DOMAIN t, t[i].id = t[j].id PROVE i = j
    BY DEF Uniq
  <2>1. i \in 1 .. Len(s) + 1 /\ j \in 1 .. Len(s) + 1
    BY <1>1
  <2>2. \A k \in 1 .. Len(s) + 1 : k # 1 => k - 1 \in DOMAIN s /\ t[k] = s[k - 1]
    BY <1>2, <1>3
  <2>3. \A k \in DOMAIN s : s[k].id # x.id
    BY <1>6 DEF IdsIn
  <2>4. CASE i = 1
    BY <1>3, <2>1, <2>2, <2>3, <2>4
  <2>5. CASE j = 1
    BY <1>3, <2>1, <2>2, <2>3, <2>5
  <2>6. CASE i # 1 /\ j # 1
    <3>1. i - 1 = j - 1
      BY <1>6, <2>1, <2>2, <2>6 DEF Uniq
    <3> QED
      BY <3>1, <2>1
  <2> QED
    BY <2>4, <2>5, <2>6
<1>7. t # <<>>
  BY <1>1, <1>2
<1>8. Head(t) = x
  BY <1>2, <1>3, <1>7
<1>9. Tail(t) = s
  <2>1. Tail(t) \in Seq(It) /\ Len(Tail(t)) = Len(s)
        /\ \A i \in 1 .. Len(s) : Tail(t)[i] = t[i + 1]
    BY <1>1, <1>2, <1>7, HeadTailProperties
  <2> QED
    BY <2>1, <1>4, SeqEqual
<1> QED
  BY <1>1, <1>5, <1>6, <1>7, <1>8, <1>9 DEF t

\* The first item taken from a list.
LEMMA TailIds ==
  ASSUME NEW It, NEW s \in Seq(It), s # <<>>
  PROVE  /\ Tail(s) \in Seq(It) /\ Head(s) \in It
         /\ Len(Tail(s)) = Len(s) - 1
         /\ s = <<Head(s)>> \o Tail(s)
         /\ IdsIn(s) = {Head(s).id} \cup IdsIn(Tail(s))
         /\ Uniq(s) => Uniq(Tail(s)) /\ Head(s).id \notin IdsIn(Tail(s))
<1>1. /\ Tail(s) \in Seq(It) /\ Head(s) \in It /\ Len(Tail(s)) = Len(s) - 1
      /\ \A i \in 1 .. Len(Tail(s)) : Tail(s)[i] = s[i + 1]
  BY HeadTailProperties
<1>2. Len(s) \in Nat \ {0} /\ DOMAIN s = 1 .. Len(s) /\ DOMAIN Tail(s) = 1 .. Len(s) - 1
      /\ s[1] = Head(s)
  BY <1>1, EmptySeq, LenProperties
<1>3. s = <<Head(s)>> \o Tail(s)
  <2> DEFINE t == <<Head(s)>> \o Tail(s)
  <2>1. t \in Seq(It) /\ Len(t) = Len(s)
    BY <1>1, <1>2, ConsIds
  <2>2. \A i \in 1 .. Len(s) : t[i] = s[i]
    BY <1>1, <1>2
  <2> QED
    BY <2>1, <2>2, SeqEqual
<1>4. IdsIn(s) = {Head(s).id} \cup IdsIn(Tail(s))
  BY <1>1, <1>3, ConsIds
<1>5. ASSUME Uniq(s) PROVE Uniq(Tail(s)) /\ Head(s).id \notin IdsIn(Tail(s))
  <2>1. \A i \in DOMAIN Tail(s) : i + 1 \in DOMAIN s /\ Tail(s)[i] = s[i + 1] /\ i + 1 # 1
    BY <1>1, <1>2
  <2>2. ASSUME NEW i \in DOMAIN Tail(s), NEW j \in DOMAIN Tail(s), Tail(s)[i].id = Tail(s)[j].id
        PROVE  i = j
    <3>1. i + 1 = j + 1
      BY <1>5, <2>1, <2>2 DEF Uniq
    <3> QED
      BY <3>1, <1>2
  <2>3. ASSUME NEW i \in DOMAIN Tail(s), Tail(s)[i].id = Head(s).id PROVE FALSE
    BY <1>5, <1>2, <2>1, <2>3 DEF Uniq
  <2> QED
    BY <2>2, <2>3 DEF Uniq, IdsIn
<1> QED
  BY <1>1, <1>3, <1>4, <1>5

\* An item put behind a list it is not in.
LEMMA AppendIds ==
  ASSUME NEW It, NEW s \in Seq(It), NEW x \in It
  PROVE  /\ Append(s, x) \in Seq(It)
         /\ IdsIn(Append(s, x)) = IdsIn(s) \cup {x.id}
         /\ Uniq(s) /\ x.id \notin IdsIn(s) => Uniq(Append(s, x))
<1> DEFINE t == Append(s, x)
<1>1. /\ t \in Seq(It) /\ Len(t) = Len(s) + 1 /\ t[Len(s) + 1] = x
      /\ \A i \in 1 .. Len(s) : t[i] = s[i]
  BY AppendProperties
<1>2. Len(s) \in Nat /\ DOMAIN s = 1 .. Len(s) /\ DOMAIN t = 1 .. Len(s) + 1
  BY <1>1, LenProperties
<1> HIDE DEF t
<1>3. IdsIn(t) = IdsIn(s) \cup {x.id}
  <2>1. ASSUME NEW i \in DOMAIN t PROVE t[i].id \in IdsIn(s) \cup {x.id}
    <3>1. i \in DOMAIN s \/ i = Len(s) + 1
      BY <1>2
    <3> QED
      BY <1>1, <1>2, <3>1 DEF IdsIn
  <2>2. ASSUME NEW i \in DOMAIN s PROVE s[i].id \in IdsIn(t)
    <3>1. i \in DOMAIN t /\ t[i] = s[i]
      BY <1>1, <1>2
    <3> QED
      BY <3>1 DEF IdsIn
  <2>3. x.id \in IdsIn(t)
    <3>1. Len(s) + 1 \in DOMAIN t
      BY <1>2
    <3> QED
      BY <1>1, <3>1 DEF IdsIn
  <2> QED
    BY <2>1, <2>2, <2>3 DEF IdsIn
<1>4. ASSUME Uniq(s), x.id \notin IdsIn(s) PROVE Uniq(t)
  <2> SUFFICES ASSUME NEW i \in DOMAIN t, NEW j \in DOMAIN t, t[i].id = t[j].id PROVE i = j
    BY DEF Uniq
  <2>1. \A k \in DOMAIN t : k = Len(s) + 1 \/ (k \in DOMAIN s /\ t[k] = s[k] /\ t[k].id # x.id)
    BY <1>1, <1>2, <1>4 DEF IdsIn
  <2> QED
    BY <1>1, <1>2, <1>4, <2>1 DEF Uniq
<1> QED
  BY <1>1, <1>3, <1>4 DEF t

\* A prefix of a list.
LEMMA PrefixIds ==
  ASSUME NEW It, NEW s \in Seq(It), NEW n \in 0 .. Len(s)
  PROVE  /\ SubSeq(s, 1, n) \in Seq(It)
         /\ Len(SubSeq(s, 1, n)) = n
         /\ IdsIn(SubSeq(s, 1, n)) = {s[i].id : i \in 1 .. n}
         /\ Uniq(s) => Uniq(SubSeq(s, 1, n))
<1> DEFINE t == SubSeq(s, 1, n)
<1>0. Len(s) \in Nat /\ DOMAIN s = 1 .. Len(s) /\ n \in Nat /\ 1 .. n \subseteq DOMAIN s
  BY LenProperties
<1>1. t \in Seq(It) /\ Len(t) = n /\ \A i \in 1 .. n : t[i] = s[i]
  <2>1. \A i \in 1 .. n : s[i] \in It
    BY <1>0, ElementOfSeq
  <2>2. t \in Seq(It) /\ Len(t) = (IF 1 <= n THEN n - 1 + 1 ELSE 0)
        /\ \A i \in 1 .. n - 1 + 1 : t[i] = s[1 + i - 1]
    BY <1>0, <2>1, SubSeqProperties
  <2>3. n - 1 + 1 = n /\ \A i \in 1 .. n : 1 + i - 1 = i
    BY <1>0
  <2>4. (IF 1 <= n THEN n - 1 + 1 ELSE 0) = n
    BY <1>0
  <2> HIDE DEF t
  <2> QED
    BY <2>2, <2>3, <2>4
<1>2. DOMAIN t = 1 .. n
  BY <1>1, LenProperties
<1> HIDE DEF t
<1>3. IdsIn(t) = {s[i].id : i \in 1 .. n}
  BY <1>1, <1>2 DEF IdsIn
<1>4. Uniq(s) => Uniq(t)
  BY <1>0, <1>1, <1>2 DEF Uniq
<1> QED
  BY <1>1, <1>3, <1>4 DEF t

\* A push on the history drops at most its oldest entry, and only when full.
LEMMA PushIds ==
  ASSUME NEW It, NEW h \in Seq(It), Len(h) <= HistoryMax, NEW x \in It
  PROVE  LET p == PushHistory(h, x)
         IN /\ p \in Seq(It) /\ Len(p) <= HistoryMax
            /\ p # <<>> /\ Head(p) = x
            /\ IdsIn(p) \subseteq {x.id} \cup IdsIn(h)
            /\ {x.id} \cup (IdsIn(h) \ (IF Len(h) = HistoryMax THEN {h[HistoryMax].id} ELSE {}))
                 \subseteq IdsIn(p)
            /\ Uniq(h) /\ x.id \notin IdsIn(h) => Uniq(p)
<1> DEFINE n == IF Len(h) < HistoryMax THEN Len(h) ELSE HistoryMax - 1
           t == SubSeq(h, 1, n)
<1>0. Len(h) \in Nat /\ DOMAIN h = 1 .. Len(h) /\ HistoryMax \in Nat \ {0}
  BY LenProperties, HistoryMaxAssumption
<1>1. n \in 0 .. Len(h) /\ n <= HistoryMax - 1 /\ n \in Nat
  BY <1>0
<1>2. /\ t \in Seq(It) /\ Len(t) = n /\ IdsIn(t) = {h[i].id : i \in 1 .. n}
      /\ Uniq(h) => Uniq(t)
  <2> HIDE DEF n
  <2> QED
    BY <1>1, PrefixIds
<1>3. PushHistory(h, x) = <<x>> \o t
  BY DEF PushHistory
<1>4. IdsIn(t) \subseteq IdsIn(h)
  <2>1. 1 .. n \subseteq DOMAIN h
    BY <1>0, <1>1
  <2> HIDE DEF t, n
  <2> QED
    BY <1>2, <2>1 DEF IdsIn
<1>5. ASSUME NEW i \in DOMAIN h,
             h[i].id \notin (IF Len(h) = HistoryMax THEN {h[HistoryMax].id} ELSE {})
      PROVE  h[i].id \in IdsIn(t)
  <2>1. ~(Len(h) = HistoryMax /\ i = HistoryMax)
    BY <1>5
  <2>2. i \in 1 .. Len(h) /\ i \in Nat /\ Len(h) \in Nat /\ HistoryMax \in Nat
    BY <1>0
  <2>3. i \in 1 .. n
    <3>1. CASE Len(h) < HistoryMax
      BY <2>2, <3>1
    <3>2. CASE ~(Len(h) < HistoryMax)
      <4>1. Len(h) = HistoryMax /\ i # HistoryMax /\ n = HistoryMax - 1
        BY <2>1, <2>2, <3>2
      <4> QED
        BY <2>2, <4>1
    <3> QED
      BY <3>1, <3>2
  <2> HIDE DEF t, n
  <2> QED
    BY <1>2, <2>3
<1> HIDE DEF t, n
<1>6. /\ <<x>> \o t \in Seq(It) /\ Len(<<x>> \o t) = n + 1
      /\ <<x>> \o t # <<>> /\ Head(<<x>> \o t) = x
      /\ IdsIn(<<x>> \o t) = {x.id} \cup IdsIn(t)
      /\ Uniq(t) /\ x.id \notin IdsIn(t) => Uniq(<<x>> \o t)
  BY <1>2, ConsIds
<1>7. n + 1 <= HistoryMax
  BY <1>0, <1>1
<1>8. IdsIn(h) \ (IF Len(h) = HistoryMax THEN {h[HistoryMax].id} ELSE {}) \subseteq IdsIn(t)
  BY <1>5 DEF IdsIn
<1>9. Uniq(h) /\ x.id \notin IdsIn(h) => Uniq(<<x>> \o t)
  BY <1>2, <1>4, <1>6
<1> QED
  BY <1>3, <1>4, <1>6, <1>7, <1>8, <1>9

\* A list whose items keep their identities.
LEMMA SameIds ==
  ASSUME NEW s, NEW t, DOMAIN t = DOMAIN s, \A i \in DOMAIN s : t[i].id = s[i].id
  PROVE  IdsIn(t) = IdsIn(s) /\ (Uniq(s) => Uniq(t))
  BY DEF IdsIn, Uniq

\* Two lists one after the other.
LEMMA ConcatIds ==
  ASSUME NEW It, NEW s \in Seq(It), NEW t \in Seq(It)
  PROVE  /\ s \o t \in Seq(It)
         /\ IdsIn(s \o t) = IdsIn(s) \cup IdsIn(t)
         /\ Uniq(s) /\ Uniq(t) /\ IdsIn(s) \cap IdsIn(t) = {} => Uniq(s \o t)
<1> DEFINE c == s \o t
<1>1. c \in Seq(It) /\ Len(c) = Len(s) + Len(t)
  BY ConcatProperties
<1>a. \A i \in 1 .. Len(s) + Len(t) : c[i] = IF i <= Len(s) THEN s[i] ELSE t[i - Len(s)]
  BY ConcatProperties
<1>2. /\ Len(s) \in Nat /\ Len(t) \in Nat /\ DOMAIN s = 1 .. Len(s) /\ DOMAIN t = 1 .. Len(t)
      /\ DOMAIN c = 1 .. Len(s) + Len(t)
  BY <1>1, LenProperties
<1> HIDE DEF c
<1>3. \A i \in DOMAIN c :
        \/ i \in DOMAIN s /\ c[i] = s[i]
        \/ i - Len(s) \in DOMAIN t /\ c[i] = t[i - Len(s)] /\ i \notin DOMAIN s
  <2> TAKE i \in DOMAIN c
  <2>0. i \in 1 .. Len(s) + Len(t)
    BY <1>2
  <2>1. CASE i <= Len(s)
    <3>1. i \in DOMAIN s
      BY <1>2, <2>0, <2>1
    <3>2. c[i] = s[i]
      BY <1>a, <2>0, <2>1
    <3> QED
      BY <3>1, <3>2
  <2>2. CASE ~(i <= Len(s))
    <3>1. i - Len(s) \in DOMAIN t /\ i \notin DOMAIN s
      BY <1>2, <2>0, <2>2
    <3>2. c[i] = t[i - Len(s)]
      BY <1>a, <2>0, <2>2
    <3> QED
      BY <3>1, <3>2
  <2> QED
    BY <2>1, <2>2
<1>4. \A i \in DOMAIN s : i \in DOMAIN c /\ c[i] = s[i]
  BY <1>1, <1>a, <1>2
<1>5. \A i \in DOMAIN t : Len(s) + i \in DOMAIN c /\ c[Len(s) + i] = t[i]
  <2> SUFFICES ASSUME NEW i \in DOMAIN t PROVE Len(s) + i \in DOMAIN c /\ c[Len(s) + i] = t[i]
    OBVIOUS
  <2>1. Len(s) + i \in 1 .. Len(s) + Len(t) /\ ~(Len(s) + i <= Len(s)) /\ Len(s) + i - Len(s) = i
    BY <1>2
  <2> QED
    BY <1>1, <1>a, <1>2, <2>1
<1>6. IdsIn(c) = IdsIn(s) \cup IdsIn(t)
  BY <1>3, <1>4, <1>5 DEF IdsIn
<1>7. ASSUME Uniq(s), Uniq(t), IdsIn(s) \cap IdsIn(t) = {} PROVE Uniq(c)
  <2> SUFFICES ASSUME NEW i \in DOMAIN c, NEW j \in DOMAIN c, c[i].id = c[j].id PROVE i = j
    BY DEF Uniq
  <2>1. \A k \in DOMAIN s, l \in DOMAIN t : s[k].id # t[l].id
    BY <1>7 DEF IdsIn
  <2>2. CASE i \in DOMAIN s
    BY <1>3, <1>7, <2>1, <2>2 DEF Uniq
  <2>3. CASE i \notin DOMAIN s
    <3>1. i - Len(s) \in DOMAIN t /\ j - Len(s) \in DOMAIN t /\ i - Len(s) = j - Len(s)
      BY <1>3, <1>7, <2>1, <2>3 DEF Uniq
    <3> QED
      BY <1>2, <3>1
  <2> QED
    BY <2>2, <2>3
<1> QED
  BY <1>1, <1>6, <1>7 DEF c

\* A list of one item, and the empty list.
LEMMA SmallIds ==
  /\ IdsIn(<<>>) = {} /\ Uniq(<<>>)
  /\ \A x : IdsIn(<<x>>) = {x.id} /\ Uniq(<<x>>)
<1>1. IdsIn(<<>>) = {} /\ Uniq(<<>>)
  BY DEF IdsIn, Uniq
<1>2. ASSUME NEW x PROVE IdsIn(<<x>>) = {x.id} /\ Uniq(<<x>>)
  <2>1. DOMAIN <<x>> = {1} /\ <<x>>[1] = x
    OBVIOUS
  <2> QED
    BY <2>1 DEF IdsIn, Uniq
<1> QED
  BY <1>1, <1>2

-----------------------------------------------------------------------------
(* Operations *)

\* Retiring the current item.
LEMMA RetireIds ==
  ASSUME NEW It, NoItem \notin It, NEW e \in Engines(It), Apart(e)
  PROVE  LET r == RetireCurrent(e)
         IN /\ r \in Engines(It) /\ Apart(r)
            /\ r.queue = e.queue /\ r.current = NoItem
            /\ IdSet(r) \subseteq IdSet(e) /\ IdSet(e) \ Oldest(e) \subseteq IdSet(r)
<1> DEFINE h == IF e.current = NoItem THEN e.history ELSE PushHistory(e.history, e.current)
           r == [e EXCEPT !.history = h, !.current = NoItem, !.playing = FALSE, !.paused = FALSE]
<1>t. /\ e.queue \in Seq(It) /\ e.history \in Seq(It) /\ Len(e.history) <= HistoryMax
      /\ e.current \in It \cup {NoItem}
  BY DEF Engines
<1>1. /\ h \in Seq(It) /\ Len(h) <= HistoryMax /\ Uniq(h)
      /\ IdsIn(h) \subseteq IdCurrent(e) \cup IdsIn(e.history)
      /\ IdCurrent(e) \cup (IdsIn(e.history) \ Oldest(e)) \subseteq IdsIn(h)
  <2>1. CASE e.current = NoItem
    BY <1>t, <2>1 DEF Apart, IdCurrent
  <2>2. CASE e.current # NoItem
    <3>1. e.current \in It /\ e.current.id \notin IdsIn(e.history)
      BY <1>t, <2>2 DEF Apart, IdCurrent
    <3> HIDE DEF h
    <3>2. h = PushHistory(e.history, e.current)
      BY <2>2 DEF h
    <3> QED
      BY <1>t, <2>2, <3>1, <3>2, PushIds DEF Apart, IdCurrent, Oldest
  <2> QED
    BY <2>1, <2>2
<1> HIDE DEF h
<1>2. /\ r.queue = e.queue /\ r.history = h /\ r.current = NoItem
      /\ r.playing = FALSE /\ r.paused = FALSE /\ r \in Engines(It)
  BY <1>1 DEF Engines
<1>3. RetireCurrent(e) = r
  BY DEF RetireCurrent, h, Engines
<1> HIDE DEF r
<1>4. Apart(r)
  BY <1>1, <1>2 DEF Apart, IdCurrent
<1>5. IdSet(r) \subseteq IdSet(e) /\ IdSet(e) \ Oldest(e) \subseteq IdSet(r)
  BY <1>1, <1>2 DEF IdSet, IdCurrent
<1> QED
  BY <1>2, <1>3, <1>4, <1>5

\* Advancing: the current item retires, the head of the queue becomes current.
LEMMA AdvanceIds ==
  ASSUME NEW It, NoItem \notin It, NEW e \in Engines(It), Apart(e)
  PROVE  LET r == AdvanceOp(e)
         IN /\ r \in Engines(It) /\ Apart(r)
            /\ r.current = (IF e.queue = <<>> THEN NoItem ELSE Head(e.queue))
            /\ IdSet(r) \subseteq IdSet(e) /\ IdSet(e) \ Oldest(e) \subseteq IdSet(r)
<1> DEFINE r == RetireCurrent(e)
           p == [r EXCEPT !.queue = Tail(r.queue), !.current = Head(r.queue), !.playing = TRUE]
<1>1. /\ r \in Engines(It) /\ Apart(r) /\ r.queue = e.queue /\ r.current = NoItem
      /\ IdSet(r) \subseteq IdSet(e) /\ IdSet(e) \ Oldest(e) \subseteq IdSet(r)
  BY RetireIds
<1>2. AdvanceOp(e) = IF r.queue = <<>> THEN r ELSE p
  BY DEF AdvanceOp, PopFront
<1> HIDE DEF r
<1>3. CASE e.queue = <<>>
  BY <1>1, <1>2, <1>3
<1>4. CASE e.queue # <<>>
  <2>1. /\ Tail(r.queue) \in Seq(It) /\ Head(r.queue) \in It
        /\ IdsIn(r.queue) = {Head(r.queue).id} \cup IdsIn(Tail(r.queue))
        /\ Uniq(Tail(r.queue)) /\ Head(r.queue).id \notin IdsIn(Tail(r.queue))
    <3>1. r.queue \in Seq(It) /\ r.queue # <<>> /\ Uniq(r.queue)
      BY <1>1, <1>4 DEF Engines, Apart
    <3> QED
      BY <3>1, TailIds
  <2>2. /\ p.queue = Tail(r.queue) /\ p.history = r.history /\ p.current = Head(r.queue)
        /\ p \in Engines(It)
    BY <1>1, <2>1 DEF Engines
  <2> HIDE DEF p
  <2>3. IdCurrent(p) = {Head(r.queue).id} /\ IdCurrent(r) = {}
    BY <1>1, <2>1, <2>2 DEF IdCurrent
  <2>4. Apart(p) /\ IdSet(p) = IdSet(r)
    BY <1>1, <2>1, <2>2, <2>3 DEF Apart, IdSet
  <2> QED
    BY <1>1, <1>2, <1>4, <2>2, <2>4
<1> QED
  BY <1>3, <1>4

\* Skip Back: nothing leaves, the newest history entry becomes current.
LEMMA SkipBackIds ==
  ASSUME NEW It, NoItem \notin It, NEW e \in Engines(It), Apart(e), e.history # <<>>
  PROVE  LET r == SkipBackOp(e)
         IN /\ r \in Engines(It) /\ Apart(r)
            /\ r.current = Head(e.history) /\ r.current # NoItem
            /\ IdSet(r) = IdSet(e)
<1> DEFINE q == IF e.current = NoItem THEN e.queue ELSE <<e.current>> \o e.queue
           r == [e EXCEPT !.queue = q, !.history = Tail(e.history), !.current = Head(e.history),
                          !.playing = TRUE, !.paused = FALSE]
<1>t. /\ e.queue \in Seq(It) /\ e.history \in Seq(It) /\ Len(e.history) <= HistoryMax
      /\ e.current \in It \cup {NoItem} /\ Uniq(e.queue) /\ Uniq(e.history)
  BY DEF Engines, Apart
<1>1. q \in Seq(It) /\ Uniq(q) /\ IdsIn(q) = IdCurrent(e) \cup IdsIn(e.queue)
  <2>1. CASE e.current = NoItem
    BY <1>t, <2>1 DEF IdCurrent
  <2>2. CASE e.current # NoItem
    <3>1. e.current \in It /\ e.current.id \notin IdsIn(e.queue)
      BY <1>t, <2>2 DEF Apart, IdCurrent
    <3> QED
      BY <1>t, <2>2, <3>1, ConsIds DEF IdCurrent
  <2> QED
    BY <2>1, <2>2
<1>2. /\ Tail(e.history) \in Seq(It) /\ Head(e.history) \in It
      /\ Len(Tail(e.history)) = Len(e.history) - 1
      /\ IdsIn(e.history) = {Head(e.history).id} \cup IdsIn(Tail(e.history))
      /\ Uniq(Tail(e.history)) /\ Head(e.history).id \notin IdsIn(Tail(e.history))
  BY <1>t, TailIds
<1>h. Len(Tail(e.history)) <= HistoryMax
  BY <1>2, <1>t, HistoryMaxAssumption, LenProperties
<1> HIDE DEF q
<1>3. /\ r.queue = q /\ r.history = Tail(e.history) /\ r.current = Head(e.history)
      /\ r \in Engines(It)
  BY <1>1, <1>2, <1>h DEF Engines
<1>4. SkipBackOp(e) = r
  BY DEF SkipBackOp, q, Engines
<1> HIDE DEF r
<1>5. IdCurrent(r) = {Head(e.history).id} /\ r.current # NoItem
  BY <1>2, <1>3 DEF IdCurrent
<1>6. Apart(r) /\ IdSet(r) = IdSet(e)
  BY <1>1, <1>2, <1>3, <1>5 DEF Apart, IdSet
<1> QED
  BY <1>3, <1>4, <1>5, <1>6

\* Holding: the interrupted item goes to the front of the queue.
LEMMA HoldIds ==
  ASSUME NEW It, NoItem \notin It, NEW e \in Engines(It), Apart(e), NEW mark,
         e.current # NoItem => /\ [e.current EXCEPT !.rec = mark] \in It
                               /\ [e.current EXCEPT !.rec = mark].id = e.current.id
  PROVE  LET r == HoldOp(e, mark)
         IN /\ r \in Engines(It) /\ Apart(r)
            /\ r.current = NoItem /\ IdSet(r) = IdSet(e) /\ r.history = e.history
<1> DEFINE x == [e.current EXCEPT !.rec = mark]
           q == <<x>> \o e.queue
           r == [e EXCEPT !.queue = q, !.current = NoItem, !.playing = FALSE, !.paused = TRUE]
<1>1. CASE e.current = NoItem
  BY <1>1 DEF HoldOp
<1>2. CASE e.current # NoItem
  <2>1. x \in It /\ x.id = e.current.id /\ e.queue \in Seq(It) /\ Uniq(e.queue)
        /\ IdCurrent(e) = {x.id}
    BY <1>2 DEF Engines, Apart, IdCurrent
  <2>2. HoldOp(e, mark) = r
    BY <1>2 DEF HoldOp
  <2> HIDE DEF x
  <2>3. q \in Seq(It) /\ Uniq(q) /\ IdsIn(q) = {x.id} \cup IdsIn(e.queue)
    <3>1. x.id \notin IdsIn(e.queue)
      BY <2>1 DEF Apart
    <3> QED
      BY <2>1, <3>1, ConsIds
  <2> HIDE DEF q
  <2>4. /\ r.queue = q /\ r.history = e.history /\ r.current = NoItem /\ r \in Engines(It)
    BY <2>3 DEF Engines
  <2> HIDE DEF r
  <2>5. IdCurrent(r) = {}
    BY <2>4 DEF IdCurrent
  <2>6. Apart(r) /\ IdSet(r) = IdSet(e)
    BY <2>1, <2>3, <2>4, <2>5 DEF Apart, IdSet
  <2> QED
    BY <2>2, <2>4, <2>6
<1> QED
  BY <1>1, <1>2

\* The held pointer moves on: the front of the queue retires.
LEMMA SkipHeldIds ==
  ASSUME NEW It, NoItem \notin It, NEW e \in Engines(It), Apart(e)
  PROVE  LET r == SkipHeldOp(e)
         IN /\ r \in Engines(It) /\ Apart(r)
            /\ r.current = e.current
            /\ IdSet(r) \subseteq IdSet(e) /\ IdSet(e) \ Oldest(e) \subseteq IdSet(r)
<1> DEFINE h == PushHistory(e.history, Head(e.queue))
           r == [e EXCEPT !.queue = Tail(e.queue), !.history = h]
<1>1. CASE e.queue = <<>>
  BY <1>1 DEF SkipHeldOp
<1>2. CASE e.queue # <<>>
  <2>t. /\ e.queue \in Seq(It) /\ e.history \in Seq(It) /\ Len(e.history) <= HistoryMax
        /\ Uniq(e.queue) /\ Uniq(e.history)
    BY DEF Engines, Apart
  <2>1. /\ Tail(e.queue) \in Seq(It) /\ Head(e.queue) \in It
        /\ IdsIn(e.queue) = {Head(e.queue).id} \cup IdsIn(Tail(e.queue))
        /\ Uniq(Tail(e.queue)) /\ Head(e.queue).id \notin IdsIn(Tail(e.queue))
    BY <1>2, <2>t, TailIds
  <2>2. Head(e.queue).id \notin IdsIn(e.history)
    BY <2>1 DEF Apart
  <2>3. /\ h \in Seq(It) /\ Len(h) <= HistoryMax /\ Uniq(h)
        /\ IdsIn(h) \subseteq {Head(e.queue).id} \cup IdsIn(e.history)
        /\ {Head(e.queue).id} \cup (IdsIn(e.history) \ Oldest(e)) \subseteq IdsIn(h)
    BY <2>t, <2>1, <2>2, PushIds DEF Oldest
  <2>4. SkipHeldOp(e) = r
    BY <1>2 DEF SkipHeldOp
  <2> HIDE DEF h
  <2>5. /\ r.queue = Tail(e.queue) /\ r.history = h /\ r.current = e.current /\ r \in Engines(It)
    BY <2>1, <2>3 DEF Engines
  <2> HIDE DEF r
  <2>6. IdCurrent(r) = IdCurrent(e)
    BY <2>5 DEF IdCurrent
  <2>7. Apart(r)
    BY <2>1, <2>3, <2>5, <2>6 DEF Apart
  <2>8. IdSet(r) \subseteq IdSet(e) /\ IdSet(e) \ Oldest(e) \subseteq IdSet(r)
    BY <2>1, <2>3, <2>5, <2>6 DEF IdSet
  <2> QED
    BY <2>4, <2>5, <2>7, <2>8
<1> QED
  BY <1>1, <1>2

\* The held pointer moves back: nothing leaves.
LEMMA SkipBackHeldIds ==
  ASSUME NEW It, NoItem \notin It, NEW e \in Engines(It), Apart(e)
  PROVE  LET r == SkipBackHeldOp(e)
         IN /\ r \in Engines(It) /\ Apart(r)
            /\ r.current = e.current /\ IdSet(r) = IdSet(e)
<1> DEFINE q == <<Head(e.history)>> \o e.queue
           r == [e EXCEPT !.queue = q, !.history = Tail(e.history)]
<1>1. CASE e.history = <<>>
  BY <1>1 DEF SkipBackHeldOp
<1>2. CASE e.history # <<>>
  <2>t. /\ e.queue \in Seq(It) /\ e.history \in Seq(It) /\ Len(e.history) <= HistoryMax
        /\ Uniq(e.queue) /\ Uniq(e.history)
    BY DEF Engines, Apart
  <2>1. /\ Tail(e.history) \in Seq(It) /\ Head(e.history) \in It
        /\ Len(Tail(e.history)) = Len(e.history) - 1
        /\ IdsIn(e.history) = {Head(e.history).id} \cup IdsIn(Tail(e.history))
        /\ Uniq(Tail(e.history)) /\ Head(e.history).id \notin IdsIn(Tail(e.history))
    BY <1>2, <2>t, TailIds
  <2>2. Len(Tail(e.history)) <= HistoryMax
    BY <2>t, <2>1, HistoryMaxAssumption, LenProperties
  <2>3. q \in Seq(It) /\ Uniq(q) /\ IdsIn(q) = {Head(e.history).id} \cup IdsIn(e.queue)
    <3>1. Head(e.history).id \notin IdsIn(e.queue)
      BY <2>1 DEF Apart
    <3> QED
      BY <2>t, <2>1, <3>1, ConsIds
  <2>4. SkipBackHeldOp(e) = r
    BY <1>2 DEF SkipBackHeldOp
  <2> HIDE DEF q
  <2>5. /\ r.queue = q /\ r.history = Tail(e.history) /\ r.current = e.current
        /\ r \in Engines(It)
    BY <2>1, <2>2, <2>3 DEF Engines
  <2> HIDE DEF r
  <2>6. IdCurrent(r) = IdCurrent(e)
    BY <2>5 DEF IdCurrent
  <2>7. Apart(r) /\ IdSet(r) = IdSet(e)
    BY <2>1, <2>3, <2>5, <2>6 DEF Apart, IdSet
  <2> QED
    BY <2>4, <2>5, <2>7
<1> QED
  BY <1>1, <1>2

\* Stopping drops the current item and nothing else.
LEMMA StopIds ==
  ASSUME NEW It, NEW e \in Engines(It), Apart(e)
  PROVE  LET r == StopOp(e)
         IN /\ r \in Engines(It) /\ Apart(r)
            /\ r.current = NoItem /\ IdSet(r) = IdSet(e) \ IdCurrent(e)
<1> DEFINE r == [e EXCEPT !.current = NoItem, !.playing = FALSE, !.paused = FALSE]
<1>1. /\ r.queue = e.queue /\ r.history = e.history /\ r.current = NoItem /\ r \in Engines(It)
      /\ StopOp(e) = r
  BY DEF Engines, StopOp
<1> HIDE DEF r
<1>2. IdCurrent(r) = {}
  BY <1>1 DEF IdCurrent
<1> QED
  BY <1>1, <1>2 DEF Apart, IdSet

\* A value that keeps every list keeps its identities.
LEMMA SameListsIds ==
  ASSUME NEW e, NEW r, Apart(e),
         IdsIn(r.queue) = IdsIn(e.queue), IdsIn(r.history) = IdsIn(e.history),
         IdCurrent(r) = IdCurrent(e),
         Uniq(r.queue), Uniq(r.history)
  PROVE  Apart(r) /\ IdSet(r) = IdSet(e)
  BY DEF Apart, IdSet

-----------------------------------------------------------------------------
(***************************************************************************)
(* Removing entries from the queue by receipt and putting them back        *)
(* (remove_entries and restore_entries of app/queue/engine.py), for every  *)
(* queue and every list of receipts.  The operators iterate over a list;   *)
(* the induction over its length is by sets of numbers, not by a predicate.*)
(***************************************************************************)

-----------------------------------------------------------------------------
(* Numbers *)

\* A set of numbers that is not empty has a smallest member.
LEMMA Smallest ==
  ASSUME NEW N \in SUBSET Nat, N # {}
  PROVE  \E t \in N : \A u \in N : t <= u
<1> DEFINE R == OpToRel(<, Nat)
<1>1. \E t \in N : \A u \in N : ~ (<<u, t>> \in R)
  <2> HIDE DEF R
  <2> QED
    BY NatLessThanWellFounded, WFMin DEF R
<1>2. \A t, u \in Nat : <<u, t>> \in R <=> u < t
  BY DEF OpToRel
<1> HIDE DEF R
<1>3. PICK t \in N : \A u \in N : ~ (<<u, t>> \in R)
  BY <1>1
<1>4. \A u \in N : ~ (u < t)
  BY <1>2, <1>3
<1>5. \A u \in N : t <= u
  BY <1>4
<1> QED
  BY <1>5

\* Induction up to n: a set that holds 0 and, with each number below n, its
\* successor, holds every number up to n.
LEMMA UpTo ==
  ASSUME NEW n \in Nat, NEW N, 0 \in N, \A k \in 0 .. n - 1 : k \in N => k + 1 \in N
  PROVE  \A k \in 0 .. n : k \in N
<1> SUFFICES ASSUME ~ (\A k \in 0 .. n : k \in N) PROVE FALSE
  OBVIOUS
<1> DEFINE M == (0 .. n) \ N
<1>1. M \in SUBSET Nat /\ M # {}
  OBVIOUS
<1>2. PICK m \in M : \A u \in M : m <= u
  BY <1>1, Smallest
<1>3. m # 0 /\ m - 1 \in 0 .. n - 1 /\ m - 1 \notin M
  BY <1>2
<1>4. m - 1 \in N
  BY <1>3
<1>5. (m - 1) + 1 \in N
  BY <1>3, <1>4
<1> QED
  BY <1>2, <1>5

\* A set of positions that is not empty has a last one.
LEMMA Largest ==
  ASSUME NEW n \in Nat, NEW N \in SUBSET (1 .. n), N # {}
  PROVE  \E t \in N : \A u \in N : u <= t
<1> DEFINE M == {n - i : i \in N}
<1>1. M \in SUBSET Nat /\ M # {}
  OBVIOUS
<1>2. PICK m \in M : \A u \in M : m <= u
  BY <1>1, Smallest
<1>3. PICK t \in N : m = n - t
  BY <1>2
<1>4. ASSUME NEW u \in N PROVE u <= t
  <2>1. n - u \in M
    OBVIOUS
  <2> QED
    BY <1>2, <1>3, <2>1
<1> QED
  BY <1>4

\* f lists what the step functions g[1], ..., g[n] make of a, one after another.
Iteration(f, g, a, n) == f[0] = a /\ \A k \in 1 .. n : f[k] = g[k][f[k - 1]]

\* Such a list exists.
LEMMA Iterates ==
  ASSUME NEW T, NEW a \in T, NEW n \in Nat, NEW g \in [1 .. n -> [T -> T]]
  PROVE  \E f \in [0 .. n -> T] : Iteration(f, g, a, n)
<1> DEFINE Fits(f, k) == /\ f \in [0 .. k -> T] /\ f[0] = a
                         /\ \A j \in 1 .. k : f[j] = g[j][f[j - 1]]
           N == {k \in 0 .. n : \E f \in [0 .. k -> T] : Fits(f, k)}
<1>1. 0 \in N
  <2>1. Fits([j \in 0 .. 0 |-> a], 0)
    OBVIOUS
  <2>2. [j \in 0 .. 0 |-> a] \in [0 .. 0 -> T]
    OBVIOUS
  <2> HIDE DEF Fits
  <2> QED
    BY <2>1, <2>2
<1>2. ASSUME NEW k \in 0 .. n - 1, k \in N PROVE k + 1 \in N
  <2>1. PICK f \in [0 .. k -> T] : Fits(f, k)
    BY <1>2
  <2> DEFINE h == [j \in 0 .. k + 1 |-> IF j = k + 1 THEN g[k + 1][f[k]] ELSE f[j]]
  <2>2. g[k + 1][f[k]] \in T
    OBVIOUS
  <2>3. h \in [0 .. k + 1 -> T]
    BY <2>2
  <2>4. h[0] = a /\ \A j \in 1 .. k + 1 : h[j] = g[j][h[j - 1]]
    BY <2>1
  <2>5. Fits(h, k + 1)
    <3> HIDE DEF h
    <3> QED
      BY <2>3, <2>4
  <2>6. k + 1 \in 0 .. n
    OBVIOUS
  <2> HIDE DEF Fits, h
  <2> QED
    BY <2>3, <2>5, <2>6
<1>3. n \in N
  <2> HIDE DEF N
  <2>1. \A k \in 0 .. n - 1 : k \in N => k + 1 \in N
    BY <1>2
  <2>2. \A k \in 0 .. n : k \in N
    BY <1>1, <2>1, UpTo
  <2> QED
    BY <2>2
<1> QED
  BY <1>3 DEF Iteration

-----------------------------------------------------------------------------
(* One edit *)

\* What Delete leaves.
LEMMA Deleted ==
  ASSUME NEW It, NEW s \in Seq(It), NEW i \in 1 .. Len(s)
  PROVE  /\ Delete(s, i) \in Seq(It) /\ Len(Delete(s, i)) = Len(s) - 1
         /\ \A j \in 1 .. Len(s) - 1 : Delete(s, i)[j] = IF j < i THEN s[j] ELSE s[j + 1]
<1> DEFINE a == SubSeq(s, 1, i - 1)
           b == SubSeq(s, i + 1, Len(s))
<1>0. Len(s) \in Nat /\ i \in Int /\ \A j \in 1 .. Len(s) : s[j] \in It
  BY ElementOfSeq, LenProperties
<1>1. a \in Seq(It) /\ Len(a) = i - 1 /\ \A j \in 1 .. i - 1 : a[j] = s[j]
  BY <1>0, SubSeqProperties
<1>2. b \in Seq(It) /\ Len(b) = Len(s) - i /\ \A j \in 1 .. Len(s) - i : b[j] = s[j + i]
  BY <1>0, SubSeqProperties
<1> HIDE DEF a, b
<1>c. /\ a \o b \in Seq(It) /\ Len(a \o b) = Len(a) + Len(b)
      /\ \A j \in 1 .. Len(a) + Len(b) : (a \o b)[j] = IF j <= Len(a) THEN a[j] ELSE b[j - Len(a)]
  BY <1>1, <1>2, ConcatProperties
<1>3. /\ a \o b \in Seq(It) /\ Len(a \o b) = Len(s) - 1
      /\ \A j \in 1 .. Len(s) - 1 : (a \o b)[j] = IF j <= i - 1 THEN a[j] ELSE b[j - (i - 1)]
  BY <1>0, <1>1, <1>2, <1>c, SMTT(30)
<1>4. ASSUME NEW j \in 1 .. Len(s) - 1
      PROVE  (a \o b)[j] = IF j < i THEN s[j] ELSE s[j + 1]
  <2>1. CASE j < i
    BY <1>0, <1>1, <1>3, <2>1
  <2>2. CASE ~ (j < i)
    <3>1. j - (i - 1) \in 1 .. Len(s) - i /\ j - (i - 1) + i = j + 1
      BY <1>0, <2>2
    <3> QED
      BY <1>0, <1>2, <1>3, <2>2, <3>1
  <2> QED
    BY <2>1, <2>2
<1> QED
  BY <1>3, <1>4 DEF Delete, a, b

\* What Insert makes.
LEMMA Inserted ==
  ASSUME NEW It, NEW s \in Seq(It), NEW i \in 1 .. Len(s) + 1, NEW x \in It
  PROVE  /\ Insert(s, i, x) \in Seq(It) /\ Len(Insert(s, i, x)) = Len(s) + 1
         /\ \A j \in 1 .. Len(s) + 1 :
              Insert(s, i, x)[j] = IF j < i THEN s[j] ELSE IF j = i THEN x ELSE s[j - 1]
<1> DEFINE a == SubSeq(s, 1, i - 1)
           b == SubSeq(s, i, Len(s))
           c == a \o <<x>>
<1>0. Len(s) \in Nat /\ i \in Int /\ \A j \in 1 .. Len(s) : s[j] \in It
  BY ElementOfSeq, LenProperties
<1>1. a \in Seq(It) /\ Len(a) = i - 1 /\ \A j \in 1 .. i - 1 : a[j] = s[j]
  BY <1>0, SubSeqProperties
<1>2. b \in Seq(It) /\ Len(b) = Len(s) - i + 1 /\ \A j \in 1 .. Len(s) - i + 1 : b[j] = s[j + i - 1]
  BY <1>0, SubSeqProperties
<1>3. <<x>> \in Seq(It) /\ Len(<<x>>) = 1 /\ <<x>>[1] = x
  OBVIOUS
<1> HIDE DEF a, b
<1>4. /\ c \in Seq(It) /\ Len(c) = i
      /\ \A j \in 1 .. i : c[j] = IF j <= i - 1 THEN a[j] ELSE <<x>>[j - (i - 1)]
  BY <1>0, <1>1, <1>3, ConcatProperties
<1>5. c[i] = x /\ \A j \in 1 .. i - 1 : c[j] = s[j]
  BY <1>0, <1>1, <1>3, <1>4
<1> HIDE DEF c
<1>6. /\ c \o b \in Seq(It) /\ Len(c \o b) = Len(s) + 1
      /\ \A j \in 1 .. Len(s) + 1 : (c \o b)[j] = IF j <= i THEN c[j] ELSE b[j - i]
  BY <1>0, <1>2, <1>4, ConcatProperties
<1>7. ASSUME NEW j \in 1 .. Len(s) + 1
      PROVE  (c \o b)[j] = IF j < i THEN s[j] ELSE IF j = i THEN x ELSE s[j - 1]
  <2>1. CASE j <= i
    BY <1>0, <1>5, <1>6, <2>1
  <2>2. CASE ~ (j <= i)
    <3>1. j - i \in 1 .. Len(s) - i + 1 /\ (j - i) + i - 1 = j - 1
      BY <1>0, <2>2
    <3> QED
      BY <1>0, <1>2, <1>6, <2>2, <3>1
  <2> QED
    BY <2>1, <2>2
<1> QED
  BY <1>6, <1>7 DEF Insert, a, b, c

\* remove_last_matching takes the last entry with that receipt, if there is one.
LEMMA RemovesLast ==
  ASSUME NEW It, NEW s \in Seq(It), NEW r
  PROVE  \/ /\ RemoveLast(s, r) = s
            /\ \A j \in 1 .. Len(s) : Receipt(s[j]) # r
         \/ \E i \in 1 .. Len(s) : Receipt(s[i]) = r /\ RemoveLast(s, r) = Delete(s, i)
<1> DEFINE hits == {i \in DOMAIN s : Receipt(s[i]) = r}
<1>0. Len(s) \in Nat /\ DOMAIN s = 1 .. Len(s)
  BY LenProperties
<1>1. CASE hits = {}
  <2>1. LastMatch(s, r) = 0
    BY <1>1 DEF LastMatch
  <2>2. \A j \in 1 .. Len(s) : Receipt(s[j]) # r
    BY <1>0, <1>1
  <2> QED
    BY <2>1, <2>2 DEF RemoveLast
<1>2. CASE hits # {}
  <2>1. hits \in SUBSET (1 .. Len(s))
    BY <1>0
  <2>2. \E i \in hits : \A j \in hits : j <= i
    <3> HIDE DEF hits
    <3> QED
      BY <1>0, <1>2, <2>1, Largest
  <2>3. LastMatch(s, r) \in hits
    BY <1>2, <2>2 DEF LastMatch
  <2>4. LastMatch(s, r) # 0
    BY <1>0, <2>1, <2>3
  <2> QED
    BY <1>0, <2>3, <2>4 DEF RemoveLast
<1> QED
  BY <1>1, <1>2

\* What holds at first and is kept by each step holds all along.
LEMMA StaysIn ==
  ASSUME NEW T, NEW n \in Nat, NEW f, f[0] \in T, \A k \in 0 .. n - 1 : f[k] \in T => f[k + 1] \in T
  PROVE  \A k \in 0 .. n : f[k] \in T
<1> DEFINE N == {k \in 0 .. n : f[k] \in T}
<1>1. 0 \in N /\ \A k \in 0 .. n - 1 : k \in N => k + 1 \in N
  OBVIOUS
<1>2. \A k \in 0 .. n : k \in N
  <2> HIDE DEF N
  <2> QED
    BY <1>1, UpTo
<1> QED
  BY <1>2

\* remove_entries is an iteration of remove_last_matching.
LEMMA RemovalIterates ==
  ASSUME NEW It, NEW q \in Seq(It), NEW receipts, Len(receipts) \in Nat
  PROVE  \E f \in [0 .. Len(receipts) -> Seq(It)] :
            /\ f[0] = q
            /\ \A n \in 1 .. Len(receipts) : f[n] = RemoveLast(f[n - 1], receipts[n])
            /\ RemoveEntriesOp(q, receipts) = f[Len(receipts)]
<1> DEFINE L == Len(receipts)
           T == Seq(It)
           g == [n \in 1 .. L |-> [s \in T |-> RemoveLast(s, receipts[n])]]
           Fits(f) == f = [n \in 0 .. L |-> IF n = 0 THEN q ELSE RemoveLast(f[n - 1], receipts[n])]
           h == CHOOSE f : Fits(f)
<1>0. L \in Nat /\ q \in T
  OBVIOUS
<1>1. \A s \in T : \A r : RemoveLast(s, r) \in T
  BY RemovesLast, Deleted, SMTT(30)
<1>7. RemoveEntriesOp(q, receipts) = h[L]
  BY DEF RemoveEntriesOp
<1> HIDE DEF L, T, h
<1>2. g \in [1 .. L -> [T -> T]]
  BY <1>1
<1>3. PICK f \in [0 .. L -> T] : f[0] = q /\ \A k \in 1 .. L : f[k] = g[k][f[k - 1]]
  <2> HIDE DEF g, Fits
  <2>1. \E f \in [0 .. L -> T] : Iteration(f, g, q, L)
    BY <1>0, <1>2, Iterates
  <2> QED
    BY <2>1 DEF Iteration
<1>4. \A k \in 1 .. L : f[k] = RemoveLast(f[k - 1], receipts[k])
  <2> SUFFICES ASSUME NEW k \in 1 .. L PROVE f[k] = RemoveLast(f[k - 1], receipts[k])
    OBVIOUS
  <2>1. f[k] = g[k][f[k - 1]] /\ f[k - 1] \in T
    BY <1>0, <1>3
  <2> QED
    BY <2>1
<1>5. Fits(f)
  <2> HIDE DEF g
  <2>1. \A n \in 0 .. L : f[n] = IF n = 0 THEN q ELSE RemoveLast(f[n - 1], receipts[n])
    <3> SUFFICES ASSUME NEW n \in 0 .. L
                 PROVE  f[n] = IF n = 0 THEN q ELSE RemoveLast(f[n - 1], receipts[n])
      OBVIOUS
    <3>1. n = 0 \/ n \in 1 .. L
      BY <1>0
    <3> QED
      BY <1>3, <1>4, <3>1
  <2> QED
    BY <2>1
<1>6. h = [n \in 0 .. L |-> IF n = 0 THEN q ELSE RemoveLast(h[n - 1], receipts[n])]
  <2>1. Fits(h)
    BY <1>5 DEF h
  <2> QED
    BY <2>1
<1>8. /\ h[0] = q
      /\ \A n \in 1 .. L : h[n] = RemoveLast(h[n - 1], receipts[n])
  BY <1>0, <1>6
<1>9. \A n \in 0 .. L - 1 : h[n + 1] = RemoveLast(h[n], receipts[n + 1])
  <2> SUFFICES ASSUME NEW n \in 0 .. L - 1 PROVE h[n + 1] = RemoveLast(h[n], receipts[n + 1])
    OBVIOUS
  <2>1. n + 1 \in 1 .. L /\ (n + 1) - 1 = n
    BY <1>0
  <2> QED
    BY <1>8, <2>1
<1>10. \A n \in 0 .. L : h[n] \in T
  <2>1. \A n \in 0 .. L - 1 : h[n] \in T => h[n + 1] \in T
    BY <1>1, <1>9
  <2> QED
    BY <1>0, <1>8, <2>1, StaysIn
<1>11. h \in [0 .. L -> T]
  <2> DEFINE e(n) == IF n = 0 THEN q ELSE RemoveLast(h[n - 1], receipts[n])
  <2>1. h = [n \in 0 .. L |-> e(n)]
    BY <1>6
  <2>2. DOMAIN h = 0 .. L /\ h = [n \in 0 .. L |-> h[n]]
    BY <2>1
  <2> QED
    BY <1>10, <2>2
<1> QED
  BY <1>7, <1>8, <1>11 DEF L, T

-----------------------------------------------------------------------------
(* Parts of a list *)

\* e numbers, in order, the positions D of q that make up s.
Embeds(e, s, q, D) ==
    /\ e \in [1 .. Len(s) -> D]
    /\ \A i, j \in 1 .. Len(s) : i < j => e[i] < e[j]
    /\ \A p \in D : \E i \in 1 .. Len(s) : e[i] = p
    /\ \A i \in 1 .. Len(s) : s[i] = q[e[i]]

\* s is what q has at the positions D, in the order of q.
Part(s, q, D) == \E e \in [1 .. Len(s) -> D] : Embeds(e, s, q, D)

\* A list is all of itself.
LEMMA PartOfItself ==
  ASSUME NEW It, NEW q \in Seq(It)
  PROVE  Part(q, q, 1 .. Len(q))
<1> DEFINE e == [i \in 1 .. Len(q) |-> i]
<1>1. e \in [1 .. Len(q) -> 1 .. Len(q)]
  OBVIOUS
<1>2. Embeds(e, q, q, 1 .. Len(q))
  BY DEF Embeds
<1> QED
  BY <1>1, <1>2 DEF Part

\* Deleting an entry takes its position away.
LEMMA PartDelete ==
  ASSUME NEW It, NEW s \in Seq(It), NEW q \in Seq(It), NEW D \in SUBSET (1 .. Len(q)),
         NEW e, Embeds(e, s, q, D), NEW i \in 1 .. Len(s)
  PROVE  Part(Delete(s, i), q, D \ {e[i]})
<1> DEFINE t == Delete(s, i)
           d == [j \in 1 .. Len(s) - 1 |-> IF j < i THEN e[j] ELSE e[j + 1]]
<1>0. Len(s) \in Nat /\ i \in Nat /\ Len(q) \in Nat
  BY LenProperties
<1>1. /\ Len(t) = Len(s) - 1
      /\ \A j \in 1 .. Len(s) - 1 : t[j] = IF j < i THEN s[j] ELSE s[j + 1]
  BY Deleted
<1> HIDE DEF t
<1>2. /\ e \in [1 .. Len(s) -> D] /\ \A j \in 1 .. Len(s) : e[j] \in Nat
      /\ \A j, k \in 1 .. Len(s) : j < k => e[j] < e[k]
      /\ \A p \in D : \E j \in 1 .. Len(s) : e[j] = p
      /\ \A j \in 1 .. Len(s) : s[j] = q[e[j]]
  <2>1. D \subseteq Nat
    BY <1>0
  <2>2. e \in [1 .. Len(s) -> D]
    BY DEF Embeds
  <2>3. \A j \in 1 .. Len(s) : e[j] \in Nat
    BY <2>1, <2>2
  <2> QED
    BY <2>2, <2>3 DEF Embeds
<1>3. d \in [1 .. Len(t) -> D \ {e[i]}]
  <2> SUFFICES ASSUME NEW j \in 1 .. Len(s) - 1 PROVE d[j] \in D \ {e[i]}
    BY <1>1
  <2>1. CASE j < i
    BY <1>0, <1>2, <2>1, SMTT(30)
  <2>2. CASE ~ (j < i)
    <3>1. j + 1 \in 1 .. Len(s) /\ i < j + 1
      BY <1>0, <2>2
    <3> QED
      BY <1>0, <1>2, <2>2, <3>1, SMTT(30)
  <2> QED
    BY <2>1, <2>2
<1>4. \A j, k \in 1 .. Len(t) : j < k => d[j] < d[k]
  <2> SUFFICES ASSUME NEW j \in 1 .. Len(s) - 1, NEW k \in 1 .. Len(s) - 1, j < k
               PROVE  d[j] < d[k]
    BY <1>1
  <2>1. j \in 1 .. Len(s) /\ k \in 1 .. Len(s) /\ j + 1 \in 1 .. Len(s) /\ k + 1 \in 1 .. Len(s)
    BY <1>0
  <2> QED
    BY <1>0, <1>2, <2>1, SMTT(30)
<1>5. ASSUME NEW p \in D \ {e[i]} PROVE \E j \in 1 .. Len(t) : d[j] = p
  <2>1. PICK j \in 1 .. Len(s) : e[j] = p
    BY <1>2
  <2>2. CASE j < i
    BY <1>0, <1>1, <2>1, <2>2
  <2>3. CASE i < j
    <3>1. j - 1 \in 1 .. Len(s) - 1 /\ ~ (j - 1 < i) /\ (j - 1) + 1 = j
      BY <1>0, <2>3
    <3> QED
      BY <1>1, <2>1, <3>1
  <2> QED
    <3>1. j # i
      BY <2>1
    <3>2. j < i \/ i < j
      BY <1>0, <3>1
    <3> QED
      BY <2>2, <2>3, <3>2
<1>6. ASSUME NEW j \in 1 .. Len(t) PROVE t[j] = q[d[j]]
  <2>1. j \in 1 .. Len(s) - 1 /\ j \in 1 .. Len(s) /\ j + 1 \in 1 .. Len(s)
    BY <1>0, <1>1
  <2> QED
    BY <1>1, <1>2, <2>1
<1> HIDE DEF d
<1>7. Embeds(d, t, q, D \ {e[i]})
  BY <1>3, <1>4, <1>5, <1>6 DEF Embeds
<1> QED
  BY <1>3, <1>7 DEF Part, t

\* Where a part has all of a list's first entries, it begins with them.
LEMMA PartBegins ==
  ASSUME NEW It, NEW s \in Seq(It), NEW q \in Seq(It), NEW D \in SUBSET (1 .. Len(q)),
         NEW e \in [1 .. Len(s) -> D], Embeds(e, s, q, D), NEW p \in 0 .. Len(q), 1 .. p \subseteq D
  PROVE  p <= Len(s) /\ \A i \in 1 .. p : e[i] = i
<1> DEFINE bad == {i \in 1 .. p : ~ (i <= Len(s) /\ e[i] = i)}
<1>0. Len(s) \in Nat /\ Len(q) \in Nat /\ p \in Nat
  BY LenProperties
<1>1. /\ \A j \in 1 .. Len(s) : e[j] \in Nat /\ e[j] >= 1
      /\ \A j, k \in 1 .. Len(s) : j < k => e[j] < e[k]
      /\ \A x \in D : \E j \in 1 .. Len(s) : e[j] = x
  <2>1. \A x \in D : x \in Nat /\ x >= 1
    BY <1>0
  <2>2. e \in [1 .. Len(s) -> D]
    BY DEF Embeds
  <2>3. \A j \in 1 .. Len(s) : e[j] \in Nat /\ e[j] >= 1
    BY <2>1, <2>2
  <2> QED
    BY <2>3 DEF Embeds
<1>2. bad = {}
  <2> SUFFICES ASSUME bad # {} PROVE FALSE
    OBVIOUS
  <2>1. PICK i \in bad : \A u \in bad : i <= u
    <3>1. bad \in SUBSET Nat /\ bad # {}
      BY <1>0
    <3> HIDE DEF bad
    <3> QED
      BY <3>1, Smallest
  <2>2. i \in 1 .. p /\ i \in D /\ ~ (i <= Len(s) /\ e[i] = i)
    OBVIOUS
  <2>3. \A j \in 1 .. i - 1 : j <= Len(s) /\ e[j] = j
    <3> SUFFICES ASSUME NEW j \in 1 .. i - 1 PROVE j <= Len(s) /\ e[j] = j
      OBVIOUS
    <3>1. j \in 1 .. p /\ ~ (i <= j)
      BY <1>0, <2>2
    <3>2. j \notin bad
      BY <2>1, <3>1
    <3> QED
      BY <3>1, <3>2
  <2> HIDE DEF bad
  <2>4. PICK k \in 1 .. Len(s) : e[k] = i
    BY <1>1, <2>2
  <2>5. k >= i
    BY <1>0, <2>2, <2>3, <2>4
  <2>6. k # i
    BY <1>0, <2>2, <2>4
  <2>7. i \in 1 .. Len(s) /\ e[i] < i
    BY <1>0, <1>1, <2>2, <2>4, <2>5, <2>6
  <2>8. e[i] \in 1 .. i - 1
    BY <1>0, <1>1, <2>2, <2>7
  <2>9. e[e[i]] = e[i] /\ e[i] \in 1 .. Len(s)
    BY <1>0, <2>3, <2>7, <2>8
  <2>10. e[e[i]] < e[i]
    BY <1>1, <2>7, <2>9
  <2> QED
    BY <1>1, <2>7, <2>9, <2>10
<1>3. \A i \in 1 .. p : i <= Len(s) /\ e[i] = i
  BY <1>2
<1>4. p <= Len(s)
  <2>1. CASE p = 0
    BY <1>0, <2>1
  <2>2. CASE p # 0
    <3>1. p \in 1 .. p
      BY <1>0, <2>2
    <3> QED
      BY <1>3, <3>1
  <2> QED
    BY <2>1, <2>2
<1> QED
  BY <1>3, <1>4

\* A part that misses nothing is the list.
LEMMA PartWhole ==
  ASSUME NEW It, NEW s \in Seq(It), NEW q \in Seq(It), NEW D \in SUBSET (1 .. Len(q)),
         1 .. Len(q) \subseteq D, Part(s, q, D)
  PROVE  s = q
<1>0. Len(s) \in Nat /\ Len(q) \in Nat /\ \A n \in D : n \in Nat /\ n <= Len(q)
  BY LenProperties
<1>1. PICK e \in [1 .. Len(s) -> D] : Embeds(e, s, q, D)
  BY DEF Part
<1>2. Len(q) <= Len(s) /\ \A i \in 1 .. Len(q) : e[i] = i
  <2>1. Len(q) \in 0 .. Len(q)
    BY <1>0
  <2> QED
    BY <1>1, <2>1, PartBegins
<1>3. ~ (Len(q) < Len(s))
  <2> SUFFICES ASSUME Len(q) < Len(s) PROVE FALSE
    OBVIOUS
  <2>1. Len(q) + 1 \in 1 .. Len(s) /\ e[Len(q) + 1] \in D
    BY <1>0, <1>1
  <2>2. e[Len(q) + 1] \in 1 .. Len(q)
    BY <1>0, <2>1
  <2>3. e[e[Len(q) + 1]] = e[Len(q) + 1] /\ e[Len(q) + 1] < Len(q) + 1
    BY <1>0, <1>2, <2>2
  <2>4. e[e[Len(q) + 1]] < e[Len(q) + 1]
    BY <1>0, <1>1, <2>1, <2>2, <2>3 DEF Embeds
  <2> QED
    BY <1>0, <2>2, <2>3, <2>4
<1>4. Len(s) = Len(q)
  BY <1>0, <1>2, <1>3
<1>5. \A i \in 1 .. Len(s) : s[i] = q[i]
  BY <1>1, <1>2, <1>4 DEF Embeds
<1> QED
  BY <1>4, <1>5, SeqEqual

\* Inserting the entry of a position that is missing, and before which nothing
\* is missing, puts it back.
LEMMA PartInsert ==
  ASSUME NEW It, NEW s \in Seq(It), NEW q \in Seq(It), NEW D \in SUBSET (1 .. Len(q)),
         Part(s, q, D), NEW p \in 1 .. Len(q), p \notin D, 1 .. p - 1 \subseteq D
  PROVE  /\ p <= Len(s) + 1
         /\ Part(Insert(s, p, q[p]), q, D \cup {p})
<1> DEFINE x0 == q[p]
           t == Insert(s, p, x0)
<1>0. Len(s) \in Nat /\ Len(q) \in Nat /\ p \in Nat /\ p >= 1 /\ x0 \in It
  BY LenProperties, ElementOfSeq
<1>e. PICK e \in [1 .. Len(s) -> D] : Embeds(e, s, q, D)
  BY DEF Part
<1> DEFINE d == [j \in 1 .. Len(s) + 1 |-> IF j < p THEN e[j] ELSE IF j = p THEN p ELSE e[j - 1]]
<1>1. p - 1 <= Len(s) /\ \A i \in 1 .. p - 1 : e[i] = i
  <2>1. ASSUME NEW r \in 0 .. Len(q), 1 .. r \subseteq D
        PROVE  r <= Len(s) /\ \A i \in 1 .. r : e[i] = i
    BY <1>0, <1>e, <2>1, PartBegins, SMTT(30)
  <2>2. p - 1 \in 0 .. Len(q)
    BY <1>0
  <2> QED
    BY <2>1, <2>2
<1>2. p \in 1 .. Len(s) + 1
  BY <1>0, <1>1
<1>3. /\ t \in Seq(It) /\ Len(t) = Len(s) + 1
      /\ \A j \in 1 .. Len(s) + 1 : t[j] = IF j < p THEN s[j] ELSE IF j = p THEN q[p] ELSE s[j - 1]
  <2> HIDE DEF x0
  <2>1. /\ Insert(s, p, x0) \in Seq(It) /\ Len(Insert(s, p, x0)) = Len(s) + 1
        /\ \A j \in 1 .. Len(s) + 1 :
             Insert(s, p, x0)[j] = IF j < p THEN s[j] ELSE IF j = p THEN x0 ELSE s[j - 1]
    BY <1>0, <1>2, Inserted
  <2> QED
    BY <2>1 DEF x0
<1> HIDE DEF t
<1>4. /\ \A j \in 1 .. Len(s) : e[j] \in D /\ e[j] \in Nat /\ e[j] >= 1 /\ s[j] = q[e[j]]
      /\ \A j, k \in 1 .. Len(s) : j < k => e[j] < e[k]
      /\ \A x \in D : \E j \in 1 .. Len(s) : e[j] = x
  <2>1. \A x \in D : x \in Nat /\ x >= 1
    BY <1>0
  <2> QED
    BY <1>e, <2>1 DEF Embeds
<1>5. \A j \in 1 .. Len(s) : p <= j => p < e[j]
  <2> SUFFICES ASSUME NEW j \in 1 .. Len(s), p <= j PROVE p < e[j]
    OBVIOUS
  <2>1. e[j] # p
    BY <1>4
  <2>2. CASE p = 1
    BY <1>0, <1>4, <2>1, <2>2
  <2>3. CASE p # 1
    <3>1. p - 1 \in 1 .. Len(s) /\ p - 1 \in 1 .. p - 1 /\ p - 1 < j
      BY <1>0, <1>1, <2>3
    <3>2. e[p - 1] = p - 1 /\ e[p - 1] < e[j]
      BY <1>1, <1>4, <3>1
    <3> QED
      BY <1>0, <1>4, <2>1, <3>2
  <2> QED
    BY <2>2, <2>3
<1>6. /\ \A j \in 1 .. Len(s) + 1 : j < p => j \in 1 .. Len(s) /\ d[j] = e[j] /\ e[j] < p
      /\ d[p] = p
      /\ \A j \in 1 .. Len(s) + 1 : p < j => j - 1 \in 1 .. Len(s) /\ d[j] = e[j - 1] /\ p < e[j - 1]
  <2>1. ASSUME NEW j \in 1 .. Len(s) + 1, j < p
        PROVE  j \in 1 .. Len(s) /\ d[j] = e[j] /\ e[j] < p
    <3>1. j \in 1 .. Len(s) /\ j \in 1 .. p - 1
      BY <1>0, <1>1, <2>1
    <3> QED
      BY <1>0, <1>1, <2>1, <3>1
  <2>2. d[p] = p
    BY <1>0, <1>2
  <2>3. ASSUME NEW j \in 1 .. Len(s) + 1, p < j
        PROVE  j - 1 \in 1 .. Len(s) /\ d[j] = e[j - 1] /\ p < e[j - 1]
    <3>1. j - 1 \in 1 .. Len(s) /\ p <= j - 1
      BY <1>0, <2>3
    <3> QED
      BY <1>0, <1>5, <2>3, <3>1
  <2> QED
    BY <2>1, <2>2, <2>3
<1>n. \A j \in 1 .. Len(s) + 1 : j < p \/ j = p \/ p < j
  BY <1>0
<1>d. d = [j \in 1 .. Len(s) + 1 |-> d[j]]
  OBVIOUS
<1> HIDE DEF d
<1>7. d \in [1 .. Len(t) -> D \cup {p}]
  <2>1. \A j \in 1 .. Len(s) + 1 : d[j] \in D \cup {p}
    BY <1>4, <1>6, <1>n
  <2> QED
    BY <1>3, <1>d, <2>1
<1>8. \A j, k \in 1 .. Len(t) : j < k => d[j] < d[k]
  <2> SUFFICES ASSUME NEW j \in 1 .. Len(s) + 1, NEW k \in 1 .. Len(s) + 1, j < k
               PROVE  d[j] < d[k]
    BY <1>3
  <2>1. CASE k < p
    BY <1>0, <1>4, <1>6, <2>1
  <2>2. CASE k = p
    BY <1>0, <1>6, <2>2
  <2>3. CASE j < p /\ p < k
    BY <1>0, <1>4, <1>6, <2>3
  <2>4. CASE j = p
    BY <1>0, <1>6, <2>4
  <2>5. CASE p < j
    <3>1. j - 1 \in 1 .. Len(s) /\ k - 1 \in 1 .. Len(s) /\ j - 1 < k - 1 /\ p < k
      BY <1>0, <2>5
    <3> QED
      BY <1>4, <1>6, <2>5, <3>1
  <2> QED
    BY <1>0, <2>1, <2>2, <2>3, <2>4, <2>5
<1>9. ASSUME NEW x \in D \cup {p} PROVE \E j \in 1 .. Len(t) : d[j] = x
  <2>1. CASE x = p
    BY <1>2, <1>3, <1>6, <2>1
  <2>2. CASE x # p
    <3>1. PICK j \in 1 .. Len(s) : e[j] = x
      BY <1>4, <2>2
    <3>2. CASE j < p
      <4>1. j \in 1 .. Len(t)
        BY <1>0, <1>3
      <4>2. d[j] = e[j]
        BY <1>3, <1>6, <3>2, <4>1
      <4> QED
        BY <3>1, <4>1, <4>2
    <3>3. CASE ~ (j < p)
      <4>1. j + 1 \in 1 .. Len(s) + 1 /\ p < j + 1 /\ (j + 1) - 1 = j
        BY <1>0, <3>3
      <4>2. d[j + 1] = e[j] /\ j + 1 \in 1 .. Len(t)
        BY <1>3, <1>6, <4>1
      <4> QED
        BY <3>1, <4>2
    <3> QED
      BY <3>2, <3>3
  <2> QED
    BY <2>1, <2>2
<1>10. ASSUME NEW j \in 1 .. Len(t) PROVE t[j] = q[d[j]]
  <2>1. CASE j < p
    BY <1>3, <1>4, <1>6, <2>1
  <2>2. CASE j = p
    BY <1>3, <1>6, <2>2
  <2>3. CASE p < j
    <3>1. j - 1 \in 1 .. Len(s) /\ d[j] = e[j - 1]
      BY <1>3, <1>6, <2>3
    <3>2. t[j] = s[j - 1]
      BY <1>0, <1>3, <2>3
    <3> QED
      BY <1>4, <3>1, <3>2
  <2> QED
    BY <1>3, <1>n, <2>1, <2>2, <2>3
<1>11. Embeds(d, t, q, D \cup {p})
  BY <1>7, <1>8, <1>9, <1>10 DEF Embeds
<1>12. Part(t, q, D \cup {p})
  BY <1>7, <1>11 DEF Part
<1> QED
  BY <1>0, <1>2, <1>12 DEF t, x0

\* The entry after all those of a part extends it.
LEMMA PartAppend ==
  ASSUME NEW It, NEW s \in Seq(It), NEW q \in Seq(It), NEW D \in SUBSET (1 .. Len(q)),
         Part(s, q, D), NEW p \in 1 .. Len(q), \A x \in D : x < p
  PROVE  Part(Append(s, q[p]), q, D \cup {p})
<1> DEFINE x0 == q[p]
           t == Append(s, x0)
<1>0. Len(s) \in Nat /\ Len(q) \in Nat /\ p \in Nat /\ x0 \in It
  BY LenProperties, ElementOfSeq
<1>e. PICK e \in [1 .. Len(s) -> D] : Embeds(e, s, q, D)
  BY DEF Part
<1> DEFINE d == [j \in 1 .. Len(s) + 1 |-> IF j = Len(s) + 1 THEN p ELSE e[j]]
<1>1. /\ Len(t) = Len(s) + 1 /\ t[Len(s) + 1] = x0
      /\ \A j \in 1 .. Len(s) : t[j] = s[j]
  <2> HIDE DEF x0
  <2> QED
    BY <1>0, AppendProperties
<1> HIDE DEF t
<1>2. /\ \A j \in 1 .. Len(s) : e[j] \in D /\ e[j] \in Nat /\ e[j] < p /\ s[j] = q[e[j]]
      /\ \A j, k \in 1 .. Len(s) : j < k => e[j] < e[k]
      /\ \A x \in D : \E j \in 1 .. Len(s) : e[j] = x
  <2>1. \A x \in D : x \in Nat
    BY <1>0
  <2> QED
    BY <1>e, <2>1 DEF Embeds
<1>3. /\ d[Len(s) + 1] = p
      /\ \A j \in 1 .. Len(s) : d[j] = e[j]
      /\ \A j \in 1 .. Len(s) + 1 : j = Len(s) + 1 \/ j \in 1 .. Len(s)
      /\ Len(s) + 1 \in 1 .. Len(s) + 1 /\ \A j \in 1 .. Len(s) : j \in 1 .. Len(s) + 1
  BY <1>0
<1>d. d = [j \in 1 .. Len(s) + 1 |-> d[j]]
  OBVIOUS
<1> HIDE DEF d, x0
<1>4. d \in [1 .. Len(t) -> D \cup {p}]
  <2>1. \A j \in 1 .. Len(s) + 1 : d[j] \in D \cup {p}
    BY <1>2, <1>3
  <2> QED
    BY <1>1, <1>d, <2>1
<1>5. \A j, k \in 1 .. Len(t) : j < k => d[j] < d[k]
  <2> SUFFICES ASSUME NEW j \in 1 .. Len(s) + 1, NEW k \in 1 .. Len(s) + 1, j < k
               PROVE  d[j] < d[k]
    BY <1>1
  <2>1. j \in 1 .. Len(s)
    BY <1>0
  <2> QED
    BY <1>2, <1>3, <2>1
<1>6. \A x \in D \cup {p} : \E j \in 1 .. Len(t) : d[j] = x
  <2> SUFFICES ASSUME NEW x \in D \cup {p} PROVE \E j \in 1 .. Len(s) + 1 : d[j] = x
    BY <1>1
  <2> QED
    BY <1>2, <1>3
<1>7. \A j \in 1 .. Len(t) : t[j] = q[d[j]]
  <2> SUFFICES ASSUME NEW j \in 1 .. Len(s) + 1 PROVE t[j] = q[d[j]]
    BY <1>1
  <2> QED
    BY <1>1, <1>2, <1>3 DEF x0
<1>8. Embeds(d, t, q, D \cup {p})
  BY <1>4, <1>5, <1>6, <1>7 DEF Embeds
<1>9. Part(t, q, D \cup {p})
  BY <1>4, <1>8 DEF Part
<1> QED
  BY <1>9 DEF t, x0

\* The empty list is the part that has nothing.
LEMMA PartNone ==
  ASSUME NEW q
  PROVE  Part(<<>>, q, {})
<1> DEFINE e == [i \in 1 .. 0 |-> 0]
<1>1. e \in [1 .. Len(<<>>) -> {}] /\ Embeds(e, <<>>, q, {})
  BY DEF Embeds
<1> QED
  BY <1>1 DEF Part

-----------------------------------------------------------------------------
(* The snapshot *)

\* Each entry of q with its 0-based position, as restore_entries wants it.
Pairs(It) == [pos : Nat, item : It]
Tagged(q) == [i \in 1 .. Len(q) |-> [pos |-> i - 1, item |-> q[i]]]

\* The positions whose track is in S.
Hits(q, S) == {p \in 1 .. Len(q) : q[p].track \in S}

\* Every entry tagged with its 0-based position.
LEMMA TaggedType ==
  ASSUME NEW It, NEW q \in Seq(It)
  PROVE  /\ Tagged(q) \in Seq(Pairs(It)) /\ Len(Tagged(q)) = Len(q)
         /\ \A i \in 1 .. Len(q) : Tagged(q)[i] = [pos |-> i - 1, item |-> q[i]]
<1>0. Len(q) \in Nat /\ \A i \in 1 .. Len(q) : q[i] \in It
  BY LenProperties, ElementOfSeq
<1>1. Tagged(q) \in [1 .. Len(q) -> Pairs(It)]
  BY <1>0 DEF Tagged, Pairs
<1>2. DOMAIN Tagged(q) = 1 .. Len(q) /\ Tagged(q) \in Seq(Pairs(It))
  BY <1>0, <1>1
<1>3. Len(Tagged(q)) = Len(q)
  BY <1>0, <1>2, LenProperties
<1>4. \A i \in 1 .. Len(q) : Tagged(q)[i] = [pos |-> i - 1, item |-> q[i]]
  BY DEF Tagged
<1> QED
  BY <1>2, <1>3, <1>4

\* f[n] is the snapshot of the first n entries.
Walks(f, q, S) ==
    /\ f[0] = <<>>
    /\ \A n \in 1 .. Len(q) :
         f[n] = IF q[n].track \in S THEN Append(f[n - 1], Tagged(q)[n]) ELSE f[n - 1]
    /\ PositionsOf(q, S) = f[Len(q)]

\* snapshot_stranded_positions walks the queue, adding each hit.
LEMMA SnapshotIterates ==
  ASSUME NEW It, NEW q \in Seq(It), NEW S
  PROVE  \E f \in [0 .. Len(q) -> Seq(Pairs(It))] : Walks(f, q, S)
<1> DEFINE L == Len(q)
           T == Seq(Pairs(It))
           Go(s, n) == IF q[n].track \in S
                       THEN Append(s, [pos |-> n - 1, item |-> q[n]]) ELSE s
           g == [n \in 1 .. L |-> [s \in T |-> Go(s, n)]]
           Fits(f) == f = [n \in 0 .. L |-> IF n = 0 THEN <<>> ELSE Go(f[n - 1], n)]
           h == CHOOSE f : Fits(f)
<1>0. L \in Nat /\ <<>> \in T
  BY LenProperties
<1>1. \A s \in T, n \in 1 .. L : Go(s, n) \in T
  <2> SUFFICES ASSUME NEW s \in T, NEW n \in 1 .. L PROVE Go(s, n) \in T
    OBVIOUS
  <2> DEFINE x == Tagged(q)[n]
  <2>1. x \in Pairs(It) /\ x = [pos |-> n - 1, item |-> q[n]]
    BY TaggedType, ElementOfSeq
  <2>2. Append(s, x) \in T
    <3> HIDE DEF x
    <3> QED
      BY <2>1, AppendProperties
  <2> QED
    BY <2>1, <2>2
<1>7. PositionsOf(q, S) = h[L]
  BY DEF PositionsOf
<1> HIDE DEF L, T, h, Go
<1>2. g \in [1 .. L -> [T -> T]]
  BY <1>1
<1>3. PICK f \in [0 .. L -> T] : f[0] = <<>> /\ \A k \in 1 .. L : f[k] = g[k][f[k - 1]]
  <2> HIDE DEF g, Fits
  <2>1. \E f \in [0 .. L -> T] : Iteration(f, g, <<>>, L)
    BY <1>0, <1>2, Iterates
  <2> QED
    BY <2>1 DEF Iteration
<1>4. \A k \in 1 .. L : f[k] = Go(f[k - 1], k)
  <2> SUFFICES ASSUME NEW k \in 1 .. L PROVE f[k] = Go(f[k - 1], k)
    OBVIOUS
  <2>1. f[k] = g[k][f[k - 1]] /\ f[k - 1] \in T
    BY <1>0, <1>3
  <2> QED
    BY <2>1
<1>5. Fits(f)
  <2> HIDE DEF g
  <2>1. \A n \in 0 .. L : f[n] = IF n = 0 THEN <<>> ELSE Go(f[n - 1], n)
    <3> SUFFICES ASSUME NEW n \in 0 .. L
                 PROVE  f[n] = IF n = 0 THEN <<>> ELSE Go(f[n - 1], n)
      OBVIOUS
    <3>1. n = 0 \/ n \in 1 .. L
      BY <1>0
    <3> QED
      BY <1>3, <1>4, <3>1
  <2> QED
    BY <2>1
<1>6. h = [n \in 0 .. L |-> IF n = 0 THEN <<>> ELSE Go(h[n - 1], n)]
  <2>1. Fits(h)
    BY <1>5 DEF h
  <2> QED
    BY <2>1
<1>8. h[0] = <<>> /\ \A n \in 1 .. L : h[n] = Go(h[n - 1], n)
  BY <1>0, <1>6
<1>9. \A n \in 0 .. L - 1 : h[n] \in T => h[n + 1] \in T
  <2> SUFFICES ASSUME NEW n \in 0 .. L - 1, h[n] \in T PROVE h[n + 1] \in T
    OBVIOUS
  <2>1. n + 1 \in 1 .. L /\ (n + 1) - 1 = n
    BY <1>0
  <2> QED
    BY <1>1, <1>8, <2>1
<1>10. \A n \in 0 .. L : h[n] \in T
  BY <1>0, <1>8, <1>9, StaysIn
<1>11. h \in [0 .. L -> T]
  <2> DEFINE e(n) == IF n = 0 THEN <<>> ELSE Go(h[n - 1], n)
  <2>1. h = [n \in 0 .. L |-> e(n)]
    BY <1>6
  <2>2. DOMAIN h = 0 .. L /\ h = [n \in 0 .. L |-> h[n]]
    BY <2>1
  <2> QED
    BY <1>10, <2>2
<1>12. \A n \in 1 .. L :
         h[n] = IF q[n].track \in S THEN Append(h[n - 1], Tagged(q)[n]) ELSE h[n - 1]
  <2> SUFFICES ASSUME NEW n \in 1 .. L
               PROVE h[n] = IF q[n].track \in S
                            THEN Append(h[n - 1], Tagged(q)[n]) ELSE h[n - 1]
    OBVIOUS
  <2>1. Tagged(q)[n] = [pos |-> n - 1, item |-> q[n]]
    BY TaggedType DEF L
  <2> QED
    BY <1>8, <2>1 DEF Go
<1>13. Walks(h, q, S)
  BY <1>7, <1>8, <1>12 DEF L, Walks
<1> QED
  BY <1>11, <1>13 DEF L, T

\* The snapshot is the part of the queue that is to go, with its positions.
LEMMA Snapshot ==
  ASSUME NEW It, NEW q \in Seq(It), NEW S
  PROVE  /\ PositionsOf(q, S) \in Seq(Pairs(It))
         /\ Part(PositionsOf(q, S), Tagged(q), Hits(q, S))
<1> DEFINE L == Len(q)
           H(n) == {p \in 1 .. n : q[p].track \in S}
<1>0. L \in Nat /\ Len(Tagged(q)) = L /\ Tagged(q) \in Seq(Pairs(It))
  BY LenProperties, TaggedType
<1>w. PICK f \in [0 .. Len(q) -> Seq(Pairs(It))] : Walks(f, q, S)
  BY SnapshotIterates
<1>1. /\ f \in [0 .. L -> Seq(Pairs(It))]
      /\ f[0] = <<>>
      /\ \A n \in 1 .. L :
           f[n] = IF q[n].track \in S THEN Append(f[n - 1], Tagged(q)[n]) ELSE f[n - 1]
      /\ PositionsOf(q, S) = f[L]
  BY <1>w DEF Walks
<1> HIDE DEF L
<1> DEFINE N == {n \in 0 .. L : Part(f[n], Tagged(q), H(n))}
<1>2. 0 \in N
  <2>1. H(0) = {}
    OBVIOUS
  <2> QED
    BY <1>0, <1>1, <2>1, PartNone
<1>3. ASSUME NEW k \in 0 .. L - 1, k \in N PROVE k + 1 \in N
  <2>0. k + 1 \in 1 .. L /\ k + 1 \in 0 .. L /\ (k + 1) - 1 = k /\ f[k] \in Seq(Pairs(It))
    BY <1>0, <1>1
  <2>1. CASE q[k + 1].track \in S
    <3>1. f[k + 1] = Append(f[k], Tagged(q)[k + 1])
      BY <1>1, <2>0, <2>1
    <3>2. H(k + 1) = H(k) \cup {k + 1} /\ H(k) \in SUBSET (1 .. L) /\ \A x \in H(k) : x < k + 1
      BY <1>0, <2>0, <2>1
    <3>3. Part(f[k], Tagged(q), H(k))
      BY <1>3
    <3> HIDE DEF H
    <3>4. \A s \in Seq(Pairs(It)), t \in Seq(Pairs(It)) : \A D \in SUBSET (1 .. Len(t)) :
             \A p \in 1 .. Len(t) : Part(s, t, D) /\ (\A x \in D : x < p)
                => Part(Append(s, t[p]), t, D \cup {p})
      BY PartAppend
    <3>5. \A D \in SUBSET (1 .. L) : \A p \in 1 .. L :
             Part(f[k], Tagged(q), D) /\ (\A x \in D : x < p)
                => Part(Append(f[k], Tagged(q)[p]), Tagged(q), D \cup {p})
      BY <1>0, <2>0, <3>4
    <3>6. Part(Append(f[k], Tagged(q)[k + 1]), Tagged(q), H(k) \cup {k + 1})
      BY <2>0, <3>2, <3>3, <3>5
    <3> QED
      BY <2>0, <3>1, <3>2, <3>6
  <2>2. CASE q[k + 1].track \notin S
    <3>1. f[k + 1] = f[k]
      BY <1>1, <2>0, <2>2
    <3>2. H(k + 1) = H(k)
      BY <2>0, <2>2
    <3> QED
      BY <1>3, <2>0, <3>1, <3>2
  <2> QED
    BY <2>1, <2>2
<1>4. L \in N
  <2> HIDE DEF N
  <2>1. \A k \in 0 .. L : k \in N
    BY <1>0, <1>2, <1>3, UpTo
  <2> QED
    BY <1>0, <2>1
<1>5. f[L] \in Seq(Pairs(It)) /\ H(L) = Hits(q, S)
  BY <1>0, <1>1 DEF Hits, L
<1> QED
  BY <1>1, <1>4, <1>5

-----------------------------------------------------------------------------
(* The removal *)

\* With n of the receipts served, b pairs each that is left with a position
\* still to go whose entry has that receipt.  Where entries share a receipt,
\* which of them goes first is not the order of the snapshot.
Owed(b, n, q, H, receipts) ==
    /\ b \in [n + 1 .. Len(receipts) -> H]
    /\ \A i, j \in n + 1 .. Len(receipts) : b[i] = b[j] => i = j
    /\ \A i \in n + 1 .. Len(receipts) : Receipt(q[b[i]]) = receipts[i]

\* The positions of q that are still there.
Kept(b, n, q, H, receipts) ==
    ((1 .. Len(q)) \ H) \cup {b[i] : i \in n + 1 .. Len(receipts)}

\* c pairs what is left when the next receipt took the entry at b[k].
Serves(c, b, k, n, q, H, receipts) ==
    /\ Owed(c, n + 1, q, H, receipts)
    /\ Kept(c, n + 1, q, H, receipts) = Kept(b, n, q, H, receipts) \ {b[k]}

\* Serving the next receipt at any position that has it leaves the rest paired.
LEMMA OwedLess ==
  ASSUME NEW q, NEW H, NEW receipts, Len(receipts) \in Nat,
         NEW n \in 0 .. Len(receipts) - 1, NEW b, Owed(b, n, q, H, receipts),
         NEW k \in n + 1 .. Len(receipts), Receipt(q[b[k]]) = receipts[n + 1]
  PROVE  \E c : Serves(c, b, k, n, q, H, receipts)
<1> DEFINE L == Len(receipts)
           c == [j \in (n + 1) + 1 .. L |-> IF j = k THEN b[n + 1] ELSE b[j]]
<1>0. L \in Nat /\ n \in Nat /\ n + 1 \in n + 1 .. L /\ k \in Nat
  OBVIOUS
<1>1. /\ b \in [n + 1 .. L -> H]
      /\ \A i, j \in n + 1 .. L : b[i] = b[j] => i = j
      /\ \A i \in n + 1 .. L : Receipt(q[b[i]]) = receipts[i]
  BY DEF Owed
<1> HIDE DEF L
<1>2. /\ \A j \in (n + 1) + 1 .. L : j \in n + 1 .. L /\ j # n + 1
      /\ \A j \in n + 1 .. L : j = n + 1 \/ j \in (n + 1) + 1 .. L
  BY <1>0
<1>3. /\ \A j \in (n + 1) + 1 .. L : c[j] = IF j = k THEN b[n + 1] ELSE b[j]
      /\ c = [j \in (n + 1) + 1 .. L |-> c[j]]
  OBVIOUS
<1> HIDE DEF c
<1>4. c \in [(n + 1) + 1 .. L -> H]
  <2>1. \A j \in (n + 1) + 1 .. L : c[j] \in H
    BY <1>0, <1>1, <1>2, <1>3
  <2> QED
    BY <1>3, <2>1
<1>5. \A i, j \in (n + 1) + 1 .. L : c[i] = c[j] => i = j
  BY <1>0, <1>1, <1>2, <1>3, SMTT(30)
<1>6. \A i \in (n + 1) + 1 .. L : Receipt(q[c[i]]) = receipts[i]
  <2> SUFFICES ASSUME NEW i \in (n + 1) + 1 .. L PROVE Receipt(q[c[i]]) = receipts[i]
    OBVIOUS
  <2>1. CASE i = k
    <3>1. c[i] = b[n + 1] /\ Receipt(q[b[n + 1]]) = receipts[n + 1]
      BY <1>0, <1>1, <1>3, <2>1
    <3>2. Receipt(q[b[k]]) = receipts[k]
      BY <1>1 DEF L
    <3> QED
      BY <2>1, <3>1, <3>2
  <2>2. CASE i # k
    BY <1>1, <1>2, <1>3, <2>2
  <2> QED
    BY <2>1, <2>2
<1>7. {c[i] : i \in (n + 1) + 1 .. L} = {b[i] : i \in n + 1 .. L} \ {b[k]}
  <2>0. k \in n + 1 .. L
    BY DEF L
  <2>1. \A i \in (n + 1) + 1 .. L :
           c[i] \in {b[j] : j \in n + 1 .. L} /\ c[i] # b[k]
    BY <1>0, <1>1, <1>2, <1>3, <2>0
  <2>2. ASSUME NEW i \in n + 1 .. L, b[i] # b[k]
        PROVE  \E j \in (n + 1) + 1 .. L : c[j] = b[i]
    <3>1. CASE i = n + 1
      <4>1. k \in (n + 1) + 1 .. L
        BY <1>2, <2>0, <2>2, <3>1
      <4> QED
        BY <1>3, <3>1, <4>1
    <3>2. CASE i # n + 1
      <4>1. i \in (n + 1) + 1 .. L /\ i # k
        BY <1>2, <2>2, <3>2
      <4> QED
        BY <1>3, <4>1
    <3> QED
      BY <3>1, <3>2
  <2> QED
    BY <2>1, <2>2, SMTT(30)
<1>8. b[k] \in H
  BY <1>1 DEF L
<1>9. Owed(c, n + 1, q, H, receipts)
  BY <1>4, <1>5, <1>6 DEF Owed, L
<1>10. Kept(c, n + 1, q, H, receipts) = Kept(b, n, q, H, receipts) \ {b[k]}
  BY <1>7, <1>8 DEF Kept, L
<1> QED
  BY <1>9, <1>10 DEF Serves

\* The receipts of a set of positions that holds, with an entry, all that share
\* its receipt take just these away.
LEMMA RemovalExact ==
  ASSUME NEW It, NEW q \in Seq(It), NEW H \in SUBSET (1 .. Len(q)),
         \A p \in H, r \in 1 .. Len(q) : Receipt(q[r]) = Receipt(q[p]) => r \in H,
         NEW receipts, Len(receipts) \in Nat,
         NEW h, Owed(h, 0, q, H, receipts), Kept(h, 0, q, H, receipts) = 1 .. Len(q)
  PROVE  /\ RemoveEntriesOp(q, receipts) \in Seq(It)
         /\ Part(RemoveEntriesOp(q, receipts), q, (1 .. Len(q)) \ H)
<1> DEFINE L == Len(receipts)
           Good(s, b, n) == /\ Owed(b, n, q, H, receipts)
                            /\ Part(s, q, Kept(b, n, q, H, receipts))
<1>0. L \in Nat /\ Len(q) \in Nat
  BY LenProperties
<1>1. PICK f \in [0 .. L -> Seq(It)] :
        /\ f[0] = q
        /\ \A n \in 1 .. L : f[n] = RemoveLast(f[n - 1], receipts[n])
        /\ RemoveEntriesOp(q, receipts) = f[L]
  BY RemovalIterates
<1> DEFINE N == {n \in 0 .. L : \E b : Good(f[n], b, n)}
<1>2. 0 \in N
  <2>1. Good(q, h, 0)
    BY PartOfItself
  <2> HIDE DEF Good
  <2> QED
    BY <1>0, <1>1, <2>1
<1>3. ASSUME NEW n \in 0 .. L - 1, n \in N PROVE n + 1 \in N
  <2>0. n + 1 \in 0 .. L /\ n + 1 \in 1 .. L /\ (n + 1) - 1 = n /\ n \in 0 .. L
    BY <1>0
  <2>1. PICK b : Good(f[n], b, n)
    BY <1>3
  <2> DEFINE D == Kept(b, n, q, H, receipts)
             s == f[n]
             r == receipts[n + 1]
  <2>2. s \in Seq(It) /\ f[n + 1] = RemoveLast(s, r)
    BY <1>1, <2>0
  <2>o. /\ b \in [n + 1 .. L -> H]
        /\ \A j \in n + 1 .. L : Receipt(q[b[j]]) = receipts[j]
        /\ D = ((1 .. Len(q)) \ H) \cup {b[j] : j \in n + 1 .. L}
    BY <2>1 DEF Kept, Owed
  <2>3. D \in SUBSET (1 .. Len(q))
    <3>1. \A j \in n + 1 .. L : b[j] \in 1 .. Len(q)
      BY <2>o
    <3> QED
      BY <2>o, <3>1
  <2>4. n + 1 \in n + 1 .. L /\ b[n + 1] \in D /\ b[n + 1] \in H /\ Receipt(q[b[n + 1]]) = r
    BY <1>0, <2>0, <2>o, SMTT(30)
  <2>5. PICK e \in [1 .. Len(s) -> D] : Embeds(e, s, q, D)
    BY <2>1 DEF Part
  <2>6. PICK m \in 1 .. Len(s) : e[m] = b[n + 1]
    BY <2>4, <2>5 DEF Embeds
  <2>7. Receipt(s[m]) = r
    BY <2>4, <2>5, <2>6 DEF Embeds
  <2> HIDE DEF s, r, D
  <2>8. PICK i \in 1 .. Len(s) : Receipt(s[i]) = r /\ RemoveLast(s, r) = Delete(s, i)
    BY <2>2, <2>7, RemovesLast
  <2>9. e[i] \in D /\ s[i] = q[e[i]]
    BY <2>5 DEF Embeds
  <2>10. e[i] \in H
    <3>1. e[i] \in 1 .. Len(q) /\ Receipt(q[e[i]]) = Receipt(q[b[n + 1]])
      BY <2>3, <2>4, <2>8, <2>9
    <3> QED
      BY <2>4, <3>1
  <2>11. PICK k \in n + 1 .. L : e[i] = b[k]
    BY <2>9, <2>10 DEF D, Kept
  <2>12. PICK c : /\ Owed(c, n + 1, q, H, receipts)
                  /\ Kept(c, n + 1, q, H, receipts) = D \ {e[i]}
    <3>1. Receipt(q[b[k]]) = receipts[n + 1]
      BY <2>8, <2>9, <2>11 DEF r
    <3>2. Owed(b, n, q, H, receipts)
      BY <2>1
    <3>3. \E c : Serves(c, b, k, n, q, H, receipts)
      BY <3>1, <3>2, OwedLess
    <3> QED
      BY <2>11, <3>3 DEF D, Serves
  <2>13. Part(Delete(s, i), q, D \ {e[i]})
    BY <2>2, <2>3, <2>5, PartDelete
  <2>14. Good(f[n + 1], c, n + 1)
    BY <2>2, <2>8, <2>12, <2>13
  <2> HIDE DEF Good
  <2> QED
    BY <2>0, <2>14
<1>4. L \in N
  <2> HIDE DEF N, L
  <2>1. \A k \in 0 .. L : k \in N
    BY <1>0, <1>2, <1>3, UpTo
  <2> QED
    BY <1>0, <2>1
<1>5. PICK b : Good(f[L], b, L)
  BY <1>4
<1>6. Kept(b, L, q, H, receipts) = (1 .. Len(q)) \ H
  BY <1>0 DEF Kept
<1> QED
  BY <1>0, <1>1, <1>5, <1>6

\* Removing a snapshot from the queue it was taken of leaves the other entries.
LEMMA SnapshotRemoved ==
  ASSUME NEW It, NEW q \in Seq(It), NEW S
  PROVE  LET entries == PositionsOf(q, S)
             s == RemoveEntriesOp(q, ReceiptsOf(entries))
         IN s \in Seq(It) /\ Part(s, q, (1 .. Len(q)) \ Hits(q, S))
<1> DEFINE entries == PositionsOf(q, S)
           receipts == ReceiptsOf(entries)
           H == Hits(q, S)
<1>1. /\ entries \in Seq(Pairs(It)) /\ Part(entries, Tagged(q), H)
      /\ H \in SUBSET (1 .. Len(q))
  BY Snapshot DEF Hits
<1>2. /\ Len(Tagged(q)) = Len(q)
      /\ \A i \in 1 .. Len(q) : Tagged(q)[i] = [pos |-> i - 1, item |-> q[i]]
  BY TaggedType
<1>3. \A p \in H, r \in 1 .. Len(q) : Receipt(q[r]) = Receipt(q[p]) => r \in H
  BY DEF Hits, Receipt
<1> HIDE DEF entries, H
<1>4. PICK h \in [1 .. Len(entries) -> H] : Embeds(h, entries, Tagged(q), H)
  BY <1>1 DEF Part
<1>0. Len(entries) \in Nat /\ DOMAIN entries = 1 .. Len(entries) /\ Len(q) \in Nat
  BY <1>1, LenProperties
<1>5. /\ Len(receipts) = Len(entries)
      /\ \A i \in 1 .. Len(entries) : receipts[i] = Receipt(entries[i].item)
  <2>1. receipts = [i \in 1 .. Len(entries) |-> Receipt(entries[i].item)]
    BY <1>0 DEF ReceiptsOf
  <2>2. receipts \in Seq({Receipt(entries[i].item) : i \in 1 .. Len(entries)})
    BY <1>0, <2>1
  <2>3. DOMAIN receipts = 1 .. Len(entries)
    BY <2>1
  <2> HIDE DEF receipts
  <2> QED
    BY <1>0, <2>1, <2>2, <2>3, LenProperties
<1> HIDE DEF receipts
<1>6. Owed(h, 0, q, H, receipts)
  <2>1. \A i, j \in 1 .. Len(entries) : h[i] = h[j] => i = j
    <3>1. \A i \in 1 .. Len(entries) : h[i] \in Nat
      <4>1. H \subseteq Nat
        BY <1>0, <1>1
      <4> QED
        BY <4>1
    <3>2. \A i, j \in 1 .. Len(entries) : i < j => h[i] < h[j]
      BY <1>4 DEF Embeds
    <3>3. \A i, j \in 1 .. Len(entries) : i < j \/ j < i \/ i = j
      BY <1>0
    <3> QED
      BY <3>1, <3>2, <3>3
  <2>2. ASSUME NEW i \in 1 .. Len(entries) PROVE Receipt(q[h[i]]) = receipts[i]
    <3>1. entries[i] = Tagged(q)[h[i]] /\ h[i] \in 1 .. Len(q)
      BY <1>1, <1>4 DEF Embeds
    <3>2. entries[i].item = q[h[i]]
      <4>1. Tagged(q)[h[i]] = [pos |-> h[i] - 1, item |-> q[h[i]]]
        BY <1>2, <3>1
      <4> QED
        BY <3>1, <4>1
    <3> QED
      BY <1>5, <3>2
  <2>3. h \in [0 + 1 .. Len(receipts) -> H] /\ Len(receipts) = Len(entries) /\ 0 + 1 = 1
    BY <1>4, <1>5
  <2> QED
    BY <2>1, <2>2, <2>3 DEF Owed
<1>7. Kept(h, 0, q, H, receipts) = 1 .. Len(q)
  <2>1. \A p \in H : \E i \in 1 .. Len(entries) : h[i] = p
    BY <1>4 DEF Embeds
  <2>2. {h[i] : i \in 1 .. Len(entries)} = H
    BY <2>1
  <2>3. 0 + 1 .. Len(receipts) = 1 .. Len(entries)
    BY <1>0, <1>5
  <2> QED
    BY <1>1, <2>2, <2>3 DEF Kept
<1>8. /\ RemoveEntriesOp(q, receipts) \in Seq(It)
      /\ Part(RemoveEntriesOp(q, receipts), q, (1 .. Len(q)) \ H)
  <2>1. Len(receipts) \in Nat
    BY <1>0, <1>5
  <2> QED
    BY <1>1, <1>3, <1>6, <1>7, <2>1, RemovalExact
<1> QED
  BY <1>8 DEF receipts, entries, H

-----------------------------------------------------------------------------
(* The rollback *)

\* One re-insertion of restore_entries: at the position, or at the end.
Put(s, pos, x) == Insert(s, 1 + (IF pos < Len(s) THEN pos ELSE Len(s)), x)

\* One re-insertion yields a list.
LEMMA PutType ==
  ASSUME NEW It, NEW s \in Seq(It), NEW pos \in Nat, NEW x \in It
  PROVE  Put(s, pos, x) \in Seq(It)
<1> DEFINE i == 1 + (IF pos < Len(s) THEN pos ELSE Len(s))
<1>1. i \in 1 .. Len(s) + 1
  BY LenProperties
<1>2. Put(s, pos, x) = Insert(s, i, x)
  BY DEF Put
<1> HIDE DEF i
<1>3. Insert(s, i, x) \in Seq(It)
  BY <1>1, Inserted
<1> QED
  BY <1>2, <1>3

\* f[n] is the queue with the first n entries back in.
PutsBack(f, s, entries) ==
    /\ f[0] = s
    /\ \A n \in 1 .. Len(entries) : f[n] = Put(f[n - 1], entries[n].pos, entries[n].item)
    /\ RestoreEntriesOp(s, entries) = f[Len(entries)]

\* restore_entries iterates the re-insertion.
LEMMA RestoreIterates ==
  ASSUME NEW It, NEW s \in Seq(It), NEW entries \in Seq(Pairs(It))
  PROVE  \E f \in [0 .. Len(entries) -> Seq(It)] : PutsBack(f, s, entries)
<1> DEFINE L == Len(entries)
           T == Seq(It)
           Go(r, n) == Put(r, entries[n].pos, entries[n].item)
           g == [n \in 1 .. L |-> [r \in T |-> Go(r, n)]]
           Fits(f) == f = [n \in 0 .. L |-> IF n = 0 THEN s ELSE Go(f[n - 1], n)]
           h == CHOOSE f : Fits(f)
<1>0. L \in Nat /\ s \in T
  BY LenProperties
<1>1. \A r \in T, n \in 1 .. L : Go(r, n) \in T
  <2> SUFFICES ASSUME NEW r \in T, NEW n \in 1 .. L PROVE Go(r, n) \in T
    OBVIOUS
  <2>1. entries[n] \in Pairs(It)
    BY ElementOfSeq
  <2>2. entries[n].pos \in Nat /\ entries[n].item \in It
    BY <2>1 DEF Pairs
  <2> QED
    BY <2>2, PutType
<1>7. RestoreEntriesOp(s, entries) = h[L]
  BY DEF RestoreEntriesOp, Put
<1> HIDE DEF L, T, h, Go
<1>2. g \in [1 .. L -> [T -> T]]
  BY <1>1
<1>3. PICK f \in [0 .. L -> T] : f[0] = s /\ \A k \in 1 .. L : f[k] = g[k][f[k - 1]]
  <2> HIDE DEF g, Fits
  <2>1. \E f \in [0 .. L -> T] : Iteration(f, g, s, L)
    BY <1>0, <1>2, Iterates
  <2> QED
    BY <2>1 DEF Iteration
<1>4. \A k \in 1 .. L : f[k] = Go(f[k - 1], k)
  <2> SUFFICES ASSUME NEW k \in 1 .. L PROVE f[k] = Go(f[k - 1], k)
    OBVIOUS
  <2>1. f[k] = g[k][f[k - 1]] /\ f[k - 1] \in T
    BY <1>0, <1>3
  <2> QED
    BY <2>1
<1>5. Fits(f)
  <2> HIDE DEF g
  <2>1. \A n \in 0 .. L : f[n] = IF n = 0 THEN s ELSE Go(f[n - 1], n)
    <3> SUFFICES ASSUME NEW n \in 0 .. L
                 PROVE  f[n] = IF n = 0 THEN s ELSE Go(f[n - 1], n)
      OBVIOUS
    <3>1. n = 0 \/ n \in 1 .. L
      BY <1>0
    <3> QED
      BY <1>3, <1>4, <3>1
  <2> QED
    BY <2>1
<1>6. h = [n \in 0 .. L |-> IF n = 0 THEN s ELSE Go(h[n - 1], n)]
  <2>1. Fits(h)
    BY <1>5 DEF h
  <2> QED
    BY <2>1
<1>8. h[0] = s /\ \A n \in 1 .. L : h[n] = Go(h[n - 1], n)
  BY <1>0, <1>6
<1>9. \A n \in 0 .. L - 1 : h[n] \in T => h[n + 1] \in T
  <2> SUFFICES ASSUME NEW n \in 0 .. L - 1, h[n] \in T PROVE h[n + 1] \in T
    OBVIOUS
  <2>1. n + 1 \in 1 .. L /\ (n + 1) - 1 = n
    BY <1>0
  <2> QED
    BY <1>1, <1>8, <2>1
<1>10. \A n \in 0 .. L : h[n] \in T
  BY <1>0, <1>8, <1>9, StaysIn
<1>11. h \in [0 .. L -> T]
  <2> DEFINE e(n) == IF n = 0 THEN s ELSE Go(h[n - 1], n)
  <2>1. h = [n \in 0 .. L |-> e(n)]
    BY <1>6
  <2>2. DOMAIN h = 0 .. L /\ h = [n \in 0 .. L |-> h[n]]
    BY <2>1
  <2> QED
    BY <1>10, <2>2
<1>12. PutsBack(h, s, entries)
  BY <1>7, <1>8 DEF PutsBack, L, Go
<1> QED
  BY <1>11, <1>12 DEF L, T

\* Putting a snapshot back into what its removal left makes the queue whole.
LEMMA RollbackIsExact ==
  ASSUME NEW It, NEW q \in Seq(It), NEW S
  PROVE  LET entries == PositionsOf(q, S)
         IN RestoreEntriesOp(RemoveEntriesOp(q, ReceiptsOf(entries)), entries) = q
<1> DEFINE entries == PositionsOf(q, S)
           s == RemoveEntriesOp(q, ReceiptsOf(entries))
           H == Hits(q, S)
           L == Len(entries)
<1>1. /\ entries \in Seq(Pairs(It)) /\ Part(entries, Tagged(q), H)
      /\ H \in SUBSET (1 .. Len(q))
  BY Snapshot DEF Hits
<1>2. \A i \in 1 .. Len(q) : Tagged(q)[i] = [pos |-> i - 1, item |-> q[i]]
  BY TaggedType
<1>3. s \in Seq(It) /\ Part(s, q, (1 .. Len(q)) \ H)
  BY SnapshotRemoved
<1> HIDE DEF entries, s, H
<1>0. L \in Nat /\ Len(q) \in Nat
  BY <1>1, LenProperties
<1>h. PICK h \in [1 .. L -> H] : Embeds(h, entries, Tagged(q), H)
  BY <1>1 DEF Part
<1>4. /\ \A i \in 1 .. L : h[i] \in H /\ h[i] \in Nat /\ h[i] \in 1 .. Len(q)
      /\ \A i, j \in 1 .. L : i < j => h[i] < h[j]
      /\ \A p \in H : \E i \in 1 .. L : h[i] = p
  <2>1. H \subseteq Nat
    BY <1>0, <1>1
  <2> QED
    BY <1>h, <1>1, <2>1 DEF Embeds
<1>5. ASSUME NEW i \in 1 .. L
      PROVE  entries[i].pos = h[i] - 1 /\ entries[i].item = q[h[i]]
  <2>1. entries[i] = Tagged(q)[h[i]]
    BY <1>h DEF Embeds
  <2>2. Tagged(q)[h[i]] = [pos |-> h[i] - 1, item |-> q[h[i]]]
    BY <1>2, <1>4
  <2> QED
    BY <2>1, <2>2
<1>f. PICK f \in [0 .. L -> Seq(It)] : PutsBack(f, s, entries)
  BY <1>1, <1>3, RestoreIterates
<1>6. /\ f[0] = s /\ RestoreEntriesOp(s, entries) = f[L]
      /\ \A n \in 1 .. L : f[n] = Put(f[n - 1], entries[n].pos, entries[n].item)
  BY <1>f DEF PutsBack
<1> DEFINE D(n) == ((1 .. Len(q)) \ H) \cup {h[i] : i \in 1 .. n}
           N == {n \in 0 .. L : Part(f[n], q, D(n))}
<1> HIDE DEF L
<1>7. 0 \in N
  <2>1. D(0) = (1 .. Len(q)) \ H
    OBVIOUS
  <2>2. Part(f[0], q, D(0))
    <3> HIDE DEF D
    <3> QED
      BY <1>3, <1>6, <2>1
  <2> QED
    BY <1>0, <2>2
<1>8. ASSUME NEW n \in 0 .. L - 1, n \in N PROVE n + 1 \in N
  <2>0. n + 1 \in 1 .. L /\ n + 1 \in 0 .. L /\ (n + 1) - 1 = n /\ f[n] \in Seq(It)
    BY <1>0
  <2> DEFINE p == h[n + 1]
             r == f[n]
  <2>1. p \in 1 .. Len(q) /\ p \in H
    BY <1>4, <2>0
  <2>2. \A i \in 1 .. n : i \in 1 .. L /\ h[i] < p
    BY <1>0, <1>4, <2>0
  <2>3. D(n) \in SUBSET (1 .. Len(q)) /\ D(n + 1) = D(n) \cup {p}
    <3>1. \A i \in 1 .. n + 1 : i \in 1 .. n \/ i = n + 1
      BY <2>0
    <3>2. \A i \in 1 .. n : i \in 1 .. n + 1
      BY <2>0
    <3>3. n + 1 \in 1 .. n + 1
      BY <2>0
    <3>4. {h[i] : i \in 1 .. n + 1} = {h[i] : i \in 1 .. n} \cup {p}
      BY <3>1, <3>2, <3>3
    <3> QED
      BY <1>4, <2>2, <3>4
  <2>4. p \notin D(n)
    <3>1. \A i \in 1 .. n : h[i] # p
      BY <1>4, <2>1, <2>2
    <3> QED
      BY <2>1, <3>1
  <2>5. 1 .. p - 1 \subseteq D(n)
    <3> SUFFICES ASSUME NEW x \in 1 .. p - 1, x \in H PROVE \E i \in 1 .. n : h[i] = x
      BY <1>0, <2>1
    <3>1. PICK i \in 1 .. L : h[i] = x
      BY <1>4
    <3>2. ~ (n + 1 < i) /\ i # n + 1
      BY <1>4, <2>0, <2>1, <3>1
    <3>3. i \in 1 .. n
      BY <1>0, <3>2
    <3> QED
      BY <3>1, <3>3
  <2>6. Part(r, q, D(n))
    BY <1>8
  <2>7. entries[n + 1].pos = p - 1 /\ entries[n + 1].item = q[p]
    BY <1>5, <2>0
  <2>8. f[n + 1] = Put(r, p - 1, q[p])
    BY <1>6, <2>0, <2>7
  <2>d. D(n) \in SUBSET (1 .. Len(q))
    BY <2>3
  <2> HIDE DEF p, r, D
  <2>9. p <= Len(r) + 1 /\ Part(Insert(r, p, q[p]), q, D(n) \cup {p})
    <3>1. r \in Seq(It)
      BY <2>0 DEF r
    <3> QED
      BY <2>1, <2>4, <2>5, <2>6, <2>d, <3>1, PartInsert
  <2>10. Put(r, p - 1, q[p]) = Insert(r, p, q[p])
    <3>1. 1 + (IF p - 1 < Len(r) THEN p - 1 ELSE Len(r)) = p
      <4>1. Len(r) \in Nat /\ p \in Nat
        BY <1>0, <2>0, <2>1, LenProperties DEF r
      <4> QED
        BY <2>9, <4>1
    <3> QED
      BY <3>1 DEF Put
  <2> QED
    BY <2>0, <2>3, <2>8, <2>9, <2>10
<1>9. L \in N
  <2> HIDE DEF N
  <2>1. \A k \in 0 .. L : k \in N
    BY <1>0, <1>7, <1>8, UpTo
  <2> QED
    BY <1>0, <2>1
<1>10. D(L) = 1 .. Len(q)
  <2>1. {h[i] : i \in 1 .. L} = H
    BY <1>4
  <2> QED
    BY <1>1, <2>1
<1>11. f[L] = q
  <2>1. Part(f[L], q, 1 .. Len(q)) /\ f[L] \in Seq(It)
    BY <1>0, <1>9, <1>10
  <2> QED
    BY <2>1, PartWhole
<1> QED
  BY <1>6, <1>11 DEF entries, s

-----------------------------------------------------------------------------
(* Identities *)

\* A part of a list without repetitions has none, and holds the items of its
\* positions.
LEMMA PartIds ==
  ASSUME NEW It, NEW s \in Seq(It), NEW q \in Seq(It), NEW D \in SUBSET (1 .. Len(q)),
         Part(s, q, D)
  PROVE  /\ IdsIn(s) = {q[p].id : p \in D} /\ IdsIn(s) \subseteq IdsIn(q)
         /\ Uniq(q) => Uniq(s)
<1>0. DOMAIN s = 1 .. Len(s) /\ DOMAIN q = 1 .. Len(q) /\ Len(s) \in Nat /\ Len(q) \in Nat
  BY LenProperties
<1>1. PICK e \in [1 .. Len(s) -> D] : Embeds(e, s, q, D)
  BY DEF Part
<1>2. /\ \A i \in 1 .. Len(s) : e[i] \in D /\ e[i] \in Nat /\ s[i] = q[e[i]]
      /\ \A i, j \in 1 .. Len(s) : i < j => e[i] < e[j]
      /\ \A p \in D : \E i \in 1 .. Len(s) : e[i] = p
  <2>1. D \subseteq Nat
    BY <1>0
  <2> QED
    BY <1>1, <2>1 DEF Embeds
<1>3. IdsIn(s) = {q[p].id : p \in D}
  <2>1. \A i \in DOMAIN s : \E p \in D : s[i].id = q[p].id
    BY <1>0, <1>2
  <2>2. ASSUME NEW p \in D PROVE \E i \in DOMAIN s : s[i].id = q[p].id
    <3>1. PICK i \in 1 .. Len(s) : e[i] = p
      BY <1>2
    <3> QED
      BY <1>0, <1>2, <3>1
  <2>3. ASSUME NEW y \in IdsIn(s) PROVE y \in {q[p].id : p \in D}
    <3>1. PICK i \in DOMAIN s : y = s[i].id
      BY DEF IdsIn
    <3> QED
      BY <2>1, <3>1
  <2>4. ASSUME NEW p \in D PROVE q[p].id \in IdsIn(s)
    <3>1. PICK i \in DOMAIN s : s[i].id = q[p].id
      BY <2>2
    <3>2. s[i].id \in IdsIn(s)
      BY DEF IdsIn
    <3> QED
      BY <3>1, <3>2
  <2> QED
    BY <2>3, <2>4
<1>4. IdsIn(s) \subseteq IdsIn(q)
  BY <1>0, <1>3 DEF IdsIn
<1>5. ASSUME Uniq(q), NEW i \in 1 .. Len(s), NEW j \in 1 .. Len(s), s[i].id = s[j].id
      PROVE  i = j
  <2>1. e[i] = e[j]
    BY <1>0, <1>2, <1>5 DEF Uniq
  <2>2. ~ (i < j) /\ ~ (j < i)
    BY <1>2, <2>1
  <2> QED
    BY <1>0, <2>2
<1> QED
  BY <1>0, <1>3, <1>4, <1>5 DEF Uniq

\* Any removal by receipts leaves a part of the queue.
LEMMA RemovalKeeps ==
  ASSUME NEW It, NEW q \in Seq(It), NEW receipts, Len(receipts) \in Nat
  PROVE  LET s == RemoveEntriesOp(q, receipts)
         IN s \in Seq(It) /\ \E D \in SUBSET (1 .. Len(q)) : Part(s, q, D)
<1> DEFINE L == Len(receipts)
           Some(s) == \E D \in SUBSET (1 .. Len(q)) : Part(s, q, D)
<1>1. PICK f \in [0 .. L -> Seq(It)] :
        /\ f[0] = q
        /\ \A n \in 1 .. L : f[n] = RemoveLast(f[n - 1], receipts[n])
        /\ RemoveEntriesOp(q, receipts) = f[L]
  BY RemovalIterates
<1> DEFINE N == {n \in 0 .. L : Some(f[n])}
<1>2. 0 \in N
  <2>1. Some(q)
    BY PartOfItself
  <2> HIDE DEF Some
  <2> QED
    BY <1>1, <2>1
<1>3. ASSUME NEW n \in 0 .. L - 1, n \in N PROVE n + 1 \in N
  <2>0. n + 1 \in 0 .. L /\ n + 1 \in 1 .. L /\ (n + 1) - 1 = n /\ n \in 0 .. L
    OBVIOUS
  <2> DEFINE s == f[n]
             r == receipts[n + 1]
  <2>1. s \in Seq(It) /\ f[n + 1] = RemoveLast(s, r) /\ Some(s)
    BY <1>1, <1>3, <2>0
  <2>2. PICK D \in SUBSET (1 .. Len(q)) : Part(s, q, D)
    BY <2>1
  <2> HIDE DEF s, r
  <2>3. CASE RemoveLast(s, r) = s
    BY <2>0, <2>1, <2>3
  <2>4. CASE \E i \in 1 .. Len(s) : RemoveLast(s, r) = Delete(s, i)
    <3>1. PICK i \in 1 .. Len(s) : RemoveLast(s, r) = Delete(s, i)
      BY <2>4
    <3>2. PICK e \in [1 .. Len(s) -> D] : Embeds(e, s, q, D)
      BY <2>2 DEF Part
    <3>3. Part(Delete(s, i), q, D \ {e[i]})
      BY <2>1, <3>2, PartDelete
    <3>4. Some(f[n + 1])
      <4>1. D \ {e[i]} \in SUBSET (1 .. Len(q))
        OBVIOUS
      <4> QED
        BY <2>1, <3>1, <3>3, <4>1
    <3> HIDE DEF Some
    <3> QED
      BY <2>0, <3>4
  <2> QED
    BY <2>1, <2>3, <2>4, RemovesLast
<1>4. L \in N
  <2> HIDE DEF N
  <2>1. \A k \in 0 .. L : k \in N
    BY <1>2, <1>3, UpTo
  <2> QED
    BY <2>1
<1> QED
  BY <1>1, <1>4

\* An item inserted into a list it is not in.
LEMMA InsertIds ==
  ASSUME NEW It, NEW s \in Seq(It), NEW i \in 1 .. Len(s) + 1, NEW x \in It
  PROVE  /\ IdsIn(Insert(s, i, x)) = IdsIn(s) \cup {x.id}
         /\ Uniq(s) /\ x.id \notin IdsIn(s) => Uniq(Insert(s, i, x))
<1> DEFINE t == Insert(s, i, x)
<1>0. DOMAIN s = 1 .. Len(s) /\ Len(s) \in Nat
  BY LenProperties
<1>1. /\ t \in Seq(It) /\ Len(t) = Len(s) + 1
      /\ \A j \in 1 .. Len(s) + 1 : t[j] = IF j < i THEN s[j] ELSE IF j = i THEN x ELSE s[j - 1]
  <2> HIDE DEF t
  <2>1. t = Insert(s, i, x)
    BY DEF t
  <2> QED
    BY <2>1, Inserted, SMTT(30)
<1> HIDE DEF t
<1>2. DOMAIN t = 1 .. Len(s) + 1
  BY <1>1, LenProperties
<1>3. ASSUME NEW j \in 1 .. Len(s) + 1
      PROVE  \/ j = i /\ t[j] = x
             \/ j < i /\ j \in 1 .. Len(s) /\ t[j] = s[j]
             \/ i < j /\ j - 1 \in 1 .. Len(s) /\ t[j] = s[j - 1]
  <2>1. j = i \/ j < i \/ i < j
    BY <1>0
  <2>2. j < i => j \in 1 .. Len(s)
    BY <1>0
  <2>3. i < j => j - 1 \in 1 .. Len(s) /\ ~ (j < i) /\ j # i
    BY <1>0
  <2> QED
    BY <1>1, <2>1, <2>2, <2>3
<1>4. \A j \in DOMAIN t : t[j].id \in IdsIn(s) \cup {x.id}
  BY <1>0, <1>2, <1>3 DEF IdsIn
<1>5. ASSUME NEW j \in 1 .. Len(s) PROVE s[j].id \in IdsIn(t)
  <2>1. CASE j < i
    <3>1. j \in 1 .. Len(s) + 1 /\ t[j] = s[j]
      BY <1>0, <1>1, <2>1
    <3> QED
      BY <1>2, <3>1 DEF IdsIn
  <2>2. CASE ~ (j < i)
    <3>1. j + 1 \in 1 .. Len(s) + 1 /\ (j + 1) - 1 = j /\ ~ (j + 1 < i) /\ j + 1 # i
      BY <1>0, <2>2
    <3>2. t[j + 1] = s[j]
      BY <1>1, <3>1
    <3> QED
      BY <1>2, <3>1, <3>2 DEF IdsIn
  <2> QED
    BY <2>1, <2>2
<1>6. x.id \in IdsIn(t)
  BY <1>0, <1>1, <1>2 DEF IdsIn
<1>7. IdsIn(t) = IdsIn(s) \cup {x.id}
  <2>1. IdsIn(t) \subseteq IdsIn(s) \cup {x.id}
    BY <1>4 DEF IdsIn
  <2>2. IdsIn(s) \subseteq IdsIn(t)
    <3>1. \A y \in IdsIn(s) : \E j \in 1 .. Len(s) : y = s[j].id
      BY <1>0 DEF IdsIn
    <3> QED
      BY <1>5, <3>1
  <2> QED
    BY <1>6, <2>1, <2>2
<1>8. ASSUME Uniq(s), x.id \notin IdsIn(s), NEW j \in 1 .. Len(s) + 1,
             NEW k \in 1 .. Len(s) + 1, t[j].id = t[k].id
      PROVE  j = k
  <2>1. \A m \in 1 .. Len(s) : s[m].id # x.id
    BY <1>0, <1>8 DEF IdsIn
  <2>2. \A m, n \in 1 .. Len(s) : s[m].id = s[n].id => m = n
    BY <1>0, <1>8 DEF Uniq
  <2>3. \/ j = i /\ t[j] = x
        \/ j < i /\ j \in 1 .. Len(s) /\ t[j] = s[j]
        \/ i < j /\ j - 1 \in 1 .. Len(s) /\ t[j] = s[j - 1]
    BY <1>3
  <2>4. \/ k = i /\ t[k] = x
        \/ k < i /\ k \in 1 .. Len(s) /\ t[k] = s[k]
        \/ i < k /\ k - 1 \in 1 .. Len(s) /\ t[k] = s[k - 1]
    BY <1>3
  <2>5. CASE j = i
    BY <1>8, <2>1, <2>3, <2>4, <2>5
  <2>6. CASE k = i
    BY <1>8, <2>1, <2>3, <2>4, <2>6
  <2>7. CASE j < i
    BY <1>8, <2>1, <2>2, <2>3, <2>4, <2>7
  <2>8. CASE i < j
    BY <1>0, <1>8, <2>1, <2>2, <2>3, <2>4, <2>8
  <2> QED
    BY <2>3, <2>5, <2>7, <2>8
<1>9. Uniq(s) /\ x.id \notin IdsIn(s) => Uniq(t)
  BY <1>2, <1>8 DEF Uniq
<1> QED
  BY <1>7, <1>9 DEF t

\* A deletion takes one item away.
LEMMA DeleteIds ==
  ASSUME NEW It, NEW s \in Seq(It), NEW i \in 1 .. Len(s), Uniq(s)
  PROVE  /\ Delete(s, i) \in Seq(It) /\ Uniq(Delete(s, i))
         /\ IdsIn(Delete(s, i)) = IdsIn(s) \ {s[i].id}
<1>0. DOMAIN s = 1 .. Len(s) /\ Len(s) \in Nat
  BY LenProperties
<1>1. PICK e \in [1 .. Len(s) -> 1 .. Len(s)] : Embeds(e, s, s, 1 .. Len(s))
  BY PartOfItself DEF Part
<1>2. \A j \in 1 .. Len(s) : e[j] \in 1 .. Len(s) /\ s[j] = s[e[j]]
  BY <1>1 DEF Embeds
<1>3. e[i] = i
  BY <1>0, <1>2 DEF Uniq
<1>4. Part(Delete(s, i), s, (1 .. Len(s)) \ {i})
  BY <1>1, <1>3, PartDelete
<1>5. Delete(s, i) \in Seq(It)
  BY Deleted
<1>6. /\ Uniq(Delete(s, i))
      /\ IdsIn(Delete(s, i)) = {s[p].id : p \in (1 .. Len(s)) \ {i}}
  <2>1. (1 .. Len(s)) \ {i} \in SUBSET (1 .. Len(s))
    OBVIOUS
  <2> QED
    BY <1>4, <1>5, <2>1, PartIds, SMTT(30)
<1>7. {s[p].id : p \in (1 .. Len(s)) \ {i}} = IdsIn(s) \ {s[i].id}
  <2>1. \A p \in 1 .. Len(s) : s[p].id = s[i].id => p = i
    BY <1>0 DEF Uniq
  <2> QED
    BY <1>0, <2>1 DEF IdsIn
<1> QED
  BY <1>5, <1>6, <1>7

\* Moving an item keeps the list's items.
LEMMA MoveIds ==
  ASSUME NEW It, NEW s \in Seq(It), NEW i \in 1 .. Len(s), NEW j \in 1 .. Len(s), Uniq(s)
  PROVE  LET t == Insert(Delete(s, i), j, s[i])
         IN t \in Seq(It) /\ Uniq(t) /\ IdsIn(t) = IdsIn(s)
<1> DEFINE d == Delete(s, i)
           x == s[i]
<1>0. DOMAIN s = 1 .. Len(s) /\ Len(s) \in Nat /\ x \in It /\ x.id \in IdsIn(s)
  BY LenProperties, ElementOfSeq DEF IdsIn
<1>1. /\ d \in Seq(It) /\ Len(d) = Len(s) - 1 /\ Uniq(d)
      /\ IdsIn(d) = IdsIn(s) \ {x.id}
  BY Deleted, DeleteIds
<1>2. j \in 1 .. Len(d) + 1
  BY <1>0, <1>1
<1> HIDE DEF d, x
<1>3. /\ Insert(d, j, x) \in Seq(It)
      /\ IdsIn(Insert(d, j, x)) = IdsIn(d) \cup {x.id}
      /\ Uniq(d) /\ x.id \notin IdsIn(d) => Uniq(Insert(d, j, x))
  BY <1>0, <1>1, <1>2, Inserted, InsertIds, SMTT(30)
<1> QED
  BY <1>0, <1>1, <1>3 DEF d, x

\* What a rollback puts into whatever the queue has become.
LEMMA RestoreKeeps ==
  ASSUME NEW It, NEW s \in Seq(It), NEW entries \in Seq(Pairs(It))
  PROVE  LET t == RestoreEntriesOp(s, entries)
             back == {entries[i].item.id : i \in 1 .. Len(entries)}
         IN /\ t \in Seq(It)
            /\ IdsIn(t) = IdsIn(s) \cup back
            /\ Uniq(s) /\ IdsIn(s) \cap back = {}
                 /\ (\A i, j \in 1 .. Len(entries) :
                        entries[i].item.id = entries[j].item.id => i = j)
               => Uniq(t)
<1> DEFINE L == Len(entries)
           back(n) == {entries[i].item.id : i \in 1 .. n}
           once == /\ Uniq(s) /\ IdsIn(s) \cap back(L) = {}
                   /\ \A i, j \in 1 .. L : entries[i].item.id = entries[j].item.id => i = j
<1>0. L \in Nat
  BY LenProperties
<1>f. PICK f \in [0 .. L -> Seq(It)] : PutsBack(f, s, entries)
  BY RestoreIterates
<1>1. /\ f[0] = s /\ RestoreEntriesOp(s, entries) = f[L]
      /\ \A n \in 1 .. L : f[n] = Put(f[n - 1], entries[n].pos, entries[n].item)
  BY <1>f DEF PutsBack
<1> HIDE DEF L
<1> DEFINE N == {n \in 0 .. L : IdsIn(f[n]) = IdsIn(s) \cup back(n) /\ (once => Uniq(f[n]))}
<1>2. 0 \in N
  <2>1. back(0) = {}
    OBVIOUS
  <2> HIDE DEF back
  <2> QED
    BY <1>0, <1>1, <2>1
<1>3. ASSUME NEW n \in 0 .. L - 1, n \in N PROVE n + 1 \in N
  <2>0. n + 1 \in 0 .. L /\ n + 1 \in 1 .. L /\ (n + 1) - 1 = n /\ f[n] \in Seq(It)
    BY <1>0
  <2> DEFINE r == f[n]
             x == entries[n + 1].item
             pos == entries[n + 1].pos
  <2>1. x \in It /\ pos \in Nat /\ r \in Seq(It)
    <3>1. entries[n + 1] \in Pairs(It)
      BY <2>0, ElementOfSeq DEF L
    <3> QED
      BY <2>0, <3>1 DEF Pairs
  <2>2. f[n + 1] = Put(r, pos, x)
    BY <1>1, <2>0
  <2>3. IdsIn(r) = IdsIn(s) \cup back(n) /\ (once => Uniq(r))
    BY <1>3
  <2>4. back(n + 1) = back(n) \cup {x.id}
    <3>1. \A i \in 1 .. n + 1 : i \in 1 .. n \/ i = n + 1
      BY <2>0
    <3>2. n + 1 \in 1 .. n + 1 /\ \A i \in 1 .. n : i \in 1 .. n + 1
      BY <2>0
    <3> QED
      BY <3>1, <3>2
  <2>5. once => x.id \notin IdsIn(s) \cup back(n)
    <3> SUFFICES ASSUME once PROVE x.id \notin IdsIn(s) \cup back(n)
      OBVIOUS
    <3>1. x.id \in back(L)
      BY <2>0
    <3>2. \A i \in 1 .. n : i \in 1 .. L /\ i # n + 1
      BY <1>0, <2>0
    <3>3. \A i \in 1 .. n : entries[i].item.id # x.id
      BY <2>0, <3>2
    <3> QED
      BY <3>1, <3>3
  <2> HIDE DEF r, x, pos, once, back
  <2>6. PICK i \in 1 .. Len(r) + 1 : Put(r, pos, x) = Insert(r, i, x)
    <3> DEFINE at == 1 + (IF pos < Len(r) THEN pos ELSE Len(r))
    <3>1. at \in 1 .. Len(r) + 1
      BY <2>1, LenProperties
    <3>2. Put(r, pos, x) = Insert(r, at, x)
      BY DEF Put
    <3> HIDE DEF at
    <3> QED
      BY <3>1, <3>2
  <2>7. /\ IdsIn(Insert(r, i, x)) = IdsIn(r) \cup {x.id}
        /\ Uniq(r) /\ x.id \notin IdsIn(r) => Uniq(Insert(r, i, x))
    BY <2>1, InsertIds
  <2> QED
    BY <2>0, <2>2, <2>3, <2>4, <2>5, <2>6, <2>7
<1>4. L \in N
  <2> HIDE DEF N
  <2>1. \A k \in 0 .. L : k \in N
    BY <1>0, <1>2, <1>3, UpTo
  <2> QED
    BY <1>0, <2>1
<1>5. f[L] \in Seq(It)
  BY <1>0
<1> QED
  BY <1>1, <1>4, <1>5 DEF L

\* What the removal of a snapshot takes: the items of the snapshot, each once.
LEMMA SnapshotIds ==
  ASSUME NEW It, NEW q \in Seq(It), NEW S, Uniq(q)
  PROVE  LET entries == PositionsOf(q, S)
             s == RemoveEntriesOp(q, ReceiptsOf(entries))
         IN /\ s \in Seq(It) /\ Uniq(s) /\ IdsIn(s) \subseteq IdsIn(q)
            /\ IdsIn(q) \ IdsIn(s) = {entries[i].item.id : i \in 1 .. Len(entries)}
            /\ \A i, j \in 1 .. Len(entries) :
                  entries[i].item.id = entries[j].item.id => i = j
<1> DEFINE entries == PositionsOf(q, S)
           s == RemoveEntriesOp(q, ReceiptsOf(entries))
           H == Hits(q, S)
           L == Len(entries)
<1>1. /\ entries \in Seq(Pairs(It)) /\ Part(entries, Tagged(q), H)
      /\ H \in SUBSET (1 .. Len(q))
  BY Snapshot DEF Hits
<1>2. \A i \in 1 .. Len(q) : Tagged(q)[i] = [pos |-> i - 1, item |-> q[i]]
  BY TaggedType
<1>3. s \in Seq(It) /\ Part(s, q, (1 .. Len(q)) \ H)
  BY SnapshotRemoved
<1> HIDE DEF entries, s, H
<1>0. L \in Nat /\ Len(q) \in Nat /\ DOMAIN q = 1 .. Len(q)
  BY <1>1, LenProperties
<1>4. /\ IdsIn(s) = {q[p].id : p \in (1 .. Len(q)) \ H} /\ IdsIn(s) \subseteq IdsIn(q)
      /\ Uniq(s)
  <2>1. (1 .. Len(q)) \ H \in SUBSET (1 .. Len(q))
    OBVIOUS
  <2> QED
    BY <1>3, <2>1, PartIds
<1>h. PICK h \in [1 .. L -> H] : Embeds(h, entries, Tagged(q), H)
  BY <1>1 DEF Part
<1> HIDE DEF L
<1>5. /\ \A i \in 1 .. L : h[i] \in H /\ h[i] \in Nat /\ h[i] \in 1 .. Len(q)
      /\ \A i, j \in 1 .. L : i < j => h[i] < h[j]
      /\ \A p \in H : \E i \in 1 .. L : h[i] = p
      /\ \A i \in 1 .. L : entries[i] = Tagged(q)[h[i]]
  <2>1. H \subseteq Nat
    BY <1>0, <1>1
  <2> QED
    BY <1>h, <1>1, <2>1 DEF Embeds, L
<1>6. ASSUME NEW i \in 1 .. L PROVE entries[i].item = q[h[i]]
  <2>1. Tagged(q)[h[i]] = [pos |-> h[i] - 1, item |-> q[h[i]]]
    BY <1>2, <1>5
  <2> QED
    BY <1>5, <2>1
<1>7. \A i, j \in 1 .. Len(q) : q[i].id = q[j].id => i = j
  BY <1>0 DEF Uniq
<1>8. IdsIn(q) \ IdsIn(s) = {q[p].id : p \in H}
  <2>1. IdsIn(q) = {q[p].id : p \in 1 .. Len(q)}
    BY <1>0 DEF IdsIn
  <2> QED
    BY <1>1, <1>4, <1>7, <2>1
<1>9. {q[p].id : p \in H} = {entries[i].item.id : i \in 1 .. L}
  <2>1. ASSUME NEW p \in H PROVE \E i \in 1 .. L : entries[i].item.id = q[p].id
    <3>1. PICK i \in 1 .. L : h[i] = p
      BY <1>5
    <3> QED
      BY <1>6, <3>1
  <2>2. ASSUME NEW i \in 1 .. L PROVE \E p \in H : entries[i].item.id = q[p].id
    BY <1>5, <1>6
  <2> QED
    BY <2>1, <2>2, SMTT(30)
<1>10. ASSUME NEW i \in 1 .. L, NEW j \in 1 .. L, entries[i].item.id = entries[j].item.id
       PROVE  i = j
  <2>1. h[i] = h[j]
    BY <1>5, <1>6, <1>7, <1>10
  <2>2. ~ (i < j) /\ ~ (j < i)
    BY <1>5, <2>1
  <2> QED
    BY <1>0, <2>2
<1> QED
  BY <1>3, <1>4, <1>8, <1>9, <1>10 DEF entries, s, L
=============================================================================
