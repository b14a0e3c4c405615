---------------------------- MODULE OrderLemmas ----------------------------
(***************************************************************************)
(* What appending, dequeuing and concatenating do to the orders of module  *)
(* Order, what cutting a bounded list leaves of it, and what arrivals and  *)
(* removals do to a list that is ordered by rank.  The proofs about the    *)
(* components cite these facts by name.                                    *)
(***************************************************************************)
EXTENDS Integers, Sequences, Functions, Order, SequenceTheorems, FiniteSetTheorems,
        WellFoundedInduction, TLAPS

\* The empty sequence is ordered and before and after everything.
LEMMA EmptyOrdered ==
  /\ Increasing(<<>>)
  /\ \A n : UpTo(<<>>, n)
  /\ \A s : AllBefore(<<>>, s) /\ AllBefore(s, <<>>)
BY DEF Increasing, UpTo, AllBefore

\* A larger bound still bounds.
LEMMA UpToWeaken ==
  ASSUME NEW s \in Seq(Nat), NEW m \in Nat, NEW n \in Nat, m <= n, UpTo(s, m)
  PROVE  UpTo(s, n)
BY ElementOfSeq, LenProperties DEF UpTo

\* A packet newer than all in s keeps the order of s when it joins the end.
LEMMA AppendOrdered ==
  ASSUME NEW s \in Seq(Nat), NEW x \in Nat, \A i \in DOMAIN s : s[i] < x
  PROVE  /\ Append(s, x) \in Seq(Nat)
         /\ Increasing(s) => Increasing(Append(s, x))
         /\ UpTo(Append(s, x), x)
<1>1. /\ Append(s, x) \in Seq(Nat)
      /\ Len(Append(s, x)) = Len(s) + 1
      /\ \A i \in 1..Len(s) : Append(s, x)[i] = s[i]
      /\ Append(s, x)[Len(s) + 1] = x
  BY AppendProperties
<1>2. /\ DOMAIN s = 1..Len(s)
      /\ DOMAIN Append(s, x) = 1..(Len(s) + 1)
      /\ Len(s) \in Nat
  BY <1>1, LenProperties
<1>3. \A i \in 1..Len(s) : s[i] \in Nat
  BY ElementOfSeq
<1>4. ASSUME Increasing(s),
             NEW i \in 1..(Len(s) + 1), NEW j \in 1..(Len(s) + 1), i < j
      PROVE  Append(s, x)[i] < Append(s, x)[j]
  <2>1. i \in 1..Len(s)
    BY <1>2, <1>4
  <2>2. CASE j = Len(s) + 1
    BY <1>1, <1>2, <2>1, <2>2
  <2>3. CASE j \in 1..Len(s)
    BY <1>1, <1>2, <1>4, <2>1, <2>3 DEF Increasing
  <2> QED
    BY <1>2, <2>2, <2>3
<1>5. UpTo(Append(s, x), x)
  <2>1. ASSUME NEW i \in 1..(Len(s) + 1)
        PROVE  Append(s, x)[i] <= x
    <3>1. CASE i = Len(s) + 1
      BY <1>1, <3>1
    <3>2. CASE i \in 1..Len(s)
      BY <1>1, <1>2, <1>3, <3>2
    <3> QED
      BY <1>2, <3>1, <3>2
  <2> QED
    BY <1>2, <2>1 DEF UpTo
<1> QED
  BY <1>1, <1>2, <1>4, <1>5 DEF Increasing

\* A bound of both s and x bounds s with x at its end.
LEMMA AppendUpTo ==
  ASSUME NEW s \in Seq(Nat), NEW x \in Nat, NEW n \in Nat, UpTo(s, n), x <= n
  PROVE  UpTo(Append(s, x), n)
<1>1. /\ Len(Append(s, x)) = Len(s) + 1
      /\ \A i \in 1..Len(s) : Append(s, x)[i] = s[i]
      /\ Append(s, x)[Len(s) + 1] = x
      /\ Append(s, x) \in Seq(Nat)
  BY AppendProperties
<1>2. /\ DOMAIN s = 1..Len(s)
      /\ DOMAIN Append(s, x) = 1..(Len(s) + 1)
      /\ Len(s) \in Nat
  BY <1>1, LenProperties
<1>3. ASSUME NEW i \in 1..(Len(s) + 1)
      PROVE  Append(s, x)[i] <= n
  <2>1. CASE i = Len(s) + 1
    BY <1>1, <2>1
  <2>2. CASE i \in 1..Len(s)
    BY <1>1, <1>2, <2>2 DEF UpTo
  <2> QED
    BY <1>2, <2>1, <2>2
<1> QED
  BY <1>2, <1>3 DEF UpTo

\* s stays before t when t grows by something newer than s, and when s grows by
\* something older than t.
LEMMA AppendAllBefore ==
  ASSUME NEW s \in Seq(Nat), NEW t \in Seq(Nat), NEW x \in Nat, AllBefore(s, t)
  PROVE  /\ (\A i \in DOMAIN s : s[i] < x) => AllBefore(s, Append(t, x))
         /\ (\A j \in DOMAIN t : x < t[j]) => AllBefore(Append(s, x), t)
<1>1. ASSUME NEW u \in Seq(Nat)
      PROVE  /\ DOMAIN u = 1..Len(u)
             /\ Len(u) \in Nat
             /\ DOMAIN Append(u, x) = 1..(Len(u) + 1)
             /\ \A i \in 1..Len(u) : Append(u, x)[i] = u[i]
             /\ Append(u, x)[Len(u) + 1] = x
  BY AppendProperties, LenProperties
<1>2. ASSUME \A i \in DOMAIN s : s[i] < x,
             NEW i \in DOMAIN s, NEW j \in DOMAIN Append(t, x)
      PROVE  s[i] < Append(t, x)[j]
  <2>1. CASE j = Len(t) + 1
    BY <1>1, <1>2, <2>1
  <2>2. CASE j \in 1..Len(t)
    <3>1. j \in DOMAIN t /\ Append(t, x)[j] = t[j]
      BY <1>1, <2>2
    <3> QED
      BY <3>1, <1>2 DEF AllBefore
  <2>3. j \in 1..(Len(t) + 1) /\ Len(t) \in Nat
    BY <1>1, <1>2
  <2> QED
    BY <2>1, <2>2, <2>3
<1>3. ASSUME \A j \in DOMAIN t : x < t[j],
             NEW i \in DOMAIN Append(s, x), NEW j \in DOMAIN t
      PROVE  Append(s, x)[i] < t[j]
  <2>1. CASE i = Len(s) + 1
    BY <1>1, <1>3, <2>1
  <2>2. CASE i \in 1..Len(s)
    <3>1. i \in DOMAIN s /\ Append(s, x)[i] = s[i]
      BY <1>1, <2>2
    <3> QED
      BY <3>1, <1>3 DEF AllBefore
  <2>3. i \in 1..(Len(s) + 1) /\ Len(s) \in Nat
    BY <1>1, <1>3
  <2> QED
    BY <2>1, <2>2, <2>3
<1> QED
  BY <1>2, <1>3 DEF AllBefore

\* Dequeuing: the head is older than the rest, the rest keeps every order.
LEMMA TailOrdered ==
  ASSUME NEW s \in Seq(Nat), s # <<>>
  PROVE  /\ Head(s) \in Nat
         /\ Tail(s) \in Seq(Nat)
         /\ Increasing(s) =>
              /\ Increasing(Tail(s))
              /\ \A i \in DOMAIN Tail(s) : Head(s) < Tail(s)[i]
         /\ \A n : UpTo(s, n) => UpTo(Tail(s), n) /\ Head(s) <= n
         /\ \A t : AllBefore(t, s) =>
              /\ AllBefore(t, Tail(s))
              /\ \A i \in DOMAIN t : t[i] < Head(s)
<1>1. /\ Head(s) \in Nat
      /\ Tail(s) \in Seq(Nat)
      /\ Len(Tail(s)) = Len(s) - 1
      /\ \A i \in 1..Len(Tail(s)) : Tail(s)[i] = s[i + 1]
  BY HeadTailProperties
<1>2. Len(s) \in Nat \ {0} /\ Head(s) = s[1]
  BY EmptySeq
<1>3. /\ DOMAIN s = 1..Len(s)
      /\ DOMAIN Tail(s) = 1..(Len(s) - 1)
  BY <1>1, LenProperties
<1>4. 1 \in DOMAIN s /\ \A i \in DOMAIN Tail(s) : i + 1 \in DOMAIN s /\ 1 < i + 1
  BY <1>2, <1>3
<1>5. \A i \in DOMAIN Tail(s) : Tail(s)[i] = s[i + 1]
  BY <1>1, <1>3
<1>6. ASSUME Increasing(s)
      PROVE  /\ Increasing(Tail(s))
             /\ \A i \in DOMAIN Tail(s) : Head(s) < Tail(s)[i]
  <2>1. \A i, j \in DOMAIN Tail(s) : i < j => i + 1 < j + 1
    BY <1>2, <1>3
  <2> QED
    BY <1>2, <1>4, <1>5, <1>6, <2>1 DEF Increasing
<1>7. ASSUME NEW n, UpTo(s, n)
      PROVE  UpTo(Tail(s), n) /\ Head(s) <= n
  BY <1>2, <1>4, <1>5, <1>7 DEF UpTo
<1>8. ASSUME NEW t, AllBefore(t, s)
      PROVE  AllBefore(t, Tail(s)) /\ \A i \in DOMAIN t : t[i] < Head(s)
  BY <1>2, <1>4, <1>5, <1>8 DEF AllBefore
<1> QED
  BY <1>1, <1>6, <1>7, <1>8

\* Joining two sequences in order.
LEMMA ConcatOrdered ==
  ASSUME NEW s \in Seq(Nat), NEW t \in Seq(Nat)
  PROVE  /\ s \o t \in Seq(Nat)
         /\ Increasing(s) /\ Increasing(t) /\ AllBefore(s, t) => Increasing(s \o t)
         /\ \A u : AllBefore(s, u) /\ AllBefore(t, u) => AllBefore(s \o t, u)
         /\ Range(s \o t) = Range(s) \cup Range(t)
<1> DEFINE c == s \o t
<1>1. /\ c \in Seq(Nat)
      /\ Len(c) = Len(s) + Len(t)
      /\ \A i \in 1..(Len(s) + Len(t)) :
           c[i] = IF i <= Len(s) THEN s[i] ELSE t[i - Len(s)]
  BY ConcatProperties
<1>2. /\ DOMAIN s = 1..Len(s) /\ Len(s) \in Nat
      /\ DOMAIN t = 1..Len(t) /\ Len(t) \in Nat
      /\ DOMAIN c = 1..(Len(s) + Len(t))
  BY <1>1, LenProperties
<1> HIDE DEF c
<1>3. \A i \in DOMAIN c :
        \/ i \in DOMAIN s /\ c[i] = s[i]
        \/ i - Len(s) \in DOMAIN t /\ c[i] = t[i - Len(s)] /\ i > Len(s)
  BY <1>1, <1>2
<1>4. ASSUME Increasing(s), Increasing(t), AllBefore(s, t),
             NEW i \in DOMAIN c, NEW j \in DOMAIN c, i < j
      PROVE  c[i] < c[j]
  <2>1. CASE i \in DOMAIN s /\ c[i] = s[i]
    <3>1. CASE j \in DOMAIN s /\ c[j] = s[j]
      BY <1>4, <2>1, <3>1 DEF Increasing
    <3>2. CASE j - Len(s) \in DOMAIN t /\ c[j] = t[j - Len(s)]
      BY <1>4, <2>1, <3>2 DEF AllBefore
    <3> QED
      BY <1>3, <3>1, <3>2
  <2>2. CASE i - Len(s) \in DOMAIN t /\ c[i] = t[i - Len(s)] /\ i > Len(s)
    <3>1. j > Len(s) /\ i - Len(s) < j - Len(s)
      BY <1>2, <1>4, <2>2
    <3>2. j - Len(s) \in DOMAIN t /\ c[j] = t[j - Len(s)]
      BY <1>1, <1>2, <1>4, <3>1
    <3> QED
      BY <1>4, <2>2, <3>1, <3>2 DEF Increasing
  <2> QED
    BY <1>3, <2>1, <2>2
<1>5. ASSUME NEW u, AllBefore(s, u), AllBefore(t, u)
      PROVE  AllBefore(c, u)
  BY <1>3, <1>5 DEF AllBefore
<1>6. Range(c) = Range(s) \cup Range(t)
  <2>1. Range(c) \subseteq Range(s) \cup Range(t)
    BY <1>3 DEF Range
  <2>2. ASSUME NEW i \in DOMAIN s
        PROVE  s[i] \in Range(c)
    <3>1. i \in DOMAIN c /\ c[i] = s[i]
      BY <1>1, <1>2
    <3> QED
      BY <3>1 DEF Range
  <2>3. ASSUME NEW i \in DOMAIN t
        PROVE  t[i] \in Range(c)
    <3>1. i + Len(s) \in DOMAIN c /\ c[i + Len(s)] = t[i]
      <4>1. i + Len(s) \in 1..(Len(s) + Len(t)) /\ ~(i + Len(s) <= Len(s))
            /\ (i + Len(s)) - Len(s) = i
        BY <1>2
      <4> QED
        BY <1>1, <1>2, <4>1
    <3> QED
      BY <3>1 DEF Range
  <2> QED
    BY <2>1, <2>2, <2>3 DEF Range
<1> QED
  BY <1>1, <1>4, <1>5, <1>6 DEF c, Increasing

\* What is in a sequence after an append and after a dequeue.
LEMMA RangeAppend ==
  ASSUME NEW s \in Seq(Nat), NEW x \in Nat
  PROVE  Range(Append(s, x)) = Range(s) \cup {x}
<1> DEFINE a == Append(s, x)
<1>1. /\ a \in Seq(Nat)
      /\ Len(a) = Len(s) + 1
      /\ \A i \in 1..Len(s) : a[i] = s[i]
      /\ a[Len(s) + 1] = x
  BY AppendProperties
<1>2. /\ DOMAIN s = 1..Len(s) /\ Len(s) \in Nat
      /\ DOMAIN a = 1..(Len(s) + 1)
  BY <1>1, LenProperties
<1> HIDE DEF a
<1>3. \A i \in DOMAIN a : (i \in DOMAIN s /\ a[i] = s[i]) \/ a[i] = x
  BY <1>1, <1>2
<1>4. \A i \in DOMAIN s : i \in DOMAIN a /\ a[i] = s[i]
  BY <1>1, <1>2
<1>5. Len(s) + 1 \in DOMAIN a
  BY <1>2
<1> QED
  BY <1>1, <1>3, <1>4, <1>5 DEF Range, a

\* What Tail keeps of Range.
LEMMA RangeTail ==
  ASSUME NEW s \in Seq(Nat), s # <<>>, Increasing(s)
  PROVE  /\ Range(s) = {Head(s)} \cup Range(Tail(s))
         /\ Head(s) \notin Range(Tail(s))
<1>1. /\ Tail(s) \in Seq(Nat)
      /\ Len(Tail(s)) = Len(s) - 1
      /\ \A i \in 1..Len(Tail(s)) : Tail(s)[i] = s[i + 1]
  BY HeadTailProperties
<1>2. /\ Len(s) \in Nat \ {0} /\ Head(s) = s[1]
      /\ DOMAIN s = 1..Len(s)
      /\ DOMAIN Tail(s) = 1..(Len(s) - 1)
  BY <1>1, EmptySeq, LenProperties
<1>3. 1 \in DOMAIN s
  BY <1>2
<1>4. \A i \in DOMAIN s : i = 1 \/ (i - 1 \in DOMAIN Tail(s) /\ s[i] = Tail(s)[i - 1])
  BY <1>1, <1>2
<1>5. \A i \in DOMAIN Tail(s) : i + 1 \in DOMAIN s /\ Tail(s)[i] = s[i + 1]
  BY <1>1, <1>2
<1>6. Head(s) \in Nat /\ \A i \in DOMAIN Tail(s) : Head(s) < Tail(s)[i]
  BY TailOrdered
<1>7. ASSUME NEW x \in Range(s)
      PROVE  x = Head(s) \/ x \in Range(Tail(s))
  BY <1>2, <1>4, <1>7 DEF Range
<1>8. Head(s) \in Range(s) /\ Range(Tail(s)) \subseteq Range(s)
  BY <1>2, <1>3, <1>5 DEF Range
<1>9. Head(s) \notin Range(Tail(s))
  BY <1>6 DEF Range
<1> QED
  BY <1>7, <1>8, <1>9

\* Nothing is in two sequences of which one is before the other.
LEMMA RangesDisjoint ==
  ASSUME NEW s \in Seq(Nat), NEW t \in Seq(Nat), AllBefore(s, t)
  PROVE  Range(s) \cap Range(t) = {}
<1>1. \A i \in DOMAIN s : s[i] \in Nat
  BY ElementOfSeq, LenProperties
<1>2. \A i \in DOMAIN t : t[i] \in Nat
  BY ElementOfSeq, LenProperties
<1> QED
  BY <1>1, <1>2 DEF AllBefore, Range

\* A sequence is the beginning of itself continued.
LEMMA PrefixOfConcat ==
  ASSUME NEW S, NEW s \in Seq(S), NEW t \in Seq(S)
  PROVE  s = SubSeq(s \o t, 1, Len(s))
<1> DEFINE u == SubSeq(s \o t, 1, Len(s))
<1>1. /\ s \o t \in Seq(S)
      /\ Len(s) \in Nat /\ Len(t) \in Nat
      /\ Len(s \o t) = Len(s) + Len(t)
      /\ \A i \in 1..Len(s) : (s \o t)[i] = s[i]
  BY ConcatProperties, LenProperties
<1>2. \A i \in 1..Len(s) : (s \o t)[i] \in S
  BY <1>1, ElementOfSeq
<1>3. /\ u \in Seq(S)
      /\ Len(u) = Len(s)
      /\ \A i \in 1..Len(s) : u[i] = s[i]
  BY <1>1, <1>2, SubSeqProperties
<1> QED
  BY <1>3, SeqEqual

\* So it is when one item is appended.
LEMMA PrefixOfAppend ==
  ASSUME NEW S, NEW s \in Seq(S), NEW x \in S
  PROVE  s = SubSeq(Append(s, x), 1, Len(s))
<1> DEFINE a == Append(s, x)
           u == SubSeq(a, 1, Len(s))
<1>1. /\ a \in Seq(S)
      /\ Len(s) \in Nat
      /\ Len(a) = Len(s) + 1
      /\ \A i \in 1..Len(s) : a[i] = s[i]
  BY AppendProperties, LenProperties
<1>2. \A i \in 1..Len(s) : a[i] \in S
  BY <1>1, ElementOfSeq
<1>3. /\ u \in Seq(S)
      /\ Len(u) = Len(s)
      /\ \A i \in 1..Len(s) : u[i] = s[i]
  BY <1>1, <1>2, SubSeqProperties
<1> QED
  BY <1>3, SeqEqual

\* The first n items of a sequence, or all of them.
Leading(s, n) == SubSeq(s, 1, IF Len(s) < n THEN Len(s) ELSE n)

\* A sequence cut at the end.
LEMMA KeepFirst ==
  ASSUME NEW S, NEW s \in Seq(S), NEW n \in Nat,
         NEW cut, cut = IF Len(s) < n THEN Len(s) ELSE n
  PROVE  /\ Leading(s, n) \in Seq(S)
         /\ Len(Leading(s, n)) = cut
         /\ cut \in Nat /\ cut <= n /\ cut <= Len(s)
         /\ \A i \in 1..cut : Leading(s, n)[i] = s[i]
<1> DEFINE kept == SubSeq(s, 1, cut)
<1>1. /\ Len(s) \in Nat
      /\ \A i \in 1..Len(s) : s[i] \in S
  BY ElementOfSeq, LenProperties
<1>2. cut \in Nat /\ cut <= n /\ cut <= Len(s)
  BY <1>1
<1>3. \A i \in 1..cut : s[i] \in S
  BY <1>1, <1>2
<1>4. /\ kept \in Seq(S)
      /\ Len(kept) = IF 1 <= cut THEN cut - 1 + 1 ELSE 0
      /\ \A i \in 1..(cut - 1 + 1) : kept[i] = s[1 + i - 1]
  BY <1>2, <1>3, SubSeqProperties
<1>5. Len(kept) = cut
  BY <1>2, <1>4
<1>6. \A i \in 1..cut : kept[i] = s[i]
  BY <1>2, <1>4
<1> HIDE DEF kept
<1>7. QED
  BY <1>2, <1>4, <1>5, <1>6 DEF Leading, kept

\* The last n items of a sequence.
Newest(s, n) == IF Len(s) > n THEN SubSeq(s, Len(s) - n + 1, Len(s)) ELSE s

\* kept is s and x after it without their first gone items, the length limited to n.
IsNewest(kept, s, x, n, gone) ==
  /\ Len(s) < n => gone = 0
  /\ ~(Len(s) < n) => gone = Len(s) + 1 - n
  /\ gone <= Len(s)
  /\ Len(kept) = Len(s) + 1 - gone
  /\ kept[Len(s) + 1 - gone] = x
  /\ \A i \in 1..(Len(s) - gone) : kept[i] = s[i + gone]

\* That is what appending x and keeping the last n items makes of s.
LEMMA KeepLast ==
  ASSUME NEW S, NEW s \in Seq(S), NEW x \in S, NEW n \in Nat \ {0}
  PROVE  /\ Newest(Append(s, x), n) \in Seq(S)
         /\ \E gone \in Nat : IsNewest(Newest(Append(s, x), n), s, x, n, gone)
<1> DEFINE next == Append(s, x)
<1>1. /\ next \in Seq(S)
      /\ Len(s) \in Nat
      /\ Len(next) = Len(s) + 1
      /\ \A i \in 1..Len(s) : next[i] = s[i]
      /\ next[Len(s) + 1] = x
  BY AppendProperties, LenProperties
<1>2. \A i \in 1..Len(next) : next[i] \in S
  BY <1>1, ElementOfSeq
<1>3. Newest(Append(s, x), n) =
        IF Len(next) > n THEN SubSeq(next, Len(next) - n + 1, Len(next)) ELSE next
  BY DEF Newest
<1> HIDE DEF next
<1>4. CASE Len(s) < n
  <2>1. Newest(Append(s, x), n) = next
    BY <1>1, <1>3, <1>4
  <2>2. \A i \in 1..(Len(s) - 0) : next[i] = s[i + 0]
    BY <1>1
  <2>3. Len(s) + 1 - 0 = Len(s) + 1 /\ 0 <= Len(s)
    BY <1>1
  <2> QED
    BY <1>1, <1>4, <2>1, <2>2, <2>3 DEF IsNewest
<1>5. CASE ~(Len(s) < n)
  <2> DEFINE gone == Len(s) + 1 - n
             last == SubSeq(next, gone + 1, Len(next))
  <2>1. /\ gone \in Nat /\ gone <= Len(s)
        /\ Len(next) > n
        /\ Len(next) - n + 1 = gone + 1
        /\ Len(s) + 1 - gone = n
        /\ Len(next) - (gone + 1) + 1 = n
        /\ gone + 1 \in 1..Len(next)
        /\ n + gone = Len(s) + 1
    BY <1>1, <1>5
  <2>2. Newest(Append(s, x), n) = last
    BY <1>3, <2>1
  <2>a. gone = Len(s) + 1 - n
    OBVIOUS
  <2> HIDE DEF gone
  <2>3. \A i \in (gone + 1)..Len(next) : next[i] \in S
    BY <1>2, <2>1
  <2>4. /\ last \in Seq(S)
        /\ Len(last) = IF gone + 1 <= Len(next) THEN Len(next) - (gone + 1) + 1 ELSE 0
        /\ \A i \in 1..(Len(next) - (gone + 1) + 1) : last[i] = next[gone + 1 + i - 1]
    BY <1>1, <2>1, <2>3, SubSeqProperties
  <2> HIDE DEF last
  <2>5. Len(last) = n
    BY <1>1, <2>1, <2>4
  <2>6. ASSUME NEW i \in 1..n PROVE last[i] = next[i + gone]
    <3>1. last[i] = next[gone + 1 + i - 1]
      BY <2>1, <2>4
    <3>2. gone + 1 + i - 1 = i + gone
      BY <2>1
    <3> QED
      BY <3>1, <3>2
  <2>7. last[n] = x
    <3>1. last[n] = next[n + gone]
      BY <2>6
    <3> QED
      BY <1>1, <2>1, <3>1
  <2>8. ASSUME NEW i \in 1..(Len(s) - gone) PROVE last[i] = s[i + gone]
    <3>1. i \in 1..n /\ i + gone \in 1..Len(s)
      BY <1>1, <2>1
    <3> QED
      BY <1>1, <2>6, <3>1
  <2>9. Len(last) = Len(s) + 1 - gone /\ last[Len(s) + 1 - gone] = x
    BY <2>1, <2>5, <2>7
  <2> QED
    BY <1>5, <2>1, <2>2, <2>a, <2>4, <2>8, <2>9 DEF IsNewest
<1> QED
  BY <1>4, <1>5

-----------------------------------------------------------------------------
(* Ranks, and the lists that are ordered by them. *)

\* A set of numbers has a least.
LEMMA NatMin ==
  ASSUME NEW S, S \subseteq Nat, S # {}
  PROVE  \E n \in S : \A m \in S : n <= m
<1>1. PICK n \in S : \A m \in S : <<m, n>> \notin OpToRel(<, Nat)
  BY WFMin, NatLessThanWellFounded, Zenon
<1>2. \A m \in S : ~(m < n)
  BY <1>1, Zenon DEF OpToRel
<1>3. ASSUME NEW m \in S PROVE n <= m
  <2>1. ~(m < n) /\ m \in Nat /\ n \in Nat
    BY <1>2
  <2> QED
    BY <2>1
<1> QED
  BY <1>3

\* Sets of places are finite sets of numbers.
LEMMA PlacesFinite ==
  ASSUME NEW n \in Nat, NEW S \in SUBSET (1..n)
  PROVE  /\ IsFiniteSet(S)
         /\ Cardinality(S) \in Nat
         /\ \A i \in S : i \in Nat /\ 1 <= i /\ i <= n
<1>1. IsFiniteSet(1..n)
  <2>1. 1 \in Int /\ n \in Int
    OBVIOUS
  <2> QED
    BY <2>1, FS_Interval
<1>2. IsFiniteSet(S)
  BY <1>1, FS_Subset
<1>3. \A i \in S : i \in Nat /\ 1 <= i /\ i <= n
  OBVIOUS
<1> QED
  BY <1>2, <1>3, FS_CardinalityType

\* The rank of a member is between 1 and the number of members.
LEMMA RankBounds ==
  ASSUME NEW n \in Nat, NEW S \in SUBSET (1..n), NEW i \in S
  PROVE  /\ IsFiniteSet(S)
         /\ Cardinality(S) \in Nat
         /\ Rank(S, i) \in 1..Cardinality(S)
<1> DEFINE R == {j \in S : j >= i}
<1>1. IsFiniteSet(S) /\ Cardinality(S) \in Nat /\ i \in Nat
  BY PlacesFinite
<1>2. IsFiniteSet(R) /\ Cardinality(R) \in Nat /\ Cardinality(R) <= Cardinality(S)
  BY <1>1, FS_Subset, FS_CardinalityType
<1>3. i \in R
  BY <1>1
<1>4. Cardinality(R) # 0
  BY <1>2, <1>3, FS_EmptySet
<1> QED
  BY <1>1, <1>2, <1>4 DEF Rank

\* A newcomer greater than all is first and moves every other one place on.
LEMMA RankAdded ==
  ASSUME NEW n \in Nat, NEW S \in SUBSET (1..n)
  PROVE  /\ Cardinality(S \cup {n + 1}) = Cardinality(S) + 1
         /\ Rank(S \cup {n + 1}, n + 1) = 1
         /\ \A i \in S : Rank(S \cup {n + 1}, i) = Rank(S, i) + 1
<1> DEFINE m == n + 1
<1>1. IsFiniteSet(S) /\ \A i \in S : i \in Nat /\ i < m
  BY PlacesFinite
<1>a. m \in Nat
  OBVIOUS
<1> HIDE DEF m
<1>b. m \notin S
  BY <1>1, <1>a
<1>2. Cardinality(S \cup {m}) = Cardinality(S) + 1
  BY <1>1, <1>b, FS_AddElement
<1>3. Rank(S \cup {m}, m) = 1
  <2>1. {j \in S \cup {m} : j >= m} = {m}
    <3>1. m >= m /\ \A j \in S : ~(j >= m)
      BY <1>1, <1>a
    <3> QED
      BY <3>1
  <2> QED
    BY <2>1, FS_Singleton DEF Rank
<1>4. ASSUME NEW i \in S
      PROVE  Rank(S \cup {m}, i) = Rank(S, i) + 1
  <2> DEFINE R == {j \in S : j >= i}
  <2>1. {j \in S \cup {m} : j >= i} = R \cup {m}
    <3>1. m >= i
      BY <1>1, <1>a
    <3> QED
      BY <3>1
  <2>2. IsFiniteSet(R) /\ m \notin R
    BY <1>1, <1>b, FS_Subset
  <2> HIDE DEF R
  <2>3. Cardinality(R \cup {m}) = Cardinality(R) + 1
    BY <2>2, FS_AddElement
  <2> QED
    BY <2>1, <2>3 DEF Rank, R
<1> QED
  BY <1>2, <1>3, <1>4 DEF m

\* The greater of two members has the lower rank.
LEMMA RankOrder ==
  ASSUME NEW n \in Nat, NEW S \in SUBSET (1..n), NEW i \in S, NEW j \in S, i < j
  PROVE  Rank(S, j) < Rank(S, i)
<1> DEFINE I == {k \in S : k >= i}
           J == {k \in S : k >= j}
<1>1. IsFiniteSet(S) /\ \A k \in S : k \in Nat
  BY PlacesFinite
<1>2. J \subseteq I /\ i \in I /\ i \notin J
  <2>1. i \in Nat /\ j \in Nat
    BY <1>1
  <2>2. i >= i /\ ~(i >= j)
    BY <2>1
  <2>3. ASSUME NEW k \in S, k >= j PROVE k >= i
    BY <1>1, <2>1, <2>3
  <2> QED
    BY <2>2, <2>3
<1>3. IsFiniteSet(I) /\ IsFiniteSet(J)
  BY <1>1, FS_Subset
<1> HIDE DEF I, J
<1>4. Cardinality(J) <= Cardinality(I) /\ Cardinality(J) # Cardinality(I)
  BY <1>2, <1>3, FS_Subset
<1>5. Cardinality(J) < Cardinality(I)
  BY <1>3, <1>4, FS_CardinalityType
<1> QED
  BY <1>5 DEF Rank, I, J

\* Without h, those behind it move up.
LEMMA RankRemoved ==
  ASSUME NEW n \in Nat, NEW S \in SUBSET (1..n), NEW h \in S
  PROVE  /\ Cardinality(S \ {h}) = Cardinality(S) - 1
         /\ \A i \in S \ {h} :
              Rank(S \ {h}, i) = IF i < h THEN Rank(S, i) - 1 ELSE Rank(S, i)
<1>1. IsFiniteSet(S) /\ \A k \in S : k \in Nat
  BY PlacesFinite
<1>2. Cardinality(S \ {h}) = Cardinality(S) - 1
  BY <1>1, FS_RemoveElement
<1>3. ASSUME NEW i \in S \ {h}
      PROVE  Rank(S \ {h}, i) = IF i < h THEN Rank(S, i) - 1 ELSE Rank(S, i)
  <2> DEFINE R == {j \in S : j >= i}
  <2>1. {j \in S \ {h} : j >= i} = R \ {h}
    OBVIOUS
  <2>2. IsFiniteSet(R) /\ (h \in R <=> i < h)
    BY <1>1, FS_Subset
  <2> HIDE DEF R
  <2>3. Cardinality(R \ {h}) = IF h \in R THEN Cardinality(R) - 1 ELSE Cardinality(R)
    BY <2>2, FS_RemoveElement
  <2> QED
    BY <2>1, <2>2, <2>3 DEF Rank, R
<1> QED
  BY <1>2, <1>3

\* Every place up to the number of members is the rank of one of them.
LEMMA RankOnto ==
  ASSUME NEW n \in Nat, NEW S \in SUBSET (1..n), NEW k \in 1..Cardinality(S)
  PROVE  \E i \in S : Rank(S, i) = k
<1> DEFINE T == 1..Cardinality(S)
           f == [i \in S |-> Rank(S, i)]
<1>1. IsFiniteSet(S) /\ Cardinality(S) \in Nat /\ \A i \in S : i \in Nat
  BY PlacesFinite
<1>2. IsFiniteSet(T) /\ Cardinality(T) = Cardinality(S)
  <2>1. Cardinality(T) = IF 1 > Cardinality(S) THEN 0 ELSE Cardinality(S) - 1 + 1
    BY <1>1, FS_Interval
  <2> QED
    BY <1>1, <2>1, FS_Interval
<1>3. f \in [S -> T]
  BY RankBounds
<1>4. ASSUME NEW i \in S, NEW j \in S, f[i] = f[j]
      PROVE  i = j
  <2>1. Rank(S, i) = Rank(S, j) /\ ~(Rank(S, i) < Rank(S, j)) /\ ~(Rank(S, j) < Rank(S, i))
    <3>1. Rank(S, i) \in 1..Cardinality(S)
      BY RankBounds
    <3>2. Rank(S, i) = Rank(S, j)
      BY <1>4
    <3> QED
      BY <1>1, <3>1, <3>2
  <2>2. ~(i < j) /\ ~(j < i)
    BY <2>1, RankOrder
  <2> QED
    BY <1>1, <2>2
<1>5. f \in Injection(S, T)
  BY <1>3, <1>4 DEF Injection, IsInjective
<1> HIDE DEF f, T
<1>6. f \in Surjection(S, T)
  BY <1>2, <1>5, FS_Injection
<1>7. \E i \in S : f[i] = k
  BY <1>6 DEF Surjection, T
<1> QED
  BY <1>7 DEF f

-----------------------------------------------------------------------------
\* next is the batch and list after it, the length limited to max.
IsPrepended(next, batch, list, max) ==
  /\ Len(next) = AtMost(Len(batch) + Len(list), max)
  /\ \A k \in 1..Len(batch) : k <= max => next[k] = batch[k]
  /\ \A k \in 1..Len(list) : Len(batch) + k <= max => next[Len(batch) + k] = list[k]

\* That is what putting a batch first and cutting makes of a list.
LEMMA PrependCut ==
  ASSUME NEW T, NEW batch \in Seq(T), NEW list \in Seq(T), NEW max \in Nat
  PROVE  /\ Leading(batch \o list, max) \in Seq(T)
         /\ IsPrepended(Leading(batch \o list, max), batch, list, max)
<1> DEFINE all == batch \o list
           cut == IF Len(all) < max THEN Len(all) ELSE max
<1>1. /\ all \in Seq(T)
      /\ Len(batch) \in Nat /\ Len(list) \in Nat
      /\ Len(all) = Len(batch) + Len(list)
      /\ \A k \in 1..(Len(batch) + Len(list)) :
           all[k] = IF k <= Len(batch) THEN batch[k] ELSE list[k - Len(batch)]
  BY ConcatProperties, LenProperties
<1>2. cut = AtMost(Len(batch) + Len(list), max)
  BY <1>1 DEF AtMost
<1> HIDE DEF all
<1>a. cut = IF Len(all) < max THEN Len(all) ELSE max
  OBVIOUS
<1> HIDE DEF cut
<1>b. all \in Seq(T) /\ max \in Nat
  BY <1>1
<1>3. /\ Leading(all, max) \in Seq(T)
      /\ Len(Leading(all, max)) = cut
      /\ cut \in Nat
      /\ \A k \in 1..cut : Leading(all, max)[k] = all[k]
  BY <1>a, <1>b, KeepFirst, Zenon
<1>4. ASSUME NEW k \in 1..Len(batch), k <= max
      PROVE  Leading(all, max)[k] = batch[k]
  <2>1. k \in 1..cut /\ k \in 1..(Len(batch) + Len(list)) /\ k <= Len(batch)
    BY <1>1, <1>4, <1>a
  <2> QED
    BY <1>1, <1>3, <2>1
<1>5. ASSUME NEW k \in 1..Len(list), Len(batch) + k <= max
      PROVE  Leading(all, max)[Len(batch) + k] = list[k]
  <2> DEFINE p == Len(batch) + k
  <2>1. /\ p \in 1..cut /\ p \in 1..(Len(batch) + Len(list))
        /\ ~(p <= Len(batch)) /\ p - Len(batch) = k
    BY <1>1, <1>5, <1>a
  <2> HIDE DEF p
  <2>2. Leading(all, max)[p] = list[k]
    BY <1>1, <1>3, <2>1
  <2> QED
    BY <2>2 DEF p
<1> QED
  BY <1>2, <1>3, <1>4, <1>5 DEF all, IsPrepended

\* One new row at the head of a list of rows that is as long as it may be or was
\* one shorter.
LEMMA ListsAdded ==
  ASSUME NEW n \in Nat, NEW S \in SUBSET (1..n), NEW T, NEW list \in Seq(T), NEW x \in T,
         NEW max \in Nat \ {0}, NEW row, NEW rowNow,
         Lists(list, S, row, max) \/ Lists(list, S, row, max - 1),
         rowNow[n + 1] = x, \A i \in S : rowNow[i] = row[i]
  PROVE  Lists(Leading(<<x>> \o list, max), S \cup {n + 1}, rowNow, max)
<1> DEFINE one == <<x>>
           next == Leading(one \o list, max)
           C == Cardinality(S)
<1>1. C \in Nat /\ \A i \in S : Rank(S, i) \in 1..C
  BY PlacesFinite, RankBounds
<1>2. /\ one \in Seq(T) /\ Len(one) = 1 /\ one[1] = x
      /\ Len(list) \in Nat
  BY LenProperties
<1>3. /\ Len(next) = AtMost(1 + Len(list), max)
      /\ next[1] = x
      /\ \A k \in 1..Len(list) : 1 + k <= max => next[1 + k] = list[k]
  <2>1. 1 \in 1..1 /\ 1 <= max /\ max \in Nat
    OBVIOUS
  <2>a. one \in Seq(T)
    BY <1>2
  <2> HIDE DEF one
  <2>2. /\ Len(next) = AtMost(Len(one) + Len(list), max)
        /\ \A k \in 1..Len(one) : k <= max => next[k] = one[k]
        /\ \A k \in 1..Len(list) : Len(one) + k <= max => next[Len(one) + k] = list[k]
    <3>1. one \in Seq(T) /\ list \in Seq(T) /\ max \in Nat
      BY <2>a, <2>1
    <3>2. IsPrepended(next, one, list, max)
      BY <3>1, PrependCut
    <3> QED
      BY <3>2 DEF IsPrepended
  <2> QED
    BY <1>2, <2>1, <2>2
<1> HIDE DEF next, C
<1>4. /\ AtMost(1 + Len(list), max) = AtMost(C + 1, max)
      /\ \A k \in 1..C : k + 1 <= max => k \in 1..Len(list)
      /\ \A i \in S : Rank(S, i) + 1 <= max => list[Rank(S, i)] = row[i]
  <2>1. CASE Lists(list, S, row, max)
    <3>1. Len(list) = AtMost(C, max) /\ \A i \in S : Rank(S, i) <= max => list[Rank(S, i)] = row[i]
      BY <2>1 DEF Lists, C
    <3>2. \A i \in S : Rank(S, i) + 1 <= max => Rank(S, i) <= max
      BY <1>1
    <3> QED
      BY <1>1, <3>1, <3>2 DEF AtMost
  <2>2. CASE Lists(list, S, row, max - 1)
    <3>1. Len(list) = AtMost(C, max - 1)
          /\ \A i \in S : Rank(S, i) <= max - 1 => list[Rank(S, i)] = row[i]
      BY <2>2 DEF Lists, C
    <3>2. \A i \in S : Rank(S, i) + 1 <= max => Rank(S, i) <= max - 1
      BY <1>1
    <3> QED
      BY <1>1, <3>1, <3>2 DEF AtMost
  <2> QED
    BY <2>1, <2>2
<1>5. /\ Cardinality(S \cup {n + 1}) = C + 1
      /\ Rank(S \cup {n + 1}, n + 1) = 1
      /\ \A i \in S : Rank(S \cup {n + 1}, i) = Rank(S, i) + 1
  BY RankAdded DEF C
<1>6. ASSUME NEW i \in S, Rank(S, i) + 1 <= max
      PROVE  next[Rank(S, i) + 1] = rowNow[i]
  <2> DEFINE k == Rank(S, i)
  <2>1. k \in 1..C /\ list[k] = rowNow[i] /\ k + 1 <= max
    BY <1>1, <1>4, <1>6
  <2> HIDE DEF k
  <2>2. k \in 1..Len(list) /\ 1 + k = k + 1
    BY <1>1, <1>4, <2>1
  <2>3. next[k + 1] = list[k]
    BY <1>3, <2>1, <2>2
  <2> QED
    BY <2>1, <2>3 DEF k
<1>7. ASSUME NEW i \in S \cup {n + 1}, Rank(S \cup {n + 1}, i) <= max
      PROVE  next[Rank(S \cup {n + 1}, i)] = rowNow[i]
  BY <1>3, <1>5, <1>6, <1>7
<1> QED
  BY <1>3, <1>4, <1>5, <1>7 DEF Lists, next, one

\* A list of rows without the row of h, if it was in the list.
LEMMA ListsRemoved ==
  ASSUME NEW n \in Nat, NEW S \in SUBSET (1..n), NEW h \in S, NEW list, NEW others,
         NEW max \in Nat \ {0}, NEW row, Lists(list, S, row, max),
         Rank(S, h) > max => others = list,
         Rank(S, h) <= max =>
           /\ Len(others) = Len(list) - 1
           /\ \A k \in 1..Len(others) :
                others[k] = IF k < Rank(S, h) THEN list[k] ELSE list[k + 1]
  PROVE  Lists(others, S \ {h}, row, max) \/ Lists(others, S \ {h}, row, max - 1)
<1> DEFINE C == Cardinality(S)
           r == Rank(S, h)
<1>1. C \in Nat /\ (\A i \in S : i \in Nat /\ Rank(S, i) \in 1..C) /\ r \in 1..C
  BY PlacesFinite, RankBounds
<1>2. /\ Cardinality(S \ {h}) = C - 1
      /\ \A i \in S \ {h} : Rank(S \ {h}, i) = IF i < h THEN Rank(S, i) - 1 ELSE Rank(S, i)
  BY RankRemoved
<1>3. ASSUME NEW i \in S \ {h}
      PROVE  \/ r < Rank(S, i) /\ Rank(S \ {h}, i) = Rank(S, i) - 1
             \/ Rank(S, i) < r /\ Rank(S \ {h}, i) = Rank(S, i)
  <2>1. i < h \/ h < i
    BY <1>1
  <2>2. CASE i < h
    <3>1. r < Rank(S, i)
      BY <2>2, RankOrder
    <3> QED
      BY <1>2, <2>2, <3>1
  <2>3. CASE h < i
    <3>1. Rank(S, i) < r
      BY <2>3, RankOrder
    <3>2. ~(i < h)
      BY <1>1, <2>3
    <3> QED
      BY <1>2, <3>1, <3>2
  <2> QED
    BY <2>1, <2>2, <2>3
<1>4. Len(list) = AtMost(C, max) /\ \A i \in S : Rank(S, i) <= max => list[Rank(S, i)] = row[i]
  BY DEF Lists
<1> HIDE DEF C
<1>5. CASE r > max
  <2>1. AtMost(C, max) = AtMost(C - 1, max)
    BY <1>1, <1>5 DEF AtMost
  <2>2. ASSUME NEW i \in S \ {h}, Rank(S \ {h}, i) <= max
        PROVE  list[Rank(S \ {h}, i)] = row[i]
    <3> DEFINE k == Rank(S \ {h}, i)
               p == Rank(S, i)
    <3>0. /\ p \in 1..C /\ k <= max
          /\ (r < p /\ k = p - 1) \/ (p < r /\ k = p)
      BY <1>1, <1>3, <2>2
    <3> HIDE DEF k, p
    <3>1. k = p
      BY <1>1, <1>5, <3>0
    <3> USE DEF k, p
    <3> QED
      BY <1>4, <2>2, <3>1
  <2> QED
    BY <1>2, <1>4, <1>5, <2>1, <2>2 DEF Lists
<1>6. CASE r <= max
  <2>1. Len(others) = AtMost(C - 1, max - 1)
    BY <1>1, <1>4, <1>6 DEF AtMost
  <2>2. ASSUME NEW i \in S \ {h}, Rank(S \ {h}, i) <= max - 1
        PROVE  others[Rank(S \ {h}, i)] = row[i]
    <3> DEFINE k == Rank(S \ {h}, i)
               p == Rank(S, i)
    <3>0. /\ p \in 1..C /\ k <= max - 1
          /\ (r < p /\ k = p - 1) \/ (p < r /\ k = p)
      BY <1>1, <1>3, <2>2
    <3>a. p <= max => list[p] = row[i]
      BY <1>4
    <3> HIDE DEF k, p
    <3>1. p \in 1..C /\ p <= max /\ k \in 1..(C - 1) /\ k <= max - 1
      BY <1>1, <1>6, <3>0
    <3>2. list[p] = row[i]
      BY <3>a, <3>1
    <3>3. IF k < r THEN p = k ELSE p = k + 1
      BY <1>1, <3>0
    <3>4. k \in 1..Len(others)
      BY <1>1, <2>1, <3>1 DEF AtMost
    <3>5. others[k] = IF k < r THEN list[k] ELSE list[k + 1]
      BY <1>6, <3>4
    <3> QED
      BY <3>2, <3>3, <3>5 DEF k
  <2> QED
    BY <1>2, <2>1, <2>2 DEF Lists
<1>7. r > max \/ r <= max
  BY <1>1
<1> QED
  BY <1>5, <1>6, <1>7
=============================================================================
