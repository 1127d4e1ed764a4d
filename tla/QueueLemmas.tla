----------------------------- MODULE QueueLemmas -----------------------------
(***************************************************************************)
(* What the operators of Queues and of Links return, for every queue and   *)
(* every chain.                                                            *)
(***************************************************************************)
EXTENDS Queues, Links, SequenceTheorems, FiniteSetTheorems, WellFoundedInduction, TLAPS

\* What RemoveAt() of the sequence library returns.
LEMMA RemoveAtElements ==
  ASSUME NEW S, NEW s \in Seq(S), NEW i \in 1..Len(s)
  PROVE  /\ RemoveAt(s, i) \in Seq(S)
         /\ Len(RemoveAt(s, i)) = Len(s) - 1
         /\ \A j \in 1..(Len(s) - 1) : RemoveAt(s, i)[j] = IF j < i THEN s[j] ELSE s[j + 1]
<1> DEFINE a == SubSeq(s, 1, i - 1)
           b == SubSeq(s, i + 1, Len(s))
<1>1. /\ a \in Seq(S) /\ Len(a) = i - 1
      /\ \A j \in 1..(i - 1) : a[j] = s[j]
  BY SubSeqProperties, LenProperties
<1>2. /\ b \in Seq(S) /\ Len(b) = Len(s) - i
      /\ \A j \in 1..(Len(s) - i) : b[j] = s[i + j]
  BY SubSeqProperties, LenProperties
<1>4. RemoveAt(s, i) = a \o b
  BY DEF RemoveAt
<1> HIDE DEF a, b
<1>7. /\ a \o b \in Seq(S) /\ Len(a \o b) = Len(a) + Len(b)
      /\ \A j \in 1..(Len(a) + Len(b)) : (a \o b)[j] = IF j <= Len(a) THEN a[j] ELSE b[j - Len(a)]
  BY <1>1, <1>2, ConcatProperties
<1>3. /\ a \o b \in Seq(S) /\ Len(a \o b) = Len(s) - 1
      /\ \A j \in 1..(Len(s) - 1) : (a \o b)[j] = IF j <= i - 1 THEN a[j] ELSE b[j - (i - 1)]
  BY <1>1, <1>2, <1>7, LenProperties
<1>5. ASSUME NEW j \in 1..(Len(s) - 1)
      PROVE  (a \o b)[j] = IF j < i THEN s[j] ELSE s[j + 1]
  <2>1. CASE j < i
    BY <2>1, <1>1, <1>3
  <2>2. CASE ~(j < i)
    <3>1. j - (i - 1) \in 1..(Len(s) - i) /\ i + (j - (i - 1)) = j + 1
      BY <2>2, LenProperties
    <3>2. QED BY <3>1, <2>2, <1>2, <1>3
  <2>3. QED BY <2>1, <2>2
<1>6. QED BY <1>3, <1>4, <1>5

\* Without() takes exactly c out of a queue without repetitions.
LEMMA WithoutElements ==
  ASSUME NEW S, NEW s \in Seq(S), NEW c, c \in ToSet(s),
         \A i, j \in DOMAIN s : s[i] = s[j] => i = j
  PROVE  /\ Without(s, c) \in Seq(S)
         /\ \A i, j \in DOMAIN Without(s, c) :
              Without(s, c)[i] = Without(s, c)[j] => i = j
         /\ ToSet(Without(s, c)) = ToSet(s) \ {c}
         /\ Len(Without(s, c)) = Len(s) - 1
<1> DEFINE k == CHOOSE i \in DOMAIN s : s[i] = c
           r == RemoveAt(s, k)
<1>1. DOMAIN s = 1..Len(s) /\ Len(s) \in Nat
  BY LenProperties
<1>2. k \in 1..Len(s) /\ s[k] = c /\ Without(s, c) = r
  BY <1>1 DEF ToSet, Without
<1> HIDE DEF k
<1>7. /\ r \in Seq(S) /\ Len(r) = Len(s) - 1
      /\ \A j \in 1..(Len(s) - 1) : r[j] = IF j < k THEN s[j] ELSE s[j + 1]
  BY <1>2, RemoveAtElements
<1> HIDE DEF r
<1>3. DOMAIN r = 1..(Len(s) - 1)
  BY <1>7, LenProperties
<1>4. ASSUME NEW i \in DOMAIN r, NEW j \in DOMAIN r, r[i] = r[j]
      PROVE  i = j
  <2> DEFINE at(n) == IF n < k THEN n ELSE n + 1
  <2>1. /\ at(i) \in DOMAIN s /\ r[i] = s[at(i)]
        /\ at(j) \in DOMAIN s /\ r[j] = s[at(j)]
    BY <1>1, <1>2, <1>3, <1>7
  <2>2. at(i) = at(j)
    <3> HIDE DEF at
    <3>1. QED BY <2>1, <1>4
  <2>3. i \in Int /\ j \in Int /\ k \in Int
    BY <1>1, <1>2, <1>3
  <2>4. QED BY <2>2, <2>3
<1>5. ToSet(r) = ToSet(s) \ {c}
  <2>1. ASSUME NEW x \in ToSet(r) PROVE x \in ToSet(s) \ {c}
    <3>1. PICK j \in 1..(Len(s) - 1) : r[j] = x
      BY <1>3, <2>1 DEF ToSet
    <3>2. PICK i \in 1..Len(s) : s[i] = x /\ i # k
      BY <1>1, <1>2, <1>7, <3>1
    <3>3. QED BY <1>1, <1>2, <3>2 DEF ToSet
  <2>2. ASSUME NEW x \in ToSet(s) \ {c} PROVE x \in ToSet(r)
    <3>1. PICK i \in 1..Len(s) : s[i] = x /\ i # k
      BY <1>1, <1>2, <2>2 DEF ToSet
    <3>2. CASE i < k
      BY <1>1, <1>2, <1>3, <1>7, <3>1, <3>2 DEF ToSet
    <3>3. CASE i > k
      <4>1. i - 1 \in 1..(Len(s) - 1) /\ ~(i - 1 < k) /\ (i - 1) + 1 = i
        BY <1>1, <1>2, <3>1, <3>3
      <4>2. i - 1 \in DOMAIN r /\ r[i - 1] = x
        BY <4>1, <1>3, <1>7, <3>1
      <4>3. QED BY <4>2 DEF ToSet
    <3>4. QED BY <1>2, <3>1, <3>2, <3>3
  <2>3. QED BY <2>1, <2>2
<1>6. QED BY <1>2, <1>7, <1>4, <1>5

\* A context that queues up is added once to a queue it was not in.
LEMMA AppendElements ==
  ASSUME NEW S, NEW s \in Seq(S), NEW c \in S, c \notin ToSet(s),
         \A i, j \in DOMAIN s : s[i] = s[j] => i = j
  PROVE  /\ Append(s, c) \in Seq(S)
         /\ \A i, j \in DOMAIN Append(s, c) : Append(s, c)[i] = Append(s, c)[j] => i = j
         /\ ToSet(Append(s, c)) = ToSet(s) \cup {c}
         /\ s # <<>> => Head(Append(s, c)) = Head(s)
         /\ Head(Append(s, c)) \in ToSet(Append(s, c))
<1> DEFINE r == Append(s, c)
<1>1. DOMAIN s = 1..Len(s) /\ Len(s) \in Nat
  BY LenProperties
<1>2. /\ r \in Seq(S) /\ Len(r) = Len(s) + 1
      /\ \A i \in 1..Len(s) : r[i] = s[i]
      /\ r[Len(s) + 1] = c
  BY AppendProperties
<1> HIDE DEF r
<1>3. DOMAIN r = 1..(Len(s) + 1)
  BY <1>2, LenProperties
<1>4. \A i \in DOMAIN s : s[i] # c
  BY DEF ToSet
<1>5. \A i, j \in DOMAIN r : r[i] = r[j] => i = j
  BY <1>1, <1>2, <1>3, <1>4
<1>6. ToSet(r) = ToSet(s) \cup {c}
  BY <1>1, <1>2, <1>3 DEF ToSet
<1>7. s # <<>> => Head(r) = Head(s)
  BY <1>1, <1>2, <1>3
<1>8. Head(r) \in ToSet(r)
  BY <1>1, <1>2, <1>3 DEF ToSet
<1>9. QED BY <1>2, <1>5, <1>6, <1>7, <1>8 DEF r

\* The front of a queue is one of its contexts.
LEMMA HeadElement ==
  ASSUME NEW S, NEW s \in Seq(S), s # <<>>
  PROVE  Head(s) \in ToSet(s) /\ Head(s) \in S
BY LenProperties DEF ToSet

\* Rotating a queue keeps its contexts, each once.
LEMMA RotatedElements ==
  ASSUME NEW S, NEW s \in Seq(S), \A i, j \in DOMAIN s : s[i] = s[j] => i = j
  PROVE  /\ Rotated(s) \in Seq(S) /\ Len(Rotated(s)) = Len(s)
         /\ \A i, j \in DOMAIN Rotated(s) : Rotated(s)[i] = Rotated(s)[j] => i = j
         /\ ToSet(Rotated(s)) = ToSet(s)
<1>1. CASE s = <<>>
  BY <1>1 DEF Rotated
<1>2. CASE s # <<>>
  <2> DEFINE t == Tail(s)
             e == s[1]
             r == Append(t, e)
  <2>1. DOMAIN s = 1..Len(s) /\ Len(s) \in Nat \ {0} /\ Head(s) = e /\ e = s[1] /\ e \in S
    BY <1>2, LenProperties, EmptySeq
  <2>2. /\ t \in Seq(S) /\ Len(t) = Len(s) - 1
        /\ \A i \in 1..(Len(s) - 1) : t[i] = s[i + 1]
    BY <1>2, HeadTailProperties
  <2> HIDE DEF t, e
  <2>3. /\ r \in Seq(S) /\ Len(r) = Len(s)
        /\ \A i \in 1..(Len(s) - 1) : r[i] = s[i + 1]
        /\ r[Len(s)] = s[1]
    <3>1. /\ r \in Seq(S) /\ Len(r) = Len(t) + 1
          /\ \A i \in 1..Len(t) : r[i] = t[i]
          /\ r[Len(t) + 1] = e
      <4>1. t \in Seq(S) /\ e \in S
        BY <2>1, <2>2
      <4>2. QED BY ONLY <4>1, AppendProperties
    <3> HIDE DEF r
    <3>2. QED BY <2>1, <2>2, <3>1
  <2>4. Rotated(s) = r
    BY <1>2, <2>1 DEF Rotated, t
  <2> HIDE DEF r
  <2>5. DOMAIN r = 1..Len(s)
    BY <2>3, LenProperties
  <2>6. ASSUME NEW i \in DOMAIN r, NEW j \in DOMAIN r, r[i] = r[j]
        PROVE  i = j
    <3> DEFINE at(n) == IF n = Len(s) THEN 1 ELSE n + 1
    <3>1. at(i) \in DOMAIN s /\ r[i] = s[at(i)] /\ at(j) \in DOMAIN s /\ r[j] = s[at(j)]
      BY <2>1, <2>3, <2>5
    <3>2. at(i) = at(j)
      <4> HIDE DEF at
      <4>1. QED BY <2>6, <3>1
    <3>3. QED BY <2>1, <2>5, <3>2
  <2>7. ToSet(r) = ToSet(s)
    <3>1. ASSUME NEW x \in ToSet(r) PROVE x \in ToSet(s)
      <4>1. PICK i \in 1..Len(s) : r[i] = x
        BY <2>5, <3>1 DEF ToSet
      <4>2. CASE i = Len(s)
        <5>1. x = s[1] /\ 1 \in DOMAIN s
          BY <2>1, <2>3, <4>1, <4>2
        <5>2. QED BY <5>1 DEF ToSet
      <4>3. CASE i # Len(s)
        <5>1. i \in 1..(Len(s) - 1) /\ i + 1 \in DOMAIN s
          <6>1. Len(s) \in Nat /\ i \in 1..Len(s)
            BY <2>1
          <6>2. i \in 1..(Len(s) - 1) /\ i + 1 \in 1..Len(s)
            BY ONLY <6>1, <4>3
          <6>3. QED BY <6>2, <2>1
        <5>2. x = s[i + 1]
          BY <2>3, <4>1, <5>1
        <5>3. QED BY <5>1, <5>2 DEF ToSet
      <4>4. QED BY <4>2, <4>3
    <3>2. ASSUME NEW x \in ToSet(s) PROVE x \in ToSet(r)
      <4>1. PICK i \in 1..Len(s) : s[i] = x
        BY <2>1, <3>2 DEF ToSet
      <4>2. CASE i = 1
        BY <2>1, <2>3, <2>5, <4>1, <4>2 DEF ToSet
      <4>3. CASE i # 1
        <5>1. i - 1 \in 1..(Len(s) - 1) /\ (i - 1) + 1 = i
          BY <2>1, <4>3
        <5>2. i - 1 \in DOMAIN r /\ r[i - 1] = x
          BY <2>1, <2>3, <2>5, <4>1, <5>1
        <5>3. QED BY <5>2 DEF ToSet
      <4>4. QED BY <4>2, <4>3
    <3>3. QED BY <3>1, <3>2
  <2>8. QED BY <2>3, <2>4, <2>6, <2>7
<1>3. QED BY <1>1, <1>2

\* A context that queues up in front is added once to a queue it was not in.
LEMMA PrependElements ==
  ASSUME NEW S, NEW s \in Seq(S), NEW c \in S, c \notin ToSet(s),
         \A i, j \in DOMAIN s : s[i] = s[j] => i = j
  PROVE  /\ <<c>> \o s \in Seq(S)
         /\ \A i, j \in DOMAIN (<<c>> \o s) : (<<c>> \o s)[i] = (<<c>> \o s)[j] => i = j
         /\ ToSet(<<c>> \o s) = ToSet(s) \cup {c}
<1> DEFINE one == <<c>>
           r == one \o s
<1>1. DOMAIN s = 1..Len(s) /\ Len(s) \in Nat
  BY LenProperties
<1>2. one \in Seq(S) /\ Len(one) = 1 /\ one[1] = c
  OBVIOUS
<1> HIDE DEF one
<1>3. /\ r \in Seq(S) /\ Len(r) = Len(s) + 1
      /\ r[1] = c
      /\ \A i \in 2..(Len(s) + 1) : r[i] = s[i - 1]
  <2>1. /\ r \in Seq(S) /\ Len(r) = Len(one) + Len(s)
        /\ \A i \in 1..(Len(one) + Len(s)) : r[i] = IF i <= Len(one) THEN one[i] ELSE s[i - Len(one)]
    BY <1>2, ConcatProperties
  <2> HIDE DEF r
  <2>2. QED BY <1>1, <1>2, <2>1
<1> HIDE DEF r
<1>4. DOMAIN r = 1..(Len(s) + 1)
  BY <1>3, LenProperties
<1>5. \A i \in DOMAIN s : s[i] # c
  BY DEF ToSet
<1>6. ASSUME NEW i \in DOMAIN r, NEW j \in DOMAIN r, r[i] = r[j]
      PROVE  i = j
  <2>1. CASE i = 1
    <3>1. CASE j # 1
      <4>1. j \in 2..(Len(s) + 1) /\ j - 1 \in DOMAIN s
        BY <1>1, <1>4, <3>1
      <4>2. QED BY <1>3, <1>5, <1>6, <2>1, <4>1
    <3>2. QED BY <2>1, <3>1
  <2>2. CASE i # 1
    <3>1. i \in 2..(Len(s) + 1) /\ i - 1 \in DOMAIN s
      BY <1>1, <1>4, <2>2
    <3>2. CASE j = 1
      BY <1>3, <1>5, <1>6, <3>1, <3>2
    <3>3. CASE j # 1
      <4>1. j \in 2..(Len(s) + 1) /\ j - 1 \in DOMAIN s
        BY <1>1, <1>4, <3>3
      <4>2. i - 1 = j - 1
        BY <1>3, <1>6, <3>1, <4>1
      <4>3. QED BY <3>1, <4>1, <4>2
    <3>4. QED BY <3>2, <3>3
  <2>3. QED BY <2>1, <2>2
<1>7. ToSet(r) = ToSet(s) \cup {c}
  <2>1. ASSUME NEW x \in ToSet(r) PROVE x \in ToSet(s) \cup {c}
    <3>1. PICK i \in 1..(Len(s) + 1) : r[i] = x
      BY <1>4, <2>1 DEF ToSet
    <3>2. CASE i = 1
      BY <1>3, <3>1, <3>2
    <3>3. CASE i # 1
      <4>1. i \in 2..(Len(s) + 1) /\ i - 1 \in DOMAIN s
        BY <1>1, <3>1, <3>3
      <4>2. x = s[i - 1]
        BY <1>3, <3>1, <4>1
      <4>3. QED BY <4>1, <4>2 DEF ToSet
    <3>4. QED BY <3>2, <3>3
  <2>2. c \in ToSet(r)
    <3>1. 1 \in DOMAIN r /\ r[1] = c
      BY <1>1, <1>3, <1>4
    <3>2. QED BY <3>1 DEF ToSet
  <2>3. ASSUME NEW x \in ToSet(s) PROVE x \in ToSet(r)
    <3>1. PICK i \in 1..Len(s) : s[i] = x
      BY <1>1, <2>3 DEF ToSet
    <3>2. i + 1 \in 2..(Len(s) + 1) /\ i + 1 \in DOMAIN r /\ (i + 1) - 1 = i
      BY <1>1, <1>4, <3>1
    <3>3. r[i + 1] = x
      BY <1>3, <3>1, <3>2
    <3>4. QED BY <3>2, <3>3 DEF ToSet
  <2>4. QED BY <2>1, <2>2, <2>3
<1>8. QED BY <1>3, <1>6, <1>7 DEF r, one

\* What is left of a queue without repetitions when its front is taken.
LEMMA TailElements ==
  ASSUME NEW S, NEW s \in Seq(S), s # <<>>,
         \A i, j \in DOMAIN s : s[i] = s[j] => i = j
  PROVE  /\ Head(s) \in ToSet(s) /\ Head(s) \in S
         /\ Tail(s) \in Seq(S)
         /\ \A i, j \in DOMAIN Tail(s) : Tail(s)[i] = Tail(s)[j] => i = j
         /\ ToSet(Tail(s)) = ToSet(s) \ {Head(s)}
<1> DEFINE t == Tail(s)
<1>1. DOMAIN s = 1..Len(s) /\ Len(s) \in Nat \ {0} /\ Head(s) = s[1]
  BY LenProperties, EmptySeq
<1>2. /\ t \in Seq(S) /\ Len(t) = Len(s) - 1
      /\ \A i \in 1..(Len(s) - 1) : t[i] = s[i + 1]
  BY HeadTailProperties
<1> HIDE DEF t
<1>3. DOMAIN t = 1..(Len(s) - 1)
  BY <1>2, LenProperties
<1>4. \A i \in DOMAIN t : i + 1 \in DOMAIN s /\ i + 1 # 1 /\ t[i] = s[i + 1]
  BY <1>1, <1>2, <1>3
<1>5. ASSUME NEW i \in DOMAIN t, NEW j \in DOMAIN t, t[i] = t[j]
      PROVE  i = j
  <2>1. i + 1 = j + 1
    BY <1>4, <1>5
  <2>2. QED BY <1>3, <2>1
<1>6. ToSet(t) = ToSet(s) \ {s[1]}
  <2>1. ASSUME NEW x \in ToSet(t) PROVE x \in ToSet(s) \ {s[1]}
    <3>1. PICK i \in DOMAIN t : t[i] = x
      BY <2>1 DEF ToSet
    <3>2. i + 1 \in DOMAIN s /\ i + 1 # 1 /\ x = s[i + 1] /\ 1 \in DOMAIN s
      BY <1>1, <1>4, <3>1
    <3>3. QED BY <3>2 DEF ToSet
  <2>2. ASSUME NEW x \in ToSet(s) \ {s[1]} PROVE x \in ToSet(t)
    <3>1. PICK i \in DOMAIN s : s[i] = x
      BY <2>2 DEF ToSet
    <3>2. i # 1
      BY <2>2, <3>1
    <3>3. i - 1 \in 1..(Len(s) - 1) /\ (i - 1) + 1 = i
      BY <1>1, <3>1, <3>2
    <3>4. i - 1 \in DOMAIN t /\ t[i - 1] = x
      BY <1>2, <1>3, <3>1, <3>3
    <3>5. QED BY <3>4 DEF ToSet
  <2>3. QED BY <2>1, <2>2
<1>7. s[1] \in ToSet(s) /\ s[1] \in S
  <2>1. 1 \in DOMAIN s
    BY <1>1
  <2>2. QED BY <1>1, <2>1 DEF ToSet
<1>8. QED BY <1>1, <1>2, <1>5, <1>6, <1>7 DEF t

\* What InsertAt() of the sequence library returns.
LEMMA InsertAtElements ==
  ASSUME NEW S, NEW s \in Seq(S), NEW i \in 1..(Len(s) + 1), NEW c \in S
  PROVE  /\ InsertAt(s, i, c) \in Seq(S)
         /\ Len(InsertAt(s, i, c)) = Len(s) + 1
         /\ \A j \in 1..(Len(s) + 1) :
              InsertAt(s, i, c)[j] = IF j < i THEN s[j] ELSE IF j = i THEN c ELSE s[j - 1]
<1> DEFINE a == SubSeq(s, 1, i - 1)
           b == SubSeq(s, i, Len(s))
           o == <<c>>
           ao == a \o o
<1>0. Len(s) \in Nat
  BY LenProperties
<1>1. /\ a \in Seq(S) /\ Len(a) = i - 1
      /\ \A j \in 1..(i - 1) : a[j] = s[j]
  BY <1>0, SubSeqProperties
<1>2. /\ b \in Seq(S) /\ Len(b) = Len(s) - i + 1
      /\ \A j \in 1..(Len(s) - i + 1) : b[j] = s[i + j - 1]
  BY <1>0, SubSeqProperties
<1>3. o \in Seq(S) /\ Len(o) = 1 /\ o[1] = c
  OBVIOUS
<1> HIDE DEF a, b, o
<1>4. /\ ao \in Seq(S) /\ Len(ao) = i
      /\ \A j \in 1..i : ao[j] = IF j < i THEN s[j] ELSE c
  <2>1. /\ ao \in Seq(S) /\ Len(ao) = Len(a) + Len(o)
        /\ \A j \in 1..(Len(a) + Len(o)) : ao[j] = IF j <= Len(a) THEN a[j] ELSE o[j - Len(a)]
    BY <1>1, <1>3, ConcatProperties
  <2> HIDE DEF ao
  <2>2. QED BY <1>0, <1>1, <1>3, <2>1
<1> HIDE DEF ao
<1>5. /\ ao \o b \in Seq(S) /\ Len(ao \o b) = Len(s) + 1
      /\ \A j \in 1..(Len(s) + 1) : (ao \o b)[j] = IF j <= i THEN ao[j] ELSE b[j - i]
  <2>1. /\ ao \o b \in Seq(S) /\ Len(ao \o b) = Len(ao) + Len(b)
        /\ \A j \in 1..(Len(ao) + Len(b)) :
             (ao \o b)[j] = IF j <= Len(ao) THEN ao[j] ELSE b[j - Len(ao)]
    BY <1>2, <1>4, ConcatProperties
  <2>2. QED BY <1>0, <1>2, <1>4, <2>1
<1>6. \A j \in 1..(Len(s) + 1) :
        (ao \o b)[j] = IF j < i THEN s[j] ELSE IF j = i THEN c ELSE s[j - 1]
  BY <1>0, <1>2, <1>4, <1>5
<1>7. QED BY <1>5, <1>6 DEF InsertAt, ao, a, b, o

-----------------------------------------------------------------------------
(* Linked lists *)

\* A non-empty set of naturals has a least element.
LEMMA LeastNat ==
  ASSUME NEW T \in SUBSET Nat, T # {}
  PROVE  \E x \in T : \A y \in T : x <= y
<1>1. PICK x \in T : \A y \in T : <<y, x>> \notin OpToRel(<, Nat)
  BY NatLessThanWellFounded, WFMin
<1>2. \A y \in T : ~(y < x)
  BY <1>1 DEF OpToRel
<1>3. QED BY <1>2

\* The links of a list met one after another are the list.
LEMMA ChaseIs ==
  ASSUME NEW S, IsFiniteSet(S), NEW nil, nil \notin S, NEW l \in [S -> S \cup {nil}],
         NEW s \in Seq(S), \A i, j \in DOMAIN s : s[i] = s[j] => i = j,
         NEW x, x = IF s = <<>> THEN nil ELSE s[1],
         \A i \in DOMAIN s : l[s[i]] = IF i = Len(s) THEN nil ELSE s[i + 1]
  PROVE  Chase(x, l, nil) = s
<1> DEFINE N == Cardinality(DOMAIN l)
           w == Append(s, nil)
           step(p) == IF Last(p) = nil THEN p ELSE Append(p, l[Last(p)])
           body(f) == [n \in 0..N |-> IF n = 0 THEN <<x>> ELSE step(f[n - 1])]
           reach(n) == IF n < Len(w) THEN n + 1 ELSE Len(w)
           part(n) == SubSeq(w, 1, reach(n))
           g == [n \in 0..N |-> part(n)]
           chase == CHOOSE f : f = body(f)
<1>1. DOMAIN l = S /\ DOMAIN s = 1..Len(s) /\ Len(s) \in Nat
  BY LenProperties
<1>2. N \in Nat /\ Len(s) <= N
  <2>1. s \in Injection(1..Len(s), S)
    BY <1>1, LenProperties DEF Injection, IsInjective
  <2>2. Cardinality(1..Len(s)) <= Cardinality(S)
    BY <2>1, FS_Injection
  <2>3. 1 \in Int /\ Len(s) \in Int
    BY <1>1
  <2>4. Cardinality(1..Len(s)) = IF 1 > Len(s) THEN 0 ELSE Len(s) - 1 + 1
    BY <2>3, FS_Interval
  <2>5. QED BY <1>1, <2>2, <2>4, FS_CardinalityType
<1>3. /\ w \in Seq(S \cup {nil}) /\ Len(w) = Len(s) + 1 /\ w[Len(s) + 1] = nil
      /\ \A i \in 1..Len(s) : w[i] = s[i] /\ w[i] # nil
  <2>1. s \in Seq(S \cup {nil})
    BY SeqMonotonic
  <2>2. QED BY <1>1, <2>1, AppendProperties
<1> HIDE DEF w, N
<1>4. \A n \in Nat : /\ part(n) \in Seq(S \cup {nil}) /\ Len(part(n)) = reach(n)
                     /\ \A i \in 1..reach(n) : part(n)[i] = w[i]
                     /\ Last(part(n)) = w[reach(n)]
  BY <1>1, <1>3, SubSeqProperties DEF Last
<1>5. part(0) = <<x>>
  <2>1. /\ part(0) \in Seq(S \cup {nil}) /\ Len(part(0)) = 1 /\ part(0)[1] = w[1]
    BY <1>1, <1>3, <1>4
  <2>2. w[1] = x
    BY <1>1, <1>3, EmptySeq
  <2> HIDE DEF part
  <2>3. QED BY <2>1, <2>2
<1>6. ASSUME NEW n \in Nat PROVE part(n + 1) = step(part(n))
  <2> DEFINE a == part(n)
             b == part(n + 1)
  <2>1. /\ a \in Seq(S \cup {nil}) /\ Len(a) = reach(n) /\ Last(a) = w[reach(n)]
        /\ \A i \in 1..reach(n) : a[i] = w[i]
    BY <1>4
  <2>2. /\ b \in Seq(S \cup {nil}) /\ Len(b) = reach(n + 1)
        /\ \A i \in 1..reach(n + 1) : b[i] = w[i]
    BY <1>4
  <2>3. CASE n < Len(s)
    <3>1. reach(n) = n + 1 /\ reach(n + 1) = n + 2 /\ n + 1 \in DOMAIN s
      BY <1>1, <1>3, <2>3
    <3>2. Last(a) # nil /\ l[Last(a)] = w[n + 2]
      BY <1>1, <1>3, <2>1, <3>1
    <3> HIDE DEF part
    <3>3. Append(a, w[n + 2]) \in Seq(S \cup {nil}) /\ Len(Append(a, w[n + 2])) = n + 2
          /\ \A i \in 1..(n + 2) : Append(a, w[n + 2])[i] = w[i]
      BY <1>1, <1>3, <2>1, <2>2, <3>1, <3>2, AppendProperties
    <3> DEFINE e == Append(a, w[n + 2])
    <3>4. /\ e \in Seq(S \cup {nil}) /\ b \in Seq(S \cup {nil}) /\ Len(e) = Len(b)
          /\ \A i \in 1..Len(e) : e[i] = b[i]
      BY <2>2, <3>1, <3>3
    <3> HIDE DEF e, b
    <3>6. e = b
      BY ONLY <3>4, SeqEqual
    <3> USE DEF e, b
    <3>5. QED BY <3>2, <3>6 DEF step
  <2>4. CASE ~(n < Len(s))
    <3>1. reach(n) = Len(w) /\ reach(n + 1) = Len(w) /\ Last(a) = nil
      BY <1>1, <1>3, <2>1, <2>4
    <3> HIDE DEF part
    <3>2. a = b
      BY <2>1, <2>2, <3>1, SeqEqual
    <3>3. QED BY <3>1, <3>2
  <2>5. QED BY <2>3, <2>4
<1> HIDE DEF part, step
<1>7. g = body(g)
  <2>1. \A n \in 0..N : g[n] = IF n = 0 THEN <<x>> ELSE step(g[n - 1])
    <3>1. SUFFICES ASSUME NEW n \in 0..N
                   PROVE  part(n) = IF n = 0 THEN <<x>> ELSE step(g[n - 1])
      BY <1>2
    <3>2. CASE n = 0
      BY <1>5, <3>2
    <3>3. CASE n # 0
      <4>1. n - 1 \in Nat /\ n - 1 \in 0..N /\ (n - 1) + 1 = n
        BY <1>2, <3>3
      <4>2. QED BY <1>6, <3>3, <4>1
    <3>4. QED BY <3>2, <3>3
  <2>2. QED BY <2>1
<1>8. ASSUME NEW f, f = body(f)
      PROVE  f = g
  <2>1. \A n \in 0..N : f[n] = IF n = 0 THEN <<x>> ELSE step(f[n - 1])
    BY <1>8
  <2> DEFINE B == {n \in 0..N : f[n] # part(n)}
  <2>2. CASE B # {}
    <3>1. B \in SUBSET Nat
      BY <1>2
    <3>2. PICK n \in B : \A k \in B : n <= k
      BY <2>2, <3>1, LeastNat
    <3>3. n # 0 /\ n - 1 \in 0..N /\ n - 1 \in Nat /\ (n - 1) + 1 = n /\ n - 1 \notin B
      BY <1>2, <1>5, <2>1, <3>2
    <3>4. f[n - 1] = part(n - 1)
      BY <3>3
    <3>5. f[n] = part(n)
      BY <1>6, <2>1, <3>2, <3>3, <3>4
    <3>6. QED BY <3>2, <3>5
  <2>3. CASE B = {}
    BY <1>8, <2>3
  <2>4. QED BY <2>2, <2>3
<1> HIDE DEF body, g
<1>9. chase = g
  BY <1>7, <1>8
<1> USE DEF body, g
<1>10. g[N] = w /\ Last(w) = nil /\ Front(w) = s
  <2>1. reach(N) = Len(w) /\ N \in Nat /\ N \in 0..N
    BY <1>1, <1>2, <1>3
  <2>2. part(N) = w
    <3> DEFINE e == part(N)
    <3>1. /\ e \in Seq(S \cup {nil}) /\ w \in Seq(S \cup {nil}) /\ Len(e) = Len(w)
          /\ \A i \in 1..Len(e) : e[i] = w[i]
      BY <1>3, <1>4, <2>1
    <3> HIDE DEF e
    <3>2. e = w
      BY ONLY <3>1, SeqEqual
    <3>3. QED BY <3>2 DEF e
  <2>3. /\ SubSeq(w, 1, Len(w) - 1) \in Seq(S \cup {nil}) /\ Len(SubSeq(w, 1, Len(w) - 1)) = Len(s)
        /\ \A i \in 1..Len(s) : SubSeq(w, 1, Len(w) - 1)[i] = w[i]
    BY <1>1, <1>3, SubSeqProperties
  <2>4. SubSeq(w, 1, Len(w) - 1) = s
    BY <1>1, <1>3, <2>3, SeqEqual, SeqMonotonic
  <2>5. QED BY <1>3, <2>1, <2>2, <2>4 DEF Last, Front
<1>11. Chase(x, l, nil) = IF Last(chase[N]) = nil THEN Front(chase[N]) ELSE chase[N]
  BY DEF Chase, N, step
<1>12. QED BY <1>9, <1>10, <1>11

\* What stands at place i of s, or nothing.
Item(s, i, nil) == IF i \in DOMAIN s THEN s[i] ELSE nil

\* The links k are the links l with c chained into the list d between a and b.
ChainedIn(l, k, d, a, c, b, nil) ==
  /\ \A e \in DOMAIN l.head : k.head[e] = IF e = d /\ a = nil THEN c ELSE l.head[e]
  /\ \A e \in DOMAIN l.head : k.tail[e] = IF e = d /\ b = nil THEN c ELSE l.tail[e]
  /\ \A x \in DOMAIN l.next : k.next[x] = IF x = c THEN b ELSE IF x = a THEN c ELSE l.next[x]
  /\ \A x \in DOMAIN l.next : k.prev[x] = IF x = c THEN a ELSE IF x = b THEN c ELSE l.prev[x]

\* The links k are the links l with c taken out of the list d from between a and b.
ChainedOut(l, k, d, a, c, b, nil) ==
  /\ \A e \in DOMAIN l.head : k.head[e] = IF e = d /\ a = nil THEN b ELSE l.head[e]
  /\ \A e \in DOMAIN l.head : k.tail[e] = IF e = d /\ b = nil THEN a ELSE l.tail[e]
  /\ \A x \in DOMAIN l.next : k.next[x] = IF x = c THEN nil ELSE IF x = a THEN b ELSE l.next[x]
  /\ \A x \in DOMAIN l.next : k.prev[x] = IF x = c THEN nil ELSE IF x = b THEN a ELSE l.prev[x]

\* The links after c was put at place i of a list: its node is chained in between.
LEMMA InsertLinked ==
  ASSUME NEW Ids, NEW Docks, NEW nil, nil \notin Ids, NEW l, NEW k,
         NEW q \in [Docks -> Seq(Ids)], Linked(l, q, nil),
         NEW d \in Docks, NEW c \in Ids, \A e \in Docks : c \notin ToSet(q[e]),
         NEW i \in 1..(Len(q[d]) + 1),
         DOMAIN l.head = Docks, DOMAIN l.next = Ids, DOMAIN k.next = Ids,
         ChainedIn(l, k, d, Item(q[d], i - 1, nil), c, Item(q[d], i, nil), nil)
  PROVE  Linked(k, [q EXCEPT ![d] = InsertAt(@, i, c)], nil)
<1> DEFINE s == q[d]
           r == InsertAt(s, i, c)
           p == [q EXCEPT ![d] = r]
<1>0. Len(s) \in Nat /\ i \in 1..(Len(s) + 1)
  BY LenProperties
<1>j. /\ s \in Seq(Ids) /\ DOMAIN s = 1..Len(s) /\ Len(s) \in Nat
      /\ \A j \in DOMAIN s : s[j] \in Ids /\ s[j] # nil
  BY LenProperties, ElementOfSeq
<1>i. /\ Item(s, i - 1, nil) = IF i > 1 THEN s[i - 1] ELSE nil
      /\ Item(s, i, nil) = IF i <= Len(s) THEN s[i] ELSE nil
      /\ (Item(s, i - 1, nil) = nil <=> i = 1) /\ (Item(s, i, nil) = nil <=> i = Len(s) + 1)
  <2>1. (i - 1 \in 1..Len(s) <=> i > 1) /\ (i \in 1..Len(s) <=> i <= Len(s)) /\ (i > 1 <=> i # 1)
        /\ (i <= Len(s) <=> i # Len(s) + 1)
    BY ONLY <1>0
  <2>2. QED BY ONLY <1>j, <2>1 DEF Item
<1>e. nil \notin Ids /\ DOMAIN q = Docks /\ DOMAIN l.next = Ids /\ DOMAIN k.next = Ids
      /\ Linked(l, q, nil)
  OBVIOUS
<1>k. /\ \A e \in Docks : k.head[e] = IF e = d /\ i = 1 THEN c ELSE l.head[e]
      /\ \A e \in Docks : k.tail[e] = IF e = d /\ i = Len(s) + 1 THEN c ELSE l.tail[e]
      /\ \A x \in Ids : k.next[x] =
           IF x = c THEN (IF i <= Len(s) THEN s[i] ELSE nil)
           ELSE IF i > 1 /\ x = s[i - 1] THEN c ELSE l.next[x]
      /\ \A x \in Ids : k.prev[x] =
           IF x = c THEN (IF i > 1 THEN s[i - 1] ELSE nil)
           ELSE IF i <= Len(s) /\ x = s[i] THEN c ELSE l.prev[x]
  <2>1. \A e \in Docks : k.head[e] = IF e = d /\ i = 1 THEN c ELSE l.head[e]
    BY <1>0, <1>i, <1>e DEF ChainedIn
  <2>2. \A e \in Docks : k.tail[e] = IF e = d /\ i = Len(s) + 1 THEN c ELSE l.tail[e]
    BY <1>0, <1>i, <1>e DEF ChainedIn
  <2>3. \A x \in Ids : k.next[x] =
         IF x = c THEN (IF i <= Len(s) THEN s[i] ELSE nil)
         ELSE IF i > 1 /\ x = s[i - 1] THEN c ELSE l.next[x]
    BY <1>0, <1>i, <1>e DEF ChainedIn
  <2>4. \A x \in Ids : k.prev[x] =
         IF x = c THEN (IF i > 1 THEN s[i - 1] ELSE nil)
         ELSE IF i <= Len(s) /\ x = s[i] THEN c ELSE l.prev[x]
    BY <1>0, <1>i, <1>e DEF ChainedIn
  <2>5. QED BY <2>1, <2>2, <2>3, <2>4
<1> USE <1>k
<1>1. /\ s \in Seq(Ids) /\ Len(s) \in Nat /\ DOMAIN s = 1..Len(s)
      /\ \A j \in DOMAIN s : s[j] \in Ids /\ s[j] # c
      /\ \A e \in Docks : \A j \in DOMAIN q[e] : q[e][j] \in Ids /\ q[e][j] # c
      /\ \A e \in Docks : q[e] \in Seq(Ids) /\ DOMAIN q[e] = 1..Len(q[e]) /\ Len(q[e]) \in Nat
  BY LenProperties, ElementOfSeq DEF ToSet
<1>2. /\ r \in Seq(Ids) /\ Len(r) = Len(s) + 1 /\ DOMAIN r = 1..(Len(s) + 1) /\ r # <<>>
      /\ \A j \in 1..(Len(s) + 1) : r[j] = IF j < i THEN s[j] ELSE IF j = i THEN c ELSE s[j - 1]
  <2>1. /\ r \in Seq(Ids) /\ Len(r) = Len(s) + 1
        /\ \A j \in 1..(Len(s) + 1) : r[j] = IF j < i THEN s[j] ELSE IF j = i THEN c ELSE s[j - 1]
    BY <1>1, InsertAtElements
  <2> HIDE DEF r
  <2>2. QED BY <1>1, <2>1, LenProperties, EmptySeq
<1> HIDE DEF r
<1>3. DOMAIN p = Docks /\ p[d] = r /\ \A e \in Docks : e # d => p[e] = q[e]
  OBVIOUS
<1>4. /\ \A e \in Docks : l.head[e] = IF q[e] = <<>> THEN nil ELSE q[e][1]
      /\ \A e \in Docks : l.tail[e] = IF q[e] = <<>> THEN nil ELSE q[e][Len(q[e])]
      /\ \A e \in Docks : \A j \in DOMAIN q[e] :
            /\ l.next[q[e][j]] = IF j = Len(q[e]) THEN nil ELSE q[e][j + 1]
            /\ l.prev[q[e][j]] = IF j = 1 THEN nil ELSE q[e][j - 1]
      /\ \A e, f \in Docks : \A j \in DOMAIN q[e], m \in DOMAIN q[f] :
           q[e][j] = q[f][m] => e = f /\ j = m
      /\ \A x \in Ids : (\A e \in Docks : x \notin ToSet(q[e])) => l.prev[x] = nil /\ l.next[x] = nil
  BY ONLY <1>e DEF Linked
<1> HIDE DEF p
<1>5. \A e \in Docks : /\ k.head[e] = IF p[e] = <<>> THEN nil ELSE p[e][1]
                       /\ k.tail[e] = IF p[e] = <<>> THEN nil ELSE p[e][Len(p[e])]
  <2>1. SUFFICES ASSUME NEW e \in Docks
                 PROVE  /\ k.head[e] = IF p[e] = <<>> THEN nil ELSE p[e][1]
                        /\ k.tail[e] = IF p[e] = <<>> THEN nil ELSE p[e][Len(p[e])]
    OBVIOUS
  <2>2. CASE e # d
    BY <1>3, <1>4, <2>2
  <2>3. CASE e = d
    <3>1. k.head[d] = r[1]
      BY <1>1, <1>2, <1>4, EmptySeq
    <3>2. k.tail[d] = r[Len(s) + 1]
      <4>1. CASE i = Len(s) + 1
        BY <1>1, <1>2, <4>1
      <4>2. CASE i # Len(s) + 1
        <5>1. Len(s) # 0 /\ Len(s) + 1 \in 1..(Len(s) + 1) /\ ~(Len(s) + 1 < i) /\ Len(s) + 1 # i
          BY ONLY <1>0, <4>2
        <5>2. r[Len(s) + 1] = s[Len(s)] /\ l.tail[d] = s[Len(s)]
          BY <1>1, <1>2, <1>4, <5>1, EmptySeq
        <5>3. QED BY <4>2, <5>2
      <4>3. QED BY <4>1, <4>2
    <3>3. QED BY <1>2, <1>3, <2>3, <3>1, <3>2
  <2>4. QED BY <2>2, <2>3
<1>6. \A e \in Docks : \A j \in DOMAIN p[e] :
        /\ k.next[p[e][j]] = IF j = Len(p[e]) THEN nil ELSE p[e][j + 1]
        /\ k.prev[p[e][j]] = IF j = 1 THEN nil ELSE p[e][j - 1]
  <2>1. SUFFICES ASSUME NEW e \in Docks, NEW j \in DOMAIN p[e]
                 PROVE  /\ k.next[p[e][j]] = IF j = Len(p[e]) THEN nil ELSE p[e][j + 1]
                        /\ k.prev[p[e][j]] = IF j = 1 THEN nil ELSE p[e][j - 1]
    OBVIOUS
  <2>2. CASE e # d
    <3>1. p[e] = q[e] /\ q[e][j] \in Ids /\ q[e][j] # c /\ \A m \in DOMAIN s : q[e][j] # s[m]
      BY <1>1, <1>3, <1>4, <2>2
    <3>2. k.next[q[e][j]] = l.next[q[e][j]] /\ k.prev[q[e][j]] = l.prev[q[e][j]]
      BY <1>1, <3>1
    <3>3. QED BY <1>4, <3>1, <3>2
  <2>3. CASE e = d
    <3>1. p[e] = r /\ j \in 1..(Len(s) + 1)
      BY <1>2, <1>3, <2>3
    <3>0. /\ \A m \in DOMAIN s : l.next[s[m]] = IF m = Len(s) THEN nil ELSE s[m + 1]
          /\ \A m \in DOMAIN s : l.prev[s[m]] = IF m = 1 THEN nil ELSE s[m - 1]
          /\ \A m, o \in DOMAIN s : s[m] = s[o] => m = o
      BY <1>4
    <3>2. k.next[r[j]] = IF j = Len(s) + 1 THEN nil ELSE r[j + 1]
      <4>1. CASE j = i
        BY <1>1, <1>2, <3>1, <4>1
      <4>2. CASE j < i
        <5>1. r[j] = s[j] /\ j \in DOMAIN s
          BY <1>1, <1>2, <3>1, <4>2
        <5>2. CASE j = i - 1
          BY <1>1, <1>2, <3>1, <4>2, <5>1, <5>2
        <5>3. CASE j # i - 1
          <6>5. i > 1 /\ i - 1 \in 1..Len(s) /\ j + 1 \in 1..(Len(s) + 1) /\ j + 1 < i /\ j # Len(s)
            BY ONLY <1>0, <3>1, <4>2, <5>3
          <6>0. i > 1 /\ i - 1 \in DOMAIN s /\ j + 1 \in 1..(Len(s) + 1) /\ j + 1 < i /\ j # Len(s)
            BY <1>1, <6>5
          <6>1. s[j] # s[i - 1]
            BY <3>0, <5>1, <5>3, <6>0
          <6>2. k.next[s[j]] = l.next[s[j]]
            BY <1>1, <5>1, <6>1
          <6>3. r[j + 1] = s[j + 1] /\ j # Len(s) + 1
            BY <1>1, <1>2, <4>2, <6>0
          <6>4. QED BY <3>0, <5>1, <6>0, <6>2, <6>3
        <5>4. QED BY <5>2, <5>3
      <4>3. CASE j > i
        <5>1. r[j] = s[j - 1] /\ j - 1 \in DOMAIN s
          BY <1>1, <1>2, <3>1, <4>3
        <5>2. i > 1 => s[j - 1] # s[i - 1]
          <6>1. SUFFICES ASSUME i > 1, s[j - 1] = s[i - 1] PROVE FALSE
            OBVIOUS
          <6>2. i - 1 \in 1..Len(s) /\ j - 1 # i - 1
            BY ONLY <1>0, <3>1, <4>3, <6>1
          <6>3. QED BY <1>1, <3>0, <5>1, <6>1, <6>2
        <5>3. k.next[s[j - 1]] = l.next[s[j - 1]]
          <6> DEFINE x == s[j - 1]
          <6>1. x \in Ids /\ x # c /\ ~(i > 1 /\ x = s[i - 1])
            BY <1>1, <5>1, <5>2
          <6> HIDE DEF x
          <6>2. k.next[x] = l.next[x]
            BY <6>1
          <6>3. QED BY <6>2 DEF x
        <5>4. j # Len(s) + 1 => r[j + 1] = s[j - 1 + 1]
          BY <1>1, <1>2, <3>1, <4>3
        <5>5. j - 1 = Len(s) <=> j = Len(s) + 1
          BY <1>1, <1>2, <3>1
        <5>6. QED BY <3>0, <5>1, <5>3, <5>4, <5>5
      <4>4. QED BY <1>1, <3>1, <4>1, <4>2, <4>3
    <3>3. k.prev[r[j]] = IF j = 1 THEN nil ELSE r[j - 1]
      <4>1. CASE j = i
        BY <1>1, <1>2, <3>1, <4>1
      <4>2. CASE j < i
        <5>1. r[j] = s[j] /\ j \in DOMAIN s
          BY <1>1, <1>2, <3>1, <4>2
        <5>2. i <= Len(s) => s[j] # s[i]
          BY <1>1, <3>0, <4>2, <5>1
        <5>3. k.prev[s[j]] = l.prev[s[j]]
          BY <1>1, <5>1, <5>2
        <5>4. j # 1 => r[j - 1] = s[j - 1]
          BY <1>1, <1>2, <3>1, <4>2
        <5>5. QED BY <3>0, <5>1, <5>3, <5>4
      <4>3. CASE j > i
        <5>1. r[j] = s[j - 1] /\ j - 1 \in DOMAIN s /\ j # 1
          BY <1>1, <1>2, <3>1, <4>3
        <5>2. CASE j - 1 = i
          BY <1>1, <1>2, <3>1, <4>3, <5>1, <5>2
        <5>3. CASE j - 1 # i
          <6>1. i <= Len(s) => s[j - 1] # s[i]
            BY <1>1, <3>0, <4>3, <5>1, <5>3
          <6>2. k.prev[s[j - 1]] = l.prev[s[j - 1]]
            BY <1>1, <5>1, <6>1
          <6>3. j - 1 # 1 /\ r[j - 1] = s[j - 1 - 1]
            BY <1>1, <1>2, <3>1, <4>3, <5>3
          <6>4. QED BY <3>0, <5>1, <6>2, <6>3
        <5>4. QED BY <5>2, <5>3
      <4>4. QED BY <1>1, <3>1, <4>1, <4>2, <4>3
    <3>4. QED BY <1>2, <3>1, <3>2, <3>3
  <2>4. QED BY <2>2, <2>3
<1>7. \A e, f \in Docks : \A j \in DOMAIN p[e], m \in DOMAIN p[f] :
        p[e][j] = p[f][m] => e = f /\ j = m
  <2>1. ASSUME NEW j \in DOMAIN r, NEW m \in DOMAIN r, r[j] = r[m]
        PROVE  j = m
    <3> DEFINE at(o) == IF o < i THEN o ELSE o - 1
    <3>1. \A o \in DOMAIN r : o # i => at(o) \in DOMAIN s /\ r[o] = s[at(o)]
      BY <1>1, <1>2
    <3>2. \A o, e \in DOMAIN r : o # i /\ e # i /\ at(o) = at(e) => o = e
      BY <1>1, <1>2
    <3>3. \A o, e \in DOMAIN s : s[o] = s[e] => o = e
      BY <1>4
    <3>4. r[i] = c
      BY <1>1, <1>2
    <3> HIDE DEF at
    <3>5. QED BY <1>1, <2>1, <3>1, <3>2, <3>3, <3>4
  <2>2. \A e \in Docks : e # d => \A j \in DOMAIN q[e], m \in DOMAIN r : q[e][j] # r[m]
    BY <1>1, <1>2, <1>4
  <2>3. QED BY <1>3, <1>4, <2>1, <2>2
<1>8. \A x \in Ids : (\A e \in Docks : x \notin ToSet(p[e])) => k.prev[x] = nil /\ k.next[x] = nil
  <2>1. SUFFICES ASSUME NEW x \in Ids, \A e \in Docks : x \notin ToSet(p[e])
                 PROVE  k.prev[x] = nil /\ k.next[x] = nil
    OBVIOUS
  <2>2. x # c /\ \A j \in DOMAIN s : s[j] # x
    <3>1. c = r[i] /\ i \in DOMAIN r
      BY <1>1, <1>2
    <3>2. \A j \in DOMAIN s : s[j] = IF j < i THEN r[j] ELSE r[j + 1]
      BY <1>1, <1>2
    <3>3. \A j \in DOMAIN s : IF j < i THEN j \in DOMAIN r ELSE j + 1 \in DOMAIN r
      BY <1>1, <1>2
    <3>4. \A j \in DOMAIN r : r[j] # x
      BY <1>3, <2>1 DEF ToSet
    <3>5. QED BY <3>1, <3>2, <3>3, <3>4
  <2>3. \A e \in Docks : x \notin ToSet(q[e])
    BY <1>3, <2>1, <2>2 DEF ToSet
  <2>4. l.prev[x] = nil /\ l.next[x] = nil
    BY <1>4, <2>3
  <2>5. QED BY <1>1, <2>2, <2>4
<1>9. Linked(k, p, nil)
  BY ONLY <1>e, <1>3, <1>5, <1>6, <1>7, <1>8 DEF Linked
<1>10. QED BY <1>9 DEF p, r

\* The links after the context at place i left a list: its neighbours are chained and its
\* node is clean.
LEMMA RemoveLinked ==
  ASSUME NEW Ids, NEW Docks, NEW nil, nil \notin Ids, NEW l, NEW k,
         NEW q \in [Docks -> Seq(Ids)], Linked(l, q, nil),
         NEW d \in Docks, NEW i \in 1..Len(q[d]),
         DOMAIN l.head = Docks, DOMAIN l.next = Ids, DOMAIN k.next = Ids,
         ChainedOut(l, k, d, Item(q[d], i - 1, nil), q[d][i], Item(q[d], i + 1, nil), nil)
  PROVE  Linked(k, [q EXCEPT ![d] = RemoveAt(@, i)], nil)
<1> DEFINE s == q[d]
           r == RemoveAt(s, i)
           p == [q EXCEPT ![d] = r]
           c == s[i]
<1>0. Len(s) \in Nat /\ i \in 1..Len(s)
  BY LenProperties
<1>j. /\ s \in Seq(Ids) /\ DOMAIN s = 1..Len(s) /\ Len(s) \in Nat
      /\ \A j \in DOMAIN s : s[j] \in Ids /\ s[j] # nil
  BY LenProperties, ElementOfSeq
<1>i. /\ Item(s, i - 1, nil) = IF i > 1 THEN s[i - 1] ELSE nil
      /\ Item(s, i + 1, nil) = IF i < Len(s) THEN s[i + 1] ELSE nil
      /\ (Item(s, i - 1, nil) = nil <=> i = 1) /\ (Item(s, i + 1, nil) = nil <=> i = Len(s))
  <2>1. (i - 1 \in 1..Len(s) <=> i > 1) /\ (i + 1 \in 1..Len(s) <=> i < Len(s)) /\ (i > 1 <=> i # 1)
        /\ (i < Len(s) <=> i # Len(s))
    BY ONLY <1>0
  <2>2. QED BY ONLY <1>j, <2>1 DEF Item
<1>h. (i = 1 => Item(s, i + 1, nil) = IF Len(s) = 1 THEN nil ELSE s[2])
      /\ (i = Len(s) => Item(s, i - 1, nil) = IF Len(s) = 1 THEN nil ELSE s[Len(s) - 1])
  <2>1. CASE i = 1
    <3>0. \A n \in Nat : \A m \in 1..n :
             m = 1 => (m < n <=> n # 1) /\ m + 1 = 2 /\ (m = n <=> n = 1)
      OBVIOUS
    <3>1. (i < Len(s) <=> Len(s) # 1) /\ i + 1 = 2 /\ (i = Len(s) <=> Len(s) = 1)
      BY ONLY <1>0, <2>1, <3>0, Zenon
    <3>2. Item(s, i + 1, nil) = IF Len(s) = 1 THEN nil ELSE s[i + 1]
      BY ONLY <1>i, <3>1
    <3>3. s[i + 1] = s[2]
      BY ONLY <3>1
    <3>4. Item(s, i - 1, nil) = nil
      BY ONLY <1>i, <2>1
    <3>5. QED BY ONLY <3>1, <3>2, <3>3, <3>4
  <2>2. CASE i = Len(s)
    <3>1. (i > 1 <=> Len(s) # 1) /\ (i = 1 <=> Len(s) = 1)
      BY ONLY <1>0, <2>2
    <3>2. QED BY ONLY <1>i, <2>2, <3>1
  <2>3. QED BY <2>1, <2>2
<1>e. nil \notin Ids /\ DOMAIN q = Docks /\ DOMAIN l.next = Ids /\ DOMAIN k.next = Ids
      /\ Linked(l, q, nil)
  OBVIOUS
<1>k. /\ \A e \in Docks : k.head[e] =
           IF e = d /\ i = 1 THEN (IF Len(s) = 1 THEN nil ELSE s[2]) ELSE l.head[e]
      /\ \A e \in Docks : k.tail[e] =
           IF e = d /\ i = Len(s) THEN (IF Len(s) = 1 THEN nil ELSE s[Len(s) - 1])
           ELSE l.tail[e]
      /\ \A x \in Ids : k.next[x] =
           IF x = s[i] THEN nil
           ELSE IF i > 1 /\ x = s[i - 1] THEN (IF i < Len(s) THEN s[i + 1] ELSE nil)
           ELSE l.next[x]
      /\ \A x \in Ids : k.prev[x] =
           IF x = s[i] THEN nil
           ELSE IF i < Len(s) /\ x = s[i + 1] THEN (IF i > 1 THEN s[i - 1] ELSE nil)
           ELSE l.prev[x]
  <2>1. \A e \in Docks : k.head[e] =
         IF e = d /\ i = 1 THEN (IF Len(s) = 1 THEN nil ELSE s[2]) ELSE l.head[e]
    BY <1>0, <1>i, <1>h, <1>e DEF ChainedOut
  <2>2. \A e \in Docks : k.tail[e] =
         IF e = d /\ i = Len(s) THEN (IF Len(s) = 1 THEN nil ELSE s[Len(s) - 1])
         ELSE l.tail[e]
    BY <1>0, <1>i, <1>h, <1>e DEF ChainedOut
  <2>3. \A x \in Ids : k.next[x] =
         IF x = s[i] THEN nil
         ELSE IF i > 1 /\ x = s[i - 1] THEN (IF i < Len(s) THEN s[i + 1] ELSE nil)
         ELSE l.next[x]
    BY <1>0, <1>i, <1>h, <1>e DEF ChainedOut
  <2>4. \A x \in Ids : k.prev[x] =
         IF x = s[i] THEN nil
         ELSE IF i < Len(s) /\ x = s[i + 1] THEN (IF i > 1 THEN s[i - 1] ELSE nil)
         ELSE l.prev[x]
    BY <1>0, <1>i, <1>h, <1>e DEF ChainedOut
  <2>5. QED BY <2>1, <2>2, <2>3, <2>4
<1> USE <1>k
<1>1. /\ s \in Seq(Ids) /\ DOMAIN s = 1..Len(s) /\ i \in DOMAIN s /\ c \in Ids
      /\ \A j \in DOMAIN s : s[j] \in Ids
      /\ \A e \in Docks : \A j \in DOMAIN q[e] : q[e][j] \in Ids
      /\ \A e \in Docks : q[e] \in Seq(Ids) /\ DOMAIN q[e] = 1..Len(q[e]) /\ Len(q[e]) \in Nat
  BY LenProperties, ElementOfSeq
<1>a. s \in Seq(Ids)
  OBVIOUS
<1>2. /\ r \in Seq(Ids) /\ Len(r) = Len(s) - 1 /\ DOMAIN r = 1..(Len(s) - 1)
      /\ r = <<>> <=> Len(s) = 1
      /\ \A j \in 1..(Len(s) - 1) : r[j] = IF j < i THEN s[j] ELSE s[j + 1]
  <2>1. /\ r \in Seq(Ids) /\ Len(r) = Len(s) - 1
        /\ \A j \in 1..(Len(s) - 1) : r[j] = IF j < i THEN s[j] ELSE s[j + 1]
    BY ONLY <1>0, <1>a, RemoveAtElements
  <2> HIDE DEF r
  <2>2. DOMAIN r = 1..Len(r) /\ (r = <<>> <=> Len(r) = 0)
    BY <2>1, LenProperties, EmptySeq
  <2>3. Len(r) = 0 <=> Len(s) = 1
    BY ONLY <1>0, <2>1
  <2>4. DOMAIN r = 1..(Len(s) - 1) /\ (r = <<>> <=> Len(s) = 1)
    BY ONLY <2>1, <2>2, <2>3
  <2>5. QED BY <2>1, <2>4
<1> HIDE DEF r
<1>3. DOMAIN p = Docks /\ p[d] = r /\ \A e \in Docks : e # d => p[e] = q[e]
  OBVIOUS
<1>4. /\ \A e \in Docks : l.head[e] = IF q[e] = <<>> THEN nil ELSE q[e][1]
      /\ \A e \in Docks : l.tail[e] = IF q[e] = <<>> THEN nil ELSE q[e][Len(q[e])]
      /\ \A e \in Docks : \A j \in DOMAIN q[e] :
            /\ l.next[q[e][j]] = IF j = Len(q[e]) THEN nil ELSE q[e][j + 1]
            /\ l.prev[q[e][j]] = IF j = 1 THEN nil ELSE q[e][j - 1]
      /\ \A e, f \in Docks : \A j \in DOMAIN q[e], m \in DOMAIN q[f] :
           q[e][j] = q[f][m] => e = f /\ j = m
      /\ \A x \in Ids : (\A e \in Docks : x \notin ToSet(q[e])) => l.prev[x] = nil /\ l.next[x] = nil
  BY ONLY <1>e DEF Linked
<1>c. s # <<>> /\ (i > 1 => i - 1 \in DOMAIN s) /\ (i < Len(s) => i + 1 \in DOMAIN s)
  BY <1>0, <1>1, EmptySeq
<1> HIDE DEF p
<1>5. \A e \in Docks : /\ k.head[e] = IF p[e] = <<>> THEN nil ELSE p[e][1]
                       /\ k.tail[e] = IF p[e] = <<>> THEN nil ELSE p[e][Len(p[e])]
  <2>1. SUFFICES ASSUME NEW e \in Docks
                 PROVE  /\ k.head[e] = IF p[e] = <<>> THEN nil ELSE p[e][1]
                        /\ k.tail[e] = IF p[e] = <<>> THEN nil ELSE p[e][Len(p[e])]
    OBVIOUS
  <2>2. CASE e # d
    BY <1>3, <1>4, <2>2
  <2>3. CASE e = d
    <3>1. k.head[d] = IF r = <<>> THEN nil ELSE r[1]
      <4>1. CASE Len(s) = 1
        BY <1>0, <1>2, <4>1
      <4>2. CASE Len(s) # 1
        <5>1. r # <<>> /\ r[1] = IF 1 < i THEN s[1] ELSE s[2]
          BY <1>0, <1>2, <4>2
        <5>2. l.head[d] = s[1]
          BY <1>4, <1>c
        <5>3. QED BY <1>0, <4>2, <5>1, <5>2
      <4>3. QED BY <4>1, <4>2
    <3>2. k.tail[d] = IF r = <<>> THEN nil ELSE r[Len(r)]
      <4>1. CASE Len(s) = 1
        BY <1>0, <1>2, <4>1
      <4>2. CASE Len(s) # 1
        <5>1. r # <<>> /\ r[Len(r)] = IF Len(s) - 1 < i THEN s[Len(s) - 1] ELSE s[Len(s)]
          BY <1>0, <1>2, <4>2
        <5>2. l.tail[d] = s[Len(s)]
          BY <1>4, <1>c
        <5>3. QED BY <1>0, <4>2, <5>1, <5>2
      <4>3. QED BY <4>1, <4>2
    <3>3. QED BY <1>3, <2>3, <3>1, <3>2
  <2>4. QED BY <2>2, <2>3
<1>6. \A e \in Docks : \A j \in DOMAIN p[e] :
        /\ k.next[p[e][j]] = IF j = Len(p[e]) THEN nil ELSE p[e][j + 1]
        /\ k.prev[p[e][j]] = IF j = 1 THEN nil ELSE p[e][j - 1]
  <2>1. SUFFICES ASSUME NEW e \in Docks, NEW j \in DOMAIN p[e]
                 PROVE  /\ k.next[p[e][j]] = IF j = Len(p[e]) THEN nil ELSE p[e][j + 1]
                        /\ k.prev[p[e][j]] = IF j = 1 THEN nil ELSE p[e][j - 1]
    OBVIOUS
  <2>2. CASE e # d
    <3>1. p[e] = q[e] /\ q[e][j] \in Ids /\ \A m \in DOMAIN s : q[e][j] # s[m]
      BY <1>1, <1>3, <1>4, <2>2
    <3>2. k.next[q[e][j]] = l.next[q[e][j]] /\ k.prev[q[e][j]] = l.prev[q[e][j]]
      BY <1>1, <1>c, <3>1
    <3>3. QED BY <1>4, <3>1, <3>2
  <2>3. CASE e = d
    <3>1. p[e] = r /\ j \in 1..(Len(s) - 1)
      BY <1>2, <1>3, <2>3
    <3>0. /\ \A m \in DOMAIN s : l.next[s[m]] = IF m = Len(s) THEN nil ELSE s[m + 1]
          /\ \A m \in DOMAIN s : l.prev[s[m]] = IF m = 1 THEN nil ELSE s[m - 1]
          /\ \A m, o \in DOMAIN s : s[m] = s[o] => m = o
      BY <1>4
    <3> DEFINE m == IF j < i THEN j ELSE j + 1
               x == s[m]
    <3>2. m \in DOMAIN s /\ m # i /\ x \in Ids /\ x # c /\ r[j] = x
      BY <1>0, <1>1, <1>2, <3>0, <3>1
    <3>3. /\ l.next[x] = IF m = Len(s) THEN nil ELSE s[m + 1]
          /\ l.prev[x] = IF m = 1 THEN nil ELSE s[m - 1]
      BY <3>0, <3>2
    <3>4. /\ i > 1 /\ x = s[i - 1] <=> j = i - 1
          /\ i < Len(s) /\ x = s[i + 1] <=> j = i
      <4>1. i > 1 /\ x = s[i - 1] <=> i > 1 /\ m = i - 1
        BY <1>c, <3>0, <3>2
      <4>2. i < Len(s) /\ x = s[i + 1] <=> i < Len(s) /\ m = i + 1
        BY <1>c, <3>0, <3>2
      <4>3. /\ i > 1 /\ m = i - 1 <=> j = i - 1
            /\ i < Len(s) /\ m = i + 1 <=> j = i
        BY <1>0, <3>1
      <4>4. QED BY <4>1, <4>2, <4>3
    <3>5. /\ k.next[x] = IF j = i - 1 THEN (IF i < Len(s) THEN s[i + 1] ELSE nil) ELSE l.next[x]
          /\ k.prev[x] = IF j = i THEN (IF i > 1 THEN s[i - 1] ELSE nil) ELSE l.prev[x]
      <4> HIDE DEF x
      <4>1. QED BY <3>2, <3>4
    <3>6. k.next[r[j]] = IF j = Len(s) - 1 THEN nil ELSE r[j + 1]
      <4>1. k.next[x] = IF j = Len(s) - 1 THEN nil ELSE r[j + 1]
        <5> HIDE DEF x
        <5>1. j # Len(s) - 1 => r[j + 1] = IF j + 1 < i THEN s[j + 1] ELSE s[j + 1 + 1]
          BY <1>0, <1>2, <3>1
        <5>2. CASE j = i - 1
          BY ONLY <1>0, <3>1, <3>5, <5>1, <5>2
        <5>3. CASE j # i - 1
          BY ONLY <1>0, <3>1, <3>3, <3>5, <5>1, <5>3
        <5>4. QED BY <5>2, <5>3
      <4>2. QED BY <3>2, <4>1
    <3>7. k.prev[r[j]] = IF j = 1 THEN nil ELSE r[j - 1]
      <4>1. k.prev[x] = IF j = 1 THEN nil ELSE r[j - 1]
        <5> HIDE DEF x
        <5>1. j # 1 => r[j - 1] = IF j - 1 < i THEN s[j - 1] ELSE s[j - 1 + 1]
          BY <1>0, <1>2, <3>1
        <5>2. CASE j = i
          BY <1>0, <3>1, <3>5, <5>1, <5>2
        <5>3. CASE j # i
          BY <1>0, <3>1, <3>3, <3>5, <5>1, <5>3
        <5>4. QED BY <5>2, <5>3
      <4>2. QED BY <3>2, <4>1
    <3>8. QED BY <1>2, <3>1, <3>6, <3>7
  <2>4. QED BY <2>2, <2>3
<1>7. \A e, f \in Docks : \A j \in DOMAIN p[e], m \in DOMAIN p[f] :
        p[e][j] = p[f][m] => e = f /\ j = m
  <2> DEFINE at(o) == IF o < i THEN o ELSE o + 1
  <2>0. /\ \A o \in DOMAIN r : at(o) \in DOMAIN s /\ r[o] = s[at(o)]
        /\ \A o, e \in DOMAIN r : at(o) = at(e) => o = e
    BY <1>0, <1>1, <1>2
  <2> HIDE DEF at
  <2>1. \A j, m \in DOMAIN r : r[j] = r[m] => j = m
    BY <1>4, <2>0
  <2>2. \A e \in Docks : e # d => \A j \in DOMAIN q[e], m \in DOMAIN r : q[e][j] # r[m]
    BY <1>4, <2>0
  <2>3. \A e, f \in Docks : \A j \in DOMAIN q[e], m \in DOMAIN q[f] :
          q[e][j] = q[f][m] => e = f /\ j = m
    BY <1>4
  <2>4. ASSUME NEW e \in Docks, NEW f \in Docks, NEW j \in DOMAIN p[e], NEW m \in DOMAIN p[f],
               p[e][j] = p[f][m]
        PROVE  e = f /\ j = m
    <3>1. CASE e = d /\ f = d
      BY <1>3, <2>1, <2>4, <3>1
    <3>2. CASE e = d /\ f # d
      BY <1>3, <2>2, <2>4, <3>2
    <3>3. CASE e # d /\ f = d
      BY <1>3, <2>2, <2>4, <3>3
    <3>4. CASE e # d /\ f # d
      BY <1>3, <2>3, <2>4, <3>4
    <3>5. QED BY <3>1, <3>2, <3>3, <3>4
  <2>5. QED BY ONLY <2>4
<1>8. \A x \in Ids : (\A e \in Docks : x \notin ToSet(p[e])) => k.prev[x] = nil /\ k.next[x] = nil
  <2>1. SUFFICES ASSUME NEW x \in Ids, \A e \in Docks : x \notin ToSet(p[e])
                 PROVE  k.prev[x] = nil /\ k.next[x] = nil
    OBVIOUS
  <2>2. CASE x = c
    BY <2>2
  <2>3. CASE x # c
    <3>1. \A j \in DOMAIN s : s[j] # x
      <4>1. \A j \in DOMAIN s : j # i => IF j < i THEN j \in DOMAIN r /\ s[j] = r[j]
                                         ELSE j - 1 \in DOMAIN r /\ s[j] = r[j - 1]
        BY <1>0, <1>1, <1>2
      <4>2. \A j \in DOMAIN r : r[j] # x
        BY <1>3, <2>1 DEF ToSet
      <4>3. QED BY <2>3, <4>1, <4>2
    <3>2. \A e \in Docks : x \notin ToSet(q[e])
      BY <1>3, <2>1, <3>1 DEF ToSet
    <3>3. l.prev[x] = nil /\ l.next[x] = nil
      BY <1>4, <3>2
    <3>4. QED BY <1>1, <1>c, <2>3, <3>1, <3>3
  <2>4. QED BY <2>2, <2>3
<1>9. Linked(k, p, nil)
  BY ONLY <1>e, <1>3, <1>5, <1>6, <1>7, <1>8 DEF Linked
<1>10. QED BY <1>9 DEF p, r
=============================================================================
