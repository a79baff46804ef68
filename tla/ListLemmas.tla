----------------------------- MODULE ListLemmas ------------------------------
(***************************************************************************)
(* Lists without repetitions, and what inserting and removing an element   *)
(* does to the set of their elements: facts about the operators of         *)
(* SequencesExt with which the lists of clients are changed.  And          *)
(* induction, over sets: the least of some finite sets, induction over the *)
(* natural numbers, the least and the greatest number, and what is computed *)
(* step by step.                                                           *)
(***************************************************************************)
EXTENDS Integers, SequencesExt, SequenceTheorems, FiniteSetTheorems, WellFoundedInduction, TLAPS

Distinct(s) == \A i, j \in 1..Len(s) : s[i] = s[j] => i = j

\* What RemoveAt leaves: the elements after p move down by one.
LEMMA RemoveAtElements ==
  ASSUME NEW S, NEW s \in Seq(S), NEW p \in 1..Len(s)
  PROVE  /\ RemoveAt(s, p) \in Seq(S)
         /\ Len(RemoveAt(s, p)) = Len(s) - 1
         /\ \A i \in 1..(Len(s) - 1) :
              RemoveAt(s, p)[i] = IF i < p THEN s[i] ELSE s[i + 1]
<1> DEFINE a == SubSeq(s, 1, p - 1)
           b == SubSeq(s, p + 1, Len(s))
<1>1. \A i \in 1..Len(s) : s[i] \in S
  BY ElementOfSeq
<1>2. /\ a \in Seq(S) /\ Len(a) = p - 1
      /\ \A i \in 1..(p - 1) : a[i] = s[i]
  BY <1>1, SubSeqProperties, LenProperties
<1>3. /\ b \in Seq(S) /\ Len(b) = Len(s) - p
      /\ \A i \in 1..(Len(s) - p) : b[i] = s[p + i]
  BY <1>1, SubSeqProperties, LenProperties
<1>4. RemoveAt(s, p) = a \o b
  BY DEF RemoveAt
<1>5. Len(s) \in Nat /\ p \in Nat /\ p >= 1 /\ p <= Len(s)
  BY LenProperties
<1> HIDE DEF a, b
<1>6. /\ a \o b \in Seq(S) /\ Len(a \o b) = Len(a) + Len(b)
      /\ \A i \in 1..(Len(a) + Len(b)) :
           (a \o b)[i] = IF i <= Len(a) THEN a[i] ELSE b[i - Len(a)]
  BY <1>2, <1>3, ConcatProperties
<1>7. ASSUME NEW i \in 1..(Len(s) - 1)
      PROVE  (a \o b)[i] = IF i < p THEN s[i] ELSE s[i + 1]
  <2>1. CASE i < p
    BY <2>1, <1>2, <1>3, <1>5, <1>6
  <2>2. CASE ~(i < p)
    <3>1. i \in Nat /\ i - (p - 1) \in 1..(Len(s) - p) /\ p + (i - (p - 1)) = i + 1
      BY <2>2, <1>5
    <3>2. (a \o b)[i] = b[i - (p - 1)]
      BY <2>2, <3>1, <1>2, <1>3, <1>5, <1>6, SMTT(20)
    <3>3. b[i - (p - 1)] = s[i + 1]
      BY <3>1, <1>3
    <3> QED
      BY <2>2, <3>1, <3>2, <3>3, <1>5
  <2> QED
    BY <2>1, <2>2
<1> QED
  BY <1>2, <1>3, <1>4, <1>5, <1>6, <1>7

\* Taking a client off a list removes that client and no other.
LEMMA RemoveAtMembers ==
  ASSUME NEW S, NEW s \in Seq(S), NEW p \in 1..Len(s), Distinct(s)
  PROVE  /\ ToSet(RemoveAt(s, p)) = ToSet(s) \ {s[p]}
         /\ Distinct(RemoveAt(s, p))
<1> DEFINE r == RemoveAt(s, p)
<1>1. /\ r \in Seq(S) /\ Len(r) = Len(s) - 1 
      /\ \A i \in 1..(Len(s) - 1) : r[i] = IF i < p THEN s[i] ELSE s[i + 1]
  BY RemoveAtElements
<1>2. /\ Len(s) \in Nat /\ p \in Nat /\ p >= 1 /\ p <= Len(s)
      /\ DOMAIN s = 1..Len(s) /\ DOMAIN r = 1..Len(r)
  BY <1>1, LenProperties
<1> HIDE DEF r
<1>3. ASSUME NEW i \in 1..Len(r)
      PROVE  r[i] \in ToSet(s) \ {s[p]}
  <2>1. PICK j \in 1..Len(s) : j # p /\ r[i] = s[j]
    <3>1. CASE i < p
      BY <3>1, <1>1, <1>2
    <3>2. CASE i >= p
      BY <3>2, <1>1, <1>2
    <3> QED
      BY <3>1, <3>2, <1>1, <1>2
  <2> QED
    BY <2>1, <1>2 DEF ToSet, Distinct
<1>4. ASSUME NEW i \in 1..Len(s), i # p
      PROVE  s[i] \in ToSet(r)
  <2>1. CASE i < p
    BY <2>1, <1>1, <1>2 DEF ToSet
  <2>2. CASE i > p
    <3>1. i - 1 \in 1..Len(r) /\ r[i - 1] = s[i]
      BY <2>2, <1>1, <1>2
    <3> QED
      BY <3>1, <1>2 DEF ToSet
  <2> QED
    BY <2>1, <2>2, <1>2, <1>4
<1>5. Distinct(r)
  BY <1>1, <1>2 DEF Distinct
<1>6. ToSet(r) = ToSet(s) \ {s[p]}
  BY <1>2, <1>3, <1>4 DEF ToSet
<1> QED
  BY <1>5, <1>6 DEF r

\* Cons puts an element in front, the others move up by one.
LEMMA ConsElements ==
  ASSUME NEW S, NEW s \in Seq(S), NEW e \in S
  PROVE  /\ Cons(e, s) \in Seq(S)
         /\ Len(Cons(e, s)) = Len(s) + 1
         /\ Cons(e, s)[1] = e
         /\ \A i \in 1..Len(s) : Cons(e, s)[i + 1] = s[i]
         /\ \A i \in 2..(Len(s) + 1) : Cons(e, s)[i] = s[i - 1]
<1>1. <<e>> \in Seq(S) /\ Len(<<e>>) = 1 /\ <<e>>[1] = e /\ Len(s) \in Nat
  BY LenProperties
<1>2. /\ <<e>> \o s \in Seq(S) /\ Len(<<e>> \o s) = 1 + Len(s)
      /\ \A i \in 1..(1 + Len(s)) :
           (<<e>> \o s)[i] = IF i <= 1 THEN <<e>>[i] ELSE s[i - 1]
  BY <1>1, ConcatProperties
<1> QED
  BY <1>1, <1>2 DEF Cons

\* Putting a client on a list adds that client and no other.
LEMMA ConsMembers ==
  ASSUME NEW S, NEW s \in Seq(S), NEW e \in S
  PROVE  /\ ToSet(Cons(e, s)) = ToSet(s) \cup {e}
         /\ (Distinct(s) /\ e \notin ToSet(s)) => Distinct(Cons(e, s))
<1> DEFINE r == Cons(e, s)
<1>1. /\ r \in Seq(S)
      /\ Len(r) = Len(s) + 1
      /\ r[1] = e
      /\ \A i \in 1..Len(s) : r[i + 1] = s[i]
      /\ \A i \in 2..(Len(s) + 1) : r[i] = s[i - 1]
  <2>1. r \in Seq(S)
    BY ConsElements
  <2>2. Len(r) = Len(s) + 1
    BY ConsElements
  <2>3. r[1] = e
    BY ConsElements
  <2>4. \A i \in 1..Len(s) : r[i + 1] = s[i]
    BY ConsElements
  <2>5. \A i \in 2..(Len(s) + 1) : r[i] = s[i - 1]
    BY ConsElements
  <2> QED
    BY <2>1, <2>2, <2>3, <2>4, <2>5
<1> HIDE DEF r
<1>2. Len(s) \in Nat /\ DOMAIN s = 1..Len(s) /\ DOMAIN r = 1..Len(r)
  BY <1>1, LenProperties
<1>3. ASSUME NEW i \in 1..Len(r)
      PROVE  r[i] \in ToSet(s) \cup {e}
  <2>1. CASE i = 1
    BY <2>1, <1>1
  <2>2. CASE i # 1
    <3>1. i - 1 \in 1..Len(s) /\ r[i] = s[i - 1]
      BY <2>2, <1>1, <1>2
    <3> QED
      BY <3>1, <1>2 DEF ToSet
  <2> QED
    BY <2>1, <2>2
<1>4. \A i \in 1..Len(s) : s[i] \in ToSet(r)
  <2> TAKE i \in 1..Len(s)
  <2>1. i + 1 \in 1..Len(r) /\ r[i + 1] = s[i]
    BY <1>1, <1>2
  <2> QED
    BY <2>1, <1>2 DEF ToSet
<1>5. e \in ToSet(r)
  BY <1>1, <1>2 DEF ToSet
<1>6. ToSet(r) = ToSet(s) \cup {e}
  BY <1>2, <1>3, <1>4, <1>5 DEF ToSet
<1>7. ASSUME Distinct(s), e \notin ToSet(s)
      PROVE  Distinct(r)
  <2> SUFFICES ASSUME NEW i \in 1..Len(r), NEW j \in 1..Len(r), r[i] = r[j]
               PROVE  i = j
    BY DEF Distinct
  <2>1. \A k \in 2..Len(r) : r[k] # e /\ r[k] = s[k - 1] /\ k - 1 \in 1..Len(s)
    BY <1>1, <1>2, <1>7 DEF ToSet
  <2>2. CASE i = 1 \/ j = 1
    BY <2>1, <2>2, <1>1, <1>2
  <2>3. CASE i # 1 /\ j # 1
    BY <2>1, <2>3, <1>2, <1>7 DEF Distinct
  <2> QED
    BY <2>2, <2>3
<1> QED
  BY <1>6, <1>7 DEF r

\* The elements of a list that grows at its end.
LEMMA AppendMembers ==
  ASSUME NEW S, NEW s \in Seq(S), NEW e \in S
  PROVE  ToSet(Append(s, e)) = ToSet(s) \cup {e}
<1> DEFINE r == Append(s, e)
<1>1. /\ r \in Seq(S) /\ Len(r) = Len(s) + 1
      /\ \A i \in 1..Len(s) : r[i] = s[i]
      /\ r[Len(s) + 1] = e
  BY AppendProperties
<1>2. Len(s) \in Nat /\ DOMAIN s = 1..Len(s) /\ DOMAIN r = 1..(Len(s) + 1)
  BY <1>1, LenProperties
<1> HIDE DEF r
<1>3. \A i \in 1..(Len(s) + 1) : i \in 1..Len(s) \/ i = Len(s) + 1
  BY <1>2
<1>4. ToSet(r) \subseteq ToSet(s) \cup {e}
  BY <1>1, <1>2, <1>3 DEF ToSet
<1>5. ToSet(s) \subseteq ToSet(r)
  BY <1>1, <1>2 DEF ToSet
<1>6. e \in ToSet(r)
  BY <1>1, <1>2 DEF ToSet
<1> QED
  BY <1>4, <1>5, <1>6 DEF r
\* A function that takes each of the elements of S once is a list of them.
LEMMA ListOfSet ==
  ASSUME NEW S, IsFiniteSet(S), NEW f \in [1..Cardinality(S) -> S],
         \A i, j \in 1..Cardinality(S) : f[i] = f[j] => i = j
  PROVE  f \in Seq(S) /\ ToSet(f) = S /\ Distinct(f)
<1> DEFINE n == Cardinality(S)
<1>1. n \in Nat
  BY FS_CardinalityType
<1>2. f \in Seq(S) /\ Len(f) = n /\ DOMAIN f = 1..n
  BY <1>1
<1>3. f \in Injection(1..n, S)
  BY <1>2 DEF Injection, IsInjective
<1>4. IsFiniteSet(1..n) /\ Cardinality(1..n) = n
  <2>1. 1 \in Int /\ n \in Int /\ (1 > n => n = 0) /\ n - 1 + 1 = n
    BY <1>1
  <2> HIDE DEF n
  <2> QED
    BY <2>1, FS_Interval
<1>5. f \in Surjection(1..n, S)
  BY <1>3, <1>4, FS_Injection
<1>6. \A e \in S : \E i \in 1..n : f[i] = e
  BY <1>5 DEF Surjection
<1>7. ToSet(f) = S
  BY <1>2, <1>6 DEF ToSet
<1> QED
  BY <1>2, <1>7 DEF Distinct

\* SetToSeq gives such a list.
LEMMA SetToSeqElements ==
  ASSUME NEW S, IsFiniteSet(S)
  PROVE  SetToSeq(S) \in Seq(S) /\ ToSet(SetToSeq(S)) = S /\ Distinct(SetToSeq(S))
<1>1. ExistsBijection(1..Cardinality(S), S)
  BY FS_CardinalityType
<1>2. \E f \in [1..Cardinality(S) -> S] : IsInjective(f)
  BY <1>1 DEF ExistsBijection, Bijection, Injection
<1>3. SetToSeq(S) \in [1..Cardinality(S) -> S] /\ IsInjective(SetToSeq(S))
  BY <1>2 DEF SetToSeq
<1> HIDE DEF SetToSeq
<1>4. \A i, j \in 1..Cardinality(S) : SetToSeq(S)[i] = SetToSeq(S)[j] => i = j
  BY <1>3 DEF IsInjective
<1> QED
  BY <1>3, <1>4, ListOfSet

\* So are all of SetToSeqs.
LEMMA SetToSeqsElements ==
  ASSUME NEW S, IsFiniteSet(S), NEW f \in SetToSeqs(S)
  PROVE  f \in Seq(S) /\ ToSet(f) = S /\ Distinct(f)
<1>1. f \in [1..Cardinality(S) -> S] /\ \A i, j \in 1..Cardinality(S) : f[i] = f[j] => i = j
  BY DEF SetToSeqs
<1> QED
  BY <1>1, ListOfSet

\* Two lists, one behind the other.
LEMMA ConcatMembers ==
  ASSUME NEW S, NEW s \in Seq(S), NEW t \in Seq(S)
  PROVE  /\ ToSet(s \o t) = ToSet(s) \cup ToSet(t)
         /\ (Distinct(s) /\ Distinct(t) /\ ToSet(s) \cap ToSet(t) = {}) => Distinct(s \o t)
<1> DEFINE r == s \o t
<1>1. Len(s) \in Nat /\ Len(t) \in Nat /\ DOMAIN s = 1..Len(s) /\ DOMAIN t = 1..Len(t)
  BY LenProperties
<1>2. /\ r \in Seq(S) /\ Len(r) = Len(s) + Len(t)
      /\ \A i \in 1..(Len(s) + Len(t)) : r[i] = IF i <= Len(s) THEN s[i] ELSE t[i - Len(s)]
  BY ConcatProperties
<1>3. DOMAIN r = 1..(Len(s) + Len(t))
  BY <1>2, LenProperties
<1> HIDE DEF r
<1>4. \A i \in 1..(Len(s) + Len(t)) : i <= Len(s) \/ i - Len(s) \in 1..Len(t)
  BY <1>1
<1>5. ASSUME NEW i \in 1..(Len(s) + Len(t))
      PROVE  r[i] \in IF i <= Len(s) THEN ToSet(s) ELSE ToSet(t)
  <2>1. CASE i <= Len(s)
    <3>1. r[i] = s[i] /\ i \in DOMAIN s
      BY <2>1, <1>1, <1>2
    <3> QED
      BY <3>1, <2>1 DEF ToSet
  <2>2. CASE ~(i <= Len(s))
    <3>1. r[i] = t[i - Len(s)] /\ i - Len(s) \in DOMAIN t
      BY <2>2, <1>1, <1>2, <1>4
    <3> QED
      BY <3>1, <2>2 DEF ToSet
  <2> QED
    BY <2>1, <2>2
<1>6. \A i \in 1..Len(s) : s[i] = r[i] /\ i \in 1..(Len(s) + Len(t))
  BY <1>1, <1>2
<1>7. \A i \in 1..Len(t) : t[i] = r[Len(s) + i] /\ Len(s) + i \in 1..(Len(s) + Len(t))
  BY <1>1, <1>2
<1>8. ToSet(s) \subseteq ToSet(r) /\ ToSet(t) \subseteq ToSet(r)
  BY <1>1, <1>3, <1>6, <1>7 DEF ToSet
<1>9. ToSet(r) \subseteq ToSet(s) \cup ToSet(t)
  <2>1. \A i \in 1..(Len(s) + Len(t)) : r[i] \in ToSet(s) \cup ToSet(t)
    BY <1>5
  <2> QED
    BY <2>1, <1>3 DEF ToSet
<1>10. ASSUME Distinct(s), Distinct(t), ToSet(s) \cap ToSet(t) = {}
       PROVE  Distinct(r)
  <2> SUFFICES ASSUME NEW i \in 1..(Len(s) + Len(t)), NEW j \in 1..(Len(s) + Len(t)), r[i] = r[j]
               PROVE  i = j
    BY <1>2 DEF Distinct
  <2>1. CASE i <= Len(s) /\ j <= Len(s)
    BY <2>1, <1>1, <1>2, <1>10 DEF Distinct
  <2>2. CASE ~(i <= Len(s)) /\ ~(j <= Len(s))
    <3>1. t[i - Len(s)] = t[j - Len(s)]
      BY <2>2, <1>2
    <3>2. i - Len(s) = j - Len(s)
      BY <3>1, <2>2, <1>4, <1>10 DEF Distinct
    <3> QED
      BY <3>2, <1>1
  <2>3. CASE i <= Len(s) /\ ~(j <= Len(s))
    <3>1. r[i] \in ToSet(s) /\ r[j] \in ToSet(t)
      BY <2>3, <1>5
    <3> QED
      BY <3>1, <1>10
  <2>4. CASE ~(i <= Len(s)) /\ j <= Len(s)
    <3>1. r[j] \in ToSet(s) /\ r[i] \in ToSet(t)
      BY <2>4, <1>5
    <3> QED
      BY <3>1, <1>10
  <2> QED
    BY <2>1, <2>2, <2>3, <2>4
<1> QED
  BY <1>8, <1>9, <1>10 DEF r
-----------------------------------------------------------------------------
\* Queues of a few messages.
LEMMA ShortTails ==
  ASSUME NEW a, NEW b, NEW c, NEW d, NEW e
  PROVE  /\ Head(<<a>>) = a /\ Tail(<<a>>) = <<>> /\ <<a>> # <<>>
         /\ Head(<<a, b>>) = a /\ Tail(<<a, b>>) = <<b>> /\ <<a, b>> # <<>>
         /\ Head(<<a, b, c>>) = a /\ Tail(<<a, b, c>>) = <<b, c>> /\ <<a, b, c>> # <<>>
         /\ Head(<<a, b, c, d>>) = a /\ Tail(<<a, b, c, d>>) = <<b, c, d>> /\ <<a, b, c, d>> # <<>>
         /\ Head(<<a, b, c, d, e>>) = a /\ Tail(<<a, b, c, d, e>>) = <<b, c, d, e>>
         /\ <<a, b, c, d, e>> # <<>>
  OBVIOUS

LEMMA ShortConcats ==
  /\ \A a : <<>> \o <<a>> = <<a>> /\ Append(<<>>, a) = <<a>>
  /\ \A a, b : <<>> \o <<a, b>> = <<a, b>>
  /\ \A a, b : <<a>> \o <<b>> = <<a, b>>
  /\ \A a, b, c : <<a, b>> \o <<c>> = <<a, b, c>>
  /\ \A a, b, c, d : <<a, b>> \o <<c, d>> = <<a, b, c, d>>
  /\ \A a, b, c, d, e : <<a, b, c>> \o <<d, e>> = <<a, b, c, d, e>>
  /\ \A a, b, c : Append(<<a, b>>, c) = <<a, b, c>>
<1>1. \A a, b : <<>> \o <<a>> = <<a>> /\ Append(<<>>, a) = <<a>> /\ <<>> \o <<a, b>> = <<a, b>>
  OBVIOUS
<1>2. ASSUME NEW a, NEW b PROVE <<a>> \o <<b>> = <<a, b>>
  <2> DEFINE S == {a, b}
           r == <<a>> \o <<b>>
  <2>1. <<a>> \in Seq(S) /\ Len(<<a>>) = 1 /\ <<a>>[1] = a
    OBVIOUS
  <2>2. <<b>> \in Seq(S) /\ Len(<<b>>) = 1 /\ <<b>>[1] = b
    OBVIOUS
  <2>3. /\ <<a, b>> \in Seq(S) /\ Len(<<a, b>>) = 2
        /\ <<a, b>>[1] = a /\ <<a, b>>[2] = b
    OBVIOUS
  <2>4. r \in Seq(S) /\ Len(r) = 2 /\ r[1] = a /\ r[2] = b
    BY <2>1, <2>2, ConcatProperties
  <2> HIDE DEF r
  <2>5. \A i \in 1..2 : r[i] = <<a, b>>[i]
    BY <2>3, <2>4
  <2>6. r = <<a, b>>
    BY <2>3, <2>4, <2>5, SeqEqual
  <2> QED
    BY <2>6 DEF r
<1>3. ASSUME NEW a, NEW b, NEW c PROVE <<a, b>> \o <<c>> = <<a, b, c>>
  <2> DEFINE S == {a, b, c}
           r == <<a, b>> \o <<c>>
  <2>1. <<a, b>> \in Seq(S) /\ Len(<<a, b>>) = 2 /\ <<a, b>>[1] = a /\ <<a, b>>[2] = b
    OBVIOUS
  <2>2. <<c>> \in Seq(S) /\ Len(<<c>>) = 1 /\ <<c>>[1] = c
    OBVIOUS
  <2>3. /\ <<a, b, c>> \in Seq(S) /\ Len(<<a, b, c>>) = 3
        /\ <<a, b, c>>[1] = a /\ <<a, b, c>>[2] = b /\ <<a, b, c>>[3] = c
    OBVIOUS
  <2>4. r \in Seq(S) /\ Len(r) = 3 /\ r[1] = a /\ r[2] = b /\ r[3] = c
    BY <2>1, <2>2, ConcatProperties
  <2> HIDE DEF r
  <2>5. \A i \in 1..3 : r[i] = <<a, b, c>>[i]
    BY <2>3, <2>4
  <2>6. r = <<a, b, c>>
    BY <2>3, <2>4, <2>5, SeqEqual
  <2> QED
    BY <2>6 DEF r
<1>4. ASSUME NEW a, NEW b, NEW c, NEW d PROVE <<a, b>> \o <<c, d>> = <<a, b, c, d>>
  <2> DEFINE S == {a, b, c, d}
           r == <<a, b>> \o <<c, d>>
  <2>1. <<a, b>> \in Seq(S) /\ Len(<<a, b>>) = 2 /\ <<a, b>>[1] = a /\ <<a, b>>[2] = b
    OBVIOUS
  <2>2. <<c, d>> \in Seq(S) /\ Len(<<c, d>>) = 2 /\ <<c, d>>[1] = c /\ <<c, d>>[2] = d
    OBVIOUS
  <2>3. /\ <<a, b, c, d>> \in Seq(S) /\ Len(<<a, b, c, d>>) = 4
        /\ <<a, b, c, d>>[1] = a /\ <<a, b, c, d>>[2] = b /\ <<a, b, c, d>>[3] = c /\ <<a, b, c, d>>[4] = d
    OBVIOUS
  <2>4. r \in Seq(S) /\ Len(r) = 4 /\ r[1] = a /\ r[2] = b /\ r[3] = c /\ r[4] = d
    BY <2>1, <2>2, ConcatProperties
  <2> HIDE DEF r
  <2>5. \A i \in 1..4 : r[i] = <<a, b, c, d>>[i]
    BY <2>3, <2>4
  <2>6. r = <<a, b, c, d>>
    BY <2>3, <2>4, <2>5, SeqEqual
  <2> QED
    BY <2>6 DEF r
<1>5. ASSUME NEW a, NEW b, NEW c, NEW d, NEW e PROVE <<a, b, c>> \o <<d, e>> = <<a, b, c, d, e>>
  <2> DEFINE S == {a, b, c, d, e}
           r == <<a, b, c>> \o <<d, e>>
  <2>1. <<a, b, c>> \in Seq(S) /\ Len(<<a, b, c>>) = 3 /\ <<a, b, c>>[1] = a /\ <<a, b, c>>[2] = b /\ <<a, b, c>>[3] = c
    OBVIOUS
  <2>2. <<d, e>> \in Seq(S) /\ Len(<<d, e>>) = 2 /\ <<d, e>>[1] = d /\ <<d, e>>[2] = e
    OBVIOUS
  <2>3. /\ <<a, b, c, d, e>> \in Seq(S) /\ Len(<<a, b, c, d, e>>) = 5
        /\ <<a, b, c, d, e>>[1] = a /\ <<a, b, c, d, e>>[2] = b /\ <<a, b, c, d, e>>[3] = c /\ <<a, b, c, d, e>>[4] = d /\ <<a, b, c, d, e>>[5] = e
    OBVIOUS
  <2>4. r \in Seq(S) /\ Len(r) = 5 /\ r[1] = a /\ r[2] = b /\ r[3] = c /\ r[4] = d /\ r[5] = e
    BY <2>1, <2>2, ConcatProperties
  <2> HIDE DEF r
  <2>5. \A i \in 1..5 : r[i] = <<a, b, c, d, e>>[i]
    BY <2>3, <2>4
  <2>6. r = <<a, b, c, d, e>>
    BY <2>3, <2>4, <2>5, SeqEqual
  <2> QED
    BY <2>6 DEF r
<1>6. ASSUME NEW a, NEW b, NEW c PROVE Append(<<a, b>>, c) = <<a, b>> \o <<c>>
  <2>1. <<a, b>> \in Seq({a, b, c}) /\ c \in {a, b, c}
    OBVIOUS
  <2> QED
    BY <2>1, AppendIsConcat
<1>7. ASSUME NEW a, NEW b, NEW c PROVE Append(<<a, b>>, c) = <<a, b, c>>
  <2>1. Append(<<a, b>>, c) = <<a, b>> \o <<c>>
    BY <1>6
  <2>2. <<a, b>> \o <<c>> = <<a, b, c>>
    BY <1>3
  <2> QED
    BY <2>1, <2>2, Zenon
<1>8. \A a, b, c, d : <<a, b>> \o <<c, d>> = <<a, b, c, d>>
  BY <1>4
<1>9. \A a, b, c, d, e : <<a, b, c>> \o <<d, e>> = <<a, b, c, d, e>>
  BY <1>5
<1> QED
  BY <1>1, <1>2, <1>3, <1>7, <1>8, <1>9

\* What is in a list is its first element or in the rest.
LEMMA TailMembers ==
  ASSUME NEW S, NEW s \in Seq(S), s # <<>>
  PROVE  ToSet(s) = {Head(s)} \cup ToSet(Tail(s))
<1> DEFINE t == Tail(s)
<1>1. /\ t \in Seq(S) /\ Len(t) = Len(s) - 1 /\ Len(s) \in Nat /\ Len(s) >= 1
      /\ \A i \in 1..(Len(s) - 1) : t[i] = s[i + 1]
      /\ Head(s) = s[1]
  BY HeadTailProperties, LenProperties, EmptySeq
<1>2. DOMAIN s = 1..Len(s) /\ DOMAIN t = 1..(Len(s) - 1)
  BY <1>1, LenProperties
<1> HIDE DEF t
<1>3. ASSUME NEW x \in ToSet(s) PROVE x \in {Head(s)} \cup ToSet(t)
  <2>1. PICK i \in 1..Len(s) : x = s[i]
    BY <1>2 DEF ToSet
  <2>2. CASE i = 1
    BY <2>1, <2>2, <1>1
  <2>3. CASE i # 1
    <3>1. i - 1 \in 1..(Len(s) - 1) /\ t[i - 1] = x
      BY <2>1, <2>3, <1>1
    <3> QED
      BY <3>1, <1>2 DEF ToSet
  <2> QED
    BY <2>2, <2>3
<1>4. ASSUME NEW x \in {Head(s)} \cup ToSet(t) PROVE x \in ToSet(s)
  <2>1. CASE x = Head(s)
    BY <2>1, <1>1, <1>2 DEF ToSet
  <2>2. CASE x \in ToSet(t)
    <3>1. PICK i \in 1..(Len(s) - 1) : x = t[i]
      BY <2>2, <1>2 DEF ToSet
    <3>2. i + 1 \in 1..Len(s) /\ x = s[i + 1]
      BY <3>1, <1>1
    <3> QED
      BY <3>2, <1>2 DEF ToSet
  <2> QED
    BY <2>1, <2>2
<1> QED
  BY <1>3, <1>4 DEF t
-----------------------------------------------------------------------------
\* Of a set of finite sets one has none of the others in it.
LEMMA LeastSet ==
  ASSUME NEW S, NEW T \in SUBSET FiniteSubsetsOf(S), T # {}
  PROVE  \E x \in T : \A y \in T : y \subseteq x => y = x
<1> DEFINE R == StrictSubsetOrdering(S)
           F == FiniteSubsetsOf(S)
<1>1. IsWellFoundedOn(R, F)
  BY FS_StrictSubsetOrderingWellFounded
<1>2. T \subseteq F
  BY DEF FiniteSubsetsOf
<1>3. \E x \in T : \A y \in T : ~(<<y, x>> \in R)
  <2> HIDE DEF R, F
  <2> QED
    BY <1>1, <1>2, WFMin
<1>4. \A x \in T : \A y \in T : y \subseteq x /\ y # x => <<y, x>> \in R
  BY DEF StrictSubsetOrdering, FiniteSubsetsOf
<1> QED
  BY <1>3, <1>4

\* Induction over the natural numbers, for a set of them.
LEMMA SetInduction ==
  ASSUME NEW T, 0 \in T, \A n \in Nat : n \in T => n + 1 \in T
  PROVE  \A n \in Nat : n \in T
<1> SUFFICES ASSUME NEW b \in Nat, b \notin T PROVE FALSE
  OBVIOUS
<1> DEFINE B == {k \in Nat : k \notin T}
           I == {0..k : k \in B}
<1>1. b \in B /\ I # {}
  OBVIOUS
<1>2. I \in SUBSET FiniteSubsetsOf(Nat)
  <2>1. \A k \in Nat : IsFiniteSet(0..k)
    BY FS_Interval
  <2> QED
    BY <2>1 DEF FiniteSubsetsOf
<1>3. PICK x \in I : \A y \in I : y \subseteq x => y = x
  <2> HIDE DEF I
  <2> QED
    BY <1>1, <1>2, LeastSet
<1>4. PICK k \in B : x = 0..k
  OBVIOUS
<1>5. k # 0 /\ k \in Nat
  BY <1>4
<1>6. k - 1 \in Nat /\ k - 1 + 1 = k /\ k - 1 \notin T
  BY <1>4, <1>5
<1>7. 0..(k - 1) \in I /\ 0..(k - 1) \subseteq x /\ k \in x /\ k \notin 0..(k - 1)
  BY <1>4, <1>5, <1>6
<1> QED
  BY <1>3, <1>7

\* A set of natural numbers has a least one.
LEMMA LeastNumber ==
  ASSUME NEW N \in SUBSET Nat, N # {}
  PROVE  \E m \in N : \A k \in N : m <= k
<1> SUFFICES ASSUME \A m \in N : \E k \in N : ~(m <= k) PROVE FALSE
  OBVIOUS
<1> DEFINE T == {n \in Nat : \A k \in N : n < k}
<1>1. 0 \in T
  <2>1. 0 \notin N
    OBVIOUS
  <2> QED
    BY <2>1
<1>2. \A n \in Nat : n \in T => n + 1 \in T
  <2> SUFFICES ASSUME NEW n \in Nat, n \in T PROVE n + 1 \in T
    OBVIOUS
  <2>1. \A k \in N : n + 1 <= k
    OBVIOUS
  <2>2. n + 1 \notin N
    BY <2>1
  <2> QED
    BY <2>1, <2>2
<1>3. \A n \in Nat : n \in T
  <2> HIDE DEF T
  <2> QED
    BY <1>1, <1>2, SetInduction
<1>4. PICK k \in N : TRUE
  OBVIOUS
<1>5. k \in T /\ k \in Nat
  BY <1>3
<1> QED
  BY <1>4, <1>5

\* Of finitely many things with a number one has the greatest.
LEMMA GreatestOf ==
  ASSUME NEW S, IsFiniteSet(S), S # {}, NEW g, \A i \in S : g[i] \in Nat
  PROVE  \E i \in S : \A j \in S : g[j] <= g[i]
<1> DEFINE above(i) == {j \in S : g[j] > g[i]}
           T == {above(i) : i \in S}
<1>1. T \in SUBSET FiniteSubsetsOf(S) /\ T # {}
  <2>1. \A i \in S : above(i) \in SUBSET S /\ IsFiniteSet(above(i))
    BY FS_Subset
  <2> QED
    BY <2>1 DEF FiniteSubsetsOf
<1>2. PICK x \in T : \A y \in T : y \subseteq x => y = x
  <2> HIDE DEF T
  <2> QED
    BY <1>1, LeastSet
<1>3. PICK i \in S : x = above(i)
  OBVIOUS
<1>4. ASSUME NEW j \in S, g[j] > g[i] PROVE FALSE
  <2>1. above(j) \in T /\ above(j) \subseteq x /\ j \in x /\ j \notin above(j)
    BY <1>3, <1>4
  <2> QED
    BY <1>2, <2>1
<1> QED
  BY <1>4

\* What is computed step by step exists: g starts with b, and step k makes
\* g[k] from g[k - 1] as F[k] says.
RunsOf(S, b, lo, n, F) ==
  {g \in [lo..(lo + n) -> S] :
     \A k \in lo..(lo + n) : g[k] = IF k = lo THEN b ELSE F[k][g[k - 1]]}

LEMMA RunExists ==
  ASSUME NEW S, NEW b \in S, NEW lo \in Int, NEW n \in Nat,
         NEW F \in [(lo + 1)..(lo + n) -> [S -> S]]
  PROVE  RunsOf(S, b, lo, n, F) # {}
<1> DEFINE Run(m) == {g \in [lo..(lo + m) -> S] :
                        \A k \in lo..(lo + m) : g[k] = IF k = lo THEN b ELSE F[k][g[k - 1]]}
           T == {m \in Nat : m <= n => Run(m) # {}}
<1>1. 0 \in T
  <2>1. \A k \in lo..(lo + 0) : k = lo
    OBVIOUS
  <2>2. [k \in lo..(lo + 0) |-> b] \in Run(0)
    BY <2>1
  <2> QED
    BY <2>2
<1>2. ASSUME NEW m \in Nat, m \in T PROVE m + 1 \in T
  <2> SUFFICES ASSUME m + 1 <= n PROVE Run(m + 1) # {}
    OBVIOUS
  <2>1. PICK g \in [lo..(lo + m) -> S] :
          \A k \in lo..(lo + m) : g[k] = IF k = lo THEN b ELSE F[k][g[k - 1]]
    BY <1>2
  <2>2. PICK l \in Int : l = lo + (m + 1)
    OBVIOUS
  <2>3. l \in (lo + 1)..(lo + n) /\ l - 1 \in lo..(lo + m) /\ l # lo
    BY <2>2
  <2>4. F[l] \in [S -> S] /\ g[l - 1] \in S
    BY <2>3
  <2>5. PICK e \in S : e = F[l][g[l - 1]]
    BY <2>4
  <2> DEFINE h == [k \in lo..l |-> IF k = l THEN e ELSE g[k]]
  <2>6. \A k \in lo..l : k = l \/ (k \in lo..(lo + m) /\ k # l)
    BY <2>2
  <2>7. h \in [lo..l -> S]
    BY <2>6
  <2>8. ASSUME NEW k \in lo..l PROVE h[k] = IF k = lo THEN b ELSE F[k][h[k - 1]]
    <3>1. CASE k = l
      <4>1. l - 1 \in lo..l /\ l - 1 # l
        BY <2>2, <2>3
      <4>2. h[l - 1] = g[l - 1]
        BY <4>1
      <4> QED
        BY <2>3, <2>5, <3>1, <4>2
    <3>2. CASE k # l /\ k # lo
      <4>1. k - 1 \in lo..l /\ k - 1 # l /\ k \in lo..(lo + m)
        BY <2>2, <2>6, <3>2
      <4>2. h[k - 1] = g[k - 1] /\ h[k] = g[k]
        BY <3>2, <4>1
      <4> QED
        BY <2>1, <3>2, <4>1, <4>2
    <3>3. CASE k # l /\ k = lo
      <4>1. k \in lo..(lo + m) /\ h[k] = g[k]
        BY <2>6, <3>3
      <4> QED
        BY <2>1, <3>3, <4>1
    <3> QED
      BY <3>1, <3>2, <3>3
  <2>9. h \in Run(m + 1)
    <3> HIDE DEF h
    <3> QED
      BY <2>2, <2>7, <2>8
  <2> QED
    BY <2>9
<1>3. \A m \in Nat : m \in T
  <2> HIDE DEF T
  <2> QED
    BY <1>1, <1>2, SetInduction
<1>4. Run(n) # {}
  BY <1>3
<1> QED
  BY <1>4 DEF RunsOf

-----------------------------------------------------------------------------
\* What holds of the empty list, and of a list with one element more whenever
\* it holds of the list, holds of every list.
LEMMA ListInduction ==
  ASSUME NEW S, NEW Such, <<>> \in Such,
         \A p \in Seq(S) : \A e \in S : p \in Such => Append(p, e) \in Such
  PROVE  Seq(S) \subseteq Such
<1> DEFINE N == {n \in Nat : \A p \in Seq(S) : Len(p) = n => p \in Such}
<1>1. 0 \in N
  BY EmptySeq
<1>2. ASSUME NEW n \in Nat, n \in N PROVE n + 1 \in N
  <2> SUFFICES ASSUME NEW p \in Seq(S), Len(p) = n + 1 PROVE p \in Such
    OBVIOUS
  <2>1. p # <<>>
    BY EmptySeq
  <2>2. /\ SubSeq(p, 1, Len(p) - 1) \in Seq(S) /\ Len(SubSeq(p, 1, Len(p) - 1)) = n
        /\ p[Len(p)] \in S /\ p = Append(SubSeq(p, 1, Len(p) - 1), p[Len(p)])
    BY <2>1, AppendProperties, SubSeqProperties, ElementOfSeq, LenProperties
  <2> QED
    BY <1>2, <2>2
<1>3. \A n \in Nat : n \in N
  <2> HIDE DEF N
  <2> QED
    BY <1>1, <1>2, SetInduction
<1> QED
  BY <1>3, LenProperties

\* Lists written one after the other.
Then(s, t) == s \o t

LEMMA Thens ==
  ASSUME NEW s \in Seq(Nat), NEW t \in Seq(Nat)
  PROVE  /\ Then(s, t) \in Seq(Nat) /\ Len(Then(s, t)) = Len(s) + Len(t)
         /\ Then(<<>>, t) = t
BY ConcatProperties, ConcatEmptySeq DEF Then

Piled(n, seqs, g) ==
  /\ g \in [0..n -> Seq(Nat)] /\ g[0] = <<>>
  /\ \A i \in 1..n : g[i] = Then(g[i - 1], seqs[i])

LEMMA Piles ==
  ASSUME NEW n \in Nat, NEW seqs \in [1..n -> Seq(Nat)]
  PROVE  \E g : Piled(n, seqs, g) /\ FlattenSeq(seqs) = g[n]
<1>0. seqs \in Seq(Seq(Nat)) /\ Len(seqs) = n
  <2>1. seqs \in Seq(Seq(Nat))
    BY SeqDef
  <2> QED
    BY <2>1, LenProperties
<1>1. CASE n = 0
  <2>1. seqs = <<>>
    BY <1>0, <1>1, EmptySeq
  <2>2. FlattenSeq(seqs) = <<>>
    BY <1>0, <1>1, <2>1 DEF FlattenSeq
  <2>3. Piled(0, seqs, [i \in 0..0 |-> <<>>])
    BY EmptySeq DEF Piled
  <2> QED
    BY <1>1, <2>2, <2>3
<1>2. CASE n # 0
  <2>1. PICK m \in Nat : n = m + 1 /\ m = n - 1
    BY <1>2
  <2>2. PICK b \in Seq(Nat) : b = seqs[1]
    BY <1>2
  <2> DEFINE S == Seq(Nat)
             Is(h) == h = [i \in 1..n |-> IF i = 1 THEN seqs[i] ELSE Then(h[i - 1], seqs[i])]
             g == CHOOSE h : Is(h)
             Key == [k \in (1 + 1)..(1 + m) |-> [w \in S |-> Then(w, seqs[k])]]
  <2>3. \E h : Is(h)
    <3>1. Key \in [(1 + 1)..(1 + m) -> [S -> S]]
      BY <2>1, Thens
    <3>2. \A k \in (1 + 1)..(1 + m) : \A w \in S : Key[k][w] = Then(w, seqs[k])
      OBVIOUS
    <3> HIDE DEF Key
    <3>0. b \in S /\ 1 \in Int /\ m \in Nat
      OBVIOUS
    <3> HIDE DEF Is, g, S
    <3>8. RunsOf(S, b, 1, m, Key) # {}
      BY ONLY <3>0, <3>1, RunExists
    <3>3. PICK h \in RunsOf(S, b, 1, m, Key) : TRUE
      BY ONLY <3>8
    <3>4. /\ h \in [1..(1 + m) -> S]
          /\ \A k \in 1..(1 + m) : h[k] = IF k = 1 THEN b ELSE Key[k][h[k - 1]]
      BY <3>3 DEF RunsOf
    <3>5. ASSUME NEW k \in 1..n PROVE h[k] = IF k = 1 THEN seqs[k] ELSE Then(h[k - 1], seqs[k])
      <4>1. k \in 1..(1 + m) /\ (k # 1 => k \in (1 + 1)..(1 + m) /\ k - 1 \in 1..(1 + m))
        BY <2>1
      <4> QED
        BY <2>2, <3>2, <3>4, <4>1
    <3>6. h = [k \in 1..n |-> h[k]]
      BY <2>1, <3>4
    <3>7. Is(h)
      BY <3>5, <3>6 DEF Is
    <3> QED
      BY <3>7
  <2>4. FlattenSeq(seqs) = g[n]
    BY <1>0, <1>2 DEF FlattenSeq, Then
  <2>5. Is(g)
    BY <2>3
  <2> HIDE DEF g
  <2>6. g[1] = b /\ \A i \in 2..n : g[i] = Then(g[i - 1], seqs[i])
    BY <1>2, <2>2, <2>5
  <2> DEFINE Kept == {k \in Nat : k + 1 <= n => g[k + 1] \in S}
  <2>7. 0 \in Kept
    BY <2>6
  <2>8. ASSUME NEW k \in Nat, k \in Kept PROVE k + 1 \in Kept
    <3> SUFFICES ASSUME k + 1 + 1 <= n PROVE g[k + 1 + 1] \in S
      OBVIOUS
    <3>1. PICK l \in 2..n : l = k + 1 + 1 /\ l - 1 = k + 1
      OBVIOUS
    <3>2. g[l] = Then(g[l - 1], seqs[l]) /\ g[l - 1] \in S /\ seqs[l] \in S
      BY <2>6, <2>8, <3>1
    <3> QED
      BY <3>1, <3>2, Thens
  <2>9. \A k \in Nat : k \in Kept
    <3> HIDE DEF Kept
    <3> QED
      BY <2>7, <2>8, SetInduction
  <2>10. ASSUME NEW i \in 1..n PROVE g[i] \in S
    <3>1. PICK k \in Nat : k = i - 1 /\ k + 1 = i /\ k + 1 <= n
      OBVIOUS
    <3> QED
      BY <2>9, <3>1
  <2> DEFINE h == [i \in 0..n |-> IF i = 0 THEN <<>> ELSE g[i]]
  <2>11. h \in [0..n -> S]
    BY <2>10, EmptySeq
  <2>12. ASSUME NEW i \in 1..n PROVE h[i] = Then(h[i - 1], seqs[i])
    <3>1. CASE i = 1
      <4>1. h[0] = <<>> /\ i - 1 = 0 /\ h[i] = g[1]
        BY <3>1
      <4>2. Then(<<>>, b) = b
        BY EmptySeq, Thens
      <4> QED
        BY <2>2, <2>6, <3>1, <4>1, <4>2
    <3>2. CASE i # 1
      <4>1. i - 1 \in 0..n /\ i - 1 # 0 /\ i \in 2..n
        BY <3>2
      <4>2. h[i] = g[i] /\ h[i - 1] = g[i - 1]
        BY <4>1
      <4> QED
        BY <2>6, <4>1, <4>2
    <3> QED
      BY <3>1, <3>2
  <2>13. Piled(n, seqs, h)
    <3>1. h[0] = <<>>
      OBVIOUS
    <3> HIDE DEF h
    <3> QED
      BY <2>11, <2>12, <3>1 DEF Piled
  <2>14. h[n] = g[n]
    BY <1>2
  <2> QED
    BY <2>4, <2>13, <2>14
<1> QED
  BY <1>1, <1>2

LEMMA PileLength ==
  ASSUME NEW n \in Nat, NEW seqs \in [1..n -> Seq(Nat)], NEW g, Piled(n, seqs, g), NEW i \in 1..n
  PROVE  /\ g[i] = Then(g[i - 1], seqs[i]) /\ g[i - 1] \in Seq(Nat) /\ g[i] \in Seq(Nat)
         /\ Len(g[i]) = Len(g[i - 1]) + Len(seqs[i]) /\ Len(g[i - 1]) \in Nat
<1>1. i \in 0..n /\ i - 1 \in 0..n
  OBVIOUS
<1>2. g[i] = Then(g[i - 1], seqs[i]) /\ g[i - 1] \in Seq(Nat) /\ g[i] \in Seq(Nat) /\ seqs[i] \in Seq(Nat)
  BY <1>1 DEF Piled
<1> QED
  BY <1>2, Thens, LenProperties

\* Lists of the same length.
Sized(n, seqs, k) == \A i \in 1..n : Len(seqs[i]) = k

Steady(n, g, k) == \A i \in 0..n : Len(g[i]) = k * i

LEMMA PileEqual ==
  ASSUME NEW n \in Nat, NEW seqs \in [1..n -> Seq(Nat)], NEW g, Piled(n, seqs, g),
         NEW k \in Nat, Sized(n, seqs, k)
  PROVE  Steady(n, g, k)
<1> DEFINE Kept == {i \in Nat : i <= n => Len(g[i]) = k * i}
<1>1. 0 \in Kept
  <2>1. g[0] = <<>>
    BY DEF Piled
  <2>2. Len(g[0]) = 0 /\ k * 0 = 0
    BY <2>1, EmptySeq
  <2> QED
    BY <2>2
<1>2. ASSUME NEW i \in Nat, i \in Kept PROVE i + 1 \in Kept
  <2> SUFFICES ASSUME i + 1 <= n PROVE Len(g[i + 1]) = k * (i + 1)
    OBVIOUS
  <2>1. PICK l \in 1..n : l = i + 1 /\ l - 1 = i
    OBVIOUS
  <2>2. Len(g[l]) = Len(g[l - 1]) + Len(seqs[l])
    BY PileLength
  <2>5. Len(seqs[l]) = k
    BY DEF Sized
  <2>3. Len(g[i]) = k * i
    BY <1>2
  <2>4. k * (i + 1) = k * i + k
    OBVIOUS
  <2> QED
    BY <2>1, <2>2, <2>3, <2>4, <2>5
<1>3. \A i \in Nat : i \in Kept
  <2> HIDE DEF Kept
  <2> QED
    BY <1>1, <1>2, SetInduction
<1> QED
  BY <1>3 DEF Steady

\* The file f holds the bytes s from place at on.
Holds(f, at, s) ==
  at - 1 + Len(s) <= Len(f) /\ \A j \in 1..Len(s) : f[at - 1 + j] = s[j]

LEMMA HoldsParts ==
  ASSUME NEW f, NEW at \in Nat \ {0}, NEW s \in Seq(Nat), NEW t \in Seq(Nat), Holds(f, at, s \o t),
         Len(f) \in Nat
  PROVE  Holds(f, at, s) /\ Holds(f, at + Len(s), t)
<1>1. PICK m \in Nat, k \in Nat : m = Len(s) /\ k = Len(t)
  BY LenProperties
<1>2. PICK u \in Seq(Nat) : u = s \o t
  BY ConcatProperties
<1>3. Len(u) = m + k /\ \A j \in 1..(m + k) : u[j] = IF j <= m THEN s[j] ELSE t[j - m]
  BY <1>1, <1>2, ConcatProperties
<1>4. at - 1 + (m + k) <= Len(f) /\ \A j \in 1..(m + k) : f[at - 1 + j] = u[j]
  BY <1>2, <1>3 DEF Holds
<1>5. ASSUME NEW j \in 1..m PROVE f[at - 1 + j] = s[j]
  <2>1. j \in 1..(m + k) /\ j <= m
    OBVIOUS
  <2> QED
    BY <1>3, <1>4, <2>1
<1>6. ASSUME NEW j \in 1..k PROVE f[at + m - 1 + j] = t[j]
  <2>1. PICK l \in Int : l = m + j
    OBVIOUS
  <2>2. l \in 1..(m + k) /\ ~(l <= m) /\ l - m = j /\ at + m - 1 + j = at - 1 + l
    BY <2>1
  <2> QED
    BY <1>3, <1>4, <2>2
<1>7. at - 1 + m <= Len(f) /\ at + m - 1 + k <= Len(f)
  BY <1>4
<1> QED
  BY <1>1, <1>5, <1>6, <1>7 DEF Holds

LEMMA HoldsThree ==
  ASSUME NEW f, NEW at \in Nat \ {0}, NEW a \in Seq(Nat), NEW b \in Seq(Nat), NEW c \in Seq(Nat),
         Holds(f, at, a \o b \o c), Len(f) \in Nat
  PROVE  Holds(f, at, a) /\ Holds(f, at + Len(a), b) /\ Holds(f, at + Len(a) + Len(b), c)
<1>1. PICK u \in Seq(Nat) : u = a \o b /\ Len(u) = Len(a) + Len(b)
  BY ConcatProperties
<1>2. Holds(f, at, u \o c)
  BY <1>1
<1>3. Holds(f, at, u) /\ Holds(f, at + Len(u), c)
  BY <1>2, HoldsParts
<1>4. Holds(f, at, a \o b)
  BY <1>1, <1>3
<1>5. Holds(f, at, a) /\ Holds(f, at + Len(a), b)
  BY <1>4, HoldsParts
<1>6. at + Len(u) = at + Len(a) + Len(b)
  <2>1. Len(a) \in Nat /\ Len(b) \in Nat
    BY LenProperties
  <2> QED
    BY <1>1, <2>1
<1> QED
  BY <1>3, <1>5, <1>6

LEMMA ThreeLong ==
  ASSUME NEW a \in Seq(Nat), NEW b \in Seq(Nat), NEW c \in Seq(Nat)
  PROVE  a \o b \o c \in Seq(Nat) /\ Len(a \o b \o c) = Len(a) + Len(b) + Len(c)
<1>1. PICK u \in Seq(Nat) : u = a \o b /\ Len(u) = Len(a) + Len(b)
  BY ConcatProperties
<1>2. u \o c \in Seq(Nat) /\ Len(u \o c) = Len(u) + Len(c)
  BY ConcatProperties
<1> QED
  BY <1>1, <1>2

LEMMA PileHolds ==
  ASSUME NEW n \in Nat, NEW seqs \in [1..n -> Seq(Nat)], NEW g, Piled(n, seqs, g),
         NEW f, Len(f) \in Nat, NEW at \in Nat \ {0}, Holds(f, at, g[n])
  PROVE  \A i \in 1..n : Holds(f, at + Len(g[i - 1]), seqs[i])
<1> DEFINE Kept == {k \in Nat : k <= n => Holds(f, at, g[n - k])}
<1>0. ASSUME NEW i \in 1..n, Holds(f, at, g[i])
      PROVE  Holds(f, at, g[i - 1]) /\ Holds(f, at + Len(g[i - 1]), seqs[i])
  <2>0. g[i - 1] \in Seq(Nat) /\ seqs[i] \in Seq(Nat) /\ g[i] = g[i - 1] \o seqs[i]
    <3>1. g[i - 1] \in Seq(Nat) /\ g[i] = Then(g[i - 1], seqs[i])
      <4>1. i \in 0..n /\ i - 1 \in 0..n
        OBVIOUS
      <4> QED
        BY <4>1 DEF Piled
    <3>2. seqs[i] \in Seq(Nat)
      OBVIOUS
    <3> QED
      BY <3>1, <3>2 DEF Then
  <2>1. PICK a \in Seq(Nat), b \in Seq(Nat) : a = g[i - 1] /\ b = seqs[i] /\ g[i] = a \o b
    BY <2>0
  <2>2. Holds(f, at, a \o b)
    BY <1>0, <2>1
  <2>3. Holds(f, at, a) /\ Holds(f, at + Len(a), b)
    BY <2>2, HoldsParts
  <2> QED
    BY <2>1, <2>3
<1>1. 0 \in Kept
  <2>1. n - 0 = n
    OBVIOUS
  <2> QED
    BY <2>1
<1>2. ASSUME NEW k \in Nat, k \in Kept PROVE k + 1 \in Kept
  <2> SUFFICES ASSUME k + 1 <= n PROVE Holds(f, at, g[n - (k + 1)])
    OBVIOUS
  <2>1. PICK i \in 1..n : i = n - k /\ i - 1 = n - (k + 1) /\ k <= n
    OBVIOUS
  <2> QED
    BY <1>0, <1>2, <2>1
<1>3. \A k \in Nat : k \in Kept
  <2> HIDE DEF Kept
  <2> QED
    BY <1>1, <1>2, SetInduction
<1> SUFFICES ASSUME NEW i \in 1..n PROVE Holds(f, at + Len(g[i - 1]), seqs[i])
  OBVIOUS
<1>4. PICK k \in Nat : k = n - i /\ n - k = i /\ k <= n
  OBVIOUS
<1>5. Holds(f, at, g[i])
  BY <1>3, <1>4
<1> QED
  BY <1>0, <1>5
=============================================================================
