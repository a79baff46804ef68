----------------------------- MODULE FileProofs -----------------------------
(***************************************************************************)
(* Proofs about the files of the map editor: the directory its file        *)
(* selector shows (FileSelect) and what its maps become in a file and back *)
(* (MapFile), for directories, texts, maps and lists of entities of any    *)
(* size.                                                                   *)
(*                                                                         *)
(* The selector.  Way follows a text sign by sign and Resolve is where it  *)
(* ends.  canonize_path copies the text and, at each name, takes a step    *)
(* back for "..": the argument is an invariant of its loop (Right): what   *)
(* is in the buffer is the path that the text has led to so far, and after *)
(* it the part of a name that was read since.  So what it leaves leads to  *)
(* where the text leads (Canonized), the part up to its last slash is the  *)
(* directory that is read (FilterShows), and the lists hold what is there  *)
(* (FileInv).                                                              *)
(*                                                                         *)
(* The file.  A map is written as one list of bytes, part after part.  A   *)
(* list Holds another from a place on, and what is written part after part *)
(* holds every part where those before it end (Piled, in ListLemmas).  So  *)
(* a reader that comes to an entry, an object or a cell at its place finds *)
(* that entry, object or cell, and comes to the end of it, which is the    *)
(* place of the next; this carries every reader, that of the client that   *)
(* skips objects too, from the header to the cells (SavedReadBack).        *)
(* SavedInv says that the file is that of the map that was written last.   *)
(***************************************************************************)
EXTENDS MCEditor, ListLemmas

-----------------------------------------------------------------------------
(***************************************************************************)
(* Ways through the directories.                                           *)
(***************************************************************************)
\* The constants of the file selector, one fact at a time.
LEMMA FileFacts ==
  /\ Dirs \subseteq Seq(F!Name) /\ Files \subseteq Seq(F!Name) /\ Texts \subseteq Seq(Signs)
  /\ Cwd \in Dirs /\ <<>> \in Dirs
  /\ \A d \in Dirs \cup Files : d # <<>> => F!Front(d) \in Dirs
BY EditorAssumption DEF F!FileSelectAssumption

\* The signs that mean something are different signs of a text.
LEMMA SignFacts ==
  /\ F!Slash \in Signs /\ F!Dot \in F!Plain /\ F!Star \in F!Plain
  /\ F!Plain = Signs \ {F!Slash} /\ F!End \notin Signs
  /\ F!Slash # F!Dot /\ F!Slash # F!Star /\ F!Dot # F!Star
<1>1. F!Slash # F!Dot /\ F!Slash # F!Star /\ F!Dot # F!Star
  BY DEF F!Slash, F!Dot, F!Star
<1>2. {F!Slash, F!Dot, F!Star} \subseteq Signs /\ F!End \notin Signs
  BY EditorAssumption DEF F!FileSelectAssumption
<1> QED
  BY <1>1, <1>2 DEF F!Plain

\* From a place, a name leads to a place.
LEMMA EntersPlace ==
  ASSUME NEW p \in Seq(F!Name), NEW n \in Seq(F!Plain)
  PROVE  F!Enter(p, n) \in Seq(F!Name)
<1>1. CASE n \in {<<>>, <<F!Dot>>}
  BY <1>1 DEF F!Enter
<1>2. CASE n \notin {<<>>, <<F!Dot>>} /\ n # F!Up
  <2>1. n \in F!Name
    BY <1>2 DEF F!Name
  <2> QED
    BY <1>2, <2>1, AppendProperties DEF F!Enter
<1>3. CASE n = F!Up /\ n \notin {<<>>, <<F!Dot>>} /\ p = <<>>
  BY <1>3 DEF F!Enter
<1>4. CASE n = F!Up /\ n \notin {<<>>, <<F!Dot>>} /\ p # <<>>
  <2>1. F!Front(p) \in Seq(F!Name)
    BY <1>4, SubSeqProperties, LenProperties, EmptySeq, ElementOfSeq DEF F!Front
  <2> QED
    BY <1>4, <2>1 DEF F!Enter
<1> QED
  BY <1>1, <1>2, <1>3, <1>4

\* How far a text has led: a place and the part of a name.
Walk == [place : Seq(F!Name), name : Seq(F!Plain)]

\* A sign leads on from there.
LEMMA WalkOn ==
  ASSUME NEW w \in Walk, NEW c \in Signs
  PROVE  F!Onward(w, c) \in Walk
<1>1. w.place \in Seq(F!Name) /\ w.name \in Seq(F!Plain)
  BY DEF Walk
<1>2. CASE c = F!Slash
  <2>1. F!Enter(w.place, w.name) \in Seq(F!Name) /\ <<>> \in Seq(F!Plain)
    BY <1>1, EntersPlace, EmptySeq
  <2> QED
    BY <1>2, <2>1 DEF F!Onward, Walk
<1>3. CASE c # F!Slash
  <2>1. Append(w.name, c) \in Seq(F!Plain)
    BY <1>1, <1>3, SignFacts, AppendProperties
  <2> QED
    BY <1>1, <1>3, <2>1 DEF F!Onward, Walk
<1> QED
  BY <1>2, <1>3

\* Where the way of a text starts.
StartOf(s) == [place |-> IF F!Absolute(s) THEN <<>> ELSE Cwd, name |-> <<>>]

\* The recursive function Way has the values its equation gives.
LEMMA WayIs ==
  ASSUME NEW s \in Seq(Signs)
  PROVE  /\ F!Way(s) \in [0..Len(s) -> Walk]
         /\ F!Way(s)[0] = StartOf(s)
         /\ \A i \in 1..Len(s) : F!Way(s)[i] = F!Onward(F!Way(s)[i - 1], s[i])
<1>1. PICK n \in Nat : n = Len(s)
  BY LenProperties
<1>2. PICK b \in Walk : b = StartOf(s)
  <2>1. <<>> \in Seq(F!Name) /\ Cwd \in Seq(F!Name) /\ <<>> \in Seq(F!Plain)
    BY FileFacts, EmptySeq
  <2>2. PICK p \in Seq(F!Name) : p = IF F!Absolute(s) THEN <<>> ELSE Cwd
    BY Zenon, <2>1
  <2>3. [place |-> p, name |-> <<>>] \in Walk
    BY <2>1, <2>2 DEF Walk
  <2> QED
    BY <2>2, <2>3 DEF StartOf
<1>3. \A i \in 1..n : s[i] \in Signs
  BY <1>1, ElementOfSeq
<1> DEFINE Is(h) == h = [i \in 0..n |-> IF i = 0 THEN b ELSE F!Onward(h[i - 1], s[i])]
           g == CHOOSE h : Is(h)
           Key == [k \in (0 + 1)..(0 + n) |-> [w \in Walk |-> F!Onward(w, s[k])]]
<1>4. \E h \in [0..n -> Walk] : Is(h)
  <2>1. Key \in [(0 + 1)..(0 + n) -> [Walk -> Walk]]
    BY <1>3, WalkOn
  <2>2. \A k \in (0 + 1)..(0 + n) : \A w \in Walk : Key[k][w] = F!Onward(w, s[k])
    OBVIOUS
  <2> HIDE DEF Key
  <2>0. b \in Walk /\ 0 \in Int /\ n \in Nat
    BY <1>1, <1>2
  <2> HIDE DEF Is, g
  <2>8. RunsOf(Walk, b, 0, n, Key) # {}
    BY ONLY Zenon, <2>0, <2>1, RunExists
  <2>3. PICK h \in RunsOf(Walk, b, 0, n, Key) : TRUE
    BY ONLY <2>8
  <2>4. /\ h \in [0..(0 + n) -> Walk]
        /\ \A k \in 0..(0 + n) : h[k] = IF k = 0 THEN b ELSE Key[k][h[k - 1]]
    BY <2>3 DEF RunsOf
  <2>5. ASSUME NEW k \in 0..n PROVE h[k] = IF k = 0 THEN b ELSE F!Onward(h[k - 1], s[k])
    <3>1. k \in 0..(0 + n) /\ (k # 0 => k \in (0 + 1)..(0 + n) /\ k - 1 \in 0..(0 + n))
      OBVIOUS
    <3> QED
      BY <2>2, <2>4, <3>1
  <2>6. h = [k \in 0..n |-> h[k]]
    BY <2>4
  <2>7. Is(h)
    BY <2>5, <2>6
  <2> QED
    BY <2>4, <2>7
<1>5. F!Way(s) = g
  BY <1>1, <1>2 DEF F!Way, StartOf
<1>6. Is(g)
  BY Zenon, <1>4
<1> HIDE DEF g
<1>7. DOMAIN g = 0..n /\ g[0] = b /\ \A i \in 1..n : g[i] = F!Onward(g[i - 1], s[i])
  BY <1>6
<1> DEFINE Kept == {k \in Nat : k <= n => g[k] \in Walk}
<1>8. 0 \in Kept
  BY <1>7
<1>9. ASSUME NEW k \in Nat, k \in Kept PROVE k + 1 \in Kept
  <2> SUFFICES ASSUME k + 1 <= n PROVE g[k + 1] \in Walk
    OBVIOUS
  <2>1. k + 1 \in 1..n /\ k + 1 - 1 = k /\ k <= n
    OBVIOUS
  <2>2. g[k + 1] = F!Onward(g[k], s[k + 1]) /\ g[k] \in Walk
    BY <1>7, <1>9, <2>1
  <2> QED
    BY <1>3, <2>1, <2>2, WalkOn
<1>10. \A k \in Nat : k \in Kept
  <2> HIDE DEF Kept
  <2> QED
    BY <1>8, <1>9, SetInduction
<1>11. g \in [0..n -> Walk]
  <2>1. g = [k \in 0..n |-> g[k]]
    BY <1>6
  <2>2. \A k \in 0..n : g[k] \in Walk
    BY <1>10
  <2> QED
    BY <2>1, <2>2
<1> QED
  BY <1>1, <1>2, <1>5, <1>7, <1>11

\* The way after one sign more.
LEMMA WayAt ==
  ASSUME NEW s \in Seq(Signs), NEW i \in 1..Len(s)
  PROVE  /\ F!Way(s)[i - 1] \in Walk /\ F!Way(s)[i] \in Walk
         /\ s[i] = F!Slash => /\ F!Way(s)[i].place = F!PlaceAt(s, i - 1)
                              /\ F!Way(s)[i].name = <<>>
         /\ s[i] # F!Slash => /\ F!Way(s)[i].place = F!Way(s)[i - 1].place
                              /\ F!Way(s)[i].name = Append(F!Way(s)[i - 1].name, s[i])
<1>1. Len(s) \in Nat
  BY LenProperties
<1>2. i - 1 \in 0..Len(s) /\ i \in 0..Len(s)
  BY <1>1
<1>3. F!Way(s)[i] = F!Onward(F!Way(s)[i - 1], s[i])
  BY WayIs
<1>4. F!Way(s)[i - 1] \in Walk /\ F!Way(s)[i] \in Walk
  BY Zenon, <1>2, WayIs
<1> QED
  BY <1>3, <1>4 DEF F!Onward, F!PlaceAt

\* Up to where a path is written.
Longer(t, n) == t \o Append(n, F!Slash)
Written(q, g) ==
  /\ g \in [0..Len(q) -> Seq(Signs)]
  /\ g[0] = <<F!Slash>>
  /\ \A i \in 1..Len(q) : g[i] = Longer(g[i - 1], q[i])

-----------------------------------------------------------------------------
(***************************************************************************)
(* Places as they are written.                                             *)
(***************************************************************************)
\* A written path, a name of it after the other, is a text again.
LEMMA NameInText ==
  ASSUME NEW t \in Seq(Signs), NEW n \in Seq(F!Plain)
  PROVE  /\ n \in Seq(Signs) /\ Append(n, F!Slash) \in Seq(Signs)
         /\ t \o n \in Seq(Signs) /\ Longer(t, n) \in Seq(Signs)
<1>1. n \in Seq(Signs)
  <2>1. \A i \in 1..Len(n) : n[i] \in Signs
    BY SignFacts, ElementOfSeq
  <2> QED
    BY <2>1, SeqDef, LenProperties
<1>2. Append(n, F!Slash) \in Seq(Signs)
  BY <1>1, SignFacts, AppendProperties
<1> QED
  BY <1>1, <1>2, ConcatProperties DEF Longer

\* The recursive function in PathText has the values its equation gives.
LEMMA PathTextIs ==
  ASSUME NEW q \in Seq(F!Name)
  PROVE  \E g : Written(q, g) /\ F!PathText(q) = g[Len(q)]
<1>1. PICK n \in Nat : n = Len(q)
  BY LenProperties
<1>2. PICK b \in Seq(Signs) : b = <<F!Slash>>
  <2>1. <<F!Slash>> \in Seq(Signs)
    BY SignFacts
  <2> QED
    BY Zenon, <2>1
<1>3. \A i \in 1..n : q[i] \in Seq(F!Plain)
  BY <1>1, ElementOfSeq DEF F!Name
<1> DEFINE S == Seq(Signs)
           Is(h) == h = [i \in 0..n |-> IF i = 0 THEN b ELSE Longer(h[i - 1], q[i])]
           g == CHOOSE h : Is(h)
           Key == [k \in (0 + 1)..(0 + n) |-> [w \in S |-> Longer(w, q[k])]]
<1>4. \E h : Is(h)
  <2>1. Key \in [(0 + 1)..(0 + n) -> [S -> S]]
    BY <1>3, NameInText
  <2>2. \A k \in (0 + 1)..(0 + n) : \A w \in S : Key[k][w] = Longer(w, q[k])
    OBVIOUS
  <2> HIDE DEF Key
  <2>0. b \in S /\ 0 \in Int /\ n \in Nat
    BY <1>1, <1>2
  <2> HIDE DEF Is, g, S
  <2>8. RunsOf(S, b, 0, n, Key) # {}
    BY ONLY Zenon, <2>0, <2>1, RunExists
  <2>3. PICK h \in RunsOf(S, b, 0, n, Key) : TRUE
    BY ONLY <2>8
  <2>4. /\ h \in [0..(0 + n) -> S]
        /\ \A k \in 0..(0 + n) : h[k] = IF k = 0 THEN b ELSE Key[k][h[k - 1]]
    BY <2>3 DEF RunsOf
  <2>5. ASSUME NEW k \in 0..n PROVE h[k] = IF k = 0 THEN b ELSE Longer(h[k - 1], q[k])
    <3>1. k \in 0..(0 + n) /\ (k # 0 => k \in (0 + 1)..(0 + n) /\ k - 1 \in 0..(0 + n))
      OBVIOUS
    <3> QED
      BY <2>2, <2>4, <3>1
  <2>6. h = [k \in 0..n |-> h[k]]
    BY <2>4
  <2>7. Is(h)
    BY Zenon, <2>5, <2>6 DEF Is
  <2> QED
    BY <2>7
<1>5. F!PathText(q) = g[n]
  BY <1>1, <1>2 DEF F!PathText, Longer
<1>6. Is(g)
  BY Zenon, <1>4
<1> HIDE DEF g
<1>7. DOMAIN g = 0..n /\ g[0] = b /\ \A i \in 1..n : g[i] = Longer(g[i - 1], q[i])
  BY <1>6
<1> DEFINE Kept == {k \in Nat : k <= n => g[k] \in S}
<1>8. 0 \in Kept
  BY <1>7
<1>9. ASSUME NEW k \in Nat, k \in Kept PROVE k + 1 \in Kept
  <2> SUFFICES ASSUME k + 1 <= n PROVE g[k + 1] \in S
    OBVIOUS
  <2>1. k + 1 \in 1..n /\ k + 1 - 1 = k /\ k <= n
    OBVIOUS
  <2>2. g[k + 1] = Longer(g[k], q[k + 1]) /\ g[k] \in S
    BY <1>7, <1>9, <2>1
  <2> QED
    BY <1>3, <2>1, <2>2, NameInText
<1>10. \A k \in Nat : k \in Kept
  <2> HIDE DEF Kept
  <2> QED
    BY Zenon, <1>8, <1>9, SetInduction
<1>11. g \in [0..n -> S]
  <2>1. \A k \in 0..n : g[k] \in S
    BY <1>10
  <2>2. g = [k \in 0..n |-> g[k]]
    BY <1>6
  <2> QED
    BY <2>1, <2>2
<1>12. Written(q, g)
  BY <1>1, <1>2, <1>7, <1>11 DEF Written
<1> QED
  BY <1>1, <1>5, <1>12

\* What is written up to a name depends on the names up to it only.
LEMMA WrittenAlike ==
  ASSUME NEW q \in Seq(F!Name), NEW r \in Seq(F!Name), NEW g, NEW h,
         Written(q, g), Written(r, h), Len(q) <= Len(r),
         \A i \in 1..Len(q) : r[i] = q[i]
  PROVE  h[Len(q)] = g[Len(q)]
<1>1. PICK n \in Nat : n = Len(q)
  BY LenProperties
<1>2. PICK m \in Nat : m = Len(r)
  BY LenProperties
<1> DEFINE Kept == {k \in Nat : k <= n => h[k] = g[k]}
<1>3. 0 \in Kept
  BY Zenon DEF Written
<1>4. ASSUME NEW k \in Nat, k \in Kept PROVE k + 1 \in Kept
  <2> SUFFICES ASSUME k + 1 <= n PROVE h[k + 1] = g[k + 1]
    OBVIOUS
  <2>1. k + 1 \in 1..n /\ k + 1 \in 1..m /\ k + 1 - 1 = k /\ k <= n
    BY <1>1, <1>2
  <2>2. g[k + 1] = Longer(g[k], q[k + 1])
    BY <1>1, <2>1 DEF Written
  <2>3. h[k + 1] = Longer(h[k], r[k + 1])
    BY <1>2, <2>1 DEF Written
  <2> QED
    BY <1>1, <1>4, <2>1, <2>2, <2>3
<1>5. n \in Kept
  <2> HIDE DEF Kept
  <2> QED
    BY <1>3, <1>4, SetInduction
<1> QED
  BY <1>1, <1>5

\* A path is written name after name.
LEMMA PathTextAppend ==
  /\ F!PathText(<<>>) = <<F!Slash>>
  /\ \A q \in Seq(F!Name) : F!PathText(q) \in Seq(Signs)
  /\ \A q \in Seq(F!Name) : \A n \in F!Name :
       F!PathText(Append(q, n)) = F!PathText(q) \o Append(n, F!Slash)
<1>1. F!PathText(<<>>) = <<F!Slash>>
  <2>1. PICK g : Written(<<>>, g) /\ F!PathText(<<>>) = g[Len(<<>>)]
    BY Zenon, PathTextIs, EmptySeq
  <2> QED
    BY Zenon, <2>1, EmptySeq DEF Written
<1>2. ASSUME NEW q \in Seq(F!Name) PROVE F!PathText(q) \in Seq(Signs)
  <2>1. PICK g : Written(q, g) /\ F!PathText(q) = g[Len(q)]
    BY PathTextIs
  <2>2. Len(q) \in 0..Len(q)
    BY LenProperties
  <2> QED
    BY <2>1, <2>2 DEF Written
<1>3. ASSUME NEW q \in Seq(F!Name), NEW n \in F!Name
      PROVE  F!PathText(Append(q, n)) = F!PathText(q) \o Append(n, F!Slash)
  <2>1. PICK m \in Nat : m = Len(q)
    BY LenProperties
  <2>2. PICK r \in Seq(F!Name) : r = Append(q, n)
    BY Zenon, AppendProperties
  <2>3. Len(r) = m + 1 /\ r[m + 1] = n /\ \A i \in 1..m : r[i] = q[i]
    BY <2>1, <2>2, AppendProperties
  <2>4. PICK g : Written(q, g) /\ F!PathText(q) = g[Len(q)]
    BY PathTextIs
  <2>5. PICK h : Written(r, h) /\ F!PathText(r) = h[Len(r)]
    BY PathTextIs
  <2>6. h[m] = g[m]
    <3>1. Len(q) <= Len(r)
      BY <2>1, <2>3
    <3> QED
      BY <2>1, <2>3, <2>4, <2>5, <3>1, WrittenAlike
  <2>7. h[m + 1] = Longer(h[m], n)
    <3>1. m + 1 \in 1..Len(r) /\ m + 1 - 1 = m
      BY <2>1, <2>3
    <3> QED
      BY <2>3, <2>5, <3>1 DEF Written
  <2> QED
    BY <2>1, <2>2, <2>3, <2>4, <2>5, <2>6, <2>7 DEF Longer
<1> QED
  BY <1>1, <1>2, <1>3

\* Two texts that begin alike go the same way.
LEMMA WayAlike ==
  ASSUME NEW s \in Seq(Signs), NEW t \in Seq(Signs), F!Absolute(s) <=> F!Absolute(t),
         NEW m \in Nat, m <= Len(s), m <= Len(t), \A i \in 1..m : s[i] = t[i]
  PROVE  \A i \in 0..m : F!Way(s)[i] = F!Way(t)[i]
<1> DEFINE Kept == {k \in Nat : k <= m => F!Way(s)[k] = F!Way(t)[k]}
<1>1. 0 \in Kept
  <2>1. F!Way(s)[0] = F!Way(t)[0]
    BY Zenon, WayIs DEF StartOf
  <2> QED
    BY <2>1
<1>2. ASSUME NEW k \in Nat, k \in Kept PROVE k + 1 \in Kept
  <2> SUFFICES ASSUME k + 1 <= m PROVE F!Way(s)[k + 1] = F!Way(t)[k + 1]
    OBVIOUS
  <2>1. PICK l \in Nat : l = k + 1
    OBVIOUS
  <2>2. l \in 1..Len(s) /\ l \in 1..Len(t) /\ l - 1 = k /\ l \in 1..m
    BY <2>1, LenProperties
  <2>3. F!Way(s)[l] = F!Onward(F!Way(s)[l - 1], s[l])
    BY <2>2, WayIs
  <2>4. F!Way(t)[l] = F!Onward(F!Way(t)[l - 1], t[l])
    BY <2>2, WayIs
  <2> QED
    BY <1>2, <2>1, <2>2, <2>3, <2>4
<1>3. \A k \in Nat : k \in Kept
  <2> HIDE DEF Kept
  <2> QED
    BY Zenon, <1>1, <1>2, SetInduction
<1> QED
  BY <1>3

\* Where a text leads to.
EndOf(s) == F!Way(s)[Len(s)]

\* A text leads to a place, with a name it ends in.
LEMMA EndTypes ==
  ASSUME NEW s \in Seq(Signs)
  PROVE  /\ EndOf(s) \in Walk /\ EndOf(s).place \in Seq(F!Name) /\ EndOf(s).name \in Seq(F!Plain)
         /\ F!Resolve(s) = F!Enter(EndOf(s).place, EndOf(s).name)
         /\ F!Resolve(s) \in Seq(F!Name)
<1>1. Len(s) \in 0..Len(s)
  BY LenProperties
<1>2. EndOf(s) \in Walk
  BY <1>1, WayIs DEF EndOf
<1>3. EndOf(s).place \in Seq(F!Name) /\ EndOf(s).name \in Seq(F!Plain)
  BY <1>2 DEF Walk
<1> QED
  BY <1>2, <1>3, EntersPlace DEF F!Resolve, F!PlaceAt, EndOf

\* The first text of two leads to where it leads alone.
LEMMA WayConcat ==
  ASSUME NEW t \in Seq(Signs), t # <<>>, NEW r \in Seq(Signs)
  PROVE  /\ t \o r \in Seq(Signs) /\ t \o r # <<>>
         /\ \A i \in 0..Len(t) : F!Way(t \o r)[i] = F!Way(t)[i]
<1>1. PICK u \in Seq(Signs) : u = t \o r
  BY Zenon, ConcatProperties
<1>2. PICK m \in Nat : m = Len(t) /\ m >= 1
  BY EmptySeq, LenProperties
<1>3. m <= Len(u) /\ \A i \in 1..m : u[i] = t[i]
  BY <1>1, <1>2, ConcatProperties, LenProperties
<1>4. u # <<>> /\ (F!Absolute(u) <=> F!Absolute(t))
  BY <1>2, <1>3, EmptySeq DEF F!Absolute
<1>5. \A i \in 0..m : F!Way(u)[i] = F!Way(t)[i]
  <2>1. m <= Len(t)
    BY <1>2
  <2> QED
    BY Zenon, <1>3, <1>4, <2>1, WayAlike
<1> QED
  BY <1>1, <1>2, <1>4, <1>5

\* One sign more leads on from the end.
LEMMA EndAppend ==
  ASSUME NEW t \in Seq(Signs), t # <<>>, NEW c \in Signs
  PROVE  /\ Append(t, c) \in Seq(Signs) /\ Append(t, c) # <<>>
         /\ EndOf(Append(t, c)) = F!Onward(EndOf(t), c)
         /\ \A i \in 0..Len(t) : F!Way(Append(t, c))[i] = F!Way(t)[i]
<1>1. PICK u \in Seq(Signs) : u = Append(t, c)
  BY Zenon, AppendProperties
<1>2. PICK m \in Nat : m = Len(t)
  BY LenProperties
<1>3. /\ u # <<>> /\ Len(u) = m + 1 /\ u[m + 1] = c
  BY <1>1, <1>2, AppendProperties
<1>4. \A i \in 0..m : F!Way(u)[i] = F!Way(t)[i]
  <2>1. <<c>> \in Seq(Signs)
    OBVIOUS
  <2>2. u = t \o <<c>>
    BY <1>1, AppendIsConcat
  <2> QED
    BY ZenonT(30), <1>2, <2>1, <2>2, WayConcat
<1>5. F!Way(u)[m + 1] = F!Onward(F!Way(t)[m], c)
  <2>1. m + 1 \in 1..Len(u) /\ m + 1 - 1 = m /\ m \in 0..m
    BY <1>3
  <2>2. F!Way(u)[m + 1] = F!Onward(F!Way(u)[m + 1 - 1], u[m + 1])
    BY <2>1, WayIs
  <2> QED
    BY <1>3, <1>4, <2>1, <2>2
<1> QED
  BY <1>1, <1>2, <1>3, <1>4, <1>5 DEF EndOf

\* A name after a place is read as it is.
LEMMA EndName ==
  ASSUME NEW t \in Seq(Signs), t # <<>>, EndOf(t).name = <<>>, NEW n \in Seq(F!Plain)
  PROVE  EndOf(t \o n) = [place |-> EndOf(t).place, name |-> n]
<1> DEFINE Such == {xx \in Seq(F!Plain) : EndOf(t \o xx) = [place |-> EndOf(t).place, name |-> xx]}
<1>0. EndOf(t) \in Walk
  BY EndTypes
<1>1. <<>> \in Such
  <2>1. t \o <<>> = t /\ <<>> \in Seq(F!Plain)
    BY ConcatEmptySeq, EmptySeq
  <2>2. EndOf(t) = [place |-> EndOf(t).place, name |-> <<>>]
    BY <1>0 DEF Walk
  <2> QED
    BY <2>1, <2>2
<1>2. ASSUME NEW p \in Seq(F!Plain), NEW e \in F!Plain, p \in Such PROVE Append(p, e) \in Such
  <2>1. p \in Seq(Signs) /\ t \o p \in Seq(Signs)
    BY NameInText
  <2>2. e \in Signs /\ e # F!Slash
    BY SignFacts
  <2>3. t \o Append(p, e) = Append(t \o p, e)
    <3>1. Append(p, e) = p \o <<e>> /\ Append(t \o p, e) = (t \o p) \o <<e>> /\ <<e>> \in Seq(Signs)
      BY <2>1, <2>2, AppendIsConcat
    <3> QED
      BY <2>1, <3>1, ConcatAssociative
  <2>4. t \o p # <<>>
    BY <2>1, WayConcat
  <2>5. EndOf(Append(t \o p, e)) = F!Onward(EndOf(t \o p), e)
    BY Zenon, <2>1, <2>2, <2>4, EndAppend
  <2>6. F!Onward([place |-> EndOf(t).place, name |-> p], e) = [place |-> EndOf(t).place, name |-> Append(p, e)]
    BY <2>2 DEF F!Onward
  <2>7. Append(p, e) \in Seq(F!Plain)
    BY AppendProperties
  <2> QED
    BY Zenon, <1>2, <2>3, <2>5, <2>6, <2>7
<1>3. Seq(F!Plain) \subseteq Such
  <2> HIDE DEF Such
  <2> QED
    BY <1>1, <1>2, ListInduction
<1> QED
  BY <1>3

\* A path that is written leads to its place.
LEMMA EndPath ==
  ASSUME NEW q \in Seq(F!Name)
  PROVE  /\ F!PathText(q) # <<>> /\ F!PathText(q)[Len(F!PathText(q))] = F!Slash
         /\ F!PathText(q)[1] = F!Slash
         /\ EndOf(F!PathText(q)) = [place |-> q, name |-> <<>>]
<1> DEFINE Fine(p) == /\ F!PathText(p) # <<>> /\ F!PathText(p)[Len(F!PathText(p))] = F!Slash
                      /\ F!PathText(p)[1] = F!Slash
                      /\ EndOf(F!PathText(p)) = [place |-> p, name |-> <<>>]
           Such == {p \in Seq(F!Name) : Fine(p)}
<1>1. <<>> \in Such
  <2>1. PICK t \in Seq(Signs) : t = <<F!Slash>> /\ Len(t) = 1 /\ t[1] = F!Slash /\ t # <<>>
    <3>1. <<F!Slash>> \in Seq(Signs)
      BY SignFacts
    <3> QED
      BY Zenon, <3>1
  <2>2. F!Way(t)[0] = [place |-> <<>>, name |-> <<>>]
    BY Zenon, <2>1, WayIs DEF StartOf, F!Absolute
  <2>3. F!Way(t)[1] = F!Onward(F!Way(t)[0], t[1])
    <3>1. 1 \in 1..Len(t) /\ 1 - 1 = 0
      BY <2>1
    <3> QED
      BY <3>1, WayIs
  <2>4. F!Onward([place |-> <<>>, name |-> <<>>], F!Slash) = [place |-> <<>>, name |-> <<>>]
    BY DEF F!Onward, F!Enter
  <2> QED
    BY Zenon, <2>1, <2>2, <2>3, <2>4, PathTextAppend, EmptySeq DEF EndOf
<1>2. ASSUME NEW p \in Seq(F!Name), NEW n \in F!Name, p \in Such PROVE Append(p, n) \in Such
  <2>1. PICK t \in Seq(Signs) : t = F!PathText(p)
    BY PathTextAppend
  <2>2. t # <<>> /\ t[1] = F!Slash /\ EndOf(t) = [place |-> p, name |-> <<>>]
    BY <1>2, <2>1
  <2>3. n \in Seq(F!Plain) /\ n \notin {<<>>, <<F!Dot>>} /\ n # F!Up
    BY DEF F!Name
  <2>4. PICK u \in Seq(Signs) : u = t \o n
    BY Zenon, <2>3, NameInText
  <2>5. u # <<>> /\ EndOf(u) = [place |-> p, name |-> n]
    <3>1. n \in Seq(Signs)
      BY <2>3, NameInText
    <3>2. u # <<>>
      BY <2>2, <2>4, <3>1, WayConcat
    <3>3. EndOf(t).name = <<>> /\ EndOf(t).place = p
      BY <2>2
    <3> QED
      BY Zenon, <2>2, <2>3, <2>4, <3>2, <3>3, EndName
  <2>6. F!PathText(Append(p, n)) = Append(u, F!Slash)
    <3>1. <<F!Slash>> \in Seq(Signs) /\ n \in Seq(Signs)
      BY <2>3, SignFacts, NameInText
    <3>2. Append(n, F!Slash) = n \o <<F!Slash>> /\ Append(u, F!Slash) = u \o <<F!Slash>>
      BY Zenon, <3>1, SignFacts, AppendIsConcat
    <3>3. F!PathText(Append(p, n)) = t \o Append(n, F!Slash)
      BY Zenon, <2>1, PathTextAppend
    <3> QED
      BY <2>4, <3>1, <3>2, <3>3, ConcatAssociative
  <2>7. EndOf(Append(u, F!Slash)) = [place |-> Append(p, n), name |-> <<>>]
    <3>1. EndOf(Append(u, F!Slash)) = F!Onward(EndOf(u), F!Slash)
      BY <2>5, SignFacts, EndAppend
    <3>2. F!Enter(p, n) = Append(p, n)
      BY <2>3 DEF F!Enter
    <3>3. F!Onward([place |-> p, name |-> n], F!Slash) = [place |-> F!Enter(p, n), name |-> <<>>]
      BY DEF F!Onward
    <3> QED
      BY <2>5, <3>1, <3>2, <3>3
  <2>8. /\ Append(u, F!Slash) # <<>> /\ Append(u, F!Slash)[Len(Append(u, F!Slash))] = F!Slash
        /\ Append(u, F!Slash)[1] = F!Slash
    <3>1. u[1] = F!Slash /\ 1 \in 1..Len(u)
      <4>1. Len(t) >= 1 /\ Len(t) \in Nat /\ n \in Seq(Signs)
        BY <2>2, <2>3, EmptySeq, LenProperties, NameInText
      <4>2. Len(u) = Len(t) + Len(n) /\ Len(n) \in Nat
        BY <2>4, <4>1, ConcatProperties, LenProperties
      <4>3. 1 \in 1..(Len(t) + Len(n)) /\ 1 <= Len(t)
        BY <4>1, <4>2
      <4> QED
        BY <2>2, <2>4, <4>1, <4>2, <4>3, ConcatProperties
    <3> QED
      BY <3>1, SignFacts, AppendProperties, LenProperties
  <2>9. Append(p, n) \in Seq(F!Name)
    BY AppendProperties
  <2> QED
    BY Zenon, <2>6, <2>7, <2>8, <2>9
<1>3. Seq(F!Name) \subseteq Such
  <2> HIDE DEF Such
  <2> QED
    BY <1>1, <1>2, ListInduction
<1> QED
  BY <1>3

\* A path with a name after it: its last slash is that of the path.
Shape(q, n, r, t, u, m) ==
  /\ t = F!PathText(q) /\ u = t \o r /\ m = Len(t) /\ t # <<>>
  /\ t[m] = F!Slash /\ Len(u) = m + Len(r) /\ u # <<>>
  /\ \A i \in 1..m : u[i] = t[i]
  /\ \A i \in (m + 1)..(m + Len(n)) : u[i] = n[i - m] /\ u[i] # F!Slash
  /\ SubSeq(u, 1, m) = t

\* What canonize_path leaves has a last slash, and after it a name.
LEMMA TextShape ==
  ASSUME NEW q \in Seq(F!Name), NEW n \in Seq(F!Plain), NEW r \in Seq(Signs),
         r = n \/ r = Append(n, F!Slash)
  PROVE  \E t \in Seq(Signs), u \in Seq(Signs), m \in Nat \ {0} : Shape(q, n, r, t, u, m)
<1>1. PICK t \in Seq(Signs) : t = F!PathText(q)
  BY PathTextAppend
<1>2. PICK u \in Seq(Signs) : u = t \o r
  BY Zenon, ConcatProperties
<1>3. PICK m \in Nat \ {0} : m = Len(t) /\ t # <<>> /\ t[m] = F!Slash
  BY <1>1, EndPath, EmptySeq
<1>4. PICK k \in Nat : k = Len(n)
  BY LenProperties
<1>5. PICK l \in Nat : l = Len(r) /\ l >= k /\ \A i \in 1..k : r[i] = n[i]
  <2>1. n \in Seq(Signs) /\ F!Slash \in Signs
    BY <1>1, NameInText, SignFacts
  <2>2. r = Append(n, F!Slash) => Len(r) = k + 1 /\ \A i \in 1..k : r[i] = n[i]
    BY <1>4, <2>1, AppendProperties
  <2>3. Len(r) \in Nat
    BY LenProperties
  <2>4. CASE r = n
    BY <1>4, <2>4
  <2>5. CASE r = Append(n, F!Slash)
    <3>1. Len(r) = k + 1 /\ \A i \in 1..k : r[i] = n[i]
      BY ONLY <2>2, <2>5
    <3>2. Len(r) >= k
      BY <3>1
    <3> HIDE <2>5
    <3> QED
      BY <2>3, <3>1, <3>2
  <2> QED
    BY <2>4, <2>5
<1>6. Len(u) = m + l /\ \A i \in 1..(m + l) : u[i] = IF i <= m THEN t[i] ELSE r[i - m]
  BY <1>2, <1>3, <1>5, ConcatProperties
<1>7. \A i \in 1..m : u[i] = t[i]
  BY SMTT(30), <1>5, <1>6
<1>8. ASSUME NEW i \in (m + 1)..(m + k) PROVE u[i] = n[i - m] /\ u[i] # F!Slash
  <2>1. i - m \in 1..k /\ ~(i <= m) /\ i \in 1..(m + l)
    BY <1>5
  <2>2. n[i - m] \in F!Plain
    BY <1>4, <2>1, ElementOfSeq
  <2> QED
    BY Zenon, <1>5, <1>6, <2>1, <2>2, SignFacts
<1>9. u # <<>>
  BY <1>3, <1>6, EmptySeq
<1>10. SubSeq(u, 1, m) = t
  <2>1. \A i \in 1..m : u[i] \in Signs
    BY <1>3, <1>7, ElementOfSeq
  <2>2. /\ SubSeq(u, 1, m) \in Seq(Signs) /\ Len(SubSeq(u, 1, m)) = m
        /\ \A i \in 1..m : SubSeq(u, 1, m)[i] = u[i]
    BY <2>1, SubSeqProperties
  <2> QED
    BY <1>3, <1>7, <2>2, SeqEqual
<1> QED
  BY ZenonT(30), <1>1, <1>2, <1>3, <1>4, <1>5, <1>6, <1>7, <1>8, <1>9, <1>10 DEF Shape

\* The place before a place.
LEMMA FrontOf ==
  ASSUME NEW p \in Seq(F!Name), NEW n \in F!Name
  PROVE  /\ F!Front(Append(p, n)) = p /\ Append(p, n) # <<>> /\ Append(p, n) \in Seq(F!Name)
         /\ Append(p, n) \in Dirs => p \in Dirs
<1>1. PICK v \in Seq(F!Name) : v = Append(p, n)
  BY Zenon, AppendProperties
<1>2. PICK m \in Nat : m = Len(p)
  BY LenProperties
<1>3. v # <<>> /\ Len(v) = m + 1 /\ \A i \in 1..m : v[i] = p[i]
  BY <1>1, <1>2, AppendProperties
<1>4. SubSeq(v, 1, m) = p
  <2>1. \A i \in 1..m : v[i] \in F!Name
    BY <1>2, <1>3, ElementOfSeq
  <2>2. /\ SubSeq(v, 1, m) \in Seq(F!Name) /\ Len(SubSeq(v, 1, m)) = m
        /\ \A i \in 1..m : SubSeq(v, 1, m)[i] = v[i]
    BY <2>1, SubSeqProperties
  <2> QED
    BY <1>2, <1>3, <2>2, SeqEqual
<1>5. F!Front(v) = p
  BY <1>3, <1>4 DEF F!Front
<1> QED
  BY Zenon, <1>1, <1>3, <1>5, FileFacts

\* All directories on the way to a directory are there.
LEMMA DirsAlong ==
  ASSUME NEW q \in Dirs, NEW i \in 1..Len(F!PathText(q)), F!PathText(q)[i] = F!Slash
  PROVE  F!PlaceAt(F!PathText(q), i) \in Dirs
<1> DEFINE Along(p) == \A j \in 1..Len(F!PathText(p)) :
                         F!PathText(p)[j] = F!Slash => F!PlaceAt(F!PathText(p), j) \in Dirs
           Such == {p \in Seq(F!Name) : p \in Dirs => Along(p)}
<1>1. <<>> \in Such
  <2>1. Len(F!PathText(<<>>)) = 1 /\ <<>> \in Seq(F!Name)
    BY PathTextAppend, EmptySeq
  <2>2. F!PlaceAt(F!PathText(<<>>), 1) = <<>>
    <3>1. EndOf(F!PathText(<<>>)) = [place |-> <<>>, name |-> <<>>]
      BY Zenon, <2>1, EndPath
    <3>2. F!Enter(<<>>, <<>>) = <<>>
      BY DEF F!Enter
    <3>3. F!Way(F!PathText(<<>>))[1] = [place |-> <<>>, name |-> <<>>]
      BY Zenon, <2>1, <3>1 DEF EndOf
    <3>4. [place |-> <<>>, name |-> <<>>].place = <<>> /\ [place |-> <<>>, name |-> <<>>].name = <<>>
      OBVIOUS
    <3> QED
      BY <3>2, <3>3, <3>4 DEF F!PlaceAt
  <2>3. \A j \in 1..1 : j = 1
    OBVIOUS
  <2> QED
    BY <2>1, <2>2, <2>3, FileFacts
<1>2. ASSUME NEW p \in Seq(F!Name), NEW n \in F!Name, p \in Such PROVE Append(p, n) \in Such
  <2> SUFFICES ASSUME Append(p, n) \in Dirs PROVE Along(Append(p, n))
    BY FrontOf
  <2>1. p \in Dirs /\ Along(p)
    BY <1>2, FrontOf
  <2>2. n \in Seq(F!Plain)
    BY DEF F!Name
  <2>3. PICK r \in Seq(Signs) : r = Append(n, F!Slash)
    BY Zenon, <2>2, NameInText, EmptySeq
  <2>0. PICK t \in Seq(Signs), u \in Seq(Signs), m \in Nat \ {0} : Shape(p, n, r, t, u, m)
    BY Zenon, <2>2, <2>3, TextShape
  <2>4. /\ t = F!PathText(p) /\ u = t \o r /\ m = Len(t) /\ t # <<>> /\ u # <<>>
        /\ Len(u) = m + Len(r)
        /\ \A j \in 1..m : u[j] = t[j]
        /\ \A j \in (m + 1)..(m + Len(n)) : u[j] # F!Slash
    BY Zenon, <2>0 DEF Shape
  <2>5. u = F!PathText(Append(p, n))
    BY Zenon, <2>3, <2>4, PathTextAppend
  <2>6. Len(r) = Len(n) + 1 /\ Len(n) \in Nat
    BY <2>2, <2>3, NameInText, SignFacts, AppendProperties, LenProperties, EmptySeq
  <2>7. ASSUME NEW j \in 1..Len(u), u[j] = F!Slash PROVE F!PlaceAt(u, j) \in Dirs
    <3>0. PICK k \in Nat : k = Len(n)
      BY <2>6
    <3>4. j \in 1..(m + (k + 1))
      BY <2>4, <2>6, <3>0
    <3>1. j \in 1..m \/ j \in (m + 1)..(m + Len(n)) \/ j = m + Len(n) + 1
      <4>1. m \in Nat /\ k \in Nat /\ j \in Int /\ 1 <= j /\ j <= m + (k + 1)
        BY <3>4
      <4>2. j \in 1..m \/ j \in (m + 1)..(m + k) \/ j = m + k + 1
        BY ONLY <4>1
      <4> QED
        BY <3>0, <4>2
    <3>2. CASE j \in 1..m
      <4>1. F!Way(u)[j] = F!Way(t)[j]
        <5>1. j \in 0..Len(t)
          BY <2>4, <3>2
        <5> QED
          BY <2>4, <5>1, WayConcat
      <4>2. j \in 1..Len(t) /\ t[j] = F!Slash
        BY <2>4, <2>7, <3>2
      <4>3. F!PlaceAt(t, j) \in Dirs
        BY <2>1, <2>4, <4>2
      <4> QED
        BY <4>1, <4>3 DEF F!PlaceAt
    <3>3. CASE j = m + Len(n) + 1
      <4>1. j = Len(u)
        BY <2>4, <2>6, <3>3
      <4>2. EndOf(u) = [place |-> Append(p, n), name |-> <<>>]
        BY Zenon, <2>5, FrontOf, EndPath
      <4> QED
        BY <4>1, <4>2 DEF F!PlaceAt, EndOf, F!Enter
    <3> QED
      BY Zenon, <2>4, <2>7, <3>1, <3>2, <3>3
  <2> QED
    BY <2>5, <2>7
<1>3. Seq(F!Name) \subseteq Such
  <2> HIDE DEF Such
  <2> QED
    BY <1>1, <1>2, ListInduction
<1> QED
  BY <1>3, FileFacts

\* stat finds what a written path leads to.
LEMMA IsDirThere ==
  ASSUME NEW q \in Seq(F!Name), NEW n \in F!Name \cup {<<>>}
  PROVE  /\ EndOf(F!PathText(q) \o n) = [place |-> q, name |-> n]
         /\ F!Resolve(F!PathText(q) \o n) = F!Enter(q, n)
         /\ F!IsDir(F!PathText(q) \o n) <=> F!Enter(q, n) \in Dirs
<1>1. n \in Seq(F!Plain) /\ n \in Seq(Signs)
  <2>1. n \in Seq(F!Plain)
    BY ZenonT(30), EmptySeq DEF F!Name
  <2>2. <<>> \in Seq(Signs)
    BY EmptySeq
  <2> QED
    BY Zenon, <2>1, <2>2, NameInText
<1>0. PICK t \in Seq(Signs), u \in Seq(Signs), m \in Nat \ {0} : Shape(q, n, n, t, u, m)
  BY <1>1, TextShape
<1>2. /\ t = F!PathText(q) /\ u = t \o n /\ m = Len(t) /\ t # <<>> /\ u # <<>>
      /\ Len(u) = m + Len(n)
      /\ \A j \in 1..m : u[j] = t[j]
      /\ \A j \in (m + 1)..(m + Len(n)) : u[j] # F!Slash
  BY <1>0 DEF Shape
<1>3. EndOf(u) = [place |-> q, name |-> n]
  <2>1. EndOf(t).name = <<>> /\ EndOf(t).place = q
    BY <1>2, EndPath
  <2> QED
    BY <1>1, <1>2, <2>1, EndName
<1>4. F!Resolve(u) = F!Enter(q, n)
  BY <1>3, EndTypes
<1>5. Len(n) \in Nat /\ Len(u) \in 1..Len(u)
  BY <1>1, <1>2, LenProperties
<1>6. F!IsDir(u) => F!Enter(q, n) \in Dirs
  BY <1>4, <1>5 DEF F!IsDir, F!Resolve
<1>7. ASSUME F!Enter(q, n) \in Dirs PROVE F!IsDir(u)
  <2>1. q \in Dirs
    <3>1. CASE n = <<>>
      BY <1>7, <3>1 DEF F!Enter
    <3>2. CASE n \in F!Name
      <4>1. F!Enter(q, n) = Append(q, n)
        BY <3>2 DEF F!Enter, F!Name
      <4> QED
        BY <1>7, <3>2, <4>1, FrontOf
    <3> QED
      BY <3>1, <3>2
  <2>2. ASSUME NEW j \in 1..Len(u), j = Len(u) \/ u[j] = F!Slash PROVE F!PlaceAt(u, j) \in Dirs
    <3>1. CASE j = Len(u)
      BY <1>4, <1>7, <3>1 DEF F!Resolve
    <3>2. CASE j # Len(u)
      <4>1. j \in 1..m \/ j \in (m + 1)..(m + Len(n))
        BY <1>2, <1>5
      <4>2. j \in 1..m
        BY Zenon, <1>2, <2>2, <3>2, <4>1
      <4>3. F!Way(u)[j] = F!Way(t)[j]
        <5>1. j \in 0..Len(t)
          BY <1>2, <4>2
        <5> QED
          BY <1>1, <1>2, <5>1, WayConcat
      <4>4. j \in 1..Len(t) /\ t[j] = F!Slash
        BY <1>2, <2>2, <3>2, <4>2
      <4>5. F!PlaceAt(t, j) \in Dirs
        BY <1>2, <2>1, <4>4, DirsAlong
      <4> QED
        BY <4>3, <4>5 DEF F!PlaceAt
    <3> QED
      BY <3>1, <3>2
  <2> QED
    BY <1>2, <2>2 DEF F!IsDir
<1> QED
  BY <1>2, <1>3, <1>4, <1>6, <1>7

-----------------------------------------------------------------------------
(***************************************************************************)
(* canonize_path: the last slash, a step back, and the turns of its loop.  *)
(***************************************************************************)
\* The last slash of a path with a name after it is that of the path.
LEMMA LastSlashIs ==
  ASSUME NEW q \in Seq(F!Name), NEW n \in Seq(F!Plain), NEW u, u = F!PathText(q) \o n
  PROVE  /\ u \in Seq(Signs) /\ u # <<>>
         /\ SubSeq(u, 1, F!LastSlash(u)) = F!PathText(q)
         /\ SubSeq(u, F!LastSlash(u) + 1, Len(u)) = n
         /\ \E i \in DOMAIN u : u[i] = F!Slash
<1>1. n \in Seq(Signs)
  BY Zenon, NameInText, EmptySeq
<1>2. PICK t \in Seq(Signs), v \in Seq(Signs), m \in Nat \ {0} : Shape(q, n, n, t, v, m)
  BY <1>1, TextShape
<1>3. /\ t = F!PathText(q) /\ v = u /\ m = Len(t) /\ t # <<>> /\ u # <<>>
      /\ Len(u) = m + Len(n) /\ t[m] = F!Slash
      /\ \A j \in 1..m : u[j] = t[j]
      /\ \A j \in (m + 1)..(m + Len(n)) : u[j] = n[j - m] /\ u[j] # F!Slash
      /\ SubSeq(u, 1, m) = t
  BY <1>2 DEF Shape
<1>4. PICK k \in Nat : k = Len(n)
  BY LenProperties
<1>5. u \in Seq(Signs) /\ DOMAIN u = 1..(m + k)
  BY <1>3, <1>4, LenProperties
<1>6. F!LastSlash(u) = m
  <2>1. m \in DOMAIN u /\ u[m] = F!Slash
    BY <1>3, <1>5
  <2>2. \A j \in DOMAIN u : u[j] = F!Slash => j <= m
    BY <1>3, <1>4, <1>5
  <2> QED
    BY <1>5, <2>1, <2>2 DEF F!LastSlash
<1>7. SubSeq(u, m + 1, m + k) = n
  <2>1. \A j \in (m + 1)..(m + k) : j \in 1..Len(n) \/ j - m \in 1..k
    OBVIOUS
  <2>2. \A j \in (m + 1)..(m + k) : u[j] \in F!Plain
    BY <1>3, <1>4, <2>1, ElementOfSeq, LenProperties
  <2>6. PICK a \in Int : a = m + 1
    OBVIOUS
  <2>7. PICK b \in Int : b = m + k
    OBVIOUS
  <2>8. \A j \in a..b : u[j] \in F!Plain
    BY Zenon, <2>2, <2>6, <2>7
  <2>9. /\ SubSeq(u, a, b) \in Seq(F!Plain)
        /\ Len(SubSeq(u, a, b)) = IF a <= b THEN b - a + 1 ELSE 0
        /\ \A j \in 1..(b - a + 1) : SubSeq(u, a, b)[j] = u[a + j - 1]
    BY ONLY <2>8, a \in Int, b \in Int, SubSeqProperties
  <2>3. PICK xx \in Seq(F!Plain) : xx = SubSeq(u, a, b)
    BY Zenon, <2>9
  <2>4. Len(xx) = k /\ \A j \in 1..k : xx[j] = u[m + j]
    <3>4. b - a + 1 = k /\ (~(a <= b) => k = 0) /\ \A j \in 1..k : a + j - 1 = m + j
      BY <2>6, <2>7
    <3> QED
      BY Zenon, <2>3, <2>9, <3>4
  <2>5. \A j \in 1..k : xx[j] = n[j]
    <3> SUFFICES ASSUME NEW j \in 1..k PROVE xx[j] = n[j]
      OBVIOUS
    <3>1. PICK l \in Int : l = m + j
      OBVIOUS
    <3>2. l \in (m + 1)..(m + k) /\ l - m = j
      BY <3>1
    <3> QED
      BY <1>3, <1>4, <2>4, <3>1, <3>2
  <2> QED
    BY Zenon, <1>4, <2>3, <2>4, <2>5, <2>6, <2>7, SeqEqual
<1>8. Len(u) = m + k /\ m \in DOMAIN u
  BY <1>3, <1>4, <1>5
<1>9. \E i \in DOMAIN u : u[i] = F!Slash
  BY SMTT(30), <1>3, <1>8
<1>10. SubSeq(u, 1, F!LastSlash(u)) = F!PathText(q) /\ SubSeq(u, F!LastSlash(u) + 1, Len(u)) = n
  BY Zenon, <1>3, <1>6, <1>7, <1>8
<1> QED
  BY Zenon, <1>3, <1>5, <1>9, <1>10

\* A step back from a path cuts its last name off.
LEMMA BackIs ==
  ASSUME NEW q \in Seq(F!Name)
  PROVE  F!Back(F!PathText(q)) = F!PathText(F!Enter(q, F!Up))
<1>1. CASE q = <<>>
  <2>1. PICK t \in Seq(Signs) : t = F!PathText(q) /\ t = <<F!Slash>> /\ Len(t) = 1
    BY Zenon, <1>1, PathTextAppend
  <2>2. F!Enter(q, F!Up) = q
    BY <1>1 DEF F!Enter, F!Up
  <2>3. {i \in 1..(Len(t) - 1) : t[i] = F!Slash} = {}
    BY <2>1
  <2> QED
    BY Zenon, <2>1, <2>2, <2>3 DEF F!Back
<1>2. CASE q # <<>>
  <2>1. PICK p \in Seq(F!Name), n \in F!Name : q = Append(p, n)
    BY <1>2, SequenceEmptyOrAppend
  <2>2. n \in Seq(F!Plain)
    BY DEF F!Name
  <2>3. PICK r \in Seq(Signs) : r = Append(n, F!Slash)
    BY Zenon, <2>2, NameInText, EmptySeq
  <2>4. PICK t \in Seq(Signs), u \in Seq(Signs), m \in Nat \ {0} : Shape(p, n, r, t, u, m)
    BY Zenon, <2>2, <2>3, TextShape
  <2>5. /\ t = F!PathText(p) /\ u = t \o r /\ t[m] = F!Slash /\ Len(u) = m + Len(r)
        /\ \A j \in 1..m : u[j] = t[j]
        /\ \A j \in (m + 1)..(m + Len(n)) : u[j] # F!Slash
        /\ SubSeq(u, 1, m) = t
    BY Zenon, <2>4 DEF Shape
  <2>6. u = F!PathText(q)
    BY Zenon, <2>1, <2>3, <2>5, PathTextAppend
  <2>7. PICK k \in Nat : k = Len(n) /\ Len(u) - 1 = m + k
    <3>1. n \in Seq(Signs) /\ F!Slash \in Signs
      BY <2>2, NameInText, EmptySeq, SignFacts
    <3>2. Len(r) = Len(n) + 1 /\ Len(n) \in Nat
      BY <2>3, <3>1, AppendProperties, LenProperties
    <3> QED
      BY <2>5, <3>2
  <2>8. F!Enter(q, F!Up) = p
    <3>1. F!Front(q) = p
      BY <2>1, FrontOf
    <3> QED
      BY <1>2, <3>1 DEF F!Enter, F!Up
  <2> DEFINE slashes == {i \in 1..(Len(u) - 1) : u[i] = F!Slash}
  <2>9. m \in slashes /\ \A i \in slashes : i \in Nat /\ i <= m
    <3>1. slashes = {i \in 1..(m + k) : u[i] = F!Slash}
      BY <2>7
    <3>2. m \in 1..(m + k) /\ u[m] = F!Slash
      BY <2>5
    <3>3. ASSUME NEW i \in 1..(m + k), u[i] = F!Slash PROVE i <= m
      BY <2>5, <2>7, <3>3
    <3> HIDE DEF slashes
    <3> QED
      BY <3>1, <3>2, <3>3
  <2>10. (CHOOSE a \in slashes : \A i \in slashes : i <= a) = m
    <3>1. PICK c : c = CHOOSE a \in slashes : \A i \in slashes : i <= a
      OBVIOUS
    <3> HIDE DEF slashes
    <3>2. c \in slashes /\ \A i \in slashes : i <= c
      BY Zenon, <2>9, <3>1
    <3> QED
      BY <2>9, <3>1, <3>2
  <2>11. F!Back(u) = SubSeq(u, 1, m)
    <3>1. slashes # {}
      BY Zenon, <2>9
    <3>2. F!Back(u) = IF slashes = {} THEN <<F!Slash>>
                      ELSE SubSeq(u, 1, CHOOSE a \in slashes : \A i \in slashes : i <= a)
      BY DEF F!Back
    <3> HIDE DEF slashes
    <3> QED
      BY Zenon, <2>10, <3>1, <3>2
  <2> QED
    BY <2>5, <2>6, <2>8, <2>11
<1> QED
  BY <1>1, <1>2

-----------------------------------------------------------------------------
\* The turns of the loop of canonize_path.
StartsAt(s, i) == i = 1 \/ F!At(s, i - 1) = F!Slash
UpAt(s, i) == StartsAt(s, i) /\ F!At(s, i) = F!Dot /\ F!At(s, i + 1) = F!Dot /\ F!EndsName(s, i + 2)
DotAt(s, i) == StartsAt(s, i) /\ F!At(s, i) = F!Dot /\ F!EndsName(s, i + 1)
TwiceAt(s, i) == i > 1 /\ StartsAt(s, i) /\ F!At(s, i) = F!Slash

\* The end of the text is no sign of it.
LEMMA AtFacts ==
  ASSUME NEW s \in Seq(Signs), NEW i \in Nat, i >= 1
  PROVE  /\ i <= Len(s) => F!At(s, i) = s[i] /\ F!At(s, i) \in Signs
         /\ ~(i <= Len(s)) => F!At(s, i) = F!End
         /\ F!At(s, i) = F!End <=> ~(i <= Len(s))
<1>1. Len(s) \in Nat
  BY LenProperties
<1>2. i <= Len(s) => s[i] \in Signs
  BY <1>1, ElementOfSeq
<1> QED
  BY <1>1, <1>2, SignFacts DEF F!At

\* A sign that is taken over.
Took(b, c) == Append(b, c)

\* A turn of the loop does one of five things, by what it stands at.
LEMMA TurnIs ==
  ASSUME NEW s \in Seq(Signs), NEW i \in Nat, i >= 1, NEW b \in Seq(Signs),
         NEW p, p = [at |-> i, buf |-> b]
  PROVE  /\ i > Len(s) => F!CanonizeTurn(s, p) = p
         /\ i <= Len(s) /\ UpAt(s, i)
              => F!CanonizeTurn(s, p) = [at |-> F!After(s, i + 2), buf |-> F!Back(b)]
         /\ i <= Len(s) /\ ~UpAt(s, i) /\ DotAt(s, i)
              => F!CanonizeTurn(s, p) = [at |-> F!After(s, i + 1), buf |-> b]
         /\ i <= Len(s) /\ TwiceAt(s, i)
              => F!CanonizeTurn(s, p) = [at |-> i + 1, buf |-> b]
         /\ i <= Len(s) /\ ~UpAt(s, i) /\ ~DotAt(s, i) /\ ~TwiceAt(s, i)
              => F!CanonizeTurn(s, p) = [at |-> i + 1, buf |-> Took(b, s[i])]
<1>1. Len(s) \in Nat /\ (i > Len(s) <=> ~(i <= Len(s)))
  BY LenProperties
<1>2. i > Len(s) => ~UpAt(s, i) /\ ~DotAt(s, i) /\ ~TwiceAt(s, i)
  BY <1>1, AtFacts, SignFacts DEF UpAt, DotAt, TwiceAt
<1>3. TwiceAt(s, i) => ~UpAt(s, i) /\ ~DotAt(s, i)
  BY SignFacts DEF UpAt, DotAt, TwiceAt
<1>4. i <= Len(s) => F!At(s, i) = s[i]
  BY AtFacts
<1>5. /\ p.at = i /\ p.buf = b
      /\ \A j : [p EXCEPT !.at = j] = [at |-> j, buf |-> b]
  OBVIOUS
<1>6. F!CanonizeTurn(s, p) =
        CASE i > Len(s) -> p
          [] UpAt(s, i) -> [at |-> F!After(s, i + 2), buf |-> F!Back(b)]
          [] ~ UpAt(s, i) /\ DotAt(s, i) -> [at |-> F!After(s, i + 1), buf |-> b]
          [] TwiceAt(s, i) -> [at |-> i + 1, buf |-> b]
          [] OTHER -> [at |-> i + 1, buf |-> Took(b, F!At(s, i))]
  BY <1>5 DEF F!CanonizeTurn, Took, UpAt, DotAt, TwiceAt, StartsAt
<1> HIDE DEF UpAt, DotAt, TwiceAt
<1> QED
  BY <1>1, <1>2, <1>3, <1>4, <1>6

\* The two names that are no names.
Dotted == {<<F!Dot>>, F!Up}

\* Where the loop may be, at character i with b written: b names the place
\* the text has led to, with the part of a name that was read after it.
Going(s, i, b) ==
  /\ ~(i = 1 /\ F!Absolute(s))
  /\ b = F!PathText(F!Way(s)[i - 1].place) \o F!Way(s)[i - 1].name
  /\ F!Way(s)[i - 1].name \in Dotted => ~F!EndsName(s, i)
  /\ F!Way(s)[i - 1].name = <<F!Dot>> => ~(F!At(s, i) = F!Dot /\ F!EndsName(s, i + 1))
AtRoot(s, i, b) == i = 1 /\ F!Absolute(s) /\ b = <<>>
GoneUp(s, i, b) == i = Len(s) + 1 /\ EndOf(s).name \in Dotted /\ b = F!PathText(F!Resolve(s))
Right(s, i, b) == Going(s, i, b) \/ AtRoot(s, i, b) \/ GoneUp(s, i, b)

\* A name starts where the part of one that was read is empty.
LEMMA StartsIs ==
  ASSUME NEW s \in Seq(Signs), NEW i \in 1..(Len(s) + 1)
  PROVE  /\ F!Way(s)[i - 1].place \in Seq(F!Name) /\ F!Way(s)[i - 1].name \in Seq(F!Plain)
         /\ StartsAt(s, i) <=> F!Way(s)[i - 1].name = <<>>
<1>1. Len(s) \in Nat
  BY LenProperties
<1>2. F!Way(s)[i - 1] \in Walk
  <2>1. i - 1 \in 0..Len(s)
    BY <1>1
  <2> QED
    BY <2>1, WayIs
<1>3. F!Way(s)[i - 1].place \in Seq(F!Name) /\ F!Way(s)[i - 1].name \in Seq(F!Plain)
  BY <1>2 DEF Walk
<1>4. CASE i = 1
  <2>1. F!Way(s)[0].name = <<>> /\ i - 1 = 0
    <3>1. F!Way(s)[0] = StartOf(s)
      BY WayIs
    <3>2. StartOf(s).name = <<>>
      BY DEF StartOf
    <3> QED
      BY <1>4, <3>1, <3>2
  <2> QED
    BY <1>3, <1>4, <2>1 DEF StartsAt
<1>5. CASE i # 1
  <2>1. PICK j \in Nat : j = i - 1
    BY <1>1
  <2>2. j \in 1..Len(s) /\ j >= 1 /\ j <= Len(s)
    BY <1>1, <1>5, <2>1
  <2>3. F!At(s, j) = s[j] /\ s[j] \in Signs
    BY <2>2, AtFacts, ElementOfSeq
  <2>4. CASE s[j] = F!Slash
    BY <1>3, <2>1, <2>2, <2>3, <2>4, WayAt DEF StartsAt
  <2>5. CASE s[j] # F!Slash
    <3>1. F!Way(s)[j].name = Append(F!Way(s)[j - 1].name, s[j]) /\ F!Way(s)[j - 1].name \in Seq(F!Plain)
      BY <2>2, <2>5, WayAt DEF Walk
    <3>2. s[j] \in F!Plain
      BY <2>3, <2>5, SignFacts
    <3>3. F!Way(s)[j].name # <<>>
      BY <3>1, <3>2, AppendProperties
    <3> QED
      BY <1>3, <1>5, <2>1, <2>3, <2>5, <3>3 DEF StartsAt
  <2> QED
    BY <2>4, <2>5
<1> QED
  BY <1>4, <1>5

\* After a dot, or two, that end the name: the text goes on behind them.
LEMMA AfterDots ==
  ASSUME NEW s \in Seq(Signs), NEW j \in 2..(Len(s) + 1),
         F!Way(s)[j - 1].name \in Dotted, F!EndsName(s, j),
         NEW b, b = F!PathText(F!PlaceAt(s, j - 1))
  PROVE  /\ F!After(s, j) \in 2..(Len(s) + 1) /\ F!After(s, j) >= j
         /\ Right(s, F!After(s, j), b)
<1>1. PICK n \in Nat : n = Len(s)
  BY LenProperties
<1>2. CASE j <= n
  <2>1. j \in 1..Len(s) /\ F!At(s, j) = s[j] /\ s[j] \in Signs
    BY <1>1, <1>2, AtFacts
  <2>2. s[j] = F!Slash
    BY <2>1, SignFacts DEF F!EndsName
  <2>3. F!After(s, j) = j + 1
    BY <2>1, <2>2 DEF F!After
  <2>4. /\ F!Way(s)[j].place = F!PlaceAt(s, j - 1)
        /\ F!Way(s)[j].name = <<>> /\ F!Way(s)[j] \in Walk
    BY <2>1, <2>2, WayAt
  <2>5. b = F!PathText(F!Way(s)[j].place) \o F!Way(s)[j].name
    <3>1. F!PathText(F!Way(s)[j].place) \in Seq(Signs)
      BY <2>4, PathTextAppend DEF Walk
    <3> QED
      BY <2>4, <3>1, ConcatEmptySeq
  <2>6. PICK k \in Nat : k = j + 1
    OBVIOUS
  <2>7. k - 1 = j /\ k # 1 /\ k >= j /\ k \in 2..(Len(s) + 1)
    BY <1>1, <1>2, <2>6
  <2>8. <<>> \notin Dotted /\ <<>> # <<F!Dot>>
    BY DEF Dotted, F!Up
  <2>9. Going(s, k, b)
    BY Zenon, <2>4, <2>5, <2>7, <2>8 DEF Going
  <2> QED
    BY <2>3, <2>6, <2>7, <2>9 DEF Right
<1>3. CASE ~(j <= n)
  <2>1. j = n + 1 /\ j - 1 = n
    BY <1>1, <1>3
  <2>2. F!At(s, j) # F!Slash
    BY <1>1, <1>3, AtFacts, SignFacts
  <2>3. F!After(s, j) = j
    BY <2>2 DEF F!After
  <2>4. GoneUp(s, j, b)
    BY <1>1, <2>1 DEF GoneUp, EndOf, F!Resolve
  <2> QED
    BY <1>1, <2>1, <2>3, <2>4 DEF Right
<1> QED
  BY <1>2, <1>3

\* Dots that are a whole name are read as one.
LEMMA DotsAre ==
  /\ <<>> \in Seq(F!Plain) /\ <<F!Dot>> \in Seq(F!Plain) /\ F!Up \in Seq(F!Plain)
  /\ Append(<<>>, F!Dot) = <<F!Dot>> /\ Append(<<F!Dot>>, F!Dot) = F!Up
  /\ \A n \in Seq(F!Plain) : \A c \in F!Plain :
       /\ Append(n, c) = <<F!Dot>> => n = <<>> /\ c = F!Dot
       /\ Append(n, c) = F!Up => n = <<F!Dot>> /\ c = F!Dot
<1>1. <<>> \in Seq(F!Plain) /\ F!Dot \in F!Plain
  BY SignFacts, EmptySeq
<1>2. <<F!Dot>> \in Seq(F!Plain) /\ F!Up \in Seq(F!Plain)
  BY <1>1 DEF F!Up
<1>5. PICK d \in F!Plain, z \in Seq(F!Plain), y \in Seq(F!Plain) :
        d = F!Dot /\ z = <<>> /\ y = <<F!Dot>>
  BY Zenon, <1>1, <1>2
<1>6. Append(z, d) = <<d>>
  BY <1>5, ShortConcats
<1>7. Append(y, d) = <<d, d>>
  <2>1. Append(y, d) = y \o <<d>>
    BY AppendIsConcat
  <2>2. <<d>> \o <<d>> = <<d, d>>
    BY ShortConcats
  <2> QED
    BY Zenon, <1>5, <2>1, <2>2
<1>3. Append(<<>>, F!Dot) = <<F!Dot>> /\ Append(<<F!Dot>>, F!Dot) = F!Up
  BY <1>5, <1>6, <1>7 DEF F!Up
<1>4. ASSUME NEW n \in Seq(F!Plain), NEW c \in F!Plain
      PROVE  /\ Append(n, c) = <<F!Dot>> => n = <<>> /\ c = F!Dot
             /\ Append(n, c) = F!Up => n = <<F!Dot>> /\ c = F!Dot
  <2>1. Append(n, c) = Append(z, d) <=> n = z /\ c = d
    BY AppendInjective
  <2>2. Append(n, c) = Append(y, d) <=> n = y /\ c = d
    BY AppendInjective
  <2> QED
    BY Zenon, <1>3, <1>5, <2>1, <2>2
<1> QED
  BY Zenon, <1>1, <1>2, <1>3, <1>4

\* A turn from where the loop goes on: the text behind dots is left out, a
\* second slash too, and other characters are taken over.
Joined(s, t, e) == Append(s \o t, e) = s \o Append(t, e)

LEMMA Regroup ==
  ASSUME NEW S, NEW s \in Seq(S), NEW t \in Seq(S), NEW e \in S
  PROVE  Joined(s, t, e)
<1>1. PICK u \in Seq(S) : u = <<e>>
  <2>1. <<e>> \in Seq(S)
    OBVIOUS
  <2> QED
    BY Zenon, <2>1
<1>2. PICK v \in Seq(S) : v = s \o t
  BY Zenon, ConcatProperties
<1>3. Append(v, e) = v \o u /\ Append(t, e) = t \o u
  BY <1>1, AppendIsConcat
<1>4. (s \o t) \o u = s \o (t \o u)
  BY ConcatAssociative
<1> QED
  BY <1>2, <1>3, <1>4 DEF Joined

\* A turn from p comes to k with c in the buffer, and the invariant holds there.
Turned(s, p, k, c) == F!CanonizeTurn(s, p) = [at |-> k, buf |-> c] /\ Right(s, k, c)

\* A turn while the buffer is a path and the part of a name.
LEMMA GoingTurn ==
  ASSUME NEW s \in Seq(Signs), NEW i \in 1..Len(s), NEW b \in Seq(Signs), Going(s, i, b),
         NEW p, p = [at |-> i, buf |-> b]
  PROVE  \E k \in 2..(Len(s) + 1), c \in Seq(Signs) :
           Turned(s, p, k, c) /\ k > i
<1>1. PICK m \in Nat : m = Len(s)
  BY LenProperties
<1>2. i \in Nat /\ i >= 1 /\ i <= Len(s) /\ F!At(s, i) = s[i] /\ s[i] \in Signs
  BY <1>1, AtFacts, ElementOfSeq
<1>3. PICK q \in Seq(F!Name), n \in Seq(F!Plain) :
         q = F!Way(s)[i - 1].place /\ n = F!Way(s)[i - 1].name
  <2>1. i \in 1..(Len(s) + 1)
    BY <1>1
  <2> QED
    BY Zenon, <2>1, StartsIs
<1>4. StartsAt(s, i) <=> n = <<>>
  <2>1. i \in 1..(Len(s) + 1)
    BY <1>1
  <2> QED
    BY <1>3, <2>1, StartsIs
<1>5. /\ b = F!PathText(q) \o n /\ ~(i = 1 /\ F!Absolute(s))
      /\ n \in Dotted => ~F!EndsName(s, i)
      /\ n = <<F!Dot>> => ~(F!At(s, i) = F!Dot /\ F!EndsName(s, i + 1))
  BY <1>3 DEF Going
<1>6. PICK t \in Seq(Signs) : t = F!PathText(q)
  BY PathTextAppend
<1>7. n = <<>> => b = F!PathText(q)
  BY <1>5, <1>6, ConcatEmptySeq
<1>8. F!Way(s)[i] \in Walk /\ s[i] = F!Slash => F!Way(s)[i].place = F!Enter(q, n) /\ F!Way(s)[i].name = <<>>
  BY <1>3, WayAt DEF F!PlaceAt
<1>9. s[i] # F!Slash => F!Way(s)[i].place = q /\ F!Way(s)[i].name = Append(n, s[i])
  BY <1>3, WayAt
<1>10. PICK l \in Nat : /\ l = i + 1 /\ l - 1 = i /\ l # 1 /\ l >= 1
                       /\ l \in 2..(Len(s) + 1) /\ l > i
  BY <1>1, <1>2
<1>11. CASE UpAt(s, i)
  <2>1. n = <<>> /\ s[i] = F!Dot /\ F!At(s, l) = F!Dot /\ F!EndsName(s, i + 2)
    BY <1>2, <1>4, <1>10, <1>11 DEF UpAt
  <2>2. l <= Len(s) /\ s[l] = F!Dot
    BY <1>10, <2>1, AtFacts, SignFacts
  <2>3. F!Way(s)[i].place = q /\ F!Way(s)[i].name = <<F!Dot>>
    BY <1>9, <2>1, SignFacts, DotsAre
  <2>4. F!Way(s)[l].place = q /\ F!Way(s)[l].name = F!Up
    <3>1. l \in 1..Len(s) /\ s[l] # F!Slash
      BY <1>1, <1>10, <2>2, SignFacts
    <3>2. F!Way(s)[l].place = F!Way(s)[l - 1].place /\ F!Way(s)[l].name = Append(F!Way(s)[l - 1].name, s[l])
      BY <3>1, WayAt
    <3> QED
      BY Zenon, <1>10, <2>2, <2>3, <3>2, DotsAre
  <2>5. PICK k \in Nat : k = i + 2
    OBVIOUS
  <2>6. k \in 2..(Len(s) + 1) /\ k - 1 = l /\ k > i
    BY <1>1, <1>2, <1>10, <2>2, <2>5
  <2>7. F!CanonizeTurn(s, p) = [at |-> F!After(s, k), buf |-> F!Back(b)]
    BY <1>2, <1>11, <2>5, TurnIs
  <2>8. F!Back(b) = F!PathText(F!PlaceAt(s, k - 1))
    BY <1>7, <2>1, <2>4, <2>6, BackIs DEF F!PlaceAt
  <2>9. F!Back(b) \in Seq(Signs)
    <3>1. F!Enter(q, F!Up) \in Seq(F!Name)
      BY DotsAre, EntersPlace
    <3> QED
      BY <1>7, <2>1, <3>1, BackIs, PathTextAppend
  <2>10. /\ F!After(s, k) \in 2..(Len(s) + 1) /\ F!After(s, k) >= k
         /\ Right(s, F!After(s, k), F!Back(b))
    <3>1. F!Way(s)[k - 1].name \in Dotted /\ F!EndsName(s, k)
      BY Zenon, <2>1, <2>4, <2>5, <2>6 DEF Dotted
    <3> QED
      BY <2>6, <2>8, <3>1, AfterDots
  <2>11. F!After(s, k) > i
    BY <2>6, <2>10
  <2> QED
    BY <2>7, <2>9, <2>10, <2>11 DEF Turned
<1>12. CASE ~UpAt(s, i) /\ DotAt(s, i)
  <2>1. n = <<>> /\ s[i] = F!Dot /\ F!EndsName(s, l)
    BY <1>2, <1>4, <1>10, <1>12 DEF DotAt
  <2>2. F!Way(s)[i].place = q /\ F!Way(s)[i].name = <<F!Dot>>
    BY <1>9, <2>1, SignFacts, DotsAre
  <2>4. F!CanonizeTurn(s, p) = [at |-> F!After(s, l), buf |-> b]
    BY <1>2, <1>10, <1>12, TurnIs
  <2>5. b = F!PathText(F!PlaceAt(s, l - 1))
    <3>1. F!Enter(q, <<F!Dot>>) = q
      BY DEF F!Enter
    <3> QED
      BY Zenon, <1>7, <1>10, <2>1, <2>2, <3>1 DEF F!PlaceAt
  <2>6. /\ F!After(s, l) \in 2..(Len(s) + 1) /\ F!After(s, l) >= l
        /\ Right(s, F!After(s, l), b)
    <3>1. F!Way(s)[l - 1].name \in Dotted
      BY Zenon, <1>10, <2>2 DEF Dotted
    <3> QED
      BY <1>10, <2>1, <2>5, <3>1, AfterDots
  <2>7. F!After(s, l) > i
    BY <1>10, <2>6
  <2> QED
    BY <2>4, <2>6, <2>7 DEF Turned
<1>13. CASE TwiceAt(s, i)
  <2>1. n = <<>> /\ s[i] = F!Slash
    BY <1>2, <1>4, <1>13 DEF TwiceAt
  <2>2. F!Way(s)[i].place = q /\ F!Way(s)[i].name = <<>>
    BY <1>8, <2>1, WayAt DEF F!Enter
  <2>4. F!CanonizeTurn(s, p) = [at |-> l, buf |-> b]
    BY <1>2, <1>10, <1>13, TurnIs
  <2>5. Going(s, l, b)
    <3>1. <<>> \notin Dotted /\ <<>> # <<F!Dot>>
      BY DEF Dotted, F!Up
    <3> QED
      BY Zenon, <1>5, <1>10, <2>1, <2>2, <3>1 DEF Going
  <2> QED
    BY Zenon, <1>10, <2>4, <2>5 DEF Right, Turned
<1>14. CASE ~UpAt(s, i) /\ ~DotAt(s, i) /\ ~TwiceAt(s, i)
  <2>2. PICK c \in Seq(Signs) : c = Append(b, s[i])
    BY Zenon, <1>2, AppendProperties
  <2>8. F!CanonizeTurn(s, p) = [at |-> i + 1, buf |-> Took(b, s[i])]
    BY <1>2, <1>14, TurnIs
  <2>3. F!CanonizeTurn(s, p) = [at |-> l, buf |-> c]
    BY <1>10, <2>2, <2>8 DEF Took
  <2>1. n \in Seq(Signs)
    BY <1>6, NameInText
  <2>5. c = F!PathText(q) \o Append(n, s[i])
    <3>1. b = t \o n
      BY <1>5, <1>6
    <3>2. Append(t \o n, s[i]) = t \o Append(n, s[i])
      <4>1. PICK e \in Signs : e = s[i]
        BY <1>2
      <4>2. t \in Seq(Signs) /\ n \in Seq(Signs) /\ e \in Signs
        BY <2>1
      <4>3. Joined(t, n, e)
        BY <4>2, Regroup
      <4> QED
        BY <4>1, <4>3 DEF Joined
    <3> QED
      BY <1>6, <2>2, <3>1, <3>2
  <2>6. Going(s, l, c)
    <3>1. CASE s[i] = F!Slash
      <4>1. n # <<>>
        <5>1. i = 1 => F!Absolute(s)
          BY <1>1, <1>2, <3>1, EmptySeq DEF F!Absolute
        <5>2. i > 1 => ~StartsAt(s, i)
          BY <1>2, <1>14, <3>1 DEF TwiceAt
        <5> QED
          BY <1>2, <1>4, <1>5, <5>1, <5>2
      <4>2. n \notin Dotted
        BY <1>2, <1>5, <3>1 DEF F!EndsName
      <4>3. n \in F!Name
        BY <4>1, <4>2 DEF F!Name, Dotted
      <4>4. F!Enter(q, n) = Append(q, n)
        BY <4>3 DEF F!Enter, F!Name
      <4>5. c = F!PathText(Append(q, n))
        BY Zenon, <2>5, <3>1, <4>3, PathTextAppend
      <4>6. F!Way(s)[i].place = Append(q, n) /\ F!Way(s)[i].name = <<>>
        BY Zenon, <1>8, <3>1, <4>4, WayAt
      <4>7. c = F!PathText(F!Way(s)[i].place) \o F!Way(s)[i].name
        BY <4>5, <4>6, ConcatEmptySeq
      <4>8. <<>> \notin Dotted /\ <<>> # <<F!Dot>>
        BY DEF Dotted, F!Up
      <4> QED
        BY ZenonT(30), <1>10, <4>6, <4>7, <4>8 DEF Going
    <3>2. CASE s[i] # F!Slash
      <4>1. s[i] \in F!Plain
        BY <1>2, <3>2, SignFacts
      <4>2. F!Way(s)[i].place = q /\ F!Way(s)[i].name = Append(n, s[i])
        BY <1>9, <3>2
      <4>3. Append(n, s[i]) = <<F!Dot>> =>
              ~F!EndsName(s, l) /\ ~(F!At(s, l) = F!Dot /\ F!EndsName(s, l + 1))
        <5> SUFFICES ASSUME Append(n, s[i]) = <<F!Dot>>
                     PROVE  ~F!EndsName(s, l) /\ ~(F!At(s, l) = F!Dot /\ F!EndsName(s, l + 1))
          OBVIOUS
        <5>1. n = <<>> /\ s[i] = F!Dot
          BY Zenon, <4>1, DotsAre
        <5>2. StartsAt(s, i) /\ F!At(s, i) = F!Dot
          BY <1>2, <1>4, <5>1
        <5>3. i + 1 = l /\ i + 2 = l + 1
          BY <1>10
        <5> QED
          BY <1>14, <5>2, <5>3 DEF UpAt, DotAt
      <4>4. Append(n, s[i]) = F!Up => ~F!EndsName(s, l)
        BY Zenon, <1>2, <1>5, <1>10, <4>1, DotsAre
      <4>5. Append(n, s[i]) \in Dotted => ~F!EndsName(s, l)
        BY <4>3, <4>4 DEF Dotted
      <4> QED
        BY ZenonT(30), <1>10, <2>5, <4>2, <4>3, <4>5 DEF Going
    <3> QED
      BY <3>1, <3>2
  <2> QED
    BY Zenon, <1>10, <2>2, <2>3, <2>6 DEF Right, Turned
<1> QED
  BY Zenon, <1>11, <1>12, <1>13, <1>14

\* One turn, wherever the loop may be.
LEMMA TurnRight ==
  ASSUME NEW s \in Seq(Signs), NEW i \in 1..(Len(s) + 1), NEW b \in Seq(Signs), Right(s, i, b),
         NEW p, p = [at |-> i, buf |-> b]
  PROVE  \E k \in 1..(Len(s) + 1), c \in Seq(Signs) :
           Turned(s, p, k, c) /\ (k > i \/ (i = Len(s) + 1 /\ k = i))
<1>1. PICK m \in Nat : m = Len(s)
  BY LenProperties
<1>2. CASE i = m + 1
  <2>1. i \in Nat /\ i >= 1 /\ i > Len(s)
    BY <1>1, <1>2
  <2>2. F!CanonizeTurn(s, p) = p
    BY <2>1, TurnIs
  <2> QED
    BY <1>1, <1>2, <2>2 DEF Turned
<1>3. CASE i # m + 1
  <2>1. i \in 1..Len(s)
    BY <1>1, <1>3
  <2>2. ~GoneUp(s, i, b)
    BY <1>1, <1>3 DEF GoneUp
  <2>3. CASE Going(s, i, b)
    <3>1. PICK k \in 2..(Len(s) + 1), c \in Seq(Signs) :
             Turned(s, p, k, c) /\ k > i
      BY <2>1, <2>3, GoingTurn
    <3>2. k \in 1..(Len(s) + 1)
      BY <1>1
    <3> WITNESS k \in 1..(Len(s) + 1), c \in Seq(Signs)
    <3> QED
      BY <3>1
  <2>4. CASE AtRoot(s, i, b)
    <3>1. i = 1 /\ s[1] = F!Slash /\ b = <<>> /\ 1 \in 1..Len(s) /\ F!Absolute(s)
      BY <2>1, <2>4 DEF AtRoot, F!Absolute
    <3>2. F!At(s, 1) = s[1] /\ 1 \in Nat /\ 1 >= 1 /\ 1 <= Len(s)
      BY <1>1, <3>1 DEF F!At
    <3>3. ~UpAt(s, 1) /\ ~DotAt(s, 1) /\ ~TwiceAt(s, 1)
      BY <3>1, <3>2, SignFacts DEF UpAt, DotAt, TwiceAt
    <3>4. F!CanonizeTurn(s, p) = [at |-> 1 + 1, buf |-> Took(b, s[1])]
      <4>1. p = [at |-> 1, buf |-> b]
        BY <3>1
      <4> QED
        BY <3>2, <3>3, <4>1, TurnIs
    <3>5. PICK c \in Seq(Signs) : c = <<F!Slash>> /\ c = F!PathText(<<>>)
      BY Zenon, PathTextAppend, EmptySeq
    <3>6. Took(b, s[1]) = c
      BY <3>1, <3>5, ShortConcats DEF Took
    <3>7. F!Way(s)[1].place = <<>> /\ F!Way(s)[1].name = <<>>
      <4>1. F!Way(s)[1] = F!Onward(F!Way(s)[1 - 1], s[1])
        BY <3>1, WayIs
      <4>2. F!Way(s)[1 - 1] = [place |-> <<>>, name |-> <<>>]
        BY <3>1, WayIs DEF StartOf
      <4> QED
        BY <3>1, <4>1, <4>2 DEF F!Onward, F!Enter
    <3>8. Going(s, 2, c)
      <4>1. <<>> \notin Dotted /\ <<>> # <<F!Dot>>
        BY DEF Dotted, F!Up
      <4>2. c = c \o <<>>
        BY ConcatEmptySeq
      <4>3. 2 - 1 = 1 /\ 2 # 1
        OBVIOUS
      <4> QED
        BY Zenon, <3>5, <3>7, <4>1, <4>2, <4>3 DEF Going
    <3>9. 2 \in 1..(Len(s) + 1) /\ 1 + 1 = 2 /\ 2 > i
      BY <1>1, <3>1
    <3>10. F!CanonizeTurn(s, p) = [at |-> 2, buf |-> c]
      BY <3>4, <3>6, <3>9
    <3>11. Right(s, 2, c)
      BY <3>8 DEF Right
    <3>12. Turned(s, p, 2, c)
      BY <3>10, <3>11 DEF Turned
    <3>13. PICK k \in 1..(Len(s) + 1) : k = 2 /\ k > i
      BY <3>9
    <3> WITNESS k \in 1..(Len(s) + 1)
    <3> WITNESS c \in Seq(Signs)
    <3> QED
      BY <3>12, <3>13
  <2> QED
    BY <2>2, <2>3, <2>4 DEF Right
<1> QED
  BY <1>2, <1>3

\* canonize_path writes the place a text leads to, and the name after it
\* unless that is the place itself or the one above it.
LEMMA Canonized ==
  ASSUME NEW s \in Seq(Signs)
  PROVE  F!CanonizePath(s) = IF EndOf(s).name \in Dotted THEN F!PathText(F!Resolve(s))
                             ELSE F!PathText(EndOf(s).place) \o EndOf(s).name
<1>1. PICK n \in Nat : n = Len(s)
  BY LenProperties
<1> DEFINE S == {p \in [at : 1..(n + 1), buf : Seq(Signs)] : Right(s, p.at, p.buf)}
<1>0. ASSUME NEW i \in 1..(n + 1), NEW c \in Seq(Signs), Right(s, i, c)
      PROVE  [at |-> i, buf |-> c] \in S
  BY <1>0
<1>2. PICK b \in S : b = [at |-> 1, buf |-> IF F!Absolute(s) THEN <<>> ELSE F!PathText(Cwd)]
  <2>1. CASE F!Absolute(s)
    <3>1. AtRoot(s, 1, <<>>) /\ <<>> \in Seq(Signs)
      BY <2>1, EmptySeq DEF AtRoot
    <3>2. [at |-> 1, buf |-> <<>>] \in S
      BY <1>0, <3>1 DEF Right
    <3> HIDE DEF S
    <3> QED
      BY <2>1, <3>2
  <2>2. CASE ~F!Absolute(s)
    <3>1. PICK t \in Seq(Signs) : t = F!PathText(Cwd)
      BY FileFacts, PathTextAppend
    <3>2. F!Way(s)[1 - 1].place = Cwd /\ F!Way(s)[1 - 1].name = <<>>
      <4>1. F!Way(s)[0] = [place |-> Cwd, name |-> <<>>]
        BY <2>2, WayIs DEF StartOf
      <4> QED
        BY <4>1
    <3>3. <<>> \notin Dotted /\ <<>> # <<F!Dot>>
      BY DEF Dotted, F!Up
    <3>4. t = F!PathText(Cwd) \o <<>>
      BY <3>1, ConcatEmptySeq
    <3>5. Going(s, 1, t)
      BY <2>2, <3>2, <3>3, <3>4 DEF Going
    <3>6. [at |-> 1, buf |-> t] \in S
      BY <1>0, <3>5 DEF Right
    <3> HIDE DEF S
    <3> QED
      BY <2>2, <3>1, <3>6
  <2> QED
    BY <2>1, <2>2
<1>3. ASSUME NEW p \in S
      PROVE  /\ F!CanonizeTurn(s, p) \in S
             /\ F!CanonizeTurn(s, p).at > p.at \/ (p.at = n + 1 /\ F!CanonizeTurn(s, p).at = n + 1)
  <2>1. PICK i \in 1..(n + 1), c \in Seq(Signs) : p = [at |-> i, buf |-> c] /\ Right(s, i, c)
    OBVIOUS
  <2>2. PICK k \in 1..(n + 1), d \in Seq(Signs) :
           Turned(s, p, k, d) /\ (k > i \/ (i = n + 1 /\ k = i))
    <3>1. \E k \in 1..(Len(s) + 1), d \in Seq(Signs) :
           Turned(s, p, k, d) /\ (k > i \/ (i = Len(s) + 1 /\ k = i))
      <4>1. i \in 1..(Len(s) + 1)
        BY <1>1
      <4> HIDE DEF S
      <4> QED
        BY <2>1, <4>1, TurnRight
    <3> HIDE DEF S
    <3> QED
      BY <1>1, <3>1
  <2> QED
    BY <2>1, <2>2 DEF Turned
<1> DEFINE Is(h) == h = [k \in 0..n |-> IF k = 0 THEN b ELSE F!CanonizeTurn(s, h[k - 1])]
           g == CHOOSE h : Is(h)
           Turn == [p \in S |-> F!CanonizeTurn(s, p)]
           Key == [k \in (0 + 1)..(0 + n) |-> Turn]
<1>4. \E h : Is(h)
  <2> HIDE DEF S
  <2>1. Key \in [(0 + 1)..(0 + n) -> [S -> S]]
    BY <1>3
  <2>2. \A k \in (0 + 1)..(0 + n) : \A w \in S : Key[k][w] = F!CanonizeTurn(s, w)
    OBVIOUS
  <2> HIDE DEF Key
  <2>0. b \in S /\ 0 \in Int /\ n \in Nat
    BY <1>2
  <2> HIDE DEF Is, g
  <2>8. RunsOf(S, b, 0, n, Key) # {}
    BY ONLY Zenon, <2>0, <2>1, RunExists
  <2>3. PICK h \in RunsOf(S, b, 0, n, Key) : TRUE
    BY ONLY <2>8
  <2>4. /\ h \in [0..(0 + n) -> S]
        /\ \A k \in 0..(0 + n) : h[k] = IF k = 0 THEN b ELSE Key[k][h[k - 1]]
    BY <2>3 DEF RunsOf
  <2>5. ASSUME NEW k \in 0..n PROVE h[k] = IF k = 0 THEN b ELSE F!CanonizeTurn(s, h[k - 1])
    <3>1. k \in 0..(0 + n) /\ (k # 0 => k \in (0 + 1)..(0 + n) /\ k - 1 \in 0..(0 + n))
      OBVIOUS
    <3> QED
      BY <2>2, <2>4, <3>1
  <2>6. h = [k \in 0..n |-> h[k]]
    BY <2>4
  <2>7. Is(h)
    BY Zenon, <2>5, <2>6 DEF Is
  <2> QED
    BY <2>7
<1>5. F!CanonizePath(s) = g[n].buf
  BY <1>1, <1>2 DEF F!CanonizePath
<1>6. Is(g)
  BY Zenon, <1>4
<1> HIDE DEF g
<1>7. g[0] = b /\ \A k \in 1..n : g[k] = F!CanonizeTurn(s, g[k - 1])
  BY <1>6
<1> DEFINE Kept == {k \in Nat : k <= n => g[k] \in S /\ (g[k].at > k)}
<1>8. 0 \in Kept
  <2>1. b.at = 1
    BY <1>2
  <2> HIDE DEF S
  <2> QED
    BY <1>7, <2>1
<1>9. ASSUME NEW k \in Nat, k \in Kept PROVE k + 1 \in Kept
  <2> SUFFICES ASSUME k + 1 <= n PROVE g[k + 1] \in S /\ g[k + 1].at > k + 1
    OBVIOUS
  <2>1. k + 1 \in 1..n /\ k + 1 - 1 = k /\ k <= n
    OBVIOUS
  <2>2. g[k + 1] = F!CanonizeTurn(s, g[k]) /\ g[k] \in S /\ g[k].at > k
    BY <1>7, <1>9, <2>1
  <2>3. PICK r \in S : r = g[k]
    BY <2>2
  <2>4. PICK w \in S : w = F!CanonizeTurn(s, r) /\ (w.at > r.at \/ (r.at = n + 1 /\ w.at = n + 1))
    BY <1>3
  <2>5. w.at \in Int /\ r.at \in Int
    OBVIOUS
  <2>6. w.at > k + 1
    BY <2>1, <2>2, <2>3, <2>4, <2>5
  <2> QED
    BY <2>2, <2>3, <2>4, <2>6
<1>10. n \in Kept
  <2>1. \A k \in Nat : k \in Kept
    <3> HIDE DEF Kept
    <3> QED
      BY Zenon, <1>8, <1>9, SetInduction
  <2> QED
    BY <2>1
<1>11. PICK c \in Seq(Signs) : F!CanonizePath(s) = c /\ Right(s, n + 1, c)
  <2>1. g[n] \in S /\ g[n].at > n
    BY <1>10
  <2>2. PICK r \in S : r = g[n] /\ r.at > n
    BY <2>1
  <2>3. r.at = n + 1 /\ r.buf \in Seq(Signs) /\ Right(s, r.at, r.buf)
    BY <2>2
  <2> QED
    BY <1>5, <2>2, <2>3
<1>12. n + 1 - 1 = n
  OBVIOUS
<1>13. CASE Going(s, n + 1, c)
  <2>1. c = F!PathText(EndOf(s).place) \o EndOf(s).name
    <3> HIDE DEF S
    <3>1. PICK l \in Nat : l = n + 1 /\ l - 1 = n
      OBVIOUS
    <3>2. Going(s, l, c)
      BY <1>13, <3>1
    <3>3. c = F!PathText(F!Way(s)[l - 1].place) \o F!Way(s)[l - 1].name
      BY <3>2 DEF Going
    <3> QED
      BY Zenon, <1>1, <3>1, <3>3 DEF EndOf
  <2>2. EndOf(s).name \notin Dotted
    <3>1. F!At(s, n + 1) = F!End
      BY <1>1 DEF F!At
    <3>2. F!EndsName(s, n + 1)
      BY <3>1 DEF F!EndsName
    <3>3. F!Way(s)[n + 1 - 1].name \notin Dotted
      BY <1>13, <3>2 DEF Going
    <3> QED
      BY <1>1, <1>12, <3>3 DEF EndOf
  <2> QED
    BY Zenon, <1>11, <2>1, <2>2
<1>14. CASE AtRoot(s, n + 1, c)
  BY <1>1, <1>14, EmptySeq DEF AtRoot, F!Absolute
<1>15. CASE GoneUp(s, n + 1, c)
  BY <1>11, <1>15 DEF GoneUp
<1> QED
  BY Zenon, <1>11, <1>13, <1>14, <1>15 DEF Right

-----------------------------------------------------------------------------
(***************************************************************************)
(* do_filter, and the invariant of the selector.                           *)
(***************************************************************************)
\* do_filter puts a slash behind a directory.
LEMMA SlashPut ==
  ASSUME NEW q \in Seq(F!Name), NEW n \in F!Name \cup {<<>>}
  PROVE  F!PutSlash(F!PathText(q) \o n) = F!PathText(F!Enter(q, n))
<1>1. PICK t \in Seq(Signs) : t = F!PathText(q) /\ t # <<>> /\ t[Len(t)] = F!Slash
  BY PathTextAppend, EndPath
<1>2. CASE n = <<>>
  <2>1. t \o n = t
    BY <1>2, ConcatEmptySeq
  <2>2. F!Enter(q, n) = q
    BY <1>2 DEF F!Enter
  <2>3. F!PutSlash(t) = t
    BY <1>1 DEF F!PutSlash, F!Last
  <2> QED
    BY <1>1, <2>1, <2>2, <2>3
<1>3. CASE n \in F!Name
  <2>1. n \in Seq(F!Plain) /\ n # <<>> /\ F!Enter(q, n) = Append(q, n)
    BY <1>3 DEF F!Name, F!Enter
  <2>2. PICK r \in Seq(Signs) : r = n /\ r # <<>>
    BY <2>1, NameInText, EmptySeq
  <2>3. PICK u \in Seq(Signs) : u = t \o r
    BY Zenon, ConcatProperties
  <2>4. PICK m \in Nat, k \in Nat \ {0} : m = Len(t) /\ k = Len(r)
    BY <2>2, LenProperties, EmptySeq
  <2>5. Len(u) = m + k /\ u[m + k] = r[k]
    <3>1. m + k \in 1..(m + k) /\ ~(m + k <= m) /\ m + k - m = k
      OBVIOUS
    <3> QED
      BY <2>3, <2>4, <3>1, ConcatProperties
  <2>6. r[k] \in F!Plain
    BY <2>1, <2>2, <2>4, ElementOfSeq
  <2>7. u # <<>> /\ u[Len(u)] # F!Slash
    BY <2>4, <2>5, <2>6, SignFacts, EmptySeq
  <2>8. F!PutSlash(u) = Append(u, F!Slash)
    BY <2>7 DEF F!PutSlash, F!Last
  <2>9. Joined(t, r, F!Slash)
    BY SignFacts, Regroup
  <2>10. F!PathText(Append(q, n)) = t \o Append(r, F!Slash)
    BY Zenon, <1>1, <1>3, <2>2, PathTextAppend
  <2> QED
    BY <1>1, <2>1, <2>2, <2>3, <2>8, <2>9, <2>10 DEF Joined
<1> QED
  BY <1>2, <1>3

\* The operators of the selector make texts of texts.
LEMMA FilePartTypes ==
  ASSUME NEW s \in Seq(Signs)
  PROVE  F!FilePart(s) \in Seq(Signs)
<1>1. PICK n \in Nat : n = Len(s)
  BY LenProperties
<1>2. CASE F!IsDir(s)
  BY <1>2, EmptySeq DEF F!FilePart
<1>3. CASE ~F!IsDir(s) /\ ~(\E i \in DOMAIN s : s[i] = F!Slash)
  BY <1>3 DEF F!FilePart
<1>4. CASE ~F!IsDir(s) /\ \E i \in DOMAIN s : s[i] = F!Slash
  <2> DEFINE M == {i \in 1..n : s[i] = F!Slash}
  <2>1. \E m \in M : \A i \in M : i <= m
    <3>1. M \subseteq 1..n /\ M # {}
      BY <1>1, <1>4, LenProperties
    <3> HIDE DEF M
    <3>2. IsFiniteSet(M)
      <4>1. IsFiniteSet(1..n)
        BY FS_Interval
      <4>2. M \in SUBSET (1..n)
        BY <3>1
      <4> QED
        BY Zenon, <4>1, <4>2, FS_Subset
    <3> DEFINE g == [i \in M |-> i]
    <3>3. \A i \in M : g[i] \in Nat /\ g[i] = i
      BY <3>1
    <3> HIDE DEF g
    <3>4. \E i \in M : \A j \in M : g[j] <= g[i]
      BY Zenon, <3>1, <3>2, <3>3, GreatestOf
    <3> QED
      BY <3>3, <3>4
  <2>2. PICK m \in Int : m = F!LastSlash(s) /\ m \in 1..n
    <3>1. \E i \in DOMAIN s : s[i] = F!Slash /\ \A j \in DOMAIN s : s[j] = F!Slash => j <= i
      BY <1>1, <2>1, LenProperties
    <3>2. F!LastSlash(s) \in DOMAIN s
      BY <3>1 DEF F!LastSlash
    <3> QED
      BY <1>1, <3>2, LenProperties
  <2>3. PICK a \in Int : a = m + 1
    OBVIOUS
  <2>4. \A i \in a..n : s[i] \in Signs
    BY <1>1, <2>2, <2>3, ElementOfSeq
  <2>5. n \in Int
    OBVIOUS
  <2>6. SubSeq(s, a, n) \in Seq(Signs)
    BY <2>4, <2>5, SubSeqProperties
  <2> QED
    BY <1>1, <1>4, <2>2, <2>3, <2>6 DEF F!FilePart
<1> QED
  BY <1>2, <1>3, <1>4

\* Where canonize_path has come to, as a path and a name.
LEMMA CanonizedParts ==
  ASSUME NEW s \in Seq(Signs)
  PROVE  \E q \in Seq(F!Name), n \in F!Name \cup {<<>>} :
           /\ F!CanonizePath(s) = F!PathText(q) \o n
           /\ F!Enter(q, n) = F!Resolve(s)
           /\ F!Named(s) = IF F!Resolve(s) \in Dirs THEN F!Resolve(s) ELSE q
<1>1. /\ EndOf(s).place \in Seq(F!Name) /\ EndOf(s).name \in Seq(F!Plain)
      /\ F!Resolve(s) = F!Enter(EndOf(s).place, EndOf(s).name)
      /\ F!Resolve(s) \in Seq(F!Name)
  BY EndTypes
<1>2. F!Named(s) = IF F!Resolve(s) \in Dirs \/ EndOf(s).name \in Dotted
                   THEN F!Resolve(s) ELSE EndOf(s).place
  BY DEF F!Named, EndOf, Dotted
<1>3. CASE EndOf(s).name \in Dotted
  <2>1. PICK q \in Seq(F!Name) : q = F!Resolve(s)
    BY <1>1
  <2>2. PICK n \in F!Name \cup {<<>>} : n = <<>>
    OBVIOUS
  <2>3. PICK t \in Seq(Signs) : t = F!PathText(q)
    BY PathTextAppend
  <2>4. t \o n = t
    BY <2>2, ConcatEmptySeq
  <2>5. F!CanonizePath(s) = F!PathText(q) \o n
    BY Zenon, <1>3, <2>1, <2>3, <2>4, Canonized
  <2>6. F!Enter(q, n) = q
    BY <2>2 DEF F!Enter
  <2> QED
    BY Zenon, <1>2, <1>3, <2>1, <2>5, <2>6
<1>4. CASE EndOf(s).name \notin Dotted
  <2>1. PICK q \in Seq(F!Name) : q = EndOf(s).place
    BY <1>1
  <2>2. PICK n \in F!Name \cup {<<>>} : n = EndOf(s).name
    BY <1>1, <1>4 DEF F!Name, Dotted
  <2>3. F!CanonizePath(s) = F!PathText(q) \o n
    BY Zenon, <1>4, <2>1, <2>2, Canonized
  <2> QED
    BY Zenon, <1>1, <1>2, <1>4, <2>1, <2>2, <2>3
<1> QED
  BY Zenon, <1>3, <1>4

\* What do_filter shows is the directory the text names.
LEMMA FilterShows ==
  ASSUME NEW s \in Seq(Signs), NEW c, c = F!CanonizePath(s)
  PROVE  /\ F!Named(s) \in Seq(F!Name)
         /\ F!PutSlash(F!DirPart(c)) = F!PathText(F!Named(s))
         /\ F!FilePart(c) \in Seq(Signs)
<1>1. PICK q \in Seq(F!Name), n \in F!Name \cup {<<>>} :
           /\ c = F!PathText(q) \o n
           /\ F!Enter(q, n) = F!Resolve(s)
           /\ F!Named(s) = IF F!Resolve(s) \in Dirs THEN F!Resolve(s) ELSE q
  BY Zenon, CanonizedParts
<1>2. F!Resolve(s) \in Seq(F!Name)
  BY EndTypes
<1>3. n \in Seq(F!Plain)
  BY Zenon, EmptySeq DEF F!Name
<1>4. /\ c \in Seq(Signs)
      /\ SubSeq(c, 1, F!LastSlash(c)) = F!PathText(q)
  BY Zenon, <1>1, <1>3, LastSlashIs
<1>5. F!IsDir(c) <=> F!Resolve(s) \in Dirs
  BY <1>1, IsDirThere
<1>6. CASE F!Resolve(s) \in Dirs
  <2>1. F!DirPart(c) = c
    BY <1>5, <1>6 DEF F!DirPart
  <2>2. F!PutSlash(c) = F!PathText(F!Resolve(s))
    BY <1>1, SlashPut
  <2> QED
    BY Zenon, <1>1, <1>2, <1>4, <1>6, <2>1, <2>2, FilePartTypes
<1>7. CASE F!Resolve(s) \notin Dirs
  <2>1. F!DirPart(c) = F!PathText(q)
    BY <1>4, <1>5, <1>7 DEF F!DirPart
  <2>2. F!PutSlash(F!PathText(q)) = F!PathText(q)
    BY EndPath DEF F!PutSlash, F!Last
  <2> QED
    BY Zenon, <1>1, <1>4, <1>7, <2>1, <2>2, FilePartTypes
<1> QED
  BY <1>6, <1>7

\* The lists hold what there is in the directory.
Lists(l, q) ==
  /\ l.dirs \subseteq F!Name \cup Dotted /\ l.files \subseteq F!Name
  /\ \A n \in l.dirs \ Dotted : Append(q, n) \in Dirs
  /\ \A n \in l.files : Append(q, n) \in Files

\* The last name of a place.
LEMMA LastOf ==
  ASSUME NEW p \in Seq(F!Name), p # <<>>
  PROVE  F!Last(p) \in F!Name /\ Append(F!Front(p), F!Last(p)) = p
<1>1. PICK q \in Seq(F!Name), n \in F!Name : p = Append(q, n)
  BY SequenceEmptyOrAppend
<1>2. F!Front(p) = q
  BY <1>1, FrontOf
<1>3. F!Last(p) = n
  BY <1>1, AppendProperties DEF F!Last
<1> QED
  BY <1>1, <1>2, <1>3

\* What readdir gives is what there is.
LEMMA ReadDirLists ==
  ASSUME NEW q \in Seq(F!Name), NEW patt
  PROVE  F!ReadDir(F!PathText(q), patt).dirs \in SUBSET (F!Name \cup Dotted)
         /\ Lists(F!ReadDir(F!PathText(q), patt), q)
<1>1. F!Resolve(F!PathText(q)) = q
  <2>1. PICK t \in Seq(Signs) : t = F!PathText(q)
    BY PathTextAppend
  <2>2. EndOf(t) = [place |-> q, name |-> <<>>]
    BY <2>1, EndPath
  <2>3. F!Resolve(t) = F!Enter(EndOf(t).place, EndOf(t).name)
    BY EndTypes
  <2>4. F!Enter(q, <<>>) = q
    BY DEF F!Enter
  <2> QED
    BY <2>1, <2>2, <2>3, <2>4
<1>2. ASSUME NEW P, P \subseteq Seq(F!Name)
      PROVE  \A n \in F!NamesIn(P, q) : n \in F!Name /\ Append(q, n) \in P
  <2> SUFFICES ASSUME NEW p \in P, p # <<>>, F!Front(p) = q
               PROVE  F!Last(p) \in F!Name /\ Append(q, F!Last(p)) \in P
    BY DEF F!NamesIn
  <2> QED
    BY Zenon, <1>2, LastOf
<1>3. \A n \in F!NamesIn(Dirs, q) : n \in F!Name /\ Append(q, n) \in Dirs
  BY <1>2, FileFacts
<1>4. \A n \in F!NamesIn(Files, q) : n \in F!Name /\ Append(q, n) \in Files
  BY <1>2, FileFacts
<1>5. CASE q \notin Dirs
  BY <1>1, <1>5 DEF F!ReadDir, F!Nobody, Lists
<1>6. CASE q \in Dirs
  <2>1. F!ReadDir(F!PathText(q), patt).dirs = F!NamesIn(Dirs, q) \cup Dotted
    BY <1>1, <1>6 DEF F!ReadDir, Dotted
  <2>2. F!ReadDir(F!PathText(q), patt).files \subseteq F!NamesIn(Files, q)
    BY <1>1, <1>6 DEF F!ReadDir
  <2> QED
    BY <1>3, <1>4, <2>1, <2>2 DEF Lists
<1> QED
  BY <1>5, <1>6

-----------------------------------------------------------------------------
\* The invariant: the text is one of signs, and the directory is the written path of
\* a place, of which the lists hold what is there.
FileInv == /\ text \in Seq(Signs)
           /\ \E q \in Seq(F!Name) : dir = F!PathText(q) /\ Lists(listed, q)

\* Showing a directory that is there gives the invariant.
LEMMA FilterInv ==
  ASSUME NEW s \in Seq(Signs), F!Filter(s)
  PROVE  FileInv' /\ F!Resolve(dir') = F!Named(s)
<1>1. PICK c : c = F!CanonizePath(s)
  OBVIOUS
<1>2. /\ F!Named(s) \in Seq(F!Name)
      /\ F!PutSlash(F!DirPart(c)) = F!PathText(F!Named(s))
      /\ F!FilePart(c) \in Seq(Signs)
  BY <1>1, FilterShows
<1>3. PICK q \in Seq(F!Name) : q = F!Named(s)
  BY <1>2
<1>4. PICK patt \in Seq(Signs) : patt = IF F!FilePart(c) = <<>> THEN <<F!Star>> ELSE F!FilePart(c)
  <2>1. F!Star \in Signs
    BY SignFacts
  <2>2. <<F!Star>> \in Seq(Signs)
    BY <2>1
  <2> QED
    BY Zenon, <1>2, <2>2
<1>5. PICK d \in Seq(Signs) : d = F!PathText(q)
  BY PathTextAppend
<1>6. dir' = d /\ text' = d \o patt /\ listed' = F!ReadDir(d, patt)
  BY <1>1, <1>2, <1>3, <1>4, <1>5 DEF F!Filter
<1>7. d \o patt \in Seq(Signs)
  BY ConcatProperties
<1>8. Lists(listed', q)
  BY <1>5, <1>6, ReadDirLists
<1>9. FileInv'
  BY <1>5, <1>6, <1>7, <1>8 DEF FileInv
<1>10. F!Resolve(d) = q
  <2>1. EndOf(d) = [place |-> q, name |-> <<>>]
    BY <1>5, EndPath
  <2>2. F!Resolve(d) = F!Enter(EndOf(d).place, EndOf(d).name)
    BY EndTypes
  <2>3. F!Enter(q, <<>>) = q
    BY DEF F!Enter
  <2> QED
    BY <2>1, <2>2, <2>3
<1> QED
  BY <1>3, <1>6, <1>9, <1>10

\* The selector starts in the working directory.
LEMMA FileInvInit == F!Init => FileInv
<1> SUFFICES ASSUME F!Init PROVE FileInv
  OBVIOUS
<1>1. PICK q \in Seq(F!Name) : q = Cwd
  BY FileFacts
<1>2. PICK d \in Seq(Signs) : d = F!PathText(q)
  BY PathTextAppend
<1>3. F!PutSlash(d) = d
  BY <1>2, EndPath DEF F!PutSlash, F!Last
<1>4. PICK patt \in Seq(Signs) : patt = <<F!Star>>
  <2>1. F!Star \in Signs
    BY SignFacts
  <2>2. <<F!Star>> \in Seq(Signs)
    BY <2>1
  <2> QED
    BY Zenon, <2>2
<1>5. dir = d /\ text = d \o patt /\ listed = F!ReadDir(d, patt)
  BY <1>1, <1>2, <1>3, <1>4 DEF F!Init
<1>6. d \o patt \in Seq(Signs)
  BY ConcatProperties
<1>7. Lists(listed, q)
  BY <1>2, <1>5, ReadDirLists
<1> QED
  BY <1>2, <1>5, <1>6, <1>7 DEF FileInv

\* Typing leaves the lists alone; every other step reads them again or ends the dialog.
LEMMA FileInvNext == FileInv /\ [F!Next]_fileVars => FileInv'
<1> SUFFICES ASSUME FileInv, [F!Next]_fileVars PROVE FileInv'
  OBVIOUS
<1>0. text \in Seq(Signs)
  BY DEF FileInv
<1>1. PICK q \in Seq(F!Name) : dir = F!PathText(q) /\ Lists(listed, q)
  BY DEF FileInv
<1>2. ASSUME dir' = dir, listed' = listed, text' \in Seq(Signs) PROVE FileInv'
  BY <1>1, <1>2 DEF FileInv
<1>3. CASE F!Type
  BY <1>2, <1>3, FileFacts DEF F!Type
<1>4. CASE F!Accept
  BY Zenon, <1>0, <1>2, <1>4, FilterInv DEF F!Accept
<1>5. PICK d \in Seq(Signs) : d = dir /\ F!PutSlash(dir) = d
  <2>1. PICK d \in Seq(Signs) : d = F!PathText(q)
    BY PathTextAppend
  <2>2. F!PutSlash(d) = d
    BY <2>1, EndPath DEF F!PutSlash, F!Last
  <2> QED
    BY <1>1, <2>1, <2>2
<1>6. CASE F!PickFile
  <2>1. PICK n \in listed.files : text' = d \o n
    BY Zenon, <1>5, <1>6 DEF F!PickFile
  <2>2. n \in Seq(F!Plain)
    BY <1>1, <2>1 DEF Lists, F!Name
  <2>3. d \o n \in Seq(Signs)
    BY <2>2, NameInText
  <2>4. dir' = dir /\ listed' = listed
    BY <1>6 DEF F!PickFile
  <2> QED
    BY <1>2, <2>1, <2>3, <2>4
<1>7. CASE F!PickDir
  <2>1. PICK n \in listed.dirs : F!Filter(d \o n \o <<F!Slash>> \o F!FilePart(text))
    BY <1>5, <1>7 DEF F!PickDir
  <2>2. n \in Seq(F!Plain)
    BY <1>1, <2>1, DotsAre DEF Lists, F!Name, Dotted
  <2>3. PICK t \in Seq(Signs) : t = d \o n
    BY Zenon, <2>2, NameInText
  <2>4. PICK o \in Seq(Signs) : o = <<F!Slash>>
    <3>1. <<F!Slash>> \in Seq(Signs)
      BY SignFacts
    <3> QED
      BY Zenon, <3>1
  <2>5. PICK f \in Seq(Signs) : f = F!FilePart(text)
    BY <1>0, FilePartTypes
  <2>6. PICK v \in Seq(Signs) : v = t \o o
    BY Zenon, ConcatProperties
  <2>7. PICK s \in Seq(Signs) : s = v \o f
    BY Zenon, ConcatProperties
  <2>8. F!Filter(s)
    BY <2>1, <2>3, <2>4, <2>5, <2>6, <2>7
  <2> QED
    BY <2>8, FilterInv
<1>8. CASE F!Cancel
  BY <1>0, <1>2, <1>8 DEF F!Cancel
<1>9. CASE UNCHANGED fileVars
  BY <1>0, <1>2, <1>9 DEF fileVars
<1> QED
  BY <1>3, <1>4, <1>6, <1>7, <1>8, <1>9 DEF F!Next

\* The place of a written path is found again by following it.
LEMMA FileInvImplies == FileInv => F!FilesAgree
<1> SUFFICES ASSUME FileInv PROVE F!FilesAgree
  OBVIOUS
<1>1. PICK q \in Seq(F!Name) : dir = F!PathText(q) /\ Lists(listed, q)
  BY DEF FileInv
<1>2. F!Resolve(dir) = q
  <2>1. PICK d \in Seq(Signs) : d = F!PathText(q)
    BY PathTextAppend
  <2>2. EndOf(d) = [place |-> q, name |-> <<>>]
    BY <2>1, EndPath
  <2>3. F!Resolve(d) = F!Enter(EndOf(d).place, EndOf(d).name)
    BY EndTypes
  <2>4. F!Enter(q, <<>>) = q
    BY DEF F!Enter
  <2> QED
    BY <1>1, <2>1, <2>2, <2>3, <2>4
<1> QED
  BY <1>1, <1>2 DEF F!FilesAgree, F!Straight, F!ListedThere, Lists, Dotted

\* Taking over a text shows the directory it names.
LEMMA FilterGoes == FileInv /\ [F!Next]_fileVars => F!GoesThereStep
<1> SUFFICES ASSUME FileInv, F!Accept, open' PROVE F!Resolve(dir') = F!Named(text)
  BY DEF F!GoesThereStep
<1>1. text \in Seq(Signs)
  BY DEF FileInv
<1>2. open' # FALSE
  OBVIOUS
<1>3. F!Filter(text)
  BY <1>2 DEF F!Accept
<1> QED
  BY <1>1, <1>3, FilterInv

-----------------------------------------------------------------------------
(***************************************************************************)
(* Numbers as bytes.                                                       *)
(***************************************************************************)
\* The constants of the maps, one fact at a time.
LEMMA MapFacts ==
  /\ Base \in Nat /\ Base > 3 /\ TextLen \in Nat /\ TextLen % 2 = 0 /\ TextLen + 4 < R!Half
  /\ Editor \in Seq(STRING) /\ Len(Editor) < R!TextNumber
  /\ \A i, j \in DOMAIN Editor : Editor[i] = Editor[j] => i = j
  /\ \A m \in Maps : R!Fits(m)
BY EditorAssumption DEF R!MapFileAssumption

\* Division: a number has one quotient and one remainder.
LEMMA Divided ==
  ASSUME NEW b \in Int, b > 0, NEW v \in Int
  PROVE  /\ v \div b \in Int /\ v % b \in Int
         /\ v = b * (v \div b) + (v % b)
         /\ 0 <= v % b /\ v % b < b
         /\ v >= 0 => v \div b >= 0
<1>1. v \div b \in Int /\ v % b \in Int
  OBVIOUS
<1>2. v = b * (v \div b) + (v % b)
  OBVIOUS
<1>3. 0 <= v % b /\ v % b < b
  OBVIOUS
<1>4. v >= 0 => v \div b >= 0
  OBVIOUS
<1> QED
  BY <1>1, <1>2, <1>3, <1>4

\* ... for the base of the bytes.
LEMMA DividedOnce ==
  ASSUME NEW b \in Int, b > 0, NEW q \in Int, NEW r \in Int, 0 <= r, r < b
  PROVE  (b * q + r) \div b = q /\ (b * q + r) % b = r
OBVIOUS

\* A number of two digits and a rest.
LEMMA TwoDigits ==
  ASSUME NEW b \in Int, NEW u \in Int, NEW t \in Int, NEW r \in Int
  PROVE  b * (b * u + t) + r = (b * b) * u + (b * t + r)
OBVIOUS

\* A product of numbers is a number.
LEMMA Products ==
  ASSUME NEW a \in Int, NEW b \in Int, NEW c \in Int
  PROVE  /\ a * b \in Int /\ a * (b + c) = a * b + a * c /\ a * (b - c) = a * b - a * c
         /\ a * (b * c) = (a * b) * c
OBVIOUS

\* The two bytes of a number as one.
Raw(v) == (v % Base) + Base * ((v \div Base) % Base)

\* The numbers of shorts that are not negative.
LEMMA HalfFacts == R!Half \in Nat /\ R!Half = Base * Base /\ R!Half > 15 /\ R!Half >= 4 * Base
<1>1. Base \in Nat /\ Base >= 4
  BY MapFacts
<1>2. Base * Base >= 4 * Base
  BY <1>1
<1> QED
  BY <1>1, <1>2 DEF R!Half

\* Two bytes, low one first, are read as the number they were written for.
LEMMA RawIs ==
  ASSUME NEW v \in Int
  PROVE  /\ Raw(v) \in Nat /\ Raw(v) < R!Half
         /\ Raw(v) = v % R!Half /\ Raw(v) % Base = v % Base
         /\ v = R!Half * (v \div R!Half) + Raw(v)
<1>1. PICK b \in Nat : b = Base /\ b > 3
  BY MapFacts
<1>2. PICK w \in Int, r \in Int : w = v \div b /\ r = v % b /\ v = b * w + r /\ 0 <= r /\ r < b
  BY <1>1, Divided
<1>3. PICK u \in Int, t \in Int : u = w \div b /\ t = w % b /\ w = b * u + t /\ 0 <= t /\ t < b
  BY <1>1, Divided
<1>4. PICK y \in Int : y = b * t + r
  BY <1>1, <1>2, <1>3
<1>5. 0 <= y /\ y < b * b
  <2>1. b * t <= b * (b - 1) /\ 0 <= b * t
    BY <1>1, <1>3
  <2>2. b * (b - 1) = b * b - b
    BY <1>1
  <2> QED
    BY <1>1, <1>2, <1>4, <2>1, <2>2
<1>6. v = (b * b) * u + y
  <2>1. b \in Int
    BY <1>1
  <2>2. b * (b * u + t) + r = (b * b) * u + (b * t + r)
    BY <2>1, TwoDigits
  <2> QED
    BY <1>2, <1>3, <1>4, <2>2, Zenon
<1>7. PICK h \in Nat : h = b * b /\ h = R!Half /\ h > 0
  BY <1>1, HalfFacts
<1>8. v % h = y /\ v \div h = u
  BY <1>5, <1>6, <1>7, DividedOnce
<1>9. y % b = r
  <2>1. b > 0 /\ b \in Int
    BY <1>1
  <2>2. (b * t + r) % b = r
    BY <1>2, <1>3, <2>1, DividedOnce
  <2> QED
    BY <1>4, <2>2
<1>10. Raw(v) = y
  <2>1. v % Base = r /\ (v \div Base) % Base = t
    BY <1>1, <1>2, <1>3
  <2> QED
    BY <1>1, <1>4, <2>1 DEF Raw
<1>11. v % b = r
  BY <1>2
<1> QED
  BY <1>1, <1>5, <1>6, <1>7, <1>8, <1>9, <1>10, <1>11

\* What is written for a short.
LEMMA ShortIs ==
  ASSUME NEW v \in Int
  PROVE  /\ R!Short(v) \in Seq(Nat) /\ Len(R!Short(v)) = 2
         /\ R!Short(v)[1] = v % Base /\ R!Short(v)[2] = (v \div Base) % Base
<1>1. PICK b \in Nat : b = Base /\ b > 3
  BY MapFacts
<1>2. v % b \in Nat /\ v \div b \in Int
  BY <1>1, Divided
<1>3. (v \div b) % b \in Nat
  BY <1>1, <1>2, Divided
<1> QED
  BY <1>1, <1>2, <1>3 DEF R!Short

\* A short that is read is the number that was written, where it has one.
LEMMA WrappedIs ==
  ASSUME NEW v \in Int
  PROVE  /\ R!Wrapped(v) = IF 2 * Raw(v) < R!Half THEN Raw(v) ELSE Raw(v) - R!Half
         /\ R!Wrapped(v) \in Int
         /\ R!Wrapped(v) % Base = v % Base
         /\ v >= 0 /\ 2 * v < R!Half => R!Wrapped(v) = v
<1>1. R!RawAt(R!Short(v), 1) = Raw(v)
  <2>1. R!ByteAt(R!Short(v), 1) = v % Base /\ R!ByteAt(R!Short(v), 1 + 1) = (v \div Base) % Base
    BY ShortIs DEF R!ByteAt
  <2> QED
    BY <2>1 DEF R!RawAt, Raw
<1>2. R!Wrapped(v) = IF 2 * Raw(v) < R!Half THEN Raw(v) ELSE Raw(v) - R!Half
  BY <1>1 DEF R!Wrapped, R!ShortAt
<1>3. PICK y \in Nat : y = Raw(v) /\ y < R!Half /\ y = v % R!Half /\ y % Base = v % Base
  BY RawIs
<1>4. PICK h \in Nat, b \in Nat : h = R!Half /\ b = Base /\ h = b * b /\ b > 3
  BY HalfFacts, MapFacts
<1>5. (y - h) % b = v % b
  <2>0. b > 0 /\ b \in Int /\ y \in Int
    BY <1>4
  <2>1. PICK q \in Int, r \in Int : y = b * q + r /\ 0 <= r /\ r < b /\ r = y % b
    BY <2>0, Divided
  <2>2. y - h = b * (q - b) + r
    <3>1. b * (q - b) = b * q - b * b
      BY <2>0, <2>1, Products
    <3> QED
      BY <1>4, <2>1, <3>1
  <2>3. q - b \in Int
    BY <2>1
  <2>4. (b * (q - b) + r) % b = r
    BY <2>0, <2>1, <2>3, DividedOnce
  <2> QED
    BY Zenon, <1>3, <1>4, <2>1, <2>2, <2>4
<1>6. R!Wrapped(v) \in Int /\ R!Wrapped(v) % Base = v % Base
  BY <1>2, <1>3, <1>4, <1>5
<1>7. ASSUME v >= 0, 2 * v < R!Half PROVE R!Wrapped(v) = v
  <2>1. 0 <= v /\ v < h
    BY <1>4, <1>7
  <2>2. v = h * 0 + v
    BY <1>4
  <2>3. v % h = v
    BY <1>4, <2>1, <2>2, DividedOnce
  <2> QED
    BY <1>2, <1>3, <1>4, <1>7, <2>3
<1> QED
  BY <1>2, <1>6, <1>7

\* Readers find a byte, a short and an int that the file holds.
LEMMA ReadByte ==
  ASSUME NEW f, NEW at \in Nat \ {0}, NEW s \in Seq(Nat), Holds(f, at, s), Len(f) \in Nat,
         NEW j \in 1..Len(s)
  PROVE  R!ByteAt(f, at - 1 + j) = s[j]
<1>1. PICK m \in Nat : m = Len(s)
  BY LenProperties
<1>2. at - 1 + m <= Len(f) /\ f[at - 1 + j] = s[j]
  BY <1>1 DEF Holds
<1>3. at - 1 + j <= Len(f)
  BY <1>1, <1>2
<1> QED
  BY <1>2, <1>3 DEF R!ByteAt

\* ... a short.
LEMMA ReadShort ==
  ASSUME NEW f, NEW at \in Nat \ {0}, NEW v \in Int, Holds(f, at, R!Short(v)), Len(f) \in Nat
  PROVE  /\ R!RawAt(f, at) = Raw(v) /\ R!ShortAt(f, at) = R!Wrapped(v)
         /\ v >= 0 /\ 2 * v < R!Half => R!ShortAt(f, at) = v
<1>1. PICK s \in Seq(Nat) : s = R!Short(v) /\ Len(s) = 2 /\ s[1] = v % Base /\ s[2] = (v \div Base) % Base
  BY ShortIs
<1>2. R!ByteAt(f, at) = s[1] /\ R!ByteAt(f, at + 1) = s[2]
  <2>1. 1 \in 1..Len(s) /\ 2 \in 1..Len(s) /\ at - 1 + 1 = at /\ at - 1 + 2 = at + 1
    BY <1>1
  <2>2. R!ByteAt(f, at - 1 + 1) = s[1]
    BY Zenon, <1>1, <2>1, ReadByte
  <2>3. R!ByteAt(f, at - 1 + 2) = s[2]
    BY <1>1, <2>1, ReadByte
  <2> QED
    BY <2>1, <2>2, <2>3
<1>3. R!RawAt(f, at) = Raw(v)
  BY <1>1, <1>2 DEF R!RawAt, Raw
<1> QED
  BY Zenon, <1>3, WrappedIs DEF R!ShortAt

\* What is written for an int.
LEMMA IntIs ==
  ASSUME NEW v \in Int
  PROVE  R!IntOf(v) \in Seq(Nat) /\ Len(R!IntOf(v)) = 4
<1>1. v \div R!Half \in Int
  BY HalfFacts, Divided
<1>2. PICK s \in Seq(Nat), t \in Seq(Nat) : s = R!Short(v) /\ t = R!Short(v \div R!Half) /\ Len(s) = 2 /\ Len(t) = 2
  BY <1>1, ShortIs
<1>3. s \o t \in Seq(Nat) /\ Len(s \o t) = 4
  <2>1. s \o t \in Seq(Nat) /\ Len(s \o t) = Len(s) + Len(t)
    BY ConcatProperties
  <2> QED
    BY <1>2, <2>1
<1> QED
  BY <1>2, <1>3 DEF R!IntOf

\* ... an int.
LEMMA ReadInt ==
  ASSUME NEW f, NEW at \in Nat \ {0}, NEW v \in Nat, v < 2 * R!Half, Holds(f, at, R!IntOf(v)),
         Len(f) \in Nat
  PROVE  R!IntAt(f, at) = v
<1>1. PICK h \in Nat : h = R!Half /\ h > 15
  BY HalfFacts
<1>2. PICK q \in Int, r \in Int : q = v \div h /\ r = v % h /\ v = h * q + r /\ 0 <= r /\ r < h /\ q >= 0
  BY <1>1, Divided
<1>3. q < 2
  <2>1. q >= 2 => h * q >= h * 2
    BY <1>1, <1>2
  <2> QED
    BY <1>1, <1>2, <2>1
<1>4. PICK s \in Seq(Nat), t \in Seq(Nat) : s = R!Short(v) /\ t = R!Short(q) /\ Len(s) = 2
  BY ShortIs
<1>5. R!IntOf(v) = s \o t
  BY Zenon, <1>1, <1>2, <1>4 DEF R!IntOf
<1>6. Holds(f, at, s) /\ Holds(f, at + 2, t)
  BY ZenonT(30), <1>4, <1>5, HoldsParts
<1>7. R!RawAt(f, at) = Raw(v)
  BY <1>4, <1>6, ReadShort
<1>8. R!ShortAt(f, at + 2) = q
  <2>1. at + 2 \in Nat \ {0} /\ 2 * q < h
    BY <1>1, <1>3
  <2> QED
    BY <1>1, <1>2, <1>4, <1>6, <2>1, ReadShort
<1>9. Raw(v) = r
  BY <1>1, <1>2, RawIs
<1>10. R!IntAt(f, at) = R!RawAt(f, at) + R!Half * R!ShortAt(f, at + 2)
  BY DEF R!IntAt
<1>11. R!IntAt(f, at) = r + h * q
  BY <1>1, <1>7, <1>8, <1>9, <1>10
<1> QED
  BY <1>1, <1>2, <1>11

-----------------------------------------------------------------------------
(***************************************************************************)
(* The dictionary of names.                                                *)
(***************************************************************************)
\* The bytes of lists are the lists one after the other.
LEMMA BytesPiled ==
  ASSUME NEW n \in Nat, NEW seqs \in [1..n -> Seq(Nat)]
  PROVE  \E g : Piled(n, seqs, g) /\ R!Bytes(seqs) = g[n]
<1>1. R!Bytes(seqs) = FlattenSeq(seqs)
  BY DEF R!Bytes, R!FlattenSeq, FlattenSeq
<1> QED
  BY <1>1, Piles

\* An entry of the dictionary is four bytes here: its number and its name.
LEMMA EntryIs ==
  ASSUME NEW n \in DOMAIN Editor
  PROVE  /\ n \in Nat /\ n >= 1 /\ n < 7 /\ R!NumberOf(n) \in Nat /\ R!NumberOf(n) <= 7
         /\ R!Entry(n) \in Seq(Nat) /\ Len(R!Entry(n)) = 4
<1>1. n \in 1..Len(Editor) /\ Len(Editor) \in Nat /\ Len(Editor) < 7
  BY MapFacts, LenProperties DEF R!TextNumber
<1>2. n \in Nat /\ n >= 1 /\ n < 7
  BY <1>1
<1>3. R!NumberOf(n) \in Nat /\ R!NumberOf(n) <= 7
  BY <1>2 DEF R!NumberOf, R!TextNumber
<1>4. PICK s \in Seq(Nat), t \in Seq(Nat) :
        s = R!Short(R!NumberOf(n)) /\ Len(s) = 2 /\ t = R!NameBytes(n) /\ Len(t) = 2
  <2>1. R!NameBytes(n) \in Seq(Nat) /\ Len(R!NameBytes(n)) = 2
    BY <1>2 DEF R!NameBytes
  <2>2. R!Short(R!NumberOf(n)) \in Seq(Nat) /\ Len(R!Short(R!NumberOf(n))) = 2
    BY <1>3, ShortIs
  <2> QED
    BY <2>1, <2>2
<1>5. s \o t \in Seq(Nat) /\ Len(s \o t) = Len(s) + Len(t)
  BY ConcatProperties
<1>6. R!Entry(n) = s \o t
  BY <1>4 DEF R!Entry
<1> QED
  BY <1>2, <1>3, <1>4, <1>5, <1>6

\* It is read as it was written.
LEMMA EntryRead ==
  ASSUME NEW n \in DOMAIN Editor, NEW f, NEW at \in Nat \ {0}, Len(f) \in Nat, Holds(f, at, R!Entry(n))
  PROVE  R!ShortAt(f, at) = R!NumberOf(n) /\ R!ByteAt(f, at + 3) = n
<1>1. n \in Nat /\ R!NumberOf(n) \in Nat /\ R!NumberOf(n) <= 7
  BY EntryIs
<1>2. PICK s \in Seq(Nat), t \in Seq(Nat) :
        s = R!Short(R!NumberOf(n)) /\ Len(s) = 2 /\ t = R!NameBytes(n) /\ Len(t) = 2 /\ t[2] = n
  <2>1. /\ R!NameBytes(n) \in Seq(Nat) /\ Len(R!NameBytes(n)) = 2 /\ R!NameBytes(n)[2] = n
    BY <1>1 DEF R!NameBytes
  <2>2. R!Short(R!NumberOf(n)) \in Seq(Nat) /\ Len(R!Short(R!NumberOf(n))) = 2
    BY <1>1, ShortIs
  <2> QED
    BY <2>1, <2>2
<1>3. Holds(f, at, s \o t)
  BY <1>2 DEF R!Entry
<1>4. Holds(f, at, s) /\ Holds(f, at + Len(s), t)
  BY <1>3, HoldsParts
<1>5. R!ShortAt(f, at) = R!NumberOf(n)
  <2>1. Holds(f, at, R!Short(R!NumberOf(n))) /\ 2 * R!NumberOf(n) < R!Half /\ R!NumberOf(n) >= 0
    BY SMTT(30), <1>1, <1>2, <1>4, HalfFacts
  <2> QED
    BY <1>1, <2>1, ReadShort
<1>6. PICK p \in Nat \ {0}, j \in 1..Len(t) : p = at + 2 /\ j = 2 /\ p - 1 + j = at + 3
  BY <1>2
<1>7. R!ByteAt(f, p - 1 + j) = t[j]
  <2>1. Holds(f, p, t)
    BY <1>2, <1>4, <1>6
  <2> QED
    BY <2>1, ReadByte
<1> QED
  BY <1>2, <1>5, <1>6, <1>7

\* The list of entities of the editor has a length.
LEMMA EditorLen == Len(Editor) \in Nat /\ Len(Editor) < 7 /\ DOMAIN Editor = 1..Len(Editor)
BY MapFacts, LenProperties DEF R!TextNumber

\* The dictionary is its entries one after the other.
LEMMA DictionaryIs == R!Dictionary \in Seq(Nat) /\ Len(R!Dictionary) = 4 * Len(Editor)
<1>1. PICK n \in Nat : n = Len(Editor) /\ DOMAIN Editor = 1..n
  BY ZenonT(30), EditorLen
<1> DEFINE Es == [i \in DOMAIN Editor |-> R!Entry(i)]
<1>2. Es \in [1..n -> Seq(Nat)] /\ \A i \in 1..n : Len(Es[i]) = 4
  BY <1>1, EntryIs
<1> HIDE DEF Es
<1>3. PICK g : Piled(n, Es, g) /\ R!Bytes(Es) = g[n]
  BY <1>2, BytesPiled
<1>4. Len(g[n]) = 4 * n
  <2>1. \A i \in 0..n : Len(g[i]) = 4 * i
    <3>1. PICK k \in Nat : k = 4
      OBVIOUS
    <3>2. Sized(n, Es, k)
      BY <1>2, <3>1 DEF Sized
    <3>3. Steady(n, g, k)
      BY <1>2, <1>3, <3>2, PileEqual
    <3> QED
      BY <3>1, <3>3 DEF Steady
  <2> QED
    BY <2>1
<1>5. g[n] \in Seq(Nat)
  BY <1>3 DEF Piled
<1> QED
  BY <1>1, <1>3, <1>4, <1>5 DEF Es, R!Dictionary

\* Every entry is at its place in it.
LEMMA DictionaryHolds ==
  ASSUME NEW f, Len(f) \in Nat, NEW at \in Nat \ {0}, Holds(f, at, R!Dictionary)
  PROVE  \A i \in DOMAIN Editor : Holds(f, at + 4 * (i - 1), R!Entry(i))
<1>1. PICK n \in Nat : n = Len(Editor) /\ DOMAIN Editor = 1..n
  BY ZenonT(30), EditorLen
<1> DEFINE Es == [i \in DOMAIN Editor |-> R!Entry(i)]
<1>2. Es \in [1..n -> Seq(Nat)] /\ \A i \in 1..n : Len(Es[i]) = 4 /\ Es[i] = R!Entry(i)
  BY <1>1, EntryIs
<1>0. R!Dictionary = R!Bytes(Es)
  BY DEF R!Dictionary
<1> HIDE DEF Es
<1>3. PICK g : Piled(n, Es, g) /\ R!Bytes(Es) = g[n]
  BY <1>2, BytesPiled
<1>4. \A i \in 0..n : Len(g[i]) = 4 * i
  <2>1. PICK k \in Nat : k = 4
    OBVIOUS
  <2>2. Sized(n, Es, k)
    BY <1>2, <2>1 DEF Sized
  <2>3. Steady(n, g, k)
    BY <1>2, <1>3, <2>2, PileEqual
  <2> QED
    BY <2>1, <2>3 DEF Steady
<1>5. Holds(f, at, g[n])
  BY <1>0, <1>3
<1>6. \A i \in 1..n : Holds(f, at + Len(g[i - 1]), Es[i])
  BY Zenon, <1>2, <1>3, <1>5, PileHolds
<1> SUFFICES ASSUME NEW i \in 1..n PROVE Holds(f, at + 4 * (i - 1), R!Entry(i))
  BY <1>1
<1>7. i - 1 \in 0..n
  OBVIOUS
<1>8. Len(g[i - 1]) = 4 * (i - 1)
  BY <1>4, <1>7
<1> QED
  BY ZenonT(30), <1>2, <1>6, <1>8

\* The first of one is that one.
LEMMA FirstOfOne == ASSUME NEW k \in Int PROVE R!FirstOf({k}) = k
BY DEF R!FirstOf

\* The dictionary as a reader has it: every name under the number it is written with.
NamesGiven == [i \in DOMAIN Editor |-> [number |-> R!NumberOf(i), name |-> Editor[i]]]

\* No two entities are written with one number.
LEMMA NumbersDiffer ==
  ASSUME NEW i \in DOMAIN Editor, NEW k \in DOMAIN Editor, R!NumberOf(i) = R!NumberOf(k)
  PROVE  i = k
<1>1. i \in Nat /\ i < 7 /\ k \in Nat /\ k < 7
  BY EntryIs
<1>2. Editor[i] = Editor[k] => i = k
  BY MapFacts
<1> QED
  BY <1>1, <1>2 DEF R!NumberOf, R!TextNumber

\* A name is looked for in the dictionary and found under its number.
LEMMA SearchIs ==
  ASSUME NEW names, NEW k \in DOMAIN Editor
  PROVE  R!SearchDict(names, NamesGiven, R!NumberOf(k)) = R!ByName(names, Editor[k])
<1>1. DOMAIN NamesGiven = DOMAIN Editor
  BY DEF NamesGiven
<1>2. \A i \in DOMAIN Editor : NamesGiven[i].number = R!NumberOf(i) /\ NamesGiven[i].name = Editor[i]
  BY DEF NamesGiven
<1>3. {i \in DOMAIN NamesGiven : NamesGiven[i].number = R!NumberOf(k)} = {k}
  BY <1>1, <1>2, NumbersDiffer
<1>4. {k} # {} /\ R!FirstOf({k}) = k
  BY EntryIs, FirstOfOne
<1> QED
  BY Zenon, <1>2, <1>3, <1>4 DEF R!SearchDict

-----------------------------------------------------------------------------
(***************************************************************************)
(* Objects.                                                                *)
(***************************************************************************)
\* The text of an object.
\* The text of an object is made even by a zero, and every sign kept.
LEMMA EvenedIs ==
  ASSUME NEW t \in R!Text
  PROVE  /\ R!Evened(t) \in Seq(Nat)
         /\ Len(R!Evened(t)) = 2 * ((1 + Len(t)) \div 2)
         /\ R!UpToEnd(R!Evened(t)) = t
<1>1. t \in Seq(1..Base - 1) /\ Base \in Nat
  BY MapFacts DEF R!Text
<1>2. PICK l \in Nat : l = Len(t) /\ DOMAIN t = 1..l /\ t \in [1..l -> 1..Base - 1]
  BY <1>1, LenProperties
<1>3. t \in Seq(Nat) /\ \A i \in 1..l : t[i] \in Nat /\ t[i] # 0
  <2>1. \A i \in 1..l : t[i] \in Nat /\ t[i] # 0
    BY <1>1, <1>2
  <2>2. t \in [1..l -> Nat]
    BY <1>2, <2>1
  <2> QED
    BY <2>1, <2>2, SeqDef
<1>4. CASE l % 2 = 0
  <2>1. R!Evened(t) = t
    BY <1>2, <1>4 DEF R!Evened
  <2>2. 2 * ((1 + l) \div 2) = l
    BY <1>4
  <2>3. 0 \notin R!ToSet(t)
    BY <1>2, <1>3 DEF R!ToSet, ToSet
  <2>4. R!UpToEnd(t) = t
    BY <2>3 DEF R!UpToEnd
  <2> QED
    BY ZenonT(30), <1>2, <1>3, <2>1, <2>2, <2>4
<1>5. CASE l % 2 # 0
  <2>1. PICK u \in Seq(Nat) : /\ u = Append(t, 0) /\ Len(u) = l + 1 /\ u[l + 1] = 0
                              /\ \A i \in 1..l : u[i] = t[i]
    <3>1. 0 \in Nat /\ t \in Seq(Nat)
      BY <1>3
    <3>2. /\ Append(t, 0) \in Seq(Nat) /\ Len(Append(t, 0)) = Len(t) + 1
          /\ \A i \in 1..Len(t) : Append(t, 0)[i] = t[i]
          /\ Append(t, 0)[Len(t) + 1] = 0
      BY <3>1, AppendProperties
    <3> QED
      BY Zenon, <1>2, <3>2
  <2>2. R!Evened(t) = u
    BY <1>2, <1>5, <2>1 DEF R!Evened
  <2>3. 2 * ((1 + l) \div 2) = l + 1
    BY <1>5
  <2>4. DOMAIN u = 1..(l + 1)
    BY <2>1, LenProperties
  <2>5. 0 \in R!ToSet(u)
    BY <2>1, <2>4 DEF R!ToSet, ToSet
  <2> DEFINE Ends == {i \in DOMAIN u : u[i] = 0}
  <2>6. Ends = {l + 1}
    <3>1. ASSUME NEW i \in 1..(l + 1), i # l + 1 PROVE u[i] # 0
      BY <1>3, <2>1, <3>1
    <3> QED
      BY <2>1, <2>4, <3>1
  <2>7. R!FirstOf({l + 1}) = l + 1
    BY FirstOfOne
  <2>8. SubSeq(u, 1, l) = t
    <3>1. PICK v \in Seq(Nat) : v = SubSeq(u, 1, l) /\ Len(v) = l /\ \A i \in 1..l : v[i] = u[i]
      <4>1. 1 \in 1..Len(u) + 1 /\ l \in 0..Len(u)
        BY <2>1
      <4> QED
        BY <4>1, <2>1, SubSeqProperties
    <3>2. \A i \in 1..l : v[i] = t[i]
      BY <2>1, <3>1
    <3> QED
      BY <1>2, <1>3, <3>1, <3>2, SeqEqual
  <2>9. R!UpToEnd(u) = SubSeq(u, 1, l)
    <3>1. R!UpToEnd(u) = SubSeq(u, 1, R!FirstOf(Ends) - 1)
      BY Zenon, <2>5 DEF R!UpToEnd
    <3> HIDE DEF Ends
    <3>2. R!FirstOf(Ends) - 1 = l
      BY <2>6, <2>7
    <3> QED
      BY <3>1, <3>2
  <2> QED
    BY <1>2, <2>1, <2>2, <2>3, <2>8, <2>9
<1> QED
  BY <1>4, <1>5

\* A reader has the text without the zero.
LEMMA TextRead ==
  ASSUME NEW t \in R!Text, NEW n \in Nat, n = Len(R!Evened(t)), n <= TextLen,
         NEW f, Len(f) \in Nat, NEW at \in Nat \ {0}, Holds(f, at, R!Evened(t))
  PROVE  R!TextAt(f, at, n) = t
<1>1. PICK u \in Seq(Nat) : u = R!Evened(t) /\ Len(u) = n /\ u \in [1..n -> Nat]
  BY EvenedIs, LenProperties
<1>2. ASSUME NEW i \in 1..n PROVE R!ByteAt(f, at + i - 1) = u[i]
  <2>1. i \in 1..Len(u) /\ Holds(f, at, u)
    BY <1>1
  <2>2. R!ByteAt(f, at - 1 + i) = u[i]
    BY <2>1, ReadByte
  <2>3. at - 1 + i = at + i - 1
    OBVIOUS
  <2> QED
    BY <2>2, <2>3
<1>3. [i \in 1..n |-> R!ByteAt(f, at + i - 1)] = u
  BY <1>1, <1>2
<1>4. ~(n > TextLen)
  BY MapFacts
<1>5. R!TextAt(f, at, n) = R!UpToEnd(u)
  BY Zenon, <1>3, <1>4 DEF R!TextAt
<1> QED
  BY <1>1, <1>5, EvenedIs

-----------------------------------------------------------------------------
\* An object, as a reader with these names has it.
AsRead(names, o) ==
  [npc |-> R!Known(R!ByName(names, Editor[o.npc])),
   x |-> IF Editor[o.npc] = "text" THEN 0 ELSE R!Wrapped(o.x),
   target |-> IF Editor[o.npc] = "text" THEN R!NoTarget ELSE R!Wrapped(o.target),
   text |-> IF Editor[o.npc] = "text" THEN o.text ELSE <<>>]

\* The parts of an object that is written.
LEMMA ObjectIs ==
  ASSUME NEW o \in R!Object
  PROVE  o.npc \in DOMAIN Editor /\ o.x \in Int /\ o.target \in Int /\ o.text \in R!Text /\ Len(o.text) \in Nat
<1>1. o.npc \in DOMAIN Editor /\ o.x \in Int /\ o.target \in Int /\ o.text \in R!Text
  BY DEF R!Object
<1> QED
  BY <1>1, LenProperties DEF R!Text

\* An object with a text.
LEMMA TextObject ==
  ASSUME NEW o \in R!Object, Editor[o.npc] = "text", Len(o.text) < TextLen
  PROVE  /\ R!WriteObject(o) \in Seq(Nat) /\ Len(R!WriteObject(o)) = 4 + Len(R!Evened(o.text))
         /\ \A names : \A f : \A at \in Nat \ {0} : Len(f) \in Nat /\ Holds(f, at, R!WriteObject(o)) =>
              /\ at + 2 + R!Taken(f, at + 2, R!ShortAt(f, at)) = at + 4 + Len(R!Evened(o.text))
              /\ R!SkipObject(f, at) = at + 4 + Len(R!Evened(o.text))
              /\ R!ReadObject(names, f, NamesGiven, at + 2, R!ShortAt(f, at)) = AsRead(names, o)
<1>1. PICK t \in R!Text, l \in Nat : t = o.text /\ l = Len(t) /\ l < TextLen
  BY ObjectIs
<1>2. PICK h \in Nat : h = R!Half /\ h > 15 /\ TextLen \in Nat /\ TextLen + 4 < h /\ TextLen % 2 = 0
  BY HalfFacts, MapFacts
<1>3. PICK d \in Nat : d = (1 + l) \div 2
  OBVIOUS
<1>4. PICK n \in Nat, e \in Seq(Nat) : e = R!Evened(t) /\ n = Len(e) /\ n = 2 * d /\ R!UpToEnd(e) = t
  <2>1. R!Evened(t) \in Seq(Nat) /\ Len(R!Evened(t)) = 2 * ((1 + Len(t)) \div 2) /\ R!UpToEnd(R!Evened(t)) = t
    BY EvenedIs
  <2>2. Len(R!Evened(t)) \in Nat
    BY <2>1, LenProperties
  <2> QED
    BY Zenon, <1>1, <1>3, <2>1, <2>2
<1>5. n <= TextLen
  <2>1. PICK k \in Int : TextLen = 2 * k
    <3>1. TextLen = 2 * (TextLen \div 2) + (TextLen % 2) /\ TextLen \div 2 \in Int
      BY SMTT(30), <1>2
    <3> QED
      BY <1>2, <3>1
  <2>2. 2 * d <= 1 + l
    BY <1>3
  <2>3. 1 + l <= 2 * k
    BY <1>1, <1>2, <2>1
  <2> QED
    BY <1>4, <2>1, <2>2, <2>3
<1>6. PICK a \in Seq(Nat) : a = R!Short(1 + d) /\ Len(a) = 2
  <2>1. 1 + d \in Int
    OBVIOUS
  <2> QED
    BY Zenon, <2>1, ShortIs
<1>7. PICK b \in Seq(Nat) : b = R!Short(7) /\ Len(b) = 2
  <2>1. 7 \in Int
    OBVIOUS
  <2> QED
    BY Zenon, <2>1, ShortIs
<1>8. R!WriteObject(o) = a \o b \o e
  BY <1>1, <1>3, <1>4, <1>6, <1>7 DEF R!WriteObject, R!TextNumber
<1>9. a \o b \o e \in Seq(Nat) /\ Len(a \o b \o e) = 4 + n
  <2>1. PICK u : u = a \o b \o e
    BY Zenon
  <2>2. u \in Seq(Nat) /\ Len(u) = Len(a) + Len(b) + Len(e)
    BY <2>1, ThreeLong
  <2>3. Len(u) = 4 + n
    <3>1. Len(a) = 2 /\ Len(b) = 2 /\ Len(e) = n
      BY <1>4, <1>6, <1>7
    <3>2. n \in Nat
      OBVIOUS
    <3> QED
      BY ONLY <2>2, <3>1, <3>2
  <2> QED
    BY <2>1, <2>2, <2>3
<1>10. ASSUME NEW names, NEW f, NEW at \in Nat \ {0}, Len(f) \in Nat, Holds(f, at, R!WriteObject(o))
       PROVE  /\ at + 2 + R!Taken(f, at + 2, R!ShortAt(f, at)) = at + 4 + n
              /\ R!SkipObject(f, at) = at + 4 + n
              /\ R!ReadObject(names, f, NamesGiven, at + 2, R!ShortAt(f, at)) = AsRead(names, o)
  <2>1. Holds(f, at, a \o b \o e)
    BY <1>8, <1>10
  <2>2. Holds(f, at, a) /\ Holds(f, at + Len(a), b) /\ Holds(f, at + Len(a) + Len(b), e)
    BY Zenon, <1>10, <2>1, HoldsThree
  <2>3. PICK p \in Nat \ {0}, q \in Nat \ {0} : p = at + 2 /\ q = at + 4 /\ q = p + 2
    OBVIOUS
  <2>4. Holds(f, p, b) /\ Holds(f, q, e)
    BY Zenon, <1>6, <1>7, <2>2, <2>3
  <2>5. R!ShortAt(f, at) = 1 + d
    <3>1. 1 + d \in Int /\ 1 + d >= 0 /\ 2 * (1 + d) < R!Half
      BY <1>2, <1>4, <1>5
    <3> QED
      BY <1>6, <1>10, <2>2, <3>1, ReadShort
  <2>6. R!ShortAt(f, p) = 7
    <3>1. 7 \in Int /\ 7 >= 0 /\ 2 * 7 < R!Half
      BY <1>2
    <3> QED
      BY Zenon, <1>7, <1>10, <2>4, <3>1, ReadShort
  <2>7. R!TextBytes(1 + d) = n
    BY <1>4 DEF R!TextBytes
  <2>8. R!TextTaken(n) = n
    BY <1>2, <1>5 DEF R!TextTaken
  <2>9. R!Taken(f, p, 1 + d) = 2 + n
    BY <2>6, <2>7, <2>8 DEF R!Taken, R!TextNumber
  <2>10. R!TextAt(f, q, n) = t
    BY Zenon, <1>4, <1>5, <1>10, <2>4, TextRead
  <2>11. R!NumberOf(o.npc) = 7 /\ o.npc \in DOMAIN Editor
    BY ObjectIs DEF R!NumberOf, R!TextNumber
  <2>12. R!SearchDict(names, NamesGiven, 7) = R!ByName(names, Editor[o.npc])
    BY <2>11, SearchIs
  <2>13. R!ReadObject(names, f, NamesGiven, p, 1 + d) = AsRead(names, o)
    <3>1. R!ReadObject(names, f, NamesGiven, p, 1 + d) =
            [npc |-> R!Known(R!ByName(names, Editor[o.npc])), x |-> 0, target |-> R!NoTarget, text |-> t]
      BY <2>3, <2>6, <2>7, <2>10, <2>12 DEF R!ReadObject, R!TextNumber
    <3>2. AsRead(names, o) =
            [npc |-> R!Known(R!ByName(names, Editor[o.npc])), x |-> 0, target |-> R!NoTarget, text |-> t]
      BY <1>1 DEF AsRead
    <3> QED
      BY <3>1, <3>2
  <2>14. R!SkipObject(f, at) = at + 4 + n
    BY <1>4, <2>5 DEF R!SkipObject
  <2> QED
    BY <2>3, <2>5, <2>9, <2>13, <2>14
<1>11. Len(R!Evened(o.text)) = n
  BY <1>1, <1>4
<1> HIDE DEF R!Half
<1> QED
  BY <1>8, <1>9, <1>10, <1>11

\* The fields that every object has.
LEMMA FourShorts ==
  ASSUME NEW i \in Int, NEW j \in Int, NEW k \in Int, NEW l \in Int
  PROVE  /\ R!Short(i) \o R!Short(j) \o R!Short(k) \o R!Short(l) \in Seq(Nat)
         /\ Len(R!Short(i) \o R!Short(j) \o R!Short(k) \o R!Short(l)) = 8
         /\ \A f : \A at \in Nat \ {0} :
              Len(f) \in Nat /\ Holds(f, at, R!Short(i) \o R!Short(j) \o R!Short(k) \o R!Short(l)) =>
                /\ Holds(f, at, R!Short(i)) /\ Holds(f, at + 2, R!Short(j))
                /\ Holds(f, at + 4, R!Short(k)) /\ Holds(f, at + 6, R!Short(l))
<1>1. PICK a \in Seq(Nat) : a = R!Short(i) /\ Len(a) = 2
  BY ShortIs
<1>2. PICK b \in Seq(Nat) : b = R!Short(j) /\ Len(b) = 2
  BY Zenon, ShortIs
<1>3. PICK c \in Seq(Nat) : c = R!Short(k) /\ Len(c) = 2
  BY Zenon, ShortIs
<1>4. PICK d \in Seq(Nat) : d = R!Short(l) /\ Len(d) = 2
  BY Zenon, ShortIs
<1>5. PICK u : u = a \o b \o c
  BY Zenon
<1>6. u \in Seq(Nat) /\ Len(u) = 6
  <2>1. u \in Seq(Nat) /\ Len(u) = Len(a) + Len(b) + Len(c)
    BY <1>5, ThreeLong
  <2>2. Len(a) = 2 /\ Len(b) = 2 /\ Len(c) = 2
    BY <1>1, <1>2, <1>3
  <2> QED
    BY ONLY <2>1, <2>2
<1>7. u \o d \in Seq(Nat) /\ Len(u \o d) = 8
  <2>1. u \o d \in Seq(Nat) /\ Len(u \o d) = Len(u) + Len(d)
    BY Zenon, <1>6, ConcatProperties
  <2>2. Len(u) = 6 /\ Len(d) = 2
    BY <1>4, <1>6
  <2> QED
    BY ONLY <2>1, <2>2
<1>8. ASSUME NEW f, NEW at \in Nat \ {0}, Len(f) \in Nat, Holds(f, at, u \o d)
      PROVE  Holds(f, at, a) /\ Holds(f, at + 2, b) /\ Holds(f, at + 4, c) /\ Holds(f, at + 6, d)
  <2>1. Holds(f, at, u) /\ Holds(f, at + Len(u), d)
    BY Zenon, <1>6, <1>8, HoldsParts
  <2>2. Holds(f, at, a \o b \o c)
    BY <1>5, <2>1
  <2>3. Holds(f, at, a) /\ Holds(f, at + Len(a), b) /\ Holds(f, at + Len(a) + Len(b), c)
    BY <1>8, <2>2, HoldsThree
  <2>4. at + Len(a) = at + 2 /\ at + Len(a) + Len(b) = at + 4 /\ at + Len(u) = at + 6
    BY <1>1, <1>2, <1>6
  <2> QED
    BY <2>1, <2>3, <2>4
<1> QED
  BY <1>1, <1>2, <1>3, <1>4, <1>5, <1>7, <1>8

\* An object without a text.
LEMMA PlainObject ==
  ASSUME NEW o \in R!Object, Editor[o.npc] # "text"
  PROVE  /\ R!WriteObject(o) \in Seq(Nat) /\ Len(R!WriteObject(o)) = 8
         /\ \A names : \A f : \A at \in Nat \ {0} : Len(f) \in Nat /\ Holds(f, at, R!WriteObject(o)) =>
              /\ at + 2 + R!Taken(f, at + 2, R!ShortAt(f, at)) = at + 8
              /\ R!SkipObject(f, at) = at + 8
              /\ R!ReadObject(names, f, NamesGiven, at + 2, R!ShortAt(f, at)) = AsRead(names, o)
<1>1. o.npc \in DOMAIN Editor /\ o.x \in Int /\ o.target \in Int
  BY ObjectIs
<1>2. PICK k \in Nat : k = o.npc /\ k < 7 /\ k = R!NumberOf(o.npc)
  BY <1>1, EntryIs DEF R!NumberOf
<1>3. PICK v \in Int, w \in Int : v = o.x /\ w = o.target
  BY <1>1
<1>4. PICK three \in Nat : three = 3
  OBVIOUS
<1> DEFINE Whole == R!Short(three) \o R!Short(k) \o R!Short(v) \o R!Short(w)
<1>5. R!WriteObject(o) = Whole
  BY <1>2, <1>3, <1>4 DEF R!WriteObject
<1>6. Whole \in Seq(Nat) /\ Len(Whole) = 8
  BY FourShorts
<1>8. ASSUME NEW f, NEW at \in Nat \ {0}, Len(f) \in Nat, Holds(f, at, Whole)
      PROVE  /\ Holds(f, at, R!Short(three)) /\ Holds(f, at + 2, R!Short(k))
             /\ Holds(f, at + 4, R!Short(v)) /\ Holds(f, at + 6, R!Short(w))
  <2>1. three \in Int /\ k \in Int
    OBVIOUS
  <2>2. /\ Whole \in Seq(Nat)
        /\ \A ff : \A a \in Nat \ {0} : Len(ff) \in Nat /\ Holds(ff, a, Whole) =>
                /\ Holds(ff, a, R!Short(three)) /\ Holds(ff, a + 2, R!Short(k))
                /\ Holds(ff, a + 4, R!Short(v)) /\ Holds(ff, a + 6, R!Short(w))
    BY Zenon, <2>1, FourShorts
  <2> HIDE DEF Whole
  <2> QED
    BY <1>8, <2>2
<1>7. ASSUME NEW names, NEW f, NEW at \in Nat \ {0}, Len(f) \in Nat, Holds(f, at, Whole)
      PROVE  /\ at + 2 + R!Taken(f, at + 2, R!ShortAt(f, at)) = at + 8
             /\ R!SkipObject(f, at) = at + 8
             /\ R!ReadObject(names, f, NamesGiven, at + 2, R!ShortAt(f, at)) = AsRead(names, o)
  <2>1. /\ Holds(f, at, R!Short(three)) /\ Holds(f, at + 2, R!Short(k))
        /\ Holds(f, at + 4, R!Short(v)) /\ Holds(f, at + 6, R!Short(w))
    BY <1>7, <1>8
  <2> HIDE DEF Whole
  <2>2. PICK p \in Nat \ {0}, q \in Nat \ {0}, r \in Nat \ {0} :
          p = at + 2 /\ q = at + 4 /\ r = at + 6 /\ q = p + 2 /\ r = p + 4
    OBVIOUS
  <2>3. Holds(f, p, R!Short(k)) /\ Holds(f, q, R!Short(v)) /\ Holds(f, r, R!Short(w))
    BY <2>1, <2>2
  <2>4. R!ShortAt(f, at) = 3
    <3>1. three \in Int /\ three >= 0 /\ 2 * three < R!Half
      BY <1>4, HalfFacts
    <3> QED
      BY <1>4, <1>7, <2>1, <3>1, ReadShort
  <2>5. R!ShortAt(f, p) = k
    <3>1. k \in Int /\ k >= 0 /\ 2 * k < R!Half
      BY <1>2, HalfFacts
    <3> QED
      BY <1>7, <2>3, <3>1, ReadShort
  <2>6. R!ShortAt(f, q) = R!Wrapped(v)
    BY <1>7, <2>3, ReadShort
  <2>7. R!ShortAt(f, r) = R!Wrapped(w)
    BY <1>7, <2>3, ReadShort
  <2>8. R!Taken(f, p, 3) = 6
    BY <1>2, <2>5 DEF R!Taken, R!TextNumber
  <2>9. R!SkipObject(f, at) = at + 8
    BY <2>4 DEF R!SkipObject
  <2>10. R!SearchDict(names, NamesGiven, k) = R!ByName(names, Editor[o.npc])
    BY <1>1, <1>2, SearchIs
  <2>11. R!ReadObject(names, f, NamesGiven, p, 3) =
           [npc |-> R!Known(R!ByName(names, Editor[o.npc])), x |-> R!Wrapped(v),
            target |-> R!Wrapped(w), text |-> <<>>]
    BY <1>2, <2>2, <2>5, <2>6, <2>7, <2>10 DEF R!ReadObject, R!TextNumber
  <2>12. AsRead(names, o) =
           [npc |-> R!Known(R!ByName(names, Editor[o.npc])), x |-> R!Wrapped(v),
            target |-> R!Wrapped(w), text |-> <<>>]
    BY <1>3 DEF AsRead
  <2>13. at + 2 + R!Taken(f, at + 2, R!ShortAt(f, at)) = at + 8
    BY <2>2, <2>4, <2>8
  <2>14. R!ReadObject(names, f, NamesGiven, at + 2, R!ShortAt(f, at)) = AsRead(names, o)
    BY <2>2, <2>4, <2>11, <2>12
  <2> QED
    BY <2>9, <2>13, <2>14
<1> HIDE DEF Whole
<1> QED
  BY <1>5, <1>6, <1>7

\* An object of either kind: every reader comes to its end, and has what it kept.
LEMMA ObjectRead ==
  ASSUME NEW o \in R!Object, Len(o.text) < TextLen
  PROVE  /\ R!WriteObject(o) \in Seq(Nat)
         /\ \A names : \A f : \A at \in Nat \ {0} : Len(f) \in Nat /\ Holds(f, at, R!WriteObject(o)) =>
              /\ at + 2 + R!Taken(f, at + 2, R!ShortAt(f, at)) = at + Len(R!WriteObject(o))
              /\ R!SkipObject(f, at) = at + Len(R!WriteObject(o))
              /\ R!ReadObject(names, f, NamesGiven, at + 2, R!ShortAt(f, at)) = AsRead(names, o)
<1>1. CASE Editor[o.npc] = "text"
  <2>1. PICK l \in Nat : l = Len(R!Evened(o.text))
    BY EvenedIs, ObjectIs, LenProperties
  <2>2. R!WriteObject(o) \in Seq(Nat) /\ Len(R!WriteObject(o)) = 4 + l
    BY <1>1, <2>1, TextObject
  <2>3. ASSUME NEW at \in Nat PROVE at + Len(R!WriteObject(o)) = at + 4 + l
    BY <2>2
  <2> QED
    BY <1>1, <2>1, <2>2, <2>3, TextObject
<1>2. CASE Editor[o.npc] # "text"
  BY Zenon, <1>2, PlainObject
<1> QED
  BY <1>1, <1>2

-----------------------------------------------------------------------------
(***************************************************************************)
(* Cells and the header.                                                   *)
(***************************************************************************)
\* A cell.
LEMMA CellIs ==
  ASSUME NEW c \in R!Cell
  PROVE  /\ R!WriteCell(c) \in Seq(Nat) /\ Len(R!WriteCell(c)) = 6
         /\ \A f : \A at \in Nat \ {0} : Len(f) \in Nat /\ Holds(f, at, R!WriteCell(c)) =>
              /\ R!ShortAt(f, at) = R!Wrapped(c.back) /\ R!ShortAt(f, at + 2) = R!Wrapped(c.fore)
              /\ R!ShortAt(f, at + 4) = R!Wrapped(c.block)
<1>1. PICK i \in Int, j \in Int, k \in Int : i = c.back /\ j = c.fore /\ k = c.block
  BY DEF R!Cell
<1>2. PICK a \in Seq(Nat) : a = R!Short(i) /\ Len(a) = 2
  BY ShortIs
<1>3. PICK b \in Seq(Nat) : b = R!Short(j) /\ Len(b) = 2
  BY Zenon, ShortIs
<1>4. PICK d \in Seq(Nat) : d = R!Short(k) /\ Len(d) = 2
  BY Zenon, ShortIs
<1>5. PICK u : u = a \o b \o d
  BY Zenon
<1>6. R!WriteCell(c) = u
  BY <1>1, <1>2, <1>3, <1>4, <1>5 DEF R!WriteCell
<1>7. u \in Seq(Nat) /\ Len(u) = 6
  <2>1. u \in Seq(Nat) /\ Len(u) = Len(a) + Len(b) + Len(d)
    BY <1>5, ThreeLong
  <2>2. Len(a) = 2 /\ Len(b) = 2 /\ Len(d) = 2
    BY <1>2, <1>3, <1>4
  <2> QED
    BY ONLY <2>1, <2>2
<1>8. ASSUME NEW f, NEW at \in Nat \ {0}, Len(f) \in Nat, Holds(f, at, u)
      PROVE  /\ R!ShortAt(f, at) = R!Wrapped(i) /\ R!ShortAt(f, at + 2) = R!Wrapped(j)
             /\ R!ShortAt(f, at + 4) = R!Wrapped(k)
  <2>1. Holds(f, at, a \o b \o d)
    BY <1>5, <1>8
  <2>2. Holds(f, at, a) /\ Holds(f, at + Len(a), b) /\ Holds(f, at + Len(a) + Len(b), d)
    BY <1>8, <2>1, HoldsThree
  <2>3. PICK p \in Nat \ {0}, q \in Nat \ {0} : p = at + 2 /\ q = at + 4
    OBVIOUS
  <2>4. at + Len(a) = p /\ at + Len(a) + Len(b) = q
    BY <1>2, <1>3, <2>3
  <2>5. Holds(f, at, R!Short(i)) /\ Holds(f, p, R!Short(j)) /\ Holds(f, q, R!Short(k))
    BY <1>2, <1>3, <1>4, <2>2, <2>4
  <2>6. R!ShortAt(f, at) = R!Wrapped(i)
    BY <1>8, <2>5, ReadShort
  <2>7. R!ShortAt(f, p) = R!Wrapped(j)
    BY <1>8, <2>5, ReadShort
  <2>8. R!ShortAt(f, q) = R!Wrapped(k)
    BY <1>8, <2>5, ReadShort
  <2> QED
    BY <2>3, <2>6, <2>7, <2>8
<1> QED
  BY <1>1, <1>6, <1>7, <1>8

\* The header of a file.
LEMMA HeaderIs ==
  ASSUME NEW m, Len(m.cells) \in Nat, Len(m.cells) < R!Half
  PROVE  /\ R!Header(m) \in Seq(Nat) /\ Len(R!Header(m)) = 6
         /\ \A f : Len(f) \in Nat /\ Holds(f, 1, R!Header(m)) =>
              R!AfterHeader(f) = 7 /\ R!WidthOf(f) = Len(m.cells)
<1>1. PICK w \in Nat : w = Len(m.cells) /\ w < R!Half /\ w < 2 * R!Half
  BY HalfFacts
<1>2. PICK a \in Seq(Nat) : a = <<1, 1>> /\ Len(a) = 2 /\ a[1] = 1
  <2>1. <<1, 1>> \in Seq(Nat) /\ Len(<<1, 1>>) = 2 /\ <<1, 1>>[1] = 1
    OBVIOUS
  <2> QED
    BY Zenon, <2>1
<1>3. PICK b \in Seq(Nat) : b = R!IntOf(w) /\ Len(b) = 4
  BY IntIs
<1>4. R!Header(m) = a \o b
  BY <1>1, <1>2, <1>3 DEF R!Header
<1>5. a \o b \in Seq(Nat) /\ Len(a \o b) = 6
  <2>1. a \o b \in Seq(Nat) /\ Len(a \o b) = Len(a) + Len(b)
    BY ConcatProperties
  <2>2. Len(a) = 2 /\ Len(b) = 4
    BY <1>2, <1>3
  <2> QED
    BY ONLY <2>1, <2>2
<1>6. ASSUME NEW f, Len(f) \in Nat, Holds(f, 1, a \o b)
      PROVE  R!AfterHeader(f) = 7 /\ R!WidthOf(f) = w
  <2>1. PICK p \in Nat \ {0}, q \in Nat \ {0} : p = 1 /\ q = 3
    OBVIOUS
  <2>2. Holds(f, p, a \o b)
    BY <1>6, <2>1
  <2>3. Holds(f, p, a) /\ Holds(f, p + Len(a), b)
    BY <1>6, <2>2, HoldsParts
  <2>4. p + Len(a) = q
    BY <1>2, <2>1
  <2>5. R!ByteAt(f, 1) = 1
    <3>1. PICK j \in 1..Len(a) : j = 1
      BY <1>2
    <3>2. R!ByteAt(f, p - 1 + j) = a[j]
      BY <1>6, <2>3, ReadByte
    <3> QED
      BY <1>2, <2>1, <3>1, <3>2
  <2>6. R!IntAt(f, q) = w
    <3>1. Holds(f, q, R!IntOf(w))
      BY <1>3, <2>3, <2>4
    <3> QED
      BY <1>1, <1>6, <3>1, ReadInt
  <2> QED
    BY <2>1, <2>5, <2>6 DEF R!AfterHeader, R!WidthOf
<1> QED
  BY <1>1, <1>4, <1>5, <1>6

\* The dictionary in a file, as the readers of objects have it.
LEMMA DictIs ==
  /\ R!WriteDict \in Seq(Nat) /\ Len(R!WriteDict) = 6 + 4 * Len(Editor)
  /\ \A f : Len(f) \in Nat /\ Holds(f, 7, R!WriteDict) /\ R!AfterHeader(f) = 7 =>
       R!DictOf(f) = NamesGiven /\ R!AfterDict(f) = 13 + 4 * Len(Editor)
<1>1. PICK n \in Nat : n = Len(Editor) /\ n < 7 /\ DOMAIN Editor = 1..n
  BY ZenonT(30), EditorLen
<1>2. PICK d \in Seq(Nat) : d = R!Dictionary /\ Len(d) = 4 * n
  BY <1>1, DictionaryIs
<1>3. PICK k \in Nat : k = 2 + 4 * n /\ k < 2 * R!Half
  <2>1. 2 + 4 * n \in Nat /\ 2 + 4 * n < 2 * R!Half
    BY <1>1, HalfFacts
  <2> QED
    BY <2>1
<1>4. PICK a \in Seq(Nat) : a = R!IntOf(k) /\ Len(a) = 4
  BY IntIs
<1>5. PICK b \in Seq(Nat) : b = R!Short(n) /\ Len(b) = 2
  <2>1. n \in Int
    OBVIOUS
  <2> QED
    BY Zenon, <2>1, ShortIs
<1>6. R!WriteDict = a \o b \o d
  BY <1>1, <1>2, <1>3, <1>4, <1>5 DEF R!WriteDict
<1>7. R!WriteDict \in Seq(Nat) /\ Len(R!WriteDict) = 6 + 4 * n
  <2>1. R!WriteDict \in Seq(Nat) /\ Len(R!WriteDict) = Len(a) + Len(b) + Len(d)
    BY <1>6, ThreeLong
  <2>2. Len(a) = 4 /\ Len(b) = 2 /\ Len(d) = 4 * n
    BY <1>2, <1>4, <1>5
  <2>3. n \in Nat
    OBVIOUS
  <2> QED
    BY ONLY <2>1, <2>2, <2>3
<1>8. ASSUME NEW f, Len(f) \in Nat, Holds(f, 7, R!WriteDict), R!AfterHeader(f) = 7
      PROVE  R!DictOf(f) = NamesGiven /\ R!AfterDict(f) = 13 + 4 * n
  <2>1. PICK p \in Nat \ {0}, q \in Nat \ {0}, r \in Nat \ {0} : p = 7 /\ q = 11 /\ r = 13
    OBVIOUS
  <2>2. Holds(f, p, a \o b \o d)
    BY <1>6, <1>8, <2>1
  <2>3. Holds(f, p, a) /\ Holds(f, p + Len(a), b) /\ Holds(f, p + Len(a) + Len(b), d)
    BY <1>8, <2>2, HoldsThree
  <2>4. p + Len(a) = q /\ p + Len(a) + Len(b) = r
    BY <1>4, <1>5, <2>1
  <2>5. Holds(f, p, R!IntOf(k)) /\ Holds(f, q, R!Short(n)) /\ Holds(f, r, R!Dictionary)
    BY <1>2, <1>4, <1>5, <2>3, <2>4
  <2>6. R!IntAt(f, p) = k
    BY <1>3, <1>8, <2>5, ReadInt
  <2>7. R!ShortAt(f, q) = n
    <3>1. n \in Int /\ n >= 0 /\ 2 * n < R!Half
      BY <1>1, HalfFacts
    <3> QED
      BY <1>8, <2>5, <3>1, ReadShort
  <2>8. R!AfterDict(f) = 13 + 4 * n
    BY <1>3, <1>8, <2>1, <2>6 DEF R!AfterDict
  <2>9. R!DictSize(f) = n /\ R!DictAt(f) = 13
    BY <1>8, <2>1, <2>7 DEF R!DictSize, R!DictAt
  <2>10. ASSUME NEW i \in 1..n
         PROVE  /\ R!ShortAt(f, 13 + 4 * (i - 1)) = R!NumberOf(i)
                /\ R!ByteAt(f, 13 + 4 * (i - 1) + 3) = i
    <3>1. Holds(f, r + 4 * (i - 1), R!Entry(i))
      BY Zenon, <1>1, <1>8, <2>5, DictionaryHolds
    <3>2. PICK l \in Nat \ {0} : l = 13 + 4 * (i - 1) /\ l = r + 4 * (i - 1)
      BY <2>1
    <3>3. Holds(f, l, R!Entry(i)) /\ i \in DOMAIN Editor
      BY Zenon, <1>1, <3>1, <3>2
    <3>4. R!ShortAt(f, l) = R!NumberOf(i) /\ R!ByteAt(f, l + 3) = i
      BY <1>8, <3>3, EntryRead
    <3> QED
      BY <3>2, <3>4
  <2>11. R!DictOf(f) = [i \in 1..n |-> [number |-> R!NumberOf(i), name |-> Editor[i]]]
    BY <2>9, <2>10 DEF R!DictOf
  <2> QED
    BY <1>1, <2>8, <2>11 DEF NamesGiven
<1> QED
  BY <1>1, <1>7, <1>8

-----------------------------------------------------------------------------
(***************************************************************************)
(* The readers, object after object, and then the cells.                   *)
(***************************************************************************)
\* The objects one after the other.
Records(objects) == [i \in DOMAIN objects |-> R!WriteObject(objects[i])]
\* Objects whose texts have room.
Fitting(objects) == objects \in Seq(R!Object) /\ \A i \in DOMAIN objects : Len(objects[i].text) < TextLen

\* They are written one after the other.
LEMMA RecordsAre ==
  ASSUME NEW os, Fitting(os)
  PROVE  /\ Len(os) \in Nat /\ DOMAIN os = 1..Len(os) /\ Records(os) \in [1..Len(os) -> Seq(Nat)]
         /\ \A i \in 1..Len(os) :
              os[i] \in R!Object /\ Len(os[i].text) < TextLen /\ Records(os)[i] = R!WriteObject(os[i])
<1>1. os \in Seq(R!Object)
  BY DEF Fitting
<1>2. Len(os) \in Nat /\ DOMAIN os = 1..Len(os) /\ \A i \in 1..Len(os) : os[i] \in R!Object
  BY <1>1, LenProperties, ElementOfSeq
<1>3. \A i \in 1..Len(os) : Len(os[i].text) < TextLen
  BY <1>2 DEF Fitting
<1>4. \A i \in 1..Len(os) : R!WriteObject(os[i]) \in Seq(Nat)
  BY <1>2, <1>3, ObjectRead
<1>5. Records(os) = [i \in 1..Len(os) |-> R!WriteObject(os[i])]
  BY <1>2 DEF Records
<1> QED
  BY <1>2, <1>3, <1>4, <1>5

\* One turn of the readers.
Passed(os, g, f, at, i) ==
  LET p == at + Len(g[i - 1])
      q == at + Len(g[i])
  IN /\ p + 2 + R!Taken(f, p + 2, R!ShortAt(f, p)) = q
     /\ R!SkipObject(f, p) = q
     /\ \A names : R!ReadObject(names, f, NamesGiven, p + 2, R!ShortAt(f, p)) = AsRead(names, os[i])

\* It comes past one object more.
LEMMA Turn ==
  ASSUME NEW os, Fitting(os), NEW n \in Nat, n = Len(os), NEW g, Piled(n, Records(os), g),
         NEW f, Len(f) \in Nat, NEW at \in Nat \ {0}, Holds(f, at, g[n]), NEW i \in 1..n
  PROVE  Passed(os, g, f, at, i)
<1>1. Records(os) \in [1..n -> Seq(Nat)]
  BY RecordsAre
<1>2. Holds(f, at + Len(g[i - 1]), Records(os)[i])
  BY Zenon, <1>1, PileHolds
<1>3. Len(g[i - 1]) \in Nat /\ Len(g[i]) = Len(g[i - 1]) + Len(Records(os)[i])
  <2>1. n \in Nat /\ i \in 1..n /\ Piled(n, Records(os), g)
    OBVIOUS
  <2>2. Len(g[i]) = Len(g[i - 1]) + Len(Records(os)[i])
    <3>1. PICK ss : ss = Records(os)
      OBVIOUS
    <3>2. ss \in [1..n -> Seq(Nat)] /\ Piled(n, ss, g)
      BY <1>1, <3>1
    <3>3. i - 1 \in 0..n
      OBVIOUS
    <3>4. g[i - 1] \in Seq(Nat) /\ ss[i] \in Seq(Nat) /\ g[i] = Then(g[i - 1], ss[i])
      BY Zenon, <3>2, <3>3 DEF Piled
    <3>5. Len(Then(g[i - 1], ss[i])) = Len(g[i - 1]) + Len(ss[i])
      BY Zenon, <3>4, Thens
    <3> QED
      BY <3>1, <3>4, <3>5
  <2>3. g[i - 1] \in Seq(Nat)
    <3>1. i - 1 \in 0..n
      OBVIOUS
    <3> QED
      BY <3>1 DEF Piled
  <2>4. Len(g[i - 1]) \in Nat
    BY <2>3, LenProperties
  <2> QED
    BY <2>2, <2>4
<1>4. os[i] \in R!Object /\ Len(os[i].text) < TextLen /\ Records(os)[i] = R!WriteObject(os[i])
  BY RecordsAre
<1>5. Len(R!WriteObject(os[i])) \in Nat
  BY <1>4, ObjectRead, LenProperties
<1>6. PICK p \in Nat \ {0} : p = at + Len(g[i - 1])
  BY <1>3
<1>7. at + Len(g[i]) = p + Len(R!WriteObject(os[i]))
  <2>1. PICK a \in Nat, b \in Nat : a = Len(g[i - 1]) /\ b = Len(R!WriteObject(os[i]))
    BY <1>3, <1>5
  <2>2. Len(g[i]) = a + b
    BY <1>3, <1>4, <2>1
  <2> QED
    <3>1. at + Len(g[i]) = at + (a + b)
      BY <2>2
    <3>2. p + Len(R!WriteObject(os[i])) = p + b
      BY <2>1
    <3>3. p = at + a
      BY <1>6, <2>1
    <3>4. p + b = at + (a + b)
      BY <3>3
    <3> QED
      BY <3>1, <3>2, <3>4
<1>8. Holds(f, p, R!WriteObject(os[i]))
  BY <1>2, <1>4, <1>6
<1>9. /\ p + 2 + R!Taken(f, p + 2, R!ShortAt(f, p)) = p + Len(R!WriteObject(os[i]))
      /\ R!SkipObject(f, p) = p + Len(R!WriteObject(os[i]))
      /\ \A names : R!ReadObject(names, f, NamesGiven, p + 2, R!ShortAt(f, p)) = AsRead(names, os[i])
  BY Zenon, <1>4, <1>8, ObjectRead
<1> QED
  BY Zenon, <1>6, <1>7, <1>9 DEF Passed

\* What the turns of a reader make of a place and the objects so far.
AllRead(names, f, os, n, to) ==
  R!ReadObjects(names, f) = [at |-> to, objs |-> [j \in 1..n |-> AsRead(names, os[j])]]

\* So the editor and the server come past all of them,
LEMMA ReadsObjects ==
  ASSUME NEW os, Fitting(os), NEW n \in Nat, n = Len(os), NEW g, Piled(n, Records(os), g),
         NEW f, Len(f) \in Nat, NEW at \in Nat \ {0}, Holds(f, at, g[n]),
         R!DictOf(f) = NamesGiven, R!AfterDict(f) + 4 = at, R!Count(f) = n, NEW names
  PROVE  AllRead(names, f, os, n, at + Len(g[n]))
<1> DEFINE So(i) == [at |-> at + Len(g[i]), objs |-> [j \in 1..i |-> AsRead(names, os[j])]]
           Is(h) == h = [i \in 0..n |-> IF i = 0 THEN [at |-> at, objs |-> <<>>]
                                        ELSE R!NextObject(names, f, NamesGiven, h[i - 1])]
           read == CHOOSE h : Is(h)
           h0 == [i \in 0..n |-> So(i)]
<1>1. R!ReadObjects(names, f) = read[n]
  BY Zenon DEF R!ReadObjects
<1>2. So(0) = [at |-> at, objs |-> <<>>]
  <2>1. g[0] = <<>>
    BY DEF Piled
  <2>2. Len(g[0]) = 0
    BY <2>1, EmptySeq
  <2>3. [j \in 1..0 |-> AsRead(names, os[j])] = <<>>
    OBVIOUS
  <2> QED
    BY <2>2, <2>3
<1>3. ASSUME NEW i \in 1..n PROVE So(i) = R!NextObject(names, f, NamesGiven, So(i - 1))
  <2>1. PICK p : p = at + Len(g[i - 1])
    OBVIOUS
  <2>2. PICK q : q = at + Len(g[i])
    OBVIOUS
  <2>3. /\ p + 2 + R!Taken(f, p + 2, R!ShortAt(f, p)) = q
        /\ R!ReadObject(names, f, NamesGiven, p + 2, R!ShortAt(f, p)) = AsRead(names, os[i])
    <3>1. Passed(os, g, f, at, i)
      BY Turn
    <3> QED
      BY <2>1, <2>2, <3>1 DEF Passed
  <2> DEFINE Before == [j \in 1..(i - 1) |-> AsRead(names, os[j])]
             After == [j \in 1..i |-> AsRead(names, os[j])]
  <2>4. After = Append(Before, AsRead(names, os[i]))
    <3>1. PICK k \in Nat : k = i - 1 /\ i = k + 1
      OBVIOUS
    <3>2. Before = [j \in 1..k |-> AsRead(names, os[j])] /\ Len(Before) = k
      BY <3>1
    <3>3. Append(Before, AsRead(names, os[i])) =
            [j \in 1..(k + 1) |-> IF j \in 1..k THEN Before[j] ELSE AsRead(names, os[i])]
      BY <3>2
    <3>4. ASSUME NEW j \in 1..(k + 1)
          PROVE  AsRead(names, os[j]) = IF j \in 1..k THEN Before[j] ELSE AsRead(names, os[i])
      BY <3>1, <3>2
    <3> QED
      BY <3>1, <3>3, <3>4
  <2>5. So(i - 1) = [at |-> p, objs |-> Before] /\ So(i) = [at |-> q, objs |-> After]
    BY <2>1, <2>2
  <2> HIDE DEF So, Before, After
  <2>6. So(i - 1).at = p /\ So(i - 1).objs = Before
    BY <2>5
  <2>7. R!NextObject(names, f, NamesGiven, So(i - 1)) =
          [at |-> q, objs |-> Append(Before, AsRead(names, os[i]))]
    BY Zenon, <2>3, <2>6 DEF R!NextObject
  <2> QED
    BY <2>4, <2>5, <2>7
<1> HIDE DEF So
<1>4. Is(h0)
  <2>1. ASSUME NEW i \in 0..n
        PROVE  h0[i] = IF i = 0 THEN [at |-> at, objs |-> <<>>]
                       ELSE R!NextObject(names, f, NamesGiven, h0[i - 1])
    <3>1. CASE i = 0
      BY <1>2, <3>1
    <3>2. CASE i # 0
      <4>1. i \in 1..n /\ i - 1 \in 0..n
        BY <3>2
      <4>2. h0[i] = So(i) /\ h0[i - 1] = So(i - 1)
        BY <4>1
      <4> QED
        BY <1>3, <3>2, <4>1, <4>2
    <3> QED
      BY <3>1, <3>2
  <2> QED
    BY <2>1
<1>5. Is(read)
  BY Zenon, <1>4
<1>6. read[0] = [at |-> at, objs |-> <<>>]
  <2>1. 0 \in 0..n
    OBVIOUS
  <2> HIDE DEF read
  <2> QED
    BY <1>5, <2>1
<1>7. ASSUME NEW i \in 1..n PROVE read[i] = R!NextObject(names, f, NamesGiven, read[i - 1])
  <2>1. i \in 0..n /\ i # 0
    OBVIOUS
  <2> HIDE DEF read
  <2> QED
    BY Zenon, <1>5, <2>1
<1> HIDE DEF Is, read, h0
<1> DEFINE Same == {i \in Nat : i <= n => read[i] = So(i)}
<1>8. 0 \in Same
  BY <1>2, <1>6
<1>9. ASSUME NEW i \in Nat, i \in Same PROVE i + 1 \in Same
  <2> SUFFICES ASSUME i + 1 <= n PROVE read[i + 1] = So(i + 1)
    OBVIOUS
  <2>1. PICK l \in 1..n : l = i + 1 /\ l - 1 = i
    OBVIOUS
  <2>2. read[l] = R!NextObject(names, f, NamesGiven, read[l - 1]) /\ read[i] = So(i)
    BY <1>7, <1>9
  <2>3. So(l) = R!NextObject(names, f, NamesGiven, So(l - 1))
    BY <1>3
  <2> QED
    BY <2>1, <2>2, <2>3
<1>10. \A i \in Nat : i \in Same
  <2> HIDE DEF Same
  <2> QED
    BY Zenon, <1>8, <1>9, SetInduction
<1>11. read[n] = So(n)
  BY <1>10
<1> QED
  BY <1>1, <1>11 DEF So, AllRead

\* and the client, which keeps none.
LEMMA SkipsObjects ==
  ASSUME NEW os, Fitting(os), NEW n \in Nat, n = Len(os), NEW g, Piled(n, Records(os), g),
         NEW f, Len(f) \in Nat, NEW at \in Nat \ {0}, Holds(f, at, g[n]),
         R!AfterDict(f) + 4 = at, R!Count(f) = n
  PROVE  R!ClientReads(f) = R!CellsAt(f, at + Len(g[n]))
<1> DEFINE So(i) == at + Len(g[i])
           Is(h) == h = [i \in 0..n |-> IF i = 0 THEN at ELSE R!SkipObject(f, h[i - 1])]
           skipped == CHOOSE h : Is(h)
           h0 == [i \in 0..n |-> So(i)]
<1>1. R!ClientReads(f) = R!CellsAt(f, skipped[n])
  BY Zenon DEF R!ClientReads
<1>2. So(0) = at
  <2>1. g[0] = <<>>
    BY DEF Piled
  <2>2. Len(g[0]) = 0
    BY <2>1, EmptySeq
  <2> QED
    BY <2>2
<1>3. ASSUME NEW i \in 1..n PROVE So(i) = R!SkipObject(f, So(i - 1))
  <2>1. Passed(os, g, f, at, i)
    BY Turn
  <2> QED
    BY <2>1 DEF Passed
<1> HIDE DEF So
<1>4. Is(h0)
  <2>1. ASSUME NEW i \in 0..n
        PROVE  h0[i] = IF i = 0 THEN at ELSE R!SkipObject(f, h0[i - 1])
    <3>1. CASE i = 0
      BY <1>2, <3>1
    <3>2. CASE i # 0
      <4>1. i \in 1..n /\ i - 1 \in 0..n
        BY <3>2
      <4>2. h0[i] = So(i) /\ h0[i - 1] = So(i - 1)
        BY <4>1
      <4> QED
        BY <1>3, <3>2, <4>1, <4>2
    <3> QED
      BY <3>1, <3>2
  <2> QED
    BY <2>1
<1>5. Is(skipped)
  BY Zenon, <1>4
<1>6. skipped[0] = at
  <2>1. 0 \in 0..n
    OBVIOUS
  <2> HIDE DEF skipped
  <2> QED
    BY <1>5, <2>1
<1>7. ASSUME NEW i \in 1..n PROVE skipped[i] = R!SkipObject(f, skipped[i - 1])
  <2>1. i \in 0..n /\ i # 0
    OBVIOUS
  <2> HIDE DEF skipped
  <2> QED
    BY Zenon, <1>5, <2>1
<1> HIDE DEF Is, skipped, h0
<1> DEFINE Same == {i \in Nat : i <= n => skipped[i] = So(i)}
<1>8. 0 \in Same
  BY <1>2, <1>6
<1>9. ASSUME NEW i \in Nat, i \in Same PROVE i + 1 \in Same
  <2> SUFFICES ASSUME i + 1 <= n PROVE skipped[i + 1] = So(i + 1)
    OBVIOUS
  <2>1. PICK l \in 1..n : l = i + 1 /\ l - 1 = i
    OBVIOUS
  <2>2. skipped[l] = R!SkipObject(f, skipped[l - 1]) /\ skipped[i] = So(i)
    BY <1>7, <1>9
  <2>3. So(l) = R!SkipObject(f, So(l - 1))
    BY <1>3
  <2> QED
    BY <2>1, <2>2, <2>3
<1>10. \A i \in Nat : i \in Same
  <2> HIDE DEF Same
  <2> QED
    BY Zenon, <1>8, <1>9, SetInduction
<1>11. skipped[n] = So(n)
  BY <1>10
<1> QED
  BY <1>1, <1>11 DEF So

-----------------------------------------------------------------------------
\* The cells one after the other.
LEMMA CellsIs ==
  ASSUME NEW cs \in Seq(R!Cell)
  PROVE  /\ R!WriteCells(cs) \in Seq(Nat)
         /\ \A f : \A at \in Nat \ {0} :
              Len(f) \in Nat /\ Holds(f, at, R!WriteCells(cs)) /\ R!WidthOf(f) = Len(cs) =>
                R!CellsAt(f, at) = [i \in DOMAIN cs |-> R!KeptCell(cs[i])]
<1>1. PICK n \in Nat : n = Len(cs) /\ DOMAIN cs = 1..n /\ \A i \in 1..n : cs[i] \in R!Cell
  BY LenProperties, ElementOfSeq
<1> DEFINE Cs == [i \in DOMAIN cs |-> R!WriteCell(cs[i])]
<1>2. Cs \in [1..n -> Seq(Nat)] /\ \A i \in 1..n : Cs[i] = R!WriteCell(cs[i])
  BY <1>1, CellIs
<1>3. R!WriteCells(cs) = R!Bytes(Cs)
  BY DEF R!WriteCells
<1>4. PICK k \in Nat : k = 6
  OBVIOUS
<1>5. Sized(n, Cs, k)
  BY <1>1, <1>2, <1>4, CellIs DEF Sized
<1> HIDE DEF Cs
<1>6. PICK g : Piled(n, Cs, g) /\ R!Bytes(Cs) = g[n]
  BY <1>2, BytesPiled
<1>7. g[n] \in Seq(Nat)
  BY <1>6 DEF Piled
<1>8. \A i \in 0..n : Len(g[i]) = k * i
  <2>1. Steady(n, g, k)
    BY <1>2, <1>5, <1>6, PileEqual
  <2> QED
    BY <2>1 DEF Steady
<1>9. ASSUME NEW f, NEW at \in Nat \ {0}, Len(f) \in Nat, Holds(f, at, g[n]), R!WidthOf(f) = n
      PROVE  R!CellsAt(f, at) = [i \in DOMAIN cs |-> R!KeptCell(cs[i])]
  <2>1. \A i \in 1..n : Holds(f, at + Len(g[i - 1]), Cs[i])
    BY Zenon, <1>2, <1>6, <1>9, PileHolds
  <2>2. ASSUME NEW i \in 1..n
        PROVE  LET p == at + 6 * (i - 1)
               IN [back |-> R!ShortAt(f, p), fore |-> R!ShortAt(f, p + 2), block |-> R!ShortAt(f, p + 4)]
                  = R!KeptCell(cs[i])
    <3>1. PICK l \in Nat : l = i - 1 /\ l \in 0..n
      OBVIOUS
    <3>2. PICK p \in Nat \ {0} : p = at + 6 * (i - 1) /\ p = at + 6 * l
      BY <3>1
    <3>3. Len(g[i - 1]) = 6 * l
      BY <1>4, <1>8, <3>1
    <3>4. Holds(f, p, R!WriteCell(cs[i])) /\ cs[i] \in R!Cell
      BY Zenon, <1>1, <1>2, <2>1, <3>2, <3>3
    <3>5. /\ R!ShortAt(f, p) = R!Wrapped(cs[i].back) /\ R!ShortAt(f, p + 2) = R!Wrapped(cs[i].fore)
          /\ R!ShortAt(f, p + 4) = R!Wrapped(cs[i].block)
      BY <1>9, <3>4, CellIs
    <3> QED
      BY <3>2, <3>5 DEF R!KeptCell
  <2>3. R!CellsAt(f, at) = [i \in 1..n |-> R!KeptCell(cs[i])]
    BY <1>9, <2>2 DEF R!CellsAt
  <2> QED
    BY <1>1, <2>3
<1> QED
  BY <1>1, <1>3, <1>6, <1>7, <1>9

\* What every reader finds in the file of a map.
KeptCells(m) == [i \in DOMAIN m.cells |-> R!KeptCell(m.cells[i])]
ReadBack(m, f) ==
  /\ \A names : LET r == R!ReadObjects(names, f)
                IN /\ r.objs = [j \in 1..Len(m.objs) |-> AsRead(names, m.objs[j])]
                   /\ R!CellsAt(f, r.at) = KeptCells(m)
  /\ R!ClientReads(f) = KeptCells(m)
  /\ R!WidthOf(f) = Len(m.cells)

\* The parts of a map that can be written.
LEMMA FitsParts ==
  ASSUME NEW m, R!Fits(m)
  PROVE  /\ m \in [cells : Seq(R!Cell), objs : Seq(R!Object)]
         /\ m.cells \in Seq(R!Cell) /\ Len(m.cells) \in Nat /\ Len(m.cells) < R!Half
         /\ Fitting(m.objs) /\ Len(m.objs) \in Nat /\ Len(m.objs) < R!Half
<1>1. /\ m \in [cells : Seq(R!Cell), objs : Seq(R!Object)]
      /\ Len(m.cells) < R!Half /\ Len(m.objs) < R!Half
      /\ \A i \in DOMAIN m.objs : Len(m.objs[i].text) < TextLen
  BY DEF R!Fits
<1>2. m.cells \in Seq(R!Cell) /\ m.objs \in Seq(R!Object)
  BY <1>1
<1>3. Len(m.cells) \in Nat /\ Len(m.objs) \in Nat
  BY <1>2, LenProperties
<1>4. Fitting(m.objs)
  BY <1>1, <1>2 DEF Fitting
<1> QED
  BY <1>1, <1>2, <1>3, <1>4

\* Every reader finds in the file what Kept says.
LEMMA SavedReadBack ==
  ASSUME NEW m, R!Fits(m)
  PROVE  ReadBack(m, R!WriteMap(m))
<1>1. PICK cs \in Seq(R!Cell), w \in Nat : cs = m.cells /\ w = Len(cs) /\ w < R!Half
  BY FitsParts
<1>0. PICK os : os = m.objs
  OBVIOUS
<1>2. PICK n \in Nat : os = m.objs /\ Fitting(os) /\ n = Len(os) /\ n < R!Half
  <2>1. Fitting(m.objs) /\ Len(m.objs) \in Nat /\ Len(m.objs) < R!Half
    BY FitsParts
  <2> QED
    BY <1>0, <2>1
<1>3. PICK e \in Nat : e = Len(Editor)
  BY ZenonT(30), EditorLen
<1>4. PICK h \in Seq(Nat) : h = R!Header(m) /\ Len(h) = 6
  BY <1>1, HeaderIs
<1>5. PICK d \in Seq(Nat) : d = R!WriteDict /\ Len(d) = 6 + 4 * e
  BY <1>3, DictIs
<1>6. PICK g : Piled(n, Records(os), g) /\ R!Bytes(Records(os)) = g[n] /\ g[n] \in Seq(Nat)
  <2>1. Records(os) \in [1..n -> Seq(Nat)]
    BY <1>2, RecordsAre
  <2>2. PICK g : Piled(n, Records(os), g) /\ R!Bytes(Records(os)) = g[n]
    BY Zenon, <2>1, BytesPiled
  <2>3. g[n] \in Seq(Nat)
    BY <2>2 DEF Piled
  <2> QED
    BY <2>2, <2>3
<1>7. PICK b \in Seq(Nat), z \in Nat : b = g[n] /\ z = Len(b)
  BY <1>6, LenProperties
<1>8. PICK a \in Seq(Nat) : a = R!IntOf(n) /\ Len(a) = 4
  BY IntIs
<1>9. PICK o \in Seq(Nat) : o = a \o b /\ Len(o) = 4 + z
  <2>1. a \o b \in Seq(Nat) /\ Len(a \o b) = Len(a) + Len(b)
    BY ConcatProperties
  <2> QED
    BY Zenon, <1>7, <1>8, <2>1
<1>10. R!WriteObjects(m.objs) = o
  <2>1. R!WriteObjects(os) = R!IntOf(Len(os)) \o R!Bytes(Records(os))
    BY DEF R!WriteObjects, Records
  <2> QED
    BY <1>2, <1>6, <1>7, <1>8, <1>9, <2>1
<1>11. PICK c \in Seq(Nat) : c = R!WriteCells(m.cells)
  BY <1>1, CellsIs
<1>12. PICK u : u = h \o d \o o
  BY Zenon
<1>13. u \in Seq(Nat) /\ Len(u) = 16 + 4 * e + z
  <2>1. u \in Seq(Nat) /\ Len(u) = Len(h) + Len(d) + Len(o)
    BY <1>12, ThreeLong
  <2>2. Len(h) = 6 /\ Len(d) = 6 + 4 * e /\ Len(o) = 4 + z
    BY <1>4, <1>5, <1>9
  <2>3. e \in Nat /\ z \in Nat
    OBVIOUS
  <2> QED
    BY ONLY <2>1, <2>2, <2>3
<1>14. PICK f \in Seq(Nat) : f = R!WriteMap(m) /\ f = u \o c /\ Len(f) \in Nat
  <2>1. u \o c \in Seq(Nat)
    BY <1>13, ConcatProperties
  <2>2. R!WriteMap(m) = u \o c
    BY <1>4, <1>5, <1>10, <1>11, <1>12 DEF R!WriteMap
  <2> QED
    BY Zenon, <2>1, <2>2, LenProperties
<1>15. PICK one \in Nat \ {0}, seven \in Nat \ {0}, p \in Nat \ {0}, at \in Nat \ {0}, q \in Nat \ {0} :
         one = 1 /\ seven = 7 /\ p = 13 + 4 * e /\ at = p + 4 /\ q = at + z
  <2>1. 13 + 4 * e \in Nat \ {0} /\ 13 + 4 * e + 4 \in Nat \ {0} /\ 13 + 4 * e + 4 + z \in Nat \ {0}
    OBVIOUS
  <2> QED
    BY <2>1
<1>16. /\ Holds(f, one, h) /\ Holds(f, seven, d) /\ Holds(f, p, a) /\ Holds(f, at, b)
       /\ Holds(f, q, c)
  <2>1. Holds(f, one, u \o c)
    <3>1. one - 1 + Len(f) = Len(f)
      BY <1>14, <1>15
    <3>2. \A j \in 1..Len(f) : f[one - 1 + j] = f[j]
      <4>1. \A j \in 1..Len(f) : one - 1 + j = j
        BY <1>14, <1>15
      <4> QED
        BY Zenon, <4>1
    <3>3. Holds(f, one, f)
      <4>1. Len(f) \in Nat
        BY <1>14
      <4>2. one - 1 + Len(f) <= Len(f)
        BY ONLY <3>1, <4>1
      <4> QED
        BY ONLY <3>2, <4>2 DEF Holds
    <3> QED
      BY <1>14, <3>3
  <2>2. Holds(f, one, u) /\ Holds(f, one + Len(u), c)
    BY Zenon, <1>13, <1>14, <2>1, HoldsParts
  <2>3. Holds(f, one, h \o d \o o)
    BY <1>12, <2>2
  <2>4. Holds(f, one, h) /\ Holds(f, one + Len(h), d) /\ Holds(f, one + Len(h) + Len(d), o)
    BY Zenon, <1>14, <2>3, HoldsThree
  <2>5. one + Len(h) = seven /\ one + Len(h) + Len(d) = p /\ one + Len(u) = q
    <3>1. Len(h) = 6 /\ Len(d) = 6 + 4 * e /\ Len(u) = 16 + 4 * e + z
      BY <1>4, <1>5, <1>13
    <3>2. e \in Nat /\ z \in Nat
      OBVIOUS
    <3> QED
      BY ONLY <1>15, <3>1, <3>2
  <2>6. Holds(f, p, a \o b)
    BY <1>9, <2>4, <2>5
  <2>7. Holds(f, p, a) /\ Holds(f, p + Len(a), b)
    BY Zenon, <1>14, <2>6, HoldsParts
  <2>8. p + Len(a) = at
    BY <1>8, <1>15
  <2> QED
    BY <2>2, <2>4, <2>5, <2>7, <2>8
<1>17. R!AfterHeader(f) = 7 /\ R!WidthOf(f) = w
  <2>1. Holds(f, 1, R!Header(m)) /\ Len(m.cells) \in Nat /\ Len(m.cells) < R!Half
    BY <1>1, <1>4, <1>15, <1>16
  <2> QED
    BY <1>1, <1>14, <2>1, HeaderIs
<1>18. R!DictOf(f) = NamesGiven /\ R!AfterDict(f) = p
  <2>1. Holds(f, 7, R!WriteDict)
    BY <1>5, <1>15, <1>16
  <2> QED
    BY Zenon, <1>3, <1>14, <1>15, <1>17, <2>1, DictIs
<1>19. R!Count(f) = n
  <2>1. Holds(f, p, R!IntOf(n)) /\ n < 2 * R!Half
    <3>1. Holds(f, p, R!IntOf(n))
      BY <1>8, <1>16
    <3>2. PICK half \in Nat : half = R!Half
      BY HalfFacts
    <3>3. n < 2 * half
      BY SMTT(30), <1>2, <3>2
    <3> QED
      BY <3>1, <3>2, <3>3
  <2>2. R!IntAt(f, p) = n
    BY Zenon, <1>14, <2>1, ReadInt
  <2> QED
    BY <1>18, <2>2 DEF R!Count
<1>20. R!CellsAt(f, q) = KeptCells(m)
  <2>1. Holds(f, q, R!WriteCells(cs)) /\ R!WidthOf(f) = Len(cs)
    BY <1>1, <1>11, <1>16, <1>17
  <2>2. R!CellsAt(f, q) = [i \in DOMAIN cs |-> R!KeptCell(cs[i])]
    BY Zenon, <1>14, <2>1, CellsIs
  <2> QED
    BY <1>1, <2>2 DEF KeptCells
<1>21. at + Len(g[n]) = q /\ Holds(f, at, g[n]) /\ R!AfterDict(f) + 4 = at
  BY <1>7, <1>15, <1>16, <1>18
<1>22. ASSUME NEW names
       PROVE  R!ReadObjects(names, f) = [at |-> q, objs |-> [j \in 1..n |-> AsRead(names, os[j])]]
  <2>1. AllRead(names, f, os, n, at + Len(g[n]))
    BY Zenon, <1>2, <1>6, <1>14, <1>18, <1>19, <1>21, ReadsObjects
  <2> QED
    BY <1>21, <2>1 DEF AllRead
<1>23. R!ClientReads(f) = KeptCells(m)
  <2>1. R!ClientReads(f) = R!CellsAt(f, at + Len(g[n]))
    BY Zenon, <1>2, <1>6, <1>14, <1>19, <1>21, SkipsObjects
  <2> QED
    BY <1>20, <1>21, <2>1
<1>24. ASSUME NEW names
       PROVE  /\ R!ReadObjects(names, f).objs = [j \in 1..Len(m.objs) |-> AsRead(names, m.objs[j])]
              /\ R!CellsAt(f, R!ReadObjects(names, f).at) = KeptCells(m)
  <2>1. R!ReadObjects(names, f) = [at |-> q, objs |-> [j \in 1..n |-> AsRead(names, os[j])]]
    BY <1>22
  <2>2. R!ReadObjects(names, f).objs = [j \in 1..n |-> AsRead(names, os[j])]
    BY <2>1
  <2>3. R!ReadObjects(names, f).at = q
    BY <2>1
  <2> QED
    BY <1>2, <1>20, <2>2, <2>3
<1> QED
  BY Zenon, <1>1, <1>14, <1>17, <1>23, <1>24 DEF ReadBack

-----------------------------------------------------------------------------
(***************************************************************************)
(* What is kept of a map, and the invariant of its file.                   *)
(***************************************************************************)
\* The editor has every object under its own number again, the server under its.
LEMMA OwnNumber ==
  ASSUME NEW k \in DOMAIN Editor
  PROVE  R!Known(R!ByName(Editor, Editor[k])) = k
<1>1. k \in Nat /\ k >= 1
  BY EntryIs
<1> DEFINE At == {i \in DOMAIN Editor : Editor[i] = Editor[k]}
<1>2. At = {k}
  BY MapFacts
<1>3. R!ByName(Editor, Editor[k]) = IF At = {} THEN -1 ELSE R!FirstOf(At)
  BY DEF R!ByName
<1> HIDE DEF At
<1>4. R!FirstOf(At) = k /\ At # {}
  BY <1>1, <1>2, FirstOfOne
<1> QED
  BY <1>1, <1>3, <1>4 DEF R!Known

\* What is kept of an object, in the names of the editor and in those of the server,
\* is what each reads; keeping it again changes nothing but a text that is given up.
LEMMA KeptObjectIs ==
  ASSUME NEW o \in R!Object
  PROVE  /\ R!KeptObject(o) = AsRead(Editor, o)
         /\ R!Renamed(R!KeptObject(o)) = AsRead(Server, o)
         /\ R!KeptObject(o) \in R!Object
         /\ R!KeptObject(o).text \in {o.text, <<>>}
<1>1. o \in [npc : DOMAIN Editor, x : Int, target : Int, text : R!Text]
  BY DEF R!Object
<1>2. o.npc \in DOMAIN Editor /\ o.x \in Int /\ o.target \in Int /\ o.text \in R!Text
  BY ObjectIs
<1>3. R!Known(R!ByName(Editor, Editor[o.npc])) = o.npc
  BY <1>2, OwnNumber
<1>4. R!Wrapped(o.x) \in Int /\ R!Wrapped(o.target) \in Int /\ R!NoTarget \in Int
  BY <1>2, WrappedIs DEF R!NoTarget
<1>5. <<>> \in R!Text
  BY EmptySeq DEF R!Text
<1>6. R!KeptObject(o) =
        [npc |-> o.npc,
         x |-> IF Editor[o.npc] = "text" THEN 0 ELSE R!Wrapped(o.x),
         target |-> IF Editor[o.npc] = "text" THEN R!NoTarget ELSE R!Wrapped(o.target),
         text |-> IF Editor[o.npc] = "text" THEN o.text ELSE <<>>]
  <2>1. CASE Editor[o.npc] = "text"
    <3>1. R!KeptObject(o) = [o EXCEPT !.x = 0, !.target = R!NoTarget]
      BY <2>1 DEF R!KeptObject
    <3> QED
      BY Zenon, <1>1, <2>1, <3>1
  <2>2. CASE Editor[o.npc] # "text"
    <3>1. R!KeptObject(o) = [o EXCEPT !.x = R!Wrapped(o.x), !.target = R!Wrapped(o.target), !.text = <<>>]
      BY <2>2 DEF R!KeptObject
    <3> QED
      BY Zenon, <1>1, <2>2, <3>1
  <2> QED
    BY <2>1, <2>2
<1>7. R!KeptObject(o) = AsRead(Editor, o)
  BY <1>3, <1>6 DEF AsRead
<1>8. R!Renamed(R!KeptObject(o)) = AsRead(Server, o)
  <2>1. PICK k : k = R!KeptObject(o)
    OBVIOUS
  <2>2. R!Renamed(k) = [k EXCEPT !.npc = R!Known(R!ByName(Server, Editor[k.npc]))]
    BY DEF R!Renamed
  <2>3. k.npc = o.npc
    BY <1>6, <2>1
  <2>4. R!Renamed(k) = [k EXCEPT !.npc = R!Known(R!ByName(Server, Editor[o.npc]))]
    BY <2>2, <2>3
  <2>5. AsRead(Server, o) = [k EXCEPT !.npc = R!Known(R!ByName(Server, Editor[o.npc]))]
    BY <1>6, <2>1 DEF AsRead
  <2> QED
    BY <2>1, <2>4, <2>5
<1>9. R!KeptObject(o) \in R!Object
  BY <1>2, <1>4, <1>5, <1>6 DEF R!Object
<1>10. R!KeptObject(o).text \in {o.text, <<>>}
  BY <1>6
<1> QED
  BY <1>7, <1>8, <1>9, <1>10

\* What is kept of a cell is a cell, with the same block.
LEMMA KeptCellIs ==
  ASSUME NEW c \in R!Cell
  PROVE  R!KeptCell(c) \in R!Cell /\ R!CharOf(R!KeptCell(c).block) = R!CharOf(c.block)
<1>1. c.back \in Int /\ c.fore \in Int /\ c.block \in Int
  BY DEF R!Cell
<1>2. /\ R!Wrapped(c.back) \in Int /\ R!Wrapped(c.fore) \in Int /\ R!Wrapped(c.block) \in Int
      /\ R!Wrapped(c.block) % Base = c.block % Base
  BY <1>1, WrappedIs
<1>3. R!KeptCell(c) \in R!Cell
  BY <1>2 DEF R!KeptCell, R!Cell
<1>4. R!KeptCell(c).block = R!Wrapped(c.block)
  BY DEF R!KeptCell
<1>5. R!CharOf(R!Wrapped(c.block)) = R!CharOf(c.block)
  BY <1>2 DEF R!CharOf
<1> QED
  BY <1>3, <1>4, <1>5

\* What is kept of a map is a map that can be written.
LEMMA KeptIs ==
  ASSUME NEW m, R!Fits(m)
  PROVE  /\ R!Kept(m).cells = KeptCells(m)
         /\ R!Kept(m).objs = [j \in 1..Len(m.objs) |-> AsRead(Editor, m.objs[j])]
         /\ R!Fits(R!Kept(m))
<1>1. PICK n \in Nat : n = Len(m.objs) /\ n < R!Half /\ DOMAIN m.objs = 1..n
  BY FitsParts, RecordsAre
<1>2. \A i \in 1..n : m.objs[i] \in R!Object /\ Len(m.objs[i].text) < TextLen
  BY <1>1, FitsParts, RecordsAre
<1>3. PICK w \in Nat : w = Len(m.cells) /\ w < R!Half /\ DOMAIN m.cells = 1..w /\ \A i \in 1..w : m.cells[i] \in R!Cell
  BY FitsParts, LenProperties, ElementOfSeq
<1>4. R!Kept(m).cells = KeptCells(m)
  BY DEF R!Kept, KeptCells
<1>5. R!Kept(m).objs = [j \in 1..n |-> R!KeptObject(m.objs[j])]
  BY <1>1 DEF R!Kept
<1>6. PICK cs : cs = R!Kept(m).cells
  OBVIOUS
<1>7. PICK os : os = R!Kept(m).objs
  OBVIOUS
<1>8. cs \in Seq(R!Cell) /\ Len(cs) = w
  <2>1. cs = [i \in 1..w |-> R!KeptCell(m.cells[i])]
    BY <1>3, <1>4, <1>6 DEF KeptCells
  <2>2. cs \in [1..w -> R!Cell]
    BY <1>3, <2>1, KeptCellIs
  <2>3. cs \in Seq(R!Cell)
    BY <2>2, SeqDef
  <2>4. DOMAIN cs = 1..w /\ DOMAIN cs = 1..Len(cs) /\ Len(cs) \in Nat
    BY <2>2, <2>3, LenProperties
  <2> QED
    BY <2>3, <2>4
<1>9. os \in Seq(R!Object) /\ Len(os) = n /\ DOMAIN os = 1..n
  <2>1. os = [i \in 1..n |-> R!KeptObject(m.objs[i])]
    BY <1>5, <1>7
  <2>2. os \in [1..n -> R!Object]
    BY <1>2, <2>1, KeptObjectIs
  <2>3. os \in Seq(R!Object)
    BY <2>2, SeqDef
  <2>4. DOMAIN os = 1..n /\ DOMAIN os = 1..Len(os) /\ Len(os) \in Nat
    BY <2>2, <2>3, LenProperties
  <2> QED
    BY <2>3, <2>4
<1>10. ASSUME NEW i \in 1..n PROVE Len(os[i].text) < TextLen
  <2>1. os[i].text \in {m.objs[i].text, <<>>}
    BY <1>2, <1>5, <1>7, KeptObjectIs
  <2>2. Len(m.objs[i].text) < TextLen
    BY <1>2
  <2>3. Len(m.objs[i].text) \in Nat
    BY <1>2, ObjectIs
  <2>4. PICK none : none = <<>> /\ Len(none) = 0
    OBVIOUS
  <2>5. TextLen \in Nat /\ 0 < TextLen
    <3>1. PICK l \in Nat : l = Len(m.objs[i].text) /\ l < TextLen
      BY <2>2, <2>3
    <3> QED
      BY <3>1, MapFacts
  <2>6. CASE os[i].text = m.objs[i].text
    BY <2>2, <2>6
  <2>7. CASE os[i].text = none
    BY <2>4, <2>5, <2>7
  <2> QED
    BY <2>1, <2>4, <2>6, <2>7
<1>11. R!Kept(m) = [cells |-> cs, objs |-> os]
  BY <1>6, <1>7 DEF R!Kept
<1>12. R!Fits([cells |-> cs, objs |-> os])
  BY <1>1, <1>3, <1>8, <1>9, <1>10 DEF R!Fits
<1>13. \A i \in 1..n : R!KeptObject(m.objs[i]) = AsRead(Editor, m.objs[i])
  BY <1>2, KeptObjectIs
<1>14. R!Kept(m).objs = [j \in 1..n |-> AsRead(Editor, m.objs[j])]
  BY <1>5, <1>13
<1> QED
  BY <1>1, <1>4, <1>11, <1>12, <1>14

\* Reading a file gives what it keeps of the map, to all.
LEMMA EditorReadsKept ==
  ASSUME NEW m, R!Fits(m)
  PROVE  R!EditorReads(R!WriteMap(m)) = R!Kept(m)
<1>1. PICK f : f = R!WriteMap(m)
  OBVIOUS
<1>2. ReadBack(m, f)
  BY <1>1, SavedReadBack
<1>3. PICK r : r = R!ReadObjects(Editor, f)
  OBVIOUS
<1>4. r.objs = [j \in 1..Len(m.objs) |-> AsRead(Editor, m.objs[j])] /\ R!CellsAt(f, r.at) = KeptCells(m)
  BY <1>2, <1>3 DEF ReadBack
<1>5. r.objs = R!Kept(m).objs /\ R!CellsAt(f, r.at) = R!Kept(m).cells
  BY <1>4, KeptIs
<1>6. R!EditorReads(f) = [cells |-> R!Kept(m).cells, objs |-> R!Kept(m).objs]
  BY <1>3, <1>5 DEF R!EditorReads
<1>7. R!Kept(m) = [cells |-> R!Kept(m).cells, objs |-> R!Kept(m).objs]
  BY DEF R!Kept
<1> QED
  BY <1>1, <1>6, <1>7

\* The invariant of MapFile: the file holds the map that was written last.
SavedInv == R!Fits(saved) /\ (file = R!NoFile \/ file = R!WriteMap(saved))

\* No file is there at first.
LEMMA SavedInvInit == R!Init => SavedInv
BY MapFacts DEF R!Init, SavedInv

\* Maps are written, opened and written again.
LEMMA SavedInvNext == SavedInv /\ [R!Next]_<<saved, file>> => SavedInv'
<1> SUFFICES ASSUME SavedInv, [R!Next]_<<saved, file>> PROVE SavedInv'
  OBVIOUS
<1>1. R!Fits(saved') /\ (file' = R!NoFile \/ file' = R!WriteMap(saved')) => SavedInv'
  BY DEF SavedInv
<1>2. CASE R!Save
  <2>1. PICK m \in Maps : saved' = m /\ file' = R!WriteMap(m)
    BY <1>2 DEF R!Save
  <2> QED
    BY <1>1, <2>1, MapFacts
<1>3. CASE R!SaveAgain
  <2>1. file # R!NoFile /\ saved' = R!EditorReads(file) /\ file' = R!WriteMap(saved')
    BY <1>3 DEF R!SaveAgain
  <2>2. R!Fits(saved) /\ file = R!WriteMap(saved)
    BY <2>1 DEF SavedInv
  <2>3. saved' = R!Kept(saved)
    BY <2>1, <2>2, EditorReadsKept
  <2> QED
    BY Zenon, <1>1, <2>1, <2>2, <2>3, KeptIs
<1>4. CASE UNCHANGED <<saved, file>>
  BY <1>1, <1>4 DEF SavedInv
<1> QED
  BY <1>2, <1>3, <1>4 DEF R!Next

\* Readers of the file agree on what it keeps of the map that was written last.
LEMMA SavedInvImplies == SavedInv => R!ReadersAgree
<1> SUFFICES ASSUME SavedInv, file # R!NoFile
             PROVE  /\ R!EditorReads(file) = R!Kept(saved)
                    /\ R!ServerReads(file).objs =
                         [i \in DOMAIN saved.objs |-> R!Renamed(R!Kept(saved).objs[i])]
                    /\ R!ServerReads(file).blocks =
                         [i \in DOMAIN saved.cells |-> R!CharOf(saved.cells[i].block)]
                    /\ R!ClientReads(file) = R!Kept(saved).cells
  BY DEF R!ReadersAgree
<1>1. R!Fits(saved) /\ file = R!WriteMap(saved)
  BY DEF SavedInv
<1>2. PICK m, f : m = saved /\ f = file /\ R!Fits(m) /\ f = R!WriteMap(m)
  BY <1>1
<1>3. ReadBack(m, f)
  BY <1>2, SavedReadBack
<1>4. R!EditorReads(f) = R!Kept(m)
  BY <1>2, EditorReadsKept
<1>5. R!ClientReads(f) = R!Kept(m).cells
  BY Zenon, <1>2, <1>3, KeptIs DEF ReadBack
<1>6. PICK r : r = R!ReadObjects(Server, f)
  OBVIOUS
<1>7. r.objs = [j \in 1..Len(m.objs) |-> AsRead(Server, m.objs[j])] /\ R!CellsAt(f, r.at) = KeptCells(m)
  BY <1>3, <1>6 DEF ReadBack
<1>8. PICK n \in Nat : n = Len(m.objs) /\ DOMAIN m.objs = 1..n /\ \A i \in 1..n : m.objs[i] \in R!Object
  BY <1>2, FitsParts, RecordsAre
<1>9. PICK w \in Nat : w = Len(m.cells) /\ DOMAIN m.cells = 1..w /\ \A i \in 1..w : m.cells[i] \in R!Cell
  BY <1>2, FitsParts, LenProperties, ElementOfSeq
<1>10. R!ServerReads(f).objs = [i \in DOMAIN m.objs |-> R!Renamed(R!Kept(m).objs[i])]
  <2>1. R!ServerReads(f).objs = r.objs
    BY <1>6 DEF R!ServerReads
  <2>2. ASSUME NEW i \in 1..n PROVE AsRead(Server, m.objs[i]) = R!Renamed(R!Kept(m).objs[i])
    <3>1. R!Kept(m).objs[i] = R!KeptObject(m.objs[i])
      BY <1>8 DEF R!Kept
    <3> QED
      BY <1>8, <3>1, KeptObjectIs
  <2> QED
    BY <1>7, <1>8, <2>1, <2>2
<1>11. R!ServerReads(f).blocks = [i \in DOMAIN m.cells |-> R!CharOf(m.cells[i].block)]
  <2>1. R!WidthOf(f) = w
    BY <1>3, <1>9 DEF ReadBack
  <2>2. R!ServerReads(f).blocks = [i \in 1..w |-> R!CharOf(R!CellsAt(f, r.at)[i].block)]
    BY <1>6, <2>1 DEF R!ServerReads
  <2>3. ASSUME NEW i \in 1..w PROVE R!CharOf(R!CellsAt(f, r.at)[i].block) = R!CharOf(m.cells[i].block)
    <3>1. R!CellsAt(f, r.at)[i] = R!KeptCell(m.cells[i])
      BY <1>7, <1>9 DEF KeptCells
    <3> QED
      BY <1>9, <3>1, KeptCellIs
  <2> QED
    BY <1>9, <2>2, <2>3
<1> QED
  BY <1>2, <1>4, <1>5, <1>10, <1>11

-----------------------------------------------------------------------------
(***************************************************************************)
(* Both parts in the run of the editor.                                    *)
(***************************************************************************)
\* The two parts of the editor's run that work on files.
FilePartsInv == (part = "file" => FileInv) /\ (part = "saved" => SavedInv)

\* Both parts start right.
LEMMA FilePartsInit == EditorInit => FilePartsInv
<1>1. EditorInit => (part = "file" => F!Init) /\ (part = "saved" => R!Init)
  BY DEF EditorInit, Start
<1> QED
  BY <1>1, FileInvInit, SavedInvInit DEF FilePartsInv

\* A step of the run is a step of one part and leaves the other alone.
LEMMA FilePartStep ==
  [EditorNext]_vars =>
    /\ part' = part
    /\ part = "file" => [F!Next]_fileVars
    /\ part = "saved" => [R!Next]_<<saved, file>>
<1> SUFFICES ASSUME [EditorNext]_vars
             PROVE  /\ part' = part
                    /\ part = "file" => [F!Next]_fileVars
                    /\ part = "saved" => [R!Next]_<<saved, file>>
  OBVIOUS
<1>1. CASE Editing
  BY <1>1 DEF Editing
<1>2. CASE Clicking
  BY <1>2 DEF Clicking
<1>3. CASE Asking
  BY <1>3 DEF Asking
<1>4. CASE Choosing
  BY <1>4 DEF Choosing
<1>5. CASE Tiling
  BY <1>5 DEF Tiling
<1>6. CASE Placing
  BY <1>6 DEF Placing
<1>7. CASE Viewing
  BY <1>7 DEF Viewing
<1>8. CASE Saving
  BY <1>8 DEF Saving
<1>9. CASE UNCHANGED vars
  BY <1>9 DEF vars, savedVars
<1> QED
  BY <1>1, <1>2, <1>3, <1>4, <1>5, <1>6, <1>7, <1>8, <1>9 DEF EditorNext

\* ... and stay right.
LEMMA FilePartsNext == FilePartsInv /\ [EditorNext]_vars => FilePartsInv'
<1> SUFFICES ASSUME FilePartsInv, [EditorNext]_vars PROVE FilePartsInv'
  OBVIOUS
<1>1. (part' = "file" => FileInv') /\ (part' = "saved" => SavedInv')
  BY FilePartStep, FileInvNext, SavedInvNext DEF FilePartsInv
<1> QED
  BY <1>1 DEF FilePartsInv

\* The lists of the file selector are those of the directory it shows, whatever
\* directories there are and whatever text is typed (filesel.c); and a map that
\* is written comes back to the editor, the server and the client as what the
\* file keeps of it, whatever its cells, its objects and their texts, and
\* however often it is opened and written again (the three map.c).
THEOREM FilesStayRight == EditorSpec => []FilesAgree
<1>1. FilePartsInv => FilesAgree
  BY FileInvImplies, SavedInvImplies DEF FilePartsInv, FilesAgree
<1> QED
  BY <1>1, FilePartsInit, FilePartsNext, PTL DEF EditorSpec

\* A text that is taken over leads to the directory that it names, by whatever
\* way through "." and "..", and to no other (filesel.c).
THEOREM FilterIsFollowed == EditorSpec => FilterGoesThere
<1>1. FilePartsInv /\ [EditorNext]_vars => [part = "file" => F!GoesThereStep]_vars
  BY FilePartStep, FilterGoes DEF FilePartsInv
<1> QED
  BY <1>1, FilePartsInit, FilePartsNext, PTL DEF EditorSpec, FilterGoesThere
=============================================================================
