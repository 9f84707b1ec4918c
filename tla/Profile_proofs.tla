----------------------------- MODULE Profile_proofs -----------------------------
(***************************************************************************)
(* Proofs about the profile: a restart loads the list that is on the       *)
(* screen, what was removed stays removed, what is written whole can be    *)
(* loaded with the order that was saved, and the patches keep the order    *)
(* the user gave them.  For any mod loaders, jar mods, versions, damaged   *)
(* files and number of faults.                                             *)
(***************************************************************************)
EXTENDS Profile, FiniteSetTheorems, SequenceTheorems, NaturalsInduction,
        WellFoundedInduction, TLAPS

-----------------------------------------------------------------------------
(* The elements of a sequence at given places *)

\* Nth lists the numbers of a finite set, each once and in order.
LEMMA NthIs ==
  ASSUME NEW P \in SUBSET Nat, IsFiniteSet(P)
  PROVE  /\ Cardinality(P) \in Nat
         /\ \A h \in 1..Cardinality(P) : Nth(P, h) \in P
         /\ \A h, l \in 1..Cardinality(P) : h < l => Nth(P, h) < Nth(P, l)
         /\ \A i \in P : \E h \in 1..Cardinality(P) : Nth(P, h) = i
<1> DEFINE n == Cardinality(P)
           Upto(i) == {j \in P : j <= i}
           place == [i \in P |-> Cardinality(Upto(i))]
<1>1. n \in Nat /\ IsFiniteSet(1..n) /\ Cardinality(1..n) = n
  BY FS_CardinalityType, FS_Interval
<1>2. ASSUME NEW i \in P
      PROVE  IsFiniteSet(Upto(i)) /\ Cardinality(Upto(i)) \in 1..n
  <2>1. Upto(i) \in SUBSET P /\ i \in Upto(i)
    OBVIOUS
  <2> HIDE DEF Upto
  <2>2. IsFiniteSet(Upto(i)) /\ Cardinality(Upto(i)) <= n
    BY <2>1, FS_Subset
  <2>3. Cardinality(Upto(i)) \in Nat /\ Cardinality(Upto(i)) # 0
    BY <2>1, <2>2, FS_CardinalityType, FS_EmptySet
  <2> QED BY <1>1, <2>2, <2>3
<1>3. ASSUME NEW i \in P, NEW j \in P, i < j
      PROVE  Cardinality(Upto(i)) < Cardinality(Upto(j))
  <2>0. \A h \in P : h \in Nat
    OBVIOUS
  <2>1. Upto(i) \in SUBSET Upto(j) /\ j \in Upto(j) /\ j \notin Upto(i)
    <3>1. i \in Nat /\ j \in Nat /\ \A h \in P : h <= i => h <= j
      BY <1>3, <2>0
    <3>2. \A h \in P : h \in Upto(i) <=> h <= i
      OBVIOUS
    <3>3. \A h \in P : h \in Upto(j) <=> h <= j
      OBVIOUS
    <3>4. Upto(i) \subseteq P
      OBVIOUS
    <3>5. j <= j /\ ~(j <= i)
      BY <1>3, <3>1
    <3> HIDE DEF Upto
    <3> QED BY <3>1, <3>2, <3>3, <3>4, <3>5
  <2> HIDE DEF Upto
  <2>2. IsFiniteSet(Upto(j)) /\ Cardinality(Upto(j)) \in 1..n /\ Cardinality(Upto(i)) \in 1..n
    BY <1>2
  <2>3. Cardinality(Upto(i)) <= Cardinality(Upto(j)) /\ Cardinality(Upto(i)) # Cardinality(Upto(j))
    BY <2>1, <2>2, FS_Subset
  <2> QED BY <1>1, <2>2, <2>3
<1>4. \A h \in 1..n : Nth(P, h) = CHOOSE i \in P : Cardinality(Upto(i)) = h
  BY DEF Nth
<1> HIDE DEF Upto
<1>5. place \in [P -> 1..n] /\ \A i \in P : place[i] = Cardinality(Upto(i))
  BY <1>2
<1> HIDE DEF place
<1>6. \A i, j \in P : place[i] = place[j] => i = j
  BY <1>1, <1>3, <1>5
<1>7. place \in Surjection(P, 1..n)
  <2>1. place \in Injection(P, 1..n)
    BY <1>5, <1>6 DEF Injection, IsInjective
  <2> QED BY <1>1, <2>1, FS_Injection
<1> HIDE DEF n
<1>8. ASSUME NEW h \in 1..n
      PROVE  Nth(P, h) \in P /\ place[Nth(P, h)] = h
  <2>1. \E i \in P : Cardinality(Upto(i)) = h
    BY <1>5, <1>7 DEF Surjection
  <2>2. Nth(P, h) \in P /\ Cardinality(Upto(Nth(P, h))) = h
    BY <1>4, <2>1
  <2> QED BY <1>5, <2>2
<1>9. ASSUME NEW h \in 1..n, NEW l \in 1..n, h < l
      PROVE  Nth(P, h) < Nth(P, l)
  <2>1. Nth(P, h) \in P /\ Nth(P, l) \in P /\ place[Nth(P, h)] = h /\ place[Nth(P, l)] = l
    BY <1>8
  <2>2. Nth(P, l) < Nth(P, h) => l < h
    BY <1>3, <1>5, <2>1
  <2>3. \A i \in P : i \in Nat
    OBVIOUS
  <2>4. Nth(P, l) # Nth(P, h)
    BY <1>9, <2>1
  <2>5. Nth(P, h) \in Nat /\ Nth(P, l) \in Nat
    BY <2>1, <2>3
  <2>6. ~(l < h)
    BY <1>1, <1>9
  <2> QED BY <2>2, <2>4, <2>5, <2>6
<1>10. ASSUME NEW i \in P
       PROVE  place[i] \in 1..n /\ Nth(P, place[i]) = i
  <2>1. place[i] \in 1..n
    BY <1>5
  <2>2. Nth(P, place[i]) \in P /\ place[Nth(P, place[i])] = place[i]
    BY <1>8, <2>1
  <2> QED BY <1>6, <2>1, <2>2
<1> QED BY <1>1, <1>8, <1>9, <1>10 DEF n

\* e lists the positions of P in order, and t has the elements of s there.
Picks(e, t, s, P) ==
  /\ e \in [1..Len(t) -> P]
  /\ \A h, l \in 1..Len(t) : h < l => e[h] < e[l]
  /\ \A i \in P : \E h \in 1..Len(t) : e[h] = i
  /\ \A h \in 1..Len(t) : t[h] = s[e[h]]

\* What the selection is: a sequence of the selected elements, in their order.
LEMMA SelectedMap ==
  ASSUME NEW X, NEW s, NEW P \in SUBSET Nat, IsFiniteSet(P), \A i \in P : s[i] \in X
  PROVE  /\ Select(s, P) \in Seq(X)
         /\ \E e : Picks(e, Select(s, P), s, P)
<1> DEFINE n == Cardinality(P)
           e == [h \in 1..n |-> Nth(P, h)]
<1>2. /\ n \in Nat
      /\ \A h \in 1..n : Nth(P, h) \in P
      /\ \A h, l \in 1..n : h < l => Nth(P, h) < Nth(P, l)
      /\ \A i \in P : \E h \in 1..n : Nth(P, h) = i
  BY NthIs
<1>3. Select(s, P) = [h \in 1..n |-> s[Nth(P, h)]]
  BY DEF Select
<1> HIDE DEF n
<1>4. \A h \in 1..n : Nth(P, h) \in P /\ s[Nth(P, h)] \in X
  BY <1>2
<1>5. Select(s, P) \in Seq(X) /\ Len(Select(s, P)) = n
  BY <1>2, <1>3, <1>4
<1>6. Picks(e, Select(s, P), s, P)
  BY <1>2, <1>3, <1>4, <1>5 DEF Picks
<1> QED BY <1>5, <1>6

\* The same, of a sequence.
LEMMA Selected ==
  ASSUME NEW X, NEW s \in Seq(X), NEW P \in SUBSET (1..Len(s))
  PROVE  /\ Select(s, P) \in Seq(X)
         /\ \E e : Picks(e, Select(s, P), s, P)
<1>1. IsFiniteSet(P) /\ P \in SUBSET Nat
  <2>1. Len(s) \in Int /\ 1 \in Int
    OBVIOUS
  <2>2. IsFiniteSet(1..Len(s)) /\ P \in SUBSET Nat
    BY <2>1, FS_Interval
  <2> QED BY <2>2, FS_Subset
<1>2. \A i \in P : s[i] \in X
  OBVIOUS
<1> QED BY <1>1, <1>2, SelectedMap

\* A set of numbers has a least one: how a property of all numbers is shown
\* when the number is a length.
LEMMA HasLeast ==
  ASSUME NEW S \in SUBSET Nat, S # {}
  PROVE  \E j \in S : \A h \in S : j <= h
<1>1. IsWellFoundedOn(OpToRel(<, Nat), Nat)
  BY NatLessThanWellFounded
<1>2. PICK j \in S : \A h \in S : ~(<<h, j>> \in OpToRel(<, Nat))
  BY <1>1, WFMin
<1>3. \A h \in S : ~(h < j)
  BY <1>2 DEF OpToRel
<1> QED BY <1>3

\* A run of numbers is listed from its first.
LEMMA NthOfRun ==
  ASSUME NEW a \in Nat, NEW b \in Nat, a <= b + 1
  PROVE  /\ Cardinality(a..b) = b - a + 1
         /\ \A h \in 1..(b - a + 1) : Nth(a..b, h) = a + h - 1
<1>1. Cardinality(a..b) = b - a + 1
  BY FS_Interval
<1>2. ASSUME NEW i \in a..b
      PROVE  Cardinality({j \in a..b : j <= i}) = i - a + 1
  <2>1. {j \in a..b : j <= i} = a..i
    OBVIOUS
  <2>2. Cardinality(a..i) = i - a + 1
    BY FS_Interval
  <2> QED BY <2>1, <2>2
<1>3. ASSUME NEW h \in 1..(b - a + 1)
      PROVE  Nth(a..b, h) = a + h - 1
  <2>1. a + h - 1 \in a..b /\ (a + h - 1) - a + 1 = h
    OBVIOUS
  <2>2. Cardinality({j \in a..b : j <= a + h - 1}) = h
    BY <1>2, <2>1
  <2> DEFINE m == Nth(a..b, h)
  <2>3. m \in a..b /\ Cardinality({j \in a..b : j <= m}) = h
    BY <2>1, <2>2 DEF Nth
  <2> HIDE DEF m
  <2>4. m - a + 1 = h
    BY <1>2, <2>3
  <2> QED BY <2>1, <2>3, <2>4 DEF m
<1> QED BY <1>1, <1>3

\* What is left of a sequence from a place to its end.
LEMMA SelectedTail ==
  ASSUME NEW X, NEW s \in Seq(X), NEW a \in 1..(Len(s) + 1)
  PROVE  Select(s, a..Len(s)) = [h \in 1..(Len(s) + 1 - a) |-> s[h + a - 1]]
<1> DEFINE n == Len(s)
<1>1. n \in Nat /\ a \in Nat /\ a <= n + 1
  OBVIOUS
<1>2. Select(s, a..n) = [h \in 1..Cardinality(a..n) |-> s[Nth(a..n, h)]]
  BY DEF Select
<1> HIDE DEF n
<1>3. Cardinality(a..n) = n + 1 - a /\ \A h \in 1..(n + 1 - a) : Nth(a..n, h) = h + a - 1
  <2>1. n - a + 1 = n + 1 - a /\ \A h \in 1..(n + 1 - a) : a + h - 1 = h + a - 1
    BY <1>1
  <2> QED BY <1>1, <2>1, NthOfRun
<1> QED BY <1>2, <1>3 DEF n

-----------------------------------------------------------------------------
(* What a load reads *)

\* The ids that order.json names and that have a file; with the two builtins.
Listed(g, o) == Select(o.ids, {i \in DOMAIN o.ids : g[o.ids[i]].state # "none"})
AllOf(g, o)  == <<"minecraft", "lwjgl">> \o Listed(g, o)

\* The others, in the order of their numbers.
Numbers(g, o)  == {g[id].order : id \in RestOf(g, o)}
Numbered(g, o) ==
  Select([n \in Numbers(g, o) |-> CHOOSE id \in RestOf(g, o) : g[id].order = n], Numbers(g, o))

ReadsAll(g, o) ==
  /\ Readable(g, AllOf(g, o)) = AllOf(g, o)
  /\ \A id \in RestOf(g, o) : g[id].state = "good"
  /\ \A id, other \in RestOf(g, o) : g[id].order = g[other].order => id = other

ReadOf(g, o) ==
  IF ReadsAll(g, o) THEN AllOf(g, o) \o Numbered(g, o) ELSE Readable(g, AllOf(g, o))

\* What Load returns, in the words of these definitions.
LEMMA LoadIs ==
  ASSUME NEW g, NEW o, NEW v
  PROVE  /\ Load(g, o, v).ok = ReadsAll(g, o)
         /\ Load(g, o, v).list = [i \in DOMAIN ReadOf(g, o) |-> PatchOf(g, o, ReadOf(g, o)[i], v)]
<1> DEFINE M == [n \in {g[id].order : id \in RestOf(g, o)} |->
                   CHOOSE id \in RestOf(g, o) : g[id].order = n]
<1>1. DOMAIN M = Numbers(g, o)
  BY DEF Numbers
<1>2. Select(M, DOMAIN M) = Numbered(g, o)
  BY <1>1 DEF Numbered, Numbers
<1> QED BY <1>2 DEF Load, ReadOf, ReadsAll, AllOf, Listed

\* A load that succeeds has read every file.
LEMMA LoadReads ==
  ASSUME NEW g, NEW o, NEW v, Load(g, o, v).ok
  PROVE  ReadsAll(g, o)
BY DEF Load, ReadsAll, ReadOf, AllOf, Listed, RestOf

\* The files and the order file that a load finds.
Found(g, o) ==
  /\ g \in [Ids -> PatchFile]
  /\ o.ids \in Seq(User) /\ IsInjective(o.ids)

\* The builtin patches are not patches of the user.
LEMMA BuiltinsApart == Builtins \cap User = {} /\ Ids = Builtins \cup User
BY ProfileAssumption DEF Builtins, User, Ids

\* No id is twice in the sequence s.
OnceEach(s) == \A i, j \in DOMAIN s : s[i] = s[j] => i = j

\* The files that order.json names, each once and in its order.
LEMMA ListedIs ==
  ASSUME NEW g, NEW o, Found(g, o)
  PROVE  LET s == Listed(g, o)
         IN  /\ s \in Seq(User) /\ OnceEach(s)
             /\ \A id : (\E i \in DOMAIN s : s[i] = id)
                          <=> id \in User /\ g[id].state # "none" /\ id \in Range(o.ids)
             /\ \A i, j \in DOMAIN s : i < j =>
                  \E c, d \in DOMAIN o.ids : c < d /\ o.ids[c] = s[i] /\ o.ids[d] = s[j]
<1> DEFINE P == {i \in DOMAIN o.ids : g[o.ids[i]].state # "none"}
           s == Listed(g, o)
           q == o.ids
<1>1. q \in Seq(User) /\ DOMAIN q = 1..Len(q) /\ P \in SUBSET (1..Len(q))
  BY DEF Found
<1>2. /\ \A i \in P : i \in DOMAIN q /\ g[q[i]].state # "none"
      /\ \A i \in DOMAIN q : g[q[i]].state # "none" => i \in P
  OBVIOUS
<1>12. \A i \in P : i \in Nat
  <2>1. \A i \in 1..Len(q) : i \in Nat
    OBVIOUS
  <2> QED BY <1>1, <2>1
<1>3. s = Select(q, P)
  BY DEF Listed
<1>4. \A i, j \in DOMAIN q : q[i] = q[j] => i = j
  BY DEF Found, IsInjective
<1> HIDE DEF P, q, s
<1>5. s \in Seq(User) /\ \E e : Picks(e, s, q, P)
  BY <1>1, <1>3, Selected
<1>6. PICK e : Picks(e, s, q, P)
  BY <1>5
<1>7. DOMAIN s = 1..Len(s) /\ Len(s) \in Nat
  BY <1>5
<1>8. /\ \A i \in DOMAIN s : e[i] \in P /\ s[i] = q[e[i]]
      /\ \A i, j \in DOMAIN s : i < j => e[i] < e[j]
      /\ \A i \in P : \E h \in DOMAIN s : e[h] = i
  BY <1>6, <1>7 DEF Picks
<1>9. OnceEach(s)
  <2> SUFFICES ASSUME NEW i \in DOMAIN s, NEW j \in DOMAIN s, s[i] = s[j] PROVE i = j
    BY DEF OnceEach
  <2>0. e[i] \in P /\ e[j] \in P /\ q[e[i]] = q[e[j]]
    BY <1>8
  <2>1. e[i] = e[j]
    BY <1>2, <1>4, <2>0
  <2>2. e[i] \in Nat /\ e[j] \in Nat
    BY <1>12, <2>0
  <2> QED BY <1>7, <1>8, <2>1, <2>2
<1>10. ASSUME NEW i \in DOMAIN s
       PROVE  s[i] \in User /\ g[s[i]].state # "none" /\ s[i] \in Range(q)
  <2>1. e[i] \in DOMAIN q /\ s[i] = q[e[i]] /\ g[s[i]].state # "none"
    BY <1>2, <1>8
  <2> QED BY <1>5, <2>1 DEF Range
<1>11. ASSUME NEW id \in Range(q), g[id].state # "none"
       PROVE  \E i \in DOMAIN s : s[i] = id
  <2>1. PICK i \in DOMAIN q : q[i] = id
    BY DEF Range
  <2>2. i \in P
    BY <1>2, <1>11, <2>1
  <2> QED BY <1>8, <2>1, <2>2
<1>13. \A i, j \in DOMAIN s : i < j => \E c, d \in DOMAIN q : c < d /\ q[c] = s[i] /\ q[d] = s[j]
  BY <1>2, <1>8
<1> QED BY <1>5, <1>9, <1>10, <1>11, <1>13 DEF q, s

\* The ids of a load's first pass: the builtins, and then the files that are named.
LEMMA AllIs ==
  ASSUME NEW g, NEW o, Found(g, o)
  PROVE  LET a == AllOf(g, o)
             s == Listed(g, o)
         IN  /\ a \in Seq(Ids) /\ OnceEach(a) /\ Len(a) = Len(s) + 2
             /\ a[1] = "minecraft" /\ a[2] = "lwjgl"
             /\ \A i \in DOMAIN s : a[i + 2] = s[i]
             /\ \A i \in 3..Len(a) : i - 2 \in DOMAIN s /\ a[i] = s[i - 2]
             /\ \A i \in 3..Len(a) : a[i] \in User /\ g[a[i]].state # "none"
                                       /\ a[i] \in Range(o.ids)
             /\ \A id \in User : g[id].state # "none" /\ id \in Range(o.ids)
                                   => \E i \in 3..Len(a) : a[i] = id
<1> DEFINE s == Listed(g, o)
           a == AllOf(g, o)
<1>1. /\ s \in Seq(User) /\ OnceEach(s)
      /\ \A id : (\E i \in DOMAIN s : s[i] = id)
                   <=> id \in User /\ g[id].state # "none" /\ id \in Range(o.ids)
  BY ListedIs
<1>2. Len(s) \in Nat /\ DOMAIN s = 1..Len(s) /\ s \in Seq(Ids)
  BY <1>1 DEF Ids
<1>3. <<"minecraft", "lwjgl">> \in Seq(Ids)
  BY DEF Ids, Builtins
<1>4. a = <<"minecraft", "lwjgl">> \o s
  BY DEF AllOf
<1> HIDE DEF s, a
<1>5. /\ a \in Seq(Ids) /\ Len(a) = Len(s) + 2
      /\ a[1] = "minecraft" /\ a[2] = "lwjgl"
      /\ \A i \in 1..Len(s) : a[i + 2] = s[i]
  BY <1>2, <1>3, <1>4
<1>6. ASSUME NEW i \in 3..Len(a) PROVE i - 2 \in 1..Len(s) /\ a[i] = s[i - 2]
  <2>1. i - 2 \in 1..Len(s) /\ (i - 2) + 2 = i
    BY <1>2, <1>5
  <2> QED BY <1>5, <2>1
<1>7. ASSUME NEW i \in 3..Len(a)
      PROVE  a[i] \in User /\ g[a[i]].state # "none" /\ a[i] \in Range(o.ids)
  BY <1>1, <1>2, <1>6
<1>8. ASSUME NEW id \in User, g[id].state # "none", id \in Range(o.ids)
      PROVE  \E i \in 3..Len(a) : a[i] = id
  <2>1. PICK i \in 1..Len(s) : s[i] = id
    BY <1>1, <1>2, <1>8
  <2>2. i + 2 \in 3..Len(a) /\ a[i + 2] = id
    BY <1>2, <1>5, <2>1
  <2> QED BY <2>2
<1>9. OnceEach(a)
  <2> SUFFICES ASSUME NEW i \in 1..Len(a), NEW j \in 1..Len(a), a[i] = a[j], i < j PROVE FALSE
    BY <1>2, <1>5 DEF OnceEach
  <2>1. "minecraft" \notin User /\ "lwjgl" \notin User /\ "minecraft" # "lwjgl"
    BY BuiltinsApart DEF Builtins
  <2>2. j \in 3..Len(a) \/ (i = 1 /\ j = 2)
    BY <1>2, <1>5
  <2>3. j \in 3..Len(a) /\ a[j] \in User
    BY <1>5, <1>7, <2>1, <2>2
  <2>4. i \in 3..Len(a)
    BY <1>2, <1>5, <2>1, <2>3
  <2>5. i - 2 \in 1..Len(s) /\ j - 2 \in 1..Len(s) /\ s[i - 2] = s[j - 2]
    BY <1>6, <2>3, <2>4
  <2>6. i - 2 = j - 2
    BY <1>1, <1>2, <2>5 DEF OnceEach
  <2> QED BY <1>2, <1>5, <2>6
<1> QED BY <1>2, <1>5, <1>6, <1>7, <1>8, <1>9 DEF a, s

\* What is read before a broken file is a beginning of the sequence.
LEMMA ReadableIs ==
  ASSUME NEW g, NEW a \in Seq(Ids)
  PROVE  LET r == Readable(g, a)
         IN  /\ r \in Seq(Ids) /\ Len(r) <= Len(a) /\ \A i \in DOMAIN r : r[i] = a[i]
             /\ r = a <=> \A i \in DOMAIN a : g[a[i]].state # "broken"
<1> DEFINE bad == {i \in DOMAIN a : g[a[i]].state = "broken"}
           r == Readable(g, a)
<1>1. DOMAIN a = 1..Len(a) /\ Len(a) \in Nat
  OBVIOUS
<1>2. r = IF bad = {} THEN a ELSE SubSeq(a, 1, (CHOOSE i \in bad : \A j \in bad : i <= j) - 1)
  BY DEF Readable
<1>3. CASE bad = {}
  <2>1. r = a
    BY <1>2, <1>3
  <2>2. \A i \in DOMAIN a : g[a[i]].state # "broken"
    BY <1>3
  <2> HIDE DEF r
  <2> QED BY <2>1, <2>2 DEF r
<1>4. CASE bad # {}
  <2> DEFINE m == CHOOSE i \in bad : \A j \in bad : i <= j
  <2>1. bad \in SUBSET Nat /\ bad \subseteq 1..Len(a)
    BY <1>1
  <2>2. \E i \in bad : \A j \in bad : i <= j
    <3> HIDE DEF bad
    <3> QED BY <1>4, <2>1, HasLeast
  <2>3. m \in bad
    <3> HIDE DEF bad
    <3> QED BY <2>2
  <2>4. r = SubSeq(a, 1, m - 1)
    BY <1>2, <1>4
  <2>5. m \in 1..Len(a) /\ g[a[m]].state = "broken"
    BY <1>1, <2>3
  <2> HIDE DEF m, r, bad
  <2>6. r \in Seq(Ids) /\ Len(r) = m - 1 /\ \A i \in 1..(m - 1) : r[i] = a[i]
    BY <1>1, <2>4, <2>5
  <2>7. Len(r) < Len(a) /\ r # a
    BY <1>1, <2>5, <2>6
  <2> QED BY <1>1, <2>5, <2>6, <2>7 DEF r
<1> QED BY <1>3, <1>4

\* The files that it does not name, each once and in the order of their numbers.
LEMMA NumberedIs ==
  ASSUME NEW g, NEW o, Found(g, o),
         \A id, other \in RestOf(g, o) : g[id].order = g[other].order => id = other
  PROVE  LET s == Numbered(g, o)
         IN  /\ s \in Seq(User) /\ OnceEach(s)
             /\ \A id : (\E i \in DOMAIN s : s[i] = id) <=> id \in RestOf(g, o)
             /\ \A i, j \in DOMAIN s : i < j => g[s[i]].order < g[s[j]].order
<1> DEFINE R == RestOf(g, o)
           N == Numbers(g, o)
           M == [n \in N |-> CHOOSE id \in R : g[id].order = n]
           s == Numbered(g, o)
<1>1. R \subseteq User /\ N = {g[id].order : id \in R}
  BY DEF RestOf, Numbers
<1>2. ASSUME NEW id \in User PROVE g[id].order \in 0..MaxOrder
  BY DEF Found, Ids, PatchFile, Orders
<1>3. N \in SUBSET Nat /\ IsFiniteSet(N)
  <2>1. N \subseteq 0..MaxOrder
    BY <1>1, <1>2
  <2>2. IsFiniteSet(0..MaxOrder) /\ 0..MaxOrder \subseteq Nat
    BY ProfileAssumption, FS_Interval
  <2> QED BY <2>1, <2>2, FS_Subset
<1>4. s = Select(M, N)
  BY DEF Numbered
<1>5. \A id, other \in R : g[id].order = g[other].order => id = other
  OBVIOUS
<1> HIDE DEF R, N, s
<1>6. \A n \in N : M[n] \in R /\ g[M[n]].order = n
  BY <1>1
<1>7. \A id \in R : g[id].order \in N /\ M[g[id].order] = id
  BY <1>1, <1>5, <1>6
<1> HIDE DEF M
<1>8. s \in Seq(User) /\ \E e : Picks(e, s, M, N)
  BY <1>1, <1>3, <1>4, <1>6, SelectedMap
<1>9. PICK e : Picks(e, s, M, N)
  BY <1>8
<1>10. DOMAIN s = 1..Len(s) /\ Len(s) \in Nat
  BY <1>8
<1>11. /\ \A i \in DOMAIN s : e[i] \in N /\ s[i] = M[e[i]]
       /\ \A i, j \in DOMAIN s : i < j => e[i] < e[j]
       /\ \A n \in N : \E h \in DOMAIN s : e[h] = n
  BY <1>9, <1>10 DEF Picks
<1>12. \A i \in DOMAIN s : s[i] \in R /\ g[s[i]].order = e[i]
  BY <1>6, <1>11
<1>13. \A i, j \in DOMAIN s : i < j => g[s[i]].order < g[s[j]].order
  BY <1>11, <1>12
<1>14. OnceEach(s)
  <2> SUFFICES ASSUME NEW i \in DOMAIN s, NEW j \in DOMAIN s, s[i] = s[j], i < j PROVE FALSE
    BY <1>10 DEF OnceEach
  <2>1. e[i] = e[j] /\ e[i] < e[j]
    BY <1>11, <1>12
  <2>2. e[i] \in Nat
    BY <1>3, <1>11
  <2> QED BY <2>1, <2>2
<1>15. ASSUME NEW id \in R PROVE \E i \in DOMAIN s : s[i] = id
  <2>1. PICK h \in DOMAIN s : e[h] = g[id].order
    BY <1>7, <1>11
  <2> QED BY <1>7, <1>11, <2>1
<1> QED BY <1>8, <1>12, <1>13, <1>14, <1>15 DEF s, R

\* Whether a load reads all: nothing that it reads is broken, and no number is taken twice.
LEMMA ReadsAllIs ==
  ASSUME NEW g, NEW o, Found(g, o)
  PROVE  /\ ReadsAll(g, o) =>
              /\ \A id \in Builtins : g[id].state # "broken"
              /\ \A id \in User : g[id].state # "broken"
         /\ (/\ \A id \in Ids : g[id].state # "broken"
             /\ \A id, other \in RestOf(g, o) : g[id].order = g[other].order => id = other)
              => ReadsAll(g, o)
<1> DEFINE a == AllOf(g, o)
<1>1. /\ a \in Seq(Ids) /\ Len(a) >= 2 /\ a[1] = "minecraft" /\ a[2] = "lwjgl"
      /\ \A id \in User : g[id].state # "none" /\ id \in Range(o.ids)
                            => \E i \in 3..Len(a) : a[i] = id
  <2>1. Len(Listed(g, o)) \in Nat
    BY ListedIs
  <2> QED BY <2>1, AllIs
<1>2. (Readable(g, a) = a) <=> \A i \in DOMAIN a : g[a[i]].state # "broken"
  BY <1>1, ReadableIs
<1>3. RestOf(g, o) = {id \in User : g[id].state # "none" /\ id \notin Range(o.ids)}
  BY DEF RestOf
<1>4. ReadsAll(g, o) <=> /\ Readable(g, a) = a
                         /\ \A id \in RestOf(g, o) : g[id].state = "good"
                         /\ \A id, other \in RestOf(g, o) :
                              g[id].order = g[other].order => id = other
  BY DEF ReadsAll
<1>5. \A id \in User : g[id].state \in {"none", "good", "broken"}
  BY DEF Found, Ids, PatchFile
<1> HIDE DEF a
<1>6. DOMAIN a = 1..Len(a) /\ Len(a) \in Nat /\ \A i \in DOMAIN a : a[i] \in Ids
  BY <1>1
<1>7. ASSUME ReadsAll(g, o)
      PROVE  /\ \A id \in Builtins : g[id].state # "broken"
             /\ \A id \in User : g[id].state # "broken"
  <2>1. \A i \in 1..Len(a) : g[a[i]].state # "broken"
    BY <1>2, <1>4, <1>6, <1>7
  <2>2. g["minecraft"].state # "broken" /\ g["lwjgl"].state # "broken"
    BY <1>1, <1>6, <2>1
  <2>3. ASSUME NEW id \in User PROVE g[id].state # "broken"
    <3>1. CASE g[id].state # "none" /\ id \in Range(o.ids)
      <4>1. PICK i \in 3..Len(a) : a[i] = id
        BY <1>1, <3>1
      <4>2. i \in 1..Len(a)
        BY <1>6
      <4> QED BY <2>1, <4>1, <4>2
    <3>2. CASE g[id].state # "none" /\ id \notin Range(o.ids)
      BY <1>3, <1>4, <1>7, <3>2
    <3> QED BY <3>1, <3>2
  <2> QED BY <2>2, <2>3 DEF Builtins
<1>8. ASSUME \A id \in Ids : g[id].state # "broken",
             \A id, other \in RestOf(g, o) : g[id].order = g[other].order => id = other
      PROVE  ReadsAll(g, o)
  <2>1. Readable(g, a) = a
    BY <1>2, <1>6, <1>8
  <2>2. \A id \in RestOf(g, o) : g[id].state = "good"
    BY <1>3, <1>5, <1>8 DEF Ids
  <2> QED BY <1>4, <1>8, <2>1, <2>2
<1> QED BY <1>7, <1>8

\* What a load reads has nothing twice; and when it reads all, it has every file.
LEMMA ReadIs ==
  ASSUME NEW g, NEW o, Found(g, o)
  PROVE  LET r == ReadOf(g, o)
         IN  /\ r \in Seq(Ids) /\ OnceEach(r)
             /\ ReadsAll(g, o) =>
                  /\ Len(r) >= 2 /\ r[1] = "minecraft" /\ r[2] = "lwjgl"
                  /\ \A i \in 3..Len(r) : r[i] \in User /\ g[r[i]].state = "good"
                  /\ \A id \in User : g[id].state # "none" => \E i \in DOMAIN r : r[i] = id
<1> DEFINE a == AllOf(g, o)
           r == ReadOf(g, o)
           s == Numbered(g, o)
<1>1. /\ a \in Seq(Ids) /\ OnceEach(a) /\ Len(a) \in Nat /\ Len(a) >= 2
      /\ a[1] = "minecraft" /\ a[2] = "lwjgl"
      /\ \A i \in 3..Len(a) : a[i] \in User /\ g[a[i]].state # "none" /\ a[i] \in Range(o.ids)
      /\ \A id \in User : g[id].state # "none" /\ id \in Range(o.ids)
                            => \E i \in 3..Len(a) : a[i] = id
  <2>1. Len(Listed(g, o)) \in Nat
    BY ListedIs
  <2> QED BY <2>1, AllIs
<1>2. CASE ~ReadsAll(g, o)
  <2>1. r = Readable(g, a)
    BY <1>2 DEF ReadOf
  <2> HIDE DEF a, r
  <2>2. r \in Seq(Ids) /\ Len(r) <= Len(a) /\ \A i \in DOMAIN r : r[i] = a[i]
    BY <1>1, <2>1, ReadableIs
  <2>3. DOMAIN r = 1..Len(r) /\ Len(r) \in Nat /\ DOMAIN a = 1..Len(a)
    BY <1>1, <2>2
  <2>4. \A i \in DOMAIN r : i \in DOMAIN a
    BY <1>1, <2>2, <2>3
  <2>5. OnceEach(r)
    BY <1>1, <2>2, <2>4 DEF OnceEach
  <2> QED BY <1>2, <2>2, <2>5 DEF r
<1>3. CASE ReadsAll(g, o)
  <2>1. r = a \o s
    BY <1>3 DEF ReadOf
  <2>2. \A id, other \in RestOf(g, o) : g[id].order = g[other].order => id = other
    BY <1>3 DEF ReadsAll
  <2>3. /\ s \in Seq(User) /\ OnceEach(s) /\ s \in Seq(Ids) /\ Len(s) \in Nat
        /\ \A id : (\E i \in DOMAIN s : s[i] = id) <=> id \in RestOf(g, o)
    <3>1. /\ s \in Seq(User) /\ OnceEach(s)
          /\ \A id : (\E i \in DOMAIN s : s[i] = id) <=> id \in RestOf(g, o)
      BY <2>2, NumberedIs
    <3> QED BY <3>1 DEF Ids
  <2>4. /\ \A id \in Builtins : g[id].state # "broken"
        /\ \A id \in User : g[id].state # "broken"
    BY <1>3, ReadsAllIs
  <2>5. \A id \in User : g[id].state \in {"none", "good", "broken"}
    BY DEF Found, Ids, PatchFile
  <2>6. RestOf(g, o) = {id \in User : g[id].state # "none" /\ id \notin Range(o.ids)}
    BY DEF RestOf
  <2> HIDE DEF a, r, s
  <2>7. /\ r \in Seq(Ids) /\ Len(r) = Len(a) + Len(s)
        /\ \A i \in 1..Len(a) : r[i] = a[i]
        /\ \A i \in 1..Len(s) : r[Len(a) + i] = s[i]
    BY <1>1, <2>1, <2>3
  <2>8. ASSUME NEW i \in 1..Len(r), i > Len(a)
        PROVE  i - Len(a) \in DOMAIN s /\ r[i] = s[i - Len(a)]
    <3>1. i - Len(a) \in 1..Len(s) /\ Len(a) + (i - Len(a)) = i
      BY <1>1, <2>3, <2>7, <2>8
    <3>2. r[Len(a) + (i - Len(a))] = s[i - Len(a)]
      BY <2>7, <3>1
    <3>3. DOMAIN s = 1..Len(s)
      BY <2>3
    <3> QED BY <3>1, <3>2, <3>3
  <2>9. \A i \in 1..Len(r) : i > Len(a) => r[i] \in RestOf(g, o)
    BY <2>3, <2>8
  <2>10. ASSUME NEW i \in 3..Len(r) PROVE r[i] \in User /\ g[r[i]].state = "good"
    <3>1. CASE i <= Len(a)
      <4>1. i \in 3..Len(a) /\ r[i] = a[i]
        BY <1>1, <2>7, <3>1
      <4> QED BY <1>1, <2>4, <2>5, <4>1
    <3>2. CASE i > Len(a)
      <4>1. r[i] \in RestOf(g, o)
        BY <2>9, <3>2
      <4> QED BY <2>4, <2>5, <2>6, <4>1
    <3> QED BY <1>1, <3>1, <3>2
  <2>11. r[1] = "minecraft" /\ r[2] = "lwjgl" /\ Len(r) >= 2
    <3>1. 1 \in 1..Len(a) /\ 2 \in 1..Len(a) /\ Len(r) >= 2
      BY <1>1, <2>3, <2>7
    <3>2. r[1] = a[1] /\ r[2] = a[2]
      BY <2>7, <3>1
    <3> QED BY <1>1, <3>1, <3>2
  <2>12. ASSUME NEW id \in User, g[id].state # "none" PROVE \E i \in DOMAIN r : r[i] = id
    <3>1. CASE id \in Range(o.ids)
      <4>1. PICK i \in 3..Len(a) : a[i] = id
        BY <1>1, <2>12, <3>1
      <4>2. i \in DOMAIN r /\ r[i] = id
        BY <1>1, <2>3, <2>7, <4>1
      <4> QED BY <4>2
    <3>2. CASE id \notin Range(o.ids)
      <4>1. PICK i \in DOMAIN s : s[i] = id
        BY <2>3, <2>6, <2>12, <3>2
      <4>2. i \in 1..Len(s) /\ Len(a) + i \in 1..Len(r) /\ DOMAIN r = 1..Len(r)
        BY <1>1, <2>3, <2>7
      <4>3. r[Len(a) + i] = id
        BY <2>7, <4>1, <4>2
      <4> QED BY <4>2, <4>3
    <3> QED BY <3>1, <3>2
  <2>13. OnceEach(r)
    <3> SUFFICES ASSUME NEW i \in 1..Len(r), NEW j \in 1..Len(r), r[i] = r[j], i < j PROVE FALSE
      BY <1>1, <2>3, <2>7 DEF OnceEach
    <3>1. CASE j <= Len(a)
      <4>1. i \in DOMAIN a /\ j \in DOMAIN a /\ a[i] = a[j]
        BY <1>1, <2>7, <3>1
      <4> QED BY <1>1, <4>1 DEF OnceEach
    <3>2. CASE i > Len(a)
      <4>1. i - Len(a) \in DOMAIN s /\ j - Len(a) \in DOMAIN s /\ s[i - Len(a)] = s[j - Len(a)]
        BY <1>1, <2>8, <3>2
      <4>2. i - Len(a) = j - Len(a)
        BY <2>3, <4>1 DEF OnceEach
      <4> QED BY <1>1, <4>2
    <3>3. CASE i <= Len(a) /\ j > Len(a)
      <4>1. r[j] \in User /\ r[j] \notin Range(o.ids)
        BY <2>6, <2>9, <3>3
      <4>2. r[i] = a[i] /\ i \in 1..Len(a)
        BY <1>1, <2>7, <3>3
      <4>3. i \in 3..Len(a)
        BY <1>1, <4>1, <4>2, BuiltinsApart DEF Builtins
      <4> QED BY <1>1, <4>1, <4>2, <4>3
    <3> QED BY <1>1, <3>1, <3>2, <3>3
  <2> QED BY <2>7, <2>10, <2>11, <2>12, <2>13 DEF r
<1> QED BY <1>2, <1>3

-----------------------------------------------------------------------------
(* Lists of patches *)

\* What the version page shows of a patch, and what it should show of one that was read
\* from the files g.
Looks(p) == [id |-> p.id, custom |-> p.custom, for |-> p.for]
LooksOf(g, id, v) ==
  [id |-> id, custom |-> id \in User \/ g[id].state # "none",
   for |-> IF id = "minecraft" /\ g[id].state = "none" THEN v ELSE g[id].for]

\* The list that l is of the files g: each patch is shown as its file says.
Reflects(g, v, l) == \A i \in DOMAIN l : Looks(l[i]) = LooksOf(g, l[i].id, v)

\* A list in which a patch is at most once, and those of the user are custom.
ListOf(l) ==
  /\ l \in Seq(Patch) /\ OnceEach(IdsOf(l))
  /\ \A i \in DOMAIN l : l[i].id \in User => l[i].custom

\* The list l has all the files g, and a load of them would not fail.
Complete(g, v, l) ==
  /\ ListOf(l) /\ Reflects(g, v, l)
  /\ Len(l) >= 2 /\ l[1].id = "minecraft" /\ l[2].id = "lwjgl"
  /\ \A i \in 3..Len(l) : l[i].id \in User
  /\ \A id \in Ids : g[id].state # "broken"
  /\ \A i \in 3..Len(l) : g[l[i].id].state = "good"
  /\ \A id \in User : g[id].state # "none" => \E i \in DOMAIN l : l[i].id = id

\* What is shown of a list, patch by patch.
LEMMA ShownIs ==
  ASSUME NEW l
  PROVE  Shown(l) = [i \in DOMAIN l |-> Looks(l[i])]
BY DEF Shown, Looks

\* A patch that is read has its type and looks as its file says; one of the user is custom.
LEMMA PatchTyped ==
  ASSUME NEW g \in [Ids -> PatchFile], NEW o, NEW v \in Versions, NEW id \in Ids
  PROVE  /\ PatchOf(g, o, id, v) \in Patch /\ PatchOf(g, o, id, v).id = id
         /\ id \in User => PatchOf(g, o, id, v).custom
         /\ Looks(PatchOf(g, o, id, v)) = LooksOf(g, id, v)
         /\ id \in RestOf(g, o) => PatchOf(g, o, id, v).order = g[id].order
<1>1. g[id] \in PatchFile
  OBVIOUS
<1>2. g[id].order \in Orders /\ g[id].for \in Versions \cup {0} /\ 0 \in Orders
  BY <1>1, ProfileAssumption DEF PatchFile, Orders
<1>3. (id \in User \/ g[id].state # "none") \in BOOLEAN
  OBVIOUS
<1>4. (IF id = "minecraft" /\ g[id].state = "none" THEN v ELSE g[id].for) \in Versions \cup {0}
  BY <1>2
<1>5. (IF id \in RestOf(g, o) THEN g[id].order ELSE 0) \in Orders
  BY <1>2
<1>6. PatchOf(g, o, id, v) \in Patch
  BY <1>3, <1>4, <1>5 DEF PatchOf, Patch
<1>7. Looks(PatchOf(g, o, id, v)) = LooksOf(g, id, v)
  BY DEF Looks, LooksOf, PatchOf
<1> QED BY <1>6, <1>7 DEF PatchOf

\* What a load leaves in the list.
LEMMA LoadedIs ==
  ASSUME NEW g, NEW o, Found(g, o), NEW v \in Versions
  PROVE  LET l == Load(g, o, v)
         IN  /\ ListOf(l.list) /\ Reflects(g, v, l.list)
             /\ Len(l.list) = Len(ReadOf(g, o)) /\ IdsOf(l.list) = ReadOf(g, o)
             /\ l.ok => Complete(g, v, l.list)
             /\ \A i \in DOMAIN l.list : l.list[i].id \in RestOf(g, o)
                                          => l.list[i].order = g[l.list[i].id].order
<1> DEFINE r == ReadOf(g, o)
           l == Load(g, o, v).list
<1>1. /\ r \in Seq(Ids) /\ OnceEach(r)
      /\ ReadsAll(g, o) =>
           /\ Len(r) >= 2 /\ r[1] = "minecraft" /\ r[2] = "lwjgl"
           /\ \A i \in 3..Len(r) : r[i] \in User /\ g[r[i]].state = "good"
           /\ \A id \in User : g[id].state # "none" => \E i \in DOMAIN r : r[i] = id
  BY ReadIs
<1>2. l = [i \in DOMAIN r |-> PatchOf(g, o, r[i], v)] /\ Load(g, o, v).ok = ReadsAll(g, o)
  BY LoadIs
<1>3. g \in [Ids -> PatchFile]
  BY DEF Found
<1> HIDE DEF r, l
<1>4. DOMAIN r = 1..Len(r) /\ Len(r) \in Nat /\ \A i \in DOMAIN r : r[i] \in Ids
  BY <1>1
<1>5. /\ \A i \in DOMAIN r : PatchOf(g, o, r[i], v) \in Patch /\ PatchOf(g, o, r[i], v).id = r[i]
      /\ \A i \in DOMAIN r : r[i] \in User => PatchOf(g, o, r[i], v).custom
      /\ \A i \in DOMAIN r : Looks(PatchOf(g, o, r[i], v)) = LooksOf(g, r[i], v)
      /\ \A i \in DOMAIN r : r[i] \in RestOf(g, o) => PatchOf(g, o, r[i], v).order = g[r[i]].order
  <2>1. ASSUME NEW i \in DOMAIN r
        PROVE  /\ PatchOf(g, o, r[i], v) \in Patch /\ PatchOf(g, o, r[i], v).id = r[i]
               /\ r[i] \in User => PatchOf(g, o, r[i], v).custom
               /\ Looks(PatchOf(g, o, r[i], v)) = LooksOf(g, r[i], v)
               /\ r[i] \in RestOf(g, o) => PatchOf(g, o, r[i], v).order = g[r[i]].order
    <3>1. PICK id \in Ids : id = r[i]
      BY <1>4
    <3> QED BY <1>3, <3>1, PatchTyped
  <2> QED BY <2>1
<1>6. /\ l \in Seq(Patch) /\ Len(l) = Len(r) /\ DOMAIN l = DOMAIN r
      /\ \A i \in DOMAIN r : l[i] = PatchOf(g, o, r[i], v) /\ l[i].id = r[i]
  BY <1>2, <1>4, <1>5
<1>7. IdsOf(l) = r
  BY <1>1, <1>4, <1>6 DEF IdsOf
<1>8. ListOf(l) /\ Reflects(g, v, l)
  <2>1. ListOf(l)
    BY <1>1, <1>5, <1>6, <1>7 DEF ListOf
  <2> QED BY <1>5, <1>6, <2>1 DEF Reflects
<1>10. \A i \in DOMAIN l : l[i].id \in RestOf(g, o) => l[i].order = g[l[i].id].order
  BY <1>5, <1>6
<1>9. ASSUME ReadsAll(g, o) PROVE Complete(g, v, l)
  <2>1. \A id \in Ids : g[id].state # "broken"
    BY <1>9, ReadsAllIs, BuiltinsApart
  <2>2. 1 \in DOMAIN r /\ 2 \in DOMAIN r /\ \A i \in 3..Len(r) : i \in DOMAIN r
    BY <1>1, <1>4, <1>9
  <2>3. Len(l) >= 2 /\ l[1].id = "minecraft" /\ l[2].id = "lwjgl"
    BY <1>1, <1>6, <1>9, <2>2
  <2>4. \A i \in 3..Len(l) : l[i].id \in User /\ g[l[i].id].state = "good"
    BY <1>1, <1>6, <1>9, <2>2
  <2>5. \A id \in User : g[id].state # "none" => \E i \in DOMAIN l : l[i].id = id
    BY <1>1, <1>6, <1>9
  <2> QED BY <1>8, <2>1, <2>3, <2>4, <2>5 DEF Complete
<1> QED BY <1>2, <1>6, <1>7, <1>8, <1>9, <1>10 DEF l, r

\* The order that is saved for a list: its patches of the user, in its order.
LEMMA OrderIs ==
  ASSUME NEW l, ListOf(l)
  PROVE  LET q == OrderOf(l).ids
         IN  /\ OrderOf(l).exists = TRUE /\ q \in Seq(User) /\ IsInjective(q)
             /\ \E e : /\ \A h \in DOMAIN q : e[h] \in DOMAIN l /\ q[h] = l[e[h]].id
                       /\ \A h, k \in DOMAIN q : h < k => e[h] < e[k]
             /\ \A i \in DOMAIN l : l[i].id \in User => \E h \in DOMAIN q : q[h] = l[i].id
<1> DEFINE P == {i \in DOMAIN l : l[i].id \in User}
           t == Select(l, P)
           q == OrderOf(l).ids
<1>1. l \in Seq(Patch) /\ DOMAIN l = 1..Len(l) /\ Len(l) \in Nat /\ P \in SUBSET (1..Len(l))
  BY DEF ListOf
<1>2. OrderOf(l).exists = TRUE /\ q = IdsOf(t)
  BY DEF OrderOf
<1>3. /\ \A i \in P : i \in DOMAIN l /\ l[i].id \in User
      /\ \A i \in DOMAIN l : l[i].id \in User => i \in P
  OBVIOUS
<1>4. \A i, j \in DOMAIN l : l[i].id = l[j].id => i = j
  BY DEF ListOf, OnceEach, IdsOf
<1> HIDE DEF P, t, q
<1>5. t \in Seq(Patch) /\ \E e : Picks(e, t, l, P)
  BY <1>1, Selected DEF t
<1>6. PICK e : Picks(e, t, l, P)
  BY <1>5
<1>7. DOMAIN t = 1..Len(t) /\ Len(t) \in Nat
  BY <1>5
<1>8. /\ \A i \in DOMAIN t : e[i] \in P /\ t[i] = l[e[i]]
      /\ \A i, j \in DOMAIN t : i < j => e[i] < e[j]
      /\ \A i \in P : \E h \in DOMAIN t : e[h] = i
  BY <1>6, <1>7 DEF Picks
<1>9. q = [i \in 1..Len(t) |-> t[i].id]
  BY <1>2, <1>7 DEF IdsOf
<1>10. \A i \in 1..Len(t) : t[i].id \in User
  BY <1>3, <1>7, <1>8
<1>11. q \in Seq(User) /\ DOMAIN q = DOMAIN t /\ \A i \in DOMAIN t : q[i] = l[e[i]].id
  BY <1>7, <1>8, <1>9, <1>10
<1>12. ASSUME NEW h \in DOMAIN q, NEW k \in DOMAIN q, q[h] = q[k], h < k PROVE FALSE
  <2>1. e[h] \in DOMAIN l /\ e[k] \in DOMAIN l /\ l[e[h]].id = l[e[k]].id
    BY <1>3, <1>8, <1>11, <1>12
  <2>2. e[h] = e[k] /\ e[h] < e[k]
    BY <1>4, <1>8, <1>11, <1>12, <2>1
  <2>3. e[h] \in Nat
    BY <1>1, <2>1
  <2> QED BY <2>2, <2>3
<1>13. IsInjective(q)
  <2>1. ASSUME NEW h \in DOMAIN q, NEW k \in DOMAIN q, q[h] = q[k] PROVE h = k
    <3>1. h \in Nat /\ k \in Nat
      BY <1>7, <1>11
    <3> QED BY <1>12, <2>1, <3>1
  <2> QED BY <2>1 DEF IsInjective
<1>14. /\ \A h \in DOMAIN q : e[h] \in DOMAIN l /\ q[h] = l[e[h]].id
       /\ \A h, k \in DOMAIN q : h < k => e[h] < e[k]
  BY <1>3, <1>8, <1>11
<1>15. ASSUME NEW i \in DOMAIN l, l[i].id \in User PROVE \E h \in DOMAIN q : q[h] = l[i].id
  <2>1. PICK h \in DOMAIN t : e[h] = i
    BY <1>3, <1>8, <1>15
  <2> QED BY <1>11, <2>1
<1> QED BY <1>2, <1>11, <1>13, <1>14, <1>15 DEF q

\* A complete list is what a load shows once its order is saved.
LEMMA SavedIs ==
  ASSUME NEW g \in [Ids -> PatchFile], NEW v \in Versions, NEW l, Complete(g, v, l)
  PROVE  Load(g, OrderOf(l), v).ok /\ Shown(Load(g, OrderOf(l), v).list) = Shown(l)
<1> DEFINE o == OrderOf(l)
           q == o.ids
           n == Len(l)
           a == AllOf(g, o)
           r == ReadOf(g, o)
           m == Load(g, o, v).list
<1>1. /\ ListOf(l) /\ Reflects(g, v, l) /\ l \in Seq(Patch)
      /\ n \in Nat /\ n >= 2 /\ DOMAIN l = 1..n
      /\ l[1].id = "minecraft" /\ l[2].id = "lwjgl"
      /\ \A i \in 3..n : l[i].id \in User
      /\ \A id \in Ids : g[id].state # "broken"
      /\ \A i \in 3..n : g[l[i].id].state = "good"
      /\ \A id \in User : g[id].state # "none" => \E i \in DOMAIN l : l[i].id = id
  BY DEF Complete, ListOf
<1>2. /\ q \in Seq(User) /\ IsInjective(q)
      /\ \A i \in DOMAIN l : l[i].id \in User => \E h \in DOMAIN q : q[h] = l[i].id
  BY <1>1, OrderIs
<1>3. Found(g, o)
  BY <1>2 DEF Found
<1>4. q = [h \in 1..(n - 2) |-> l[h + 2].id]
  <2> DEFINE P == {i \in DOMAIN l : l[i].id \in User}
  <2>1. P = 3..n
    BY <1>1, BuiltinsApart DEF Builtins
  <2>2. Select(l, 3..n) = [h \in 1..(n + 1 - 3) |-> l[h + 3 - 1]]
    <3>1. 3 \in 1..(Len(l) + 1) /\ l \in Seq(Patch)
      BY <1>1
    <3> QED BY <3>1, SelectedTail
  <2>3. n + 1 - 3 = n - 2 /\ \A h \in 1..(n - 2) : h + 3 - 1 = h + 2
    BY <1>1
  <2>4. Select(l, P) = [h \in 1..(n - 2) |-> l[h + 2]]
    BY <2>1, <2>2, <2>3
  <2>5. q = IdsOf(Select(l, P))
    BY DEF OrderOf
  <2> HIDE DEF P
  <2> QED BY <2>4, <2>5 DEF IdsOf
<1> HIDE DEF o, q, n
<1>5. DOMAIN q = 1..(n - 2) /\ Len(q) = n - 2 /\ \A h \in 1..(n - 2) : q[h] = l[h + 2].id
  BY <1>1, <1>2, <1>4
<1>6. ASSUME NEW h \in DOMAIN q PROVE g[q[h]].state = "good"
  BY <1>1, <1>5, <1>6
<1>7. Listed(g, o) = q
  <2>1. {i \in DOMAIN q : g[q[i]].state # "none"} = 1..Len(q)
    BY <1>5, <1>6
  <2>2. 1 \in 1..(Len(q) + 1) /\ Len(q) \in Nat
    BY <1>2
  <2>3. Select(q, 1..Len(q)) = [h \in 1..(Len(q) + 1 - 1) |-> q[h + 1 - 1]]
    BY <1>2, <2>2, SelectedTail
  <2>4. Len(q) + 1 - 1 = Len(q) /\ \A h \in 1..Len(q) : h + 1 - 1 = h
    BY <2>2
  <2>5. q = [h \in 1..Len(q) |-> q[h]]
    BY <1>2
  <2>6. Listed(g, o) = Select(q, 1..Len(q))
    BY <2>1 DEF Listed, q
  <2> QED BY <2>3, <2>4, <2>5, <2>6
<1>8. RestOf(g, o) = {}
  <2>1. ASSUME NEW id \in User, g[id].state # "none" PROVE id \in Range(q)
    BY <1>1, <1>2, <2>1 DEF Range
  <2> QED BY <2>1 DEF RestOf, q
<1>9. ReadsAll(g, o)
  BY <1>1, <1>3, <1>8, ReadsAllIs
<1>10. r = a
  <2> DEFINE s == Numbered(g, o)
  <2>1. r = a \o s
    BY <1>9 DEF ReadOf
  <2>2. s \in Seq(User) /\ ~ \E i \in DOMAIN s : TRUE
    BY <1>3, <1>8, NumberedIs
  <2>3. a \in Seq(Ids)
    BY <1>3, AllIs
  <2> HIDE DEF s, r, a
  <2>4. s = <<>>
    <3>1. Len(s) \in Nat /\ DOMAIN s = 1..Len(s)
      BY <2>2
    <3>2. Len(s) = 0
      BY <2>2, <3>1
    <3> QED BY <2>2, <3>2
  <2> QED BY <2>1, <2>3, <2>4
<1>11. /\ a \in Seq(Ids) /\ Len(a) = n
       /\ \A i \in 1..n : a[i] = l[i].id
  <2>1. /\ a \in Seq(Ids) /\ Len(a) = Len(q) + 2
        /\ a[1] = "minecraft" /\ a[2] = "lwjgl"
        /\ \A i \in 3..Len(a) : i - 2 \in DOMAIN q /\ a[i] = q[i - 2]
    BY <1>3, <1>7, AllIs
  <2> HIDE DEF a
  <2>2. Len(a) = n
    BY <1>1, <1>5, <2>1
  <2>3. ASSUME NEW i \in 3..n PROVE a[i] = l[i].id
    <3>1. i - 2 \in 1..(n - 2) /\ a[i] = q[i - 2] /\ (i - 2) + 2 = i
      BY <1>5, <2>1, <2>2
    <3> QED BY <1>5, <3>1
  <2>4. ASSUME NEW i \in 1..n PROVE a[i] = l[i].id
    <3>1. i = 1 \/ i = 2 \/ i \in 3..n
      BY <1>1
    <3> QED BY <1>1, <2>1, <2>3, <3>1
  <2> QED BY <2>1, <2>2, <2>4
<1>12. Load(g, o, v).ok
  BY <1>9, LoadIs
<1>13. m = [i \in DOMAIN r |-> PatchOf(g, o, r[i], v)]
  BY LoadIs
<1> HIDE DEF a, r, m
<1>14. DOMAIN r = 1..n /\ \A i \in 1..n : r[i] = l[i].id /\ r[i] \in Ids
  BY <1>1, <1>10, <1>11
<1>15. DOMAIN m = 1..n /\ \A i \in 1..n : Looks(m[i]) = Looks(l[i])
  <2>1. ASSUME NEW i \in 1..n PROVE Looks(m[i]) = Looks(l[i])
    <3>1. PICK id \in Ids : id = r[i]
      BY <1>14
    <3>2. Looks(PatchOf(g, o, id, v)) = LooksOf(g, id, v)
      BY PatchTyped
    <3>3. m[i] = PatchOf(g, o, id, v)
      BY <1>13, <1>14, <3>1
    <3>4. Looks(l[i]) = LooksOf(g, l[i].id, v)
      BY <1>1 DEF Reflects
    <3> QED BY <1>14, <3>1, <3>2, <3>3, <3>4
  <2> QED BY <1>13, <1>14, <2>1
<1>16. Shown(m) = Shown(l)
  BY <1>1, <1>15, ShownIs
<1> QED BY <1>12, <1>16 DEF m, o

-----------------------------------------------------------------------------
(* The inductive invariant *)

\* The installers' own numbers, and the jar mods' above them.
FilesNumbered(g) ==
  \A id \in User : g[id].state # "none" =>
    IF id \in Loaders THEN g[id].order = LoaderOrder(id) ELSE g[id].order > 100

\* No file is broken, and no two that order.json does not name have the same number.
Whole(g) == \A id \in Ids : g[id].state # "broken"
Loadable(g, o) ==
  Whole(g) /\ \A a, b \in RestOf(g, o) : g[a].order = g[b].order => a = b

\* The builtins and every file of the user are in the list, those that order.json does
\* not name with their numbers.
Lists(g, o, l) ==
  /\ \A id \in Ids : id \in Builtins \/ g[id].state # "none" => \E i \in DOMAIN l : l[i].id = id
  /\ \A i \in DOMAIN l : l[i].id \in RestOf(g, o) => l[i].order = g[l[i].id].order

\* What the operations leave alone, or set to one of a few values.
RestTyped ==
  /\ version \in Versions /\ resolved \in Seq(Ids)
  /\ flagged \in BOOLEAN /\ sound \in BOOLEAN /\ damaged \in BOOLEAN
  /\ faults \in 0..MaxFaults

IInv ==
  /\ files \in [Ids -> PatchFile] /\ FilesNumbered(files)
  /\ orderFile.exists \in BOOLEAN /\ orderFile.ids \in Seq(User) /\ IsInjective(orderFile.ids)
  /\ ListOf(patches)
  /\ RestTyped
  /\ ListIsOnDisk
  /\ ~damaged => Loadable(files, orderFile) /\ Lists(files, orderFile, patches)

\* A list of patches has the type that TypeOK asks of it.
LEMMA ListIsTyped ==
  ASSUME NEW l
  PROVE  ListOf(l) => l \in Seq(Patch) /\ IsInjective(IdsOf(l))
BY DEF ListOf, OnceEach, IsInjective

\* When no file is broken and no two numbers are the same, the load does not fail.
LEMMA LoadableLoads ==
  ASSUME NEW g, NEW o, NEW v, Found(g, o), Loadable(g, o)
  PROVE  Load(g, o, v).ok
<1>1. ReadsAll(g, o)
  BY ReadsAllIs DEF Loadable, Whole
<1> QED BY <1>1, LoadIs

\* A load reads the builtins and files that are there.
LEMMA LoadsFiles ==
  ASSUME NEW g, NEW o, Found(g, o), NEW v \in Versions, NEW i \in DOMAIN Load(g, o, v).list,
         Load(g, o, v).ok
  PROVE  LET id == Load(g, o, v).list[i].id
         IN  id \in Ids /\ (id \in Builtins \/ g[id].state # "none")
<1> DEFINE l == Load(g, o, v).list
<1>1. Complete(g, v, l)
  BY LoadedIs
<1> HIDE DEF l
<1>2. /\ l \in Seq(Patch) /\ DOMAIN l = 1..Len(l) /\ Len(l) \in Nat
      /\ l[1].id = "minecraft" /\ l[2].id = "lwjgl"
      /\ \A h \in 3..Len(l) : l[h].id \in User /\ g[l[h].id].state = "good"
  BY <1>1 DEF Complete, ListOf
<1>3. i = 1 \/ i = 2 \/ i \in 3..Len(l)
  BY <1>2 DEF l
<1> QED BY <1>2, <1>3 DEF l, Ids, Builtins

\* The inductive invariant gives the four invariants.
LEMMA IInvImplies ==
  ASSUME IInv
  PROVE  TypeOK /\ ListIsOnDisk /\ LoadsUnlessDamaged /\ NothingComesBack
<1>1. TypeOK
  BY ListIsTyped DEF IInv, RestTyped, TypeOK
<1>2. ASSUME ~damaged PROVE Load(files, orderFile, version).ok
  <2>1. Found(files, orderFile)
    BY DEF IInv, Found
  <2> QED BY <1>2, <2>1, LoadableLoads DEF IInv
<1>3. ASSUME ~damaged
      PROVE  Range(IdsOf(Load(files, orderFile, version).list)) \subseteq Range(IdsOf(patches))
  <2> DEFINE l == Load(files, orderFile, version).list
  <2> SUFFICES ASSUME NEW i \in DOMAIN l PROVE l[i].id \in Range(IdsOf(patches))
    BY DEF Range, IdsOf
  <2>1. Found(files, orderFile) /\ version \in Versions
    BY DEF IInv, Found, RestTyped
  <2>2. l[i].id \in Ids /\ (l[i].id \in Builtins \/ files[l[i].id].state # "none")
    BY <1>2, <1>3, <2>1, LoadsFiles
  <2> HIDE DEF l
  <2>3. \E j \in DOMAIN patches : patches[j].id = l[i].id
    BY <1>3, <2>2 DEF IInv, Lists
  <2> QED BY <2>3 DEF Range, IdsOf
<1> QED BY <1>1, <1>2, <1>3 DEF IInv, LoadsUnlessDamaged, NothingComesBack

\* What the profile is made of is ids.
LEMMA AppliedTyped ==
  ASSUME NEW l, ListOf(l)
  PROVE  Applied(l) \in Seq(Ids)
<1>1. l \in Seq(Patch) /\ DOMAIN l = 1..Len(l) /\ Len(l) \in Nat
  BY DEF ListOf
<1>2. \A i \in DOMAIN l : l[i].id \in Ids
  <2>1. \A p \in Patch : p.id \in Ids
    BY DEF Patch
  <2>2. \A i \in DOMAIN l : l[i] \in Patch
    BY <1>1
  <2> QED BY <2>1, <2>2
<1>3. IdsOf(l) \in Seq(Ids)
  BY <1>1, <1>2 DEF IdsOf
<1>4. <<>> \in Seq(Ids)
  OBVIOUS
<1> QED BY <1>3, <1>4 DEF Applied

\* What a load that succeeds leaves has every file.
LEMMA LoadLists ==
  ASSUME NEW g, NEW o, Found(g, o), NEW v \in Versions, Load(g, o, v).ok
  PROVE  Lists(g, o, Load(g, o, v).list)
<1> DEFINE l == Load(g, o, v).list
<1>1. /\ Complete(g, v, l)
      /\ \A i \in DOMAIN l : l[i].id \in RestOf(g, o) => l[i].order = g[l[i].id].order
  BY LoadedIs
<1> HIDE DEF l
<1>2. /\ DOMAIN l = 1..Len(l) /\ Len(l) \in Nat /\ Len(l) >= 2
      /\ l[1].id = "minecraft" /\ l[2].id = "lwjgl"
      /\ \A id \in User : g[id].state # "none" => \E i \in DOMAIN l : l[i].id = id
  BY <1>1 DEF Complete, ListOf
<1>3. 1 \in DOMAIN l /\ 2 \in DOMAIN l
  BY <1>2
<1> QED BY <1>1, <1>2, <1>3, BuiltinsApart DEF Lists, Builtins, l

\* A saved order leaves out only what is not in the list.
LEMMA NotSaved ==
  ASSUME NEW l, ListOf(l), NEW g, NEW id \in RestOf(g, OrderOf(l))
  PROVE  id \in User /\ g[id].state # "none" /\ \A i \in DOMAIN l : l[i].id # id
<1>1. id \in User /\ g[id].state # "none" /\ id \notin Range(OrderOf(l).ids)
  BY DEF RestOf
<1>2. \A i \in DOMAIN l : l[i].id \in User => l[i].id \in Range(OrderOf(l).ids)
  <2> DEFINE q == OrderOf(l).ids
  <2>1. \A i \in DOMAIN l : l[i].id \in User => \E h \in DOMAIN q : q[h] = l[i].id
    BY OrderIs
  <2> HIDE DEF q
  <2> QED BY <2>1 DEF Range, q
<1> QED BY <1>1, <1>2

\* Once its order is saved, a list with every file loads, and has every file.
LEMMA SavedLists ==
  ASSUME NEW l, ListOf(l), NEW g, NEW o, Whole(g), Lists(g, o, l)
  PROVE  Loadable(g, OrderOf(l)) /\ Lists(g, OrderOf(l), l)
<1>1. RestOf(g, OrderOf(l)) = {}
  BY NotSaved, BuiltinsApart DEF Lists
<1> QED BY <1>1 DEF Loadable, Lists

-----------------------------------------------------------------------------
(* What an operation leaves *)

\* An operation leaves the list in memory, and either saves its order or not; when it is
\* sound it has applied the list, too.
Leaves(list, fine) ==
  /\ patches' = list /\ resolved' \in {resolved, Applied(list)}
  /\ orderFile' \in {orderFile, OrderOf(list)}
  /\ sound' \in BOOLEAN /\ flagged' \in BOOLEAN /\ damaged' \in BOOLEAN
  /\ faults' \in 0..MaxFaults /\ version' = version
  /\ sound' => fine /\ orderFile' = OrderOf(list) /\ resolved' = Applied(list)

\* The end of most operations, and of those that give up after changing the list.
LEMMA Saves ==
  ASSUME IInv, NEW list, NEW fine, Leaves(list, fine),
         files' \in [Ids -> PatchFile], FilesNumbered(files'), ListOf(list),
         fine => Complete(files', version, list),
         ~damaged' => Loadable(files', orderFile) /\ Lists(files', orderFile, list)
  PROVE  IInv'
<1>1. /\ patches' = list /\ resolved' \in {resolved, Applied(list)}
      /\ orderFile' = orderFile \/ orderFile' = OrderOf(list)
      /\ sound' \in BOOLEAN /\ flagged' \in BOOLEAN /\ damaged' \in BOOLEAN
      /\ faults' \in 0..MaxFaults /\ version' = version
      /\ sound' => fine /\ orderFile' = OrderOf(list) /\ resolved' = Applied(list)
  BY DEF Leaves
<1>2. resolved' \in Seq(Ids)
  BY <1>1, AppliedTyped DEF IInv, RestTyped
<1>3. RestTyped'
  BY <1>1, <1>2 DEF IInv, RestTyped
<1>4. orderFile'.exists \in BOOLEAN /\ orderFile'.ids \in Seq(User) /\ IsInjective(orderFile'.ids)
  <2>1. CASE orderFile' = OrderOf(list)
    BY <2>1, OrderIs
  <2>2. CASE orderFile' = orderFile
    BY <2>2 DEF IInv
  <2> QED BY <1>1, <2>1, <2>2
<1>5. ListIsOnDisk'
  <2> SUFFICES ASSUME sound' PROVE LET l == Load(files', orderFile', version')
                                   IN l.ok /\ Shown(l.list) = Shown(patches') /\ resolved' = Applied(patches')
    BY DEF ListIsOnDisk
  <2>1. orderFile' = OrderOf(list) /\ fine /\ version' = version
    BY <1>1
  <2>2. version \in Versions
    BY DEF IInv, RestTyped
  <2>3. /\ Load(files', OrderOf(list), version).ok
        /\ Shown(Load(files', OrderOf(list), version).list) = Shown(list)
    BY <2>1, <2>2, SavedIs
  <2> QED BY <1>1, <2>1, <2>3
<1>6. ASSUME ~damaged' PROVE Loadable(files', orderFile') /\ Lists(files', orderFile', list)
  BY <1>1, <1>6, SavedLists DEF Loadable
<1> QED BY <1>1, <1>3, <1>4, <1>5, <1>6 DEF IInv

\* ApplyAndSave is such an end.
LEMMA AppliesAndSaves ==
  ASSUME IInv, NEW list, NEW fine \in BOOLEAN, ApplyAndSave(list, fine),
         version' = version, flagged' \in BOOLEAN, damaged' \in BOOLEAN
  PROVE  Leaves(list, fine)
<1>1. faults' \in 0..MaxFaults
  BY ProfileAssumption DEF ApplyAndSave, Fine, Fault, IInv, RestTyped
<1>2. patches' = list /\ resolved' = Applied(list)
  BY DEF ApplyAndSave
<1>3. \/ orderFile' = OrderOf(list) /\ sound' = fine
      \/ orderFile' = orderFile /\ sound' = FALSE
  BY DEF ApplyAndSave
<1>4. sound' \in BOOLEAN /\ (sound' => fine /\ orderFile' = OrderOf(list))
  <2>1. CASE orderFile' = OrderOf(list) /\ sound' = fine
    BY <2>1
  <2>2. CASE orderFile' = orderFile /\ sound' = FALSE
    BY <2>2
  <2> QED BY <1>3, <2>1, <2>2
<1>5. orderFile' \in {orderFile, OrderOf(list)}
  BY <1>3
<1> QED BY <1>1, <1>2, <1>4, <1>5 DEF Leaves

\* What reloadProfile and resetOrder have in common.
LoadsAgain(l) ==
  /\ patches' = l.list /\ resolved' \in {<<>>, resolved, Applied(l.list)}
  /\ flagged' \in {flagged, ~l.ok} /\ sound' = l.ok
  /\ l.ok => resolved' = Applied(l.list)

\* The end of an operation that loads the profile again.
LEMMA Reloads ==
  ASSUME IInv, LoadsAgain(Load(files', orderFile', version')),
         version' = version, damaged' \in BOOLEAN, faults' \in 0..MaxFaults,
         files' \in [Ids -> PatchFile], FilesNumbered(files'),
         orderFile'.exists \in BOOLEAN, orderFile'.ids \in Seq(User), IsInjective(orderFile'.ids),
         ~damaged' => Loadable(files', orderFile')
  PROVE  IInv'
<1> DEFINE l == Load(files', orderFile', version')
<1>1. /\ patches' = l.list /\ resolved' \in {<<>>, resolved, Applied(l.list)}
      /\ flagged' \in {flagged, ~l.ok} /\ sound' = l.ok
      /\ l.ok => resolved' = Applied(l.list)
  BY DEF LoadsAgain
<1>2. Found(files', orderFile') /\ version' \in Versions /\ version' = version
  BY DEF Found, IInv, RestTyped
<1>3. ListOf(l.list)
  BY <1>2, LoadedIs
<1>4. l.ok \in BOOLEAN
  <2>1. ReadsAll(files', orderFile') \in BOOLEAN
    BY DEF ReadsAll
  <2> QED BY <2>1, LoadIs
<1>5. RestTyped'
  <2>1. resolved' \in Seq(Ids)
    <3>1. Applied(l.list) \in Seq(Ids)
      BY <1>3, AppliedTyped
    <3>2. <<>> \in Seq(Ids)
      OBVIOUS
    <3> QED BY <1>1, <3>1, <3>2 DEF IInv, RestTyped
  <2>2. flagged' \in BOOLEAN /\ sound' \in BOOLEAN
    BY <1>1, <1>4 DEF IInv, RestTyped
  <2> QED BY <1>2, <2>1, <2>2 DEF IInv, RestTyped
<1>6. ASSUME ~damaged' PROVE Loadable(files', orderFile') /\ Lists(files', orderFile', l.list)
  <2>1. l.ok
    BY <1>2, <1>6, LoadableLoads
  <2> QED BY <1>2, <1>6, <2>1, LoadLists
<1>7. ListIsOnDisk'
  BY <1>1 DEF ListIsOnDisk
<1> QED BY <1>1, <1>3, <1>5, <1>6, <1>7 DEF IInv

\* Fewer files are as good.
LEMMA RemovedIs ==
  ASSUME NEW g \in [Ids -> PatchFile], NEW d \in [Ids -> PatchFile],
         \A id \in Ids : d[id] = g[id] \/ d[id] = NoFile
  PROVE  /\ FilesNumbered(g) => FilesNumbered(d)
         /\ Whole(g) => Whole(d)
         /\ \A o : RestOf(d, o) \subseteq RestOf(g, o)
         /\ \A o : \A id \in RestOf(d, o) : d[id] = g[id]
         /\ \A o : Loadable(g, o) => Loadable(d, o)
         /\ \A o, l : Lists(g, o, l) => Lists(d, o, l)
<1>1. NoFile.state = "none"
  BY DEF NoFile
<1>2. \A id \in Ids : d[id].state # "none" => d[id] = g[id]
  BY <1>1
<1>3. \A id \in Ids : d[id].state = "broken" => g[id].state = "broken"
  BY <1>1
<1>4. User \subseteq Ids
  BY DEF Ids
<1>5. FilesNumbered(g) => FilesNumbered(d)
  BY <1>2, <1>4 DEF FilesNumbered
<1>6. Whole(g) => Whole(d)
  BY <1>3 DEF Whole
<1>7. \A o : RestOf(d, o) \subseteq RestOf(g, o) /\ \A id \in RestOf(d, o) : d[id] = g[id]
  BY <1>2, <1>4 DEF RestOf
<1>8. \A o : Loadable(g, o) => Loadable(d, o)
  <2> TAKE o
  <2>1. RestOf(d, o) \subseteq RestOf(g, o) /\ \A id \in RestOf(d, o) : d[id] = g[id]
    BY <1>7
  <2> QED BY <1>6, <2>1 DEF Loadable
<1>9. \A o, l : Lists(g, o, l) => Lists(d, o, l)
  <2> TAKE o, l
  <2>1. RestOf(d, o) \subseteq RestOf(g, o) /\ \A id \in RestOf(d, o) : d[id] = g[id]
    BY <1>7
  <2> QED BY <1>2, <2>1 DEF Lists
<1> QED BY <1>5, <1>6, <1>7, <1>8, <1>9

\* A removed file is no file, and the others are as they were.
LEMMA RemovedTyped ==
  ASSUME ProfileAssumption, NEW g \in [Ids -> PatchFile], NEW id \in Ids
  PROVE  /\ Removed(g, id) \in [Ids -> PatchFile]
         /\ Removed(g, id)[id] = NoFile
         /\ \A x \in Ids : x # id => Removed(g, id)[x] = g[x]
<1>1. NoFile \in PatchFile
  BY ProfileAssumption DEF NoFile, PatchFile, Orders
<1> QED BY <1>1 DEF Removed

\* An operation that gives up, having removed at most one file.
LEMMA GivesUp ==
  ASSUME IInv, GiveUp, NEW id \in Ids, files' = files \/ files' = Removed(files, id)
  PROVE  IInv'
<1>1. /\ files' \in [Ids -> PatchFile]
      /\ \A x \in Ids : files'[x] = files[x] \/ files'[x] = NoFile
  <2>1. files \in [Ids -> PatchFile]
    BY DEF IInv
  <2>2. /\ Removed(files, id) \in [Ids -> PatchFile] /\ Removed(files, id)[id] = NoFile
        /\ \A x \in Ids : x # id => Removed(files, id)[x] = files[x]
    BY <2>1, RemovedTyped, ProfileAssumption
  <2>3. CASE files' = files
    BY <2>1, <2>3
  <2>4. CASE files' = Removed(files, id)
    BY <2>2, <2>4
  <2> QED BY <2>3, <2>4
<1>2. /\ FilesNumbered(files) => FilesNumbered(files')
      /\ Loadable(files, orderFile) => Loadable(files', orderFile)
      /\ Lists(files, orderFile, patches) => Lists(files', orderFile, patches)
  BY <1>1, RemovedIs DEF IInv
<1>3. /\ faults' \in 0..MaxFaults /\ sound' = FALSE
      /\ UNCHANGED <<orderFile, version, patches, resolved, flagged, damaged>>
  BY ProfileAssumption DEF GiveUp, Fault, IInv, RestTyped
<1>4. RestTyped'
  BY <1>3 DEF IInv, RestTyped
<1>5. ListIsOnDisk'
  BY <1>3 DEF ListIsOnDisk
<1> QED BY <1>1, <1>2, <1>3, <1>4, <1>5 DEF IInv

\* A list that is shown as one that was read completely is complete.
LEMMA ShownAlike ==
  ASSUME NEW g, NEW v, NEW m, Complete(g, v, m), NEW l, ListOf(l), Shown(l) = Shown(m)
  PROVE  Complete(g, v, l)
<1>6. /\ Shown(l) = [i \in DOMAIN l |-> Looks(l[i])]
      /\ Shown(m) = [i \in DOMAIN m |-> Looks(m[i])]
  BY ShownIs
<1>7. DOMAIN l = DOMAIN m
  BY <1>6
<1>8. \A i \in DOMAIN m : Looks(l[i]) = Looks(m[i])
  <2> TAKE i \in DOMAIN m
  <2>1. Shown(l)[i] = Looks(l[i]) /\ Shown(m)[i] = Looks(m[i])
    BY <1>6, <1>7
  <2> QED BY <2>1
<1>1. /\ DOMAIN l = 1..Len(l) /\ Len(l) \in Nat
      /\ DOMAIN m = 1..Len(m) /\ Len(m) \in Nat
  <2>1. l \in Seq(Patch) /\ m \in Seq(Patch)
    BY DEF ListOf, Complete
  <2> QED BY <2>1
<1>9. Len(l) = Len(m)
  <2>1. PICK a \in Nat : a = Len(l)
    BY <1>1
  <2>2. PICK b \in Nat : b = Len(m)
    BY <1>1
  <2>3. \A i : i \in 1..a <=> i \in 1..b
    BY <1>1, <1>7, <2>1, <2>2
  <2>4. (a \in 1..a <=> a \in 1..b) /\ (b \in 1..b <=> b \in 1..a)
    BY <2>3
  <2>5. a = b
    BY <2>4
  <2> QED BY <2>1, <2>2, <2>5
<1>2. \A i \in DOMAIN m : l[i].id = m[i].id
  <2> TAKE i \in DOMAIN m
  <2>1. Looks(l[i]).id = l[i].id /\ Looks(m[i]).id = m[i].id
    BY DEF Looks
  <2>2. Looks(l[i]) = Looks(m[i])
    BY <1>8
  <2> QED BY <2>1, <2>2
<1>3. Reflects(g, v, l)
  <2>1. \A i \in DOMAIN m : Looks(m[i]) = LooksOf(g, m[i].id, v)
    BY DEF Complete, Reflects
  <2> QED BY <1>2, <1>7, <1>8, <2>1 DEF Reflects
<1>4. /\ Len(m) >= 2 /\ m[1].id = "minecraft" /\ m[2].id = "lwjgl"
      /\ \A i \in 3..Len(m) : m[i].id \in User /\ g[m[i].id].state = "good"
      /\ \A id \in Ids : g[id].state # "broken"
      /\ \A id \in User : g[id].state # "none" => \E i \in DOMAIN m : m[i].id = id
  BY DEF Complete
<1>5. 1 \in DOMAIN m /\ 2 \in DOMAIN m /\ \A i \in 3..Len(m) : i \in DOMAIN m
  BY <1>1, <1>4
<1>11. /\ Len(l) >= 2 /\ l[1].id = "minecraft" /\ l[2].id = "lwjgl"
       /\ \A i \in 3..Len(l) : l[i].id \in User /\ g[l[i].id].state = "good"
  BY <1>2, <1>4, <1>5, <1>9
<1>10. \A id \in User : g[id].state # "none" => \E i \in DOMAIN l : l[i].id = id
  BY <1>2, <1>4, <1>7
<1> QED BY <1>3, <1>4, <1>11, <1>10 DEF Complete

\* As long as nothing has failed, the list has all the files.
LEMMA SoundIsComplete ==
  ASSUME IInv, sound
  PROVE  Complete(files, version, patches)
<1>1. Found(files, orderFile) /\ version \in Versions /\ ListOf(patches)
  BY DEF IInv, RestTyped, Found
<1>2. PICK m : m = Load(files, orderFile, version).list
  OBVIOUS
<1>3. Load(files, orderFile, version).ok /\ Shown(m) = Shown(patches)
  BY <1>2 DEF IInv, ListIsOnDisk
<1>4. Complete(files, version, m)
  BY <1>1, <1>2, <1>3, LoadedIs
<1> QED BY <1>1, <1>3, <1>4, ShownAlike

\* Customize and revert: the list is loaded, and what could be read of it saved.
LEMMA LoadsAndSaves ==
  ASSUME IInv, files' \in [Ids -> PatchFile], FilesNumbered(files'),
         ~damaged => Loadable(files', orderFile),
         ApplyAndSave(Load(files', orderFile, version).list, Load(files', orderFile, version).ok),
         UNCHANGED <<version, flagged, damaged>>
  PROVE  IInv'
<1> DEFINE m == Load(files', orderFile, version)
<1>1. PICK list : list = m.list
  OBVIOUS
<1>2. PICK fine : fine = m.ok
  OBVIOUS
<1>3. Found(files', orderFile) /\ version \in Versions
  BY DEF IInv, RestTyped, Found
<1>4. fine \in BOOLEAN
  <2>1. ReadsAll(files', orderFile) \in BOOLEAN
    BY DEF ReadsAll
  <2> QED BY <1>2, <2>1, LoadIs
<1>5. ListOf(list) /\ (fine => Complete(files', version, list))
  BY <1>1, <1>2, <1>3, LoadedIs
<1>6. ASSUME ~damaged PROVE Loadable(files', orderFile) /\ Lists(files', orderFile, list)
  <2>1. m.ok
    BY <1>3, <1>6, LoadableLoads
  <2> QED BY <1>1, <1>3, <1>6, <2>1, LoadLists
<1>7. ApplyAndSave(list, fine)
  BY <1>1, <1>2
<1> HIDE DEF m
<1>8. Leaves(list, fine)
  BY <1>4, <1>7, AppliesAndSaves DEF IInv, RestTyped
<1> QED BY <1>5, <1>6, <1>8, Saves

\* Some n of the patches of a list, in any order.
PartOf(m, n, l, k) ==
  /\ n \in Nat /\ k \in [1..n -> DOMAIN l]
  /\ \A h, j \in 1..n : k[h] = k[j] => h = j
  /\ m = [h \in 1..n |-> l[k[h]]]

\* Such a part is a list.
LEMMA PartIsList ==
  ASSUME NEW l, ListOf(l), NEW m, NEW n, NEW k, PartOf(m, n, l, k)
  PROVE  ListOf(m) /\ Len(m) = n
<1>0. /\ n \in Nat /\ k \in [1..n -> DOMAIN l]
      /\ \A h, j \in 1..n : k[h] = k[j] => h = j
      /\ m = [h \in 1..n |-> l[k[h]]]
  BY DEF PartOf
<1>1. l \in Seq(Patch) /\ DOMAIN l = 1..Len(l) /\ Len(l) \in Nat
  BY DEF ListOf
<1>2. \A i, j \in DOMAIN l : l[i].id = l[j].id => i = j
  BY DEF ListOf, OnceEach, IdsOf
<1>3. \A h \in 1..n : k[h] \in DOMAIN l /\ l[k[h]] \in Patch
  BY <1>0, <1>1
<1>4. m \in Seq(Patch) /\ Len(m) = n /\ DOMAIN m = 1..n /\ \A h \in 1..n : m[h] = l[k[h]]
  BY <1>0, <1>3
<1>5. OnceEach(IdsOf(m))
  BY <1>0, <1>2, <1>3, <1>4 DEF OnceEach, IdsOf
<1>6. \A h \in DOMAIN m : m[h].id \in User => m[h].custom
  BY <1>3, <1>4 DEF ListOf
<1> QED BY <1>4, <1>5, <1>6 DEF ListOf

\* RemoveAt of the community modules, element by element.
LEMMA RemoveAtIs ==
  ASSUME NEW X, NEW s \in Seq(X), NEW i \in 1..Len(s)
  PROVE  RemoveAt(s, i) = [h \in 1..(Len(s) - 1) |-> s[IF h < i THEN h ELSE h + 1]]
<1> DEFINE n == Len(s)
           p == SubSeq(s, 1, i - 1)
           q == SubSeq(s, i + 1, n)
           t == p \o q
<1>1. n \in Nat /\ i \in Nat /\ 1 <= i /\ i <= n
  OBVIOUS
<1>2. p \in Seq(X) /\ Len(p) = i - 1 /\ \A h \in 1..(i - 1) : p[h] = s[h]
  <2>1. \A h \in 1..(i - 1) : s[h] \in X
    OBVIOUS
  <2>2. /\ p \in Seq(X) /\ Len(p) = (IF 1 <= i - 1 THEN (i - 1) - 1 + 1 ELSE 0)
        /\ \A h \in 1..((i - 1) - 1 + 1) : p[h] = s[1 + h - 1]
    BY <2>1, SubSeqProperties
  <2> HIDE DEF p
  <2>3. (i - 1) - 1 + 1 = i - 1 /\ \A h \in 1..(i - 1) : 1 + h - 1 = h
    BY <1>1
  <2> QED BY <1>1, <2>2, <2>3
<1>3. q \in Seq(X) /\ Len(q) = n - i /\ \A h \in 1..(n - i) : q[h] = s[h + i]
  <2>1. \A h \in (i + 1)..n : s[h] \in X
    OBVIOUS
  <2>2. /\ q \in Seq(X) /\ Len(q) = (IF i + 1 <= n THEN n - (i + 1) + 1 ELSE 0)
        /\ \A h \in 1..(n - (i + 1) + 1) : q[h] = s[(i + 1) + h - 1]
    BY <1>1, <2>1, SubSeqProperties
  <2> HIDE DEF q, n
  <2>3. n - (i + 1) + 1 = n - i /\ \A h \in 1..(n - i) : (i + 1) + h - 1 = h + i
    BY <1>1
  <2> QED BY <1>1, <2>2, <2>3
<1>4. RemoveAt(s, i) = t
  BY DEF RemoveAt
<1>5. /\ t \in Seq(X) /\ Len(t) = Len(p) + Len(q)
      /\ \A h \in 1..(Len(p) + Len(q)) : t[h] = IF h <= Len(p) THEN p[h] ELSE q[h - Len(p)]
  <2> HIDE DEF p, q
  <2> QED BY <1>2, <1>3, ConcatProperties
<1> HIDE DEF p, q, t, n
<1>6. /\ Len(t) = n - 1
      /\ \A h \in 1..(n - 1) : t[h] = IF h <= i - 1 THEN p[h] ELSE q[h - (i - 1)]
  <2>1. Len(p) + Len(q) = n - 1
    BY <1>1, <1>2, <1>3
  <2> QED BY <1>2, <1>5, <2>1
<1>7. ASSUME NEW h \in 1..(n - 1)
      PROVE  t[h] = s[IF h < i THEN h ELSE h + 1]
  <2>1. CASE h < i
    <3>1. h \in 1..(i - 1) /\ h <= i - 1
      BY <1>1, <2>1
    <3> QED BY <1>2, <1>6, <2>1, <3>1
  <2>2. CASE ~(h < i)
    <3>1. h - (i - 1) \in 1..(n - i) /\ ~(h <= i - 1) /\ (h - (i - 1)) + i = h + 1
      BY <1>1, <2>2
    <3> QED BY <1>3, <1>6, <2>2, <3>1
  <2> QED BY <2>1, <2>2
<1>8. t = [h \in 1..(n - 1) |-> t[h]]
  BY <1>5, <1>6
<1> QED BY <1>4, <1>7, <1>8 DEF n

-----------------------------------------------------------------------------
(* The operations *)

\* A user's patch taken out of the list, and its file with it.
LEMMA TakenOut ==
  ASSUME NEW g \in [Ids -> PatchFile], NEW v \in Versions, NEW l, ListOf(l),
         NEW i \in DOMAIN l, l[i].id \in User,
         NEW m, m = RemoveAt(l, i), NEW d, d = Removed(g, l[i].id), NEW o
  PROVE  /\ ListOf(m)
         /\ Complete(g, v, l) => Complete(d, v, m)
         /\ Lists(g, o, l) => Lists(d, o, m)
<1> DEFINE n == Len(l)
           k == [h \in 1..(n - 1) |-> IF h < i THEN h ELSE h + 1]
           x == l[i].id
<1>1. l \in Seq(Patch) /\ DOMAIN l = 1..n /\ n \in Nat /\ i \in 1..n /\ n - 1 \in Nat
  BY DEF ListOf
<1>2. m = [h \in 1..(n - 1) |-> l[k[h]]]
  BY <1>1, RemoveAtIs
<1>3. /\ k \in [1..(n - 1) -> DOMAIN l]
      /\ \A h, j \in 1..(n - 1) : k[h] = k[j] => h = j
      /\ \A h \in 1..(n - 1) : k[h] # i
      /\ \A j \in 1..n : j # i => \E h \in 1..(n - 1) : k[h] = j
      /\ \A h \in 1..(n - 1) : (h < i => k[h] = h) /\ k[h] >= h
  <2>1. k \in [1..(n - 1) -> 1..n]
    BY <1>1
  <2>2. \A h, j \in 1..(n - 1) : k[h] = k[j] => h = j
    BY <1>1
  <2>3. \A h \in 1..(n - 1) : k[h] # i
    BY <1>1
  <2>4. ASSUME NEW j \in 1..n, j # i PROVE \E h \in 1..(n - 1) : k[h] = j
    <3>1. CASE j < i
      <4>1. j \in 1..(n - 1) /\ k[j] = j
        BY <1>1, <3>1
      <4> QED BY <4>1
    <3>2. CASE j > i
      <4>1. j - 1 \in 1..(n - 1) /\ k[j - 1] = j
        BY <1>1, <3>2
      <4> QED BY <4>1
    <3> QED BY <1>1, <2>4, <3>1, <3>2
  <2>5. \A h \in 1..(n - 1) : (h < i => k[h] = h) /\ k[h] >= h
    BY <1>1
  <2> HIDE DEF k
  <2> QED BY <1>1, <2>1, <2>2, <2>3, <2>4, <2>5
<1> HIDE DEF k, n, x
<1>4. ListOf(m) /\ Len(m) = n - 1 /\ DOMAIN m = 1..(n - 1)
  <2>1. ListOf(m) /\ Len(m) = n - 1
    <3>1. PartOf(m, n - 1, l, k)
      BY <1>1, <1>2, <1>3 DEF PartOf
    <3> QED BY <3>1, PartIsList
  <2> QED BY <1>2, <2>1
<1>5. \A h \in 1..(n - 1) : k[h] \in DOMAIN l /\ k[h] # i /\ m[h] = l[k[h]]
  BY <1>2, <1>3
<1>6. \A a, b \in DOMAIN l : l[a].id = l[b].id => a = b
  BY DEF ListOf, OnceEach, IdsOf
<1>7. \A h \in 1..(n - 1) : m[h].id # x
  BY <1>5, <1>6 DEF x
<1>8. x \in User /\ x \in Ids /\ x \notin Builtins
  BY BuiltinsApart DEF x
<1>9. /\ d \in [Ids -> PatchFile] /\ d[x] = NoFile
      /\ \A id \in Ids : id # x => d[id] = g[id]
  BY <1>8, RemovedTyped, ProfileAssumption DEF x
<1>10. NoFile.state = "none"
  BY DEF NoFile
<1>11. ASSUME Complete(g, v, l) PROVE Complete(d, v, m)
  <2>1. /\ Reflects(g, v, l)
        /\ n >= 2 /\ l[1].id = "minecraft" /\ l[2].id = "lwjgl"
        /\ \A h \in 3..n : l[h].id \in User /\ g[l[h].id].state = "good"
        /\ \A id \in Ids : g[id].state # "broken"
        /\ \A id \in User : g[id].state # "none" => \E h \in DOMAIN l : l[h].id = id
    BY <1>11 DEF Complete, n
  <2>2. i >= 3
    BY <1>1, <1>8, <2>1 DEF x, Builtins
  <2>3. \A h \in 1..(n - 1) : m[h].id \in Ids
    <3>1. \A p \in Patch : p.id \in Ids
      BY DEF Patch
    <3> QED BY <1>1, <1>5, <3>1
  <2>4. Reflects(d, v, m)
    <3> SUFFICES ASSUME NEW h \in 1..(n - 1) PROVE Looks(m[h]) = LooksOf(d, m[h].id, v)
      BY <1>4 DEF Reflects
    <3>1. Looks(m[h]) = LooksOf(g, m[h].id, v)
      BY <1>5, <2>1 DEF Reflects
    <3>2. d[m[h].id] = g[m[h].id]
      BY <1>7, <1>9, <2>3
    <3> QED BY <3>1, <3>2 DEF LooksOf
  <2>5. Len(m) >= 2 /\ m[1].id = "minecraft" /\ m[2].id = "lwjgl"
    <3>1. 1 \in 1..(n - 1) /\ 2 \in 1..(n - 1) /\ k[1] = 1 /\ k[2] = 2
      BY <1>1, <1>3, <2>2
    <3> QED BY <1>4, <1>5, <2>1, <3>1
  <2>6. ASSUME NEW h \in 3..Len(m) PROVE m[h].id \in User /\ d[m[h].id].state = "good"
    <3>1. h \in 1..(n - 1) /\ k[h] \in 3..n
      <4>1. h \in 1..(n - 1) /\ k[h] >= h /\ k[h] \in 1..n
        BY <1>1, <1>3, <1>4
      <4> QED BY <1>1, <4>1
    <3>2. m[h] = l[k[h]] /\ m[h].id \in User /\ g[m[h].id].state = "good"
      BY <1>5, <2>1, <3>1
    <3> QED BY <1>7, <1>9, <2>3, <3>1, <3>2
  <2>7. \A id \in Ids : d[id].state # "broken"
    BY <1>9, <1>10, <2>1
  <2>8. ASSUME NEW id \in User, d[id].state # "none" PROVE \E h \in DOMAIN m : m[h].id = id
    <3>1. id # x /\ g[id].state # "none"
      BY <1>9, <1>10, <2>8 DEF Ids
    <3>2. PICK j \in DOMAIN l : l[j].id = id
      BY <2>1, <3>1
    <3>3. PICK h \in 1..(n - 1) : k[h] = j
      BY <1>1, <1>3, <3>1, <3>2 DEF x
    <3> QED BY <1>4, <1>5, <3>2, <3>3
  <2> QED BY <1>4, <2>4, <2>5, <2>6, <2>7, <2>8 DEF Complete
<1>12. ASSUME Lists(g, o, l) PROVE Lists(d, o, m)
  <2>1. ASSUME NEW id \in Ids, id \in Builtins \/ d[id].state # "none"
        PROVE  \E h \in DOMAIN m : m[h].id = id
    <3>1. id # x /\ (id \in Builtins \/ g[id].state # "none")
      BY <1>8, <1>9, <1>10, <2>1
    <3>2. PICK j \in DOMAIN l : l[j].id = id
      BY <1>12, <3>1 DEF Lists
    <3>3. PICK h \in 1..(n - 1) : k[h] = j
      BY <1>1, <1>3, <3>1, <3>2 DEF x
    <3> QED BY <1>4, <1>5, <3>2, <3>3
  <2>2. \A id \in RestOf(d, o) : id \in RestOf(g, o) /\ d[id] = g[id]
    <3>1. \A id \in Ids : d[id] = g[id] \/ d[id] = NoFile
      BY <1>9
    <3> QED BY <1>9, <3>1, RemovedIs
  <2>3. ASSUME NEW h \in DOMAIN m, m[h].id \in RestOf(d, o)
        PROVE  m[h].order = d[m[h].id].order
    <3>1. k[h] \in DOMAIN l /\ m[h] = l[k[h]]
      BY <1>4, <1>5
    <3>2. l[k[h]].order = g[l[k[h]].id].order
      BY <1>12, <2>2, <2>3, <3>1 DEF Lists
    <3> QED BY <2>2, <2>3, <3>1, <3>2
  <2> QED BY <2>1, <2>3 DEF Lists
<1> QED BY <1>4, <1>11, <1>12

\* remove(index) keeps the invariant, whether its files can be removed or not.
LEMMA RemovePatchStep ==
  ASSUME IInv, NEW i \in DOMAIN patches, RemovePatch(i)
  PROVE  IInv'
<1> DEFINE x == patches[i].id
<1>1. x \in User /\ x \in Ids
  BY DEF RemovePatch, Ids
<1>2. CASE /\ files' = Removed(files, x)
           /\ ApplyAndSave(RemoveAt(patches, i), sound)
           /\ UNCHANGED <<version, flagged, damaged>>
  <2>1. PICK m : m = RemoveAt(patches, i)
    OBVIOUS
  <2>2. files \in [Ids -> PatchFile] /\ ListOf(patches) /\ version \in Versions /\ sound \in BOOLEAN
    BY DEF IInv, RestTyped
  <2>3. /\ ListOf(m)
        /\ Complete(files, version, patches) => Complete(files', version, m)
        /\ Lists(files, orderFile, patches) => Lists(files', orderFile, m)
    BY <1>1, <1>2, <2>1, <2>2, TakenOut
  <2>4. files' \in [Ids -> PatchFile] /\ \A id \in Ids : files'[id] = files[id] \/ files'[id] = NoFile
    BY <1>1, <1>2, <2>2, RemovedTyped, ProfileAssumption
  <2>5. FilesNumbered(files') /\ (Loadable(files, orderFile) => Loadable(files', orderFile))
    BY <2>2, <2>4, RemovedIs DEF IInv
  <2>6. sound => Complete(files', version, m)
    BY <2>3, SoundIsComplete
  <2>7. ~damaged' => Loadable(files', orderFile) /\ Lists(files', orderFile, m)
    BY <1>2, <2>3, <2>5 DEF IInv
  <2>8. Leaves(m, sound)
    BY <1>2, <2>1, <2>2, AppliesAndSaves DEF IInv, RestTyped
  <2> QED BY <2>3, <2>4, <2>5, <2>6, <2>7, <2>8, Saves
<1>3. CASE (files' = files \/ files' = Removed(files, x)) /\ GiveUp
  BY <1>1, <1>3, GivesUp
<1> QED BY <1>2, <1>3 DEF RemovePatch

\* reloadProfile keeps the invariant.
LEMMA ReloadStep ==
  ASSUME IInv, Reload
  PROVE  IInv'
<1>1. files' = files /\ orderFile' = orderFile /\ UNCHANGED <<version, damaged, faults>>
  BY DEF Reload
<1>2. LoadsAgain(Load(files', orderFile', version'))
  BY DEF Reload, ReloadProfile, LoadsAgain
<1>3. /\ files' \in [Ids -> PatchFile] /\ FilesNumbered(files')
      /\ orderFile'.exists \in BOOLEAN /\ orderFile'.ids \in Seq(User) /\ IsInjective(orderFile'.ids)
      /\ ~damaged' => Loadable(files', orderFile')
      /\ damaged' \in BOOLEAN /\ faults' \in 0..MaxFaults
  BY <1>1 DEF IInv, RestTyped
<1> QED BY <1>1, <1>2, <1>3, Reloads

\* A load that succeeds has found no broken file, and no number twice.
LEMMA LoadsLoadable ==
  ASSUME NEW g, NEW o, NEW v, Found(g, o), Load(g, o, v).ok
  PROVE  Loadable(g, o)
<1>1. ReadsAll(g, o)
  BY LoadReads
<1> QED BY <1>1, ReadsAllIs, BuiltinsApart DEF ReadsAll, Loadable, Whole

\* resetOrder keeps the invariant, which asks less once two files have the same number.
LEMMA ResetOrderStep ==
  ASSUME IInv, ResetOrder
  PROVE  IInv'
<1>1. /\ files' = files /\ version' = version /\ flagged' = flagged
      /\ orderFile' = NoOrder \/ orderFile' = orderFile
      /\ damaged' = (damaged \/ ~Load(files, orderFile', version).ok)
  BY DEF ResetOrder
<1>2. LoadsAgain(Load(files', orderFile', version'))
  BY <1>1 DEF ResetOrder, LoadsAgain
<1>3. /\ orderFile'.exists \in BOOLEAN /\ orderFile'.ids \in Seq(User)
      /\ IsInjective(orderFile'.ids)
  <2>1. CASE orderFile' = NoOrder
    BY <2>1 DEF NoOrder, IsInjective
  <2>2. CASE orderFile' = orderFile
    BY <2>2 DEF IInv
  <2> QED BY <1>1, <2>1, <2>2
<1>4. /\ files' \in [Ids -> PatchFile] /\ FilesNumbered(files')
      /\ damaged' \in BOOLEAN
  BY <1>1 DEF IInv
<1>5. faults' \in 0..MaxFaults
  BY ProfileAssumption DEF ResetOrder, Fine, Fault, IInv, RestTyped
<1>6. ASSUME ~damaged' PROVE Loadable(files', orderFile')
  <2>1. Found(files', orderFile')
    BY <1>3, <1>4 DEF Found
  <2>2. Load(files', orderFile', version).ok
    BY <1>1, <1>6
  <2> QED BY <2>1, <2>2, LoadsLoadable
<1> QED BY <1>1, <1>2, <1>3, <1>4, <1>5, <1>6, Reloads

\* customize(index) keeps the invariant.
LEMMA CustomizeStep ==
  ASSUME IInv, NEW i \in DOMAIN patches, Customize(i)
  PROVE  IInv'
<1> DEFINE x == patches[i].id
           new == [state |-> "good", order |-> 0, for |-> patches[i].for]
<1>1. patches \in Seq(Patch) /\ (x \in User => patches[i].custom) /\ files \in [Ids -> PatchFile]
  BY DEF IInv, ListOf
<1>2. patches[i] \in Patch
  BY <1>1
<1>3. x \in Ids /\ patches[i].for \in Versions \cup {0}
  BY <1>2 DEF Patch
<1>4. x \notin User
  BY <1>1 DEF Customize
<1>5. CASE files' = files /\ GiveUp
  BY <1>3, <1>5, GivesUp
<1>6. CASE /\ files' = [files EXCEPT ![x] = new]
           /\ LET l == Load(files', orderFile, version) IN ApplyAndSave(l.list, l.ok)
           /\ UNCHANGED <<version, flagged, damaged>>
  <2>1. new \in PatchFile /\ new.state = "good"
    BY <1>3, ProfileAssumption DEF PatchFile, Orders
  <2> HIDE DEF new, x
  <2>2. /\ files' \in [Ids -> PatchFile] /\ files'[x] = new
        /\ \A id \in Ids : id # x => files'[id] = files[id]
    BY <1>1, <1>3, <1>6, <2>1
  <2>3. \A id \in User : files'[id] = files[id]
    BY <1>4, <2>2 DEF Ids
  <2>4. FilesNumbered(files')
    BY <2>3 DEF IInv, FilesNumbered
  <2>5. ~damaged => Loadable(files', orderFile)
    <3>1. RestOf(files', orderFile) = RestOf(files, orderFile)
      BY <2>3 DEF RestOf
    <3>2. Whole(files) => Whole(files')
      BY <2>1, <2>2 DEF Whole
    <3>3. \A a \in RestOf(files, orderFile) : files'[a] = files[a]
      BY <2>3 DEF RestOf
    <3> QED BY <3>1, <3>2, <3>3 DEF IInv, Loadable
  <2>6. ApplyAndSave(Load(files', orderFile, version).list, Load(files', orderFile, version).ok)
    BY <1>6
  <2> QED BY <1>6, <2>2, <2>4, <2>5, <2>6, LoadsAndSaves
<1> QED BY <1>5, <1>6 DEF Customize

\* revert(index) keeps the invariant, also when the file stays.
LEMMA RevertStep ==
  ASSUME IInv, NEW i \in DOMAIN patches, Revert(i)
  PROVE  IInv'
<1> DEFINE x == patches[i].id
<1>1. /\ x \in Ids /\ UNCHANGED <<version, flagged, damaged>>
      /\ ListOf(patches) /\ files \in [Ids -> PatchFile] /\ sound \in BOOLEAN
  BY DEF Revert, Ids, IInv, RestTyped
<1>2. CASE /\ files' = Removed(files, x)
           /\ LET l == Load(files', orderFile, version) IN ApplyAndSave(l.list, l.ok)
  <2>1. files' \in [Ids -> PatchFile] /\ \A id \in Ids : files'[id] = files[id] \/ files'[id] = NoFile
    BY <1>1, <1>2, RemovedTyped, ProfileAssumption
  <2>2. FilesNumbered(files') /\ (Loadable(files, orderFile) => Loadable(files', orderFile))
    BY <1>1, <2>1, RemovedIs DEF IInv
  <2>3. ~damaged => Loadable(files', orderFile)
    BY <2>2 DEF IInv
  <2>4. ApplyAndSave(Load(files', orderFile, version).list, Load(files', orderFile, version).ok)
    BY <1>2
  <2> QED BY <1>1, <2>1, <2>2, <2>3, <2>4, LoadsAndSaves
<1>3. CASE UNCHANGED files /\ ApplyAndSave(patches, sound)
  <2>1. files' = files
    BY <1>3
  <2>2. sound => Complete(files', version, patches)
    BY <2>1, SoundIsComplete
  <2>3. /\ FilesNumbered(files')
        /\ ~damaged' => Loadable(files', orderFile) /\ Lists(files', orderFile, patches)
    BY <1>1, <2>1 DEF IInv
  <2>4. PICK list : list = patches
    OBVIOUS
  <2>5. /\ ApplyAndSave(list, sound) /\ ListOf(list) /\ (sound => Complete(files', version, list))
        /\ ~damaged' => Loadable(files', orderFile) /\ Lists(files', orderFile, list)
    BY <1>1, <1>3, <2>2, <2>3, <2>4
  <2>6. Leaves(list, sound)
    BY <1>1, <2>5, AppliesAndSaves DEF IInv, RestTyped
  <2> QED BY <1>1, <2>1, <2>3, <2>5, <2>6, Saves
<1>4. CASE /\ Fault
           /\ patches' = Load(files, orderFile, version).list
           /\ sound' = FALSE
           /\ UNCHANGED <<files, orderFile, resolved>>
  <2>1. Found(files, orderFile) /\ version \in Versions
    BY DEF IInv, RestTyped, Found
  <2>2. ListOf(patches')
    BY <1>4, <2>1, LoadedIs
  <2>3. RestTyped'
    <3>1. faults' \in 0..MaxFaults
      BY <1>4, ProfileAssumption DEF IInv, RestTyped, Fault
    <3> QED BY <1>1, <1>4, <3>1 DEF IInv, RestTyped
  <2>4. ListIsOnDisk'
    BY <1>4 DEF ListIsOnDisk
  <2>5. ASSUME ~damaged PROVE Lists(files, orderFile, patches')
    <3>1. Load(files, orderFile, version).ok
      BY <2>1, <2>5, LoadableLoads DEF IInv
    <3> QED BY <1>4, <2>1, <3>1, LoadLists
  <2> QED BY <1>1, <1>4, <2>2, <2>3, <2>4, <2>5 DEF IInv
<1> QED BY <1>2, <1>3, <1>4 DEF Revert

\* So does an edit by hand: the invariant asks less from then on.
LEMMA EditByHandStep ==
  ASSUME IInv, NEW id \in Ids, EditByHand(id)
  PROVE  IInv'
<1> DEFINE s == IF files[id].state = "good" THEN "broken" ELSE "good"
<1>1. /\ files' = [files EXCEPT ![id].state = s] /\ files[id].state # "none"
      /\ damaged' = TRUE /\ sound' = FALSE
      /\ UNCHANGED <<orderFile, version, patches, resolved, flagged>>
  BY DEF EditByHand, Exists
<1>2. files \in [Ids -> PatchFile] /\ files[id] \in PatchFile /\ s \in {"good", "broken"}
  BY DEF IInv
<1> HIDE DEF s
<1>3. [files[id] EXCEPT !.state = s] \in PatchFile
      /\ [files[id] EXCEPT !.state = s].order = files[id].order
  BY <1>2 DEF PatchFile
<1>4. /\ files' \in [Ids -> PatchFile]
      /\ files'[id] = [files[id] EXCEPT !.state = s]
      /\ \A x \in Ids : x # id => files'[x] = files[x]
  BY <1>1, <1>2, <1>3
<1>5. \A x \in Ids : files'[x].order = files[x].order
                     /\ (files'[x].state # "none" => files[x].state # "none")
  BY <1>1, <1>3, <1>4
<1>6. FilesNumbered(files')
  BY <1>5 DEF IInv, FilesNumbered, Ids
<1>7. faults' \in 0..MaxFaults
  BY ProfileAssumption DEF EditByHand, Fault, Fine, IInv, RestTyped
<1>8. RestTyped'
  BY <1>1, <1>7 DEF IInv, RestTyped
<1>9. ListIsOnDisk'
  BY <1>1 DEF ListIsOnDisk
<1> QED BY <1>1, <1>4, <1>6, <1>8, <1>9 DEF IInv

\* Two of the user's patches exchanged.
Exchange(m, l, i, j) ==
  /\ {i, j} \subseteq DOMAIN l /\ i # j /\ l[i].id \in User /\ l[j].id \in User
  /\ m = [l EXCEPT ![i] = l[j], ![j] = l[i]]

\* The list with two of its patches exchanged is as good.
LEMMA Exchanged ==
  ASSUME NEW g \in [Ids -> PatchFile], NEW v \in Versions, NEW l, ListOf(l),
         NEW i, NEW j, NEW m, Exchange(m, l, i, j), NEW o
  PROVE  /\ ListOf(m)
         /\ Complete(g, v, l) => Complete(g, v, m)
         /\ Lists(g, o, l) => Lists(g, o, m)
<1> DEFINE n == Len(l)
           k == [h \in 1..n |-> IF h = i THEN j ELSE IF h = j THEN i ELSE h]
<1>0. /\ i \in DOMAIN l /\ j \in DOMAIN l /\ i # j /\ l[i].id \in User /\ l[j].id \in User
      /\ m = [l EXCEPT ![i] = l[j], ![j] = l[i]]
  BY DEF Exchange
<1>1. l \in Seq(Patch) /\ DOMAIN l = 1..n /\ n \in Nat /\ i \in 1..n /\ j \in 1..n /\ i # j
  BY <1>0 DEF ListOf
<1>2. /\ k \in [1..n -> DOMAIN l]
      /\ \A h, c \in 1..n : k[h] = k[c] => h = c
      /\ \A c \in 1..n : k[c] \in 1..n /\ k[k[c]] = c
  <2>1. k \in [1..n -> 1..n]
    BY <1>1
  <2>2. \A h \in 1..n : k[h] = IF h = i THEN j ELSE IF h = j THEN i ELSE h
    OBVIOUS
  <2> HIDE DEF k, n
  <2>3. \A h \in 1..n : k[h] \in 1..n
    BY <2>1
  <2>4. \A c \in 1..n : k[k[c]] = c
    <3> TAKE c \in 1..n
    <3>1. CASE c = i
      BY <1>1, <2>2, <3>1
    <3>2. CASE c = j
      BY <1>1, <2>2, <3>2
    <3>3. CASE c # i /\ c # j
      BY <1>1, <2>2, <3>3
    <3> QED BY <3>1, <3>2, <3>3
  <2> QED BY <1>1, <2>1, <2>3, <2>4
<1>3. m = [h \in 1..n |-> l[k[h]]]
  <2>1. m = [h \in 1..n |-> IF h = j THEN l[i] ELSE IF h = i THEN l[j] ELSE l[h]]
    BY <1>0, <1>1
  <2>2. \A h \in 1..n : l[k[h]] = IF h = j THEN l[i] ELSE IF h = i THEN l[j] ELSE l[h]
    BY <1>1
  <2> QED BY <2>1, <2>2
<1>4. ListOf(m) /\ Len(m) = n /\ DOMAIN m = 1..n /\ \A h \in 1..n : m[h] = l[k[h]]
  <2> HIDE DEF k, n
  <2>1. PartOf(m, n, l, k)
    BY <1>1, <1>2, <1>3 DEF PartOf
  <2>2. ListOf(m) /\ Len(m) = n
    BY <2>1, PartIsList
  <2> QED BY <1>3, <2>2
<1>5. \A h \in 1..n : h # i /\ h # j => k[h] = h
  OBVIOUS
<1>6. k[i] = j /\ k[j] = i
  BY <1>1
<1> HIDE DEF k, n
<1>7. ASSUME Complete(g, v, l) PROVE Complete(g, v, m)
  <2>1. /\ Reflects(g, v, l)
        /\ n >= 2 /\ l[1].id = "minecraft" /\ l[2].id = "lwjgl"
        /\ \A h \in 3..n : l[h].id \in User /\ g[l[h].id].state = "good"
        /\ \A id \in Ids : g[id].state # "broken"
        /\ \A id \in User : g[id].state # "none" => \E h \in DOMAIN l : l[h].id = id
    BY <1>7 DEF Complete, n
  <2>2. i \in 3..n /\ j \in 3..n
    BY <1>0, <1>1, <2>1, BuiltinsApart DEF Builtins
  <2>3. \A h \in 3..n : k[h] \in 3..n
    BY <1>1, <1>5, <1>6, <2>2
  <2>4. Reflects(g, v, m)
    BY <1>1, <1>2, <1>4, <2>1 DEF Reflects
  <2>5. m[1].id = "minecraft" /\ m[2].id = "lwjgl"
    <3>1. 1 \in 1..n /\ 2 \in 1..n /\ k[1] = 1 /\ k[2] = 2
      BY <1>1, <1>5, <2>1, <2>2
    <3> QED BY <1>4, <2>1, <3>1
  <2>6. ASSUME NEW h \in 3..n PROVE m[h].id \in User /\ g[m[h].id].state = "good"
    <3>1. h \in 1..n /\ k[h] \in 3..n
      BY <1>1, <2>3
    <3> QED BY <1>4, <2>1, <3>1
  <2>7. ASSUME NEW id \in User, g[id].state # "none" PROVE \E h \in DOMAIN m : m[h].id = id
    <3>1. PICK c \in DOMAIN l : l[c].id = id
      BY <2>1, <2>7
    <3>2. k[c] \in 1..n /\ m[k[c]] = l[c]
      BY <1>1, <1>2, <1>4
    <3> QED BY <1>4, <3>1, <3>2
  <2> QED BY <1>4, <2>1, <2>4, <2>5, <2>6, <2>7 DEF Complete
<1>8. ASSUME Lists(g, o, l) PROVE Lists(g, o, m)
  <2>1. ASSUME NEW id \in Ids, id \in Builtins \/ g[id].state # "none"
        PROVE  \E h \in DOMAIN m : m[h].id = id
    <3>1. PICK c \in DOMAIN l : l[c].id = id
      BY <1>8, <2>1 DEF Lists
    <3>2. k[c] \in 1..n /\ m[k[c]] = l[c]
      BY <1>1, <1>2, <1>4
    <3> QED BY <1>4, <3>1, <3>2
  <2>2. ASSUME NEW h \in DOMAIN m, m[h].id \in RestOf(g, o)
        PROVE  m[h].order = g[m[h].id].order
    <3>1. k[h] \in DOMAIN l /\ m[h] = l[k[h]]
      BY <1>1, <1>2, <1>4
    <3> QED BY <1>8, <2>2, <3>1 DEF Lists
  <2> QED BY <2>1, <2>2 DEF Lists
<1> QED BY <1>4, <1>7, <1>8

\* move(index, direction) keeps the invariant.
LEMMA MoveStep ==
  ASSUME IInv, NEW i \in DOMAIN patches, NEW up \in BOOLEAN, Move(i, up)
  PROVE  IInv'
<1> DEFINE n == Len(patches)
           t == IF up THEN (IF i = 1 THEN n ELSE i - 1) ELSE (IF i = n THEN n ELSE i + 1)
           l == [patches EXCEPT ![i] = patches[t], ![t] = patches[i]]
<1>1. /\ i # t /\ patches[i].id \in User /\ patches[t].id \in User
      /\ ApplyAndSave(l, sound)
      /\ UNCHANGED <<files, version, flagged, damaged>>
  BY DEF Move
<1>2. /\ ListOf(patches) /\ files \in [Ids -> PatchFile] /\ version \in Versions
      /\ sound \in BOOLEAN /\ DOMAIN patches = 1..n /\ n \in Nat
  BY DEF IInv, RestTyped, ListOf
<1>3. t \in DOMAIN patches
  BY <1>2
<1>4. PICK m : m = l
  OBVIOUS
<1> HIDE DEF t
<1>5. /\ ListOf(m)
      /\ Complete(files, version, patches) => Complete(files, version, m)
      /\ Lists(files, orderFile, patches) => Lists(files, orderFile, m)
  <2>1. Exchange(m, patches, i, t)
    BY <1>1, <1>3, <1>4 DEF Exchange
  <2> QED BY <1>2, <2>1, Exchanged
<1>6. sound => Complete(files', version, m)
  BY <1>1, <1>5, SoundIsComplete
<1>7. /\ files' \in [Ids -> PatchFile] /\ FilesNumbered(files')
      /\ ~damaged' => Loadable(files', orderFile) /\ Lists(files', orderFile, m)
  BY <1>1, <1>5 DEF IInv
<1>8. ApplyAndSave(m, sound)
  BY <1>1, <1>4
<1>9. Leaves(m, sound)
  BY <1>1, <1>2, <1>8, AppliesAndSaves DEF IInv, RestTyped
<1> HIDE DEF l
<1> QED BY <1>5, <1>6, <1>7, <1>9, Saves

\* The next number is above those of the list, and above 100.
LEMMA FreeOrderIs ==
  ASSUME NEW l, ListOf(l)
  PROVE  /\ FreeOrder(l) \in Nat /\ FreeOrder(l) > 100
         /\ \A i \in DOMAIN l : l[i].order < FreeOrder(l)
<1> DEFINE S == {100} \cup {l[i].order : i \in DOMAIN l}
           B == MaxOrder + 100
           T == {B - x : x \in S}
<1>1. \A i \in DOMAIN l : l[i].order \in 0..MaxOrder
  <2>1. \A p \in Patch : p.order \in 0..MaxOrder
    BY DEF Patch, Orders
  <2>2. \A i \in DOMAIN l : l[i] \in Patch
    BY DEF ListOf
  <2> QED BY <2>1, <2>2
<1>2. MaxOrder \in Nat
  BY ProfileAssumption
<1>3. \A x \in S : x \in Nat /\ B - x \in Nat
  BY <1>1, <1>2
<1>4. 100 \in S /\ \A i \in DOMAIN l : l[i].order \in S
  OBVIOUS
<1> HIDE DEF S, B
<1>5. T \in SUBSET Nat /\ T # {}
  BY <1>3, <1>4
<1>6. PICK j \in T : \A h \in T : j <= h
  BY <1>5, HasLeast
<1>7. PICK x \in S : j = B - x
  OBVIOUS
<1>8. \A y \in S : x >= y
  <2> TAKE y \in S
  <2>1. B - x <= B - y
    BY <1>6, <1>7
  <2> QED BY <1>2, <1>3, <2>1 DEF B
<1>9. Max(S) \in S /\ \A y \in S : Max(S) >= y
  BY <1>8 DEF Max
<1>10. FreeOrder(l) = 1 + Max(S)
  BY DEF FreeOrder, S
<1>11. ASSUME NEW y \in S PROVE y < FreeOrder(l)
  BY <1>3, <1>9, <1>10
<1>12. FreeOrder(l) \in Nat
  BY <1>3, <1>9, <1>10
<1> QED BY <1>4, <1>11, <1>12

\* The list m and the files d once the first of some jars are added to the list l and
\* the files g, with numbers from b, and those of `torn' written in part.
AddsJars(m, d, l, g, jars, done, torn, b) ==
  /\ jars \in Seq(JarMods) /\ OnceEach(jars) /\ done \in 0..Len(jars)
  /\ \A k \in 1..done : g[jars[k]].state = "none" /\ \A i \in DOMAIN l : l[i].id # jars[k]
  /\ b \in Nat /\ b > 100 /\ \A i \in DOMAIN l : l[i].order < b
  /\ \A k \in 1..done : b + k - 1 \in Orders
  /\ m = l \o [k \in 1..done |-> [id |-> jars[k], custom |-> TRUE, order |-> b + k - 1, for |-> 0]]
  /\ d = [id \in Ids |->
            IF \E k \in 1..done : jars[k] = id
              THEN Written((CHOOSE k \in 1..done : jars[k] = id) \notin torn,
                           b + (CHOOSE k \in 1..done : jars[k] = id) - 1, 0)
              ELSE g[id]]

\* The list with the jars, and the files with theirs, are as good, if these are whole.
LEMMA JarsAdded ==
  ASSUME NEW g \in [Ids -> PatchFile], NEW v \in Versions, NEW l, ListOf(l),
         NEW m, NEW d, NEW jars, NEW done, NEW torn, NEW b, NEW o,
         AddsJars(m, d, l, g, jars, done, torn, b)
  PROVE  /\ ListOf(m) /\ d \in [Ids -> PatchFile]
         /\ FilesNumbered(g) => FilesNumbered(d)
         /\ torn = {} /\ Complete(g, v, l) => Complete(d, v, m)
         /\ torn = {} /\ Loadable(g, o) /\ Lists(g, o, l) => Loadable(d, o) /\ Lists(d, o, m)
<1> DEFINE n == Len(l)
           P(k) == [id |-> jars[k], custom |-> TRUE, order |-> b + k - 1, for |-> 0]
           F(k) == Written(k \notin torn, b + k - 1, 0)
           new == [k \in 1..done |-> P(k)]
           J == {jars[k] : k \in 1..done}
<1>1. /\ jars \in Seq(JarMods) /\ OnceEach(jars) /\ done \in 0..Len(jars)
      /\ \A k \in 1..done : g[jars[k]].state = "none" /\ \A i \in DOMAIN l : l[i].id # jars[k]
      /\ b \in Nat /\ b > 100 /\ \A i \in DOMAIN l : l[i].order < b
      /\ \A k \in 1..done : b + k - 1 \in Orders
      /\ m = l \o new
  BY DEF AddsJars
<1>2. done \in Nat /\ \A k \in 1..done : k \in DOMAIN jars /\ jars[k] \in JarMods
  BY <1>1
<1>3. \A k \in 1..done : /\ jars[k] \in User /\ jars[k] \in Ids /\ jars[k] \notin Loaders
                         /\ jars[k] # "minecraft" /\ jars[k] # "lwjgl"
  <2>1. \A j \in JarMods : /\ j \in User /\ j \in Ids /\ j \notin Loaders
                           /\ j # "minecraft" /\ j # "lwjgl"
    BY ProfileAssumption DEF User, Ids
  <2> QED BY <1>2, <2>1
<1>4. \A k, j \in 1..done : jars[k] = jars[j] => k = j
  BY <1>1, <1>2 DEF OnceEach
<1>5. \A k \in 1..done : P(k) \in Patch /\ F(k) \in PatchFile
  BY <1>1, <1>3 DEF Patch, PatchFile, Written
<1>6. l \in Seq(Patch) /\ DOMAIN l = 1..n /\ n \in Nat
  BY DEF ListOf
<1>7. /\ \A k \in 1..done : d[jars[k]] = F(k)
      /\ \A id \in Ids : id \notin J => d[id] = g[id]
      /\ d = [id \in Ids |-> d[id]]
  <2> DEFINE c(id) == CHOOSE k \in 1..done : jars[k] = id
  <2>1. d = [id \in Ids |-> IF \E k \in 1..done : jars[k] = id THEN F(c(id)) ELSE g[id]]
    BY DEF AddsJars
  <2>2. ASSUME NEW k \in 1..done PROVE d[jars[k]] = F(k)
    <3>1. c(jars[k]) \in 1..done /\ jars[c(jars[k])] = jars[k]
      OBVIOUS
    <3>2. c(jars[k]) = k
      BY <1>4, <3>1
    <3>3. \E h \in 1..done : jars[h] = jars[k]
      OBVIOUS
    <3>4. d[jars[k]] = F(c(jars[k]))
      BY <1>3, <2>1, <3>3
    <3> QED BY <3>2, <3>4
  <2>3. \A id \in Ids : id \notin J => d[id] = g[id]
    BY <2>1
  <2> QED BY <2>1, <2>2, <2>3
<1>8. /\ new \in Seq(Patch) /\ Len(new) = done /\ \A k \in 1..done : new[k] = P(k)
  <2>1. \A k \in 1..done : P(k) \in Patch
    BY <1>5
  <2> HIDE DEF P
  <2>2. new \in [1..done -> Patch]
    BY <2>1
  <2> QED BY <1>2, <2>2
<1>9. \A k \in 1..done : /\ P(k).id = jars[k] /\ P(k).custom /\ P(k).order = b + k - 1
                         /\ P(k).for = 0 /\ F(k).order = b + k - 1 /\ F(k).for = 0
                         /\ torn = {} => F(k).state = "good"
  BY DEF Written
<1> HIDE DEF new, n, P, F
<1>10. /\ m \in Seq(Patch) /\ Len(m) = n + done /\ DOMAIN m = 1..(n + done)
       /\ \A h \in 1..n : m[h] = l[h]
       /\ \A k \in 1..done : m[n + k] = P(k)
  <2>1. m = l \o new /\ n = Len(l) /\ Len(new) = done /\ new \in Seq(Patch)
    BY <1>1, <1>8 DEF n
  <2>2. /\ m \in Seq(Patch) /\ Len(m) = n + done
        /\ \A i \in 1..(n + done) : m[i] = IF i <= n THEN l[i] ELSE new[i - n]
    BY <1>6, <2>1, ConcatProperties
  <2>3. \A h \in 1..n : h \in 1..(n + done) /\ h <= n
    BY <1>2, <1>6, <2>2
  <2>4. \A k \in 1..done : n + k \in 1..(n + done) /\ ~(n + k <= n) /\ (n + k) - n = k
    BY <1>2, <1>6, <2>2
  <2>5. DOMAIN m = 1..(n + done)
    BY <2>2
  <2>6. ASSUME NEW h \in 1..n PROVE m[h] = l[h]
    BY <2>2, <2>3
  <2>7. ASSUME NEW k \in 1..done PROVE m[n + k] = P(k)
    <3>1. m[n + k] = new[(n + k) - n]
      BY <2>2, <2>4
    <3> QED BY <1>8, <2>4, <3>1
  <2> QED BY <2>2, <2>5, <2>6, <2>7
<1>11. ASSUME NEW h \in 1..(n + done)
       PROVE  h \in 1..n \/ \E k \in 1..done : h = n + k
  <2>1. CASE h > n
    <3>1. h - n \in 1..done /\ h = n + (h - n)
      BY <1>2, <1>6, <2>1
    <3> QED BY <3>1
  <2> QED BY <1>6, <2>1
<1>12. \A h \in 1..n : m[h].id = l[h].id /\ m[h].id \notin J /\ m[h].id \in Ids
  <2>1. \A p \in Patch : p.id \in Ids
    BY DEF Patch
  <2>2. \A h \in 1..n : l[h].id \notin J
    BY <1>1, <1>6
  <2> QED BY <1>6, <1>10, <2>1, <2>2
<1>13. \A k \in 1..done : jars[k] \in J /\ m[n + k].id = jars[k]
  BY <1>9, <1>10
<1>14. \A id \in J : \E k \in 1..done : id = jars[k]
  OBVIOUS
<1>15. \A i, j \in DOMAIN l : l[i].id = l[j].id => i = j
  BY DEF ListOf, OnceEach, IdsOf
<1> HIDE DEF J
<1>16. ListOf(m)
  <2>1. ASSUME NEW i \in DOMAIN m, NEW j \in DOMAIN m, m[i].id = m[j].id PROVE i = j
    <3>1. CASE i \in 1..n /\ j \in 1..n
      BY <1>6, <1>12, <1>15, <2>1, <3>1
    <3>2. CASE i \in 1..n /\ j \notin 1..n
      BY <1>10, <1>11, <1>12, <1>13, <2>1, <3>2
    <3>3. CASE i \notin 1..n /\ j \in 1..n
      BY <1>10, <1>11, <1>12, <1>13, <2>1, <3>3
    <3>4. CASE i \notin 1..n /\ j \notin 1..n
      <4>1. PICK k \in 1..done : i = n + k
        BY <1>10, <1>11, <3>4
      <4>2. PICK h \in 1..done : j = n + h
        BY <1>10, <1>11, <3>4
      <4>3. jars[k] = jars[h]
        BY <1>13, <2>1, <4>1, <4>2
      <4> QED BY <1>4, <4>1, <4>2, <4>3
    <3> QED BY <3>1, <3>2, <3>3, <3>4
  <2>2. OnceEach(IdsOf(m))
    BY <1>10, <2>1 DEF OnceEach, IdsOf
  <2>3. ASSUME NEW i \in DOMAIN m, m[i].id \in User PROVE m[i].custom
    <3>1. CASE i \in 1..n
      BY <1>6, <1>10, <2>3, <3>1 DEF ListOf
    <3>2. CASE i \notin 1..n
      BY <1>9, <1>10, <1>11, <3>2
    <3> QED BY <3>1, <3>2
  <2> QED BY <1>10, <2>2, <2>3 DEF ListOf
<1>17. d \in [Ids -> PatchFile]
  <2>1. ASSUME NEW id \in Ids PROVE d[id] \in PatchFile
    <3>1. CASE id \in J
      BY <1>5, <1>7, <1>14, <3>1
    <3>2. CASE id \notin J
      BY <1>7, <3>2
    <3> QED BY <3>1, <3>2
  <2> QED BY <1>7, <2>1
<1>18. ASSUME NEW id \in User, d[id].state # "none"
       PROVE  \/ id \notin J /\ d[id] = g[id] /\ g[id].state # "none"
              \/ \E k \in 1..done : id = jars[k] /\ d[id] = F(k)
  BY <1>7, <1>14, <1>18 DEF Ids
<1>19. ASSUME FilesNumbered(g) PROVE FilesNumbered(d)
  <2> SUFFICES ASSUME NEW id \in User, d[id].state # "none"
               PROVE  IF id \in Loaders THEN d[id].order = LoaderOrder(id) ELSE d[id].order > 100
    BY DEF FilesNumbered
  <2>1. CASE id \notin J /\ d[id] = g[id] /\ g[id].state # "none"
    BY <1>19, <2>1 DEF FilesNumbered
  <2>2. ASSUME NEW k \in 1..done, id = jars[k], d[id] = F(k)
        PROVE  id \notin Loaders /\ d[id].order > 100
    <3>1. d[id].order = b + k - 1 /\ b > 100 /\ b \in Nat /\ k >= 1 /\ k \in Nat
      BY <1>1, <1>2, <1>9, <2>2
    <3> QED BY <1>3, <2>2, <3>1
  <2> QED BY <1>18, <2>1, <2>2
<1>20. ASSUME torn = {}, Loadable(g, o), Lists(g, o, l) PROVE Loadable(d, o) /\ Lists(d, o, m)
  <2>1. ASSUME NEW id \in Ids PROVE d[id].state # "broken"
    <3>1. CASE id \in J
      BY <1>7, <1>9, <1>14, <1>20, <3>1
    <3>2. CASE id \notin J
      BY <1>7, <1>20, <3>2 DEF Loadable, Whole
    <3> QED BY <3>1, <3>2
  <2>2. ASSUME NEW id \in RestOf(g, o)
        PROVE  g[id].order < b /\ g[id].order \in Nat /\ \E i \in DOMAIN l : l[i].id = id
    <3>1. id \in User /\ id \in Ids /\ g[id].state # "none"
      BY DEF RestOf, Ids
    <3>2. PICK i \in DOMAIN l : l[i].id = id
      BY <1>20, <3>1 DEF Lists
    <3>3. l[i].order = g[id].order
      BY <1>20, <3>2 DEF Lists
    <3>4. \A p \in PatchFile : p.order \in Nat
      BY ProfileAssumption DEF PatchFile, Orders
    <3> QED BY <1>1, <3>1, <3>2, <3>3, <3>4
  <2>3. ASSUME NEW k \in 1..done PROVE F(k).order >= b /\ F(k).order = b + k - 1
    BY <1>1, <1>2, <1>9
  <2>4. ASSUME NEW x \in RestOf(d, o)
        PROVE  \/ x \notin J /\ d[x] = g[x] /\ x \in RestOf(g, o)
               \/ \E k \in 1..done : x = jars[k] /\ d[x] = F(k)
    BY <1>18 DEF RestOf
  <2>5. ASSUME NEW x \in RestOf(d, o), NEW y \in RestOf(d, o), d[x].order = d[y].order
        PROVE  x = y
    <3>1. CASE x \in RestOf(g, o) /\ d[x] = g[x] /\ y \in RestOf(g, o) /\ d[y] = g[y]
      BY <1>20, <2>5, <3>1 DEF Loadable
    <3>2. ASSUME NEW k \in 1..done, x = jars[k], d[x] = F(k),
                 NEW h \in 1..done, y = jars[h], d[y] = F(h)
          PROVE  x = y
      <4>1. b + k - 1 = b + h - 1
        BY <2>3, <2>5, <3>2
      <4> QED BY <1>1, <1>2, <3>2, <4>1
    <3>3. ASSUME NEW a \in RestOf(g, o), d[a] = g[a], NEW k \in 1..done, NEW c, d[c] = F(k)
          PROVE  d[a].order # d[c].order
      <4>1. d[c].order >= b /\ d[c].order = b + k - 1
        BY <2>3, <3>3
      <4>2. d[a].order < b /\ d[a].order \in Nat
        BY <2>2, <3>3
      <4> QED BY <1>1, <1>2, <4>1, <4>2
    <3> QED BY <2>4, <2>5, <3>1, <3>2, <3>3
  <2>6. Loadable(d, o)
    BY <2>1, <2>5 DEF Loadable, Whole
  <2>7. ASSUME NEW id \in Ids, id \in Builtins \/ d[id].state # "none"
        PROVE  \E i \in DOMAIN m : m[i].id = id
    <3>1. CASE id \notin J
      <4>1. PICK i \in DOMAIN l : l[i].id = id
        BY <1>7, <1>20, <2>7, <3>1 DEF Lists
      <4>2. i \in DOMAIN m /\ m[i] = l[i]
        BY <1>2, <1>6, <1>10
      <4> QED BY <4>1, <4>2
    <3>2. CASE id \in J
      <4>1. PICK k \in 1..done : id = jars[k]
        BY <1>14, <3>2
      <4>2. n + k \in DOMAIN m
        BY <1>2, <1>6, <1>10
      <4> QED BY <1>13, <4>1, <4>2
    <3> QED BY <3>1, <3>2
  <2>8. ASSUME NEW i \in DOMAIN m, m[i].id \in RestOf(d, o)
        PROVE  m[i].order = d[m[i].id].order
    <3>1. CASE i \in 1..n
      <4>1. i \in DOMAIN l /\ m[i] = l[i] /\ m[i].id \notin J
        BY <1>6, <1>10, <1>12, <3>1
      <4>2. m[i].id \in RestOf(g, o) /\ d[m[i].id] = g[m[i].id]
        BY <1>13, <2>4, <2>8, <4>1
      <4> QED BY <1>20, <4>1, <4>2 DEF Lists
    <3>2. ASSUME NEW k \in 1..done, i = n + k PROVE m[i].order = d[m[i].id].order
      <4>1. m[i] = P(k) /\ m[i].id = jars[k] /\ d[jars[k]] = F(k)
        BY <1>7, <1>10, <1>13, <3>2
      <4> QED BY <1>9, <4>1
    <3> QED BY <1>10, <1>11, <3>1, <3>2
  <2>9. Lists(d, o, m)
    BY <2>7, <2>8 DEF Lists
  <2> QED BY <2>6, <2>9
<1>21. ASSUME torn = {}, Complete(g, v, l) PROVE Complete(d, v, m)
  <2>1. /\ Reflects(g, v, l)
        /\ n >= 2 /\ l[1].id = "minecraft" /\ l[2].id = "lwjgl"
        /\ \A h \in 3..n : l[h].id \in User /\ g[l[h].id].state = "good"
        /\ \A id \in Ids : g[id].state # "broken"
        /\ \A id \in User : g[id].state # "none" => \E h \in DOMAIN l : l[h].id = id
    BY <1>21 DEF Complete, n
  <2>2. Reflects(d, v, m)
    <3> SUFFICES ASSUME NEW h \in 1..(n + done) PROVE Looks(m[h]) = LooksOf(d, m[h].id, v)
      BY <1>10 DEF Reflects
    <3>1. CASE h \in 1..n
      <4>1. m[h] = l[h] /\ Looks(l[h]) = LooksOf(g, l[h].id, v)
        BY <1>6, <1>10, <2>1, <3>1 DEF Reflects
      <4>2. d[l[h].id] = g[l[h].id]
        BY <1>7, <1>12, <3>1
      <4> QED BY <4>1, <4>2 DEF LooksOf
    <3>2. ASSUME NEW k \in 1..done, h = n + k PROVE Looks(m[h]) = LooksOf(d, m[h].id, v)
      <4>1. m[h] = P(k) /\ m[h].id = jars[k] /\ d[jars[k]] = F(k)
        BY <1>7, <1>10, <1>13, <3>2
      <4>2. jars[k] # "minecraft" /\ jars[k] \in User
        BY <1>3
      <4>3. Looks(m[h]) = [id |-> jars[k], custom |-> TRUE, for |-> 0]
        BY <4>1 DEF P, Looks
      <4>4. d[jars[k]].for = 0
        BY <1>9, <4>1
      <4>5. (jars[k] \in User \/ d[jars[k]].state # "none") = TRUE
        BY <4>2
      <4>6. LooksOf(d, jars[k], v) = [id |-> jars[k], custom |-> TRUE, for |-> 0]
        BY <4>2, <4>4, <4>5 DEF LooksOf
      <4> QED BY <4>1, <4>3, <4>6
    <3> QED BY <1>11, <3>1, <3>2
  <2>3. Len(m) >= 2 /\ m[1].id = "minecraft" /\ m[2].id = "lwjgl"
    <3>1. 1 \in 1..n /\ 2 \in 1..n /\ n + done >= 2
      BY <1>2, <1>6, <2>1
    <3> QED BY <1>10, <2>1, <3>1
  <2>4. ASSUME NEW h \in 3..Len(m) PROVE m[h].id \in User /\ d[m[h].id].state = "good"
    <3>1. h \in 1..(n + done)
      BY <1>2, <1>6, <1>10
    <3>2. CASE h \in 1..n
      <4>1. h \in 3..n
        BY <1>6, <3>2
      <4>2. m[h].id = l[h].id /\ d[m[h].id] = g[m[h].id]
        BY <1>7, <1>12, <3>2
      <4> QED BY <2>1, <4>1, <4>2
    <3>3. ASSUME NEW k \in 1..done, h = n + k PROVE m[h].id \in User /\ d[m[h].id].state = "good"
      BY <1>3, <1>7, <1>9, <1>13, <1>21, <3>3
    <3> QED BY <1>11, <3>1, <3>2, <3>3
  <2>5. ASSUME NEW id \in Ids PROVE d[id].state # "broken"
    <3>1. CASE id \in J
      BY <1>7, <1>9, <1>14, <1>21, <3>1
    <3>2. CASE id \notin J
      BY <1>7, <2>1, <3>2
    <3> QED BY <3>1, <3>2
  <2>6. ASSUME NEW id \in User, d[id].state # "none" PROVE \E h \in DOMAIN m : m[h].id = id
    <3>1. CASE id \notin J /\ d[id] = g[id] /\ g[id].state # "none"
      <4>1. PICK i \in DOMAIN l : l[i].id = id
        BY <2>1, <3>1
      <4>2. i \in DOMAIN m /\ m[i] = l[i]
        BY <1>2, <1>6, <1>10
      <4> QED BY <4>1, <4>2
    <3>2. ASSUME NEW k \in 1..done, id = jars[k] PROVE \E h \in DOMAIN m : m[h].id = id
      <4>1. n + k \in DOMAIN m
        BY <1>2, <1>6, <1>10
      <4> QED BY <1>13, <3>2, <4>1
    <3> QED BY <1>18, <2>6, <3>1, <3>2
  <2> QED BY <1>16, <2>1, <2>2, <2>3, <2>4, <2>5, <2>6 DEF Complete
<1> QED BY <1>16, <1>17, <1>19, <1>20, <1>21

\* The jars that are added are different jar mods.
LEMMA JarListIs ==
  ASSUME NEW jars \in JarLists
  PROVE  jars \in Seq(JarMods) /\ OnceEach(jars)
<1>1. CASE \E j \in JarMods : jars = <<j>>
  <2>1. PICK j \in JarMods : jars = <<j>>
    BY <1>1
  <2>2. DOMAIN jars = 1..1 /\ 1..1 = {1}
    BY <2>1
  <2> QED BY <2>1, <2>2 DEF OnceEach
<1>2. CASE jars \in JarMods \X JarMods /\ jars[1] # jars[2]
  <2>1. PICK a \in JarMods, c \in JarMods : jars = <<a, c>>
    BY <1>2
  <2>2. jars \in Seq(JarMods) /\ DOMAIN jars = {1, 2}
    BY <2>1
  <2> QED BY <1>2, <2>2 DEF OnceEach
<1> QED BY <1>1, <1>2 DEF JarLists

\* installJarMods keeps the invariant, also when it stops half-way; it asks less once a
\* file is written in part.
LEMMA InstallJarModsStep ==
  ASSUME IInv, NEW jars \in JarLists, NEW done \in 0..Len(jars), NEW torn,
         InstallJarMods(jars, done, torn)
  PROVE  IInv'
<1> DEFINE order(k) == FreeOrder(patches) + k - 1
           new == [k \in 1..done |-> [id |-> jars[k], custom |-> TRUE,
                                      order |-> order(k), for |-> 0]]
           m == patches \o new
<1>1. /\ files \in [Ids -> PatchFile] /\ FilesNumbered(files) /\ ListOf(patches)
      /\ version \in Versions /\ sound \in BOOLEAN /\ flagged \in BOOLEAN
      /\ damaged \in BOOLEAN /\ damaged' = (damaged \/ torn # {})
      /\ UNCHANGED <<version, flagged>>
      /\ ~damaged => Loadable(files, orderFile) /\ Lists(files, orderFile, patches)
  BY DEF IInv, RestTyped, InstallJarMods
<1>2. PICK b : b = FreeOrder(patches)
  OBVIOUS
<1>3. PICK list : list = m
  OBVIOUS
<1>4. PICK l : l = patches
  OBVIOUS
<1>5. PICK g : g = files
  OBVIOUS
<1>6. PICK d : d = files'
  OBVIOUS
<1>12. PICK o : o = orderFile
  OBVIOUS
<1>7. AddsJars(list, d, l, g, jars, done, torn, b)
  <2>1. jars \in Seq(JarMods) /\ OnceEach(jars) /\ done \in 0..Len(jars)
    BY JarListIs
  <2>2. \A k \in 1..done : g[jars[k]].state = "none" /\ \A i \in DOMAIN l : l[i].id # jars[k]
    <3>1. \A k \in DOMAIN jars : /\ files[jars[k]].state = "none"
                                 /\ jars[k] \notin Range(IdsOf(patches))
      BY DEF InstallJarMods, Exists
    <3>2. \A k \in 1..done : k \in DOMAIN jars
      BY <2>1
    <3>3. \A i \in DOMAIN l : l[i].id \in Range(IdsOf(patches))
      BY <1>4 DEF Range, IdsOf
    <3> QED BY <1>5, <3>1, <3>2, <3>3
  <2>3. b \in Nat /\ b > 100 /\ \A i \in DOMAIN l : l[i].order < b
    BY <1>1, <1>2, <1>4, FreeOrderIs
  <2>4. \A k \in 1..done : b + k - 1 \in Orders
    BY <1>2 DEF InstallJarMods
  <2>5. list = l \o [k \in 1..done |-> [id |-> jars[k], custom |-> TRUE, order |-> b + k - 1, for |-> 0]]
    BY <1>2, <1>3, <1>4
  <2>6. d = [id \in Ids |->
              IF \E k \in 1..done : jars[k] = id
                THEN Written((CHOOSE k \in 1..done : jars[k] = id) \notin torn,
                             b + (CHOOSE k \in 1..done : jars[k] = id) - 1, 0)
                ELSE g[id]]
    BY <1>2, <1>5, <1>6 DEF InstallJarMods
  <2> QED BY <2>1, <2>2, <2>3, <2>4, <2>5, <2>6 DEF AddsJars
<1>8. /\ ListOf(list) /\ files' \in [Ids -> PatchFile] /\ FilesNumbered(files')
      /\ torn = {} /\ Complete(files, version, patches) => Complete(files', version, list)
      /\ ~damaged' => Loadable(files', orderFile) /\ Lists(files', orderFile, list)
  <2>1. /\ ListOf(list) /\ d \in [Ids -> PatchFile]
        /\ FilesNumbered(g) => FilesNumbered(d)
        /\ torn = {} /\ Complete(g, version, l) => Complete(d, version, list)
        /\ torn = {} /\ Loadable(g, o) /\ Lists(g, o, l) => Loadable(d, o) /\ Lists(d, o, list)
    BY <1>1, <1>4, <1>5, <1>7, JarsAdded
  <2> QED BY <1>1, <1>4, <1>5, <1>6, <1>12, <2>1
<1>9. \/ torn = {} /\ ApplyAndSave(m, sound)
      \/ /\ patches' = m /\ resolved' = Applied(m) /\ orderFile' = OrderOf(m)
         /\ sound' = FALSE /\ Fault
      \/ /\ patches' = m /\ sound' = FALSE /\ Fault
         /\ UNCHANGED <<orderFile, resolved>>
  BY DEF InstallJarMods
<1>14. /\ version' = version /\ flagged' \in BOOLEAN /\ damaged' \in BOOLEAN
  BY <1>1
<1> HIDE DEF m
<1>13. Fault => faults' \in 0..MaxFaults
  BY ProfileAssumption DEF IInv, RestTyped, Fault
<1>10. CASE torn = {} /\ ApplyAndSave(m, sound)
  <2>1. ApplyAndSave(list, sound)
    BY <1>3, <1>10
  <2>2. sound => Complete(files', version, list)
    BY <1>8, <1>10, SoundIsComplete
  <2>3. Leaves(list, sound)
    BY <1>1, <1>14, <2>1, AppliesAndSaves
  <2> QED BY <1>8, <2>2, <2>3, Saves
<1>11. CASE /\ patches' = m /\ resolved' = Applied(m) /\ orderFile' = OrderOf(m)
            /\ sound' = FALSE /\ Fault
  <2>1. Leaves(list, FALSE)
    BY <1>3, <1>11, <1>13, <1>14 DEF Leaves
  <2> QED BY <1>8, <2>1, Saves
<1>15. CASE /\ patches' = m /\ sound' = FALSE /\ Fault
            /\ UNCHANGED <<orderFile, resolved>>
  <2>1. Leaves(list, FALSE)
    BY <1>3, <1>13, <1>14, <1>15 DEF Leaves
  <2> QED BY <1>8, <2>1, Saves
<1> QED BY <1>9, <1>10, <1>11, <1>15

\* A file of an installer keeps what is there loadable: the numbers 5 and 10 are not
\* those of jar mods, and order.json names the others or their numbers differ.
LEMMA LoaderWritten ==
  ASSUME IInv, NEW id \in Loaders, NEW whole \in BOOLEAN, WriteAndReload(id, whole),
         faults' \in 0..MaxFaults,
         orderFile'.exists \in BOOLEAN, orderFile'.ids \in Seq(User), IsInjective(orderFile'.ids),
         ~damaged => \A a, b \in RestOf(files, orderFile') \ {id} :
                       files[a].order = files[b].order => a = b
  PROVE  IInv'
<1> DEFINE new == Written(whole, LoaderOrder(id), version)
<1>1. id \in User /\ id \in Ids /\ id \in {"forge", "liteloader"}
  BY ProfileAssumption DEF User, Ids
<1>2. /\ files' = [files EXCEPT ![id] = new]
      /\ damaged' = (damaged \/ ~whole)
      /\ version' = version /\ ReloadProfile
  BY DEF WriteAndReload
<1>3. LoaderOrder("forge") = 5 /\ LoaderOrder("liteloader") = 10
  BY DEF LoaderOrder
<1>4. LoaderOrder(id) \in Orders /\ LoaderOrder(id) <= 10
  BY <1>1, <1>3, ProfileAssumption DEF Orders
<1>5. /\ new \in PatchFile /\ new.state # "none" /\ new.order = LoaderOrder(id)
      /\ whole => new.state = "good"
  BY <1>4 DEF PatchFile, IInv, RestTyped, Written
<1>6. files \in [Ids -> PatchFile] /\ FilesNumbered(files) /\ damaged \in BOOLEAN
  BY DEF IInv, RestTyped
<1> HIDE DEF new
<1>7. /\ files' \in [Ids -> PatchFile] /\ files'[id] = new
      /\ \A x \in Ids : x # id => files'[x] = files[x]
  BY <1>1, <1>2, <1>5, <1>6
<1>8. FilesNumbered(files')
  BY <1>5, <1>6, <1>7 DEF FilesNumbered, Ids
<1>9. ASSUME ~damaged' PROVE Loadable(files', orderFile')
  <2>0. ~damaged /\ whole
    BY <1>2, <1>9
  <2>1. Whole(files')
    BY <1>5, <1>7, <2>0 DEF IInv, Loadable, Whole
  <2>2. ASSUME NEW x \in RestOf(files', orderFile') \ {id}
        PROVE  files'[x] = files[x] /\ x \in RestOf(files, orderFile') \ {id}
    BY <1>7 DEF RestOf, Ids
  <2>3. ASSUME NEW x \in RestOf(files', orderFile') \ {id}
        PROVE  files'[x].order # LoaderOrder(id)
    <3>1. x \in User /\ x \in Ids /\ files[x].state # "none" /\ files'[x] = files[x]
      BY <2>2 DEF RestOf, Ids
    <3>2. CASE x \in Loaders
      <4>1. files'[x].order = LoaderOrder(x) /\ x \in {"forge", "liteloader"} /\ x # id
        BY <1>6, <3>1, <3>2, ProfileAssumption DEF FilesNumbered
      <4> QED BY <1>1, <1>3, <4>1
    <3>3. CASE x \notin Loaders
      <4>1. files[x].order > 100
        BY <1>6, <3>1, <3>3 DEF FilesNumbered
      <4>2. files[x].order \in Nat /\ LoaderOrder(id) \in Nat
        <5>1. \A p \in PatchFile : p.order \in Nat
          BY ProfileAssumption DEF PatchFile, Orders
        <5> QED BY <1>4, <1>6, <3>1, <5>1, ProfileAssumption DEF Orders
      <4> QED BY <1>4, <3>1, <4>1, <4>2
    <3> QED BY <3>2, <3>3
  <2>4. ASSUME NEW a \in RestOf(files', orderFile'), NEW b \in RestOf(files', orderFile'),
               files'[a].order = files'[b].order
        PROVE  a = b
    <3>1. CASE a # id /\ b # id
      BY <2>0, <2>2, <2>4, <3>1
    <3>2. CASE a = id \/ b = id
      BY <1>5, <1>7, <2>3, <2>4, <3>2
    <3> QED BY <3>1, <3>2
  <2> QED BY <2>1, <2>4 DEF Loadable
<1>10. LoadsAgain(Load(files', orderFile', version'))
  BY <1>2 DEF ReloadProfile, LoadsAgain
<1>11. damaged' \in BOOLEAN
  BY <1>2, <1>6
<1> QED BY <1>2, <1>7, <1>8, <1>9, <1>10, <1>11, Reloads

\* The installers keep the invariant.
LEMMA InstallLoaderStep ==
  ASSUME IInv, NEW id \in Loaders, InstallLoader(id)
  PROVE  IInv'
<1>1. id \in Ids
  BY DEF User, Ids
<1>2. CASE (files' = files \/ files' = Removed(files, id)) /\ GiveUp
  BY <1>1, <1>2, GivesUp
<1>3. ASSUME NEW whole \in BOOLEAN, orderFile' = orderFile, WriteAndReload(id, whole),
             IF whole THEN Fine ELSE Fault
      PROVE  IInv'
  <2>1. faults' \in 0..MaxFaults
    BY <1>3, ProfileAssumption DEF Fine, Fault, IInv, RestTyped
  <2>2. orderFile'.exists \in BOOLEAN /\ orderFile'.ids \in Seq(User) /\ IsInjective(orderFile'.ids)
    BY <1>3 DEF IInv
  <2>3. ~damaged => \A a, b \in RestOf(files, orderFile') \ {id} :
                      files[a].order = files[b].order => a = b
    BY <1>3 DEF IInv, Loadable
  <2> QED BY <1>3, <2>1, <2>2, <2>3, LoaderWritten
<1> QED BY <1>2, <1>3 DEF InstallLoader

\* What is left in the list when some of its patches are removed.
LEMMA SelectedList ==
  ASSUME NEW l, ListOf(l), NEW P \in SUBSET DOMAIN l
  PROVE  /\ ListOf(Select(l, P))
         /\ \A i \in P : \E h \in DOMAIN Select(l, P) : Select(l, P)[h] = l[i]
         /\ \A h \in DOMAIN Select(l, P) : \E i \in P : Select(l, P)[h] = l[i]
<1> DEFINE t == Select(l, P)
<1>1. l \in Seq(Patch) /\ DOMAIN l = 1..Len(l)
  BY DEF ListOf
<1>2. t \in Seq(Patch) /\ \E e : Picks(e, t, l, P)
  BY <1>1, Selected
<1>3. PICK e : Picks(e, t, l, P)
  BY <1>2
<1> HIDE DEF t
<1>4. PICK n : n = Len(t)
  OBVIOUS
<1>5. PICK k : k = [h \in 1..n |-> e[h]]
  OBVIOUS
<1>6. DOMAIN t = 1..n /\ n \in Nat
  BY <1>2, <1>4
<1>7. /\ \A h \in DOMAIN t : e[h] \in P /\ t[h] = l[e[h]]
      /\ \A i, j \in DOMAIN t : i < j => e[i] < e[j]
      /\ \A i \in P : \E h \in DOMAIN t : e[h] = i
  BY <1>3, <1>4, <1>6 DEF Picks
<1>8. \A h \in 1..n : k[h] = e[h] /\ k[h] \in 1..Len(l) /\ t[h] = l[k[h]]
  BY <1>1, <1>5, <1>6, <1>7
<1>9. k \in [1..n -> DOMAIN l]
  BY <1>1, <1>5, <1>8
<1>10. \A h, j \in 1..n : k[h] = k[j] => h = j
  BY <1>6, <1>7, <1>8
<1>11. t = [h \in 1..n |-> l[k[h]]]
  BY <1>2, <1>6, <1>8
<1>12. PICK m : m = t
  OBVIOUS
<1>13. PartOf(m, n, l, k)
  BY <1>6, <1>9, <1>10, <1>11, <1>12 DEF PartOf
<1>14. ListOf(t)
  BY <1>12, <1>13, PartIsList
<1>15. \A i \in P : \E h \in DOMAIN t : t[h] = l[i]
  BY <1>7
<1>16. \A h \in DOMAIN t : \E i \in P : t[h] = l[i]
  BY <1>7
<1> QED BY <1>14, <1>15, <1>16 DEF t

\* The list l without the patches of ids.
Without(m, l, ids) == m = Select(l, {i \in DOMAIN l : l[i].id \notin ids})

\* What is left of a list when the patches of ids are taken out with their files, and
\* maybe others: it has the files that are left.
LEMMA LeftIs ==
  ASSUME NEW g \in [Ids -> PatchFile], NEW d \in [Ids -> PatchFile], NEW l, ListOf(l), NEW o,
         NEW ids \in SUBSET User, NEW m, Without(m, l, ids),
         \A id \in Ids : d[id] = g[id] \/ d[id] = NoFile,
         \A id \in ids : d[id] = NoFile
  PROVE  /\ ListOf(m)
         /\ Lists(g, o, l) => Lists(d, o, m)
<1> DEFINE P == {i \in DOMAIN l : l[i].id \notin ids}
<1>1. P \in SUBSET DOMAIN l /\ m = Select(l, P)
  BY DEF Without
<1>2. \A i \in DOMAIN l : l[i].id \notin ids => i \in P
  OBVIOUS
<1> HIDE DEF P
<1>3. /\ ListOf(m)
      /\ \A i \in P : \E h \in DOMAIN m : m[h] = l[i]
      /\ \A h \in DOMAIN m : \E i \in P : m[h] = l[i]
  BY <1>1, SelectedList
<1>4. NoFile.state = "none"
  BY DEF NoFile
<1>5. ASSUME Lists(g, o, l) PROVE Lists(d, o, m)
  <2>1. ASSUME NEW id \in Ids, id \in Builtins \/ d[id].state # "none"
        PROVE  \E h \in DOMAIN m : m[h].id = id
    <3>1. id \notin ids /\ (id \in Builtins \/ g[id].state # "none")
      BY <1>4, <2>1, BuiltinsApart
    <3>2. PICK i \in DOMAIN l : l[i].id = id
      BY <1>5, <3>1 DEF Lists
    <3> QED BY <1>2, <1>3, <3>1, <3>2
  <2>2. \A id \in RestOf(d, o) : id \in RestOf(g, o) /\ d[id] = g[id]
    BY RemovedIs
  <2>3. ASSUME NEW h \in DOMAIN m, m[h].id \in RestOf(d, o)
        PROVE  m[h].order = d[m[h].id].order
    <3>1. PICK i \in DOMAIN l : m[h] = l[i]
      BY <1>1, <1>3
    <3> QED BY <1>5, <2>2, <2>3, <3>1 DEF Lists
  <2> QED BY <2>1, <2>3 DEF Lists
<1> QED BY <1>3, <1>5

\* The installation of a legacy Forge keeps the invariant, wherever it stops.
LEMMA InstallLegacyStep ==
  ASSUME IInv, InstallLegacy
  PROVE  IInv'
<1>1. /\ "forge" \in Loaders /\ "forge" \in User /\ "forge" \in Ids
      /\ files \in [Ids -> PatchFile] /\ FilesNumbered(files) /\ ListOf(patches)
      /\ version \in Versions /\ flagged \in BOOLEAN /\ damaged \in BOOLEAN
      /\ faults \in 0..MaxFaults
      /\ ~damaged => Loadable(files, orderFile) /\ Lists(files, orderFile, patches)
  BY DEF InstallLegacy, User, Ids, IInv, RestTyped
<1>2. CASE (files' = files \/ files' = Removed(files, "forge")) /\ GiveUp
  BY <1>1, <1>2, GivesUp
<1>3. PICK d : d = Removed(files, "forge")
  OBVIOUS
<1>4. /\ d \in [Ids -> PatchFile] /\ d["forge"] = NoFile
      /\ \A id \in Ids : d[id] = files[id] \/ d[id] = NoFile
  BY <1>1, <1>3, RemovedTyped, ProfileAssumption
<1>5. /\ FilesNumbered(d)
      /\ Loadable(files, orderFile) => Loadable(d, orderFile)
      /\ Lists(files, orderFile, patches) => Lists(d, orderFile, patches)
  BY <1>1, <1>4, RemovedIs
<1>6. CASE /\ files' = Removed(files, "forge") /\ sound' = FALSE
           /\ UNCHANGED <<orderFile, version, patches, resolved, flagged, damaged, faults>>
  <2>1. RestTyped'
    BY <1>1, <1>6 DEF IInv, RestTyped
  <2>2. ListIsOnDisk'
    BY <1>6 DEF ListIsOnDisk
  <2> QED BY <1>3, <1>4, <1>5, <1>6, <2>1, <2>2 DEF IInv
<1>7. PICK m : m = WithoutForge
  OBVIOUS
<1>8. PICK ids : ids = {"forge"}
  OBVIOUS
<1>9. /\ ListOf(m)
      /\ Lists(files, orderFile, patches) => Lists(d, orderFile, m)
  <2>1. Without(m, patches, ids)
    <3>1. {i \in DOMAIN patches : patches[i].id \notin ids}
            = {i \in DOMAIN patches : patches[i].id # "forge"}
      BY <1>8
    <3> QED BY <1>7, <3>1 DEF WithoutForge, Without
  <2>2. ids \in SUBSET User /\ \A id \in ids : d[id] = NoFile
    BY <1>1, <1>4, <1>8
  <2> QED BY <1>1, <1>4, <2>1, <2>2, LeftIs
<1>10. CASE /\ ForgeListed /\ Fault /\ files' = Removed(files, "forge")
            /\ patches' = WithoutForge /\ resolved' = Applied(WithoutForge)
            /\ orderFile' = OrderOf(WithoutForge)
            /\ sound' = FALSE
            /\ UNCHANGED <<version, flagged, damaged>>
  <2>1. faults' \in 0..MaxFaults
    BY <1>1, <1>10, ProfileAssumption DEF Fault
  <2>2. Leaves(m, FALSE)
    BY <1>1, <1>7, <1>10, <2>1 DEF Leaves
  <2>3. ~damaged' => Loadable(files', orderFile) /\ Lists(files', orderFile, m)
    BY <1>1, <1>3, <1>5, <1>9, <1>10
  <2> QED BY <1>3, <1>4, <1>5, <1>9, <1>10, <2>2, <2>3, Saves
<1>11. ASSUME NEW whole \in BOOLEAN, orderFile' = orderFile \/ orderFile' = OrderOf(WithoutForge),
              WriteAndReload("forge", whole), Fine \/ Fault
       PROVE  IInv'
  <2>1. faults' \in 0..MaxFaults
    BY <1>1, <1>11, ProfileAssumption DEF Fine, Fault
  <2>2. orderFile'.exists \in BOOLEAN /\ orderFile'.ids \in Seq(User) /\ IsInjective(orderFile'.ids)
    <3>1. CASE orderFile' = orderFile
      BY <3>1 DEF IInv
    <3>2. CASE orderFile' = OrderOf(m)
      BY <1>9, <3>2, OrderIs
    <3> QED BY <1>7, <1>11, <3>1, <3>2
  <2>3. ASSUME ~damaged
        PROVE  \A a, b \in RestOf(files, orderFile') \ {"forge"} :
                 files[a].order = files[b].order => a = b
    <3>1. CASE orderFile' = orderFile
      BY <1>1, <2>3, <3>1 DEF Loadable
    <3>2. CASE orderFile' = OrderOf(m)
      <4>1. ASSUME NEW x \in RestOf(files, OrderOf(m)), x # "forge" PROVE FALSE
        <5>1. x \in User /\ x \in Ids /\ files[x].state # "none" /\ \A i \in DOMAIN m : m[i].id # x
          BY <1>9, <4>1, NotSaved DEF Ids
        <5>2. d[x] = files[x]
          BY <1>1, <1>3, <4>1, <5>1, RemovedTyped, ProfileAssumption
        <5>3. \E i \in DOMAIN m : m[i].id = x
          BY <1>1, <1>9, <2>3, <5>1, <5>2 DEF Lists
        <5> QED BY <5>1, <5>3
      <4> QED BY <3>2, <4>1
    <3> QED BY <1>7, <1>11, <3>1, <3>2
  <2> QED BY <1>1, <1>11, <2>1, <2>2, <2>3, LoaderWritten
<1>12. \/ UNCHANGED files /\ GiveUp
       \/ files' = Removed(files, "forge") /\ GiveUp
       \/ /\ files' = Removed(files, "forge") /\ sound' = FALSE
          /\ UNCHANGED <<orderFile, version, patches, resolved, flagged, damaged, faults>>
       \/ /\ ForgeListed /\ Fault /\ files' = Removed(files, "forge")
          /\ patches' = WithoutForge /\ resolved' = Applied(WithoutForge)
          /\ orderFile' = OrderOf(WithoutForge)
          /\ sound' = FALSE
          /\ UNCHANGED <<version, flagged, damaged>>
       \/ \E whole \in BOOLEAN :
            /\ orderFile' = orderFile \/ orderFile' = OrderOf(WithoutForge)
            /\ WriteAndReload("forge", whole)
            /\ Fine \/ Fault
  BY DEF InstallLegacy
<1> QED BY <1>2, <1>6, <1>10, <1>11, <1>12

\* The change of the Minecraft version keeps the invariant.
LEMMA ChangeVersionStep ==
  ASSUME IInv, NEW v \in Versions, ChangeVersion(v)
  PROVE  IInv'
<1>1. /\ version' = v /\ resolved' = <<>> /\ sound' = FALSE /\ damaged' = damaged
      /\ files \in [Ids -> PatchFile] /\ FilesNumbered(files) /\ ListOf(patches)
      /\ version \in Versions /\ flagged \in BOOLEAN /\ damaged \in BOOLEAN
      /\ faults \in 0..MaxFaults
      /\ ~damaged => Loadable(files, orderFile) /\ Lists(files, orderFile, patches)
  BY DEF ChangeVersion, IInv, RestTyped
<1>2. ListIsOnDisk'
  BY <1>1 DEF ListIsOnDisk
<1>3. <<>> \in Seq(Ids)
  OBVIOUS
<1>4. ASSUME flagged' \in BOOLEAN, faults' \in 0..MaxFaults PROVE RestTyped'
  BY <1>1, <1>3, <1>4 DEF RestTyped
<1>5. CASE Fine /\ UNCHANGED <<files, orderFile, patches, flagged>>
  <2>1. RestTyped'
    BY <1>1, <1>4, <1>5 DEF Fine
  <2> QED BY <1>1, <1>2, <1>5, <2>1 DEF IInv
<1>6. ASSUME NEW r \in Removals,
             files' = [id \in Ids |-> IF id \in r.gone THEN NoFile ELSE files[id]],
             \/ orderFile' = orderFile
             \/ orderFile' = OrderOf(Select(patches, {i \in DOMAIN patches : patches[i].id \notin r.ids})),
             Fine \/ Fault,
             LET l == Load(files', orderFile', version) IN patches' = l.list /\ flagged' = ~l.ok
      PROVE  IInv'
  <2> DEFINE l == Load(files', orderFile', version)
  <2>1. faults' \in 0..MaxFaults
    BY <1>1, <1>6, ProfileAssumption DEF Fine, Fault
  <2>2. r.ids \in SUBSET User /\ r.ids \subseteq r.gone
    BY DEF Removals
  <2>3. /\ files' \in [Ids -> PatchFile]
        /\ \A id \in Ids : files'[id] = files[id] \/ files'[id] = NoFile
        /\ \A id \in r.ids : files'[id] = NoFile
    <3>1. NoFile \in PatchFile
      BY ProfileAssumption DEF NoFile, PatchFile, Orders
    <3> QED BY <1>1, <1>6, <2>2, <3>1 DEF Ids
  <2>4. /\ FilesNumbered(files') /\ (Whole(files) => Whole(files'))
        /\ Loadable(files, orderFile) => Loadable(files', orderFile)
    BY <1>1, <2>3, RemovedIs
  <2>5. PICK ids : ids = r.ids
    OBVIOUS
  <2>6. PICK m : m = Select(patches, {i \in DOMAIN patches : patches[i].id \notin ids})
    OBVIOUS
  <2>7. PICK d : d = files'
    OBVIOUS
  <2>8. /\ ListOf(m)
        /\ Lists(files, orderFile, patches) => Lists(d, orderFile, m)
    <3>1. /\ d \in [Ids -> PatchFile] /\ ids \in SUBSET User
          /\ \A id \in Ids : d[id] = files[id] \/ d[id] = NoFile
          /\ \A id \in ids : d[id] = NoFile
      BY <2>2, <2>3, <2>5, <2>7
    <3>2. Without(m, patches, ids)
      BY <2>6 DEF Without
    <3> QED BY <1>1, <3>1, <3>2, LeftIs
  <2>9. orderFile' = orderFile \/ orderFile' = OrderOf(m)
    BY <1>6, <2>5, <2>6
  <2>10. orderFile'.exists \in BOOLEAN /\ orderFile'.ids \in Seq(User) /\ IsInjective(orderFile'.ids)
    <3>1. CASE orderFile' = orderFile
      BY <3>1 DEF IInv
    <3>2. CASE orderFile' = OrderOf(m)
      BY <2>8, <3>2, OrderIs
    <3> QED BY <2>9, <3>1, <3>2
  <2>11. Found(files', orderFile')
    BY <2>3, <2>10 DEF Found
  <2>12. ListOf(l.list)
    BY <1>1, <2>11, LoadedIs
  <2>13. l.ok \in BOOLEAN
    <3>1. ReadsAll(files', orderFile') \in BOOLEAN
      BY DEF ReadsAll
    <3> QED BY <3>1, LoadIs
  <2>14. patches' = l.list /\ flagged' = ~l.ok
    BY <1>6
  <2>15. RestTyped'
    BY <1>4, <2>1, <2>13, <2>14
  <2>16. ASSUME ~damaged PROVE Loadable(files', orderFile') /\ Lists(files', orderFile', l.list)
    <3>1. Loadable(files', orderFile) /\ Whole(files')
      BY <1>1, <2>4, <2>16 DEF Loadable
    <3>2. Loadable(d, OrderOf(m))
      BY <1>1, <2>7, <2>8, <2>16, <3>1, SavedLists
    <3>3. Loadable(files', orderFile')
      BY <2>7, <2>9, <3>1, <3>2
    <3>4. l.ok
      BY <2>11, <3>3, LoadableLoads
    <3> QED BY <1>1, <2>11, <3>3, <3>4, LoadLists
  <2> HIDE DEF l
  <2> QED BY <1>1, <1>2, <2>3, <2>4, <2>10, <2>12, <2>14, <2>15, <2>16 DEF IInv
<1>7. \/ Fine /\ UNCHANGED <<files, orderFile, patches, flagged>>
      \/ \E r \in Removals :
           /\ files' = [id \in Ids |-> IF id \in r.gone THEN NoFile ELSE files[id]]
           /\ \/ orderFile' = orderFile
              \/ orderFile' = OrderOf(Select(patches, {i \in DOMAIN patches : patches[i].id \notin r.ids}))
           /\ Fine \/ Fault
           /\ LET l == Load(files', orderFile', version) IN patches' = l.list /\ flagged' = ~l.ok
  BY DEF ChangeVersion
<1> QED BY <1>5, <1>6, <1>7

-----------------------------------------------------------------------------
(* The invariants *)

\* A new instance has the invariant: there are no files.
LEMMA Beginning ==
  ASSUME Init
  PROVE  IInv
<1>1. /\ files = [id \in Ids |-> NoFile] /\ orderFile = NoOrder /\ version \in Versions
      /\ patches = Load(files, orderFile, version).list /\ resolved = Applied(patches)
      /\ flagged = FALSE /\ sound = TRUE /\ damaged = FALSE /\ faults = 0
  BY DEF Init
<1>2. NoFile \in PatchFile /\ NoFile.state = "none"
  BY ProfileAssumption DEF NoFile, PatchFile, Orders
<1>3. files \in [Ids -> PatchFile] /\ \A id \in Ids : files[id].state = "none"
  BY <1>1, <1>2
<1>4. /\ orderFile.exists \in BOOLEAN /\ orderFile.ids \in Seq(User)
      /\ IsInjective(orderFile.ids)
  BY <1>1 DEF NoOrder, IsInjective
<1>5. \A id \in User : id \in Ids
  BY DEF Ids
<1>6. FilesNumbered(files) /\ Loadable(files, orderFile)
  BY <1>3, <1>5 DEF FilesNumbered, Loadable, Whole, RestOf
<1>7. Found(files, orderFile)
  BY <1>3, <1>4 DEF Found
<1>8. ListOf(patches)
  BY <1>1, <1>7, LoadedIs
<1>9. RestTyped
  <2>1. resolved \in Seq(Ids)
    BY <1>1, <1>8, AppliedTyped
  <2>2. faults \in 0..MaxFaults
    BY <1>1, ProfileAssumption
  <2> QED BY <1>1, <2>1, <2>2 DEF RestTyped
<1>10. Load(files, orderFile, version).ok
  BY <1>6, <1>7, LoadableLoads
<1>11. ListIsOnDisk
  BY <1>1, <1>10 DEF ListIsOnDisk
<1>12. Lists(files, orderFile, patches)
  BY <1>1, <1>7, <1>10, LoadLists
<1> QED BY <1>3, <1>4, <1>6, <1>8, <1>9, <1>11, <1>12 DEF IInv

\* Every step keeps the invariant.
LEMMA EveryStep ==
  ASSUME IInv, [Next]_vars
  PROVE  IInv'
<1>1. CASE Reload
  BY <1>1, ReloadStep
<1>2. CASE ResetOrder
  BY <1>2, ResetOrderStep
<1>3. ASSUME NEW i \in DOMAIN patches, RemovePatch(i) PROVE IInv'
  BY <1>3, RemovePatchStep
<1>4. ASSUME NEW i \in DOMAIN patches, Customize(i) PROVE IInv'
  BY <1>4, CustomizeStep
<1>5. ASSUME NEW i \in DOMAIN patches, Revert(i) PROVE IInv'
  BY <1>5, RevertStep
<1>6. ASSUME NEW i \in DOMAIN patches, NEW up \in BOOLEAN, Move(i, up) PROVE IInv'
  BY <1>6, MoveStep
<1>7. ASSUME NEW jars \in JarLists, NEW done \in 0..Len(jars), NEW torn \in SUBSET (1..done),
             InstallJarMods(jars, done, torn)
      PROVE  IInv'
  BY <1>7, InstallJarModsStep
<1>8. ASSUME NEW id \in Loaders, InstallLoader(id) PROVE IInv'
  BY <1>8, InstallLoaderStep
<1>9. ASSUME NEW v \in Versions, ChangeVersion(v) PROVE IInv'
  BY <1>9, ChangeVersionStep
<1>10. ASSUME NEW id \in Ids, EditByHand(id) PROVE IInv'
  BY <1>10, EditByHandStep
<1>11. CASE UNCHANGED vars
  BY <1>11 DEF vars, IInv, RestTyped, ListIsOnDisk
<1>12. CASE InstallLegacy
  BY <1>12, InstallLegacyStep
<1> QED BY <1>1, <1>2, <1>3, <1>4, <1>5, <1>6, <1>7, <1>8, <1>9, <1>10, <1>11, <1>12 DEF Next

\* The inductive invariant holds in every reachable state, for any mod loaders,
\* jar mods, versions and number of faults.
THEOREM Inductive == Spec => []IInv
<1>1. Init => IInv
  BY Beginning
<1>2. IInv /\ [Next]_vars => IInv'
  BY EveryStep
<1> QED BY <1>1, <1>2, PTL DEF Spec

\* Every variable has its type, and no patch is in MinecraftProfile's list twice.
THEOREM TypeCorrect == Spec => []TypeOK
<1>1. IInv => TypeOK
  BY IInvImplies
<1> QED BY <1>1, Inductive, PTL

\* As long as nothing has failed since the last load, a restart loads the list that is on
\* the screen from patches/ and order.json: every operation leaves the list, its files
\* and its order in step, the order numbers aside.
THEOREM ListStaysOnDisk == Spec => []ListIsOnDisk
<1>1. IInv => ListIsOnDisk
  BY IInvImplies
<1> QED BY <1>1, Inductive, PTL

\* The launcher never leaves files that it cannot load with its order file, whatever could
\* not be removed or saved on the way, as long as every file is whole.
THEOREM LoadsWhatItWrote == Spec => []LoadsUnlessDamaged
<1>1. IInv => LoadsUnlessDamaged
  BY IInvImplies
<1> QED BY <1>1, Inductive, PTL

\* Whatever fails half-way in the removal or the installation of a patch, a restart brings
\* back no patch that the list does not show, as long as every file is whole.
THEOREM RemovedStaysRemoved == Spec => []NothingComesBack
<1>1. IInv => NothingComesBack
  BY IInvImplies
<1> QED BY <1>1, Inductive, PTL

-----------------------------------------------------------------------------
(* The order of a load *)

\* The patch a comes before b: as order.json has them, those that it names first, and
\* the others in the order of their numbers.
Comes(g, o, a, b) ==
  \/ \E i, j \in DOMAIN o.ids : i < j /\ o.ids[i] = a /\ o.ids[j] = b
  \/ a \in Range(o.ids) /\ b \notin Range(o.ids)
  \/ a \notin Range(o.ids) /\ b \notin Range(o.ids) /\ g[a].order < g[b].order

\* A load that succeeds puts the patches in that order.
LEMMA LoadOrder ==
  ASSUME NEW g, NEW o, Found(g, o), NEW v \in Versions, Load(g, o, v).ok,
         NEW x \in User, NEW y \in User, Before(Load(g, o, v).list, x, y)
  PROVE  g[x].state # "none" /\ g[y].state # "none" /\ Comes(g, o, x, y)
<1> DEFINE a == AllOf(g, o)
           r == ReadOf(g, o)
           s == Numbered(g, o)
           t == Listed(g, o)
           q == o.ids
           l == Load(g, o, v).list
<1>1. ReadsAll(g, o)
  BY LoadReads, Zenon
<1>2. /\ t \in Seq(User)
      /\ \A i, j \in DOMAIN t : i < j => \E c, d \in DOMAIN q : c < d /\ q[c] = t[i] /\ q[d] = t[j]
  BY ListedIs
<1>3. /\ a \in Seq(Ids) /\ Len(a) = Len(t) + 2 /\ a[1] = "minecraft" /\ a[2] = "lwjgl"
      /\ \A i \in 3..Len(a) : i - 2 \in DOMAIN t /\ a[i] = t[i - 2]
      /\ \A i \in 3..Len(a) : a[i] \in User /\ g[a[i]].state # "none" /\ a[i] \in Range(q)
  BY AllIs
<1>4. /\ s \in Seq(User)
      /\ \A id : (\E i \in DOMAIN s : s[i] = id) <=> id \in RestOf(g, o)
      /\ \A i, j \in DOMAIN s : i < j => g[s[i]].order < g[s[j]].order
  <2>1. \A id, other \in RestOf(g, o) : g[id].order = g[other].order => id = other
    BY <1>1 DEF ReadsAll
  <2> QED BY <2>1, NumberedIs
<1>5. r = a \o s
  BY <1>1 DEF ReadOf
<1>6. IdsOf(l) = r /\ DOMAIN IdsOf(l) = DOMAIN l /\ \A i \in DOMAIN l : IdsOf(l)[i] = l[i].id
  BY LoadedIs DEF IdsOf
<1>7. PICK i \in DOMAIN l, j \in DOMAIN l : i < j /\ l[i].id = x /\ l[j].id = y
  BY DEF Before
<1>8. RestOf(g, o) = {id \in User : g[id].state # "none" /\ id \notin Range(q)}
  BY DEF RestOf
<1>9. x # "minecraft" /\ x # "lwjgl" /\ y # "minecraft" /\ y # "lwjgl"
  BY BuiltinsApart DEF Builtins
<1> HIDE DEF a, r, s, t, l, q
<1>10. Len(a) \in Nat /\ Len(a) >= 2 /\ Len(t) \in Nat /\ DOMAIN t = 1..Len(t)
       /\ Len(s) \in Nat /\ DOMAIN s = 1..Len(s) /\ s \in Seq(Ids)
  BY <1>2, <1>3, <1>4 DEF Ids
<1>11. /\ DOMAIN r = 1..(Len(a) + Len(s))
       /\ \A h \in 1..(Len(a) + Len(s)) : r[h] = IF h <= Len(a) THEN a[h] ELSE s[h - Len(a)]
  <2>1. /\ r \in Seq(Ids) /\ Len(r) = Len(a) + Len(s)
        /\ \A h \in 1..(Len(a) + Len(s)) : r[h] = IF h <= Len(a) THEN a[h] ELSE s[h - Len(a)]
    BY <1>3, <1>5, <1>10, ConcatProperties
  <2>2. DOMAIN r = 1..Len(r)
    BY <2>1
  <2> QED BY <2>1, <2>2
<1>12. i \in 1..(Len(a) + Len(s)) /\ j \in 1..(Len(a) + Len(s)) /\ i < j /\ r[i] = x /\ r[j] = y
  BY <1>6, <1>7, <1>11
<1>13. \A h \in 1..(Len(a) + Len(s)) : /\ h <= Len(a) /\ r[h] # "minecraft" /\ r[h] # "lwjgl"
                                       => h \in 3..Len(a) /\ r[h] = a[h]
  BY <1>3, <1>10, <1>11
<1>14. ASSUME NEW h \in 1..(Len(a) + Len(s)), h > Len(a)
       PROVE  h - Len(a) \in DOMAIN s /\ r[h] = s[h - Len(a)] /\ r[h] \in RestOf(g, o)
  <2>1. h - Len(a) \in DOMAIN s
    BY <1>10, <1>14
  <2>2. r[h] = s[h - Len(a)]
    BY <1>10, <1>11, <1>14
  <2> QED BY <1>4, <2>1, <2>2
<1>15. CASE j <= Len(a)
  <2>1. i \in 3..Len(a) /\ j \in 3..Len(a) /\ a[i] = x /\ a[j] = y
    BY <1>9, <1>10, <1>12, <1>13, <1>15
  <2>2. i - 2 \in DOMAIN t /\ j - 2 \in DOMAIN t /\ i - 2 < j - 2 /\ t[i - 2] = x /\ t[j - 2] = y
    BY <1>3, <1>12, <2>1
  <2>3. \E c, d \in DOMAIN q : c < d /\ q[c] = x /\ q[d] = y
    BY <1>2, <2>2
  <2> QED BY <1>3, <2>1, <2>3 DEF Comes, q
<1>16. CASE i <= Len(a) /\ j > Len(a)
  <2>1. i \in 3..Len(a) /\ a[i] = x
    BY <1>9, <1>12, <1>13, <1>16
  <2>2. y \in RestOf(g, o)
    BY <1>12, <1>14, <1>16
  <2> QED BY <1>3, <1>8, <2>1, <2>2 DEF Comes, q
<1>17. CASE i > Len(a)
  <2>1. j > Len(a)
    BY <1>10, <1>12, <1>17
  <2>2. /\ i - Len(a) \in DOMAIN s /\ x = s[i - Len(a)] /\ x \in RestOf(g, o)
        /\ j - Len(a) \in DOMAIN s /\ y = s[j - Len(a)] /\ y \in RestOf(g, o)
    BY <1>12, <1>14, <1>17, <2>1
  <2>3. i - Len(a) < j - Len(a)
    BY <1>10, <1>12
  <2>4. g[x].order < g[y].order
    BY <1>4, <2>2, <2>3
  <2> QED BY <1>8, <2>2, <2>4 DEF Comes, q
<1> QED BY <1>10, <1>12, <1>15, <1>16, <1>17

\* The files d have the numbers of g: no two patches change places.
LEMMA Opposite ==
  ASSUME NEW g, NEW o, Found(g, o), NEW d, NEW x \in User, NEW y \in User,
         d[x].order = g[x].order, d[y].order = g[y].order,
         Comes(g, o, x, y), Comes(d, o, y, x)
  PROVE  FALSE
<1> DEFINE q == o.ids
<1>1. q \in Seq(User) /\ \A i, j \in DOMAIN q : q[i] = q[j] => i = j
  BY DEF Found, IsInjective
<1>2. DOMAIN q = 1..Len(q) /\ Len(q) \in Nat /\ \A i \in DOMAIN q : i \in Nat
  BY <1>1
<1>3. g[x].order \in Nat /\ g[y].order \in Nat
  <2>1. \A p \in PatchFile : p.order \in Nat
    BY ProfileAssumption DEF PatchFile, Orders
  <2> QED BY <2>1 DEF Found, Ids
<1>4. \A i \in DOMAIN q : q[i] \in Range(q)
  BY DEF Range
<1>5. Comes(g, o, x, y) = (\/ \E i, j \in DOMAIN q : i < j /\ q[i] = x /\ q[j] = y
                           \/ x \in Range(q) /\ y \notin Range(q)
                           \/ x \notin Range(q) /\ y \notin Range(q) /\ g[x].order < g[y].order)
  BY DEF Comes
<1>6. Comes(d, o, y, x) = (\/ \E i, j \in DOMAIN q : i < j /\ q[i] = y /\ q[j] = x
                           \/ y \in Range(q) /\ x \notin Range(q)
                           \/ y \notin Range(q) /\ x \notin Range(q) /\ d[y].order < d[x].order)
  BY DEF Comes
<1> HIDE DEF q
<1>7. CASE \E i, j \in DOMAIN q : i < j /\ q[i] = x /\ q[j] = y
  <2>1. PICK i \in DOMAIN q, j \in DOMAIN q : i < j /\ q[i] = x /\ q[j] = y
    BY <1>7
  <2>2. PICK k \in DOMAIN q, h \in DOMAIN q : k < h /\ q[k] = y /\ q[h] = x
    BY <1>4, <1>6, <2>1
  <2>3. i = h /\ j = k
    BY <1>1, <2>1, <2>2
  <2> QED BY <1>2, <2>1, <2>2, <2>3
<1>8. CASE x \in Range(q) /\ y \notin Range(q)
  BY <1>4, <1>6, <1>8
<1>9. CASE x \notin Range(q) /\ y \notin Range(q) /\ g[x].order < g[y].order
  <2>1. d[y].order < d[x].order
    BY <1>4, <1>6, <1>9
  <2> QED BY <1>3, <1>9, <2>1
<1> QED BY <1>5, <1>7, <1>8, <1>9

\* A saved order has the patches in the order of the list.
LEMMA SavedOrder ==
  ASSUME NEW g, NEW l, ListOf(l), NEW x \in User, NEW y \in User,
         \E i \in DOMAIN l : l[i].id = x, \E i \in DOMAIN l : l[i].id = y,
         Comes(g, OrderOf(l), x, y)
  PROVE  Before(l, x, y)
<1> DEFINE q == OrderOf(l).ids
<1>2. /\ q \in Seq(User)
      /\ \E e : /\ \A h \in DOMAIN q : e[h] \in DOMAIN l /\ q[h] = l[e[h]].id
                /\ \A h, k \in DOMAIN q : h < k => e[h] < e[k]
      /\ \A i \in DOMAIN l : l[i].id \in User => \E h \in DOMAIN q : q[h] = l[i].id
  BY OrderIs
<1> HIDE DEF q
<1>3. PICK e : /\ \A h \in DOMAIN q : e[h] \in DOMAIN l /\ q[h] = l[e[h]].id
               /\ \A h, k \in DOMAIN q : h < k => e[h] < e[k]
  BY <1>2
<1>4. x \in Range(q) /\ y \in Range(q)
  BY <1>2 DEF Range
<1>5. PICK i \in DOMAIN q, j \in DOMAIN q : i < j /\ q[i] = x /\ q[j] = y
  BY <1>4 DEF Comes, q
<1>6. e[i] \in DOMAIN l /\ e[j] \in DOMAIN l /\ e[i] < e[j] /\ l[e[i]].id = x /\ l[e[j]].id = y
  BY <1>3, <1>5
<1> QED BY <1>6 DEF Before

-----------------------------------------------------------------------------
(* The steps keep the order *)

\* A step that keeps the numbers of the files that stay, and has put b before a.
Swapped(a, b) ==
  /\ a \in User /\ b \in User
  /\ files[a].state # "none" /\ files[b].state # "none"
  /\ files'[a].state # "none" /\ files'[b].state # "none"
  /\ Comes(files, orderFile, a, b) /\ Comes(files', orderFile', b, a)
  /\ Found(files, orderFile) /\ Found(files', orderFile')
  /\ Lists(files, orderFile, patches) /\ Lists(files', orderFile', patches')
  /\ version \in Versions /\ ListOf(patches) /\ ListOf(patches')

KeepsNumbers(x) == files[x].state # "none" /\ files'[x].state # "none" => files'[x].order = files[x].order

\* The order file has changed.
LEMMA SwapIsSaved ==
  ASSUME NEW a, NEW b, Swapped(a, b), KeepsNumbers(a), KeepsNumbers(b)
  PROVE  orderFile' # orderFile
<1> SUFFICES ASSUME orderFile' = orderFile PROVE FALSE
  OBVIOUS
<1>1. PICK g : g = files
  OBVIOUS
<1>2. PICK d : d = files'
  OBVIOUS
<1>3. PICK o : o = orderFile
  OBVIOUS
<1>4. /\ Found(g, o) /\ a \in User /\ b \in User /\ d[a].order = g[a].order /\ d[b].order = g[b].order
      /\ Comes(g, o, a, b) /\ Comes(d, o, b, a)
  BY <1>1, <1>2, <1>3 DEF Swapped, KeepsNumbers
<1> QED BY <1>4, Opposite

\* It is that of a list in which b is before a.
LEMMA SwapIsInList ==
  ASSUME NEW a, NEW b, Swapped(a, b), NEW l, ListOf(l), NEW o, Lists(files', o, l),
         orderFile' = OrderOf(l)
  PROVE  Before(l, b, a)
<1>1. /\ a \in User /\ b \in User
      /\ \E i \in DOMAIN l : l[i].id = a
      /\ \E i \in DOMAIN l : l[i].id = b
  BY DEF Swapped, Lists, Ids
<1>2. PICK d : d = files'
  OBVIOUS
<1>3. Comes(d, OrderOf(l), b, a)
  BY <1>2 DEF Swapped
<1> QED BY <1>1, <1>3, SavedOrder

\* It is not that of a list that is loaded with the old order.
LEMMA SwapIsNotLoaded ==
  ASSUME NEW a, NEW b, Swapped(a, b), KeepsNumbers(a), KeepsNumbers(b), IInv,
         Loadable(files', orderFile), NEW l, l = Load(files', orderFile, version).list
  PROVE  orderFile' # OrderOf(l)
<1> SUFFICES ASSUME orderFile' = OrderOf(l) PROVE FALSE
  OBVIOUS
<1>1. PICK d : d = files'
  OBVIOUS
<1>2. PICK o : o = orderFile
  OBVIOUS
<1>3. PICK v : v = version
  OBVIOUS
<1>4. PICK g : g = files
  OBVIOUS
<1>5. /\ Found(g, o) /\ Found(d, o) /\ v \in Versions /\ Loadable(d, o) /\ l = Load(d, o, v).list
      /\ a \in User /\ b \in User /\ d \in [Ids -> PatchFile]
      /\ d[a].order = g[a].order /\ d[b].order = g[b].order /\ Comes(g, o, a, b)
  BY <1>1, <1>2, <1>3, <1>4 DEF Swapped, Found, KeepsNumbers
<1>6. Load(d, o, v).ok
  BY <1>5, LoadableLoads
<1>7. ListOf(l)
  BY <1>5, LoadedIs
<1>8. Lists(d, o, l)
  BY <1>5, <1>6, LoadLists
<1>9. Before(l, b, a)
  BY <1>1, <1>7, <1>8, SwapIsInList
<1>10. Comes(d, o, b, a)
  BY <1>5, <1>6, <1>9, LoadOrder
<1> QED BY <1>5, <1>10, Opposite

\* The numbers of the files that stay.
LEMMA NumbersKept ==
  ASSUME IInv, IInv', [Next]_vars, NEW x \in User
  PROVE  KeepsNumbers(x)
<1> SUFFICES ASSUME files[x].state # "none", files'[x].state # "none"
             PROVE  files'[x].order = files[x].order
  BY DEF KeepsNumbers
<1>1. /\ files \in [Ids -> PatchFile] /\ FilesNumbered(files) /\ FilesNumbered(files')
      /\ x \in Ids /\ NoFile.state = "none"
  BY DEF IInv, Ids, NoFile
<1>2. ASSUME NEW id \in Ids, files' = Removed(files, id) PROVE files'[x].order = files[x].order
  BY <1>1, <1>2 DEF Removed
<1>3. CASE UNCHANGED files
  BY <1>3
<1>4. CASE Reload \/ ResetOrder
  BY <1>4 DEF Reload, ResetOrder
<1>5. ASSUME NEW i \in DOMAIN patches PROVE patches[i].id \in Ids
  <2>1. \A p \in Patch : p.id \in Ids
    BY DEF Patch
  <2>2. patches \in Seq(Patch)
    BY DEF IInv, ListOf
  <2> QED BY <2>1, <2>2
<1>6. ASSUME NEW i \in DOMAIN patches, RemovePatch(i) PROVE files'[x].order = files[x].order
  BY <1>2, <1>5, <1>6 DEF RemovePatch
<1>7. ASSUME NEW i \in DOMAIN patches, Customize(i) PROVE files'[x].order = files[x].order
  <2>1. patches[i].id # x
    BY <1>7 DEF IInv, ListOf, Customize
  <2>2. files' = files \/ \E f : files' = [files EXCEPT ![patches[i].id] = f]
    BY <1>7 DEF Customize
  <2> QED BY <1>1, <2>1, <2>2
<1>8. ASSUME NEW i \in DOMAIN patches, Revert(i) PROVE files'[x].order = files[x].order
  BY <1>2, <1>5, <1>8 DEF Revert
<1>9. ASSUME NEW i \in DOMAIN patches, NEW up \in BOOLEAN, Move(i, up)
      PROVE  files'[x].order = files[x].order
  BY <1>9 DEF Move
<1>10. ASSUME NEW jars \in JarLists, NEW done \in 0..Len(jars), NEW torn,
              InstallJarMods(jars, done, torn)
       PROVE  files'[x].order = files[x].order
  <2>1. jars \in Seq(JarMods)
    BY JarListIs
  <2>2. \A k \in 1..done : k \in DOMAIN jars
    BY <2>1
  <2>3. \A k \in DOMAIN jars : files[jars[k]].state = "none"
    BY <1>10 DEF InstallJarMods, Exists
  <2>4. ~\E k \in 1..done : jars[k] = x
    BY <2>2, <2>3
  <2>5. files'[x] = files[x]
    BY <1>1, <1>10, <2>4 DEF InstallJarMods
  <2> QED BY <2>5
<1>14. ASSUME NEW id \in Loaders, NEW whole, WriteAndReload(id, whole)
       PROVE  files'[x].order = files[x].order
  <2>1. CASE x = id
    BY <1>1, <2>1 DEF FilesNumbered
  <2>2. CASE x # id
    <3>1. \E f : files' = [files EXCEPT ![id] = f]
      BY <1>14 DEF WriteAndReload
    <3> QED BY <1>1, <2>2, <3>1
  <2> QED BY <2>1, <2>2
<1>11. ASSUME NEW id \in Loaders, InstallLoader(id) PROVE files'[x].order = files[x].order
  <2>1. id \in Ids
    BY DEF Ids, User
  <2> QED BY <1>2, <1>3, <1>11, <1>14, <2>1 DEF InstallLoader
<1>15. CASE InstallLegacy
  <2>1. "forge" \in Loaders /\ "forge" \in Ids
    BY <1>15 DEF InstallLegacy, Ids, User
  <2>2. \/ UNCHANGED files \/ files' = Removed(files, "forge")
        \/ \E whole \in BOOLEAN : WriteAndReload("forge", whole)
    BY <1>15 DEF InstallLegacy
  <2> QED BY <1>2, <1>3, <1>14, <2>1, <2>2
<1>12. ASSUME NEW v \in Versions, ChangeVersion(v) PROVE files'[x].order = files[x].order
  <2>1. \/ files' = files
        \/ \E ids : files' = [id \in Ids |-> IF id \in ids THEN NoFile ELSE files[id]]
    BY <1>12 DEF ChangeVersion
  <2>2. ASSUME NEW ids, files' = [id \in Ids |-> IF id \in ids THEN NoFile ELSE files[id]]
        PROVE  files'[x].order = files[x].order
    BY <1>1, <2>2
  <2> QED BY <2>1, <2>2
<1>13. ASSUME NEW id \in Ids, EditByHand(id) PROVE files'[x].order = files[x].order
  <2>1. \E s : files' = [files EXCEPT ![id].state = s]
    BY <1>13 DEF EditByHand
  <2>2. PICK s : files' = [files EXCEPT ![id].state = s]
    BY <2>1
  <2>3. files[id] \in PatchFile
    BY <1>1
  <2>4. [files[id] EXCEPT !.state = s].order = files[id].order
    BY <2>3 DEF PatchFile
  <2>5. files'[id] = [files[id] EXCEPT !.state = s] /\ (x # id => files'[x] = files[x])
    BY <1>1, <2>2
  <2> QED BY <2>4, <2>5
<1> QED BY <1>3, <1>4, <1>6, <1>7, <1>8, <1>9, <1>10, <1>11, <1>12, <1>13, <1>15 DEF Next, vars

\* A damage is never forgotten.
LEMMA DamageStays ==
  ASSUME [Next]_vars, ~damaged'
  PROVE  ~damaged
<1>1. Reload \/ ResetOrder \/ InstallLegacy \/ UNCHANGED vars => ~damaged
  BY DEF vars, Reload, ResetOrder, InstallLegacy, WriteAndReload, GiveUp
<1>2. ASSUME NEW i PROVE RemovePatch(i) \/ Customize(i) \/ Revert(i) => ~damaged
  BY DEF RemovePatch, Customize, Revert, GiveUp
<1>3. ASSUME NEW i, NEW up PROVE Move(i, up) => ~damaged
  BY DEF Move
<1>4. ASSUME NEW jars, NEW done, NEW torn PROVE InstallJarMods(jars, done, torn) => ~damaged
  BY DEF InstallJarMods
<1>5. ASSUME NEW x PROVE InstallLoader(x) \/ ChangeVersion(x) \/ EditByHand(x) => ~damaged
  BY DEF InstallLoader, WriteAndReload, ChangeVersion, EditByHand, GiveUp
<1> QED BY <1>1, <1>2, <1>3, <1>4, <1>5 DEF Next

\* The places of a list from which those of the list m are taken, in order.
Within(m, l) ==
  \E k : /\ \A h \in DOMAIN m : k[h] \in DOMAIN l /\ m[h] = l[k[h]]
         /\ \A h, j \in DOMAIN m : h < j => k[h] < k[j]

\* The order of the part is the order of the list.
LEMMA BeforeWithin ==
  ASSUME NEW m, NEW l, Within(m, l), NEW a, NEW b, Before(m, a, b)
  PROVE  Before(l, a, b)
<1>1. PICK k : /\ \A h \in DOMAIN m : k[h] \in DOMAIN l /\ m[h] = l[k[h]]
               /\ \A h, j \in DOMAIN m : h < j => k[h] < k[j]
  BY DEF Within
<1>2. PICK i \in DOMAIN m, j \in DOMAIN m : i < j /\ m[i].id = a /\ m[j].id = b
  BY DEF Before
<1> QED BY <1>1, <1>2 DEF Before

\* A list with a patch taken out is in the list.
LEMMA RemovedWithin ==
  ASSUME NEW l, ListOf(l), NEW i \in DOMAIN l
  PROVE  Within(RemoveAt(l, i), l)
<1> DEFINE n == Len(l)
           k == [h \in 1..(n - 1) |-> IF h < i THEN h ELSE h + 1]
           m == RemoveAt(l, i)
<1>1. l \in Seq(Patch) /\ DOMAIN l = 1..n /\ n \in Nat /\ i \in 1..n
  BY DEF ListOf
<1>2. m = [h \in 1..(n - 1) |-> l[IF h < i THEN h ELSE h + 1]]
  BY <1>1, RemoveAtIs
<1> HIDE DEF m, n
<1>3. DOMAIN m = 1..(n - 1) /\ \A h \in DOMAIN m : m[h] = l[k[h]]
  BY <1>2
<1>4. \A h \in 1..(n - 1) : k[h] \in 1..n
  BY <1>1
<1>5. \A h, j \in 1..(n - 1) : h < j => k[h] < k[j]
  BY <1>1
<1> HIDE DEF k
<1> QED BY <1>1, <1>3, <1>4, <1>5 DEF Within, m

\* So is what is selected of it.
LEMMA SelectedWithin ==
  ASSUME NEW l, ListOf(l), NEW P \in SUBSET DOMAIN l
  PROVE  Within(Select(l, P), l)
<1> DEFINE t == Select(l, P)
<1>1. l \in Seq(Patch) /\ DOMAIN l = 1..Len(l)
  BY DEF ListOf
<1>2. t \in Seq(Patch) /\ \E e : Picks(e, t, l, P)
  BY <1>1, Selected
<1>3. PICK e : Picks(e, t, l, P)
  BY <1>2
<1> HIDE DEF t
<1>4. DOMAIN t = 1..Len(t)
  BY <1>2
<1> QED BY <1>3, <1>4 DEF Picks, Within, t

\* remove(index) saves the order of the list.
LEMMA RemovePatchKeeps ==
  ASSUME NEW a, NEW b, Swapped(a, b), KeepsNumbers(a), KeepsNumbers(b), IInv,
         NEW i \in DOMAIN patches, RemovePatch(i)
  PROVE  Before(patches, b, a)
<1>1. orderFile' # orderFile
  BY SwapIsSaved
<1>2. ApplyAndSave(RemoveAt(patches, i), sound)
  BY <1>1 DEF RemovePatch, GiveUp
<1>3. PICK m : m = RemoveAt(patches, i)
  OBVIOUS
<1>4. patches' = m /\ orderFile' = OrderOf(m) /\ ListOf(m) /\ Lists(files', orderFile', m)
  BY <1>1, <1>2, <1>3 DEF ApplyAndSave, Swapped
<1>5. Before(m, b, a)
  BY <1>4, SwapIsInList
<1>6. PICK l : l = patches
  OBVIOUS
<1>7. Within(m, l)
  BY <1>3, <1>6, RemovedWithin DEF Swapped
<1> QED BY <1>5, <1>6, <1>7, BeforeWithin

\* So do customize and revert, whose list has the order that was saved.
LEMMA CustomizeKeeps ==
  ASSUME NEW a, NEW b, Swapped(a, b), KeepsNumbers(a), KeepsNumbers(b), IInv,
         ~damaged, NEW i \in DOMAIN patches, Customize(i) \/ Revert(i)
  PROVE  Before(patches, b, a)
<1>1. orderFile' # orderFile
  BY SwapIsSaved
<1>8. files \in [Ids -> PatchFile] /\ ListOf(patches) /\ Loadable(files, orderFile)
  BY DEF IInv
<1>9. Loadable(files', orderFile)
  <2>1. patches[i].id \in Ids
    <3>1. patches \in Seq(Patch)
      BY <1>8 DEF ListOf
    <3>2. patches[i] \in Patch
      BY <3>1
    <3> QED BY <3>2 DEF Patch
  <2>2. CASE Revert(i)
    <3>1. files' = files \/ files' = Removed(files, patches[i].id)
      BY <2>2 DEF Revert
    <3>2. CASE files' = Removed(files, patches[i].id)
      <4>1. /\ files' \in [Ids -> PatchFile]
            /\ \A id \in Ids : files'[id] = files[id] \/ files'[id] = NoFile
        BY <1>8, <2>1, <3>2, RemovedTyped, ProfileAssumption
      <4> QED BY <1>8, <4>1, RemovedIs
    <3> QED BY <1>8, <3>1, <3>2
  <2>3. CASE Customize(i)
    <3>1. patches[i].id \notin User
      BY <1>8, <2>3 DEF ListOf, Customize
    <3>2. /\ \A id \in Ids : id # patches[i].id => files'[id] = files[id]
          /\ files'[patches[i].id].state = "good" \/ files' = files
      BY <1>8, <2>1, <2>3 DEF Customize
    <3>3. Whole(files')
      BY <1>8, <3>2 DEF Whole, Loadable
    <3>4. \A id \in User : files'[id] = files[id]
      BY <3>1, <3>2 DEF Ids
    <3>5. /\ RestOf(files', orderFile) = RestOf(files, orderFile)
          /\ \A id \in RestOf(files, orderFile) : files'[id] = files[id]
      BY <3>4 DEF RestOf
    <3> QED BY <1>8, <3>3, <3>5 DEF Loadable
  <2> QED BY <2>2, <2>3
<1>2. PICK m : m = Load(files', orderFile, version).list
  OBVIOUS
<1>3. orderFile' # OrderOf(m)
  BY <1>2, <1>9, SwapIsNotLoaded
<1>4. \/ ApplyAndSave(Load(files', orderFile, version).list, Load(files', orderFile, version).ok)
      \/ ApplyAndSave(patches, sound)
  BY <1>1 DEF Customize, Revert, GiveUp
<1>5. ApplyAndSave(patches, sound)
  BY <1>1, <1>2, <1>3, <1>4 DEF ApplyAndSave
<1>6. PICK l : l = patches
  OBVIOUS
<1>7. patches' = l /\ orderFile' = OrderOf(l) /\ ListOf(l) /\ Lists(files', orderFile', l)
  BY <1>1, <1>5, <1>6 DEF ApplyAndSave, Swapped
<1> QED BY <1>6, <1>7, SwapIsInList

\* installJarMods puts the new jars at the end.
LEMMA InstallJarModsKeeps ==
  ASSUME NEW a, NEW b, Swapped(a, b), KeepsNumbers(a), KeepsNumbers(b), IInv,
         NEW jars \in JarLists, NEW done \in 0..Len(jars), NEW torn,
         InstallJarMods(jars, done, torn)
  PROVE  Before(patches, b, a)
<1> DEFINE new == [k \in 1..done |-> [id |-> jars[k], custom |-> TRUE,
                                      order |-> FreeOrder(patches) + k - 1, for |-> 0]]
<1>1. orderFile' # orderFile
  BY SwapIsSaved
<1>2. patches' = patches \o new /\ orderFile' = OrderOf(patches \o new)
  BY <1>1 DEF InstallJarMods, ApplyAndSave
<1>3. jars \in Seq(JarMods) /\ done \in Nat /\ \A k \in 1..done : k \in DOMAIN jars
  BY JarListIs
<1>4. \A k \in 1..done : new[k].id = jars[k]
  OBVIOUS
<1>5. \A k \in DOMAIN jars : files[jars[k]].state = "none"
  BY DEF InstallJarMods, Exists
<1>6. \A k \in 1..done : new[k].id # a /\ new[k].id # b
  BY <1>3, <1>4, <1>5 DEF Swapped
<1>7. DOMAIN new = 1..done
  OBVIOUS
<1>15. new = [k \in 1..done |-> new[k]]
  OBVIOUS
<1> HIDE DEF new
<1>8. PICK m : m = patches \o new
  OBVIOUS
<1>9. PICK l : l = patches
  OBVIOUS
<1>10. patches' = m /\ orderFile' = OrderOf(m) /\ ListOf(m) /\ Lists(files', orderFile', m) /\ ListOf(l)
  BY <1>2, <1>8, <1>9 DEF Swapped
<1>11. PICK i \in DOMAIN m, j \in DOMAIN m : i < j /\ m[i].id = b /\ m[j].id = a
  <2>1. Before(m, b, a)
    BY <1>10, SwapIsInList
  <2> QED BY <2>1 DEF Before
<1>12. l \in Seq(Patch) /\ m \in Seq(Patch) /\ DOMAIN m = 1..Len(m)
  BY <1>10 DEF ListOf
<1>13. /\ Len(l) \in Nat /\ DOMAIN l = 1..Len(l) /\ Len(m) = Len(l) + done
       /\ \A h \in 1..(Len(l) + done) : m[h] = IF h <= Len(l) THEN l[h] ELSE new[h - Len(l)]
  <2> DEFINE R == Patch \cup {new[k] : k \in 1..done}
  <2>1. new \in Seq(R) /\ Len(new) = done
    BY <1>3, <1>7, <1>15
  <2>2. m = l \o new
    BY <1>8, <1>9
  <2>3. Len(l) \in Nat /\ DOMAIN l = 1..Len(l) /\ l \in Seq(R)
    BY <1>12
  <2> HIDE DEF R
  <2>4. /\ Len(m) = Len(l) + Len(new)
        /\ \A h \in 1..(Len(l) + Len(new)) :
             m[h] = IF h <= Len(l) THEN l[h] ELSE new[h - Len(l)]
    BY <2>1, <2>2, <2>3, ConcatProperties
  <2> QED BY <2>1, <2>3, <2>4
<1>14. ASSUME NEW h \in 1..Len(m), m[h].id \in {a, b} PROVE h \in DOMAIN l /\ m[h] = l[h]
  <2>1. CASE h > Len(l)
    <3>1. h - Len(l) \in 1..done /\ m[h] = new[h - Len(l)]
      BY <1>3, <1>13, <2>1
    <3> QED BY <1>6, <1>14, <3>1
  <2> QED BY <1>3, <1>13, <2>1
<1> QED BY <1>9, <1>11, <1>12, <1>14 DEF Before

\* The change of the version saves the order of what it leaves in the list.
LEMMA ChangeVersionKeeps ==
  ASSUME NEW a, NEW b, Swapped(a, b), KeepsNumbers(a), KeepsNumbers(b), IInv,
         NEW v \in Versions, ChangeVersion(v)
  PROVE  Before(patches, b, a)
<1>1. orderFile' # orderFile
  BY SwapIsSaved
<1>2. PICK r \in Removals :
        /\ files' = [id \in Ids |-> IF id \in r.gone THEN NoFile ELSE files[id]]
        /\ orderFile' = OrderOf(Select(patches, {i \in DOMAIN patches : patches[i].id \notin r.ids}))
  BY <1>1 DEF ChangeVersion
<1>3. PICK l : l = patches
  OBVIOUS
<1>4. PICK ids : ids = r.ids
  OBVIOUS
<1>5. PICK m : m = Select(l, {i \in DOMAIN l : l[i].id \notin ids})
  OBVIOUS
<1>10. PICK d : d = files'
  OBVIOUS
<1>6. /\ files \in [Ids -> PatchFile] /\ ListOf(l) /\ Lists(files, orderFile, l)
      /\ ids \in SUBSET User /\ orderFile' = OrderOf(m)
  <2>1. r.ids \in SUBSET User
    BY DEF Removals
  <2> QED BY <1>2, <1>3, <1>4, <1>5, <2>1 DEF IInv, Swapped
<1>7. Within(m, l)
  <2>1. {i \in DOMAIN l : l[i].id \notin ids} \in SUBSET DOMAIN l
    OBVIOUS
  <2> QED BY <1>5, <1>6, <2>1, SelectedWithin
<1>8. ListOf(m) /\ Lists(d, orderFile, m)
  <2>1. r.ids \subseteq r.gone
    BY DEF Removals
  <2>2. /\ d \in [Ids -> PatchFile]
        /\ \A id \in Ids : d[id] = files[id] \/ d[id] = NoFile
        /\ \A id \in ids : d[id] = NoFile
    <3>1. NoFile \in PatchFile
      BY ProfileAssumption DEF NoFile, PatchFile, Orders
    <3> QED BY <1>2, <1>4, <1>6, <1>10, <2>1, <3>1 DEF Ids
  <2>3. Without(m, l, ids)
    BY <1>5 DEF Without
  <2> QED BY <1>6, <2>2, <2>3, LeftIs
<1>9. Before(m, b, a)
  BY <1>6, <1>8, <1>10, SwapIsInList
<1> QED BY <1>3, <1>7, <1>9, BeforeWithin

\* The installation of a legacy Forge saves the order of the list without it, which puts
\* it behind the others.
LEMMA InstallLegacyKeeps ==
  ASSUME NEW a, NEW b, Swapped(a, b), KeepsNumbers(a), KeepsNumbers(b), IInv,
         InstallLegacy, a # "forge"
  PROVE  Before(patches, b, a)
<1>1. orderFile' # orderFile
  BY SwapIsSaved
<1>2. PICK m : m = WithoutForge
  OBVIOUS
<1>3. orderFile' = OrderOf(m)
  BY <1>1, <1>2 DEF InstallLegacy, GiveUp
<1>4. PICK l : l = patches
  OBVIOUS
<1>5. PICK P : P = {i \in DOMAIN l : l[i].id # "forge"}
  OBVIOUS
<1>6. ListOf(l) /\ P \in SUBSET DOMAIN l /\ m = Select(l, P)
  BY <1>2, <1>4, <1>5 DEF Swapped, WithoutForge
<1>7. /\ ListOf(m) /\ Within(m, l)
      /\ \A i \in P : \E h \in DOMAIN m : m[h] = l[i]
      /\ \A h \in DOMAIN m : \E i \in P : m[h] = l[i]
  <2>1. Within(Select(l, P), l)
    BY <1>6, SelectedWithin
  <2>2. /\ ListOf(Select(l, P))
        /\ \A i \in P : \E h \in DOMAIN Select(l, P) : Select(l, P)[h] = l[i]
        /\ \A h \in DOMAIN Select(l, P) : \E i \in P : Select(l, P)[h] = l[i]
    BY <1>6, SelectedList
  <2> QED BY <1>6, <2>1, <2>2
<1>8. ASSUME NEW x \in {a, b}, x # "forge" PROVE \E h \in DOMAIN m : m[h].id = x
  <2>1. x \in Ids /\ files[x].state # "none"
    BY DEF Swapped, Ids
  <2>2. PICK i \in DOMAIN l : l[i].id = x
    BY <1>4, <2>1 DEF Swapped, Lists
  <2>3. i \in P
    BY <1>5, <1>8, <2>2
  <2> QED BY <1>7, <2>2, <2>3
<1>9. PICK d : d = files'
  OBVIOUS
<1>10. Comes(d, OrderOf(m), b, a) /\ a \in User /\ b \in User
  BY <1>3, <1>9 DEF Swapped
<1>11. /\ \A x \in Range(OrderOf(m).ids) : \E i \in DOMAIN m : m[i].id = x
       /\ \A i \in DOMAIN m : m[i].id \in User => m[i].id \in Range(OrderOf(m).ids)
  <2> DEFINE q == OrderOf(m).ids
  <2>1. /\ \E e : /\ \A h \in DOMAIN q : e[h] \in DOMAIN m /\ q[h] = m[e[h]].id
                  /\ \A h, k \in DOMAIN q : h < k => e[h] < e[k]
        /\ \A i \in DOMAIN m : m[i].id \in User => \E h \in DOMAIN q : q[h] = m[i].id
    BY <1>7, OrderIs
  <2> HIDE DEF q
  <2>2. Range(q) = {q[h] : h \in DOMAIN q}
    BY DEF Range
  <2>3. \A h \in DOMAIN q : \E i \in DOMAIN m : q[h] = m[i].id
    BY <2>1
  <2>4. \A x \in Range(q) : \E i \in DOMAIN m : m[i].id = x
    BY <2>2, <2>3
  <2>5. \A i \in DOMAIN m : m[i].id \in User => m[i].id \in Range(q)
    BY <2>1, <2>2
  <2> QED BY <2>4, <2>5 DEF q
<1>12. b # "forge"
  <2> SUFFICES ASSUME b = "forge" PROVE FALSE
    OBVIOUS
  <2>1. a \in Range(OrderOf(m).ids)
    BY <1>8, <1>10, <1>11
  <2>2. b \notin Range(OrderOf(m).ids)
    BY <1>5, <1>7, <1>11
  <2>3. \A i \in DOMAIN OrderOf(m).ids : OrderOf(m).ids[i] \in Range(OrderOf(m).ids)
    BY DEF Range
  <2> QED BY <1>10, <2>1, <2>2, <2>3 DEF Comes
<1>13. Before(m, b, a)
  BY <1>7, <1>8, <1>10, <1>12, SavedOrder
<1> QED BY <1>4, <1>7, <1>13, BeforeWithin

\* A step that puts b before a finds them so in the list.
LEMMA EveryStepKeeps ==
  ASSUME IInv, [Next]_vars, ~damaged', ~ResetOrder,
         ~(\E i \in DOMAIN patches, up \in BOOLEAN : Move(i, up)),
         NEW a \in User, NEW b \in User, ~(InstallLegacy /\ a = "forge"),
         Before(Load(files, orderFile, version).list, a, b),
         Before(Load(files', orderFile', version').list, b, a)
  PROVE  Before(patches, b, a)
<1>1. IInv'
  BY EveryStep
<1>2. ~damaged
  BY DamageStays
<1>3. /\ Found(files, orderFile) /\ Loadable(files, orderFile) /\ Lists(files, orderFile, patches)
      /\ version \in Versions /\ ListOf(patches)
  BY <1>2 DEF IInv, RestTyped, Found
<1>4. /\ Found(files', orderFile') /\ Loadable(files', orderFile')
      /\ Lists(files', orderFile', patches')
      /\ version' \in Versions /\ ListOf(patches')
  BY <1>1 DEF IInv, RestTyped, Found
<1>5. files[a].state # "none" /\ files[b].state # "none" /\ Comes(files, orderFile, a, b)
  <2>1. Load(files, orderFile, version).ok
    BY <1>3, LoadableLoads
  <2> QED BY <1>3, <2>1, LoadOrder
<1>6. files'[a].state # "none" /\ files'[b].state # "none" /\ Comes(files', orderFile', b, a)
  <2>1. Load(files', orderFile', version').ok
    BY <1>4, LoadableLoads
  <2> QED BY <1>4, <2>1, LoadOrder
<1>7. Swapped(a, b)
  BY <1>3, <1>4, <1>5, <1>6 DEF Swapped
<1>8. KeepsNumbers(a) /\ KeepsNumbers(b)
  BY <1>1, NumbersKept
<1>9. orderFile' # orderFile
  BY <1>7, <1>8, SwapIsSaved
<1>10. ASSUME NEW i \in DOMAIN patches, RemovePatch(i) PROVE Before(patches, b, a)
  BY <1>7, <1>8, <1>10, RemovePatchKeeps
<1>11. ASSUME NEW i \in DOMAIN patches, Customize(i) \/ Revert(i) PROVE Before(patches, b, a)
  BY <1>2, <1>7, <1>8, <1>11, CustomizeKeeps
<1>12. ASSUME NEW jars \in JarLists, NEW done \in 0..Len(jars), NEW torn \in SUBSET (1..done),
              InstallJarMods(jars, done, torn)
       PROVE  Before(patches, b, a)
  BY <1>7, <1>8, <1>12, InstallJarModsKeeps
<1>13. ASSUME NEW v \in Versions, ChangeVersion(v) PROVE Before(patches, b, a)
  BY <1>7, <1>8, <1>13, ChangeVersionKeeps
<1>14. ~Reload /\ ~(\E id \in Loaders : InstallLoader(id)) /\ ~(\E id \in Ids : EditByHand(id))
       /\ ~UNCHANGED vars
  BY <1>9 DEF Reload, InstallLoader, GiveUp, EditByHand, vars
<1>15. CASE InstallLegacy
  BY <1>7, <1>8, <1>15, InstallLegacyKeeps
<1> QED BY <1>10, <1>11, <1>12, <1>13, <1>14, <1>15 DEF Next

\* The patches keep the order that the user gave them: what is loaded after an operation
\* has two patches the other way round only when the list already had them so, the
\* operation moves a patch or resets the order, or installs a legacy Forge again, which
\* goes behind the others.
THEOREM OrderStaysTheUsers == Spec => OrderIsTheUsers
<1>1. IInv /\ [Next]_vars =>
        [~damaged' =>
           LET old == Load(files, orderFile, version).list
               new == Load(files', orderFile', version').list
           IN \A a, b \in User :
                Before(old, a, b) /\ Before(new, b, a) =>
                  \/ Before(patches, b, a)
                  \/ ResetOrder
                  \/ \E i \in DOMAIN patches, up \in BOOLEAN : Move(i, up)
                  \/ InstallLegacy /\ a = "forge"]_vars
  BY EveryStepKeeps
<1> QED BY <1>1, Inductive, PTL DEF Spec, OrderIsTheUsers
===============================================================================
