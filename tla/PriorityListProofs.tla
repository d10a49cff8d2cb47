------------------------- MODULE PriorityListProofs -------------------------
(***************************************************************************)
(* What the list functions of PriorityList return, for lists of any length *)
(* and any integer keys.                                                   *)
(***************************************************************************)
EXTENDS PriorityList, FiniteSetTheorems, SequenceTheorems, TLAPS

\* A set of naturals that is not empty has a least element, which Min picks.
LEMMA MinIsLeast ==
    ASSUME NEW I \in SUBSET Nat, I # {}
    PROVE  Min(I) \in I /\ \A j \in I : Min(I) <= j
<1> DEFINE R == {ss \in Nat \X Nat : ss[1] < ss[2]}
<1>1. IsWellFoundedOn(R, Nat)
  BY NatLessThanWellFounded DEF OpToRel
<1> HIDE DEF R
<1>2. \E x \in I : \A y \in I : ~ (<<y, x>> \in R)
  BY <1>1, WFMin
<1>3. \E x \in I : \A y \in I : x <= y
  <2>1. PICK x \in I : \A y \in I : ~ (<<y, x>> \in R)
    BY <1>2
  <2>2. \A y \in I : <<y, x>> \in R <=> y < x
    BY DEF R
  <2>3. \A y \in I : ~ (y < x)
    BY <2>1, <2>2
  <2>4. \A y \in I : x \in Int /\ y \in Int
    OBVIOUS
  <2>5. \A y \in I : x <= y
    BY <2>3, <2>4
  <2> QED
    BY <2>5
<1> QED
  BY <1>3 DEF Min

\* A bounded set of naturals that is not empty has a greatest element.
LEMMA MaxIsGreatest ==
    ASSUME NEW n \in Nat, NEW I \in SUBSET (0 .. n), I # {}
    PROVE  Max(I) \in I /\ \A j \in I : j <= Max(I)
<1> DEFINE J == {n - i : i \in I}
           m == n - Min(J)
<1>0. \A i \in I : i \in Int /\ n - i \in Nat
  OBVIOUS
<1>1. J \in SUBSET Nat /\ J # {}
  BY <1>0
<1>2. Min(J) \in J /\ \A j \in J : Min(J) <= j
  BY <1>1, MinIsLeast
<1> HIDE DEF m
<1>3. PICK i \in I : Min(J) = n - i
  BY <1>2
<1>4. m = i
  <2>1. n - (n - i) = i
    BY <1>0
  <2> QED
    BY <1>3, <2>1 DEF m
<1>5. ASSUME NEW j \in I PROVE j <= m
  <2>1. n - j \in J
    OBVIOUS
  <2>2. n - i <= n - j
    BY <1>2, <1>3, <2>1
  <2> QED
    BY <1>4, <2>2
<1> QED
  BY <1>4, <1>5 DEF Max

\* Inserting at a position between two elements, or at an end.
LEMMA InsertAtProperties ==
    ASSUME NEW S, NEW list \in Seq(S), NEW x \in S, NEW p \in 1 .. Len(list) + 1
    PROVE  /\ InsertAt(list, p, x) \in Seq(S)
           /\ Len(InsertAt(list, p, x)) = Len(list) + 1
           /\ \A i \in 1 .. Len(list) + 1 :
                InsertAt(list, p, x)[i] = IF i < p THEN list[i]
                                          ELSE IF i = p THEN x ELSE list[i - 1]
<1> DEFINE front == SubSeq(list, 1, p - 1)
           back == SubSeq(list, p, Len(list))
<1>0. Len(list) \in Nat /\ p \in Int /\ p - 1 \in Int
  OBVIOUS
<1>1. /\ front \in Seq(S) /\ Len(front) = p - 1
      /\ \A i \in 1 .. p - 1 : front[i] = list[i]
  <2>1. \A i \in 1 .. p - 1 : list[i] \in S
    BY <1>0, ElementOfSeq
  <2> QED
    BY <2>1, <1>0, SubSeqProperties
<1>2. /\ back \in Seq(S) /\ Len(back) = Len(list) - p + 1
      /\ \A i \in 1 .. Len(list) - p + 1 : back[i] = list[p + i - 1]
  <2>1. \A i \in p .. Len(list) : list[i] \in S
    BY <1>0, ElementOfSeq
  <2> QED
    BY <2>1, <1>0, SubSeqProperties
<1>3. <<x>> \in Seq(S) /\ Len(<<x>>) = 1 /\ <<x>>[1] = x
  OBVIOUS
<1> DEFINE upto == front \o <<x>>
           all == upto \o back
<1> HIDE DEF front, back
<1>4. /\ upto \in Seq(S) /\ Len(upto) = p
      /\ \A i \in 1 .. p : upto[i] = IF i <= p - 1 THEN front[i] ELSE x
  <2>1. Len(front) + Len(<<x>>) = p
    BY <1>0, <1>1, <1>3
  <2>2. \A i \in 1 .. p : i > p - 1 => i - (p - 1) = 1
    BY <1>0
  <2>3. /\ upto \in Seq(S) /\ Len(upto) = Len(front) + Len(<<x>>)
        /\ \A i \in 1 .. Len(front) + Len(<<x>>) :
              upto[i] = IF i <= Len(front) THEN front[i] ELSE <<x>>[i - Len(front)]
    <3>1. front \in Seq(S) /\ <<x>> \in Seq(S)
      BY <1>1, <1>3
    <3> QED
      BY <3>1, ConcatProperties
  <2> HIDE DEF upto
  <2> QED
    BY <1>1, <1>3, <2>1, <2>2, <2>3
<1> HIDE DEF upto
<1>5. /\ all \in Seq(S)
      /\ Len(all) = Len(list) + 1
      /\ \A i \in 1 .. Len(list) + 1 : all[i] = IF i <= p THEN upto[i] ELSE back[i - p]
  <2>1. Len(upto) + Len(back) = Len(list) + 1
    BY <1>0, <1>2, <1>4
  <2> QED
    BY <1>2, <1>4, <2>1, ConcatProperties
<1> HIDE DEF all
<1>6. ASSUME NEW i \in 1 .. Len(list) + 1
      PROVE  all[i] = IF i < p THEN list[i] ELSE IF i = p THEN x ELSE list[i - 1]
  <2>1. CASE i < p
    BY <2>1, <1>0, <1>1, <1>4, <1>5
  <2>2. CASE i = p
    BY <2>2, <1>0, <1>4, <1>5
  <2>3. CASE i > p
    <3>1. i - p \in 1 .. Len(list) - p + 1 /\ p + (i - p) - 1 = i - 1
      BY <2>3, <1>0
    <3>2. back[i - p] = list[p + (i - p) - 1]
      BY <3>1, <1>2
    <3>3. all[i] = back[i - p]
      BY <2>3, <1>0, <1>5
    <3>4. ~ (i < p) /\ i # p
      BY <2>3, <1>0
    <3> QED
      BY <3>1, <3>2, <3>3, <3>4
  <2> QED
    BY <2>1, <2>2, <2>3, <1>0
<1>7. InsertAt(list, p, x) = all
  BY DEF InsertAt, all, upto, front, back
<1> QED
  BY <1>5, <1>6, <1>7

\* The position list_insert_ordered() finds: nothing in front of it comes
\* after x, and what is at it, if anything, does.
LEMMA InsertPosProperties ==
    ASSUME NEW S, NEW list \in Seq(S), NEW x \in S, NEW key, \A e \in S : key[e] \in Int
    PROVE  /\ InsertPos(list, x, key) \in 1 .. Len(list) + 1
           /\ \A i \in 1 .. Len(list) : i < InsertPos(list, x, key)
                => key[x] <= key[list[i]]
           /\ InsertPos(list, x, key) <= Len(list)
                => key[list[InsertPos(list, x, key)]] < key[x]
<1> DEFINE behind == {i \in DOMAIN list : Less(key, x, list[i])}
<1>1. DOMAIN list = 1 .. Len(list) /\ Len(list) \in Nat
  OBVIOUS
<1>2. \A i \in 1 .. Len(list) : key[list[i]] \in Int /\ key[x] \in Int
  BY ElementOfSeq
<1>3. CASE behind = {}
  BY <1>1, <1>2, <1>3 DEF InsertPos, Less
<1>4. CASE behind # {}
  <2>1. behind \in SUBSET Nat
    BY <1>1
  <2>2. Min(behind) \in behind /\ \A j \in behind : Min(behind) <= j
    BY <1>4, <2>1, MinIsLeast
  <2>3. InsertPos(list, x, key) = Min(behind)
    BY <1>4 DEF InsertPos
  <2> DEFINE p == InsertPos(list, x, key)
  <2>4. p \in 1 .. Len(list) /\ key[x] > key[list[p]]
    BY <1>1, <2>2, <2>3 DEF Less
  <2>5. ASSUME NEW i \in 1 .. Len(list), i < p
        PROVE  key[x] <= key[list[i]]
    <3>1. i \notin behind
      <4>1. SUFFICES ASSUME i \in behind PROVE FALSE
        OBVIOUS
      <4>2. p <= i
        BY <4>1, <2>2, <2>3
      <4> QED
        BY <4>2, <2>4, <2>5, <1>1
    <3> QED
      BY <3>1, <1>1, <1>2 DEF Less
  <2> HIDE DEF p
  <2>6. p \in 1 .. Len(list) + 1 /\ key[list[p]] < key[x]
    BY <1>1, <1>2, <2>4
  <2> QED
    BY <2>5, <2>6 DEF p
<1> QED
  BY <1>3, <1>4

\* list_insert_ordered() links x into the list.
LEMMA InsertOrderedType ==
    ASSUME NEW S, NEW list \in Seq(S), NEW x \in S, NEW key, \A e \in S : key[e] \in Int
    PROVE  list_insert_ordered(list, x, key) \in Seq(S)
BY InsertPosProperties, InsertAtProperties DEF list_insert_ordered

\* list_insert_ordered() keeps a list sorted: the ready list and the list of
\* sleepers stay in order as long as no key of theirs changes.
THEOREM InsertKeepsSorted ==
    ASSUME NEW S, NEW list \in Seq(S), NEW x \in S, NEW key, \A e \in S : key[e] \in Int,
           Sorted(list, key)
    PROVE  Sorted(list_insert_ordered(list, x, key), key)
<1> DEFINE p == InsertPos(list, x, key)
           new == list_insert_ordered(list, x, key)
<1>1. Len(list) \in Nat /\ DOMAIN list = 1 .. Len(list)
  OBVIOUS
<1>2. p \in 1 .. Len(list) + 1
  BY InsertPosProperties
<1>3. \A i \in 1 .. Len(list) : i < p => key[x] <= key[list[i]]
  BY InsertPosProperties
<1>4. p <= Len(list) => key[list[p]] < key[x]
  BY InsertPosProperties
<1>5. \A i \in 1 .. Len(list) : key[list[i]] \in Int /\ key[x] \in Int
  BY ElementOfSeq
<1>6. \A i, j \in 1 .. Len(list) : i < j => key[list[j]] <= key[list[i]]
  BY <1>1, <1>5 DEF Sorted, Less
<1>7. \A j \in 1 .. Len(list) : p <= j => key[list[j]] < key[x]
  <2>1. SUFFICES ASSUME NEW j \in 1 .. Len(list), p <= j
                 PROVE  key[list[j]] < key[x]
    OBVIOUS
  <2>2. p \in 1 .. Len(list) /\ p <= Len(list)
    BY <1>1, <1>2, <2>1
  <2>3. key[list[j]] <= key[list[p]]
    BY <1>6, <2>1, <2>2, <1>5
  <2> QED
    BY <1>4, <1>5, <2>2, <2>3
<1> HIDE DEF p
<1>8. /\ new \in Seq(S) /\ Len(new) = Len(list) + 1
      /\ \A i \in 1 .. Len(list) + 1 :
           new[i] = IF i < p THEN list[i] ELSE IF i = p THEN x ELSE list[i - 1]
  <2> DEFINE at == InsertAt(list, p, x)
  <2>1. /\ at \in Seq(S) /\ Len(at) = Len(list) + 1
        /\ \A i \in 1 .. Len(list) + 1 :
             at[i] = IF i < p THEN list[i] ELSE IF i = p THEN x ELSE list[i - 1]
    <3>1. at \in Seq(S)
      BY <1>2, InsertAtProperties
    <3>2. Len(at) = Len(list) + 1
      BY <1>2, InsertAtProperties
    <3>3. ASSUME NEW i \in 1 .. Len(list) + 1
          PROVE  at[i] = IF i < p THEN list[i] ELSE IF i = p THEN x ELSE list[i - 1]
      BY <1>2, InsertAtProperties
    <3> QED
      BY <3>1, <3>2, <3>3
  <2>2. new = at
    BY DEF list_insert_ordered, p
  <2> QED
    BY <2>1, <2>2
<1> HIDE DEF new
<1>9. ASSUME NEW i \in 1 .. Len(list) + 1, NEW j \in 1 .. Len(list) + 1, i < j
      PROVE  key[new[j]] <= key[new[i]]
  <2>1. CASE j < p
    BY <1>1, <1>2, <1>6, <1>8, <1>9, <2>1
  <2>2. CASE j = p
    <3>1. i \in 1 .. Len(list) /\ i < p
      BY <1>1, <1>2, <1>9, <2>2
    <3>2. new[i] = list[i] /\ new[j] = x
      BY <1>2, <1>8, <2>2, <3>1
    <3> QED
      BY <1>3, <3>1, <3>2
  <2>3. CASE j > p /\ i = p
    <3>1. j - 1 \in 1 .. Len(list) /\ p <= j - 1 /\ ~ (j < p) /\ j # p
      BY <1>1, <1>2, <2>3
    <3>2. key[list[j - 1]] < key[x]
      BY <1>7, <3>1
    <3>3. new[j] = list[j - 1] /\ new[i] = x
      BY <1>2, <1>8, <2>3, <3>1
    <3> QED
      BY <1>5, <3>1, <3>2, <3>3
  <2>4. CASE j > p /\ i < p
    <3>1. j - 1 \in 1 .. Len(list) /\ ~ (j < p) /\ j # p
      BY <1>1, <1>2, <2>4
    <3>2. i \in 1 .. Len(list) /\ i < j - 1
      BY <1>1, <1>2, <1>9, <2>4
    <3>3. new[j] = list[j - 1] /\ new[i] = list[i]
      BY <1>8, <2>4, <3>1
    <3> QED
      BY <1>6, <3>1, <3>2, <3>3
  <2>5. CASE j > p /\ i > p
    <3>1. /\ j - 1 \in 1 .. Len(list) /\ ~ (j < p) /\ j # p
          /\ i - 1 \in 1 .. Len(list) /\ ~ (i < p) /\ i # p /\ i - 1 < j - 1
      BY <1>1, <1>2, <1>9, <2>5
    <3>2. new[j] = list[j - 1] /\ new[i] = list[i - 1]
      BY <1>8, <3>1
    <3> QED
      BY <1>6, <3>1, <3>2
  <2> QED
    BY <1>2, <2>1, <2>2, <2>3, <2>4, <2>5
<1>10. \A i \in 1 .. Len(list) + 1 : new[i] \in S /\ key[new[i]] \in Int
  BY <1>8, ElementOfSeq
<1>11. DOMAIN new = 1 .. Len(list) + 1
  BY <1>8
<1> QED
  BY <1>9, <1>10, <1>11 DEF Sorted, Less, new

\* list_remove() leaves a list of the elements there were.
LEMMA RemoveType ==
    ASSUME NEW S, NEW list \in Seq(S), NEW x
    PROVE  list_remove(list, x) \in Seq(S)
<1>1. CASE ~ \E i \in 1 .. Len(list) : list[i] = x
  BY <1>1 DEF list_remove, RemoveFirst
<1>2. CASE \E i \in 1 .. Len(list) : list[i] = x
  <2> DEFINE I == {i \in 1 .. Len(list) : list[i] = x}
             p == Min(I)
             front == SubSeq(list, 1, p - 1)
             back == SubSeq(list, p + 1, Len(list))
  <2>1. I \in SUBSET Nat /\ I # {}
    BY <1>2
  <2>2. p \in I
    BY <2>1, MinIsLeast
  <2> HIDE DEF p
  <2>3. p \in 1 .. Len(list) /\ Len(list) \in Nat
    BY <2>2
  <2>4. front \in Seq(S)
    <3>1. \A i \in 1 .. p - 1 : list[i] \in S
      BY <2>3, ElementOfSeq
    <3> QED
      BY <3>1, <2>3, SubSeqProperties
  <2>5. back \in Seq(S)
    <3>1. \A i \in p + 1 .. Len(list) : list[i] \in S
      BY <2>3, ElementOfSeq
    <3> QED
      BY <3>1, <2>3, SubSeqProperties
  <2>6. list_remove(list, x) = front \o back
    BY <1>2, <2>1 DEF list_remove, RemoveFirst, RemoveAt, SelectInSeq, p
  <2> QED
    BY <2>4, <2>5, <2>6, ConcatProperties
<1> QED
  BY <1>1, <1>2

\* list_remove() takes one place out of the list, the first that holds x.
LEMMA RemovePlaces ==
    ASSUME NEW S, NEW list \in Seq(S), NEW x, \E i \in 1 .. Len(list) : list[i] = x
    PROVE  \E p \in 1 .. Len(list) :
              /\ list[p] = x /\ Len(list) \in Nat
              /\ DOMAIN list_remove(list, x) = 1 .. Len(list) - 1
              /\ \A i \in 1 .. Len(list) - 1 :
                    list_remove(list, x)[i] = IF i < p THEN list[i] ELSE list[i + 1]
<1> DEFINE I == {i \in 1 .. Len(list) : list[i] = x}
           p == Min(I)
           rest == list_remove(list, x)
<1>1. I \in SUBSET Nat /\ I # {}
  OBVIOUS
<1>2. p \in I
  BY <1>1, MinIsLeast
<1>3. rest = SubSeq(list, 1, p - 1) \o SubSeq(list, p + 1, Len(list))
  BY <1>1 DEF list_remove, RemoveFirst, RemoveAt, SelectInSeq
<1> HIDE DEF p, rest
<1>4. p \in 1 .. Len(list) /\ list[p] = x /\ Len(list) \in Nat
  BY <1>2
<1>5. rest \in Seq(S) /\ Len(rest) = Len(list) - 1
      /\ \A i \in 1 .. Len(rest) : rest[i] = IF i < p THEN list[i] ELSE list[i + 1]
  <2> DEFINE front == SubSeq(list, 1, p - 1)
             back == SubSeq(list, p + 1, Len(list))
  <2>1. /\ front \in Seq(S) /\ Len(front) = p - 1
        /\ \A i \in 1 .. p - 1 : front[i] = list[i]
    <3>1. \A i \in 1 .. p - 1 : list[i] \in S
      BY <1>4, ElementOfSeq
    <3> QED
      BY <1>4, <3>1, SubSeqProperties
  <2>2. /\ back \in Seq(S) /\ Len(back) = Len(list) - p
        /\ \A i \in 1 .. Len(list) - p : back[i] = list[p + i]
    <3>1. \A i \in p + 1 .. Len(list) : list[i] \in S
      BY <1>4, ElementOfSeq
    <3> QED
      BY <1>4, <3>1, SubSeqProperties
  <2> HIDE DEF front, back
  <2>3. /\ front \o back \in Seq(S) /\ Len(front \o back) = Len(front) + Len(back)
        /\ \A i \in 1 .. Len(front) + Len(back) :
             (front \o back)[i] = IF i <= Len(front) THEN front[i] ELSE back[i - Len(front)]
    BY <2>1, <2>2, ConcatProperties
  <2>4. rest = front \o back
    BY <1>3 DEF front, back
  <2>5. Len(rest) = Len(list) - 1
    BY <1>4, <2>1, <2>2, <2>3, <2>4, SMTT(30)
  <2>6. ASSUME NEW i \in 1 .. Len(rest) PROVE rest[i] = IF i < p THEN list[i] ELSE list[i + 1]
    <3>1. CASE i < p
      BY <1>4, <2>1, <2>2, <2>3, <2>4, <2>5, <3>1
    <3>2. CASE i >= p
      <4>1. rest[i] = back[i - (p - 1)]
        BY <1>4, <2>1, <2>2, <2>3, <2>4, <2>5, <3>2
      <4>2. i - (p - 1) \in 1 .. Len(list) - p
        BY <1>4, <2>5, <3>2
      <4>3. p + (i - (p - 1)) = i + 1
        BY <1>4
      <4> QED
        BY <1>4, <2>2, <3>2, <4>1, <4>2, <4>3
    <3> QED
      BY <1>4, <3>1, <3>2
  <2> QED
    BY <2>3, <2>4, <2>5, <2>6
<1>6. DOMAIN rest = 1 .. Len(list) - 1 /\ \A i \in 1 .. Len(list) - 1 :
         rest[i] = IF i < p THEN list[i] ELSE list[i + 1]
  BY <1>4, <1>5
<1> QED
  BY <1>4, <1>6 DEF rest

\* list_remove() of an element that is in the list once leaves the others,
\* once each; of one that is not in it, leaves the list.
LEMMA RemoveUnique ==
    ASSUME NEW S, NEW list \in Seq(S), IsInjective(list), NEW x
    PROVE  /\ IsInjective(list_remove(list, x))
           /\ ToSet(list_remove(list, x)) = ToSet(list) \ {x}
<1>1. CASE ~ \E i \in 1 .. Len(list) : list[i] = x
  BY <1>1 DEF list_remove, RemoveFirst, ToSet
<1>2. CASE \E i \in 1 .. Len(list) : list[i] = x
  <2> DEFINE rest == list_remove(list, x)
  <2>4. PICK p \in 1 .. Len(list) :
           /\ list[p] = x /\ Len(list) \in Nat
           /\ DOMAIN rest = 1 .. Len(list) - 1
           /\ \A i \in 1 .. Len(list) - 1 :
                 rest[i] = IF i < p THEN list[i] ELSE list[i + 1]
    BY <1>2, RemovePlaces
  <2> HIDE DEF rest
  <2>6. DOMAIN rest = 1 .. Len(list) - 1 /\ DOMAIN list = 1 .. Len(list)
    BY <2>4
  <2>7. \A i \in DOMAIN rest : rest[i] = IF i < p THEN list[i] ELSE list[i + 1]
    BY <2>4, <2>6
  <2>8. \A i, j \in DOMAIN list : list[i] = list[j] => i = j
    BY DEF IsInjective
  <2>9. IsInjective(rest)
    <3> SUFFICES ASSUME NEW i \in DOMAIN rest, NEW j \in DOMAIN rest, rest[i] = rest[j]
                 PROVE  i = j
      BY DEF IsInjective
    <3>1. i \in DOMAIN list /\ i + 1 \in DOMAIN list /\ j \in DOMAIN list /\ j + 1 \in DOMAIN list
      BY <2>6
    <3> QED
      BY <2>4, <2>6, <2>7, <2>8, <3>1
  <2>10. ASSUME NEW y PROVE y \in ToSet(rest) <=> y \in ToSet(list) /\ y # x
    <3>1. ASSUME NEW i \in DOMAIN rest, y = rest[i] PROVE y \in ToSet(list) /\ y # x
      <4>1. i \in DOMAIN list /\ i + 1 \in DOMAIN list
        BY <2>6
      <4> QED
        BY <2>4, <2>6, <2>7, <2>8, <3>1, <4>1 DEF ToSet
    <3>2. ASSUME NEW i \in DOMAIN list, y = list[i], y # x PROVE y \in ToSet(rest)
      <4>1. CASE i < p
        <5>1. i \in DOMAIN rest /\ rest[i] = y
          BY <2>4, <2>6, <2>7, <3>2, <4>1
        <5> QED
          BY <5>1 DEF ToSet
      <4>2. CASE i > p
        <5>1. i - 1 \in DOMAIN rest /\ rest[i - 1] = y
          BY <2>4, <2>6, <2>7, <3>2, <4>2
        <5> QED
          BY <5>1 DEF ToSet
      <4> QED
        BY <2>4, <2>6, <3>2, <4>1, <4>2
    <3> QED
      BY <3>1, <3>2 DEF ToSet
  <2> QED
    BY <2>9, <2>10 DEF rest
<1> QED
  BY <1>1, <1>2

\* list_push_front() and list_pop_front() of lists without repetitions.
LEMMA PushFrontUnique ==
    ASSUME NEW S, NEW list \in Seq(S), IsInjective(list), NEW x, x \notin ToSet(list)
    PROVE  IsInjective(<<x>> \o list) /\ ToSet(<<x>> \o list) = {x} \cup ToSet(list)
<1> DEFINE new == <<x>> \o list
<1>1. Len(list) \in Nat /\ DOMAIN list = 1 .. Len(list)
  OBVIOUS
<1>2. DOMAIN new = 1 .. Len(list) + 1 /\ new[1] = x
      /\ \A i \in DOMAIN list : new[i + 1] = list[i]
  OBVIOUS
<1>3. \A i \in DOMAIN new : i = 1 \/ (i - 1 \in DOMAIN list /\ new[i] = list[i - 1])
  BY <1>1, <1>2
<1> HIDE DEF new
<1>4. IsInjective(new)
  BY <1>1, <1>2, <1>3 DEF IsInjective, ToSet
<1>5. ToSet(new) \subseteq {x} \cup ToSet(list)
  BY <1>2, <1>3 DEF ToSet
<1>6. \A i \in DOMAIN list : i + 1 \in DOMAIN new
  BY <1>1, <1>2
<1>7. 1 \in DOMAIN new
  BY <1>1, <1>2
<1>8. {x} \cup ToSet(list) \subseteq ToSet(new)
  BY <1>2, <1>6, <1>7 DEF ToSet
<1> QED
  BY <1>4, <1>5, <1>8 DEF new

LEMMA PopFrontUnique ==
    ASSUME NEW S, NEW list \in Seq(S), IsInjective(list), list # <<>>
    PROVE  /\ Head(list) \in ToSet(list) /\ IsInjective(Tail(list))
           /\ ToSet(Tail(list)) = ToSet(list) \ {Head(list)}
<1> DEFINE rest == Tail(list)
<1>1. Len(list) \in Nat \ {0} /\ DOMAIN list = 1 .. Len(list) /\ Head(list) = list[1]
  OBVIOUS
<1>2. DOMAIN rest = 1 .. Len(list) - 1 /\ \A i \in DOMAIN rest : rest[i] = list[i + 1]
  OBVIOUS
<1> HIDE DEF rest
<1>3. \A i, j \in DOMAIN list : list[i] = list[j] => i = j
  BY DEF IsInjective
<1>4. \A i \in DOMAIN rest : i + 1 \in DOMAIN list /\ i + 1 # 1
  BY <1>1, <1>2
<1>5. IsInjective(rest)
  BY <1>1, <1>2, <1>3, <1>4 DEF IsInjective
<1>6. 1 \in DOMAIN list
  BY <1>1
<1>7. ASSUME NEW y PROVE y \in ToSet(rest) <=> y \in ToSet(list) /\ y # list[1]
  <2>1. ASSUME NEW i \in DOMAIN rest, y = rest[i] PROVE y \in ToSet(list) /\ y # list[1]
    BY <1>2, <1>3, <1>4, <1>6, <2>1 DEF ToSet
  <2>2. ASSUME NEW i \in DOMAIN list, y = list[i], y # list[1] PROVE y \in ToSet(rest)
    <3>1. i # 1 /\ i - 1 \in DOMAIN rest /\ rest[i - 1] = y
      BY <1>1, <1>2, <2>2
    <3> QED
      BY <3>1 DEF ToSet
  <2> QED
    BY <2>1, <2>2 DEF ToSet
<1>8. Head(list) \in ToSet(list)
  BY <1>1, <1>6 DEF ToSet
<1> QED
  BY <1>1, <1>5, <1>7, <1>8 DEF rest

\* list_pop_back() of a list that is not empty.
LEMMA FrontLastType ==
    ASSUME NEW S, NEW list \in Seq(S), list # <<>>
    PROVE  Front(list) \in Seq(S) /\ Last(list) \in S
<1>1. Len(list) \in Nat \ {0}
  BY EmptySeq
<1>2. Last(list) \in S
  BY <1>1, ElementOfSeq DEF Last
<1>3. \A i \in 1 .. Len(list) - 1 : list[i] \in S
  BY <1>1, ElementOfSeq
<1>4. SubSeq(list, 1, Len(list) - 1) \in Seq(S)
  BY <1>1, <1>3, SubSeqProperties
<1> QED
  BY <1>2, <1>4 DEF Front

-----------------------------------------------------------------------------
(* list_sort.                                                              *)

\* The positions before which position i goes, when sorted.
Preceding(list, key, i) == {j \in DOMAIN list : Precedes(list, key, j, i)}

\* Of two positions, the one that goes first has the lower rank.
LEMMA RankMonotonic ==
    ASSUME NEW S, NEW list \in Seq(S), NEW key, \A e \in S : key[e] \in Int,
           NEW i \in 1 .. Len(list)
    PROVE  /\ Rank(list, key, i) \in 1 .. Len(list)
           /\ \A j \in 1 .. Len(list) : Precedes(list, key, j, i)
                => Rank(list, key, j) < Rank(list, key, i)
<1> DEFINE n == Len(list)
           B(j) == Preceding(list, key, j)
<1>1. n \in Nat /\ DOMAIN list = 1 .. n
  OBVIOUS
<1>2. \A j \in 1 .. n : key[list[j]] \in Int
  BY ElementOfSeq
<1>3. IsFiniteSet(1 .. n) /\ Cardinality(1 .. n) = n
  BY <1>1, FS_Interval, SMTT(30)
<1>4. ASSUME NEW j \in 1 .. n
      PROVE  /\ B(j) \in SUBSET (1 .. n) /\ j \notin B(j)
             /\ IsFiniteSet(B(j)) /\ Cardinality(B(j)) \in Nat
             /\ Rank(list, key, j) = Cardinality(B(j)) + 1
  <2>1. B(j) \in SUBSET (1 .. n)
    BY <1>1 DEF Preceding
  <2>2. j \notin B(j)
    BY <1>2 DEF Preceding, Precedes, Less
  <2>3. IsFiniteSet(B(j))
    BY <1>3, <2>1, FS_Subset
  <2>4. Cardinality(B(j)) \in Nat
    BY <2>3, FS_CardinalityType
  <2>5. Rank(list, key, j) = Cardinality(B(j)) + 1
    BY DEF Rank, Preceding
  <2> QED
    BY <2>1, <2>2, <2>3, <2>4, <2>5
<1>5. Rank(list, key, i) \in 1 .. n
  <2> DEFINE others == (1 .. n) \ {i}
  <2>1. IsFiniteSet(others) /\ Cardinality(others) = n - 1
    BY <1>3, FS_RemoveElement
  <2>2. B(i) \in SUBSET others
    BY <1>4
  <2>3. Cardinality(B(i)) <= Cardinality(others)
    BY <2>1, <2>2, FS_Subset
  <2> HIDE DEF B
  <2> QED
    BY <1>1, <1>4, <2>1, <2>3
<1>6. ASSUME NEW j \in 1 .. n, Precedes(list, key, j, i)
      PROVE  Rank(list, key, j) < Rank(list, key, i)
  <2> DEFINE more == B(j) \union {j}
  <2>1. IsFiniteSet(more) /\ Cardinality(more) = Cardinality(B(j)) + 1
    BY <1>4, FS_AddElement
  <2>2. more \in SUBSET B(i)
    <3>1. j \in B(i)
      BY <1>1, <1>6 DEF Preceding
    <3>2. ASSUME NEW k \in B(j) PROVE k \in B(i)
      <4>1. k \in 1 .. n /\ Precedes(list, key, k, j)
        BY <1>1, <3>2 DEF Preceding
      <4>2. Precedes(list, key, k, i)
        BY <4>1, <1>2, <1>6 DEF Precedes, Less
      <4> QED
        BY <1>1, <4>1, <4>2 DEF Preceding
    <3> QED
      BY <3>1, <3>2
  <2>3. Cardinality(more) <= Cardinality(B(i))
    BY <1>4, <2>2, FS_Subset
  <2> HIDE DEF B
  <2> QED
    BY <1>4, <2>1, <2>3
<1> QED
  BY <1>5, <1>6

\* Every place in the sorted list belongs to exactly one position.
LEMMA RankIsOnto ==
    ASSUME NEW S, NEW list \in Seq(S), NEW key, \A e \in S : key[e] \in Int,
           NEW k \in 1 .. Len(list)
    PROVE  \E i \in 1 .. Len(list) : Rank(list, key, i) = k
<1> DEFINE D == 1 .. Len(list)
           rank == [i \in D |-> Rank(list, key, i)]
<1>1. Len(list) \in Nat /\ IsFiniteSet(D)
  BY FS_Interval
<1>2. \A i \in D : key[list[i]] \in Int
  BY ElementOfSeq
<1>3. \A i \in D : Rank(list, key, i) \in D
  BY RankMonotonic
<1>4. \A i, j \in D : Precedes(list, key, j, i)
                        => Rank(list, key, j) < Rank(list, key, i)
  BY RankMonotonic
<1>5. \A i, j \in D : i # j => Precedes(list, key, i, j) \/ Precedes(list, key, j, i)
  BY <1>1, <1>2 DEF Precedes, Less
<1>6. \A i, j \in D : i # j => Rank(list, key, i) # Rank(list, key, j)
  <2>1. SUFFICES ASSUME NEW i \in D, NEW j \in D, i # j
                 PROVE  Rank(list, key, i) # Rank(list, key, j)
    OBVIOUS
  <2>2. Rank(list, key, i) \in Int /\ Rank(list, key, j) \in Int
    BY <1>3
  <2>3. CASE Precedes(list, key, i, j)
    BY <1>4, <2>2, <2>3
  <2>4. CASE Precedes(list, key, j, i)
    BY <1>4, <2>2, <2>4
  <2> QED
    BY <1>5, <2>1, <2>3, <2>4
<1>7. rank \in Injection(D, D)
  BY <1>3, <1>6 DEF Injection, IsInjective
<1>8. rank \in Surjection(D, D)
  BY <1>1, <1>7, FS_Injection
<1> QED
  BY <1>8 DEF Surjection

\* The position whose element list_sort() puts at place k.
SourceOf(list, key, k) == CHOOSE i \in DOMAIN list : Rank(list, key, i) = k

\* list_sort() puts at place k the element whose rank is k.
LEMMA SortedPlaces ==
    ASSUME NEW S, NEW list \in Seq(S), NEW key, \A e \in S : key[e] \in Int,
           NEW k \in 1 .. Len(list)
    PROVE  /\ SourceOf(list, key, k) \in 1 .. Len(list)
           /\ Rank(list, key, SourceOf(list, key, k)) = k
           /\ list_sort(list, key)[k] = list[SourceOf(list, key, k)]
<1>1. DOMAIN list = 1 .. Len(list)
  OBVIOUS
<1>2. \E i \in 1 .. Len(list) : Rank(list, key, i) = k
  BY RankIsOnto
<1> QED
  BY <1>1, <1>2 DEF list_sort, SourceOf

\* list_sort() returns a list of the elements there were, as long as before.
LEMMA SortType ==
    ASSUME NEW S, NEW list \in Seq(S), NEW key, \A e \in S : key[e] \in Int
    PROVE  /\ list_sort(list, key) \in Seq(S)
           /\ Len(list_sort(list, key)) = Len(list)
<1> DEFINE new == list_sort(list, key)
<1>1. Len(list) \in Nat /\ DOMAIN list = 1 .. Len(list)
  OBVIOUS
<1>2. DOMAIN new = 1 .. Len(list)
  BY <1>1 DEF list_sort
<1>3. ASSUME NEW k \in 1 .. Len(list) PROVE new[k] \in S
  <2>1. SourceOf(list, key, k) \in 1 .. Len(list)
    BY SortedPlaces
  <2>2. new[k] = list[SourceOf(list, key, k)]
    BY SortedPlaces
  <2> QED
    BY <2>1, <2>2, ElementOfSeq
<1>4. new = [k \in 1 .. Len(list) |-> new[k]]
  BY <1>1 DEF list_sort
<1> HIDE DEF new
<1>5. new \in [1 .. Len(list) -> S]
  BY <1>3, <1>4
<1>6. new \in Seq(S)
  BY <1>1, <1>5, SeqDef
<1> QED
  BY <1>1, <1>2, <1>6 DEF new

\* list_sort() sorts: sema_up() and cond_signal() take a waiter that none of
\* the others outranks.
THEOREM SortSorts ==
    ASSUME NEW S, NEW list \in Seq(S), NEW key, \A e \in S : key[e] \in Int
    PROVE  Sorted(list_sort(list, key), key)
<1>0. ASSUME NEW k \in 1 .. Len(list)
      PROVE  /\ SourceOf(list, key, k) \in 1 .. Len(list)
             /\ Rank(list, key, SourceOf(list, key, k)) = k
             /\ list_sort(list, key)[k] = list[SourceOf(list, key, k)]
  <2>1. SourceOf(list, key, k) \in 1 .. Len(list)
    BY SortedPlaces
  <2>2. Rank(list, key, SourceOf(list, key, k)) = k
    <3>1. \E i \in 1 .. Len(list) : Rank(list, key, i) = k
      BY RankIsOnto
    <3> QED
      BY <3>1 DEF SourceOf
  <2>3. list_sort(list, key)[k] = list[SourceOf(list, key, k)]
    BY SortedPlaces
  <2> QED
    BY <2>1, <2>2, <2>3
<1> DEFINE new == list_sort(list, key)
<1>1. DOMAIN list = 1 .. Len(list) /\ DOMAIN new = 1 .. Len(list)
  BY DEF list_sort
<1>2. SUFFICES ASSUME NEW k \in 1 .. Len(list), NEW m \in 1 .. Len(list), k < m
               PROVE  ~ Less(key, new[m], new[k])
  BY <1>1 DEF Sorted, new
<1> HIDE DEF new
<1>3. PICK i \in 1 .. Len(list) : Rank(list, key, i) = k /\ new[k] = list[i]
  BY <1>0 DEF new
<1>4. PICK j \in 1 .. Len(list) : Rank(list, key, j) = m /\ new[m] = list[j]
  BY <1>0 DEF new
<1>5. Precedes(list, key, j, i) => Rank(list, key, j) < Rank(list, key, i)
  BY RankMonotonic
<1>6. ~ Precedes(list, key, j, i)
  BY <1>2, <1>3, <1>4, <1>5
<1> QED
  BY <1>3, <1>4, <1>6 DEF Precedes

-----------------------------------------------------------------------------
(* Lists in which nothing is linked twice, and what they hold.             *)

\* list_insert_ordered() and list_push_back() link one more element.
LEMMA InsertUnique ==
    ASSUME NEW S, NEW list \in Seq(S), NEW x \in S, NEW key, \A e \in S : key[e] \in Int,
           IsInjective(list), x \notin ToSet(list)
    PROVE  /\ IsInjective(list_insert_ordered(list, x, key))
           /\ ToSet(list_insert_ordered(list, x, key)) = ToSet(list) \cup {x}
<1> DEFINE p == InsertPos(list, x, key)
           new == list_insert_ordered(list, x, key)
<1>1. Len(list) \in Nat /\ DOMAIN list = 1 .. Len(list)
  OBVIOUS
<1>2. p \in 1 .. Len(list) + 1
  BY InsertPosProperties
<1> HIDE DEF p
<1>3. new = InsertAt(list, p, x)
  BY DEF list_insert_ordered, p
<1>4. /\ new \in Seq(S) /\ Len(new) = Len(list) + 1
      /\ \A i \in 1 .. Len(list) + 1 :
           new[i] = IF i < p THEN list[i] ELSE IF i = p THEN x ELSE list[i - 1]
  BY <1>2, <1>3, InsertAtProperties
<1> HIDE DEF new
<1>5. DOMAIN new = 1 .. Len(list) + 1
  BY <1>4
<1>6. \A i \in DOMAIN list : list[i] # x
  BY DEF ToSet
<1>7. \A i, j \in DOMAIN list : list[i] = list[j] => i = j
  BY DEF IsInjective
<1>8. ASSUME NEW i \in DOMAIN new
      PROVE  \/ i < p /\ i \in DOMAIN list /\ new[i] = list[i]
             \/ i = p /\ new[i] = x
             \/ i > p /\ i - 1 \in DOMAIN list /\ new[i] = list[i - 1]
  BY <1>1, <1>2, <1>4, <1>5
<1>9. ASSUME NEW i \in DOMAIN new, NEW j \in DOMAIN new, new[i] = new[j]
      PROVE  i = j
  BY <1>1, <1>2, <1>5, <1>6, <1>7, <1>8, <1>9
<1>10. p \in DOMAIN new /\ new[p] = x
  BY <1>1, <1>2, <1>4, <1>5
<1>11. ASSUME NEW i \in DOMAIN list
       PROVE  \E j \in DOMAIN new : new[j] = list[i]
  <2>1. CASE i < p
    BY <1>1, <1>2, <1>4, <1>5, <2>1
  <2>2. CASE ~ (i < p)
    <3>1. i + 1 \in DOMAIN new /\ ~ (i + 1 < p) /\ i + 1 # p /\ (i + 1) - 1 = i
      BY <1>1, <1>2, <1>5, <2>2
    <3> QED
      BY <1>4, <1>5, <3>1
  <2> QED
    BY <2>1, <2>2
<1>12. ToSet(new) = ToSet(list) \cup {x}
  BY <1>8, <1>10, <1>11 DEF ToSet
<1> QED
  BY <1>9, <1>12 DEF IsInjective, new

LEMMA PushBackUnique ==
    ASSUME NEW S, NEW list \in Seq(S), NEW x \in S
    PROVE  /\ list_push_back(list, x) \in Seq(S)
           /\ ToSet(list_push_back(list, x)) = ToSet(list) \cup {x}
           /\ IsInjective(list) /\ x \notin ToSet(list) => IsInjective(list_push_back(list, x))
<1> DEFINE new == Append(list, x)
<1>1. Len(list) \in Nat /\ DOMAIN list = 1 .. Len(list)
  OBVIOUS
<1>2. /\ new \in Seq(S) /\ DOMAIN new = 1 .. Len(list) + 1
      /\ \A i \in 1 .. Len(list) + 1 : new[i] = IF i <= Len(list) THEN list[i] ELSE x
  OBVIOUS
<1> HIDE DEF new
<1>3. Len(list) + 1 \in DOMAIN new /\ new[Len(list) + 1] = x
  BY <1>1, <1>2
<1>4. \A i \in DOMAIN list : i \in DOMAIN new /\ new[i] = list[i]
  BY <1>1, <1>2
<1>5. \A i \in DOMAIN new : i \in DOMAIN list \/ i = Len(list) + 1
  BY <1>1, <1>2
<1>6. ToSet(new) = ToSet(list) \cup {x}
  BY <1>3, <1>4, <1>5 DEF ToSet
<1>7. ASSUME IsInjective(list), x \notin ToSet(list) PROVE IsInjective(new)
  BY <1>3, <1>4, <1>5, <1>7 DEF ToSet, IsInjective
<1> QED
  BY <1>2, <1>6, <1>7 DEF list_push_back, new

\* Taking the last element out of a list.
LEMMA FrontLastUnique ==
    ASSUME NEW S, NEW list \in Seq(S), list # <<>>
    PROVE  /\ Last(list) \in ToSet(list)
           /\ IsInjective(list) => /\ IsInjective(Front(list))
                                   /\ ToSet(Front(list)) = ToSet(list) \ {Last(list)}
           /\ \A key : Sorted(list, key) => Sorted(Front(list), key)
<1> DEFINE front == Front(list)
           n == Len(list)
<1>1. n \in Nat \ {0} /\ DOMAIN list = 1 .. n
  BY EmptySeq
<1>2. Last(list) = list[n] /\ n \in DOMAIN list
  BY <1>1 DEF Last
<1>3. front = SubSeq(list, 1, n - 1)
  BY DEF Front
<1>4. DOMAIN front = 1 .. n - 1 /\ \A i \in DOMAIN front : front[i] = list[i]
  BY <1>1, <1>3
<1> HIDE DEF front, n
<1>5. \A i \in DOMAIN front : i \in DOMAIN list /\ i # n
  BY <1>1, <1>4
<1>6. \A i \in DOMAIN list : i \in DOMAIN front \/ i = n
  BY <1>1, <1>4
<1>7. ASSUME IsInjective(list)
      PROVE  IsInjective(front) /\ ToSet(front) = ToSet(list) \ {Last(list)}
  <2>1. \A i, j \in DOMAIN list : list[i] = list[j] => i = j
    BY <1>7 DEF IsInjective
  <2>2. IsInjective(front)
    BY <1>4, <1>5, <2>1 DEF IsInjective
  <2>3. ToSet(front) = ToSet(list) \ {Last(list)}
    BY <1>2, <1>4, <1>5, <1>6, <2>1 DEF ToSet
  <2> QED
    BY <2>2, <2>3
<1>8. ASSUME NEW key, Sorted(list, key) PROVE Sorted(front, key)
  BY <1>4, <1>5, <1>8 DEF Sorted, Less
<1>9. Last(list) \in ToSet(list)
  BY <1>2 DEF ToSet
<1> QED
  BY <1>7, <1>8, <1>9 DEF front

\* list_remove() keeps a list sorted.
LEMMA RemoveKeepsSorted ==
    ASSUME NEW S, NEW list \in Seq(S), NEW x, NEW key, Sorted(list, key)
    PROVE  Sorted(list_remove(list, x), key)
<1>1. CASE ~ \E i \in 1 .. Len(list) : list[i] = x
  BY <1>1 DEF list_remove, RemoveFirst
<1>2. CASE \E i \in 1 .. Len(list) : list[i] = x
  <2> DEFINE rest == list_remove(list, x)
  <2>5. PICK p \in 1 .. Len(list) :
           /\ list[p] = x /\ Len(list) \in Nat
           /\ DOMAIN rest = 1 .. Len(list) - 1
           /\ \A i \in 1 .. Len(list) - 1 :
                 rest[i] = IF i < p THEN list[i] ELSE list[i + 1]
    BY <1>2, RemovePlaces
  <2> HIDE DEF rest
  <2> DEFINE from(i) == IF i < p THEN i ELSE i + 1
  <2>6. \A i \in DOMAIN rest : from(i) \in DOMAIN list /\ rest[i] = list[from(i)]
    BY <2>5
  <2>7. \A i, j \in DOMAIN rest : i < j => from(i) < from(j)
    BY <2>5
  <2> HIDE DEF from
  <2>8. Sorted(rest, key)
    BY <2>6, <2>7 DEF Sorted, Less
  <2> QED
    BY <2>8 DEF rest
<1> QED
  BY <1>1, <1>2

\* list_sort() keeps what is in the list.
LEMMA SortKeeps ==
    ASSUME NEW S, NEW list \in Seq(S), NEW key, \A e \in S : key[e] \in Int
    PROVE  /\ ToSet(list_sort(list, key)) = ToSet(list)
           /\ IsInjective(list) => IsInjective(list_sort(list, key))
<1> DEFINE new == list_sort(list, key)
           D == 1 .. Len(list)
<1>1. Len(list) \in Nat /\ DOMAIN list = D
  OBVIOUS
<1>2. DOMAIN new = D
  BY <1>1 DEF list_sort
<1>3. ASSUME NEW k \in D
      PROVE  /\ SourceOf(list, key, k) \in D
             /\ Rank(list, key, SourceOf(list, key, k)) = k
             /\ new[k] = list[SourceOf(list, key, k)]
  BY SortedPlaces
<1>4. \A i \in D : Rank(list, key, i) \in D
  BY RankMonotonic
<1>5. ASSUME NEW i \in D, NEW j \in D, Rank(list, key, i) = Rank(list, key, j)
      PROVE  i = j
  <2>1. key[list[i]] \in Int /\ key[list[j]] \in Int
    BY ElementOfSeq
  <2>2. i # j => Precedes(list, key, i, j) \/ Precedes(list, key, j, i)
    BY <1>1, <2>1 DEF Precedes, Less
  <2>3. Precedes(list, key, i, j) => Rank(list, key, i) < Rank(list, key, j)
    BY RankMonotonic
  <2>4. Precedes(list, key, j, i) => Rank(list, key, j) < Rank(list, key, i)
    BY RankMonotonic
  <2> QED
    BY <1>4, <1>5, <2>2, <2>3, <2>4
<1> HIDE DEF new
<1>6. ASSUME NEW i \in D PROVE \E k \in D : new[k] = list[i]
  <2> DEFINE k == Rank(list, key, i)
  <2>1. k \in D
    BY <1>4
  <2>2. SourceOf(list, key, k) = i
    BY <1>3, <1>5, <2>1
  <2> QED
    BY <1>3, <2>1, <2>2
<1>7. ToSet(new) = ToSet(list)
  <2>1. \A k \in DOMAIN new : \E i \in DOMAIN list : new[k] = list[i]
    BY <1>1, <1>2, <1>3
  <2>2. \A i \in DOMAIN list : \E k \in DOMAIN new : new[k] = list[i]
    BY <1>1, <1>2, <1>6
  <2>3. \A e : e \in ToSet(new) <=> e \in ToSet(list)
    BY <2>1, <2>2 DEF ToSet
  <2> QED
    BY <2>3
<1>8. ASSUME IsInjective(list) PROVE IsInjective(new)
  <2>1. ASSUME NEW k \in D, NEW m \in D, new[k] = new[m] PROVE k = m
    <3>1. SourceOf(list, key, k) = SourceOf(list, key, m)
      BY <1>1, <1>3, <1>8, <2>1 DEF IsInjective
    <3> QED
      BY <1>3, <3>1
  <2> QED
    BY <1>2, <2>1 DEF IsInjective
<1> QED
  BY <1>7, <1>8 DEF new

\* The first of a sorted list has the highest key, and the rest is sorted.
LEMMA SortedHead ==
    ASSUME NEW S, NEW list \in Seq(S), NEW key, \A e \in S : key[e] \in Int,
           list # <<>>, Sorted(list, key)
    PROVE  /\ Head(list) \in S /\ Tail(list) \in Seq(S) /\ Sorted(Tail(list), key)
           /\ \A e \in ToSet(list) : key[e] <= key[Head(list)]
           /\ ToSet(Tail(list)) \subseteq ToSet(list)
<1> DEFINE rest == Tail(list)
<1>1. Len(list) \in Nat \ {0} /\ DOMAIN list = 1 .. Len(list) /\ Head(list) = list[1]
  OBVIOUS
<1>2. /\ rest \in Seq(S) /\ Head(list) \in S
      /\ DOMAIN rest = 1 .. Len(list) - 1 /\ \A i \in DOMAIN rest : rest[i] = list[i + 1]
  OBVIOUS
<1> HIDE DEF rest
<1>3. \A i, j \in DOMAIN list : i < j => ~ Less(key, list[j], list[i])
  BY DEF Sorted
<1>4. Sorted(rest, key)
  BY <1>1, <1>2, <1>3 DEF Sorted
<1>5. \A i \in DOMAIN list : list[i] \in S
  OBVIOUS
<1>6. \A i \in DOMAIN list : key[list[i]] <= key[list[1]]
  BY <1>1, <1>3, <1>5 DEF Less
<1>7. ToSet(rest) \subseteq ToSet(list)
  BY <1>1, <1>2 DEF ToSet
<1> QED
  BY <1>1, <1>2, <1>4, <1>6, <1>7 DEF ToSet, rest
=============================================================================
