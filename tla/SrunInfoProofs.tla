--------------------------- MODULE SrunInfoProofs ---------------------------
(***************************************************************************)
(* The portal undoes what the program does to the parameter info, whatever *)
(* the text, its length and the key.                                       *)
(***************************************************************************)
EXTENDS SrunInfo, DecodersProofs

(***************************************************************************)
(* Sums of words.                                                          *)
(***************************************************************************)

Builds == sizeBits \in {32, 64}

\* What is carried into bit i of a sum.
Carry(a, b, i) ==
    \E j \in a \cap b : j < i /\ ((j + 1)..(i - 1)) \subseteq (a \cup b)

\* Exactly one of three, or all of them.
Odd(x, y, c) == (x <=> y) <=> c

\* Two of three, or all of them.
Most(x, y, c) == (x /\ y) \/ (c /\ (x \/ y))

LEMMA LowInWord ==
    ASSUME Builds
    PROVE  Low32 \subseteq Word /\ sizeBits \in Nat
BY DEF Builds, Low32, Word

LEMMA SumIs ==
    ASSUME Builds, NEW a, NEW b, NEW i
    PROVE  i \in Sum32(a, b) <=> i \in Low32 /\ Odd(i \in a, i \in b, Carry(a, b, i))
<1>1. i \in Sum32(a, b) <=> i \in Low32 /\ (i \in SymDiff(a, b) <=> ~Carry(a, b, i))
  BY LowInWord, Zenon DEF Sum32, Add, Carry
<1>2. i \in SymDiff(a, b) <=> ~(i \in a <=> i \in b)
  BY SMT DEF SymDiff
<1> QED BY <1>1, <1>2, Zenon DEF Odd

LEMMA SumInLow == \A a, b : Sum32(a, b) \subseteq Low32
BY Zenon DEF Sum32

LEMMA FirstCarry ==
    ASSUME NEW a \in SUBSET Nat, NEW b \in SUBSET Nat
    PROVE  ~Carry(a, b, 0)
BY DEF Carry

LEMMA NextCarry ==
    ASSUME NEW a \in SUBSET Nat, NEW b \in SUBSET Nat, NEW i \in Nat
    PROVE  Carry(a, b, i + 1) <=> Most(i \in a, i \in b, Carry(a, b, i))
<1>1. ASSUME Carry(a, b, i + 1) PROVE Most(i \in a, i \in b, Carry(a, b, i))
  <2>0. i + 1 - 1 = i
    OBVIOUS
  <2>1. PICK j \in a \cap b : j < i + 1 /\ ((j + 1)..i) \subseteq (a \cup b)
    <3>1. PICK j \in a \cap b : j < i + 1 /\ ((j + 1)..(i + 1 - 1)) \subseteq (a \cup b)
      BY <1>1 DEF Carry
    <3>2. ((j + 1)..i) \subseteq (a \cup b)
      BY <2>0, <3>1
    <3> QED BY <3>1, <3>2, Zenon
  <2>2. CASE j = i
    BY <2>1, <2>2, Zenon DEF Most
  <2>3. CASE j # i
    <3>1. j < i /\ i \in (j + 1)..i /\ ((j + 1)..(i - 1)) \subseteq ((j + 1)..i)
      BY <2>1, <2>3
    <3>2. i \in a \/ i \in b
      BY <2>1, <3>1, Zenon
    <3>3. ((j + 1)..(i - 1)) \subseteq (a \cup b)
      BY <2>1, <3>1, Zenon
    <3>4. Carry(a, b, i)
      BY <2>1, <3>1, <3>3, Zenon DEF Carry
    <3> QED BY <3>2, <3>4, Zenon DEF Most
  <2> QED BY <2>2, <2>3
<1>2. ASSUME Most(i \in a, i \in b, Carry(a, b, i)) PROVE Carry(a, b, i + 1)
  <2>1. CASE i \in a /\ i \in b
    <3>1. i < i + 1 /\ ((i + 1)..(i + 1 - 1)) \subseteq (a \cup b)
      OBVIOUS
    <3>2. i \in a \cap b
      BY <2>1
    <3> QED BY <3>1, <3>2 DEF Carry
  <2>2. CASE Carry(a, b, i) /\ (i \in a \/ i \in b)
    <3>1. PICK j \in a \cap b : j < i /\ ((j + 1)..(i - 1)) \subseteq (a \cup b)
      BY <2>2, Zenon DEF Carry
    <3>2. j < i + 1 /\ \A x \in (j + 1)..(i + 1 - 1) : x \in (j + 1)..(i - 1) \/ x = i
      BY <3>1
    <3>3. ((j + 1)..(i + 1 - 1)) \subseteq (a \cup b)
      BY <2>2, <3>1, <3>2, Zenon
    <3> QED BY <3>1, <3>2, <3>3 DEF Carry
  <2> QED BY <1>2, <2>1, <2>2, Zenon DEF Most
<1> QED BY <1>1, <1>2, Zenon

\* Only the low bits of two words count for those of their sum.
LEMMA LowSum ==
    ASSUME Builds, NEW a \in SUBSET Nat, NEW b \in SUBSET Nat
    PROVE  Sum32(a, b) = Sum32(a \cap Low32, b \cap Low32)
<1> DEFINE aa == a \cap Low32
           bb == b \cap Low32
           T == {i \in Nat : i <= 32 => (Carry(a, b, i) <=> Carry(aa, bb, i))}
<1>1. aa \in SUBSET Nat /\ bb \in SUBSET Nat
  OBVIOUS
<1>2. \A i \in 0..31 : (i \in a <=> i \in aa) /\ (i \in b <=> i \in bb)
  BY DEF Low32
<1> HIDE DEF aa, bb
<1>3. 0 \in T
  BY <1>1, FirstCarry
<1>4. ASSUME NEW i \in T PROVE i + 1 \in T
  <2> SUFFICES ASSUME i + 1 <= 32
               PROVE  Carry(a, b, i + 1) <=> Carry(aa, bb, i + 1)
    OBVIOUS
  <2>1. i \in Nat /\ i \in 0..31 /\ i <= 32
    OBVIOUS
  <2>2. Carry(a, b, i) <=> Carry(aa, bb, i)
    BY <2>1, Zenon
  <2>3. Carry(a, b, i + 1) <=> Most(i \in a, i \in b, Carry(a, b, i))
    BY <2>1, NextCarry, Zenon
  <2>4. Carry(aa, bb, i + 1) <=> Most(i \in aa, i \in bb, Carry(aa, bb, i))
    BY <1>1, <2>1, NextCarry, Zenon
  <2> HIDE DEF T
  <2> QED BY <1>2, <2>1, <2>2, <2>3, <2>4, Zenon DEF Most
<1>5. T = Nat
  <2>1. T \in SUBSET Nat
    BY Zenon
  <2> HIDE DEF T
  <2> QED BY <1>3, <1>4, <2>1, SetInduction
<1>6. ASSUME NEW i \in Low32 PROVE Carry(a, b, i) <=> Carry(aa, bb, i)
  <2>1. i \in Nat /\ i <= 32
    BY DEF Low32
  <2>2. i \in T
    BY <1>5, <2>1, Zenon
  <2> QED BY <2>1, <2>2, Zenon
<1>7. ASSUME NEW i PROVE i \in Sum32(a, b) <=> i \in Sum32(aa, bb)
  <2>1. i \in Low32 => (i \in a <=> i \in aa) /\ (i \in b <=> i \in bb)
    BY <1>2, Zenon DEF Low32
  <2> HIDE DEF T
  <2> QED BY <1>6, <2>1, SumIs, Zenon DEF Odd
<1> HIDE DEF T
<1> QED BY <1>7, Zenon DEF aa, bb

LEMMA SumCommutes ==
    ASSUME Builds, NEW a, NEW b
    PROVE  Sum32(a, b) = Sum32(b, a)
<1>1. ASSUME NEW i PROVE Carry(a, b, i) <=> Carry(b, a, i)
  BY Zenon DEF Carry
<1>2. ASSUME NEW i PROVE i \in Sum32(a, b) <=> i \in Sum32(b, a)
  BY <1>1, SumIs, Zenon DEF Odd
<1> QED BY <1>2, Zenon

\* The two carries together are the same either way, if not each of them.
LEMMA SumAssociates ==
    ASSUME Builds, NEW a \in SUBSET Low32, NEW b \in SUBSET Low32, NEW c \in SUBSET Low32
    PROVE  Sum32(Sum32(a, b), c) = Sum32(a, Sum32(b, c))
<1> DEFINE ab == Sum32(a, b)
           bc == Sum32(b, c)
           both(i) == /\ (Carry(a, b, i) /\ Carry(ab, c, i)) <=>
                             (Carry(b, c, i) /\ Carry(a, bc, i))
                      /\ (Carry(a, b, i) \/ Carry(ab, c, i)) <=>
                             (Carry(b, c, i) \/ Carry(a, bc, i))
           T == {i \in Nat : i <= 31 => both(i)}
<1>1. /\ a \in SUBSET Nat /\ b \in SUBSET Nat /\ c \in SUBSET Nat
      /\ ab \in SUBSET Nat /\ bc \in SUBSET Nat
  BY SumInLow DEF Low32
<1>2. \A i \in 0..31 : /\ i \in ab <=> Odd(i \in a, i \in b, Carry(a, b, i))
                       /\ i \in bc <=> Odd(i \in b, i \in c, Carry(b, c, i))
  BY SumIs, Zenon DEF Low32
<1> HIDE DEF ab, bc
<1>3. 0 \in T
  BY <1>1, FirstCarry
<1>4. ASSUME NEW i \in Nat, i <= 31, both(i)
      PROVE  /\ both(i + 1)
             /\ Odd(i \in ab, i \in c, Carry(ab, c, i)) <=> Odd(i \in a, i \in bc, Carry(a, bc, i))
  <2> DEFINE x == i \in a
             y == i \in b
             u == i \in c
             e1 == Carry(a, b, i)
             e2 == Carry(ab, c, i)
             e3 == Carry(b, c, i)
             e4 == Carry(a, bc, i)
  <2>1. i \in 0..31
    BY <1>4
  <2>2. /\ Carry(a, b, i + 1) <=> Most(x, y, e1)
        /\ Carry(ab, c, i + 1) <=> Most(i \in ab, u, e2)
        /\ Carry(b, c, i + 1) <=> Most(y, u, e3)
        /\ Carry(a, bc, i + 1) <=> Most(x, i \in bc, e4)
    BY <1>1, NextCarry, Zenon
  <2>3. (i \in ab <=> Odd(x, y, e1)) /\ (i \in bc <=> Odd(y, u, e3))
    BY <1>2, <2>1, Zenon
  <2>4. (e1 /\ e2 <=> e3 /\ e4) /\ (e1 \/ e2 <=> e3 \/ e4)
    BY <1>4, Zenon
  <2> QED BY <2>2, <2>3, <2>4, Zenon DEF Most, Odd
<1>5. ASSUME NEW i \in T PROVE i + 1 \in T
  <2>1. i \in Nat /\ i + 1 \in Nat /\ (i + 1 <= 31 => i <= 31)
    OBVIOUS
  <2> HIDE DEF both
  <2> QED BY <1>4, <2>1, Zenon
<1>6. T = Nat
  <2>1. T \in SUBSET Nat
    BY Zenon
  <2> HIDE DEF T
  <2> QED BY <1>3, <1>5, <2>1, SetInduction
<1>7. ASSUME NEW i PROVE i \in Sum32(ab, c) <=> i \in Sum32(a, bc)
  <2>1. ASSUME i \in Low32
        PROVE  Odd(i \in ab, i \in c, Carry(ab, c, i)) <=> Odd(i \in a, i \in bc, Carry(a, bc, i))
    <3>1. i \in Nat /\ i <= 31
      BY <2>1 DEF Low32
    <3>2. both(i)
      <4>1. i \in T
        BY <1>6, <3>1, Zenon
      <4> HIDE DEF both
      <4> QED BY <3>1, <4>1, Zenon
    <3> QED BY <1>4, <3>1, <3>2, Zenon
  <2> QED BY <2>1, SumIs, Zenon
<1> HIDE DEF T
<1> QED BY <1>7, Zenon DEF ab, bc

LEMMA SumWithNothing ==
    ASSUME Builds, NEW a \in SUBSET Low32
    PROVE  Sum32(a, {}) = a
<1>1. \A i : ~Carry(a, {}, i)
  BY Zenon DEF Carry
<1>2. ASSUME NEW i PROVE i \in Sum32(a, {}) <=> i \in a
  BY <1>1, SumIs, Zenon DEF Odd
<1> QED BY <1>2, Zenon

\* A word and its complement make a word of ones, and one more makes nothing.
LEMMA WordsCancel ==
    ASSUME Builds, NEW x \in SUBSET Low32
    PROVE  Sum32(x, Sum32(Low32 \ x, {0})) = {}
<1> DEFINE rest == Low32 \ x
<1>1. rest \in SUBSET Low32 /\ {0} \in SUBSET Low32 /\ Low32 \in SUBSET Low32
  BY DEF Low32
<1>2. Sum32(x, rest) = Low32
  <2>1. \A i : ~Carry(x, rest, i)
    BY Zenon DEF Carry
  <2>2. ASSUME NEW i PROVE i \in Sum32(x, rest) <=> i \in Low32
    BY <2>1, SumIs, Zenon DEF Odd
  <2> HIDE DEF rest
  <2> QED BY <2>2, Zenon
<1>3. Sum32(Low32, {0}) = {}
  <2>1. ASSUME NEW i \in Low32, i # 0 PROVE Carry(Low32, {0}, i)
    <3>1. 0 \in Low32 \cap {0} /\ 0 < i /\ ((0 + 1)..(i - 1)) \subseteq (Low32 \cup {0})
      BY <2>1 DEF Low32
    <3> QED BY <3>1 DEF Carry
  <2>2. ~Carry(Low32, {0}, 0)
    BY DEF Carry
  <2>3. 0 \in Low32
    BY <1>1
  <2>4. ASSUME NEW i \in Sum32(Low32, {0}) PROVE FALSE
    <3>1. i \in Low32 /\ Odd(i \in Low32, i \in {0}, Carry(Low32, {0}, i))
      BY <2>4, SumIs, Zenon
    <3>2. CASE i = 0
      BY <2>2, <2>3, <3>1, <3>2, Zenon DEF Odd
    <3>3. CASE i # 0
      BY <2>1, <3>1, <3>3, Zenon DEF Odd
    <3> QED BY <3>2, <3>3
  <2> QED BY <2>4
<1>4. Sum32(Sum32(x, rest), {0}) = Sum32(x, Sum32(rest, {0}))
  <2> HIDE DEF rest
  <2> QED BY <1>1, SumAssociates, Zenon
<1> QED BY <1>2, <1>3, <1>4, Zenon

\* What was added is taken away again.
LEMMA MinusUndoesSum ==
    ASSUME Builds, NEW a \in SUBSET Low32, NEW x \in SUBSET Low32
    PROVE  Minus32(Sum32(a, x), x) = a
<1> DEFINE y == Sum32(Low32 \ x, {0})
<1>1. y \in SUBSET Low32
  BY SumInLow, Zenon
<1>2. Minus32(Sum32(a, x), x) = Sum32(Sum32(a, x), y)
  BY Zenon DEF Minus32
<1>3. Sum32(x, y) = {}
  BY WordsCancel, Zenon
<1> HIDE DEF y
<1>4. Sum32(Sum32(a, x), y) = Sum32(a, Sum32(x, y))
  BY <1>1, SumAssociates, Zenon
<1> QED BY <1>2, <1>3, <1>4, SumWithNothing, Zenon

LEMMA SumsDiffer ==
    ASSUME Builds, NEW a \in SUBSET Low32, NEW x \in SUBSET Low32, NEW y \in SUBSET Low32,
           x # y
    PROVE  Sum32(a, x) # Sum32(a, y) /\ Sum32(x, a) # Sum32(y, a)
<1>1. Minus32(Sum32(x, a), a) = x /\ Minus32(Sum32(y, a), a) = y
  BY MinusUndoesSum, Zenon
<1>2. Sum32(x, a) # Sum32(y, a)
  BY <1>1, Zenon
<1> QED BY <1>2, SumCommutes, Zenon

\* What is added to a word to get another one is the difference.
LEMMA OtherSumStays ==
    ASSUME Builds, NEW a \in SUBSET Low32, NEW x \in SUBSET Low32, NEW y \in SUBSET Low32,
           x # y
    PROVE  Minus32(Sum32(a, x), y) # a
<1> DEFINE w == Sum32(Low32 \ y, {0})
<1>1. w \in SUBSET Low32 /\ Sum32(a, x) \in SUBSET Low32 /\ Sum32(a, y) \in SUBSET Low32
  BY SumInLow, Zenon
<1>2. Sum32(a, x) # Sum32(a, y)
  BY SumsDiffer, Zenon
<1>3. /\ Minus32(Sum32(a, x), y) = Sum32(Sum32(a, x), w)
      /\ Minus32(Sum32(a, y), y) = Sum32(Sum32(a, y), w)
  BY Zenon DEF Minus32
<1> HIDE DEF w
<1>4. Sum32(Sum32(a, x), w) # Sum32(Sum32(a, y), w)
  BY <1>1, <1>2, SumsDiffer, Zenon
<1> QED BY <1>3, <1>4, MinusUndoesSum, Zenon

-----------------------------------------------------------------------------
(***************************************************************************)
(* Recursion over steps: a word added up, and steps undone.                *)
(***************************************************************************)

IsAddedUp(f, m, a) == f = [r \in 0..m |-> IF r = 0 THEN {} ELSE Sum32(f[r - 1], a)]

LEMMA AddingUpExists ==
    ASSUME NEW m \in Nat, NEW a
    PROVE  \E f : IsAddedUp(f, m, a)
<1> DEFINE T == {i \in Nat : \E f : IsAddedUp(f, i, a)}
<1>1. 0 \in T
  <2> DEFINE f == [r \in 0..0 |-> {}]
  <2>1. \A r \in 0..0 : r = 0
    OBVIOUS
  <2>2. IsAddedUp(f, 0, a)
    BY <2>1, Zenon DEF IsAddedUp
  <2> QED BY <2>2, Zenon
<1>2. ASSUME NEW i \in T PROVE i + 1 \in T
  <2>1. i \in Nat /\ i + 1 \in Nat /\ i + 1 # 0
    OBVIOUS
  <2>2. PICK f : IsAddedUp(f, i, a)
    BY Zenon
  <2> DEFINE g == [r \in 0..(i + 1) |-> IF r = i + 1 THEN Sum32(f[i], a) ELSE f[r]]
  <2>3. /\ \A r \in 0..i : r \in 0..(i + 1) /\ r # i + 1
        /\ \A r \in 0..(i + 1) : r # i + 1 => r \in 0..i
        /\ \A r \in 0..i : r # 0 => r - 1 \in 0..i
        /\ i + 1 - 1 = i /\ i \in 0..i /\ i + 1 \in 0..(i + 1)
    BY <2>1
  <2>4. \A r \in 0..i : f[r] = IF r = 0 THEN {} ELSE Sum32(f[r - 1], a)
    BY <2>2, Zenon DEF IsAddedUp
  <2>5. g = [r \in 0..(i + 1) |-> g[r]]
    BY Zenon
  <2>6. (\A r \in 0..i : g[r] = f[r]) /\ g[i + 1] = Sum32(f[i], a)
    BY <2>3, Zenon
  <2> HIDE DEF g
  <2>7. ASSUME NEW r \in 0..(i + 1)
        PROVE  g[r] = IF r = 0 THEN {} ELSE Sum32(g[r - 1], a)
    <3>1. CASE r = i + 1
      <4>1. r # 0 /\ r - 1 = i
        BY <2>1, <3>1
      <4> QED BY <2>3, <2>6, <3>1, <4>1, Zenon
    <3>2. CASE r # i + 1
      BY <2>3, <2>4, <2>6, <3>2, Zenon
    <3> QED BY <3>1, <3>2
  <2>8. IsAddedUp(g, i + 1, a)
    BY <2>5, <2>7, Zenon DEF IsAddedUp
  <2> QED BY <2>1, <2>8, Zenon
<1>3. T = Nat
  <2>1. T \in SUBSET Nat
    BY Zenon
  <2> HIDE DEF T
  <2> QED BY <1>1, <1>2, <2>1, SetInduction
<1> QED BY <1>3, Zenon

\* The first sums do not depend on how many are made.
LEMMA AddingUpIsUnique ==
    ASSUME NEW m \in Nat, NEW w \in Nat, NEW a, NEW f, NEW g,
           IsAddedUp(f, m, a), IsAddedUp(g, w, a)
    PROVE  \A i \in Nat : i <= m /\ i <= w => f[i] = g[i]
<1> DEFINE T == {i \in Nat : i <= m /\ i <= w => f[i] = g[i]}
<1>1. /\ \A r \in 0..m : f[r] = IF r = 0 THEN {} ELSE Sum32(f[r - 1], a)
      /\ \A r \in 0..w : g[r] = IF r = 0 THEN {} ELSE Sum32(g[r - 1], a)
  BY Zenon DEF IsAddedUp
<1>2. 0 \in T
  <2>1. 0 \in 0..m /\ 0 \in 0..w /\ 0 \in Nat
    OBVIOUS
  <2> QED BY <1>1, <2>1, Zenon
<1>3. ASSUME NEW i \in T PROVE i + 1 \in T
  <2>1. i \in Nat /\ i + 1 \in Nat /\ i + 1 # 0 /\ i + 1 - 1 = i
    OBVIOUS
  <2>2. ASSUME i + 1 <= m, i + 1 <= w PROVE f[i + 1] = g[i + 1]
    <3>1. i + 1 \in 0..m /\ i + 1 \in 0..w /\ i <= m /\ i <= w
      BY <2>1, <2>2
    <3>2. f[i] = g[i]
      BY <2>1, <3>1, Zenon
    <3>3. /\ f[i + 1] = IF i + 1 = 0 THEN {} ELSE Sum32(f[i + 1 - 1], a)
          /\ g[i + 1] = IF i + 1 = 0 THEN {} ELSE Sum32(g[i + 1 - 1], a)
      BY <1>1, <3>1
    <3> QED BY <2>1, <3>2, <3>3, Zenon
  <2> QED BY <2>1, <2>2, Zenon
<1>4. T = Nat
  <2>1. T \in SUBSET Nat
    BY Zenon
  <2> HIDE DEF T
  <2> QED BY <1>2, <1>3, <2>1, SetInduction
<1> QED BY <1>4, Zenon

LEMMA TimesIs ==
    ASSUME NEW m \in Nat, NEW a
    PROVE  \E f : IsAddedUp(f, m, a) /\ Times(m, a) = f[m]
<1> DEFINE chosen == CHOOSE f : IsAddedUp(f, m, a)
<1>1. IsAddedUp(chosen, m, a)
  BY AddingUpExists, Zenon
<1>2. Times(m, a) = chosen[m]
  BY Zenon DEF Times, IsAddedUp
<1> QED BY <1>1, <1>2, Zenon

LEMMA NextTimes ==
    ASSUME NEW m \in Nat, NEW a
    PROVE  Times(0, a) = {} /\ Times(m + 1, a) = Sum32(Times(m, a), a)
<1>1. Times(0, a) = {}
  <2>1. PICK f : IsAddedUp(f, 0, a) /\ Times(0, a) = f[0]
    BY TimesIs, Zenon
  <2>2. 0 \in 0..0
    OBVIOUS
  <2> QED BY <2>1, <2>2, Zenon DEF IsAddedUp
<1>2. Times(m + 1, a) = Sum32(Times(m, a), a)
  <2>1. m + 1 \in Nat /\ m + 1 # 0 /\ m + 1 - 1 = m /\ m + 1 \in 0..(m + 1)
        /\ m <= m /\ m <= m + 1
    OBVIOUS
  <2>2. PICK f : IsAddedUp(f, m + 1, a) /\ Times(m + 1, a) = f[m + 1]
    BY <2>1, TimesIs, Zenon
  <2>3. PICK g : IsAddedUp(g, m, a) /\ Times(m, a) = g[m]
    BY TimesIs, Zenon
  <2>4. f[m] = g[m]
    <3>1. \A i \in Nat : i <= m + 1 /\ i <= m => f[i] = g[i]
      BY <2>1, <2>2, <2>3, AddingUpIsUnique, SMT
    <3> QED BY <2>1, <3>1, Zenon
  <2>5. f[m + 1] = IF m + 1 = 0 THEN {} ELSE Sum32(f[m + 1 - 1], a)
    <3>1. \A r \in 0..(m + 1) : f[r] = IF r = 0 THEN {} ELSE Sum32(f[r - 1], a)
      BY <2>2, Zenon DEF IsAddedUp
    <3> QED BY <2>1, <3>1
  <2> QED BY <2>1, <2>2, <2>3, <2>4, <2>5, Zenon
<1> QED BY <1>1, <1>2

\* The words with the one at pos as it was before that round.
UndoneAt(words, pos, round) ==
    [words EXCEPT ![pos] = Minus32(words[pos], Added32(words, pos, round))]

LEMMA BeforeIs ==
    ASSUME NEW words, NEW step
    PROVE  Before(words, step) =
               UndoneAt(words, (step - 1) % Size(words), 1 + ((step - 1) \div Size(words)))
BY DEF Before, UndoneAt

\* The words before every step, if there were so many and words is what they
\* made.
IsUndoing(f, words, steps) ==
    f = [t \in 0..steps |-> IF t = steps THEN words ELSE Before(f[t + 1], t + 1)]

Undoes(f, words, m) ==
    \A t \in 0..m : f[t] = IF t = m THEN words ELSE Before(f[t + 1], t + 1)

LEMMA UndoingIsUnique ==
    ASSUME NEW m \in Nat, NEW words, NEW f, NEW g,
           Undoes(f, words, m), Undoes(g, words, m)
    PROVE  \A t \in 0..m : f[t] = g[t]
<1> DEFINE T == {i \in Nat : i <= m => f[m - i] = g[m - i]}
<1> USE DEF Undoes
<1>1. 0 \in T
  <2>1. m - 0 = m /\ m \in 0..m
    OBVIOUS
  <2>2. f[m] = words /\ g[m] = words
    BY <2>1, Zenon
  <2>3. f[m - 0] = g[m - 0]
    BY <2>1, <2>2, Zenon
  <2> QED BY <2>3
<1>2. ASSUME NEW i \in T PROVE i + 1 \in T
  <2> DEFINE t == m - (i + 1)
  <2>1. i \in Nat /\ i + 1 \in Nat
    OBVIOUS
  <2>2. ASSUME i + 1 <= m PROVE f[t] = g[t]
    <3>1. t \in 0..m /\ t # m /\ t + 1 = m - i /\ i <= m
      BY <2>1, <2>2
    <3>2. f[m - i] = g[m - i]
      BY <3>1, Zenon
    <3> HIDE DEF t
    <3> QED BY <3>1, <3>2, Zenon
  <2> QED BY <2>1, <2>2, Zenon
<1>3. T = Nat
  <2>1. T \in SUBSET Nat
    BY Zenon
  <2> HIDE DEF T
  <2> QED BY <1>1, <1>2, <2>1, SetInduction
<1>4. ASSUME NEW t \in 0..m PROVE f[t] = g[t]
  <2>1. m - t \in Nat /\ m - t <= m /\ m - (m - t) = t
    OBVIOUS
  <2>2. m - t \in T
    BY <1>3, <2>1, Zenon
  <2>3. f[m - (m - t)] = g[m - (m - t)]
    BY <2>1, <2>2, Zenon
  <2> QED BY <2>1, <2>3, Zenon
<1> QED BY <1>4

LEMMA UndoingExists ==
    ASSUME NEW m \in Nat, NEW words
    PROVE  \E f : IsUndoing(f, words, m)
<1> DEFINE Part(f, i) ==
               f = [t \in (m - i)..m |-> IF t = m THEN words ELSE Before(f[t + 1], t + 1)]
           T == {i \in Nat : i <= m => \E f : Part(f, i)}
<1>1. 0 \in T
  <2> DEFINE f == [t \in (m - 0)..m |-> words]
  <2>1. \A t \in (m - 0)..m : t = m
    OBVIOUS
  <2>2. Part(f, 0)
    BY <2>1, Zenon
  <2>3. \E h : Part(h, 0)
    BY <2>2, Zenon
  <2> HIDE DEF Part
  <2> QED BY <2>3
<1>2. ASSUME NEW i \in T PROVE i + 1 \in T
  <2>1. i \in Nat /\ i + 1 \in Nat
    OBVIOUS
  <2>2. ASSUME i + 1 <= m PROVE \E f : Part(f, i + 1)
    <3>1. i <= m
      BY <2>1, <2>2
    <3>2. PICK f : Part(f, i)
      <4> HIDE DEF Part
      <4> QED BY <3>1, Zenon
    <3> DEFINE j == m - (i + 1)
               g == [t \in (m - (i + 1))..m |-> IF t = j THEN Before(f[j + 1], j + 1) ELSE f[t]]
    <3>3. /\ j # m /\ j \in (m - (i + 1))..m /\ j + 1 \in (m - i)..m
          /\ \A t \in (m - (i + 1))..m : t # j => t \in (m - i)..m
          /\ \A t \in (m - i)..m : t # j /\ t \in (m - (i + 1))..m
          /\ \A t \in (m - i)..m : t # m => t + 1 \in (m - i)..m
      BY <2>1, <2>2
    <3>4. \A t \in (m - i)..m : f[t] = IF t = m THEN words ELSE Before(f[t + 1], t + 1)
      BY <3>2, Zenon
    <3>5. g = [t \in (m - (i + 1))..m |-> g[t]]
      BY Zenon
    <3> HIDE DEF j
    <3>6. (\A t \in (m - i)..m : g[t] = f[t]) /\ g[j] = Before(f[j + 1], j + 1)
      BY <3>3, Zenon
    <3> HIDE DEF g
    <3>7. ASSUME NEW t \in (m - (i + 1))..m
          PROVE  g[t] = IF t = m THEN words ELSE Before(g[t + 1], t + 1)
      <4>1. CASE t = j
        BY <3>3, <3>6, <4>1, Zenon
      <4>2. CASE t # j
        BY <3>3, <3>4, <3>6, <4>2, Zenon
      <4> QED BY <4>1, <4>2
    <3>8. Part(g, i + 1)
      BY <3>5, <3>7, Zenon
    <3> QED BY <3>8, Zenon
  <2> HIDE DEF Part
  <2> QED BY <2>1, <2>2, Zenon
<1>3. T = Nat
  <2>1. T \in SUBSET Nat
    BY Zenon
  <2> HIDE DEF T
  <2> QED BY <1>1, <1>2, <2>1, SetInduction
<1>4. \E f : Part(f, m)
  <2> HIDE DEF Part
  <2>1. m \in T /\ m <= m
    BY <1>3
  <2> QED BY <2>1, Zenon
<1>5. PICK f : Part(f, m)
  BY <1>4
<1>6. m - m = 0
  OBVIOUS
<1>7. IsUndoing(f, words, m)
  BY <1>5, <1>6, Zenon DEF IsUndoing
<1> QED BY <1>7, Zenon

LEMMA UndoneIs ==
    ASSUME NEW m \in Nat, NEW words
    PROVE  \E f : /\ \A t \in 0..m : f[t] = IF t = m THEN words ELSE Before(f[t + 1], t + 1)
                  /\ Undone(words, m) = f[0]
<1> DEFINE chosen == CHOOSE f : IsUndoing(f, words, m)
<1>1. IsUndoing(chosen, words, m)
  BY UndoingExists, Zenon
<1>2. Undone(words, m) = chosen[0]
  BY Zenon DEF Undone, IsUndoing
<1> HIDE DEF chosen
<1>3. \A t \in 0..m : chosen[t] = IF t = m THEN words ELSE Before(chosen[t + 1], t + 1)
  BY <1>1, Zenon DEF IsUndoing
<1> QED BY <1>2, <1>3, Zenon

LEMMA NothingUndone ==
    ASSUME NEW words
    PROVE  Undone(words, 0) = words
<1>1. PICK f : /\ \A t \in 0..0 : f[t] = IF t = 0 THEN words ELSE Before(f[t + 1], t + 1)
               /\ Undone(words, 0) = f[0]
  BY UndoneIs, Zenon
<1>2. 0 \in 0..0
  OBVIOUS
<1> QED BY <1>1, <1>2, Zenon

\* The last step is undone first.
LEMMA NextUndone ==
    ASSUME NEW m \in Nat, NEW words
    PROVE  Undone(words, m + 1) = Undone(Before(words, m + 1), m)
<1> DEFINE before == Before(words, m + 1)
<1>1. m + 1 \in Nat /\ m + 1 \in 0..(m + 1) /\ 0 \in 0..m
      /\ \A t \in 0..m : t \in 0..(m + 1) /\ t # m + 1
  OBVIOUS
<1>2. PICK f : /\ \A t \in 0..(m + 1) :
                      f[t] = IF t = m + 1 THEN words ELSE Before(f[t + 1], t + 1)
               /\ Undone(words, m + 1) = f[0]
  BY <1>1, UndoneIs, Zenon
<1>3. PICK g : /\ \A t \in 0..m : g[t] = IF t = m THEN before ELSE Before(g[t + 1], t + 1)
               /\ Undone(before, m) = g[0]
  BY UndoneIs, Zenon
<1>4. ASSUME NEW t \in 0..m
      PROVE  f[t] = IF t = m THEN before ELSE Before(f[t + 1], t + 1)
  <2>1. f[t] = Before(f[t + 1], t + 1)
    BY <1>1, <1>2, Zenon
  <2>2. f[m + 1] = words
    BY <1>1, <1>2, Zenon
  <2> QED BY <2>1, <2>2, Zenon
<1> HIDE DEF before
<1>5. \A t \in 0..m : f[t] = g[t]
  <2>1. Undoes(f, before, m) /\ Undoes(g, before, m)
    BY <1>3, <1>4, Zenon DEF Undoes
  <2>2. \A a, x, y : Undoes(x, a, m) /\ Undoes(y, a, m) => \A t \in 0..m : x[t] = y[t]
    BY UndoingIsUnique, SMT
  <2> QED BY <2>1, <2>2, Zenon
<1> QED BY <1>1, <1>2, <1>3, <1>5, Zenon DEF before

\* The first steps are about the first words: undone, they leave a later word.
LEMMA LaterWordStays ==
    ASSUME NEW w \in Nat, NEW words, DOMAIN words = 0..(w - 1), Size(words) = w,
           NEW m \in Nat, NEW j \in m..(w - 1)
    PROVE  Undone(words, m)[j] = words[j]
<1>1. PICK f : /\ \A t \in 0..m : f[t] = IF t = m THEN words ELSE Before(f[t + 1], t + 1)
               /\ Undone(words, m) = f[0]
  BY UndoneIs, Zenon
<1> DEFINE same(a) == DOMAIN a = 0..(w - 1) /\ a[j] = words[j]
           T == {i \in Nat : i <= m => same(f[m - i])}
<1>2. j \in 0..(w - 1) /\ j \in Int /\ w > 0
  OBVIOUS
<1>3. 0 \in T
  <2>1. m - 0 = m /\ m \in 0..m
    OBVIOUS
  <2>2. f[m] = words
    BY <1>1, <2>1, Zenon
  <2>3. same(f[m - 0])
    BY <2>1, <2>2, Zenon
  <2> QED BY <2>3, Zenon
<1>4. ASSUME NEW i \in T PROVE i + 1 \in T
  <2> DEFINE t == m - (i + 1)
  <2>1. i \in Nat /\ i + 1 \in Nat
    OBVIOUS
  <2>2. ASSUME i + 1 <= m PROVE same(f[t])
    <3>1. t \in 0..m /\ t # m /\ t + 1 = m - i /\ i <= m /\ t < w /\ t # j /\ (t + 1) - 1 = t
      BY <1>2, <2>1, <2>2
    <3>2. same(f[t + 1])
      <4> HIDE DEF same, t
      <4> QED BY <3>1, Zenon
    <3>3. f[t] = Before(f[t + 1], t + 1)
      <4> HIDE DEF t
      <4> QED BY <1>1, <3>1, Zenon
    <3>4. Size(f[t + 1]) = w
      BY <3>2, Zenon DEF Size
    <3>5. t \in Nat /\ ((t + 1) - 1) % w = t
      <4>1. t \in Nat
        BY <3>1
      <4> HIDE DEF t
      <4>2. t % w = t
        BY <3>1, <4>1
      <4> QED BY <3>1, <4>1, <4>2, Zenon
    <3> HIDE DEF t
    <3> DEFINE u == f[t + 1]
               x == Minus32(u[t], Added32(u, t, 1 + (((t + 1) - 1) \div w)))
    <3>6. f[t] = [u EXCEPT ![t] = x]
      <4>1. Before(u, t + 1) = UndoneAt(u, ((t + 1) - 1) % Size(u),
                                           1 + (((t + 1) - 1) \div Size(u)))
        BY BeforeIs, Zenon
      <4>2. Size(u) = w
        BY <3>4
      <4> HIDE DEF u
      <4> QED BY <3>3, <3>5, <4>1, <4>2, Zenon DEF u, UndoneAt
    <3> HIDE DEF u, x
    <3>7. DOMAIN u = 0..(w - 1) /\ u[j] = words[j]
      BY <3>2, Zenon DEF u
    <3>8. DOMAIN f[t] = 0..(w - 1) /\ f[t][j] = u[j]
      BY <1>2, <3>1, <3>6, <3>7
    <3> QED BY <3>7, <3>8, Zenon
  <2> HIDE DEF same
  <2> QED BY <2>1, <2>2, Zenon
<1>5. T = Nat
  <2>1. T \in SUBSET Nat
    BY Zenon
  <2> HIDE DEF T
  <2> QED BY <1>3, <1>4, <2>1, SetInduction
<1>6. same(f[0])
  <2>1. m - m = 0 /\ m <= m /\ m \in T
    <3> HIDE DEF T
    <3> QED BY <1>5
  <2>2. same(f[m - m])
    <3> HIDE DEF same
    <3> QED BY <2>1, Zenon
  <2> HIDE DEF same
  <2> QED BY <2>1, <2>2, Zenon
<1> QED BY <1>1, <1>6, Zenon

LEMMA SizeIs ==
    ASSUME NEW w \in Nat, NEW a, DOMAIN a = 0..(w - 1)
    PROVE  Size(a) = w
<1>1. w - 1 \in Int /\ 0 \in Int
  OBVIOUS
<1>2. Cardinality(0..(w - 1)) = IF 0 > w - 1 THEN 0 ELSE (w - 1) - 0 + 1
  BY <1>1, FS_Interval
<1>3. Cardinality(0..(w - 1)) = w
  BY <1>2
<1> QED BY <1>3 DEF Size

\* So many words of 32 bits.
Of32(w) == [0..(w - 1) -> SUBSET Low32]

LEMMA BeforeIsOf32 ==
    ASSUME NEW w \in Nat, NEW words \in Of32(w), NEW step
    PROVE  Before(words, step) \in Of32(w)
<1> DEFINE pos == (step - 1) % Size(words)
           x == Minus32(words[pos], Added32(words, pos, 1 + ((step - 1) \div Size(words))))
<1>1. Before(words, step) = [words EXCEPT ![pos] = x]
  BY BeforeIs, Zenon DEF UndoneAt
<1>2. x \in SUBSET Low32
  BY SumInLow, Zenon DEF Minus32
<1> HIDE DEF x, pos
<1>3. [words EXCEPT ![pos] = x] \in Of32(w)
  BY <1>2 DEF Of32
<1> QED BY <1>1, <1>3, Zenon

LEMMA UndoneIsOf32 ==
    ASSUME NEW w \in Nat, NEW m \in Nat, NEW words \in Of32(w)
    PROVE  Undone(words, m) \in Of32(w)
<1> DEFINE T == {i \in Nat : \A a \in Of32(w) : Undone(a, i) \in Of32(w)}
<1>1. 0 \in T
  BY NothingUndone, SMT
<1>2. ASSUME NEW i \in T PROVE i + 1 \in T
  <2>1. i \in Nat /\ i + 1 \in Nat
    OBVIOUS
  <2>2. ASSUME NEW a \in Of32(w) PROVE Undone(a, i + 1) \in Of32(w)
    <3>1. Undone(a, i + 1) = Undone(Before(a, i + 1), i)
      BY <2>1, NextUndone, Zenon
    <3>2. Before(a, i + 1) \in Of32(w)
      BY BeforeIsOf32, Zenon
    <3> QED BY <3>1, <3>2, Zenon
  <2> QED BY <2>1, <2>2, Zenon
<1>3. T = Nat
  <2>1. T \in SUBSET Nat
    BY Zenon
  <2> HIDE DEF T
  <2> QED BY <1>1, <1>2, <2>1, SetInduction
<1> QED BY <1>3, Zenon

-----------------------------------------------------------------------------
(***************************************************************************)
(* One word mixed, and taken back.                                         *)
(***************************************************************************)

\* The low bits of what is added to a word, with high as the bits shifted down
\* from the right neighbour.
Parts(high, left, right, sum, key) ==
    Sum32(Sum32(SymDiff(Shr(left, 5), Shl(right, 2) \cap Low32),
                SymDiff(SymDiff(high, Shl(left, 4) \cap Low32), SymDiff(sum, right))),
          SymDiff(key, left))

LEMMA Shifts ==
    ASSUME Builds, NEW a \in SUBSET Nat, NEW m \in Nat
    PROVE  /\ Shl(a, m) \subseteq Word /\ Shr(a, m) \subseteq Word
           /\ \A i \in Low32 : /\ i \in Shl(a, m) <=> i >= m /\ i - m \in a
                               /\ i \in Shr(a, m) <=> i + m \in a
           /\ a \subseteq Low32 => Shr(a, m) \subseteq Low32
<1>1. ASSUME NEW i \in Low32 PROVE i \in Shl(a, m) <=> i >= m /\ i - m \in a
  <2>1. i \in Word
    BY LowInWord
  <2>2. ASSUME i \in Shl(a, m) PROVE i >= m /\ i - m \in a
    BY <2>2 DEF Shl
  <2>3. ASSUME i >= m, i - m \in a PROVE i \in Shl(a, m)
    <3>1. i = (i - m) + m
      BY DEF Low32
    <3> QED BY <2>1, <2>3, <3>1 DEF Shl
  <2> QED BY <2>2, <2>3
<1>2. ASSUME NEW i \in Low32 PROVE i \in Shr(a, m) <=> i + m \in a
  <2>1. i \in Word
    BY LowInWord
  <2>2. ASSUME i \in Shr(a, m) PROVE i + m \in a
    <3>1. PICK x \in a : i = x - m
      BY <2>2 DEF Shr
    <3> QED BY <3>1
  <2>3. ASSUME i + m \in a PROVE i \in Shr(a, m)
    <3>1. i = (i + m) - m
      BY DEF Low32
    <3> QED BY <2>1, <2>3, <3>1 DEF Shr
  <2> QED BY <2>2, <2>3
<1>3. ASSUME a \subseteq Low32, NEW i \in Shr(a, m) PROVE i \in Low32
  <2>1. PICK x \in a : i = x - m /\ i \in Word
    BY DEF Shr
  <2>2. x \in 0..31 /\ i >= 0 /\ i \in Int
    BY <1>3, <2>1 DEF Low32, Word
  <2> QED BY <2>1, <2>2 DEF Low32
<1>4. Shl(a, m) \subseteq Word /\ Shr(a, m) \subseteq Word
  BY DEF Shl, Shr
<1> QED BY <1>1, <1>2, <1>3, <1>4

LEMMA PartsDiffer ==
    ASSUME Builds, NEW left \in SUBSET Low32, NEW right \in SUBSET Low32,
           NEW sum \in SUBSET Low32, NEW key \in SUBSET Low32,
           NEW high \in SUBSET Low32, NEW other \in SUBSET Low32, high # other
    PROVE  Parts(high, left, right, sum, key) # Parts(other, left, right, sum, key)
<1> DEFINE a == SymDiff(Shr(left, 5), Shl(right, 2) \cap Low32)
           b(x) == SymDiff(SymDiff(x, Shl(left, 4) \cap Low32), SymDiff(sum, right))
           c == SymDiff(key, left)
<1>1. left \in SUBSET Nat /\ 5 \in Nat
  BY DEF Low32
<1>2. Shr(left, 5) \subseteq Low32
  BY <1>1, Shifts
<1>3. /\ a \in SUBSET Low32 /\ c \in SUBSET Low32
      /\ b(high) \in SUBSET Low32 /\ b(other) \in SUBSET Low32
  BY <1>2 DEF SymDiff
<1>4. b(high) # b(other)
  BY DEF SymDiff
<1> HIDE DEF a, b, c
<1>5. Sum32(a, b(high)) # Sum32(a, b(other))
  BY <1>3, <1>4, SumsDiffer, Zenon
<1>6. Sum32(a, b(high)) \in SUBSET Low32 /\ Sum32(a, b(other)) \in SUBSET Low32
  BY SumInLow, Zenon
<1>7. Sum32(Sum32(a, b(high)), c) # Sum32(Sum32(a, b(other)), c)
  BY <1>3, <1>5, <1>6, SumsDiffer, Zenon
<1> QED BY <1>7, Zenon DEF Parts, a, b, c

LEMMA AddInWord == \A a, b : Add(a, b) \subseteq Word
BY Zenon DEF Add

\* The low bits of what the program adds, from the low bits of the neighbours.
MixesParts(zz, y, sum, pos, key) ==
    /\ Mix(zz, y, sum, pos) \subseteq Word
    /\ Mix(zz, y, sum, pos) \cap Low32 =
           Parts(Shr(y, 3) \cap Low32, zz, y \cap Low32, sum, key \cap Low32)

LEMMA MixIs ==
    ASSUME Builds, NEW zz \in SUBSET Low32, NEW y \in SUBSET Word,
           NEW sum \in SUBSET Low32, NEW pos,
           NEW key \in SUBSET Word, key = k[KeyIndex(pos, sum)]
    PROVE  MixesParts(zz, y, sum, pos, key)
<1> DEFINE a == SymDiff(Shr(zz, 5), Shl(y, 2))
           b == SymDiff(SymDiff(Shr(y, 3), Shl(zz, 4)), SymDiff(sum, y))
           c == SymDiff(key, zz)
           yy == y \cap Low32
<1>1. Mix(zz, y, sum, pos) = Add(Add(a, b), c)
  BY Zenon DEF Mix
<1>2. Word \subseteq Nat /\ Low32 \subseteq Nat /\ Low32 \subseteq Word
  BY LowInWord DEF Word, Low32
<1>3. /\ zz \in SUBSET Nat /\ y \in SUBSET Nat /\ yy \in SUBSET Nat
      /\ 2 \in Nat /\ 3 \in Nat /\ 4 \in Nat /\ 5 \in Nat
  BY <1>2
<1>4. key \subseteq Word
  OBVIOUS
<1>5. a \in SUBSET Nat /\ b \in SUBSET Nat /\ c \in SUBSET Nat
  <2>1. /\ Shr(zz, 5) \subseteq Word /\ Shl(y, 2) \subseteq Word
        /\ Shr(y, 3) \subseteq Word /\ Shl(zz, 4) \subseteq Word
    <3>1. \A x \in SUBSET Nat, m \in Nat : Shl(x, m) \subseteq Word /\ Shr(x, m) \subseteq Word
      BY Zenon DEF Shl, Shr
    <3> QED BY <1>3, <3>1, Zenon
  <2> QED BY <1>2, <1>4, <2>1 DEF SymDiff
<1>6. a \cap Low32 = SymDiff(Shr(zz, 5), Shl(yy, 2) \cap Low32)
  <2>1. /\ Shr(zz, 5) \subseteq Low32
        /\ \A i \in Low32 : i \in Shl(y, 2) <=> i >= 2 /\ i - 2 \in y
        /\ \A i \in Low32 : i \in Shl(yy, 2) <=> i >= 2 /\ i - 2 \in yy
    BY <1>3, Shifts
  <2>2. \A i \in Low32 : i >= 2 => i - 2 \in Low32
    BY DEF Low32
  <2>3. \A i \in Low32 : i \in Shl(y, 2) <=> i \in Shl(yy, 2)
    BY <2>1, <2>2
  <2> QED BY <2>1, <2>3 DEF SymDiff
<1>7. b \cap Low32 = SymDiff(SymDiff(Shr(y, 3) \cap Low32, Shl(zz, 4) \cap Low32),
                             SymDiff(sum, yy))
  BY DEF SymDiff
<1>8. c \cap Low32 = SymDiff(key \cap Low32, zz)
  BY DEF SymDiff
<1> HIDE DEF a, b, c
<1>9. Add(a, b) \in SUBSET Nat
  BY <1>2, AddInWord, Zenon
<1>10. Mix(zz, y, sum, pos) \cap Low32 = Sum32(Add(a, b), c)
  BY <1>1, Zenon DEF Sum32
<1>11. Sum32(Add(a, b), c) = Sum32(Add(a, b) \cap Low32, c \cap Low32)
  BY <1>5, <1>9, LowSum, Zenon
<1>12. Add(a, b) \cap Low32 = Sum32(a \cap Low32, b \cap Low32)
  BY <1>5, LowSum, Zenon DEF Sum32
<1>13. Mix(zz, y, sum, pos) \subseteq Word
  BY <1>1, AddInWord, Zenon
<1> HIDE DEF yy
<1>14. Mix(zz, y, sum, pos) \cap Low32 = Parts(Shr(y, 3) \cap Low32, zz, yy, sum, key \cap Low32)
  BY <1>6, <1>7, <1>8, <1>10, <1>11, <1>12, Zenon DEF Parts
<1> QED BY <1>13, <1>14, Zenon DEF yy, MixesParts

-----------------------------------------------------------------------------
(***************************************************************************)
(* Numbers and their bits.                                                 *)
(***************************************************************************)

\* The power of two x is beyond the numbers of two bits, and of a byte.
Large(i, x) == x \in Nat /\ x >= 4 /\ (i >= 8 => x >= 256)

LEMMA LargePowers ==
    ASSUME NEW i \in 2..30
    PROVE  Large(i, 2^i)
<1>1. \/ i = 2 \/ i = 3 \/ i = 4 \/ i = 5 \/ i = 6 \/ i = 7 \/ i = 8 \/ i = 9
      \/ i = 10 \/ i = 11 \/ i = 12 \/ i = 13 \/ i = 14 \/ i = 15 \/ i = 16 \/ i = 17
      \/ i = 18 \/ i = 19 \/ i = 20 \/ i = 21 \/ i = 22 \/ i = 23 \/ i = 24 \/ i = 25
      \/ i = 26 \/ i = 27 \/ i = 28 \/ i = 29 \/ i = 30
  OBVIOUS
<1>2. /\ Large(2, 2^2) /\ Large(3, 2^3) /\ Large(4, 2^4) /\ Large(5, 2^5)
      /\ Large(6, 2^6) /\ Large(7, 2^7) /\ Large(8, 2^8) /\ Large(9, 2^9)
      /\ Large(10, 2^10) /\ Large(11, 2^11) /\ Large(12, 2^12) /\ Large(13, 2^13)
      /\ Large(14, 2^14) /\ Large(15, 2^15) /\ Large(16, 2^16) /\ Large(17, 2^17)
      /\ Large(18, 2^18) /\ Large(19, 2^19) /\ Large(20, 2^20) /\ Large(21, 2^21)
      /\ Large(22, 2^22) /\ Large(23, 2^23) /\ Large(24, 2^24) /\ Large(25, 2^25)
      /\ Large(26, 2^26) /\ Large(27, 2^27) /\ Large(28, 2^28) /\ Large(29, 2^29)
      /\ Large(30, 2^30)
  BY SMT DEF Large
<1> QED BY <1>1, <1>2, Zenon

LEMMA SmallQuotient ==
    ASSUME NEW m \in Nat, NEW x \in Nat, m < x
    PROVE  ~((m \div x) % 2 = 1)
BY SMT

LEMMA BitsOfSmall ==
    ASSUME NEW m \in 0..3
    PROVE  Bits(m) \subseteq 0..1
<1>1. ASSUME NEW i \in 2..30 PROVE ~((m \div 2^i) % 2 = 1)
  <2>1. Large(i, 2^i)
    BY LargePowers
  <2> QED BY <2>1, SmallQuotient DEF Large
<1>2. \A i \in 0..30 : i \notin 0..1 => i \in 2..30
  OBVIOUS
<1> QED BY <1>1, <1>2, Zenon DEF Bits

LEMMA BitsOfByte ==
    ASSUME NEW m \in 0..255
    PROVE  Bits(m) \subseteq 0..7
<1>1. ASSUME NEW i \in 8..30 PROVE ~((m \div 2^i) % 2 = 1)
  <2>1. i \in 2..30 /\ i \in Int /\ i >= 8
    OBVIOUS
  <2>2. Large(i, 2^i)
    BY <2>1, LargePowers, Zenon
  <2> QED BY <2>1, <2>2, SmallQuotient DEF Large
<1>2. \A i \in 0..30 : i \notin 0..7 => i \in 8..30
  OBVIOUS
<1> QED BY <1>1, <1>2, Zenon DEF Bits

LEMMA LowBits ==
    ASSUME NEW m \in Int
    PROVE  /\ 0 \in Bits(m) <=> m % 2 = 1
           /\ 1 \in Bits(m) <=> (m \div 2) % 2 = 1
           /\ 2 \in Bits(m) <=> (m \div 4) % 2 = 1
           /\ 3 \in Bits(m) <=> (m \div 8) % 2 = 1
           /\ 4 \in Bits(m) <=> (m \div 16) % 2 = 1
           /\ 5 \in Bits(m) <=> (m \div 32) % 2 = 1
           /\ 6 \in Bits(m) <=> (m \div 64) % 2 = 1
           /\ 7 \in Bits(m) <=> (m \div 128) % 2 = 1
BY SMT DEF Bits

LEMMA ByteIsItsBits ==
    ASSUME NEW m \in 0..255
    PROVE  Value(Bits(m)) = m
<1> DEFINE b(x) == (m \div x) % 2
<1>1. /\ \A x \in {1, 2, 4, 8, 16, 32, 64, 128} : b(x) = 0 \/ b(x) = 1
      /\ m = b(1) + 2 * b(2) + 4 * b(4) + 8 * b(8) + 16 * b(16) + 32 * b(32)
               + 64 * b(64) + 128 * b(128)
  BY SMTT(60)
<1> QED
  BY <1>1, LowBits, SMTT(60) DEF Value

IsSum(m, a0, a1, a2, a3, a4, a5, a6, a7) ==
    m = a0 + 2 * a1 + 4 * a2 + 8 * a3 + 16 * a4 + 32 * a5 + 64 * a6 + 128 * a7

HasDigits(m, a0, a1, a2, a3, a4, a5, a6, a7) ==
    /\ m \in 0..255 /\ m % 2 = a0 /\ (m \div 2) % 2 = a1 /\ (m \div 4) % 2 = a2
    /\ (m \div 8) % 2 = a3 /\ (m \div 16) % 2 = a4 /\ (m \div 32) % 2 = a5
    /\ (m \div 64) % 2 = a6 /\ (m \div 128) % 2 = a7

LEMMA ByteOf ==
    ASSUME NEW m, NEW a0 \in 0..1, NEW a1 \in 0..1, NEW a2 \in 0..1, NEW a3 \in 0..1,
           NEW a4 \in 0..1, NEW a5 \in 0..1, NEW a6 \in 0..1, NEW a7 \in 0..1,
           IsSum(m, a0, a1, a2, a3, a4, a5, a6, a7)
    PROVE  HasDigits(m, a0, a1, a2, a3, a4, a5, a6, a7)
BY SMTT(60) DEF IsSum, HasDigits

\* The number with these bits is a byte, and these are its bits.
LEMMA BitsMakeByte ==
    ASSUME NEW S \in SUBSET (0..7)
    PROVE  Value(S) \in 0..255 /\ Bits(Value(S)) = S
<1> DEFINE a(i) == IF i \in S THEN 1 ELSE 0
           m == Value(S)
<1>1. \A i : a(i) \in 0..1 /\ (i \in S <=> a(i) = 1)
  OBVIOUS
<1>2. IsSum(m, a(0), a(1), a(2), a(3), a(4), a(5), a(6), a(7))
  BY DEF Value, IsSum
<1> HIDE DEF a, m
<1>3. HasDigits(m, a(0), a(1), a(2), a(3), a(4), a(5), a(6), a(7))
  BY <1>1, <1>2, ByteOf, Zenon
<1>4. \A i \in 0..7 : i \in Bits(m) <=> i \in S
  <2>0. m \in Int
    BY <1>3 DEF HasDigits
  <2>1. /\ 0 \in Bits(m) <=> 0 \in S
        /\ 1 \in Bits(m) <=> 1 \in S
        /\ 2 \in Bits(m) <=> 2 \in S
        /\ 3 \in Bits(m) <=> 3 \in S
        /\ 4 \in Bits(m) <=> 4 \in S
        /\ 5 \in Bits(m) <=> 5 \in S
        /\ 6 \in Bits(m) <=> 6 \in S
        /\ 7 \in Bits(m) <=> 7 \in S
    BY <1>1, <1>3, <2>0, LowBits DEF HasDigits
  <2> QED BY <2>1
<1>5. Bits(m) \subseteq 0..7
  BY <1>3, BitsOfByte DEF HasDigits
<1>6. Bits(m) = S
  BY <1>4, <1>5
<1> QED BY <1>3, <1>6, Zenon DEF m, HasDigits

\* Both sides take the same word of the key.
PortalIndex(pos, sum) ==
    Value(SymDiff(Bits(pos), {i - 2 : i \in sum \cap {2, 3}}) \cap {0, 1})

LEMMA KeyIndexIs ==
    ASSUME Builds, NEW pos \in Nat, NEW sum \in SUBSET Low32
    PROVE  KeyIndex(pos, sum) = PortalIndex(pos, sum) /\ KeyIndex(pos, sum) \in 0..3
<1> DEFINE a == SymDiff(Bits(pos % 4), Shr(sum, 2) \cap 0..1)
           b == SymDiff(Bits(pos), {i - 2 : i \in sum \cap {2, 3}}) \cap {0, 1}
<1>1. /\ 0 \in Bits(pos % 4) <=> 0 \in Bits(pos)
      /\ 1 \in Bits(pos % 4) <=> 1 \in Bits(pos)
  <2>1. pos % 4 \in Int /\ pos \in Int
    OBVIOUS
  <2>2. (pos % 4) % 2 = pos % 2 /\ ((pos % 4) \div 2) % 2 = (pos \div 2) % 2
    BY SMTT(60)
  <2> QED BY <2>1, <2>2, LowBits
<1>2. Bits(pos % 4) \subseteq 0..1
  BY BitsOfSmall
<1>3. (0 \in Shr(sum, 2) <=> 2 \in sum) /\ (1 \in Shr(sum, 2) <=> 3 \in sum)
  <2>1. sum \in SUBSET Nat /\ 0 \in Low32 /\ 1 \in Low32
    BY DEF Low32
  <2>2. \A i \in Low32 : i \in Shr(sum, 2) <=> i + 2 \in sum
    BY <2>1, Shifts
  <2>3. 0 + 2 = 2 /\ 1 + 2 = 3
    OBVIOUS
  <2> QED BY <2>1, <2>2, <2>3, Zenon
<1>4. /\ 0 \in {i - 2 : i \in sum \cap {2, 3}} <=> 2 \in sum
      /\ 1 \in {i - 2 : i \in sum \cap {2, 3}} <=> 3 \in sum
  OBVIOUS
<1>5. a \subseteq 0..1 /\ b \subseteq 0..1
  BY <1>2 DEF SymDiff
<1>6. \A i \in 0..1 : i \in a <=> i \in b
  <2>1. (0 \in a <=> 0 \in b) /\ (1 \in a <=> 1 \in b)
    BY <1>1, <1>3, <1>4 DEF SymDiff
  <2> HIDE DEF a, b
  <2> QED BY <2>1
<1>7. KeyIndex(pos, sum) = Value(a) /\ PortalIndex(pos, sum) = Value(b)
  BY Zenon DEF KeyIndex, PortalIndex
<1> HIDE DEF a, b
<1>8. a = b
  BY <1>5, <1>6
<1>9. Value(a) \in 0..3
  BY <1>5 DEF Value
<1> QED BY <1>7, <1>8, <1>9, Zenon

\* The neighbours of a word; the first and the last are neighbours.
LeftOf(words, w, pos) == words[IF pos = 0 THEN w - 1 ELSE pos - 1]
RightOf(words, w, pos) == words[IF pos = w - 1 THEN 0 ELSE pos + 1]

LEMMA AddedIs ==
    ASSUME Builds, NEW w \in Nat \ {0}, NEW words \in Of32(w), NEW pos \in 0..(w - 1),
           NEW round \in Nat, NEW sum, sum = Times(round, Delta), sum \in SUBSET Low32
    PROVE  Added32(words, pos, round) =
               Parts(Shr(RightOf(words, w, pos), 3), LeftOf(words, w, pos),
                     RightOf(words, w, pos), sum, k[KeyIndex(pos, sum)] \cap Low32)
<1>1. Size(words) = w
  <2>1. DOMAIN words = 0..(w - 1)
    BY DEF Of32
  <2> QED BY <2>1, SizeIs
<1>2. KeyIndex(pos, sum) = PortalIndex(pos, sum)
  <2>1. pos \in Nat
    OBVIOUS
  <2> QED BY <2>1, KeyIndexIs, Zenon
<1> DEFINE Added(last, key) ==
               LET left == words[IF pos = 0 THEN last ELSE pos - 1]
                   right == words[IF pos = last THEN 0 ELSE pos + 1]
               IN  Sum32(Sum32(SymDiff(Shr(left, 5), Shl(right, 2) \cap Low32),
                               SymDiff(SymDiff(Shr(right, 3), Shl(left, 4) \cap Low32),
                                       SymDiff(sum, right))),
                         SymDiff(key \cap Low32, left))
<1>3. Added32(words, pos, round) = Added(Size(words) - 1, k[PortalIndex(pos, sum)])
  BY Zenon DEF Added32, PortalIndex
<1>4. Added(w - 1, k[KeyIndex(pos, sum)]) =
          Parts(Shr(RightOf(words, w, pos), 3), LeftOf(words, w, pos),
                RightOf(words, w, pos), sum, k[KeyIndex(pos, sum)] \cap Low32)
  BY Zenon DEF Parts, LeftOf, RightOf
<1> HIDE DEF Added
<1> QED BY <1>1, <1>2, <1>3, <1>4, Zenon

\* The low 32 bits of every word.
Low(words) == [j \in DOMAIN words |-> words[j] \cap Low32]

LEMMA StepIs ==
    ASSUME NEW w \in Nat \ {0}, NEW pos \in 0..(w - 1), NEW m \in Nat
    PROVE  /\ ((m * w + pos + 1) - 1) % w = pos
           /\ 1 + (((m * w + pos + 1) - 1) \div w) = m + 1
<1>1. (m * w + pos + 1) - 1 = m * w + pos /\ m * w \in Nat
  OBVIOUS
<1>2. (m * w + pos) % w = pos /\ (m * w + pos) \div w = m
  BY <1>1, SMTT(60)
<1> QED BY <1>1, <1>2

MixesInto(words, next, w, pos, sum) ==
    next = [words EXCEPT ![pos] =
               Add(words[pos], Mix(LeftOf(words, w, pos), RightOf(words, w, pos), sum, pos))
                   \cap Low32]

IsTakenBack(words, next, w, pos, step) ==
    LET before == Before(Low(next), step)
    IN  /\ Low(next) \in Of32(w) /\ Low(words) \in Of32(w)
        /\ RightOf(words, w, pos) \subseteq Low32 => before = Low(words)
        /\ 34 \in RightOf(words, w, pos) => before[pos] # Low(words)[pos]

LEMMA MixedWord ==
    ASSUME Builds, NEW w \in Nat \ {0, 1}, NEW words \in [0..(w - 1) -> SUBSET Word],
           NEW pos \in 0..(w - 1), NEW m \in Nat,
           NEW sum \in SUBSET Low32, sum = Times(m + 1, Delta),
           NEW key \in SUBSET Word, key = k[KeyIndex(pos, sum)],
           NEW left \in SUBSET Low32, left = LeftOf(words, w, pos),
           NEW next, MixesInto(words, next, w, pos, sum)
    PROVE  IsTakenBack(words, next, w, pos, m * w + pos + 1)
<1> DEFINE right == RightOf(words, w, pos)
           added == Mix(left, right, sum, pos)
           new == Sum32(words[pos], added)
           old == words[pos] \cap Low32
           low == Low(next)
           before == Before(low, m * w + pos + 1)
           taken == Parts(Shr(right \cap Low32, 3), left, right \cap Low32, sum, key \cap Low32)
<1>1. next = [words EXCEPT ![pos] = new]
  BY Zenon DEF Sum32, MixesInto
<1>2. new \in SUBSET Low32
  BY SumInLow, Zenon
<1>3. left \in SUBSET Low32 /\ right \in SUBSET Word /\ words[pos] \in SUBSET Word
  BY DEF RightOf
<1>4. Word \subseteq Nat /\ Low32 \subseteq Nat /\ Low32 \subseteq Word
  BY LowInWord DEF Word, Low32
<1>5. /\ added \subseteq Word
      /\ added \cap Low32 = Parts(Shr(right, 3) \cap Low32, left, right \cap Low32, sum,
                                  key \cap Low32)
  <2> HIDE DEF right
  <2>1. key \in SUBSET Word
    OBVIOUS
  <2> HIDE DEF added
  <2>2. MixesParts(left, right, sum, pos, key)
    BY <1>3, <2>1, MixIs, Zenon
  <2> QED BY <2>2, Zenon DEF MixesParts, added
<1>6. new = Sum32(old, added \cap Low32)
  <2>1. words[pos] \in SUBSET Nat /\ added \in SUBSET Nat
    BY <1>3, <1>4, <1>5, Zenon
  <2> QED BY <2>1, LowSum, Zenon
<1>7. /\ low \in Of32(w) /\ Low(words) \in Of32(w)
      /\ low[pos] = new /\ Low(words)[pos] = old
      /\ \A j \in 0..(w - 1) : j # pos => low[j] = words[j] \cap Low32
      /\ \A j \in 0..(w - 1) : Low(words)[j] = words[j] \cap Low32
  <2> HIDE DEF new
  <2> QED BY <1>1, <1>2 DEF Low, Of32
<1> HIDE DEF added, new
<1>8. LeftOf(low, w, pos) = left /\ RightOf(low, w, pos) = right \cap Low32
  <2>1. /\ (IF pos = 0 THEN w - 1 ELSE pos - 1) \in 0..(w - 1)
        /\ (IF pos = 0 THEN w - 1 ELSE pos - 1) # pos
        /\ (IF pos = w - 1 THEN 0 ELSE pos + 1) \in 0..(w - 1)
        /\ (IF pos = w - 1 THEN 0 ELSE pos + 1) # pos
    OBVIOUS
  <2>2. LeftOf(low, w, pos) = left \cap Low32
    BY <1>7, <2>1, Zenon DEF LeftOf
  <2>3. RightOf(low, w, pos) = right \cap Low32
    BY <1>7, <2>1, Zenon DEF RightOf
  <2> HIDE DEF low
  <2> QED BY <1>3, <2>2, <2>3
<1> HIDE DEF low, right
<1>9. Added32(low, pos, m + 1) = taken
  <2>1. m + 1 \in Nat /\ w \in Nat \ {0}
    OBVIOUS
  <2>2. Added32(low, pos, m + 1) =
            Parts(Shr(RightOf(low, w, pos), 3), LeftOf(low, w, pos), RightOf(low, w, pos),
                  sum, k[KeyIndex(pos, sum)] \cap Low32)
    BY <1>7, <2>1, AddedIs, SMT
  <2> QED BY <1>8, <2>2, Zenon
<1>10. before = [low EXCEPT ![pos] = Minus32(new, taken)]
  <2>1. Size(low) = w
    <3>1. DOMAIN low = 0..(w - 1) /\ w \in Nat
      BY <1>7 DEF Of32
    <3> QED BY <3>1, SizeIs, Zenon
  <2>2. /\ ((m * w + pos + 1) - 1) % w = pos
        /\ 1 + (((m * w + pos + 1) - 1) \div w) = m + 1
    <3>1. w \in Nat \ {0}
      OBVIOUS
    <3> QED BY <3>1, StepIs, Zenon
  <2>3. before = UndoneAt(low, pos, m + 1)
    BY <2>1, <2>2, BeforeIs, Zenon
  <2> QED BY <1>7, <1>9, <2>3, Zenon DEF UndoneAt
<1> HIDE DEF before
<1>11. before[pos] = Minus32(new, taken) /\ taken \in SUBSET Low32
       /\ added \cap Low32 \in SUBSET Low32 /\ old \in SUBSET Low32
  <2>1. taken \in SUBSET Low32
    BY SumInLow, Zenon DEF Parts
  <2>2. pos \in DOMAIN low
    BY <1>7 DEF Of32
  <2> QED BY <1>10, <2>1, <2>2
<1>12. ASSUME right \subseteq Low32 PROVE before = Low(words)
  <2>1. right \cap Low32 = right
    BY <1>12
  <2>2. Shr(right, 3) \cap Low32 = Shr(right, 3)
    <3>1. right \in SUBSET Nat
      BY <1>4, <1>12, Zenon
    <3>2. Shr(right, 3) \subseteq Low32
      BY <1>12, <3>1, Shifts
    <3> QED BY <3>2
  <2>3. taken = added \cap Low32
    BY <1>5, <2>1, <2>2, Zenon
  <2>4. Minus32(new, taken) = old
    <3> HIDE DEF taken, old
    <3> QED BY <1>6, <1>11, <2>3, MinusUndoesSum, Zenon
  <2>5. before = [low EXCEPT ![pos] = old]
    BY <1>10, <2>4, Zenon
  <2> HIDE DEF old
  <2> QED BY <1>7, <2>5 DEF Of32
<1>13. ASSUME 34 \in right PROVE before[pos] # Low(words)[pos]
  <2> DEFINE high == Shr(right, 3) \cap Low32
             other == Shr(right \cap Low32, 3)
  <2>1. /\ right \in SUBSET Nat /\ right \cap Low32 \in SUBSET Nat /\ 31 \in Low32
        /\ 31 + 3 = 34 /\ 34 \notin Low32 /\ 3 \in Nat
    <3>1. right \in SUBSET Nat
      BY <1>3, <1>4, Zenon
    <3> QED BY <3>1 DEF Low32
  <2>2. \A x \in SUBSET Nat : \A i \in Low32 : i \in Shr(x, 3) <=> i + 3 \in x
    BY Shifts
  <2>3. 31 \in high /\ 31 \notin other
    BY <1>13, <2>1, <2>2
  <2>4. other \in SUBSET Low32 /\ high \in SUBSET Low32
    <3>1. right \cap Low32 \subseteq Low32
      OBVIOUS
    <3>2. other \subseteq Low32
      BY <2>1, <3>1, Shifts
    <3> QED BY <3>2
  <2> HIDE DEF high, other
  <2>5. high # other
    BY <2>3, Zenon
  <2>6. key \cap Low32 \in SUBSET Low32 /\ right \cap Low32 \in SUBSET Low32
    OBVIOUS
  <2>7. Parts(high, left, right \cap Low32, sum, key \cap Low32)
            # Parts(other, left, right \cap Low32, sum, key \cap Low32)
    BY <1>3, <2>4, <2>5, <2>6, PartsDiffer, SMT
  <2>8. added \cap Low32 # taken
    BY <1>5, <2>7, Zenon DEF high, other
  <2>9. Minus32(new, taken) # old
    <3> HIDE DEF taken, old
    <3> QED BY <1>6, <1>11, <2>8, OtherSumStays, Zenon
  <2> QED BY <1>7, <1>11, <2>9, Zenon
<1> QED BY <1>7, <1>12, <1>13, Zenon DEF before, low, right, IsTakenBack

-----------------------------------------------------------------------------
(***************************************************************************)
(* Bytes packed into words.                                                *)
(***************************************************************************)

WordCount(a) == (Len(a) + 3) \div 4

\* The bits of the bytes of a word, before a sign is spread.
Raw(a, j) ==
    UNION {Shl(Bits(a[i]), 8 * ((i - 1) % 4)) : i \in {m \in 1..Len(a) : (m - 1) \div 4 = j}}

\* Bit i of a word is bit i % 8 of a byte of the text, if there is one.
BitOf(a, j, i) ==
    4 * j + 1 + (i \div 8) <= Len(a) /\ i % 8 \in Bits(a[4 * j + 1 + (i \div 8)])

LEMMA ShiftedByte ==
    ASSUME Builds, NEW c \in 0..255, NEW r \in 0..3, NEW i
    PROVE  i \in Shl(Bits(c), 8 * r) <=> i \in Low32 /\ i \div 8 = r /\ i % 8 \in Bits(c)
<1>1. Bits(c) \subseteq 0..7
  BY BitsOfByte
<1>2. Bits(c) \in SUBSET Nat /\ 8 * r \in Nat
  BY <1>1
<1>3. ASSUME i \in Low32
      PROVE  i \in Shl(Bits(c), 8 * r) <=> i \div 8 = r /\ i % 8 \in Bits(c)
  <2>1. i \in Shl(Bits(c), 8 * r) <=> i >= 8 * r /\ i - 8 * r \in Bits(c)
    BY <1>2, <1>3, Shifts
  <2>2. i \in 0..31
    BY <1>3 DEF Low32
  <2>3. ASSUME i >= 8 * r, i - 8 * r \in 0..7
        PROVE  i \div 8 = r /\ i % 8 = i - 8 * r
    BY <2>2, <2>3, SMTT(60)
  <2>4. ASSUME i \div 8 = r
        PROVE  i >= 8 * r /\ i - 8 * r = i % 8
    BY <2>2, <2>4, SMTT(60)
  <2> QED BY <1>1, <2>1, <2>3, <2>4
<1>4. ASSUME i \in Shl(Bits(c), 8 * r) PROVE i \in Low32
  <2>1. PICK b \in Bits(c) : i = b + 8 * r
    BY <1>4 DEF Shl
  <2>2. b \in 0..7
    BY <1>1
  <2> QED BY <2>1, <2>2 DEF Low32
<1> QED BY <1>3, <1>4

LEMMA RawIs ==
    ASSUME Builds, NEW a \in Seq(0..255), NEW j \in Nat
    PROVE  /\ Raw(a, j) \subseteq Low32
           /\ \A i \in Low32 : i \in Raw(a, j) <=> BitOf(a, j, i)
<1>1. Len(a) \in Nat /\ \A m \in 1..Len(a) : a[m] \in 0..255
  BY ElementOfSeq
<1>2. ASSUME NEW m \in 1..Len(a) PROVE (m - 1) % 4 \in 0..3 /\ m \in Int
  BY <1>1
<1>3. \A i : i \in Raw(a, j) <=>
                 \E m \in 1..Len(a) : (m - 1) \div 4 = j
                                      /\ i \in Shl(Bits(a[m]), 8 * ((m - 1) % 4))
  BY Zenon DEF Raw
<1>4. \A i : i \in Raw(a, j) <=>
                 \E m \in 1..Len(a) :
                     /\ (m - 1) \div 4 = j
                     /\ i \in Low32 /\ i \div 8 = (m - 1) % 4 /\ i % 8 \in Bits(a[m])
  <2>1. ASSUME NEW m \in 1..Len(a), NEW i
        PROVE  i \in Shl(Bits(a[m]), 8 * ((m - 1) % 4)) <=>
                   i \in Low32 /\ i \div 8 = (m - 1) % 4 /\ i % 8 \in Bits(a[m])
    <3>1. a[m] \in 0..255 /\ (m - 1) % 4 \in 0..3
      BY <1>1, <1>2, Zenon
    <3> QED BY <3>1, ShiftedByte, Zenon
  <2> QED BY <1>3, <2>1, Zenon
<1>5. ASSUME NEW i \in Low32
      PROVE  (\E m \in 1..Len(a) : /\ (m - 1) \div 4 = j
                                   /\ i \in Low32 /\ i \div 8 = (m - 1) % 4
                                   /\ i % 8 \in Bits(a[m])) <=> BitOf(a, j, i)
  <2> DEFINE x == 4 * j + 1 + (i \div 8)
  <2>1. i \div 8 \in 0..3
    BY DEF Low32
  <2>2. x \in Nat /\ x >= 1 /\ (x - 1) \div 4 = j /\ (x - 1) % 4 = i \div 8
    BY <2>1, SMTT(60)
  <2>3. \A m \in 1..Len(a) : (m - 1) \div 4 = j /\ i \div 8 = (m - 1) % 4 => m = x
    <3>1. ASSUME NEW m \in 1..Len(a), (m - 1) \div 4 = j, i \div 8 = (m - 1) % 4
          PROVE  m = x
      <4>1. m \in Nat /\ m - 1 \in Nat /\ m = (m - 1) + 1
        BY <1>1
      <4>2. m - 1 = 4 * ((m - 1) \div 4) + ((m - 1) % 4)
        BY <4>1, SMTT(60)
      <4> QED BY <2>1, <3>1, <4>1, <4>2
    <3> QED BY <3>1
  <2>4. x \in 1..Len(a) <=> x <= Len(a)
    BY <1>1, <2>2
  <2> HIDE DEF x
  <2> QED BY <2>2, <2>3, <2>4, Zenon DEF BitOf, x
<1> QED BY <1>4, <1>5, Zenon

LEMMA PackedIs ==
    ASSUME Builds, NEW a \in Seq(0..255)
    PROVE  /\ Packed(a) \in [0..(WordCount(a) - 1) -> SUBSET Word]
           /\ \A j \in 0..(WordCount(a) - 1) :
                  /\ \A i \in Low32 : i \in Packed(a)[j] <=> BitOf(a, j, i)
                  /\ Packed(a)[j] \subseteq Low32 \/ 34 \in Packed(a)[j]
                  /\ 34 \in Packed(a)[j] <=> sizeBits = 64 /\ BitOf(a, j, 31)
<1> DEFINE word(j) == IF 31 \in Raw(a, j) THEN Raw(a, j) \cup (Word \ Low32) ELSE Raw(a, j)
<1>1. Packed(a) = [j \in 0..(WordCount(a) - 1) |-> word(j)]
  BY Zenon DEF Packed, WordCount, Raw
<1>2. /\ 31 \in Low32 /\ 34 \notin Low32 /\ (34 \in Word <=> sizeBits = 64)
      /\ Low32 \subseteq Word
      /\ (sizeBits = 32 => Word \ Low32 = {})
  BY DEF Low32, Word, Builds
<1>3. sizeBits = 32 \/ sizeBits = 64
  BY DEF Builds
<1>4. ASSUME NEW j \in 0..(WordCount(a) - 1)
      PROVE  /\ word(j) \subseteq Word
             /\ \A i \in Low32 : i \in word(j) <=> BitOf(a, j, i)
             /\ word(j) \subseteq Low32 \/ 34 \in word(j)
             /\ 34 \in word(j) <=> sizeBits = 64 /\ BitOf(a, j, 31)
  <2>1. /\ Raw(a, j) \subseteq Low32
        /\ \A i \in Low32 : i \in Raw(a, j) <=> BitOf(a, j, i)
    <3>1. j \in Nat
      OBVIOUS
    <3> QED BY <3>1, RawIs, Zenon
  <2> QED BY <1>2, <1>3, <2>1
<1> HIDE DEF word
<1> QED BY <1>1, <1>4

\* How many words a text becomes with its length.
Words(a) == WordCount(a) + 1

LEMMA WordCountIs ==
    ASSUME NEW a \in Seq(0..255), a # <<>>
    PROVE  /\ Len(a) \in Nat /\ WordCount(a) \in Nat \ {0} /\ Words(a) \in Nat \ {0, 1}
           /\ Len(a) <= 4 * WordCount(a) /\ Len(a) >= 4 * WordCount(a) - 3
<1>1. Len(a) \in Nat /\ Len(a) # 0
  BY EmptySeq
<1>2. /\ (Len(a) + 3) \div 4 \in Nat \ {0}
      /\ Len(a) <= 4 * ((Len(a) + 3) \div 4) /\ Len(a) >= 4 * ((Len(a) + 3) \div 4) - 3
  BY <1>1, SMTT(60)
<1> QED BY <1>1, <1>2 DEF Words, WordCount

\* The words of a text, as they are before the first round.
LEMMA GivenIs ==
    ASSUME Builds, NEW a \in Seq(0..255), a # <<>>
    PROVE  /\ s(a, TRUE) \in [0..(Words(a) - 1) -> SUBSET Word]
           /\ \A j \in 0..(WordCount(a) - 1) : s(a, TRUE)[j] = Packed(a)[j]
           /\ s(a, TRUE)[Words(a) - 1] = Bits(Len(a))
           /\ s(a, TRUE)[Words(a) - 1] \subseteq Low32
<1>1. WordCount(a) \in Nat \ {0} /\ Words(a) - 1 = WordCount(a)
  BY WordCountIs DEF Words
<1>2. Packed(a) \in [0..(WordCount(a) - 1) -> SUBSET Word]
  BY PackedIs
<1>3. Size(Packed(a)) = WordCount(a)
  <2>1. DOMAIN Packed(a) = 0..(WordCount(a) - 1) /\ WordCount(a) \in Nat
    BY <1>1, <1>2
  <2> QED BY <2>1, SizeIs, Zenon
<1>4. s(a, TRUE) = [j \in 0..(Size(Packed(a)) - 0) |->
                       IF j < Size(Packed(a)) THEN Packed(a)[j] ELSE Bits(Len(a))]
  BY Zenon DEF s
<1>5. WordCount(a) - 0 = WordCount(a)
  BY <1>1
<1>6. s(a, TRUE) = [j \in 0..WordCount(a) |->
                       IF j < WordCount(a) THEN Packed(a)[j] ELSE Bits(Len(a))]
  BY <1>3, <1>4, <1>5, Zenon
<1>7. Bits(Len(a)) \subseteq Low32 /\ Low32 \subseteq Word
  BY LowInWord DEF Bits, Low32
<1>8. \A j \in 0..WordCount(a) : j < WordCount(a) => j \in 0..(WordCount(a) - 1)
  BY <1>1
<1>9. \A j \in 0..(WordCount(a) - 1) : j < WordCount(a) /\ j \in 0..WordCount(a)
  BY <1>1
<1>10. WordCount(a) \in 0..WordCount(a) /\ ~(WordCount(a) < WordCount(a))
  BY <1>1
<1>11. /\ \A j \in 0..(WordCount(a) - 1) : s(a, TRUE)[j] = Packed(a)[j]
       /\ s(a, TRUE)[WordCount(a)] = Bits(Len(a))
  BY <1>6, <1>9, <1>10, Zenon
<1>12. s(a, TRUE) \in [0..WordCount(a) -> SUBSET Word]
  BY <1>2, <1>6, <1>7, <1>8
<1> QED BY <1>1, <1>7, <1>11, <1>12, Zenon

LEMMA KeyWordsAre ==
    ASSUME Builds, NEW key \in Seq(0..255)
    PROVE  KeyWords(key) \in [0..3 -> SUBSET Word]
<1> DEFINE w == s(key, FALSE)
<1>1. WordCount(key) \in Nat
  <2>1. Len(key) \in Nat
    OBVIOUS
  <2> QED BY <2>1 DEF WordCount
<1>2. Packed(key) \in [0..(WordCount(key) - 1) -> SUBSET Word]
  BY PackedIs
<1>3. Size(Packed(key)) = WordCount(key)
  <2>1. DOMAIN Packed(key) = 0..(WordCount(key) - 1)
    BY <1>2
  <2> QED BY <1>1, <2>1, SizeIs, Zenon
<1>4. w = [j \in 0..(Size(Packed(key)) - 1) |->
              IF j < Size(Packed(key)) THEN Packed(key)[j] ELSE Bits(Len(key))]
  BY Zenon DEF s
<1>5. w = [j \in 0..(WordCount(key) - 1) |->
              IF j < WordCount(key) THEN Packed(key)[j] ELSE Bits(Len(key))]
  BY <1>3, <1>4, Zenon
<1>6. \A j \in DOMAIN w : w[j] \in SUBSET Word
  <2>1. \A j \in 0..(WordCount(key) - 1) : j < WordCount(key)
    BY <1>1
  <2> HIDE DEF w
  <2> QED BY <1>2, <1>5, <2>1
<1>7. KeyWords(key) = [j \in 0..3 |-> IF j \in DOMAIN w THEN w[j] ELSE {}]
  BY Zenon DEF KeyWords
<1> HIDE DEF w
<1> QED BY <1>6, <1>7

-----------------------------------------------------------------------------
(***************************************************************************)
(* x_encode: what holds between two steps.                                 *)
(***************************************************************************)

Given == s(str, TRUE)

Length == Words(str)

\* The round that goes on or has just ended, and the words mixed so far.
AllRounds == 6 + 52 \div Length
Round == AllRounds - q
Steps == (Round - 1) * Length + p

Unmixed(j) == Round = 0 \/ (Round = 1 /\ j >= p)

Typed ==
    /\ Builds /\ str \in Texts
    /\ v \in [0..(Length - 1) -> SUBSET Word]
    /\ k \in [0..3 -> SUBSET Word]
    /\ q \in 0..AllRounds /\ p \in 0..Length /\ (Round = 0 => p = Length)

Counted == d = Times(Round, Delta)

LastMixed == z = v[IF p = 0 THEN Length - 1 ELSE p - 1] /\ z \subseteq Low32

\* Every word is as it was or has been mixed to 32 bits.
Halfway ==
    \A j \in 0..(Length - 1) : /\ Unmixed(j) => v[j] = Given[j]
                               /\ ~Unmixed(j) => v[j] \subseteq Low32

Ended == result # <<>> => q = 0 /\ p = Length /\ result = l(v, FALSE)

Shape == Typed /\ Counted /\ LastMixed /\ Halfway /\ Ended

LEMMA TextsAre ==
    ASSUME NEW a \in Texts \cup Keys
    PROVE  a \in Seq(0..255) /\ a # <<>>
BY SrunXEncodeConstants

LEMMA LengthIs ==
    ASSUME Typed
    PROVE  /\ Length \in Nat \ {0, 1} /\ AllRounds \in Nat \ {0} /\ Round \in Nat
           /\ Size(v) = Length /\ n = Length - 1 /\ Rounds(v) = AllRounds
           /\ Given \in [0..(Length - 1) -> SUBSET Word]
           /\ Given[Length - 1] \subseteq Low32
<1>1. str \in Seq(0..255) /\ str # <<>>
  BY TextsAre, Zenon DEF Typed
<1>2. Length \in Nat \ {0, 1}
  BY <1>1, WordCountIs, Zenon DEF Length
<1>3. DOMAIN v = 0..(Length - 1) /\ Length \in Nat
  BY <1>2 DEF Typed
<1>4. Size(v) = Length
  BY <1>3, SizeIs, Zenon
<1>5. n = Length - 1 /\ Rounds(v) = AllRounds
  BY <1>4, Zenon DEF n, Rounds, AllRounds
<1>6. AllRounds \in Nat \ {0}
  <2>1. 52 \div Length \in Nat
    BY <1>2
  <2> QED BY <2>1 DEF AllRounds
<1>7. Round \in Nat
  BY <1>6 DEF Typed, Round
<1>8. /\ Given \in [0..(Length - 1) -> SUBSET Word]
      /\ Given[Length - 1] \subseteq Low32
  BY <1>1, GivenIs, Zenon DEF Given, Length, Typed
<1> QED BY <1>2, <1>4, <1>5, <1>6, <1>7, <1>8, Zenon

LEMMA StartsShaped ==
    ASSUME Init
    PROVE  Shape
<1>1. Builds /\ str \in Texts /\ v = Given /\ result = <<>> /\ d = {}
  BY DEF Init, Builds, Given
<1>2. str \in Seq(0..255) /\ str # <<>>
  BY <1>1, TextsAre, Zenon
<1>3. Length \in Nat \ {0, 1}
  BY <1>2, WordCountIs, Zenon DEF Length
<1>4. v \in [0..(Length - 1) -> SUBSET Word] /\ v[Length - 1] \subseteq Low32
  BY <1>1, <1>2, GivenIs, Zenon DEF Given, Length
<1>5. Size(v) = Length
  <2>1. DOMAIN v = 0..(Length - 1) /\ Length \in Nat
    BY <1>3, <1>4
  <2> QED BY <2>1, SizeIs, Zenon
<1>6. k \in [0..3 -> SUBSET Word]
  <2>1. PICK key \in Keys : k = KeyWords(key)
    BY DEF Init
  <2>2. key \in Seq(0..255)
    BY TextsAre
  <2> QED BY <1>1, <2>1, <2>2, KeyWordsAre
<1>7. AllRounds \in Nat /\ q = AllRounds /\ Round = 0
  <2>1. 52 \div Length \in Nat
    BY <1>3
  <2>2. q = AllRounds
    BY <1>5, Zenon DEF Init, Rounds, AllRounds
  <2> QED BY <2>1, <2>2 DEF AllRounds, Round
<1>8. n = Length - 1 /\ p = Length /\ z = v[Length - 1]
  <2>1. n = Length - 1
    BY <1>5, Zenon DEF n
  <2> QED BY <1>3, <2>1 DEF Init
<1>9. Typed
  BY <1>1, <1>3, <1>4, <1>6, <1>7, <1>8 DEF Typed
<1>10. Counted
  <2>1. Times(0, Delta) = {}
    <3>1. 0 \in Nat
      OBVIOUS
    <3> QED BY <3>1, NextTimes, Zenon
  <2> QED BY <1>1, <1>7, <2>1, Zenon DEF Counted
<1>11. LastMixed
  BY <1>3, <1>4, <1>8 DEF LastMixed
<1>12. Halfway
  BY <1>1, <1>7, Zenon DEF Halfway, Unmixed
<1> QED BY <1>1, <1>9, <1>10, <1>11, <1>12, Zenon DEF Shape, Ended

LEMMA UndoneIsKept ==
    ASSUME k' = k, sizeBits' = sizeBits
    PROVE  \A a, m : (Undone(a, m))' = Undone(a, m)
<1>1. /\ \A a, m : (Shl(a, m))' = Shl(a, m)
      /\ \A a, m : (Shr(a, m))' = Shr(a, m)
      /\ \A a, b : (Sum32(a, b))' = Sum32(a, b)
  BY SMT DEF Shl, Shr, Sum32, Add, Word
<1>2. \A m : (Times(m, Delta))' = Times(m, Delta)
  BY SMT DEF Sum32, Times, Delta, Hex, Add, Word, Shr, Shl
<1>3. ASSUME NEW a, NEW pos, NEW round
      PROVE  (Added32(a, pos, round))' = Added32(a, pos, round)
  BY <1>1, <1>2, Zenon DEF Added32, Size
<1>4. ASSUME NEW a, NEW step PROVE (Before(a, step))' = Before(a, step)
  BY <1>1, <1>3, Zenon DEF Before, Minus32, Size
<1>5. ASSUME NEW a, NEW m PROVE (Undone(a, m))' = Undone(a, m)
  <2>1. \A f : [t \in 0..m |-> IF t = m THEN a ELSE (Before(f[t + 1], t + 1))'] =
                  [t \in 0..m |-> IF t = m THEN a ELSE Before(f[t + 1], t + 1)]
    BY <1>4, Zenon
  <2>2. (CHOOSE f : f = [t \in 0..m |-> IF t = m THEN a ELSE (Before(f[t + 1], t + 1))']) =
        (CHOOSE f : f = [t \in 0..m |-> IF t = m THEN a ELSE Before(f[t + 1], t + 1)])
    BY <2>1, Zenon
  <2> QED BY <2>2, Zenon DEF Undone
<1> QED BY <1>5, Zenon

\* What only the text, the key and the build decide.
LEMMA Kept ==
    ASSUME str' = str, k' = k, sizeBits' = sizeBits
    PROVE  /\ Given' = Given /\ Length' = Length /\ AllRounds' = AllRounds
           /\ Word' = Word /\ (Builds <=> Builds')
           /\ \A a, m : (Undone(a, m))' = Undone(a, m)
           /\ \A m : (Times(m, Delta))' = Times(m, Delta)
<1>1. Given' = Given
  BY SMT DEF Given, s, Packed, Shl, Word, Size
<1>2. Length' = Length
  BY DEF Length, Words, WordCount
<1>3. AllRounds' = AllRounds
  BY <1>2, Zenon DEF AllRounds
<1>4. Word' = Word /\ (Builds <=> Builds')
  BY DEF Word, Builds
<1>5. \A a, m : (Undone(a, m))' = Undone(a, m)
  BY UndoneIsKept, Zenon
<1>6. \A m : (Times(m, Delta))' = Times(m, Delta)
  BY SMT DEF Sum32, Times, Delta, Hex, Add, Word, Shr, Shl
<1> QED BY <1>1, <1>2, <1>3, <1>4, <1>5, <1>6, Zenon

LEMMA ResultIsKept ==
    ASSUME v' = v, sizeBits' = sizeBits
    PROVE  (l(v, FALSE))' = l(v, FALSE)
<1>1. \A a, m : (Shr(a, m))' = Shr(a, m)
  BY SMT DEF Shr, Word
<1>2. ASSUME NEW a PROVE (AllBytes(a))' = AllBytes(a)
  BY <1>1, Zenon DEF AllBytes, Size
<1>3. \A a : l(a, FALSE) = IF Size(a) = 0 THEN <<>> ELSE AllBytes(a)
  BY Zenon DEF l
<1>4. \A a : (l(a, FALSE))' = IF Size(a) = 0 THEN <<>> ELSE (AllBytes(a))'
  BY Zenon DEF l, Size
<1>5. \A a : (l(a, FALSE))' = l(a, FALSE)
  BY <1>2, <1>3, <1>4, Zenon
<1> QED BY <1>5, Zenon

LEMMA RoundStarts ==
    ASSUME Shape, StartRound
    PROVE  Shape' /\ Steps' = Steps /\ Round' = Round + 1
<1>1. /\ Length \in Nat \ {0, 1} /\ AllRounds \in Nat \ {0} /\ Round \in Nat
      /\ n = Length - 1
  BY LengthIs, Zenon DEF Shape
<1>2. /\ p = Length /\ q > 0 /\ q' = q - 1 /\ d' = Sum32(d, Delta) /\ p' = 0
      /\ v' = v /\ str' = str /\ k' = k /\ z' = z /\ result' = result /\ sizeBits' = sizeBits
  BY <1>1 DEF StartRound, Sum32
<1>3. /\ Given' = Given /\ Length' = Length /\ AllRounds' = AllRounds
      /\ Word' = Word /\ (Builds <=> Builds')
      /\ \A m : (Times(m, Delta))' = Times(m, Delta)
  BY <1>2, Kept, Zenon
<1>4. q \in 0..AllRounds
  BY DEF Shape, Typed
<1>5. Round' = Round + 1
  BY <1>1, <1>2, <1>3, <1>4 DEF Round
<1>6. Typed'
  <2>1. q' \in 0..AllRounds' /\ p' \in 0..Length' /\ ~(Round' = 0)
    BY <1>1, <1>2, <1>3, <1>4, <1>5
  <2>2. /\ Builds' /\ str' \in Texts
        /\ v' \in [0..(Length' - 1) -> SUBSET (Word')]
        /\ k' \in [0..3 -> SUBSET (Word')]
    BY <1>2, <1>3, Zenon DEF Shape, Typed
  <2> QED BY <2>1, <2>2, Zenon DEF Typed
<1>7. Counted'
  <2>1. d' = Sum32(Times(Round, Delta), Delta)
    BY <1>2, Zenon DEF Shape, Counted
  <2>2. d' = Times(Round + 1, Delta)
    BY <1>1, <2>1, NextTimes, Zenon
  <2>3. d' = (Times(Round, Delta))'
    BY <1>3, <1>5, <2>2, Zenon
  <2> QED BY <2>3, Zenon DEF Counted
<1>8. LastMixed'
  <2>1. z = v[Length - 1] /\ z \subseteq Low32
    BY <1>1, <1>2 DEF Shape, LastMixed
  <2> QED BY <1>2, <1>3, <2>1 DEF LastMixed, Low32
<1>9. Halfway'
  <2>1. ASSUME NEW j \in 0..(Length - 1)
        PROVE  Unmixed(j) <=> (Unmixed(j))'
    BY <1>1, <1>2, <1>5 DEF Unmixed
  <2>2. Low32' = Low32
    BY DEF Low32
  <2> QED BY <1>2, <1>3, <2>1, <2>2, Zenon DEF Shape, Halfway
<1>10. Ended'
  <2>1. q # 0
    BY <1>2, <1>4
  <2>2. result' = <<>>
    BY <1>2, <2>1, Zenon DEF Shape, Ended
  <2> QED BY <2>2, Zenon DEF Ended
<1>11. Steps' = Steps
  <2>1. (((Round + 1) - 1) * Length) + 0 = ((Round - 1) * Length) + Length
    BY <1>1
  <2> QED BY <1>2, <1>3, <1>5, <2>1, Zenon DEF Steps
<1> QED BY <1>5, <1>6, <1>7, <1>8, <1>9, <1>10, <1>11, Zenon DEF Shape

\* A word is mixed in a round that has begun, between neighbours of which the
\* left one is mixed, or is the length.
LEMMA MixingIs ==
    ASSUME Shape, MixWord
    PROVE  /\ p \in 0..(Length - 1) /\ Round \in Nat \ {0} /\ q \in Nat
           /\ LeftOf(v, Length, p) = z /\ z \in SUBSET Low32
           /\ v[Right(p)] = RightOf(v, Length, p)
           /\ d = Times(Round, Delta) /\ d \in SUBSET Low32
           /\ k[KeyIndex(p, d)] \subseteq Word
           /\ z' = Add(v[p], Mix(z, v[Right(p)], d, p)) \cap Low32
           /\ v' = [v EXCEPT ![p] = z'] /\ p' = p + 1
           /\ str' = str /\ k' = k /\ d' = d /\ q' = q /\ result' = result
           /\ sizeBits' = sizeBits
<1>1. /\ Length \in Nat \ {0, 1} /\ Round \in Nat /\ n = Length - 1
      /\ p \in 0..Length /\ q \in Nat /\ (Round = 0 => p = Length) /\ Builds
  <2>1. /\ Length \in Nat \ {0, 1} /\ Round \in Nat /\ n = Length - 1 /\ AllRounds \in Nat
    BY LengthIs DEF Shape
  <2>2. q \in 0..AllRounds /\ p \in 0..Length /\ (Round = 0 => p = Length) /\ Builds
    BY DEF Shape, Typed
  <2> QED BY <2>1, <2>2
<1>2. p <= n
  BY DEF MixWord
<1>3. p \in 0..(Length - 1) /\ Round \in Nat \ {0} /\ q \in Nat
  BY <1>1, <1>2
<1>4. z = v[IF p = 0 THEN Length - 1 ELSE p - 1] /\ z \in SUBSET Low32
  BY Zenon DEF Shape, LastMixed
<1>5. Right(p) = IF p = Length - 1 THEN 0 ELSE p + 1
  BY <1>1, <1>3 DEF Right
<1>6. d = Times(Round, Delta)
  BY Zenon DEF Shape, Counted
<1>7. d \in SUBSET Low32
  <2>1. Round - 1 \in Nat /\ (Round - 1) + 1 = Round
    BY <1>3
  <2>2. Times((Round - 1) + 1, Delta) = Sum32(Times(Round - 1, Delta), Delta)
    BY <2>1, NextTimes, Zenon
  <2>3. d = Sum32(Times(Round - 1, Delta), Delta)
    BY <1>6, <2>1, <2>2, Zenon
  <2> QED BY <2>3, SumInLow, Zenon
<1>8. k[KeyIndex(p, d)] \subseteq Word
  <2>1. p \in Nat
    BY <1>3
  <2>2. KeyIndex(p, d) \in 0..3
    BY <1>1, <1>7, <2>1, KeyIndexIs, Zenon
  <2>3. k \in [0..3 -> SUBSET Word]
    BY Zenon DEF Shape, Typed
  <2> QED BY <2>2, <2>3
<1>9. LeftOf(v, Length, p) = z /\ v[Right(p)] = RightOf(v, Length, p)
  BY <1>4, <1>5, Zenon DEF LeftOf, RightOf
<1>10. /\ z' = Add(v[p], Mix(z, v[Right(p)], d, p)) \cap Low32
       /\ v' = [v EXCEPT ![p] = z'] /\ p' = p + 1
       /\ str' = str /\ k' = k /\ d' = d /\ q' = q /\ result' = result
       /\ sizeBits' = sizeBits
  BY Zenon DEF MixWord
<1> QED BY <1>3, <1>4, <1>6, <1>7, <1>8, <1>9, <1>10, Zenon

LEMMA MixingShaped ==
    ASSUME Shape, MixWord
    PROVE  Shape' /\ Steps' = Steps + 1 /\ Round' = Round
<1>1. /\ p \in 0..(Length - 1) /\ Round \in Nat \ {0} /\ q \in Nat
      /\ d = Times(Round, Delta)
      /\ z' = Add(v[p], Mix(z, v[Right(p)], d, p)) \cap Low32
      /\ v' = [v EXCEPT ![p] = z'] /\ p' = p + 1
      /\ str' = str /\ k' = k /\ d' = d /\ q' = q /\ result' = result
      /\ sizeBits' = sizeBits
  BY MixingIs, Zenon
<1>2. /\ Length \in Nat \ {0, 1} /\ n = Length - 1
  BY LengthIs, Zenon DEF Shape
<1>3. /\ Given' = Given /\ Length' = Length /\ AllRounds' = AllRounds
      /\ Word' = Word /\ (Builds <=> Builds')
      /\ \A m : (Times(m, Delta))' = Times(m, Delta)
  BY <1>1, Kept, Zenon
<1>4. Round' = Round
  BY <1>1, <1>3, Zenon DEF Round
<1>5. Low32' = Low32 /\ Builds
  BY DEF Low32, Shape, Typed
<1>6. z' \subseteq Low32 /\ z' \in SUBSET Word
  BY <1>1, <1>5, LowInWord
<1>7. v \in [0..(Length - 1) -> SUBSET Word]
  BY Zenon DEF Shape, Typed
<1>8. /\ v' \in [0..(Length - 1) -> SUBSET Word] /\ v'[p] = z'
      /\ \A j \in 0..(Length - 1) : j # p => v'[j] = v[j]
  BY <1>1, <1>6, <1>7
<1>9. Typed'
  <2>1. p' \in 0..Length /\ ~(Round' = 0)
    BY <1>1, <1>2, <1>4
  <2>2. k' \in [0..3 -> SUBSET Word] /\ q' \in 0..AllRounds /\ str' \in Texts
    BY <1>1, Zenon DEF Shape, Typed
  <2> QED BY <1>3, <1>5, <1>8, <2>1, <2>2, Zenon DEF Typed
<1>10. Counted'
  <2>1. d' = (Times(Round, Delta))'
    BY <1>1, <1>3, <1>4, Zenon
  <2> QED BY <2>1, Zenon DEF Counted
<1>11. LastMixed'
  <2>1. p' # 0 /\ p' - 1 = p
    BY <1>1
  <2> QED BY <1>5, <1>6, <1>8, <2>1, Zenon DEF LastMixed
<1>12. Halfway'
  <2>1. ASSUME NEW j \in 0..(Length - 1), j # p
        PROVE  Unmixed(j) <=> (Unmixed(j))'
    BY <1>1, <1>4, <2>1 DEF Unmixed
  <2>3. ASSUME NEW j \in 0..(Length - 1)
        PROVE  /\ (Unmixed(j))' => v'[j] = Given[j]
               /\ ~(Unmixed(j))' => v'[j] \subseteq Low32
    <3>1. CASE j # p
      BY <1>8, <2>1, <3>1, Zenon DEF Shape, Halfway
    <3>2. CASE j = p
      <4>1. ~(Unmixed(j))'
        <5>1. j \in Int /\ ~(p >= p + 1) /\ Round # 0
          BY <1>1
        <5> QED BY <1>1, <1>4, <3>2, <5>1, Zenon DEF Unmixed
      <4> QED BY <1>6, <1>8, <3>2, <4>1, Zenon
    <3> QED BY <3>1, <3>2
  <2> QED BY <1>3, <1>5, <2>3, Zenon DEF Halfway
<1>13. Ended'
  <2>1. p # Length
    BY <1>1, <1>2
  <2>2. result' = <<>>
    BY <1>1, <2>1, Zenon DEF Shape, Ended
  <2> QED BY <2>2, Zenon DEF Ended
<1>14. Steps' = Steps + 1
  <2>1. ((Round - 1) * Length) + (p + 1) = (((Round - 1) * Length) + p) + 1
    BY <1>1, <1>2
  <2> QED BY <1>1, <1>3, <1>4, <2>1, Zenon DEF Steps
<1> QED BY <1>4, <1>9, <1>10, <1>11, <1>12, <1>13, <1>14, Zenon DEF Shape

\* Words whose sign reaches the first round, as a right neighbour.
Signs == {j \in 1..(Length - 1) : ~(Given[j] \subseteq Low32)}

\* Undoing the steps so far gives the text back, unless a sign was mixed in.
Undoing ==
    /\ (\A j \in Signs : j > Steps) => Undone(Low(v), Steps) = Low(Given)
    /\ (\E j \in Signs : j <= Steps) =>
           \E i \in 0..(Length - 3) : Undone(Low(v), Steps)[i] # Low(Given)[i]

IInv == Shape /\ Undoing

\* A word with a sign fills a 64-bit word.
LEMMA SignsAre ==
    ASSUME Typed, NEW j \in Signs
    PROVE  j \in 1..(Length - 2) /\ 34 \in Given[j]
<1>1. str \in Seq(0..255) /\ str # <<>> /\ Builds
  BY TextsAre, Zenon DEF Typed
<1>2. WordCount(str) \in Nat \ {0} /\ Length = WordCount(str) + 1
  BY <1>1, WordCountIs, Zenon DEF Length, Words
<1>3. Given[Length - 1] \subseteq Low32
  BY LengthIs, Zenon
<1>4. j \in 1..(Length - 1) /\ ~(Given[j] \subseteq Low32)
  BY DEF Signs
<1>5. j # Length - 1
  BY <1>3, <1>4, Zenon
<1>6. j \in 0..(WordCount(str) - 1) /\ j \in 1..(Length - 2)
  BY <1>2, <1>4, <1>5
<1>7. Given[j] = Packed(str)[j]
  BY <1>1, <1>6, GivenIs, Zenon DEF Given
<1>8. Packed(str)[j] \subseteq Low32 \/ 34 \in Packed(str)[j]
  BY <1>1, <1>6, PackedIs, Zenon
<1> QED BY <1>4, <1>6, <1>7, <1>8, Zenon

LEMMA NothingMixed ==
    ASSUME Init
    PROVE  Undoing
<1>1. Shape /\ v = Given
  BY StartsShaped, Zenon DEF Init, Given
<1>2. Length \in Nat \ {0, 1} /\ Round \in Nat
  BY <1>1, LengthIs, Zenon DEF Shape
<1>3. Steps = 0
  <2>1. q = AllRounds /\ p = Length
    <3>1. Rounds(v) = AllRounds /\ n = Length - 1
      BY <1>1, LengthIs, Zenon DEF Shape
    <3>2. q = Rounds(v) /\ p = n + 1
      BY Zenon DEF Init
    <3> QED BY <1>2, <3>1, <3>2
  <2>2. AllRounds \in Nat
    BY <1>1, LengthIs DEF Shape
  <2>3. Round = 0
    BY <2>1, <2>2 DEF Round
  <2>4. (0 - 1) * Length + Length = 0
    BY <1>2
  <2> QED BY <2>1, <2>3, <2>4, Zenon DEF Steps
<1>4. Undone(Low(v), 0) = Low(v)
  BY NothingUndone, Zenon
<1>5. ~\E j \in Signs : j <= 0
  BY <1>2 DEF Signs
<1> QED BY <1>1, <1>3, <1>4, <1>5, Zenon DEF Undoing

LEMMA MixingUndoes ==
    ASSUME Shape, Undoing, MixWord
    PROVE  Undoing'
<1> DEFINE right == RightOf(v, Length, p)
           before == Before(Low(v'), Steps + 1)
<1>1. /\ p \in 0..(Length - 1) /\ Round \in Nat \ {0}
      /\ LeftOf(v, Length, p) = z /\ z \in SUBSET Low32
      /\ v[Right(p)] = right
      /\ d = Times(Round, Delta) /\ d \in SUBSET Low32
      /\ k[KeyIndex(p, d)] \subseteq Word
      /\ z' = Add(v[p], Mix(z, v[Right(p)], d, p)) \cap Low32
      /\ v' = [v EXCEPT ![p] = z']
      /\ str' = str /\ k' = k /\ sizeBits' = sizeBits
  BY MixingIs, Zenon
<1>2. Length \in Nat \ {0, 1} /\ Typed /\ Builds
  BY LengthIs, Zenon DEF Shape, Typed
<1>3. /\ Given' = Given /\ Length' = Length
      /\ \A a, m : (Undone(a, m))' = Undone(a, m)
  BY <1>1, Kept, Zenon
<1>4. Steps' = Steps + 1
  BY MixingShaped, Zenon
<1>5. v \in [0..(Length - 1) -> SUBSET Word]
  BY <1>2, Zenon DEF Typed
<1>6. Round - 1 \in Nat /\ (Round - 1) + 1 = Round /\ Steps + 1 = (Round - 1) * Length + p + 1
      /\ Steps \in Nat /\ (Round = 1 => Steps = p)
      /\ (Round # 1 => Steps + 1 >= Length)
  <2>1. Round - 1 \in Nat /\ (Round - 1) + 1 = Round /\ (Round - 1) * Length \in Nat
    BY <1>1, <1>2
  <2>2. Steps = (Round - 1) * Length + p
    BY Zenon DEF Steps
  <2>3. ASSUME Round # 1 PROVE (Round - 1) * Length >= Length
    <3>1. Round - 1 \in Nat \ {0}
      BY <2>1, <2>3
    <3>2. \A a \in Nat \ {0} : \A b \in Nat : a * b >= b
      BY SMTT(60)
    <3> QED BY <1>2, <3>1, <3>2
  <2>4. ASSUME Round = 1 PROVE (Round - 1) * Length = 0
    BY <1>2, <2>4
  <2> HIDE DEF Steps
  <2> QED BY <1>1, <1>2, <2>1, <2>2, <2>3, <2>4
<1>7. /\ Low(v') \in Of32(Length) /\ Low(v) \in Of32(Length)
      /\ right \subseteq Low32 => before = Low(v)
      /\ 34 \in right => before[p] # Low(v)[p]
  <2>1. d = Times((Round - 1) + 1, Delta)
    BY <1>1, <1>6, Zenon
  <2>2. MixesInto(v, v', Length, p, d)
    BY <1>1, Zenon DEF MixesInto
  <2>3. k[KeyIndex(p, d)] \in SUBSET Word /\ z = LeftOf(v, Length, p)
    BY <1>1, Zenon
  <2>4. IsTakenBack(v, v', Length, p, (Round - 1) * Length + p + 1)
    BY <1>1, <1>2, <1>5, <1>6, <2>1, <2>2, <2>3, MixedWord, Zenon
  <2> QED BY <1>6, <2>4, Zenon DEF IsTakenBack
<1>8. (Undone(Low(v), Steps))' = Undone(before, Steps)
  <2>1. (Undone(Low(v), Steps))' = Undone(Low(v'), Steps + 1)
    BY <1>3, <1>4, Zenon DEF Low, Low32
  <2>2. Undone(Low(v'), Steps + 1) = Undone(before, Steps)
    BY <1>6, NextUndone, Zenon
  <2> QED BY <2>1, <2>2, Zenon
<1>9. Signs' = Signs /\ (Low(Given))' = Low(Given)
  BY <1>3, Zenon DEF Signs, Low, Low32
<1> HIDE DEF before
<1>10. CASE right \subseteq Low32
  <2>1. (Undone(Low(v), Steps))' = Undone(Low(v), Steps)
    BY <1>7, <1>8, <1>10, Zenon
  <2>2. Steps + 1 \notin Signs
    <3> SUFFICES ASSUME Steps + 1 \in Signs PROVE FALSE
      OBVIOUS
    <3>1. Steps + 1 \in 1..(Length - 2) /\ 34 \in Given[Steps + 1]
      BY <1>2, SignsAre, Zenon
    <3>2. Round = 1 /\ Steps = p /\ p # Length - 1
      BY <1>2, <1>6, <3>1
    <3>3. right = v[p + 1] /\ p + 1 \in 0..(Length - 1) /\ p + 1 >= p
      BY <1>1, <1>2, <3>1, <3>2 DEF RightOf
    <3>4. right = Given[p + 1]
      BY <3>2, <3>3, Zenon DEF Shape, Halfway, Unmixed
    <3>5. 34 \notin Low32
      BY DEF Low32
    <3> QED BY <1>10, <3>1, <3>2, <3>4, <3>5, Zenon
  <2>3. \A j \in Signs : j <= Steps + 1 <=> j <= Steps
    <3>1. \A j \in Signs : j \in Int
      BY <1>2 DEF Signs
    <3> QED BY <1>6, <2>2, <3>1
  <2>4. \A j \in Signs : j > Steps + 1 => j > Steps
    <3>1. \A j \in Signs : j \in Int
      BY <1>2 DEF Signs
    <3> QED BY <1>6, <3>1
  <2>5. (\A j \in Signs : j > Steps + 1) => Undone(Low(v), Steps) = Low(Given)
    BY <2>4, Zenon DEF Undoing
  <2>6. (\E j \in Signs : j <= Steps + 1) =>
           \E i \in 0..(Length - 3) : Undone(Low(v), Steps)[i] # Low(Given)[i]
    BY <2>3, Zenon DEF Undoing
  <2> QED BY <1>3, <1>4, <1>9, <2>1, <2>5, <2>6, Zenon DEF Undoing
<1>11. CASE ~(right \subseteq Low32)
  <2> DEFINE r == IF p = Length - 1 THEN 0 ELSE p + 1
  <2>1. r \in 0..(Length - 1) /\ right = v[r]
    BY <1>1, <1>2 DEF RightOf
  <2>2. Unmixed(r) /\ v[r] = Given[r]
    BY <1>11, <2>1, Zenon DEF Shape, Halfway
  <2>3. Round = 1 /\ r >= p /\ p # Length - 1 /\ r = p + 1
    <3>1. Round = 1 /\ r >= p
      BY <1>1, <2>2 DEF Unmixed
    <3> QED BY <1>1, <1>2, <3>1
  <2> HIDE DEF r
  <2>4. r \in Signs
    <3>1. r \in 1..(Length - 1)
      BY <1>1, <2>1, <2>3
    <3> QED BY <1>11, <2>1, <2>2, <3>1, Zenon DEF Signs
  <2>5. r \in 1..(Length - 2) /\ 34 \in right
    BY <1>2, <2>1, <2>2, <2>4, SignsAre, Zenon
  <2>6. p \in 0..(Length - 3) /\ p \in p..(Length - 1) /\ Steps = p
    BY <1>1, <1>2, <1>6, <2>3, <2>5
  <2>7. Low(v)[p] = Low(Given)[p]
    <3>1. v[p] = Given[p]
      <4>1. p >= p
        BY <1>1
      <4> QED BY <1>1, <2>3, <4>1, Zenon DEF Shape, Halfway, Unmixed
    <3>2. DOMAIN v = 0..(Length - 1) /\ DOMAIN Given = 0..(Length - 1)
      <4>1. Given \in [0..(Length - 1) -> SUBSET Word]
        BY <1>2, LengthIs, Zenon
      <4> QED BY <1>5, <4>1
    <3> QED BY <1>1, <3>1, <3>2, Zenon DEF Low
  <2>8. Undone(before, p)[p] = before[p]
    <3>1. before \in Of32(Length)
      BY <1>2, <1>7, BeforeIsOf32, Zenon DEF before
    <3>2. DOMAIN before = 0..(Length - 1) /\ Length \in Nat /\ p \in Nat
      BY <1>1, <1>2, <3>1 DEF Of32
    <3>3. Size(before) = Length
      BY <3>2, SizeIs, Zenon
    <3> QED BY <2>6, <3>2, <3>3, LaterWordStays, Zenon
  <2>9. (Undone(Low(v), Steps))'[p] # Low(Given)[p]
    BY <1>7, <1>8, <2>5, <2>6, <2>7, <2>8, Zenon
  <2>10. r <= Steps + 1 /\ ~(r > Steps + 1)
    BY <1>1, <2>3, <2>6
  <2> QED BY <1>3, <1>4, <1>9, <2>4, <2>6, <2>9, <2>10, Zenon DEF Undoing
<1> QED BY <1>10, <1>11

\* A step that leaves the words and the counters alone.
LEMMA NothingMoves ==
    ASSUME IInv, UNCHANGED <<str, k, v, z, d, q, p, sizeBits>>, Ended'
    PROVE  IInv'
<1>1. /\ Given' = Given /\ Length' = Length /\ AllRounds' = AllRounds
      /\ Word' = Word /\ (Builds <=> Builds')
      /\ \A a, m : (Undone(a, m))' = Undone(a, m)
      /\ \A m : (Times(m, Delta))' = Times(m, Delta)
  BY Kept, Zenon
<1>2. /\ v' = v /\ q' = q /\ p' = p /\ z' = z /\ d' = d /\ k' = k /\ str' = str
  BY Zenon
<1>3. Round' = Round /\ Steps' = Steps /\ Low32' = Low32
  BY <1>1, <1>2, Zenon DEF Round, Steps, Low32
<1>4. Typed'
  BY <1>1, <1>2, <1>3, Zenon DEF IInv, Shape, Typed
<1>5. Counted'
  BY <1>1, <1>2, <1>3, Zenon DEF IInv, Shape, Counted
<1>6. LastMixed'
  BY <1>1, <1>2, <1>3, Zenon DEF IInv, Shape, LastMixed
<1>7. Halfway'
  <2>1. \A j : Unmixed(j) <=> (Unmixed(j))'
    BY <1>2, <1>3, Zenon DEF Unmixed
  <2> QED BY <1>1, <1>2, <1>3, <2>1, Zenon DEF IInv, Shape, Halfway
<1>8. Undoing'
  <2>1. Signs' = Signs /\ (Low(Given))' = Low(Given)
    BY <1>1, <1>3, Zenon DEF Signs, Low
  <2>2. (Undone(Low(v), Steps))' = Undone(Low(v), Steps)
    BY <1>1, <1>2, <1>3, Zenon DEF Low
  <2> QED BY <1>1, <1>3, <2>1, <2>2, Zenon DEF IInv, Undoing
<1> QED BY <1>4, <1>5, <1>6, <1>7, <1>8, Zenon DEF IInv, Shape

LEMMA RoundStartUndoes ==
    ASSUME Shape, Undoing, StartRound
    PROVE  Undoing'
<1>1. v' = v /\ str' = str /\ k' = k /\ sizeBits' = sizeBits
  BY Zenon DEF StartRound
<1>2. /\ Given' = Given /\ Length' = Length
      /\ \A a, m : (Undone(a, m))' = Undone(a, m)
  BY <1>1, Kept, Zenon
<1>3. Steps' = Steps
  BY RoundStarts, Zenon
<1>4. Signs' = Signs /\ (Low(Given))' = Low(Given)
  BY <1>2, Zenon DEF Signs, Low, Low32
<1>5. (Undone(Low(v), Steps))' = Undone(Low(v), Steps)
  BY <1>1, <1>2, <1>3, Zenon DEF Low, Low32
<1> QED BY <1>2, <1>3, <1>4, <1>5, Zenon DEF Undoing

\* As many steps taken back as x_encode has made lead to the words of the text, if
\* none of these steps read a word over which a sign was spread, and to other words if
\* one did (SrunXEncode.cpp:13-16, 74-93).
THEOREM UndoingInvariance == Spec => []IInv
<1>1. Init => IInv
  BY StartsShaped, NothingMixed, Zenon DEF IInv
<1>2. ASSUME IInv, [Next]_vars PROVE IInv'
  <2>1. CASE StartRound
    BY <1>2, <2>1, RoundStarts, RoundStartUndoes, Zenon DEF IInv
  <2>2. CASE MixWord
    BY <1>2, <2>2, MixingShaped, MixingUndoes, Zenon DEF IInv
  <2>3. CASE Finish
    <3>1. /\ UNCHANGED <<str, k, v, z, d, q, p, sizeBits>>
          /\ q = 0 /\ p = n + 1 /\ result' = l(v, FALSE)
      BY <2>3, Zenon DEF Finish
    <3>2. Length' = Length /\ p = Length
      <4>1. n = Length - 1 /\ Length \in Nat
        BY <1>2, LengthIs DEF IInv, Shape
      <4>2. p = Length
        BY <3>1, <4>1
      <4>3. Length' = Length
        BY <3>1 DEF Length, Words, WordCount
      <4> QED BY <4>2, <4>3
    <3>3. (l(v, FALSE))' = l(v, FALSE)
      BY <3>1, ResultIsKept, Zenon
    <3>4. Ended'
      BY <3>1, <3>2, <3>3, Zenon DEF Ended
    <3> QED BY <1>2, <3>1, <3>4, NothingMoves, Zenon
  <2>4. CASE UNCHANGED vars
    <3>1. UNCHANGED <<str, k, v, z, d, q, p, sizeBits>> /\ result' = result
      BY <2>4, Zenon DEF vars
    <3>2. (l(v, FALSE))' = l(v, FALSE)
      BY <3>1, ResultIsKept, Zenon
    <3>3. Length' = Length
      BY <3>1 DEF Length, Words, WordCount
    <3>4. Ended'
      BY <1>2, <3>1, <3>2, <3>3, Zenon DEF IInv, Shape, Ended
    <3> QED BY <1>2, <3>1, <3>4, NothingMoves, Zenon
  <2> QED BY <1>2, <2>1, <2>2, <2>3, <2>4, Zenon DEF Next
<1> QED BY <1>1, <1>2, PTL DEF Spec

-----------------------------------------------------------------------------
(***************************************************************************)
(* Words as bytes, and back.                                               *)
(***************************************************************************)

LEMMA PlaceOfByte ==
    ASSUME NEW j \in Nat, NEW r \in 0..3
    PROVE  LET x == 4 * j + 1 + r
           IN  x \in Nat /\ x >= 1 /\ (x - 1) \div 4 = j /\ (x - 1) % 4 = r
BY SMTT(60)

LEMMA PlaceOfBit ==
    ASSUME NEW i \in Low32
    PROVE  i \div 8 \in 0..3 /\ i % 8 \in 0..7 /\ (i % 8) + 8 * (i \div 8) = i
BY SMTT(60) DEF Low32

LEMMA BytesAre ==
    ASSUME Builds, NEW w \in Nat, NEW a \in Of32(w)
    PROVE  /\ AllBytes(a) \in Seq(0..255) /\ Len(AllBytes(a)) = 4 * w
           /\ \A j \in 0..(w - 1) : \A r \in 0..3 :
                  Bits(AllBytes(a)[4 * j + 1 + r]) = Shr(a[j], 8 * r) \cap 0..7
<1> DEFINE b(i) == Value(Shr(a[(i - 1) \div 4], 8 * ((i - 1) % 4)) \cap 0..7)
<1>1. Size(a) = w
  <2>1. DOMAIN a = 0..(w - 1)
    BY DEF Of32
  <2> QED BY <2>1, SizeIs, Zenon
<1>2. AllBytes(a) = [i \in 1..(4 * w) |-> b(i)]
  BY <1>1, Zenon DEF AllBytes
<1>3. ASSUME NEW i PROVE b(i) \in 0..255
  <2>1. Shr(a[(i - 1) \div 4], 8 * ((i - 1) % 4)) \cap 0..7 \in SUBSET (0..7)
    BY Zenon
  <2> QED BY <2>1, BitsMakeByte, Zenon
<1>4. AllBytes(a) \in Seq(0..255) /\ Len(AllBytes(a)) = 4 * w
  <2> HIDE DEF b
  <2>1. 4 * w \in Nat
    OBVIOUS
  <2> QED BY <1>2, <1>3, <2>1
<1>5. ASSUME NEW j \in 0..(w - 1), NEW r \in 0..3
      PROVE  Bits(AllBytes(a)[4 * j + 1 + r]) = Shr(a[j], 8 * r) \cap 0..7
  <2> DEFINE x == 4 * j + 1 + r
  <2>1. x \in Nat /\ x >= 1 /\ (x - 1) \div 4 = j /\ (x - 1) % 4 = r
    <3>1. j \in Nat
      OBVIOUS
    <3> QED BY <3>1, PlaceOfByte, Zenon
  <2>2. x \in 1..(4 * w)
    OBVIOUS
  <2> HIDE DEF x
  <2>3. AllBytes(a)[x] = Value(Shr(a[j], 8 * r) \cap 0..7)
    BY <1>2, <2>1, <2>2, Zenon
  <2>4. Shr(a[j], 8 * r) \cap 0..7 \in SUBSET (0..7)
    BY Zenon
  <2>5. Bits(AllBytes(a)[x]) = Shr(a[j], 8 * r) \cap 0..7
    BY <2>3, <2>4, BitsMakeByte, Zenon
  <2> QED BY <2>5, Zenon DEF x
<1> QED BY <1>4, <1>5, Zenon

\* The portal makes the same words of the bytes.
LEMMA WordsAreRead ==
    ASSUME Builds, NEW w \in Nat, NEW a \in Of32(w)
    PROVE  Words32(AllBytes(a)) = a
<1> DEFINE code == AllBytes(a)
           word(j) == {i \in Low32 : i % 8 \in Bits(code[(4 * j) + 1 + (i \div 8)])}
<1>1. /\ Len(code) = 4 * w
      /\ \A j \in 0..(w - 1) : \A r \in 0..3 :
             Bits(code[4 * j + 1 + r]) = Shr(a[j], 8 * r) \cap 0..7
  BY BytesAre, Zenon
<1>2. Words32(code) = [j \in 0..((Len(code) \div 4) - 1) |-> word(j)]
  BY Zenon DEF Words32
<1>3. Len(code) \div 4 = w
  <2>1. (4 * w) \div 4 = w
    BY SMTT(60)
  <2> QED BY <1>1, <2>1
<1> HIDE DEF code
<1>4. ASSUME NEW j \in 0..(w - 1) PROVE word(j) = a[j]
  <2>1. a[j] \in SUBSET Low32
    BY DEF Of32
  <2>2. a[j] \in SUBSET Nat
    BY <2>1 DEF Low32
  <2>3. ASSUME NEW i \in Low32 PROVE i \in word(j) <=> i \in a[j]
    <3>1. i \div 8 \in 0..3 /\ i % 8 \in 0..7 /\ (i % 8) + 8 * (i \div 8) = i
      BY PlaceOfBit
    <3>2. Bits(code[(4 * j) + 1 + (i \div 8)]) = Shr(a[j], 8 * (i \div 8)) \cap 0..7
      BY <1>1, <3>1, Zenon
    <3>3. i % 8 \in Low32 /\ 8 * (i \div 8) \in Nat
      BY <3>1 DEF Low32
    <3>4. \A m \in Nat : \A x \in Low32 : x \in Shr(a[j], m) <=> x + m \in a[j]
      BY <2>2, Shifts
    <3>5. i % 8 \in Shr(a[j], 8 * (i \div 8)) <=> i \in a[j]
      BY <3>1, <3>3, <3>4, Zenon
    <3> QED BY <3>1, <3>2, <3>5, Zenon
  <2>4. word(j) \subseteq Low32
    BY Zenon
  <2> HIDE DEF word
  <2> QED BY <2>1, <2>3, <2>4
<1>5. a = [j \in 0..(w - 1) |-> a[j]]
  BY DEF Of32
<1> HIDE DEF word
<1>6. Words32(code) = [j \in 0..(w - 1) |-> word(j)]
  BY <1>2, <1>3, Zenon
<1> QED BY <1>4, <1>5, <1>6, Zenon DEF code

-----------------------------------------------------------------------------
(***************************************************************************)
(* The portal reads the text of the words.                                 *)
(***************************************************************************)

\* The bits of a byte of a word.
Part(a, r) == {m % 8 : m \in a \cap (8 * r)..(8 * r + 7)}

LEMMA PartIs ==
    ASSUME NEW a \in SUBSET Low32, NEW r \in 0..3
    PROVE  /\ Part(a, r) \in SUBSET (0..7)
           /\ \A x \in 0..7 : x \in Part(a, r) <=> 8 * r + x \in a
<1>1. a \in SUBSET Nat
  BY DEF Low32
<1>2. ASSUME NEW x \in Part(a, r) PROVE x \in 0..7
  <2>1. PICK m \in a : x = m % 8
    BY DEF Part
  <2> QED BY <1>1, <2>1
<1>3. ASSUME NEW x \in 0..7 PROVE x \in Part(a, r) <=> 8 * r + x \in a
  <2>1. (8 * r + x) % 8 = x /\ 8 * r + x \in (8 * r)..(8 * r + 7)
    BY SMTT(60)
  <2>2. ASSUME 8 * r + x \in a PROVE x \in Part(a, r)
    BY <2>1, <2>2, Zenon DEF Part
  <2>3. ASSUME x \in Part(a, r) PROVE 8 * r + x \in a
    <3>1. PICK m \in a \cap (8 * r)..(8 * r + 7) : x = m % 8
      BY <2>3, Zenon DEF Part
    <3>2. m = 8 * r + x
      BY <1>1, <3>1, SMTT(60)
    <3> QED BY <3>1, <3>2, Zenon
  <2> QED BY <2>2, <2>3
<1> QED BY <1>2, <1>3

LEMMA PartsMakeWord ==
    ASSUME NEW a \in SUBSET Low32, NEW b \in SUBSET Low32,
           \A r \in 0..3 : Part(a, r) = Part(b, r)
    PROVE  a = b
<1>1. ASSUME NEW i \in Low32 PROVE i \in a <=> i \in b
  <2>1. i \div 8 \in 0..3 /\ i % 8 \in 0..7 /\ 8 * (i \div 8) + (i % 8) = i
    <3>1. i \div 8 \in 0..3 /\ i % 8 \in 0..7 /\ (i % 8) + 8 * (i \div 8) = i
      BY PlaceOfBit
    <3> QED BY <3>1
  <2>2. /\ i % 8 \in Part(a, i \div 8) <=> i \in a
        /\ i % 8 \in Part(b, i \div 8) <=> i \in b
    BY <2>1, PartIs
  <2> QED BY <2>1, <2>2, Zenon
<1> QED BY <1>1

\* The bytes of the words before the first round are those of the text.
LEMMA PartsOfGiven ==
    ASSUME Typed, NEW j \in 0..(Length - 2), NEW r \in 0..3, 4 * j + 1 + r <= Len(str)
    PROVE  Part(Low(Given)[j], r) = Bits(str[4 * j + 1 + r])
<1>1. str \in Seq(0..255) /\ str # <<>> /\ Builds
  BY TextsAre, Zenon DEF Typed
<1>2. WordCount(str) \in Nat \ {0} /\ Length = WordCount(str) + 1 /\ Len(str) \in Nat
  BY <1>1, WordCountIs, Zenon DEF Length, Words
<1>3. j \in 0..(WordCount(str) - 1) /\ j \in 0..(Length - 1) /\ j \in Nat
  BY <1>2
<1>4. Given[j] = Packed(str)[j]
  BY <1>1, <1>3, GivenIs, Zenon DEF Given
<1>5. \A i \in Low32 : i \in Packed(str)[j] <=> BitOf(str, j, i)
  BY <1>1, <1>3, PackedIs, Zenon
<1>6. Low(Given)[j] = Given[j] \cap Low32
  <2>1. Given \in [0..(Length - 1) -> SUBSET Word]
    BY LengthIs, Zenon
  <2> QED BY <1>3, <2>1 DEF Low
<1> DEFINE x == 4 * j + 1 + r
           c == str[x]
<1>7. c \in 0..255
  <2>1. x \in 1..Len(str)
    BY <1>2, <1>3
  <2> HIDE DEF x
  <2> QED BY <1>1, <2>1, ElementOfSeq, Zenon
<1>8. Bits(c) \subseteq 0..7
  <2> HIDE DEF c
  <2> QED BY <1>7, BitsOfByte, Zenon
<1>9. ASSUME NEW y \in 0..7 PROVE y \in Part(Low(Given)[j], r) <=> y \in Bits(c)
  <2>1. /\ 8 * r + y \in Low32
        /\ (8 * r + y) \div 8 = r /\ (8 * r + y) % 8 = y
    BY SMTT(60) DEF Low32
  <2>2. y \in Part(Low(Given)[j], r) <=> 8 * r + y \in Low(Given)[j]
    <3>1. Low(Given)[j] \in SUBSET Low32
      BY <1>6, Zenon
    <3> QED BY <3>1, PartIs, Zenon
  <2>3. BitOf(str, j, 8 * r + y) <=> y \in Bits(c)
    BY <2>1, Zenon DEF BitOf
  <2> QED BY <1>4, <1>5, <1>6, <2>1, <2>2, <2>3, Zenon
<1>10. Part(Low(Given)[j], r) \in SUBSET (0..7)
  <2>1. Low(Given)[j] \in SUBSET Low32
    BY <1>6, Zenon
  <2> QED BY <2>1, PartIs, Zenon
<1> HIDE DEF c
<1>11. Part(Low(Given)[j], r) = Bits(c)
  BY <1>8, <1>9, <1>10
<1> QED BY <1>11, Zenon DEF c

\* The lengths that fit so many words.
Sizes(words, size) == {m \in (4 * (size - 1) - 3)..(4 * (size - 1)) : Bits(m) = words[size - 1]}

ReadWords(words, size) ==
    [i \in 1..(IF Sizes(words, size) = {} THEN 0 ELSE Min(Sizes(words, size))) |->
        Value(Part(words[(i - 1) \div 4], (i - 1) % 4))]

LEMMA SizesAre ==
    ASSUME NEW f \in Nat, NEW x \in (4 * f - 3)..(4 * f), NEW m \in (4 * f - 3)..(4 * f),
           Bits(x) = Bits(m)
    PROVE  x = m
<1>1. x \in Int /\ m \in Int
  OBVIOUS
<1>2. (x % 2 = 1 <=> m % 2 = 1) /\ ((x \div 2) % 2 = 1 <=> (m \div 2) % 2 = 1)
  BY <1>1, LowBits
<1> QED BY <1>1, <1>2, SMTT(60)

\* The byte i of words, and the word and place it is read from.
LEMMA PlaceOfChar ==
    ASSUME NEW i \in Nat, i >= 1
    PROVE  LET j == (i - 1) \div 4
               r == (i - 1) % 4
           IN  j \in Nat /\ r \in 0..3 /\ 4 * j + 1 + r = i
BY SMTT(60)

LEMMA GivenIsRead ==
    ASSUME Typed
    PROVE  ReadWords(Low(Given), Length) = str
<1> DEFINE len == Len(str)
           f == Length - 1
           words == Low(Given)
           sizes == Sizes(words, Length)
           byte(i) == Value(Part(words[(i - 1) \div 4], (i - 1) % 4))
<1>1. str \in Seq(0..255) /\ str # <<>> /\ Builds
  BY TextsAre, Zenon DEF Typed
<1>2. /\ Length \in Nat \ {0, 1} /\ f = WordCount(str) /\ f \in Nat \ {0}
      /\ len \in Nat /\ len <= 4 * f /\ len >= 4 * f - 3
  <2>1. /\ WordCount(str) \in Nat \ {0} /\ Length = WordCount(str) + 1 /\ Len(str) \in Nat
        /\ Len(str) <= 4 * WordCount(str) /\ Len(str) >= 4 * WordCount(str) - 3
    BY <1>1, WordCountIs, Zenon DEF Length, Words
  <2> QED BY <2>1
<1>3. words[f] = Bits(len)
  <2>1. Given[f] = Bits(len) /\ Given[f] \subseteq Low32
        /\ Given \in [0..f -> SUBSET Word]
    BY <1>1, GivenIs, Zenon DEF Given, Length
  <2>2. f \in 0..f
    BY <1>2
  <2>3. Low(Given)[f] = Given[f] \cap Low32
    BY <2>1, <2>2 DEF Low
  <2> QED BY <2>1, <2>3
<1>4. sizes = {len}
  <2>1. len \in (4 * f - 3)..(4 * f)
    BY <1>2
  <2>2. \A m \in (4 * f - 3)..(4 * f) : Bits(m) = Bits(len) => m = len
    <3> HIDE DEF f, len
    <3> QED BY <1>2, <2>1, SizesAre
  <2>3. sizes = {m \in (4 * f - 3)..(4 * f) : Bits(m) = words[f]}
    BY Zenon DEF Sizes
  <2> HIDE DEF f, len, words, sizes
  <2> QED BY <1>3, <2>1, <2>2, <2>3
<1>5. sizes # {} /\ Min(sizes) = len
  <2> HIDE DEF sizes, len
  <2>1. sizes \in SUBSET Int /\ len \in sizes /\ \A m \in sizes : len <= m
    BY <1>2, <1>4
  <2> QED BY <2>1, MinIs
<1>6. ReadWords(words, Length) = [i \in 1..len |-> byte(i)]
  <2>1. ReadWords(words, Length) =
            [i \in 1..(IF sizes = {} THEN 0 ELSE Min(sizes)) |-> byte(i)]
    BY Zenon DEF ReadWords
  <2> HIDE DEF sizes, byte, len, words
  <2> QED BY <1>5, <2>1, Zenon
<1>7. ASSUME NEW i \in 1..len PROVE byte(i) = str[i]
  <2> DEFINE j == (i - 1) \div 4
             r == (i - 1) % 4
  <2>1. i \in Nat /\ i >= 1 /\ i <= len
    BY <1>2
  <2>2. j \in Nat /\ r \in 0..3 /\ 4 * j + 1 + r = i
    BY <2>1, PlaceOfChar, Zenon
  <2> HIDE DEF j, r
  <2>3. j \in 0..(Length - 2)
    BY <1>2, <2>1, <2>2
  <2>4. Part(words[j], r) = Bits(str[i])
    <3>1. 4 * j + 1 + r <= Len(str)
      BY <2>1, <2>2
    <3>2. Part(Low(Given)[j], r) = Bits(str[4 * j + 1 + r])
      BY <2>2, <2>3, <3>1, PartsOfGiven, Zenon
    <3> QED BY <2>2, <3>2, Zenon
  <2>5. str[i] \in 0..255
    BY <1>1, ElementOfSeq, Zenon
  <2> QED BY <2>4, <2>5, ByteIsItsBits, Zenon DEF j, r
<1>8. str = [i \in 1..len |-> str[i]]
  BY <1>1
<1> HIDE DEF byte, len, words
<1>9. [i \in 1..len |-> byte(i)] = [i \in 1..len |-> str[i]]
  BY <1>7, Zenon
<1> QED BY <1>6, <1>8, <1>9, Zenon DEF words

LEMMA OthersAreNotRead ==
    ASSUME Typed, NEW words \in Of32(Length), ReadWords(words, Length) = str
    PROVE  \A j \in 0..(Length - 3) : words[j] = Low(Given)[j]
<1> DEFINE size == IF Sizes(words, Length) = {} THEN 0 ELSE Min(Sizes(words, Length))
           byte(i) == Value(Part(words[(i - 1) \div 4], (i - 1) % 4))
<1>1. str \in Seq(0..255) /\ str # <<>> /\ Builds
  BY TextsAre, Zenon DEF Typed
<1>2. /\ Length \in Nat \ {0, 1} /\ Length - 1 \in Nat \ {0}
      /\ Len(str) \in Nat /\ Len(str) >= 4 * (Length - 1) - 3
  <2>1. /\ WordCount(str) \in Nat \ {0} /\ Length = WordCount(str) + 1 /\ Len(str) \in Nat
        /\ Len(str) >= 4 * WordCount(str) - 3
    BY <1>1, WordCountIs, Zenon DEF Length, Words
  <2> QED BY <2>1
<1>3. str = [i \in 1..size |-> byte(i)]
  BY Zenon DEF ReadWords
<1>4. DOMAIN str = 1..Len(str)
  BY <1>1
<1> HIDE DEF size
<1>5. ASSUME NEW i \in 1..Len(str) PROVE str[i] = byte(i)
  <2> HIDE DEF byte
  <2>1. i \in 1..size
    BY <1>3, <1>4, Zenon
  <2> QED BY <1>3, <2>1, Zenon
<1>6. ASSUME NEW j \in 0..(Length - 3), NEW r \in 0..3
      PROVE  Part(words[j], r) = Part(Low(Given)[j], r)
  <2> DEFINE i == 4 * j + 1 + r
  <2>1. i \in Nat /\ i >= 1 /\ (i - 1) \div 4 = j /\ (i - 1) % 4 = r
    <3>1. j \in Nat
      OBVIOUS
    <3> QED BY <3>1, PlaceOfByte, Zenon
  <2>2. i \in 1..Len(str) /\ i <= Len(str) /\ j \in 0..(Length - 2) /\ j \in 0..(Length - 1)
    BY <1>2
  <2>3. Part(Low(Given)[j], r) = Bits(str[i])
    BY <2>2, PartsOfGiven, Zenon
  <2> HIDE DEF i
  <2>4. str[i] = Value(Part(words[j], r))
    BY <1>5, <2>1, <2>2, Zenon
  <2>5. Part(words[j], r) \in SUBSET (0..7)
    <3>1. words[j] \in SUBSET Low32
      BY <2>2 DEF Of32
    <3> QED BY <3>1, PartIs, Zenon
  <2>6. Bits(Value(Part(words[j], r))) = Part(words[j], r)
    BY <2>5, BitsMakeByte, Zenon
  <2> QED BY <2>3, <2>4, <2>6, Zenon
<1>7. ASSUME NEW j \in 0..(Length - 3) PROVE words[j] = Low(Given)[j]
  <2>1. j \in 0..(Length - 1)
    BY <1>2
  <2>2. words[j] \in SUBSET Low32
    BY <2>1 DEF Of32
  <2>3. Low(Given)[j] \in SUBSET Low32
    <3>1. Given \in [0..(Length - 1) -> SUBSET Word]
      BY LengthIs, Zenon
    <3> QED BY <2>1, <3>1 DEF Low
  <2>4. \A r \in 0..3 : Part(words[j], r) = Part(Low(Given)[j], r)
    BY <1>6, Zenon
  <2>5. \A a, b \in SUBSET Low32 : (\A r \in 0..3 : Part(a, r) = Part(b, r)) => a = b
    BY PartsMakeWord, SMT
  <2> DEFINE a == words[j]
             b == Low(Given)[j]
  <2>6. a \in SUBSET Low32 /\ b \in SUBSET Low32 /\ \A r \in 0..3 : Part(a, r) = Part(b, r)
    BY <2>2, <2>3, <2>4, Zenon
  <2>7. a = b
    <3> HIDE DEF a, b
    <3> QED BY <2>5, <2>6, Zenon
  <2> QED BY <2>7, Zenon
<1> QED BY <1>7

\* A sign is spread from the fourth byte of a word but the first.
LEMMA SignsCount ==
    ASSUME Typed
    PROVE  SignCounts <=> Signs # {}
<1>1. str \in Seq(0..255) /\ str # <<>> /\ Builds
  BY TextsAre, Zenon DEF Typed
<1>2. /\ WordCount(str) \in Nat \ {0} /\ Length = WordCount(str) + 1 /\ Len(str) \in Nat
      /\ Len(str) <= 4 * WordCount(str)
  BY <1>1, WordCountIs, Zenon DEF Length, Words
<1>3. ASSUME NEW j \in 0..(WordCount(str) - 1)
      PROVE  34 \in Given[j] <=> sizeBits = 64 /\ BitOf(str, j, 31)
  <2>1. Given[j] = Packed(str)[j]
    BY <1>1, GivenIs, Zenon DEF Given
  <2>2. 34 \in Packed(str)[j] <=> sizeBits = 64 /\ BitOf(str, j, 31)
    <3>1. \A i \in 0..(WordCount(str) - 1) :
              34 \in Packed(str)[i] <=> sizeBits = 64 /\ BitOf(str, i, 31)
      BY <1>1, PackedIs, SMT
    <3> QED BY <3>1
  <2> QED BY <2>1, <2>2, Zenon
<1>4. ASSUME NEW j \in Nat
      PROVE  BitOf(str, j, 31) <=> 4 * j + 4 <= Len(str) /\ str[4 * j + 4] > 127
  <2>1. 31 \div 8 = 3 /\ 31 % 8 = 7 /\ 4 * j + 1 + 3 = 4 * j + 4
    OBVIOUS
  <2>2. BitOf(str, j, 31) <=> 4 * j + 4 <= Len(str) /\ 7 \in Bits(str[4 * j + 4])
    BY <2>1 DEF BitOf
  <2> DEFINE x == 4 * j + 4
  <2>3. ASSUME x <= Len(str) PROVE 7 \in Bits(str[x]) <=> str[x] > 127
    <3>1. x \in 1..Len(str)
      BY <1>2, <2>3
    <3> HIDE DEF x
    <3>2. str[x] \in 0..255
      BY <1>1, <3>1, ElementOfSeq, Zenon
    <3>3. \A c \in 0..255 : 7 \in Bits(c) <=> c > 127
      <4> TAKE c \in 0..255
      <4>1. 7 \in Bits(c) <=> (c \div 128) % 2 = 1
        <5>1. c \in Int
          OBVIOUS
        <5> QED BY <5>1, LowBits
      <4>2. (c \div 128) % 2 = 1 <=> c > 127
        BY SMTT(60)
      <4> QED BY <4>1, <4>2, Zenon
    <3> QED BY <3>2, <3>3, Zenon
  <2> QED BY <2>2, <2>3, Zenon
<1>5. ASSUME NEW j \in Signs PROVE SignCounts
  <2>1. j \in 1..(Length - 2) /\ 34 \in Given[j]
    BY SignsAre, Zenon
  <2>2. j \in 0..(WordCount(str) - 1) /\ j \in Nat /\ 4 * j + 4 >= 8 /\ (4 * j + 4) % 4 = 0
    BY <1>2, <2>1
  <2>3. sizeBits = 64 /\ 4 * j + 4 <= Len(str) /\ str[4 * j + 4] > 127
    BY <1>3, <1>4, <2>1, <2>2, Zenon
  <2>4. 4 * j + 4 \in 8..Len(str)
    BY <1>2, <2>2, <2>3
  <2> QED BY <2>2, <2>3, <2>4, Zenon DEF SignCounts
<1>6. ASSUME SignCounts PROVE Signs # {}
  <2>1. PICK i \in 8..Len(str) : i % 4 = 0 /\ str[i] > 127
    BY <1>6, Zenon DEF SignCounts
  <2> DEFINE j == (i \div 4) - 1
  <2>2. /\ j \in 0..(WordCount(str) - 1) /\ j \in Nat /\ 4 * j + 4 = i /\ i <= Len(str)
        /\ j \in 1..(Length - 1)
    BY <1>2, <2>1, SMTT(60)
  <2> HIDE DEF j
  <2>3. 34 \in Given[j]
    BY <1>3, <1>4, <1>6, <2>1, <2>2, Zenon DEF SignCounts
  <2>4. 34 \notin Low32
    BY DEF Low32
  <2> QED BY <2>2, <2>3, <2>4, Zenon DEF Signs
<1> QED BY <1>5, <1>6, Zenon

-----------------------------------------------------------------------------
(***************************************************************************)
(* The parameter info.                                                     *)
(***************************************************************************)

\* Bytes that are no white space come back from a URL as they are.
LEMMA PrintedIsRead ==
    ASSUME NEW a \in Seq(33..126)
    PROVE  FormDecoded(UrlEncode(a)) = a
<1>1. a \in Seq(0..255)
  <2>1. \A i \in 1..Len(a) : a[i] \in 33..126
    BY ElementOfSeq
  <2>2. Len(a) \in Nat /\ a = [i \in 1..Len(a) |-> a[i]]
    OBVIOUS
  <2>3. \A i \in 1..Len(a) : a[i] \in 0..255
    BY <2>1
  <2> QED BY <2>2, <2>3
<1>2. FormDecoded(UrlEncode(a)) = Spaced(a)
  BY <1>1, EncodedIsRead, Zenon DEF IsReadAsText
<1>3. Spaced(a) = a
  <2>1. Len(a) \in Nat /\ a = [i \in 1..Len(a) |-> a[i]] /\ DOMAIN a = 1..Len(a)
    OBVIOUS
  <2>2. ASSUME NEW i \in 1..Len(a) PROVE ~isspace(a[i])
    <3>1. a[i] \in 33..126
      BY ElementOfSeq
    <3>2. \A c \in 33..126 : ~isspace(c)
      BY DEF isspace
    <3> QED BY <3>1, <3>2, Zenon
  <2>3. Spaced(a) = [i \in 1..Len(a) |-> a[i]]
    BY <2>1, <2>2, Zenon DEF Spaced
  <2> QED BY <2>1, <2>3, Zenon
<1> QED BY <1>2, <1>3, Zenon

LEMMA InfoIsRead ==
    ASSUME NEW a \in Seq(33..126)
    PROVE  LET form == FormDecoded(UrlEncode(Prefix \o a))
           IN  /\ SubSeq(form, 1, Len(Prefix)) = Prefix
               /\ SubSeq(form, Len(Prefix) + 1, Len(form)) = a
<1>1. Prefix \in Seq(33..126) /\ Len(Prefix) = 7
  BY DEF Prefix
<1> DEFINE form == Prefix \o a
<1>2. form \in Seq(33..126)
  BY <1>1
<1>3. FormDecoded(UrlEncode(form)) = form
  BY <1>2, PrintedIsRead, Zenon
<1>4. /\ Len(Prefix) \in Nat /\ Len(a) \in Nat /\ Len(form) = Len(Prefix) + Len(a)
      /\ \A i \in 1..Len(Prefix) : form[i] = Prefix[i]
      /\ \A i \in 1..Len(a) : form[Len(Prefix) + i] = a[i]
  <2>1. \A b, c \in Seq(33..126) :
            /\ Len(b) \in Nat /\ Len(c) \in Nat /\ Len(b \o c) = Len(b) + Len(c)
            /\ \A i \in 1..Len(b) : (b \o c)[i] = b[i]
            /\ \A i \in 1..Len(c) : (b \o c)[Len(b) + i] = c[i]
    OBVIOUS
  <2> QED BY <1>1, <2>1, Zenon
<1> HIDE DEF form
<1>5. SubSeq(form, 1, Len(Prefix)) = Prefix
  <2> DEFINE f == SubSeq(form, 1, Len(Prefix))
  <2>1. /\ 1 \in Int /\ Len(Prefix) \in Int
        /\ \A i \in 1..Len(Prefix) : form[i] \in 33..126
    <3>1. 1..Len(Prefix) \subseteq 1..Len(form)
      BY <1>4
    <3>2. \A i \in 1..Len(form) : form[i] \in 33..126
      BY <1>2, ElementOfSeq
    <3>3. 1 \in Int /\ Len(Prefix) \in Int
      BY <1>4
    <3> QED BY <3>1, <3>2, <3>3, Zenon
  <2>2. /\ f \in Seq(33..126) /\ Len(f) = Len(Prefix)
        /\ \A i \in 1..Len(Prefix) : f[i] = form[i]
    BY <1>4, <2>1, SubSeqProperties
  <2> HIDE DEF f
  <2>3. f = Prefix
    <3>1. \A i \in 1..Len(Prefix) : f[i] = Prefix[i]
      BY <1>4, <2>2, Zenon
    <3> QED BY <1>1, <2>2, <3>1, SeqEqual
  <2> QED BY <2>3, Zenon DEF f
<1>6. SubSeq(form, Len(Prefix) + 1, Len(form)) = a
  <2> DEFINE f == SubSeq(form, Len(Prefix) + 1, Len(form))
  <2>1. /\ Len(Prefix) + 1 \in Int /\ Len(form) \in Int
        /\ \A i \in (Len(Prefix) + 1)..Len(form) : form[i] \in 33..126
    <3>1. (Len(Prefix) + 1)..Len(form) \subseteq 1..Len(form)
      BY <1>4
    <3>2. \A i \in 1..Len(form) : form[i] \in 33..126
      BY <1>2, ElementOfSeq
    <3>3. Len(Prefix) + 1 \in Int /\ Len(form) \in Int
      BY <1>4
    <3> QED BY <3>1, <3>2, <3>3, Zenon
  <2>2. /\ f \in Seq(33..126) /\ Len(f) = Len(a)
        /\ \A i \in 1..Len(a) : f[i] = form[Len(Prefix) + i]
    BY <1>4, <2>1, SubSeqProperties
  <2> HIDE DEF f
  <2>3. f = a
    BY <1>4, <2>2, SeqEqual
  <2> QED BY <2>3, Zenon DEF f
<1> QED BY <1>3, <1>5, <1>6, Zenon DEF form

\* What the portal makes of the result.
LEMMA OpenedIs ==
    ASSUME IInv, result # <<>>
    PROVE  /\ SubSeq(FormDecoded(Info), 1, Len(Prefix)) = Prefix
           /\ Low(v) = v /\ v \in Of32(Length) /\ Steps = AllRounds * Length
           /\ Opened(Info) = ReadWords(Undone(v, AllRounds * Length), Length)
<1>1. /\ Length \in Nat \ {0, 1} /\ AllRounds \in Nat \ {0} /\ Round \in Nat
      /\ Size(v) = Length /\ Rounds(v) = AllRounds
  BY LengthIs, Zenon DEF IInv, Shape
<1>2. q = 0 /\ p = Length /\ result = l(v, FALSE) /\ Builds
  BY Zenon DEF IInv, Shape, Ended, Typed
<1>3. Round = AllRounds /\ Steps = AllRounds * Length
  <2>1. Round = AllRounds
    BY <1>1, <1>2 DEF Round
  <2>2. (AllRounds - 1) * Length + Length = AllRounds * Length
    BY <1>1, SMTT(60)
  <2> QED BY <1>2, <2>1, <2>2, Zenon DEF Steps
<1>4. AllRounds # 0 /\ AllRounds # 1
  <2>1. 52 \div Length \in Nat
    BY <1>1
  <2> QED BY <2>1 DEF AllRounds
<1>5. \A j \in 0..(Length - 1) : v[j] \subseteq Low32
  BY <1>3, <1>4, Zenon DEF IInv, Shape, Halfway, Unmixed
<1>6. v \in Of32(Length) /\ Low(v) = v
  <2>1. v \in [0..(Length - 1) -> SUBSET Word]
    BY Zenon DEF IInv, Shape, Typed
  <2>2. v \in Of32(Length)
    BY <1>5, <2>1 DEF Of32
  <2>3. \A j \in DOMAIN v : v[j] \cap Low32 = v[j]
    BY <1>5, <2>1
  <2>4. v = [j \in DOMAIN v |-> v[j]]
    BY <2>1
  <2> QED BY <2>2, <2>3, <2>4, Zenon DEF Low
<1>7. result = AllBytes(v)
  <2>1. Size(v) # 0
    BY <1>1
  <2> QED BY <1>2, <2>1, Zenon DEF l
<1>8. result \in Seq(0..255) /\ Words32(result) = v
  <2>1. Length \in Nat
    BY <1>1
  <2> QED BY <1>2, <1>6, <1>7, <2>1, BytesAre, WordsAreRead, Zenon
<1> DEFINE form == FormDecoded(Info)
           code == SubSeq(form, Len(Prefix) + 1, Len(form))
<1>9. SubSeq(form, 1, Len(Prefix)) = Prefix /\ code = get_base64_string(result)
  <2>1. get_base64_string(result) \in Seq(33..126)
    BY <1>8, CodeIsPrinted, Zenon
  <2> QED BY <2>1, InfoIsRead, Zenon DEF Info
<1>10. Base64Decoded(code) = result
  <2> HIDE DEF code
  <2> QED BY <1>8, <1>9, DecodedIs, Zenon
<1> HIDE DEF code
<1>11. Words32(Base64Decoded(code)) = v
  BY <1>8, <1>10, Zenon
<1> DEFINE Opens(mixed, rounds, size) == ReadWords(Undone(mixed, rounds * size), size)
<1>12. Opened(Info) =
           LET mixed == Words32(Base64Decoded(code))
           IN  Opens(mixed, Rounds(mixed), Size(mixed))
  BY Zenon DEF Opened, ReadWords, Sizes, Part, code
<1> HIDE DEF Opens
<1>13. Opened(Info) = Opens(v, AllRounds, Length)
  BY <1>1, <1>11, <1>12, Zenon
<1> QED BY <1>3, <1>6, <1>9, <1>13, Zenon DEF Opens

LEMMA InfoIsOpened ==
    ASSUME IInv
    PROVE  PortalOpensInfo
<1> SUFFICES ASSUME result # <<>>
             PROVE  /\ SubSeq(FormDecoded(Info), 1, Len(Prefix)) = Prefix
                    /\ (Opened(Info) = str) <=> ~SignCounts
  BY Zenon DEF PortalOpensInfo
<1>1. /\ SubSeq(FormDecoded(Info), 1, Len(Prefix)) = Prefix
      /\ Low(v) = v /\ v \in Of32(Length) /\ Steps = AllRounds * Length
      /\ Opened(Info) = ReadWords(Undone(v, AllRounds * Length), Length)
  BY OpenedIs, Zenon
<1>2. Typed /\ Undoing
  BY Zenon DEF IInv, Shape
<1>3. Length \in Nat \ {0, 1} /\ AllRounds \in Nat \ {0}
  BY <1>2, LengthIs, Zenon
<1>4. \A j \in Signs : j <= Steps /\ ~(j > Steps)
  <2>1. AllRounds * Length >= Length
    <3>1. \A a \in Nat \ {0} : \A b \in Nat : a * b >= b
      BY SMTT(60)
    <3> QED BY <1>3, <3>1
  <2>2. AllRounds * Length \in Nat
    BY <1>3
  <2>3. \A j \in Signs : j \in 1..(Length - 1)
    BY Zenon DEF Signs
  <2> QED BY <1>1, <1>3, <2>1, <2>2, <2>3
<1> DEFINE words == Undone(v, AllRounds * Length)
<1>5. words = Undone(Low(v), Steps)
  BY <1>1, Zenon
<1>6. words \in Of32(Length)
  <2>1. Length \in Nat /\ AllRounds * Length \in Nat
    BY <1>3
  <2> QED BY <1>1, <2>1, UndoneIsOf32, Zenon
<1> HIDE DEF words
<1>7. CASE Signs = {}
  <2>1. words = Low(Given)
    BY <1>2, <1>5, <1>7, Zenon DEF Undoing
  <2>2. ReadWords(words, Length) = str
    BY <1>2, <2>1, GivenIsRead, Zenon
  <2> QED BY <1>1, <1>2, <1>7, <2>2, SignsCount, Zenon DEF words
<1>8. CASE Signs # {}
  <2>1. \E i \in 0..(Length - 3) : words[i] # Low(Given)[i]
    BY <1>2, <1>4, <1>5, <1>8, Zenon DEF Undoing
  <2>2. ReadWords(words, Length) # str
    BY <1>2, <1>6, <2>1, OthersAreNotRead, Zenon
  <2> QED BY <1>1, <1>2, <1>8, <2>2, SignsCount, Zenon DEF words
<1> QED BY <1>7, <1>8

\* The portal reads the name, password and address that build_auth_info encrypts,
\* whatever they are and whatever the key; unless, on a 64-bit build, a sign was spread
\* over a word but the first, and then it never does (Authenticator.cpp:257).
THEOREM InfoAlwaysOpened == Spec => []PortalOpensInfo
BY UndoingInvariance, InfoIsOpened, PTL

=============================================================================
