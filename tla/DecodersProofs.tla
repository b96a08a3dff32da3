--------------------------- MODULE DecodersProofs ---------------------------
(***************************************************************************)
(* The encodings against their readers, for texts of bytes of any length:  *)
(* base64, and the encoding of URLs.  Facts about operators only, for the  *)
(* proofs about every specification that uses them.                        *)
(***************************************************************************)
EXTENDS Decoders, SequenceTheorems, FiniteSetTheorems, WellFoundedInduction, TLAPS

(***************************************************************************)
(* Least numbers and induction.                                            *)
(***************************************************************************)

\* The least number of a set, if there is one, is its Min.
LEMMA MinIs ==
    ASSUME NEW T \in SUBSET Int, NEW i \in T, \A j \in T : i <= j
    PROVE  Min(T) = i
<1>1. Min(T) \in T /\ \A j \in T : Min(T) <= j
  BY DEF Min
<1>2. Min(T) \in Int /\ i \in Int
  BY <1>1
<1>3. i <= Min(T) /\ Min(T) <= i
  BY <1>1
<1> QED BY <1>2, <1>3

\* A set of natural numbers that is not empty has a least one: among the
\* finite sets 1..n for its numbers n, one contains no other.
LEMMA MinExists ==
    ASSUME NEW T \in SUBSET Nat, T # {}
    PROVE  Min(T) \in T /\ \A j \in T : Min(T) <= j
<1> DEFINE U == {1..n : n \in T}
<1>1. U \subseteq FiniteSubsetsOf(Nat) /\ U # {}
  <2>1. \A n \in T : 1..n \in SUBSET Nat /\ IsFiniteSet(1..n)
    BY FS_Interval
  <2> QED BY <2>1 DEF FiniteSubsetsOf
<1>2. PICK u \in U : \A v \in U : <<v, u>> \notin StrictSubsetOrdering(Nat)
  <2> HIDE DEF U
  <2> QED BY <1>1, FS_StrictSubsetOrderingWellFounded, WFMin, Zenon
<1>3. PICK i \in T : u = 1..i
  OBVIOUS
<1>4. \A j \in T : i <= j
  <2> SUFFICES ASSUME NEW j \in T, j < i PROVE FALSE
    OBVIOUS
  <2>1. 1..j \in U /\ 1..j \in SUBSET Nat /\ 1..i \in SUBSET Nat
    OBVIOUS
  <2>2. 1..j \subseteq 1..i /\ 1..j # 1..i
    <3>1. i \in 1..i /\ i \notin 1..j
      OBVIOUS
    <3> QED BY <3>1
  <2>3. <<1..j, 1..i>> \in StrictSubsetOrdering(Nat)
    BY <2>1, <2>2 DEF StrictSubsetOrdering
  <2> QED BY <1>2, <1>3, <2>1, <2>3
<1> QED BY <1>4, MinIs

\* Induction over the numbers, for a set of numbers.
LEMMA SetInduction ==
    ASSUME NEW T \in SUBSET Nat, 0 \in T, \A n \in T : n + 1 \in T
    PROVE  T = Nat
<1> DEFINE U == Nat \ T
<1> SUFFICES ASSUME U # {} PROVE FALSE
  OBVIOUS
<1>1. Min(U) \in U /\ \A j \in U : Min(U) <= j
  <2>1. U \in SUBSET Nat
    OBVIOUS
  <2> QED BY <2>1, MinExists, Zenon
<1>2. PICK m \in U : \A j \in U : m <= j
  BY <1>1, Zenon
<1>3. m - 1 \in Nat /\ m - 1 + 1 = m
  <2>1. m \in Nat /\ m # 0
    OBVIOUS
  <2> QED BY <2>1
<1>4. m - 1 \in T
  BY <1>2, <1>3
<1> QED BY <1>3, <1>4

-----------------------------------------------------------------------------
(***************************************************************************)
(* Three bytes and four numbers below 64.                                  *)
(***************************************************************************)

LEMMA Regrouped ==
    ASSUME NEW x \in Nat, x < 16777216
    PROVE  /\ x \div 262144 \in 0..63
           /\ 262144 * ((x \div 262144) % 64) + 4096 * ((x \div 4096) % 64)
                  + 64 * ((x \div 64) % 64) + ((x \div 1) % 64) = x
BY SMTT(60)

\* A character of the alphabet is read as its place, and the padding as zero.
LEMMA CharacterIsRead ==
    /\ Index(pad_char) = 0
    /\ \A v \in 0..63 : Index(alpha[1 + v]) = v /\ alpha[1 + v] # pad_char
<1>1. ASSUME NEW v \in 0..63 PROVE Index(alpha[1 + v]) = v /\ alpha[1 + v] # pad_char
  <2>1. 1 + v \in 1..64
    OBVIOUS
  <2> DEFINE same(i) == alpha[i] = alpha[1 + v]
             chosen == CHOOSE i \in 1..64 : same(i)
  <2>2. chosen \in 1..64 /\ same(chosen)
    <3>1. \E i \in 1..64 : same(i)
      BY <2>1, Zenon
    <3> QED BY <3>1, Zenon
  <2>3. chosen = 1 + v
    BY <2>1, <2>2, AlphabetIsUnambiguous, Zenon
  <2>4. alpha[1 + v] # pad_char
    BY <2>1, AlphabetIsUnambiguous, Zenon
  <2>5. Index(alpha[1 + v]) = chosen - 1
    BY <2>4, Zenon DEF Index
  <2> HIDE DEF chosen
  <2> QED BY <2>3, <2>4, <2>5
<1>2. Index(pad_char) = 0
  BY Zenon DEF Index
<1> QED BY <1>1, <1>2

-----------------------------------------------------------------------------
(***************************************************************************)
(* The characters of an encoded text.                                      *)
(***************************************************************************)

Groups(s) == (Len(s) + 2) \div 3

\* The character at a place of a group of four.
Character(s, group, place) ==
    IF place < Sextets(Len(s) - (3 * group))
    THEN alpha[1 + (Shifted(b10(s, 3 * group + 1), place) % 64)]
    ELSE pad_char

LEMMA FunctionIsSeq ==
    ASSUME NEW n \in Nat, NEW f, f = [i \in 1..n |-> f[i]]
    PROVE  Len(f) = n
<1> DEFINE S == {f[i] : i \in 1..n}
<1>1. f \in [1..n -> S]
  BY Zenon
<1> HIDE DEF S
<1>2. f \in Seq(S)
  BY <1>1
<1>3. DOMAIN f = 1..n /\ DOMAIN f = 1..Len(f) /\ Len(f) \in Nat
  BY <1>1, <1>2
<1> QED BY <1>3

LEMMA GroupsAre ==
    ASSUME NEW s \in Seq(0..255)
    PROVE  /\ Len(s) \in Nat /\ Groups(s) \in Nat
           /\ 3 * Groups(s) >= Len(s) /\ 3 * Groups(s) <= Len(s) + 2
<1>1. Len(s) \in Nat
  OBVIOUS
<1> QED BY <1>1 DEF Groups

LEMMA CodeIs ==
    ASSUME NEW s \in Seq(0..255)
    PROVE  /\ DOMAIN get_base64_string(s) = 1..(4 * Groups(s))
           /\ Len(get_base64_string(s)) = 4 * Groups(s)
           /\ \A g \in 0..(Groups(s) - 1) : \A m \in 0..3 :
                  /\ 4 * g + (m + 1) \in 1..(4 * Groups(s))
                  /\ get_base64_string(s)[4 * g + (m + 1)] = Character(s, g, m)
<1> DEFINE code == get_base64_string(s)
           n == 4 * Groups(s)
<1>1. code = [j \in 1..n |-> Character(s, (j - 1) \div 4, (j - 1) % 4)]
  BY Zenon DEF get_base64_string, Groups, Character
<1>2. n \in Nat /\ Groups(s) \in Nat
  BY GroupsAre
<1> HIDE DEF code, n
<1>3. DOMAIN code = 1..n /\ \A j \in 1..n :
          code[j] = Character(s, (j - 1) \div 4, (j - 1) % 4)
  BY <1>1, Zenon
<1>4. code = [j \in 1..n |-> code[j]]
  BY <1>1, Zenon
<1>5. Len(code) = n
  BY <1>2, <1>4, FunctionIsSeq
<1>6. ASSUME NEW g \in 0..(Groups(s) - 1), NEW m \in 0..3
      PROVE  4 * g + (m + 1) \in 1..n /\ code[4 * g + (m + 1)] = Character(s, g, m)
  <2>1. 4 * g + (m + 1) \in 1..n
    BY <1>2 DEF n
  <2>2. (4 * g + (m + 1) - 1) \div 4 = g /\ (4 * g + (m + 1) - 1) % 4 = m
    BY <1>2
  <2> DEFINE j == 4 * g + (m + 1)
  <2>3. code[j] = Character(s, (j - 1) \div 4, (j - 1) % 4)
    BY <1>3, <2>1, Zenon
  <2> QED BY <2>1, <2>2, <2>3
<1> QED BY <1>3, <1>5, <1>6 DEF code, n

LEMMA ByteIs ==
    ASSUME NEW s \in Seq(0..255), NEW i \in Nat \ {0}
    PROVE  Byte(s, i) \in 0..255 /\ (i > Len(s) => Byte(s, i) = 0)
<1>1. Len(s) \in Nat
  OBVIOUS
<1>2. CASE i <= Len(s)
  <2>1. i \in 1..Len(s)
    BY <1>1, <1>2
  <2>2. s[i] \in 0..255
    BY <2>1, ElementOfSeq, Zenon
  <2> QED BY <1>1, <1>2, <2>2 DEF Byte
<1>3. CASE i > Len(s)
  BY <1>1, <1>3 DEF Byte
<1> QED BY <1>1, <1>2, <1>3

\* What is known of the number x that is made of the bytes from i on.
IsNumber(x, s, i) ==
    /\ x \in Nat /\ x < 16777216
    /\ (x \div 65536) % 256 = Byte(s, i)
    /\ (x \div 256) % 256 = Byte(s, i + 1)
    /\ (x \div 1) % 256 = Byte(s, i + 2)
    /\ i + 1 > Len(s) => (x \div 64) % 64 = 0
    /\ i + 2 > Len(s) => (x \div 1) % 64 = 0

LEMMA NumberIs ==
    ASSUME NEW s \in Seq(0..255), NEW i \in Nat \ {0}
    PROVE  IsNumber(b10(s, i), s, i)
<1>1. Len(s) \in Nat
  OBVIOUS
<1>2. /\ Byte(s, i) \in 0..255 /\ Byte(s, i + 1) \in 0..255 /\ Byte(s, i + 2) \in 0..255
      /\ (i + 1 > Len(s) => Byte(s, i + 1) = 0) /\ (i + 2 > Len(s) => Byte(s, i + 2) = 0)
  <2>1. i + 1 \in Nat \ {0} /\ i + 2 \in Nat \ {0}
    OBVIOUS
  <2> QED BY <2>1, ByteIs
<1>3. i + 1 > Len(s) => i + 2 > Len(s)
  BY <1>1
<1> DEFINE a == Byte(s, i)
           b == Byte(s, i + 1)
           c == Byte(s, i + 2)
           x == 65536 * a + 256 * b + c
<1>4. b10(s, i) = x
  BY SMT DEF b10
<1> HIDE DEF a, b, c
<1>5. /\ x \in Nat /\ x < 16777216
      /\ (x \div 65536) % 256 = a /\ (x \div 256) % 256 = b /\ (x \div 1) % 256 = c
      /\ b = 0 /\ c = 0 => (x \div 64) % 64 = 0 /\ (x \div 1) % 64 = 0
      /\ c = 0 => (x \div 1) % 64 = 0
  <2>1. a \in 0..255 /\ b \in 0..255 /\ c \in 0..255
    BY <1>2 DEF a, b, c
  <2> QED BY <2>1, SMTT(60)
<1> HIDE DEF x
<1>6. IsNumber(x, s, i)
  BY <1>2, <1>3, <1>5, SMT DEF IsNumber, a, b, c
<1> QED BY <1>4, <1>6, Zenon

\* The padding starts where no byte is left.
LEMMA CharacterStands ==
    ASSUME NEW s \in Seq(0..255), NEW g \in 0..(Groups(s) - 1), NEW m \in 0..3
    PROVE  /\ Character(s, g, m) = pad_char <=> 4 * g + (m + 1) > Groups(s) + Len(s)
           /\ Index(Character(s, g, m)) = Shifted(b10(s, 3 * g + 1), m) % 64
           /\ Character(s, g, m) \in {alpha[i] : i \in 1..64} \cup {pad_char}
<1> DEFINE x == b10(s, 3 * g + 1)
           n == Len(s)
           v == Shifted(x, m) % 64
<1>1. /\ n \in Nat /\ Groups(s) \in Nat
      /\ 3 * Groups(s) >= n /\ 3 * Groups(s) <= n + 2
  BY GroupsAre
<1>2. /\ x \in Nat /\ x < 16777216
      /\ 3 * g + 2 > n => (x \div 64) % 64 = 0
      /\ 3 * g + 3 > n => (x \div 1) % 64 = 0
  <2>1. 3 * g + 1 \in Nat \ {0} /\ 3 * g + 1 + 1 = 3 * g + 2 /\ 3 * g + 1 + 2 = 3 * g + 3
    BY <1>1
  <2>2. IsNumber(x, s, 3 * g + 1)
    BY <2>1, NumberIs, Zenon
  <2> HIDE DEF x
  <2> QED BY <2>1, <2>2, SMT DEF IsNumber
<1> HIDE DEF x, n
<1>3. /\ Shifted(x, 0) = x \div 262144 /\ Shifted(x, 1) = x \div 4096
      /\ Shifted(x, 2) = x \div 64 /\ Shifted(x, 3) = x \div 1
  BY SMT DEF Shifted
<1>4. /\ v \in 0..63
      /\ m = 2 => v = (x \div 64) % 64
      /\ m = 3 => v = (x \div 1) % 64
  <2>1. /\ (x \div 262144) % 64 \in 0..63 /\ (x \div 4096) % 64 \in 0..63
        /\ (x \div 64) % 64 \in 0..63 /\ (x \div 1) % 64 \in 0..63
    BY <1>2, SMT
  <2>2. CASE m = 0
    BY <1>3, <2>1, <2>2, SMT
  <2>3. CASE m = 1
    BY <1>3, <2>1, <2>3, SMT
  <2>4. CASE m = 2
    BY <1>3, <2>1, <2>4, SMT
  <2>5. CASE m = 3
    BY <1>3, <2>1, <2>5, SMT
  <2> QED BY <2>2, <2>3, <2>4, <2>5, SMT
<1>5. m < Sextets(n - 3 * g) <=> 4 * g + (m + 1) <= Groups(s) + n
  BY <1>1, SMT DEF Sextets
<1>6. ~(m < Sextets(n - 3 * g)) => v = 0
  <2>1. n - 3 * g >= 1
    BY <1>1, SMT
  <2>2. CASE m = 3
    <3>1. m < Sextets(n - 3 * g) \/ 3 * g + 3 > n
      BY <1>1, <2>1, <2>2, SMT DEF Sextets
    <3> HIDE DEF v
    <3> QED BY <1>2, <1>4, <2>2, <3>1, SMT
  <2>3. CASE m = 2
    <3>1. m < Sextets(n - 3 * g) \/ 3 * g + 2 > n
      BY <1>1, <2>1, <2>3, SMT DEF Sextets
    <3> HIDE DEF v
    <3> QED BY <1>2, <1>4, <2>3, <3>1, SMT
  <2>4. m = 0 \/ m = 1 => m < Sextets(n - 3 * g)
    BY <1>1, <2>1, SMT DEF Sextets
  <2> QED BY <2>2, <2>3, <2>4, SMT
<1> HIDE DEF v
<1>7. Index(alpha[1 + v]) = v /\ alpha[1 + v] # pad_char /\ Index(pad_char) = 0
  BY <1>4, CharacterIsRead, Zenon
<1>8. Character(s, g, m) = IF m < Sextets(n - 3 * g) THEN alpha[1 + v] ELSE pad_char
  BY Zenon DEF Character, n, x, v
<1>9. Index(Character(s, g, m)) = v
  BY <1>6, <1>7, <1>8, Zenon
<1>10. Character(s, g, m) = pad_char <=> 4 * g + (m + 1) > Groups(s) + n
  <2>1. ~(4 * g + (m + 1) <= Groups(s) + n) <=> 4 * g + (m + 1) > Groups(s) + n
    BY <1>1, SMT
  <2> QED BY <1>5, <1>7, <1>8, <2>1, Zenon
<1>11. Character(s, g, m) \in {alpha[i] : i \in 1..64} \cup {pad_char}
  <2>1. 1 + v \in 1..64
    BY <1>4
  <2> QED BY <1>8, <2>1, Zenon
<1> QED BY <1>9, <1>10, <1>11, Zenon DEF x, n, v

LEMMA GroupIs ==
    ASSUME NEW s \in Seq(0..255), NEW g \in 0..(Groups(s) - 1)
    PROVE  Group(get_base64_string(s), 4 * g) = b10(s, 3 * g + 1)
<1> DEFINE x == b10(s, 3 * g + 1)
           code == get_base64_string(s)
           h == 4 * g
<1>1. ASSUME NEW m \in 0..3 PROVE Index(code[h + (m + 1)]) = Shifted(x, m) % 64
  <2>1. code[h + (m + 1)] = Character(s, g, m)
    BY CodeIs, Zenon
  <2>2. Index(Character(s, g, m)) = Shifted(x, m) % 64
    BY CharacterStands, Zenon
  <2> QED BY <2>1, <2>2, Zenon
<1>2. x \in Nat /\ x < 16777216
  <2>1. 3 * g + 1 \in Nat \ {0}
    BY GroupsAre
  <2>2. IsNumber(x, s, 3 * g + 1)
    BY <2>1, NumberIs, Zenon
  <2> HIDE DEF x
  <2> QED BY <2>2, SMT DEF IsNumber
<1> HIDE DEF x, code, h
<1>3. /\ Index(code[h + 1]) = (x \div 262144) % 64
      /\ Index(code[h + 2]) = (x \div 4096) % 64
      /\ Index(code[h + 3]) = (x \div 64) % 64
      /\ Index(code[h + 4]) = (x \div 1) % 64
  <2>1. /\ Index(code[h + (0 + 1)]) = Shifted(x, 0) % 64
        /\ Index(code[h + (1 + 1)]) = Shifted(x, 1) % 64
        /\ Index(code[h + (2 + 1)]) = Shifted(x, 2) % 64
        /\ Index(code[h + (3 + 1)]) = Shifted(x, 3) % 64
    BY <1>1, SMT
  <2> QED BY <2>1, SMT DEF Shifted
<1>4. Group(code, h) = x
  BY <1>2, <1>3, Regrouped, SMT DEF Group
<1> QED BY <1>4 DEF x, code, h

LEMMA InFours ==
    ASSUME NEW n \in Nat, NEW i \in 1..(4 * n)
    PROVE  /\ (i - 1) \div 4 \in 0..(n - 1) /\ (i - 1) % 4 \in 0..3
           /\ 4 * ((i - 1) \div 4) + (((i - 1) % 4) + 1) = i
BY SMT

LEMMA InThrees ==
    ASSUME NEW n \in Nat, NEW len \in Nat, len <= 3 * n, NEW i \in 1..len
    PROVE  /\ (i - 1) \div 3 \in 0..(n - 1) /\ (i - 1) % 3 \in 0..2
           /\ 3 * ((i - 1) \div 3) + 1 \in Nat \ {0}
           /\ i = 3 * ((i - 1) \div 3) + 1 + ((i - 1) % 3)
BY SMT

\* What is written is printable, and no space.
LEMMA CodeIsPrinted ==
    ASSUME NEW s \in Seq(0..255)
    PROVE  get_base64_string(s) \in Seq(33..126)
<1> DEFINE code == get_base64_string(s)
<1>1. Groups(s) \in Nat
  BY GroupsAre
<1>2. DOMAIN code = 1..(4 * Groups(s)) /\ code = [i \in 1..(4 * Groups(s)) |-> code[i]]
  BY CodeIs, Zenon DEF get_base64_string, Groups
<1>3. ASSUME NEW i \in 1..(4 * Groups(s)) PROVE code[i] \in 33..126
  <2>1. /\ (i - 1) \div 4 \in 0..(Groups(s) - 1) /\ (i - 1) % 4 \in 0..3
        /\ 4 * ((i - 1) \div 4) + (((i - 1) % 4) + 1) = i
    BY <1>1, InFours
  <2>2. code[i] = Character(s, (i - 1) \div 4, (i - 1) % 4)
    BY <2>1, CodeIs
  <2>3. code[i] \in {alpha[j] : j \in 1..64} \cup {pad_char}
    <3>1. Character(s, (i - 1) \div 4, (i - 1) % 4) \in {alpha[j] : j \in 1..64} \cup {pad_char}
      <4>1. \A g \in 0..(Groups(s) - 1) : \A m \in 0..3 :
                Character(s, g, m) \in {alpha[j] : j \in 1..64} \cup {pad_char}
        BY CharacterStands, Zenon
      <4> QED BY <2>1, <4>1, Zenon
    <3> HIDE DEF code
    <3> QED BY <2>2, <3>1, Zenon
  <2>4. pad_char \in 33..126
    BY DEF pad_char
  <2>5. \A j \in 1..64 : alpha[j] \in 33..126
    BY AlphabetIsUnambiguous, Zenon
  <2> HIDE DEF code
  <2> QED BY <2>3, <2>4, <2>5, Zenon
<1> HIDE DEF code
<1>4. code \in Seq(33..126)
  <2>1. code \in [1..(4 * Groups(s)) -> 33..126]
    BY <1>2, <1>3, Zenon
  <2> DEFINE m == 4 * Groups(s)
  <2>2. m \in Nat
    BY <1>1
  <2> HIDE DEF m
  <2>3. code \in [1..m -> 33..126]
    BY <2>1, Zenon DEF m
  <2> QED BY <2>2, <2>3
<1> QED BY <1>4, Zenon DEF code

LEMMA PaddingIs ==
    ASSUME NEW s \in Seq(0..255)
    PROVE  Padding(get_base64_string(s)) = 3 * Groups(s) - Len(s)
<1> DEFINE code == get_base64_string(s)
           n == Groups(s) + Len(s)
           pads == {i \in DOMAIN code : code[i] = pad_char}
<1>1. /\ Len(s) \in Nat /\ Groups(s) \in Nat
      /\ 3 * Groups(s) >= Len(s) /\ 3 * Groups(s) <= Len(s) + 2
  BY GroupsAre
<1>2. ASSUME NEW i \in 1..(4 * Groups(s)) PROVE code[i] = pad_char <=> i > n
  <2> DEFINE g == (i - 1) \div 4
             m == (i - 1) % 4
  <2>1. g \in 0..(Groups(s) - 1) /\ m \in 0..3 /\ 4 * g + (m + 1) = i
    BY <1>1, InFours
  <2> HIDE DEF g, m, n
  <2>2. code[4 * g + (m + 1)] = Character(s, g, m)
    BY <2>1, CodeIs, Zenon
  <2>3. Character(s, g, m) = pad_char <=> 4 * g + (m + 1) > n
    BY <2>1, CharacterStands, Zenon DEF n
  <2> QED BY <2>1, <2>2, <2>3
<1>3. DOMAIN code = 1..(4 * Groups(s))
  BY CodeIs, Zenon
<1> HIDE DEF code
<1>4. pads = (n + 1)..(4 * Groups(s))
  BY <1>1, <1>2, <1>3
<1>5. Cardinality((n + 1)..(4 * Groups(s))) = 3 * Groups(s) - Len(s)
  <2> DEFINE a == n + 1
             b == 4 * Groups(s)
  <2>1. a \in Int /\ b \in Int
    BY <1>1
  <2>2. (IF a > b THEN 0 ELSE b - a + 1) = 3 * Groups(s) - Len(s)
    BY <1>1
  <2> HIDE DEF a, b, n
  <2>3. Cardinality(a..b) = IF a > b THEN 0 ELSE b - a + 1
    BY <2>1, FS_Interval
  <2>4. Cardinality(a..b) = 3 * Groups(s) - Len(s)
    BY <2>2, <2>3
  <2> QED BY <2>4 DEF a, b
<1> QED BY <1>4, <1>5, Zenon DEF Padding, pads, code

\* The decoder gives back the text that was encoded.
LEMMA DecodedIs ==
    ASSUME NEW s \in Seq(0..255)
    PROVE  Base64Decoded(get_base64_string(s)) = s
<1> DEFINE code == get_base64_string(s)
           decoded == Base64Decoded(code)
           Nth(i) == (Group(code, 4 * ((i - 1) \div 3))
                          \div <<65536, 256, 1>>[1 + ((i - 1) % 3)]) % 256
<1>1. /\ Len(s) \in Nat /\ Groups(s) \in Nat
      /\ 3 * Groups(s) >= Len(s) /\ 3 * Groups(s) <= Len(s) + 2
  BY GroupsAre
<1>2. 3 * (Len(code) \div 4) - Padding(code) = Len(s)
  <2>1. Len(code) = 4 * Groups(s) /\ Padding(code) = 3 * Groups(s) - Len(s)
    BY CodeIs, PaddingIs, Zenon
  <2> HIDE DEF code
  <2> QED BY <1>1, <2>1
<1>3. decoded = [i \in 1..Len(s) |-> Nth(i)]
  BY <1>2, SMT DEF Base64Decoded
<1>4. ASSUME NEW i \in 1..Len(s) PROVE Nth(i) = s[i]
  <2> DEFINE g == (i - 1) \div 3
             m == (i - 1) % 3
             x == b10(s, 3 * g + 1)
  <2>1. /\ g \in 0..(Groups(s) - 1) /\ m \in 0..2 /\ 3 * g + 1 \in Nat \ {0}
        /\ i = 3 * g + 1 + m
    BY <1>1, InThrees
  <2> HIDE DEF g
  <2>2. Group(code, 4 * g) = x
    BY <2>1, GroupIs, Zenon
  <2>3. IsNumber(x, s, 3 * g + 1)
    BY <2>1, NumberIs, Zenon
  <2>4. Byte(s, i) = s[i]
    BY SMT DEF Byte
  <2> HIDE DEF m, x, code
  <2>5. (x \div <<65536, 256, 1>>[1 + m]) % 256 = Byte(s, i)
    <3>1. CASE m = 0
      BY <2>1, <2>3, <3>1, SMT DEF IsNumber
    <3>2. CASE m = 1
      BY <2>1, <2>3, <3>2, SMT DEF IsNumber
    <3>3. CASE m = 2
      BY <2>1, <2>3, <3>3, SMT DEF IsNumber
    <3> QED BY <2>1, <3>1, <3>2, <3>3, SMT
  <2> QED BY <2>2, <2>4, <2>5, SMT DEF g, m
<1>5. s = [i \in 1..Len(s) |-> s[i]]
  BY LenProperties, SMT
<1> HIDE DEF Nth, decoded
<1>6. decoded = s
  BY <1>3, <1>4, <1>5, SMT
<1> QED BY <1>6, Zenon DEF decoded, code

-----------------------------------------------------------------------------
(***************************************************************************)
(* Recursion over the suffixes of a text.                                  *)
(***************************************************************************)

\* f says of every suffix of a text of m characters what is made of it: what
\* is added for the character it begins with, before what is made of the
\* suffix at which the reader goes on.
Suffixes(f, m, add, next) ==
    f = [i \in 1..(m + 1) |-> IF i > m THEN <<>> ELSE add[i] \o f[next[i]]]

GoesOn(m, next) == \A i \in 1..m : next[i] \in (i + 1)..(m + 1)

LEMMA SuffixesAreUnique ==
    ASSUME NEW m \in Nat, NEW add, NEW next, GoesOn(m, next),
           NEW f, NEW g, Suffixes(f, m, add, next), Suffixes(g, m, add, next)
    PROVE  f = g
<1> DEFINE T == {k \in Nat : \A i \in 1..(m + 1) : i >= m + 1 - k => f[i] = g[i]}
<1>1. \A i \in 1..(m + 1) : /\ f[i] = IF i > m THEN <<>> ELSE add[i] \o f[next[i]]
                            /\ g[i] = IF i > m THEN <<>> ELSE add[i] \o g[next[i]]
  BY Zenon DEF Suffixes
<1>2. 0 \in T
  BY <1>1
<1>3. ASSUME NEW k \in T PROVE k + 1 \in T
  <2> SUFFICES ASSUME NEW i \in 1..(m + 1), i >= m + 1 - (k + 1) PROVE f[i] = g[i]
    OBVIOUS
  <2>1. CASE i > m
    BY <1>1, <2>1
  <2>2. CASE i <= m
    <3>1. i \in 1..m
      BY <2>2
    <3>2. next[i] \in (i + 1)..(m + 1)
      BY <3>1 DEF GoesOn
    <3>3. next[i] \in 1..(m + 1) /\ next[i] >= m + 1 - k
      BY <3>2
    <3>4. f[next[i]] = g[next[i]]
      BY <3>3
    <3>5. ~(i > m)
      BY <2>2
    <3> QED BY <1>1, <3>4, <3>5, Zenon
  <2> QED BY <2>1, <2>2
<1>4. T = Nat
  <2>1. T \in SUBSET Nat
    OBVIOUS
  <2> HIDE DEF T
  <2> QED BY <1>2, <1>3, <2>1, SetInduction
<1>5. ASSUME NEW i \in 1..(m + 1) PROVE f[i] = g[i]
  <2>1. m \in T
    BY <1>4
  <2> QED BY <2>1
<1>6. f = [i \in 1..(m + 1) |-> f[i]] /\ g = [i \in 1..(m + 1) |-> g[i]]
  BY Zenon DEF Suffixes
<1> QED BY <1>5, <1>6, Zenon

LEMMA SuffixesExist ==
    ASSUME NEW m \in Nat, NEW add, NEW next, GoesOn(m, next)
    PROVE  \E f : Suffixes(f, m, add, next)
<1> DEFINE Part(f, k) ==
               f = [i \in (m + 1 - k)..(m + 1) |->
                       IF i > m THEN <<>> ELSE add[i] \o f[next[i]]]
           T == {k \in Nat : k <= m => \E f : Part(f, k)}
<1>1. 0 \in T
  <2> DEFINE f == [i \in (m + 1 - 0)..(m + 1) |-> <<>>]
  <2>1. \A i \in (m + 1 - 0)..(m + 1) : i > m
    OBVIOUS
  <2>2. Part(f, 0)
    BY <2>1, Zenon
  <2>3. \E h : Part(h, 0)
    BY <2>2, Zenon
  <2> QED BY <2>3
<1>2. ASSUME NEW k \in T PROVE k + 1 \in T
  <2> SUFFICES ASSUME k + 1 <= m PROVE \E f : Part(f, k + 1)
    <3> HIDE DEF Part
    <3> QED OBVIOUS
  <2>1. k \in Nat /\ k <= m
    OBVIOUS
  <2>2. PICK f : Part(f, k)
    <3> HIDE DEF Part
    <3> QED BY <2>1
  <2> DEFINE j == m - k
             g == [i \in (m + 1 - (k + 1))..(m + 1) |->
                      IF i = j THEN add[j] \o f[next[j]] ELSE f[i]]
  <2>3. /\ j \in 1..m /\ ~(j > m) /\ j \in (m + 1 - (k + 1))..(m + 1)
        /\ \A i \in (m + 1 - (k + 1))..(m + 1) : i # j => i \in (m + 1 - k)..(m + 1)
        /\ \A i \in (m + 1 - k)..(m + 1) : i # j /\ i \in (m + 1 - (k + 1))..(m + 1)
    BY <2>1
  <2>4. \A i \in (m + 1 - k)..(m + 1) :
            f[i] = IF i > m THEN <<>> ELSE add[i] \o f[next[i]]
    BY <2>2, Zenon
  <2>5. \A i \in (m + 1 - (k + 1))..(m + 1) :
            ~(i > m) => next[i] \in (m + 1 - k)..(m + 1)
    <3> SUFFICES ASSUME NEW i \in (m + 1 - (k + 1))..(m + 1), ~(i > m)
                 PROVE  next[i] \in (m + 1 - k)..(m + 1)
      OBVIOUS
    <3>1. i \in 1..m
      BY <2>1
    <3>2. next[i] \in (i + 1)..(m + 1)
      BY <3>1 DEF GoesOn
    <3> QED BY <2>1, <3>2
  <2> HIDE DEF j
  <2>6. \A i \in (m + 1 - k)..(m + 1) : g[i] = f[i]
    BY <2>3, Zenon
  <2>7. g[j] = add[j] \o f[next[j]]
    BY <2>3, Zenon
  <2>8. ASSUME NEW i \in (m + 1 - (k + 1))..(m + 1)
        PROVE  g[i] = IF i > m THEN <<>> ELSE add[i] \o g[next[i]]
    <3> HIDE DEF g
    <3>1. ~(i > m) => f[next[i]] = g[next[i]]
      BY <2>5, <2>6, Zenon
    <3>2. CASE i = j
      BY <2>3, <2>7, <3>1, <3>2, Zenon
    <3>3. CASE i # j
      BY <2>3, <2>4, <2>6, <3>1, <3>3, Zenon
    <3> QED BY <3>2, <3>3
  <2>9. g = [i \in (m + 1 - (k + 1))..(m + 1) |-> g[i]]
    BY Zenon
  <2> HIDE DEF g
  <2>10. Part(g, k + 1)
    BY <2>8, <2>9, Zenon
  <2> QED BY <2>10, Zenon
<1>3. T = Nat
  <2>1. T \in SUBSET Nat
    OBVIOUS
  <2> HIDE DEF T
  <2> QED BY <1>1, <1>2, <2>1, SetInduction
<1>4. \E f : Part(f, m)
  <2> HIDE DEF Part
  <2>1. m \in T
    BY <1>3
  <2> QED BY <2>1
<1>5. PICK f : Part(f, m)
  BY <1>4
<1>6. m + 1 - m = 1
  OBVIOUS
<1>7. Suffixes(f, m, add, next)
  BY <1>5, <1>6, Zenon DEF Suffixes
<1> QED BY <1>7, Zenon

\* What is known of the characters after the first n is known of a text that
\* they make.
SameRest(n, m, add, next, addRest, nextRest) ==
    \A i \in 1..m : add[n + i] = addRest[i] /\ next[n + i] = n + nextRest[i]

\* What follows the first n characters is read as if it were the whole text.
LEMMA SuffixesOfRest ==
    ASSUME NEW n \in Nat, NEW m \in Nat, NEW add, NEW next, NEW addRest, NEW nextRest,
           NEW f, Suffixes(f, n + m, add, next), GoesOn(m, nextRest),
           SameRest(n, m, add, next, addRest, nextRest)
    PROVE  \E g : Suffixes(g, m, addRest, nextRest) /\ g[1] = f[n + 1]
<1> DEFINE g == [i \in 1..(m + 1) |-> f[n + i]]
<1>1. ASSUME NEW i \in 1..(m + 1)
      PROVE  g[i] = IF i > m THEN <<>> ELSE addRest[i] \o g[nextRest[i]]
  <2>1. n + i \in 1..(n + m + 1) /\ (n + i > n + m <=> i > m)
    OBVIOUS
  <2>2. f[n + i] = IF n + i > n + m THEN <<>> ELSE add[n + i] \o f[next[n + i]]
    BY <2>1, Zenon DEF Suffixes
  <2>3. g[i] = f[n + i]
    BY Zenon
  <2>4. CASE i > m
    BY <2>1, <2>2, <2>3, <2>4, Zenon
  <2>5. CASE ~(i > m)
    <3>1. i \in 1..m
      BY <2>5
    <3>2. nextRest[i] \in 1..(m + 1)
      <4>1. nextRest[i] \in (i + 1)..(m + 1)
        BY <3>1 DEF GoesOn
      <4> QED BY <3>1, <4>1
    <3>3. g[nextRest[i]] = f[n + nextRest[i]]
      BY <3>2, Zenon
    <3>4. add[n + i] = addRest[i] /\ next[n + i] = n + nextRest[i]
      BY <3>1, Zenon DEF SameRest
    <3> HIDE DEF g
    <3> QED BY <2>1, <2>2, <2>3, <2>5, <3>3, <3>4, Zenon
  <2> QED BY <2>4, <2>5
<1>2. g = [i \in 1..(m + 1) |-> g[i]]
  BY Zenon
<1>3. g[1] = f[n + 1]
  <2>1. 1 \in 1..(m + 1)
    OBVIOUS
  <2> QED BY <2>1, Zenon
<1> HIDE DEF g
<1>4. Suffixes(g, m, addRest, nextRest)
  BY <1>1, <1>2, Zenon DEF Suffixes
<1> QED BY <1>3, <1>4, Zenon

-----------------------------------------------------------------------------
(***************************************************************************)
(* The encoding of URLs.                                                   *)
(***************************************************************************)

\* A digit has one value.
LEMMA HexitHasValue ==
    ASSUME NEW v \in 0..15
    PROVE  HexValue(Hexit(v)) = {v} /\ Hexit(v) \in 48..57 \cup 65..70
<1>1. \A i \in 0..15 : Hexit(v) = Hexit(i) \/ (i > 9 /\ Hexit(v) = 87 + i) <=> i = v
  BY DEF Hexit
<1>2. HexValue(Hexit(v)) = {v}
  BY <1>1, Zenon DEF HexValue
<1> QED BY <1>2 DEF Hexit

LEMMA ValueOfDigit ==
    ASSUME NEW c, HexValue(c) # {}
    PROVE  Min(HexValue(c)) \in HexValue(c)
<1>1. HexValue(c) \in SUBSET Nat
  BY DEF HexValue
<1> QED BY <1>1, MinExists, Zenon

\* The byte that two digits stand for.
Pair(high, low) == 16 * Min(HexValue(high)) + Min(HexValue(low))

FormAdd(code) ==
    [i \in 1..Len(code) |-> IF code[i] = Percent THEN <<Pair(code[i + 1], code[i + 2])>>
                                                 ELSE <<Plain(code[i])>>]
FormNext(code) ==
    [i \in 1..Len(code) |-> IF code[i] = Percent THEN i + 3 ELSE i + 1]

LEMMA FormGoesOn ==
    ASSUME NEW code \in Seq(Int), WellFormed(code)
    PROVE  GoesOn(Len(code), FormNext(code))
<1>1. Len(code) \in Nat /\ DOMAIN code = 1..Len(code)
  OBVIOUS
<1>2. \A i \in 1..Len(code) : code[i] = Percent => i + 2 <= Len(code)
  BY <1>1, Zenon DEF WellFormed
<1> QED BY <1>1, <1>2 DEF GoesOn, FormNext

IsForm(f, code) ==
    f = [i \in 1..(Len(code) + 1) |->
            IF i > Len(code) THEN <<>>
            ELSE IF code[i] = Percent
                 THEN <<16 * Min(HexValue(code[i + 1])) + Min(HexValue(code[i + 2]))>>
                          \o f[i + 3]
            ELSE <<Plain(code[i])>> \o f[i + 1]]

LEMMA FormIs ==
    ASSUME NEW code \in Seq(Int), NEW f
    PROVE  IsForm(f, code) <=> Suffixes(f, Len(code), FormAdd(code), FormNext(code))
<1> DEFINE m == Len(code)
           form(i) == IF i > m THEN <<>>
                      ELSE IF code[i] = Percent
                           THEN <<16 * Min(HexValue(code[i + 1])) + Min(HexValue(code[i + 2]))>>
                                    \o f[i + 3]
                      ELSE <<Plain(code[i])>> \o f[i + 1]
           suffix(i) == IF i > m THEN <<>> ELSE FormAdd(code)[i] \o f[FormNext(code)[i]]
<1>1. m \in Nat
  OBVIOUS
<1>2. ASSUME NEW i \in 1..(m + 1) PROVE form(i) = suffix(i)
  <2>1. CASE i > m
    BY <2>1, Zenon
  <2>2. CASE ~(i > m)
    <3>1. i \in 1..m
      BY <1>1, <2>2
    <3>2. CASE code[i] = Percent
      <4>1. /\ FormAdd(code)[i] = <<Pair(code[i + 1], code[i + 2])>>
            /\ FormNext(code)[i] = i + 3
        BY <3>1, <3>2, Zenon DEF FormAdd, FormNext
      <4> QED BY <2>2, <3>2, <4>1, Zenon DEF Pair
    <3>3. CASE code[i] # Percent
      <4>1. FormAdd(code)[i] = <<Plain(code[i])>> /\ FormNext(code)[i] = i + 1
        BY <3>1, <3>3, Zenon DEF FormAdd, FormNext
      <4> QED BY <2>2, <3>3, <4>1, Zenon
    <3> QED BY <3>2, <3>3
  <2> QED BY <2>1, <2>2
<1>3. IsForm(f, code) <=> f = [i \in 1..(m + 1) |-> form(i)]
  BY Zenon DEF IsForm
<1>4. Suffixes(f, m, FormAdd(code), FormNext(code)) <=> f = [i \in 1..(m + 1) |-> suffix(i)]
  BY Zenon DEF Suffixes
<1> HIDE DEF form, suffix
<1>5. [i \in 1..(m + 1) |-> form(i)] = [i \in 1..(m + 1) |-> suffix(i)]
  BY <1>2, Zenon
<1> QED BY <1>3, <1>4, <1>5, Zenon

\* FormDecoded is what the function that reads every suffix says of the first.
LEMMA FormDecodedIs ==
    ASSUME NEW code \in Seq(Int), WellFormed(code),
           NEW f, Suffixes(f, Len(code), FormAdd(code), FormNext(code))
    PROVE  FormDecoded(code) = f[1]
<1> DEFINE chosen == CHOOSE h : IsForm(h, code)
<1>1. IsForm(f, code)
  BY FormIs, Zenon
<1>2. IsForm(chosen, code)
  BY <1>1, Zenon
<1>3. FormDecoded(code) = chosen[1]
  BY Zenon DEF FormDecoded, IsForm
<1> HIDE DEF chosen
<1>4. Suffixes(chosen, Len(code), FormAdd(code), FormNext(code))
  BY <1>2, FormIs, Zenon
<1>5. Len(code) \in Nat /\ GoesOn(Len(code), FormNext(code))
  BY FormGoesOn
<1>6. chosen = f
  BY <1>4, <1>5, SuffixesAreUnique, Zenon
<1> QED BY <1>3, <1>6, Zenon

LEMMA FormReads ==
    ASSUME NEW code \in Seq(Int), WellFormed(code)
    PROVE  \E f : /\ Suffixes(f, Len(code), FormAdd(code), FormNext(code))
                  /\ FormDecoded(code) = f[1]
<1>1. Len(code) \in Nat /\ GoesOn(Len(code), FormNext(code))
  BY FormGoesOn
<1>2. PICK f : Suffixes(f, Len(code), FormAdd(code), FormNext(code))
  BY <1>1, SuffixesExist, Zenon
<1> QED BY <1>2, FormDecodedIs, Zenon

IsJoined(code, w, t, S) ==
    /\ code \in Seq(S) /\ Len(code) = Len(w) + Len(t)
    /\ Len(w) \in Nat /\ Len(t) \in Nat
    /\ DOMAIN code = 1..(Len(w) + Len(t)) /\ DOMAIN t = 1..Len(t)
    /\ \A i \in 1..Len(w) : code[i] = w[i]
    /\ \A i \in 1..Len(t) : code[Len(w) + i] = t[i]

LEMMA Joined ==
    ASSUME NEW S, NEW w \in Seq(S), NEW t \in Seq(S)
    PROVE  IsJoined(w \o t, w, t, S)
<1>1. /\ w \o t \in Seq(S) /\ Len(w \o t) = Len(w) + Len(t)
      /\ Len(w) \in Nat /\ Len(t) \in Nat
  OBVIOUS
<1>2. \A i \in 1..Len(w) : (w \o t)[i] = w[i]
  OBVIOUS
<1>3. \A i \in 1..Len(t) : (w \o t)[Len(w) + i] = t[i]
  OBVIOUS
<1>4. DOMAIN (w \o t) = 1..(Len(w) + Len(t)) /\ DOMAIN t = 1..Len(t)
  BY <1>1
<1> QED BY <1>1, <1>2, <1>3, <1>4, Zenon DEF IsJoined

\* The rest of a text that is well formed, after one word of it, is read by
\* itself.
LEMMA RestIsRead ==
    ASSUME NEW w \in Seq(Int), NEW t \in Seq(Int), WellFormed(t), WellFormed(w \o t),
           FormNext(w \o t)[1] = Len(w) + 1, Len(w) > 0
    PROVE  FormDecoded(w \o t) = FormAdd(w \o t)[1] \o FormDecoded(t)
<1> DEFINE code == w \o t
           n == Len(w)
           m == Len(t)
<1>1. /\ code \in Seq(Int) /\ Len(code) = n + m /\ n \in Nat /\ m \in Nat
      /\ \A i \in 1..m : code[n + i] = t[i]
  <2>1. IsJoined(code, w, t, Int)
    BY Joined, Zenon
  <2> QED BY <2>1, Zenon DEF IsJoined
<1>2. PICK f : /\ Suffixes(f, Len(code), FormAdd(code), FormNext(code))
               /\ FormDecoded(code) = f[1]
  BY <1>1, FormReads, Zenon
<1>3. GoesOn(m, FormNext(t))
  BY FormGoesOn, Zenon
<1>4. ASSUME NEW i \in 1..m
      PROVE  /\ FormAdd(code)[n + i] = FormAdd(t)[i]
             /\ FormNext(code)[n + i] = n + FormNext(t)[i]
  <2>1. n + i \in 1..(n + m) /\ code[n + i] = t[i]
    BY <1>1
  <2>2. n + i \in 1..Len(code)
    BY <1>1, <2>1, Zenon
  <2> HIDE DEF code, n, m
  <2>3. CASE t[i] = Percent
    <3>1. i + 2 <= m
      <4>1. i \in DOMAIN t
        BY DEF m
      <4> QED BY <2>3, <4>1, Zenon DEF WellFormed, m
    <3>2. /\ i + 1 \in 1..m /\ i + 2 \in 1..m
          /\ n + i + 1 = n + (i + 1) /\ n + i + 2 = n + (i + 2) /\ n + i + 3 = n + (i + 3)
      BY <1>1, <3>1
    <3>3. code[n + i + 1] = t[i + 1] /\ code[n + i + 2] = t[i + 2]
      <4>1. code[n + (i + 1)] = t[i + 1] /\ code[n + (i + 2)] = t[i + 2]
        BY <1>1, <3>2, Zenon
      <4> QED BY <3>2, <4>1, Zenon
    <3>4. /\ FormAdd(code)[n + i] = <<Pair(code[n + i + 1], code[n + i + 2])>>
          /\ FormNext(code)[n + i] = n + i + 3
      BY <2>1, <2>2, <2>3, Zenon DEF FormAdd, FormNext
    <3>5. FormAdd(t)[i] = <<Pair(t[i + 1], t[i + 2])>> /\ FormNext(t)[i] = i + 3
      BY <2>3, Zenon DEF FormAdd, FormNext, m
    <3> QED BY <3>2, <3>3, <3>4, <3>5, Zenon
  <2>4. CASE t[i] # Percent
    <3>1. FormAdd(code)[n + i] = <<Plain(code[n + i])>> /\ FormNext(code)[n + i] = n + i + 1
      BY <2>1, <2>2, <2>4, Zenon DEF FormAdd, FormNext
    <3>2. FormAdd(t)[i] = <<Plain(t[i])>> /\ FormNext(t)[i] = i + 1
      BY <2>4, Zenon DEF FormAdd, FormNext, m
    <3>3. n + i + 1 = n + (i + 1)
      BY <1>1
    <3> QED BY <2>1, <3>1, <3>2, <3>3, Zenon
  <2> QED BY <2>3, <2>4
<1>5. Suffixes(f, n + m, FormAdd(code), FormNext(code))
  BY <1>1, <1>2, Zenon
<1>6. \E g : Suffixes(g, m, FormAdd(t), FormNext(t)) /\ g[1] = f[n + 1]
  <2>1. n \in Nat /\ m \in Nat
    BY <1>1, Zenon
  <2> DEFINE add == FormAdd(code)
             next == FormNext(code)
             addRest == FormAdd(t)
             nextRest == FormNext(t)
  <2>2. SameRest(n, m, add, next, addRest, nextRest)
    BY <1>4, Zenon DEF SameRest
  <2> HIDE DEF code, n, m, add, next, addRest, nextRest
  <2>3. Suffixes(f, n + m, add, next) /\ GoesOn(m, nextRest)
    BY <1>3, <1>5, Zenon DEF add, next, nextRest
  <2>4. \E g : Suffixes(g, m, addRest, nextRest) /\ g[1] = f[n + 1]
    BY <2>1, <2>2, <2>3, SuffixesOfRest, SMT
  <2> QED BY <2>4, Zenon DEF addRest, nextRest
<1>7. FormDecoded(t) = f[n + 1]
  BY <1>6, FormDecodedIs, Zenon
<1>8. f[1] = FormAdd(code)[1] \o f[n + 1]
  <2>1. 1 \in 1..(n + m + 1) /\ ~(1 > n + m)
    BY <1>1
  <2>2. f[1] = IF 1 > n + m THEN <<>> ELSE FormAdd(code)[1] \o f[FormNext(code)[1]]
    BY <1>5, <2>1, Zenon DEF Suffixes
  <2> QED BY <2>1, <2>2, Zenon
<1> QED BY <1>2, <1>6, <1>7, <1>8, Zenon

LEMMA NothingIsRead == WellFormed(<<>>) /\ FormDecoded(<<>>) = <<>>
<1> DEFINE code == <<>>
<1>1. code \in Seq(Int) /\ Len(code) = 0 /\ DOMAIN code = {}
  OBVIOUS
<1> HIDE DEF code
<1>2. WellFormed(code)
  BY <1>1, Zenon DEF WellFormed
<1>3. PICK f : Suffixes(f, Len(code), FormAdd(code), FormNext(code)) /\ FormDecoded(code) = f[1]
  BY <1>1, <1>2, FormReads, Zenon
<1>4. f[1] = <<>>
  <2>1. 1 \in 1..(Len(code) + 1) /\ 1 > Len(code)
    BY <1>1
  <2> QED BY <1>3, <2>1, Zenon DEF Suffixes
<1> QED BY <1>2, <1>3, <1>4 DEF code

\* A character that is no percent sign comes first.
LEMMA PlainIsRead ==
    ASSUME NEW c \in Int, c # Percent, NEW t \in Seq(Int), WellFormed(t)
    PROVE  /\ WellFormed(<<c>> \o t)
           /\ FormDecoded(<<c>> \o t) = <<Plain(c)>> \o FormDecoded(t)
<1> DEFINE w == <<c>>
           code == w \o t
           m == Len(t)
<1>1. w \in Seq(Int) /\ Len(w) = 1 /\ w[1] = c
  OBVIOUS
<1> HIDE DEF w
<1>2. /\ code \in Seq(Int) /\ Len(code) = 1 + m /\ m \in Nat
      /\ DOMAIN code = 1..(1 + m) /\ DOMAIN t = 1..m
      /\ code[1] = c /\ \A i \in 1..m : code[1 + i] = t[i]
  <2>1. IsJoined(code, w, t, Int)
    BY <1>1, Joined, Zenon
  <2>2. 1 \in 1..Len(w)
    BY <1>1
  <2> HIDE DEF code, m
  <2>3. code[1] = w[1]
    BY <1>1, <2>1, <2>2, Zenon DEF IsJoined
  <2> QED BY <1>1, <2>1, <2>3, Zenon DEF IsJoined, m
<1> HIDE DEF code
<1>3. WellFormed(code)
  <2> SUFFICES ASSUME NEW i \in DOMAIN code, code[i] = Percent
               PROVE  /\ i + 2 <= Len(code)
                      /\ HexValue(code[i + 1]) # {} /\ HexValue(code[i + 2]) # {}
    BY Zenon DEF WellFormed
  <2>1. i # 1 /\ i \in 1..(1 + m)
    BY <1>2
  <2>2. i - 1 \in 1..m /\ 1 + (i - 1) = i
    BY <1>2, <2>1
  <2>3. t[i - 1] = Percent /\ i - 1 \in DOMAIN t
    BY <1>2, <2>2, Zenon
  <2>4. i - 1 + 2 <= m /\ HexValue(t[i - 1 + 1]) # {} /\ HexValue(t[i - 1 + 2]) # {}
    BY <2>3, Zenon DEF WellFormed
  <2>5. /\ i - 1 + 1 \in 1..m /\ i - 1 + 2 \in 1..m /\ 1 + (i - 1 + 1) = i + 1
        /\ 1 + (i - 1 + 2) = i + 2 /\ i + 2 <= 1 + m
    <3>1. m \in Nat /\ i - 1 \in 1..m /\ i - 1 + 2 <= m /\ i \in Int
      BY <1>2, <2>1, <2>2, <2>4
    <3> HIDE DEF m
    <3> QED BY <3>1
  <2>6. code[i + 1] = t[i - 1 + 1] /\ code[i + 2] = t[i - 1 + 2]
    BY <1>2, <2>5, Zenon
  <2> QED BY <1>2, <2>4, <2>5, <2>6, Zenon
<1>4. FormAdd(code)[1] = <<Plain(c)>> /\ FormNext(code)[1] = Len(w) + 1
  <2>1. 1 \in 1..Len(code) /\ 1 + 1 = Len(w) + 1
    BY <1>1, <1>2
  <2> QED BY <1>2, <2>1, Zenon DEF FormAdd, FormNext
<1>5. Len(w) > 0
  BY <1>1
<1> QED BY <1>1, <1>3, <1>4, <1>5, RestIsRead, Zenon DEF code, w

\* A percent sign and two digits come first.
LEMMA EscapeIsRead ==
    ASSUME NEW high \in 0..15, NEW low \in 0..15, NEW t \in Seq(Int), WellFormed(t)
    PROVE  LET w == <<Percent, Hexit(high), Hexit(low)>>
           IN  /\ WellFormed(w \o t)
               /\ FormDecoded(w \o t) = <<16 * high + low>> \o FormDecoded(t)
<1> DEFINE w == <<Percent, Hexit(high), Hexit(low)>>
           code == w \o t
           m == Len(t)
<1>0. Percent \in Int /\ Hexit(high) \in Int /\ Hexit(low) \in Int
      /\ Hexit(high) # Percent /\ Hexit(low) # Percent
  BY DEF Percent, Hexit
<1>1. /\ w \in Seq(Int) /\ Len(w) = 3
      /\ w[1] = Percent /\ w[2] = Hexit(high) /\ w[3] = Hexit(low)
  BY <1>0
<1> HIDE DEF w
<1>2. /\ code \in Seq(Int) /\ Len(code) = 3 + m /\ m \in Nat
      /\ DOMAIN code = 1..(3 + m) /\ DOMAIN t = 1..m
      /\ code[1] = Percent /\ code[2] = Hexit(high) /\ code[3] = Hexit(low)
      /\ \A i \in 1..m : code[3 + i] = t[i]
  <2>1. IsJoined(code, w, t, Int)
    BY <1>1, Joined, Zenon
  <2>2. 1 \in 1..Len(w) /\ 2 \in 1..Len(w) /\ 3 \in 1..Len(w)
    BY <1>1
  <2> HIDE DEF code, m
  <2>3. code[1] = w[1] /\ code[2] = w[2] /\ code[3] = w[3]
    BY <1>1, <2>1, <2>2, Zenon DEF IsJoined
  <2> QED BY <1>1, <2>1, <2>3, Zenon DEF IsJoined, m
<1> HIDE DEF code
<1>3. HexValue(Hexit(high)) = {high} /\ HexValue(Hexit(low)) = {low}
  BY HexitHasValue, Zenon
<1>4. WellFormed(code)
  <2> SUFFICES ASSUME NEW i \in DOMAIN code, code[i] = Percent
               PROVE  /\ i + 2 <= Len(code)
                      /\ HexValue(code[i + 1]) # {} /\ HexValue(code[i + 2]) # {}
    BY Zenon DEF WellFormed
  <2>1. i # 2 /\ i # 3 /\ i \in 1..(3 + m)
    BY <1>0, <1>2
  <2>2. CASE i = 1
    <3>1. i + 2 <= 3 + m /\ i + 1 = 2 /\ i + 2 = 3
      BY <1>2, <2>2
    <3> QED BY <1>2, <1>3, <3>1, Zenon
  <2>3. CASE i # 1
    <3>2. i - 3 \in 1..m /\ 3 + (i - 3) = i
      <4>1. m \in Nat
        BY <1>2
      <4> HIDE DEF m
      <4> QED BY <2>1, <2>3, <4>1
    <3>3. t[i - 3] = Percent /\ i - 3 \in DOMAIN t
      BY <1>2, <3>2, Zenon
    <3>4. i - 3 + 2 <= m /\ HexValue(t[i - 3 + 1]) # {} /\ HexValue(t[i - 3 + 2]) # {}
      BY <3>3, Zenon DEF WellFormed
    <3>5. /\ i - 3 + 1 \in 1..m /\ i - 3 + 2 \in 1..m /\ 3 + (i - 3 + 1) = i + 1
          /\ 3 + (i - 3 + 2) = i + 2 /\ i + 2 <= 3 + m
      <4>1. m \in Nat /\ i \in Int /\ i - 3 + 2 <= m
        BY <1>2, <2>1, <3>4
      <4> HIDE DEF m
      <4> QED BY <3>2, <4>1
    <3>6. code[i + 1] = t[i - 3 + 1] /\ code[i + 2] = t[i - 3 + 2]
      <4>1. code[3 + (i - 3 + 1)] = t[i - 3 + 1] /\ code[3 + (i - 3 + 2)] = t[i - 3 + 2]
        BY <1>2, <3>5, Zenon
      <4> QED BY <3>5, <4>1, Zenon
    <3> QED BY <1>2, <3>4, <3>5, <3>6, Zenon
  <2> QED BY <2>2, <2>3
<1>5. FormAdd(code)[1] = <<16 * high + low>> /\ FormNext(code)[1] = Len(w) + 1
  <2>1. 1 \in 1..Len(code) /\ 1 + 3 = Len(w) + 1 /\ 1 + 1 = 2 /\ 1 + 2 = 3
    BY <1>1, <1>2
  <2>2. FormAdd(code)[1] = <<Pair(code[2], code[3])>> /\ FormNext(code)[1] = 1 + 3
    BY <1>2, <2>1, Zenon DEF FormAdd, FormNext
  <2>3. Min({high}) = high /\ Min({low}) = low
    <3>1. /\ {high} \in SUBSET Int /\ high \in {high} /\ \A j \in {high} : high <= j
          /\ {low} \in SUBSET Int /\ low \in {low} /\ \A j \in {low} : low <= j
      OBVIOUS
    <3> QED BY <3>1, MinIs, Zenon
  <2>4. Pair(code[2], code[3]) = 16 * high + low
    BY <1>2, <1>3, <2>3, Zenon DEF Pair
  <2> QED BY <2>1, <2>2, <2>4, Zenon
<1>6. Len(w) > 0
  BY <1>1
<1> QED BY <1>1, <1>4, <1>5, <1>6, RestIsRead, Zenon DEF code, w

-----------------------------------------------------------------------------
(***************************************************************************)
(* What UrlEncode writes.                                                  *)
(***************************************************************************)

EncodeAdd(s) == [i \in 1..Len(s) |-> Encoded(s[i])]
EncodeNext(s) == [i \in 1..Len(s) |-> i + 1]

IsEncoding(f, s) ==
    f = [i \in 1..(Len(s) + 1) |-> IF i > Len(s) THEN <<>> ELSE Encoded(s[i]) \o f[i + 1]]

LEMMA EncodingIs ==
    ASSUME NEW s \in Seq(0..255), NEW f
    PROVE  IsEncoding(f, s) <=> Suffixes(f, Len(s), EncodeAdd(s), EncodeNext(s))
<1> DEFINE m == Len(s)
           encoding(i) == IF i > m THEN <<>> ELSE Encoded(s[i]) \o f[i + 1]
           suffix(i) == IF i > m THEN <<>> ELSE EncodeAdd(s)[i] \o f[EncodeNext(s)[i]]
<1>1. m \in Nat
  OBVIOUS
<1>2. ASSUME NEW i \in 1..(m + 1) PROVE encoding(i) = suffix(i)
  <2>1. CASE i > m
    BY <2>1, Zenon
  <2>2. CASE ~(i > m)
    <3>1. i \in 1..m
      BY <1>1, <2>2
    <3>2. EncodeAdd(s)[i] = Encoded(s[i]) /\ EncodeNext(s)[i] = i + 1
      BY <3>1, Zenon DEF EncodeAdd, EncodeNext
    <3> QED BY <2>2, <3>2, Zenon
  <2> QED BY <2>1, <2>2
<1>3. IsEncoding(f, s) <=> f = [i \in 1..(m + 1) |-> encoding(i)]
  BY Zenon DEF IsEncoding
<1>4. Suffixes(f, m, EncodeAdd(s), EncodeNext(s)) <=> f = [i \in 1..(m + 1) |-> suffix(i)]
  BY Zenon DEF Suffixes
<1> HIDE DEF encoding, suffix
<1>5. [i \in 1..(m + 1) |-> encoding(i)] = [i \in 1..(m + 1) |-> suffix(i)]
  BY <1>2, Zenon
<1> QED BY <1>3, <1>4, <1>5, Zenon

LEMMA EncodeIs ==
    ASSUME NEW s \in Seq(0..255)
    PROVE  \E f : IsEncoding(f, s) /\ UrlEncode(s) = f[1]
<1> DEFINE chosen == CHOOSE h : IsEncoding(h, s)
<1>1. Len(s) \in Nat /\ GoesOn(Len(s), EncodeNext(s))
  BY DEF GoesOn, EncodeNext
<1>2. \E f : Suffixes(f, Len(s), EncodeAdd(s), EncodeNext(s))
  BY <1>1, SuffixesExist, Zenon
<1>3. \E f : IsEncoding(f, s)
  BY <1>2, EncodingIs, Zenon
<1>4. IsEncoding(chosen, s)
  BY <1>3, Zenon
<1>5. UrlEncode(s) = chosen[1]
  BY Zenon DEF UrlEncode, IsEncoding
<1> QED BY <1>4, <1>5, Zenon

\* What the encoder may write.
InUrl(code) == \A i \in DOMAIN code : isalnum(code[i]) \/ code[i] \in {Plus, Percent}

\* What the words of code are read as.
IsReadAsText(code, t) ==
    /\ code \in Seq(Int) /\ InUrl(code)
    /\ WellFormed(code) /\ FormDecoded(code) = t

AsSpace(c) == IF isspace(c) THEN 32 ELSE c

LEMMA InUrlJoined ==
    ASSUME NEW w \in Seq(Int), NEW t \in Seq(Int), InUrl(w), InUrl(t)
    PROVE  InUrl(w \o t)
<1> DEFINE code == w \o t
           n == Len(w)
           m == Len(t)
           ok(c) == isalnum(c) \/ c \in {Plus, Percent}
<1>1. IsJoined(code, w, t, Int)
  BY Joined, Zenon
<1>2. /\ n \in Nat /\ m \in Nat /\ DOMAIN code = 1..(n + m)
      /\ \A i \in 1..n : code[i] = w[i]
      /\ \A i \in 1..m : code[n + i] = t[i]
  BY <1>1, Zenon DEF IsJoined
<1>3. (\A i \in 1..n : ok(w[i])) /\ (\A i \in 1..m : ok(t[i]))
  <2>1. DOMAIN w = 1..n /\ DOMAIN t = 1..m
    OBVIOUS
  <2> QED BY <2>1, Zenon DEF InUrl
<1> HIDE DEF code, n, m, ok
<1>4. ASSUME NEW i \in DOMAIN code PROVE ok(code[i])
  <2>1. CASE i \in 1..n
    BY <1>2, <1>3, <2>1, Zenon
  <2>2. CASE i \notin 1..n
    <3>1. i - n \in 1..m /\ n + (i - n) = i
      BY <1>2, <2>2
    <3>2. code[n + (i - n)] = t[i - n] /\ ok(t[i - n])
      BY <1>2, <1>3, <3>1, Zenon
    <3> QED BY <3>1, <3>2, Zenon
  <2> QED BY <2>1, <2>2
<1> QED BY <1>4, Zenon DEF InUrl, ok, code

\* One byte more.
LEMMA ByteIsRead ==
    ASSUME NEW c \in 0..255, NEW code, NEW t, IsReadAsText(code, t)
    PROVE  IsReadAsText(Encoded(c) \o code, <<AsSpace(c)>> \o t)
<1>1. code \in Seq(Int) /\ InUrl(code) /\ WellFormed(code) /\ FormDecoded(code) = t
  BY Zenon DEF IsReadAsText
<1>2. ASSUME NEW x \in Int, x # Percent, isalnum(x) \/ x = Plus, Encoded(c) = <<x>>,
             Plain(x) = AsSpace(c)
      PROVE  IsReadAsText(Encoded(c) \o code, <<AsSpace(c)>> \o t)
  <2> DEFINE w == <<x>>
  <2>1. w \in Seq(Int) /\ Len(w) = 1 /\ w[1] = x
    OBVIOUS
  <2>2. InUrl(w)
    <3> HIDE DEF w
    <3>1. DOMAIN w = {1}
      BY <2>1
    <3> QED BY <1>2, <2>1, <3>1, Zenon DEF InUrl
  <2>3. WellFormed(w \o code) /\ FormDecoded(w \o code) = <<Plain(x)>> \o FormDecoded(code)
    BY <1>1, <1>2, PlainIsRead, Zenon
  <2> HIDE DEF w
  <2>4. w \o code \in Seq(Int) /\ InUrl(w \o code)
    BY <1>1, <2>1, <2>2, InUrlJoined
  <2> QED BY <1>1, <1>2, <2>3, <2>4, Zenon DEF IsReadAsText, w
<1>3. CASE isalnum(c)
  <2>1. c \in Int /\ c # Percent /\ c # Plus /\ ~isspace(c)
    BY <1>3 DEF isalnum, Percent, Plus, isspace, Digits
  <2> QED BY <1>2, <1>3, <2>1, Zenon DEF Encoded, Plain, AsSpace
<1>4. CASE ~isalnum(c) /\ isspace(c)
  <2>1. Plus \in Int /\ Plus # Percent
    BY DEF Plus, Percent
  <2> QED BY <1>2, <1>4, <2>1, Zenon DEF Encoded, Plain, AsSpace
<1>5. CASE ~isalnum(c) /\ ~isspace(c)
  <2> DEFINE high == c \div 16
             low == c % 16
             w == <<Percent, Hexit(high), Hexit(low)>>
  <2>1. high \in 0..15 /\ low \in 0..15 /\ 16 * high + low = c
    OBVIOUS
  <2> HIDE DEF high, low
  <2>2. /\ Percent \in Int /\ Hexit(high) \in Int /\ Hexit(low) \in Int
        /\ isalnum(Hexit(high)) /\ isalnum(Hexit(low))
    BY <2>1 DEF Percent, Hexit, isalnum, Digits
  <2>3. w \in Seq(Int) /\ Len(w) = 3
        /\ w[1] = Percent /\ w[2] = Hexit(high) /\ w[3] = Hexit(low)
    BY <2>2
  <2>4. WellFormed(w \o code) /\ FormDecoded(w \o code) = <<16 * high + low>> \o FormDecoded(code)
    BY <1>1, <2>1, EscapeIsRead, Zenon
  <2> HIDE DEF w
  <2>5. InUrl(w)
    <3>1. DOMAIN w = {1, 2, 3}
      BY <2>3
    <3> QED BY <2>2, <2>3, <3>1, Zenon DEF InUrl
  <2>6. w \o code \in Seq(Int) /\ InUrl(w \o code)
    BY <1>1, <2>3, <2>5, InUrlJoined
  <2>7. Encoded(c) = w
    BY <1>5, Zenon DEF Encoded, w, high, low
  <2> QED BY <1>1, <1>5, <2>1, <2>4, <2>6, <2>7, Zenon DEF IsReadAsText, AsSpace
<1> QED BY <1>3, <1>4, <1>5, Zenon

\* The rest of a text from a place on, as it is read.
SpacedFrom(s, i) == [j \in 1..(Len(s) + 1 - i) |-> AsSpace(s[i + j - 1])]

LEMMA SpacedFromPlace ==
    ASSUME NEW s \in Seq(0..255), NEW i \in 1..Len(s)
    PROVE  SpacedFrom(s, i) = <<AsSpace(s[i])>> \o SpacedFrom(s, i + 1)
<1> DEFINE m == Len(s) - i
           c == AsSpace(s[i])
           w == <<c>>
           t == SpacedFrom(s, i + 1)
           u == SpacedFrom(s, i)
<1>1. m \in Nat /\ Len(s) + 1 - (i + 1) = m /\ Len(s) + 1 - i = m + 1
  OBVIOUS
<1>2. \A j \in 1..Len(s) : AsSpace(s[j]) \in 0..255
  <2>1. \A j \in 1..Len(s) : s[j] \in 0..255
    BY ElementOfSeq, Zenon
  <2>2. \A x \in 0..255 : AsSpace(x) \in 0..255
    BY DEF AsSpace
  <2> QED BY <2>1, <2>2, Zenon
<1>3. /\ t = [j \in 1..m |-> AsSpace(s[i + 1 + j - 1])]
      /\ u = [j \in 1..(m + 1) |-> AsSpace(s[i + j - 1])]
  BY <1>1, Zenon DEF SpacedFrom
<1>4. t \in Seq(0..255) /\ Len(t) = m
  <2>1. \A j \in 1..m : AsSpace(s[i + 1 + j - 1]) \in 0..255
    <3>1. \A j \in 1..m : i + 1 + j - 1 \in 1..Len(s)
      BY <1>1
    <3> QED BY <1>2, <3>1, Zenon
  <2> HIDE DEF m, t
  <2>2. t \in [1..m -> 0..255]
    BY <1>3, <2>1, Zenon
  <2> QED BY <1>1, <2>2
<1>5. u \in Seq(0..255) /\ Len(u) = m + 1
  <2>1. \A j \in 1..(m + 1) : AsSpace(s[i + j - 1]) \in 0..255
    <3>1. \A j \in 1..(m + 1) : i + j - 1 \in 1..Len(s)
      BY <1>1
    <3> QED BY <1>2, <3>1, Zenon
  <2> HIDE DEF m, u
  <2>2. u \in [1..(m + 1) -> 0..255]
    BY <1>3, <2>1, Zenon
  <2> QED BY <1>1, <2>2
<1>6. c \in 0..255 /\ w \in Seq(0..255) /\ Len(w) = 1 /\ w[1] = c
  BY <1>2
<1>7. IsJoined(w \o t, w, t, 0..255)
  <2> HIDE DEF w, t
  <2> QED BY <1>4, <1>6, Joined, Zenon
<1>8. \A j \in 1..(m + 1) : u[j] = (w \o t)[j]
  <2> SUFFICES ASSUME NEW j \in 1..(m + 1) PROVE u[j] = (w \o t)[j]
    OBVIOUS
  <2>1. u[j] = AsSpace(s[i + j - 1])
    BY <1>3, Zenon
  <2>2. CASE j = 1
    <3>1. i + j - 1 = i /\ 1 \in 1..Len(w)
      BY <1>6, <2>2
    <3>2. (w \o t)[1] = w[1]
      BY <1>7, <3>1, Zenon DEF IsJoined
    <3> QED BY <1>6, <2>1, <2>2, <3>1, <3>2, Zenon
  <2>3. CASE j # 1
    <3>1. j - 1 \in 1..m /\ i + 1 + (j - 1) - 1 = i + j - 1 /\ Len(w) + (j - 1) = j
      BY <1>1, <1>6, <2>3
    <3>2. t[j - 1] = AsSpace(s[i + 1 + (j - 1) - 1])
      BY <1>3, <3>1, Zenon
    <3>3. (w \o t)[Len(w) + (j - 1)] = t[j - 1]
      BY <1>4, <1>7, <3>1, Zenon DEF IsJoined
    <3> QED BY <2>1, <3>1, <3>2, <3>3, Zenon
  <2> QED BY <2>2, <2>3
<1>9. w \o t \in Seq(0..255) /\ Len(w \o t) = m + 1
  <2>1. w \o t \in Seq(0..255) /\ Len(w \o t) = Len(w) + Len(t)
    BY <1>7, Zenon DEF IsJoined
  <2> HIDE DEF w, t
  <2> QED BY <1>1, <1>4, <1>6, <2>1
<1> HIDE DEF u, w, t, m
<1>10. u = w \o t
  BY <1>5, <1>8, <1>9, SeqEqual
<1> QED BY <1>10, Zenon DEF u, w, t

LEMMA NothingIsLeft ==
    ASSUME NEW s \in Seq(0..255)
    PROVE  SpacedFrom(s, Len(s) + 1) = <<>> /\ SpacedFrom(s, 1) = Spaced(s)
<1>1. Len(s) \in Nat /\ DOMAIN s = 1..Len(s)
  OBVIOUS
<1>2. Len(s) + 1 - (Len(s) + 1) = 0 /\ Len(s) + 1 - 1 = Len(s)
  BY <1>1
<1>3. SpacedFrom(s, Len(s) + 1) = <<>>
  <2>1. SpacedFrom(s, Len(s) + 1) = [j \in 1..0 |-> AsSpace(s[Len(s) + 1 + j - 1])]
    BY <1>2, Zenon DEF SpacedFrom
  <2>2. 1..0 = {}
    OBVIOUS
  <2> QED BY <2>1, <2>2
<1>4. SpacedFrom(s, 1) = [j \in 1..Len(s) |-> AsSpace(s[j])]
  <2>1. SpacedFrom(s, 1) = [j \in 1..Len(s) |-> AsSpace(s[1 + j - 1])]
    BY <1>2, Zenon DEF SpacedFrom
  <2>2. \A j \in 1..Len(s) : 1 + j - 1 = j
    OBVIOUS
  <2>3. [j \in 1..Len(s) |-> AsSpace(s[1 + j - 1])] = [j \in 1..Len(s) |-> AsSpace(s[j])]
    BY <2>2, Zenon
  <2> QED BY <2>1, <2>3, Zenon
<1>5. Spaced(s) = [j \in 1..Len(s) |-> AsSpace(s[j])]
  BY <1>1, Zenon DEF Spaced, AsSpace
<1> QED BY <1>3, <1>4, <1>5, Zenon

\* What UrlEncode writes is one word of a URL, and is read as the text.
LEMMA EncodedIsRead ==
    ASSUME NEW s \in Seq(0..255)
    PROVE  IsReadAsText(UrlEncode(s), Spaced(s))
<1> DEFINE m == Len(s)
<1>1. m \in Nat
  OBVIOUS
<1>2. PICK f : IsEncoding(f, s) /\ UrlEncode(s) = f[1]
  BY EncodeIs, Zenon
<1> DEFINE T == {k \in Nat : k <= m => IsReadAsText(f[m + 1 - k], SpacedFrom(s, m + 1 - k))}
<1> HIDE DEF m
<1>3. 0 \in T
  <2>1. m + 1 - 0 = m + 1 /\ m + 1 \in 1..(m + 1) /\ m + 1 > m
    BY <1>1
  <2>2. f[m + 1] = <<>>
    BY <1>2, <2>1, Zenon DEF IsEncoding, m
  <2>3. <<>> \in Seq(Int) /\ InUrl(<<>>)
    <3>1. DOMAIN <<>> = {}
      OBVIOUS
    <3>2. InUrl(<<>>)
      BY <3>1, Zenon DEF InUrl
    <3> QED BY <3>2
  <2>4. IsReadAsText(f[m + 1], SpacedFrom(s, m + 1))
    BY <2>2, <2>3, NothingIsRead, NothingIsLeft, Zenon DEF IsReadAsText, m
  <2>5. IsReadAsText(f[m + 1 - 0], SpacedFrom(s, m + 1 - 0))
    BY <2>1, <2>4, Zenon
  <2> QED BY <2>5, Zenon
<1>4. ASSUME NEW k \in T PROVE k + 1 \in T
  <2> DEFINE i == m + 1 - (k + 1)
  <2>1. k \in Nat /\ k + 1 \in Nat
    OBVIOUS
  <2>2. ASSUME k + 1 <= m PROVE IsReadAsText(f[i], SpacedFrom(s, i))
    <3>1. /\ k <= m /\ i \in 1..m /\ ~(i > m) /\ i + 1 = m + 1 - k /\ i \in 1..(m + 1)
      BY <1>1, <2>1, <2>2
    <3>2. IsReadAsText(f[m + 1 - k], SpacedFrom(s, m + 1 - k))
      BY <3>1, Zenon
    <3> HIDE DEF i
    <3>3. IsReadAsText(f[i + 1], SpacedFrom(s, i + 1))
      BY <3>1, <3>2, Zenon
    <3>4. i \in 1..Len(s) /\ s[i] \in 0..255
      BY <3>1, ElementOfSeq, Zenon DEF m
    <3>5. f[i] = Encoded(s[i]) \o f[i + 1]
      BY <1>2, <3>1, Zenon DEF IsEncoding, m
    <3>6. IsReadAsText(Encoded(s[i]) \o f[i + 1], <<AsSpace(s[i])>> \o SpacedFrom(s, i + 1))
      BY <3>3, <3>4, ByteIsRead, Zenon
    <3> QED BY <3>4, <3>5, <3>6, SpacedFromPlace, Zenon
  <2> QED BY <2>1, <2>2, Zenon
<1>5. T = Nat
  <2>1. T \in SUBSET Nat
    BY Zenon
  <2> HIDE DEF T
  <2> QED BY <1>3, <1>4, <2>1, SetInduction
<1>6. m \in T /\ m <= m /\ m + 1 - m = 1
  <2> HIDE DEF T
  <2> QED BY <1>1, <1>5
<1>7. IsReadAsText(f[1], SpacedFrom(s, 1))
  BY <1>6, Zenon
<1> QED BY <1>2, <1>7, NothingIsLeft, Zenon

-----------------------------------------------------------------------------
(***************************************************************************)
(* What UrlDecode reads, for any way of making a byte of two digits that   *)
(* makes the right one.                                                    *)
(***************************************************************************)

LEMMA DigitIs ==
    ASSUME NEW c \in Int, HexValue(c) # {}
    PROVE  /\ c \in 48..57 \cup 65..70 \cup 97..102
           /\ Min(HexValue(c)) = IF c \in 48..57 THEN c - 48
                                 ELSE IF c \in 97..102 THEN c - 87 ELSE c - 55
           /\ Min(HexValue(c)) \in 0..15
<1> DEFINE v == Min(HexValue(c))
<1>1. v \in HexValue(c)
  BY ValueOfDigit, Zenon
<1> HIDE DEF v
<1>2. v \in 0..15 /\ (c = Hexit(v) \/ (v > 9 /\ c = 87 + v))
  BY <1>1, Zenon DEF HexValue
<1>3. /\ c \in 48..57 \cup 65..70 \cup 97..102
      /\ v = IF c \in 48..57 THEN c - 48 ELSE IF c \in 97..102 THEN c - 87 ELSE c - 55
  BY <1>2 DEF Hexit
<1> QED BY <1>2, <1>3 DEF v

ReadsAs(f, code, byte) ==
    f = [i \in 1..(Len(code) + 1) |->
            IF i > Len(code) THEN <<>>
            ELSE IF code[i] = Percent /\ i + 2 <= Len(code)
                 THEN <<byte[i]>> \o f[i + 3]
            ELSE <<IF code[i] = Plus THEN 32 ELSE code[i]>> \o f[i + 1]]

MakesBytes(byte, code) ==
    \A i \in 1..Len(code) :
        code[i] = Percent => byte[i] = Pair(code[i + 1], code[i + 2])

LEMMA ReadingIs ==
    ASSUME NEW code \in Seq(Int), WellFormed(code), NEW byte, MakesBytes(byte, code), NEW f
    PROVE  ReadsAs(f, code, byte) <=> IsForm(f, code)
<1> DEFINE m == Len(code)
           form(i) == IF i > m THEN <<>>
                      ELSE IF code[i] = Percent
                           THEN <<16 * Min(HexValue(code[i + 1])) + Min(HexValue(code[i + 2]))>>
                                    \o f[i + 3]
                      ELSE <<Plain(code[i])>> \o f[i + 1]
           read(i) == IF i > m THEN <<>>
                      ELSE IF code[i] = Percent /\ i + 2 <= m
                           THEN <<byte[i]>> \o f[i + 3]
                      ELSE <<IF code[i] = Plus THEN 32 ELSE code[i]>> \o f[i + 1]
<1>1. m \in Nat /\ DOMAIN code = 1..m
  OBVIOUS
<1>2. ASSUME NEW i \in 1..(m + 1) PROVE read(i) = form(i)
  <2>1. CASE i > m
    BY <2>1, Zenon
  <2>2. CASE ~(i > m)
    <3>1. i \in 1..m
      BY <1>1, <2>2
    <3>2. CASE code[i] = Percent
      <4>1. byte[i] = Pair(code[i + 1], code[i + 2]) /\ i + 2 <= m
        BY <1>1, <3>1, <3>2, Zenon DEF MakesBytes, WellFormed
      <4> QED BY <2>2, <3>2, <4>1, Zenon DEF Pair
    <3>3. CASE code[i] # Percent
      BY <2>2, <3>3, Zenon DEF Plain
    <3> QED BY <3>2, <3>3
  <2> QED BY <2>1, <2>2
<1>3. IsForm(f, code) <=> f = [i \in 1..(m + 1) |-> form(i)]
  BY Zenon DEF IsForm
<1>4. ReadsAs(f, code, byte) <=> f = [i \in 1..(m + 1) |-> read(i)]
  BY Zenon DEF ReadsAs
<1> HIDE DEF form, read
<1>5. [i \in 1..(m + 1) |-> read(i)] = [i \in 1..(m + 1) |-> form(i)]
  BY <1>2, Zenon
<1> QED BY <1>3, <1>4, <1>5, Zenon

LEMMA ReadingExists ==
    ASSUME NEW code \in Seq(Int), WellFormed(code), NEW byte, MakesBytes(byte, code)
    PROVE  /\ \E f : ReadsAs(f, code, byte)
           /\ \A f : ReadsAs(f, code, byte) => f[1] = FormDecoded(code)
<1>1. \A f : ReadsAs(f, code, byte) <=>
                 Suffixes(f, Len(code), FormAdd(code), FormNext(code))
  BY ReadingIs, FormIs, Zenon
<1>2. \E f : Suffixes(f, Len(code), FormAdd(code), FormNext(code))
  BY FormReads, Zenon
<1> QED BY <1>1, <1>2, FormDecodedIs, Zenon

=============================================================================
