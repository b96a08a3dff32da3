---------------------------- MODULE SrunXEncode ----------------------------
(***************************************************************************)
(* x_encode (encrypt/SrunXEncode.cpp), one pass over a word at a time, at  *)
(* the real width.  A word is the set of the positions of its one bits, so *)
(* that ^, |, << and >> are operations on sets; a text is a sequence of    *)
(* byte values.                                                            *)
(***************************************************************************)
EXTENDS Integers, Sequences, FiniteSetsExt

CONSTANTS
    Texts,      \* the texts to encode: JSON objects, so never empty
    Keys        \* the keys: challenges of the portal, so never empty

ASSUME SrunXEncodeConstants ==
    \A a \in Texts \cup Keys : a \in Seq(0..255) /\ a # <<>>

\* The locals of x_encode, named as there; result is what it returns.
VARIABLES str, k, v, z, d, q, p, result

\* The bits of a size_t on this build: 64, or 32 on small routers.
VARIABLE sizeBits

vars == <<str, k, v, z, d, q, p, result, sizeBits>>

Word == 0..(sizeBits - 1)
Low32 == 0..31

Shl(a, n) == {i + n : i \in a} \cap Word
Shr(a, n) == {i - n : i \in a} \cap Word

\* Bit i of a sum: a carry is made at some j and handed on up to i.
Add(a, b) ==
    LET Carry(i) == \E j \in a \cap b :
                       j < i /\ ((j + 1)..(i - 1)) \subseteq (a \cup b)
    IN  {i \in Word : i \in SymDiff(a, b) <=> ~Carry(i)}

Bits(n) == {i \in 0..30 : (n \div 2^i) % 2 = 1}

\* The byte that so many of the bits 0 to 7 make.
Value(bits) ==
    LET bit(i) == IF i \in bits THEN 2^i ELSE 0
    IN  bit(0) + bit(1) + bit(2) + bit(3) + bit(4) + bit(5) + bit(6) + bit(7)

\* A constant from the eight digits of its hexadecimal form.
Hex(digits) == UNION {Shl(Bits(digits[i]), 4 * (8 - i)) : i \in 1..8}
Delta == Hex(<<8, 6, 0, 1, 4, 0, 1, 9>>) \cup Hex(<<1, 8, 3, 6, 3, 9, 10, 0>>)

-----------------------------------------------------------------------------
(* Packing bytes into words and back.                                      *)

\* The bytes are ints when they are or'ed: a fourth byte of 128 or more makes
\* a negative int, and its sign fills what size_t has beyond 32 bits.
Packed(a) ==
    [j \in 0..(((Len(a) + 3) \div 4) - 1) |->
        LET w == UNION {Shl(Bits(a[i]), 8 * ((i - 1) % 4)) :
                            i \in {n \in 1..Len(a) : (n - 1) \div 4 = j}}
        IN  IF 31 \in w THEN w \cup (Word \ Low32) ELSE w]

Size(f) == Cardinality(DOMAIN f)

\* s(a, b)
s(a, b) ==
    LET w == Packed(a)
    IN  [j \in 0..(Size(w) - (IF b THEN 0 ELSE 1)) |->
            IF j < Size(w) THEN w[j] ELSE Bits(Len(a))]

AllBytes(a) ==
    [i \in 1..(4 * Size(a)) |->
        Value(Shr(a[(i - 1) \div 4], 8 * ((i - 1) % 4)) \cap 0..7)]

\* l(a, b): the last word of a text that was packed with its length has to
\* agree with the number of words.
l(a, b) ==
    LET c == 4 * (Size(a) - 1)
        lengths == {m \in (c - 3)..c : m >= 0 /\ a[Size(a) - 1] = Bits(m)}
    IN  IF Size(a) = 0 THEN <<>>
        ELSE IF ~b THEN AllBytes(a)
        ELSE IF lengths = {} THEN <<>>
        ELSE SubSeq(AllBytes(a), 1, CHOOSE m \in lengths : TRUE)

-----------------------------------------------------------------------------
(* x_encode.                                                               *)

n == Size(v) - 1

Rounds(words) == 6 + 52 \div Size(words)

\* Of a key only the first four words count; a shorter one is filled with zero.
KeyWords(key) ==
    LET w == s(key, FALSE)
    IN  [j \in 0..3 |-> IF j \in DOMAIN w THEN w[j] ELSE {}]

Init ==
    /\ sizeBits \in {32, 64}
    /\ str \in Texts
    /\ \E key \in Keys : k = KeyWords(key)
    /\ v = s(str, TRUE)
    /\ z = v[n]
    /\ d = {}
    /\ q = Rounds(v)
    /\ p = n + 1
    /\ result = <<>>

KeyIndex(pos, sum) == Value(SymDiff(Bits(pos % 4), Shr(sum, 2) \cap 0..1))

\* Mutant: the right neighbour is shifted as the left one.
MixShifts(zz, y, sum, pos) ==
    Add(Add(SymDiff(Shr(zz, 5), Shl(y, 2)),
            SymDiff(SymDiff(Shr(y, 5), Shl(zz, 4)), SymDiff(sum, y))),
        SymDiff(k[KeyIndex(pos, sum)], zz))

\* What is added to the word at pos, between its neighbours zz and y.
Mix(zz, y, sum, pos) ==
    Add(Add(SymDiff(Shr(zz, 5), Shl(y, 2)),
            SymDiff(SymDiff(Shr(y, 3), Shl(zz, 4)), SymDiff(sum, y))),
        SymDiff(k[KeyIndex(pos, sum)], zz))

Right(pos) == IF pos < n THEN pos + 1 ELSE 0

StartRound ==
    /\ p = n + 1 /\ q > 0
    /\ q' = q - 1
    /\ d' = Add(d, Delta) \cap Low32
    /\ p' = 0
    /\ UNCHANGED <<str, k, v, z, result, sizeBits>>

\* The body of the inner loop, and of what follows it for the last word.
MixWord ==
    /\ p <= n
    /\ z' = Add(v[p], Mix(z, v[Right(p)], d, p)) \cap Low32
    /\ v' = [v EXCEPT ![p] = z']
    /\ p' = p + 1
    /\ UNCHANGED <<str, k, d, q, result, sizeBits>>

Finish ==
    /\ p = n + 1 /\ q = 0 /\ result = <<>>
    /\ result' = l(v, FALSE)
    /\ UNCHANGED <<str, k, v, z, d, q, p, sizeBits>>

Next == StartRound \/ MixWord \/ Finish

Spec == Init /\ [][Next]_vars

=============================================================================
