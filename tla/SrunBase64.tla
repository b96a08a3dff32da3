----------------------------- MODULE SrunBase64 -----------------------------
(***************************************************************************)
(* get_base64_string (encrypt/SrunBase64.cpp): base64 with an alphabet of  *)
(* its own.  Texts are sequences of byte values.                           *)
(***************************************************************************)
EXTENDS Integers, Sequences

\* Where the runs of printable characters that the alphabet uses begin.
FromPlus == "+,-./0123456789:;<=>?@ABCDEFGHIJKLMNOPQRSTUVWXYZ"
FromA == "abcdefghijklmnopqrstuvwxyz"

Place(run, char) == {j \in 1..Len(run) : SubSeq(run, j, j) = char}

Codes(string) ==
    [i \in 1..Len(string) |->
        LET char == SubSeq(string, i, i)
        IN  CHOOSE c \in 0..127 :
                c - 42 \in Place(FromPlus, char) \/ c - 96 \in Place(FromA, char)]

alpha == Codes("LVoJPiCN2R8G90yg+hmFHuacZ1OWMnrsSTXkYpUq/3dlbfKwv6xztjI7DeBE45QA")

pad_char == 61

\* No character stands twice in the alphabet, the padding is none of it and none
\* is white space.
ASSUME AlphabetIsUnambiguous ==
    /\ DOMAIN alpha = 1..64
    /\ \A i, j \in 1..64 : alpha[i] = alpha[j] => i = j
    /\ \A i \in 1..64 : alpha[i] \in 33..126 /\ alpha[i] # pad_char

Byte(s, i) == IF i <= Len(s) THEN s[i] ELSE 0

\* The three bytes from the one at i on as one number; missing ones are zero.
b10(s, i) == 65536 * Byte(s, i) + 256 * Byte(s, i + 1) + Byte(s, i + 2)

\* Mutant: one byte too few is taken to be left over.
SextetsShort(left) == IF left > 2 THEN 4 ELSE left

\* How many of four characters stand for text if so many bytes are left.
Sextets(left) == IF left > 2 THEN 4 ELSE left + 1

\* b10 >> 18, b10 >> 12, b10 >> 6 and b10
Shifted(number, place) == number \div <<262144, 4096, 64, 1>>[place + 1]

get_base64_string(s) ==
    [j \in 1..(4 * ((Len(s) + 2) \div 3)) |->
        LET group == (j - 1) \div 4
            place == (j - 1) % 4
        IN  IF place < Sextets(Len(s) - (3 * group))
            THEN alpha[1 + (Shifted(b10(s, 3 * group + 1), place) % 64)]
            ELSE pad_char]

=============================================================================
