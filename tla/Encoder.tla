------------------------------ MODULE Encoder ------------------------------
(***************************************************************************)
(* UrlEncode and UrlDecode (lib/Encoder.cpp), on sequences of byte values. *)
(***************************************************************************)
EXTENDS Integers, Sequences

CONSTANT CharIsSigned   \* does a char hold -1?  Not on ARM

ASSUME EncoderConstants == CharIsSigned \in BOOLEAN

Digits == 48..57
isalnum(c) == c \in Digits \cup 65..90 \cup 97..122
isspace(c) == c \in 9..13 \cup {32}
Plus == 43
Percent == 37

\* %X of a number below 16
Hexit(i) == IF i < 10 THEN 48 + i ELSE 55 + i

\* Mutant: what a form allows unencoded besides is left as it is.
EncodedLax(c) ==
    IF isalnum(c) \/ c \in {43, 45, 46, 95} THEN <<c>>
    ELSE IF isspace(c) THEN <<Plus>>
    ELSE <<Percent, Hexit(c \div 16), Hexit(c % 16)>>

Encoded(c) ==
    IF isalnum(c) THEN <<c>>
    ELSE IF isspace(c) THEN <<Plus>>
    ELSE <<Percent, Hexit(c \div 16), Hexit(c % 16)>>

UrlEncode(str) ==
    LET from[i \in 1..(Len(str) + 1)] ==
            IF i > Len(str) THEN <<>> ELSE Encoded(str[i]) \o from[i + 1]
    IN  from[1]

-----------------------------------------------------------------------------

MinusOne == IF CharIsSigned THEN -1 ELSE 255

CharToInt(c) ==
    IF c \in Digits THEN c - 48
    ELSE IF c \in 97..102 THEN c - 87
    ELSE IF c \in 65..70 THEN c - 55
    ELSE MinusOne

\* Two hexadecimal digits as a byte.  What is no digit makes a null character
\* where a char is signed, and some byte where it is not.
StrToBin(high, low) ==
    LET h == CharToInt(high)
        w == CharToInt(low)
    IN  IF h < 0 \/ w < 0 THEN 0
        ELSE IF w = 255 THEN 255
        ELSE ((16 * h) % 256) + w

\* Mutant: a sequence at the end of the text is not seen.
IsEscapeEarly(str, i) == str[i] = Percent /\ i + 2 < Len(str)

IsEscape(str, i) == str[i] = Percent /\ i + 2 <= Len(str)

UrlDecode(str) ==
    LET from[i \in 1..(Len(str) + 1)] ==
            IF i > Len(str) THEN <<>>
            ELSE IF IsEscape(str, i)
                 THEN <<StrToBin(str[i + 1], str[i + 2])>> \o from[i + 3]
            ELSE <<IF str[i] = Plus THEN 32 ELSE str[i]>> \o from[i + 1]
    IN  from[1]

=============================================================================
