------------------------------ MODULE Decoders ------------------------------
(***************************************************************************)
(* How the portal reads what the program writes in a URL: the encoding of  *)
(* web forms.  This is the reference that the encoder is checked against;  *)
(* nothing here models source code.                                        *)
(***************************************************************************)
EXTENDS Base64Reader, Encoder, FiniteSetsExt

\* No digit, or the value of the digit: {} or a set of one number.
HexValue(char) == {i \in 0..15 : char = Hexit(i) \/ (i > 9 /\ char = 87 + i)}

\* Two digits follow every percent sign; no digit is one itself.
WellFormed(code) ==
    \A i \in DOMAIN code : code[i] = Percent =>
        /\ i + 2 <= Len(code)
        /\ HexValue(code[i + 1]) # {} /\ HexValue(code[i + 2]) # {}

\* What a character stands for that is no percent sign.
Plain(char) == IF char = Plus THEN 32 ELSE char

\* Of a text that is well formed.
FormDecoded(code) ==
    LET from[i \in 1..(Len(code) + 1)] ==
            IF i > Len(code) THEN <<>>
            ELSE IF code[i] = Percent
                 THEN <<16 * Min(HexValue(code[i + 1])) + Min(HexValue(code[i + 2]))>>
                          \o from[i + 3]
            ELSE <<Plain(code[i])>> \o from[i + 1]
    IN  from[1]

\* What is left of a text if white space of every kind comes back as a space.
Spaced(text) == [i \in DOMAIN text |-> IF isspace(text[i]) THEN 32 ELSE text[i]]

=============================================================================
