----------------------------- MODULE MCSrunInfo -----------------------------
EXTENDS SrunInfo

\* Letters, with a byte beyond ASCII at one place.
Text(len, at, byte) == [i \in 1..len |-> IF i = at THEN byte ELSE 96 + (i % 26)]

\* Every place of the second and later words, and the fourth of the first;
\* lengths around the ends of words, where the rounds go from 32 to 16.
InfoTexts == {Text(len, 0, 0) : len \in {1, 3, 4, 5, 40}}
        \cup {Text(8, at, 200) : at \in {3, 4, 5, 7, 8}}
        \cup {Text(13, at, 128) : at \in {4, 8, 11, 12, 13}}

\* A key that fills two words in part, and one of more than four words.
InfoKeys == {[i \in 1..len |-> 48 + ((i * i) % 10)] : len \in {5, 20}}

=============================================================================
