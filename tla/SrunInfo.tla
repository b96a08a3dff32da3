------------------------------ MODULE SrunInfo ------------------------------
(***************************************************************************)
(* The parameter info of a login or logout request, from the JSON text to  *)
(* the URL (build_auth_info and auth in Authenticator.cpp), against what   *)
(* the portal makes of it with the same key.  The portal computes with     *)
(* unsigned words of 32 bits; its side is the reference, not source code.  *)
(***************************************************************************)
EXTENDS SrunXEncode, Decoders

Prefix == <<123, 83, 82, 66, 88, 49, 125>>     \* {SRBX1}

\* What auth and logout put into the URL.
Info == UrlEncode(Prefix \o get_base64_string(result))

-----------------------------------------------------------------------------
(* The portal.                                                             *)

Sum32(a, b) == Add(a, b) \cap Low32
Minus32(a, b) == Sum32(a, Sum32(Low32 \ b, {0}))

\* The words of a text whose length is a multiple of four.
Words32(code) ==
    [j \in 0..((Len(code) \div 4) - 1) |->
        {i \in Low32 : i % 8 \in Bits(code[(4 * j) + 1 + (i \div 8)])}]

\* a added up so many times.
Times(m, a) ==
    LET sum[r \in 0..m] == IF r = 0 THEN {} ELSE Sum32(sum[r - 1], a)
    IN  sum[m]

\* What was added to the word at pos in a round, between its neighbours.
Added32(words, pos, round) ==
    LET last == Size(words) - 1
        left == words[IF pos = 0 THEN last ELSE pos - 1]
        right == words[IF pos = last THEN 0 ELSE pos + 1]
        total == Times(round, Delta)
        index == SymDiff(Bits(pos), {i - 2 : i \in total \cap {2, 3}}) \cap {0, 1}
    IN  Sum32(Sum32(SymDiff(Shr(left, 5), Shl(right, 2) \cap Low32),
                    SymDiff(SymDiff(Shr(right, 3), Shl(left, 4) \cap Low32),
                            SymDiff(total, right))),
              SymDiff(k[Value(index)] \cap Low32, left))

\* The words before a step, which mixed one word: a step for every word in
\* every round, counted from one.
Before(words, step) ==
    LET pos == (step - 1) % Size(words)
        round == 1 + ((step - 1) \div Size(words))
    IN  [words EXCEPT ![pos] = Minus32(words[pos], Added32(words, pos, round))]

\* The words before the first so many steps.
Undone(words, steps) ==
    LET after[t \in 0..steps] ==
            IF t = steps THEN words ELSE Before(after[t + 1], t + 1)
    IN  after[0]

\* The text in a parameter info: of its words the last one is the length, which
\* has to fit their number.
Opened(info) ==
    LET form == FormDecoded(info)
        code == SubSeq(form, Len(Prefix) + 1, Len(form))
        mixed == Words32(Base64Decoded(code))
        words == Undone(mixed, Rounds(mixed) * Size(mixed))
        full == 4 * (Size(mixed) - 1)
        sizes == {m \in (full - 3)..full : Bits(m) = words[Size(mixed) - 1]}
        byte(i) == Value({m % 8 : m \in words[i \div 4] \cap
                              (8 * (i % 4))..(8 * (i % 4) + 7)})
    IN  [i \in 1..(IF sizes = {} THEN 0 ELSE Min(sizes)) |-> byte(i - 1)]

-----------------------------------------------------------------------------

\* A sign that reaches the first round from the second word or a later one.
SignCounts == sizeBits = 64 /\ \E i \in 8..Len(str) : i % 4 = 0 /\ str[i] > 127

\* The portal reads the name, password and address that were sent: every word
\* of the key, every round and every encoding is undone by its counterpart.
\* On a 64-bit build it fails exactly when the fourth byte of a word but the
\* first is not ASCII (SrunXEncode.cpp:13-16, 74-93, Authenticator.cpp:257).
PortalOpensInfo ==
    result # <<>> =>
        /\ SubSeq(FormDecoded(Info), 1, Len(Prefix)) = Prefix
        /\ (Opened(Info) = str) <=> ~SignCounts

=============================================================================
