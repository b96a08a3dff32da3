---------------------------- MODULE Base64Reader ----------------------------
(***************************************************************************)
(* How the portal reads base64 over the alphabet of SrunBase64: four       *)
(* characters are three bytes, and padding counts for nothing.  This is    *)
(* the reference for get_base64_string; nothing here models source code.   *)
(***************************************************************************)
EXTENDS SrunBase64, FiniteSets

Index(char) == IF char = pad_char THEN 0
               ELSE (CHOOSE i \in 1..64 : alpha[i] = char) - 1

Padding(code) == Cardinality({i \in DOMAIN code : code[i] = pad_char})

\* The number that the four characters after the first so many stand for.
Group(code, first) ==
    262144 * Index(code[first + 1]) + 4096 * Index(code[first + 2])
        + 64 * Index(code[first + 3]) + Index(code[first + 4])

Base64Decoded(code) ==
    [i \in 1..(3 * (Len(code) \div 4) - Padding(code)) |->
        (Group(code, 4 * ((i - 1) \div 3)) \div <<65536, 256, 1>>[1 + ((i - 1) % 3)])
            % 256]

=============================================================================
