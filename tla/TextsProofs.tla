---------------------------- MODULE TextsProofs ----------------------------
(***************************************************************************)
(* What becomes of a text of symbols in a URL, a request, a response and a *)
(* JSONP reply, for texts of any length over any symbols.  The definitions *)
(* of HttpText look for the first place of a pattern, so the proofs say    *)
(* which places there are and which of them is the first.                  *)
(***************************************************************************)
EXTENDS Texts, DecodersProofs

(***************************************************************************)
(* Places and the first of them.                                           *)
(***************************************************************************)

\* The symbols of a pattern stand at a place one by one.
Stands(s, p, i) ==
    /\ 1 <= i /\ i <= Len(s) - Len(p) + 1
    /\ \A k \in 1..Len(p) : s[i + k - 1] = p[k]

LEMMA PlaceIs ==
    ASSUME NEW S, NEW s \in Seq(S), NEW p \in Seq(S), NEW i \in Int
    PROVE  i \in Places(s, p) <=> Stands(s, p, i)
<1>1. Len(s) \in Nat /\ Len(p) \in Nat
  OBVIOUS
<1>2. ASSUME 1 <= i, i <= Len(s) - Len(p) + 1
      PROVE  SubSeq(s, i, i + Len(p) - 1) = p <=>
                 \A k \in 1..Len(p) : s[i + k - 1] = p[k]
  <2> DEFINE q == SubSeq(s, i, i + Len(p) - 1)
  <2>1. \A j \in i..(i + Len(p) - 1) : s[j] \in S
    BY <1>1, <1>2
  <2>2. /\ q \in Seq(S)
        /\ Len(q) = Len(p)
        /\ \A k \in 1..Len(p) : q[k] = s[i + k - 1]
    <3>1. i + Len(p) - 1 \in Int /\ (i + Len(p) - 1) - i + 1 = Len(p)
      BY <1>1
    <3>2. /\ q \in Seq(S)
          /\ Len(q) = IF i <= i + Len(p) - 1 THEN (i + Len(p) - 1) - i + 1 ELSE 0
          /\ \A k \in 1..((i + Len(p) - 1) - i + 1) : q[k] = s[i + k - 1]
      BY <2>1, <3>1, SubSeqProperties
    <3> QED BY <1>1, <3>1, <3>2
  <2>3. q = p <=> \A k \in 1..Len(p) : q[k] = p[k]
    BY <2>2, SeqEqual
  <2> QED BY <2>2, <2>3
<1> QED BY <1>1, <1>2 DEF Places, Stands

\* And if it is bounded, a greatest one.
LEMMA MaxExists ==
    ASSUME NEW T \in SUBSET Nat, NEW n \in Nat, T # {}, \A j \in T : j <= n
    PROVE  Max(T) \in T /\ \A j \in T : j <= Max(T)
<1> DEFINE U == {m \in Nat : n - m \in T}
<1>1. U \in SUBSET Nat /\ U # {}
  <2>1. PICK j \in T : TRUE
    OBVIOUS
  <2>2. n - j \in Nat /\ n - (n - j) = j
    BY <2>1
  <2> QED BY <2>1, <2>2
<1>2. PICK m \in U : \A k \in U : m <= k
  BY <1>1, MinExists
<1>3. \A j \in T : j <= n - m
  <2> SUFFICES ASSUME NEW j \in T PROVE j <= n - m
    OBVIOUS
  <2>1. n - j \in Nat /\ n - (n - j) = j
    OBVIOUS
  <2> QED BY <2>1, <1>2
<1>4. n - m \in T
  BY <1>2
<1>5. \E x \in T : \A y \in T : x >= y
  BY <1>3, <1>4
<1> QED BY <1>5 DEF Max

\* Find is the first place ...
LEMMA FindIs ==
    ASSUME NEW s, NEW p, NEW i \in Places(s, p), Places(s, p) \in SUBSET Nat,
           \A j \in Places(s, p) : i <= j
    PROVE  Find(s, p) = i
BY MinIs DEF Find

\* ... and there is a first one if there is any.
LEMMA FindExists ==
    ASSUME NEW s, NEW p, Places(s, p) # {}, Places(s, p) \in SUBSET Nat
    PROVE  /\ Find(s, p) \in Places(s, p)
           /\ \A j \in Places(s, p) : Find(s, p) <= j
BY MinExists DEF Find

-----------------------------------------------------------------------------
(***************************************************************************)
(* Cutting a text.                                                         *)
(***************************************************************************)

\* What follows s in s \o t is t, and what comes before t is s.
LEMMA CutAt ==
    ASSUME NEW S, NEW s \in Seq(S), NEW t \in Seq(S)
    PROVE  /\ s \o t \in Seq(S)
           /\ Len(s \o t) = Len(s) + Len(t)
           /\ \A i \in 1..Len(s) : (s \o t)[i] = s[i]
           /\ \A i \in 1..Len(t) : (s \o t)[Len(s) + i] = t[i]
           /\ From(s \o t, Len(s) + 1) = t
           /\ UpTo(s \o t, Len(s) + 1) = s
<1> DEFINE st == s \o t
<1>1. Len(s) \in Nat /\ Len(t) \in Nat
  OBVIOUS
<1>2. /\ st \in Seq(S)
      /\ Len(st) = Len(s) + Len(t)
      /\ \A i \in 1..(Len(s) + Len(t)) :
             st[i] = IF i <= Len(s) THEN s[i] ELSE t[i - Len(s)]
  BY ConcatProperties
<1>3. \A i \in 1..Len(s) : st[i] = s[i]
  BY <1>1, <1>2
<1>4. ASSUME NEW i \in 1..Len(t) PROVE st[Len(s) + i] = t[i]
  <2>1. Len(s) + i \in 1..(Len(s) + Len(t)) /\ ~(Len(s) + i <= Len(s))
        /\ Len(s) + i - Len(s) = i
    BY <1>1
  <2> QED BY <1>2, <2>1
<1> HIDE DEF st
<1>5. From(st, Len(s) + 1) = t
  <2> DEFINE f == SubSeq(st, Len(s) + 1, Len(st))
  <2>1. \A i \in (Len(s) + 1)..Len(st) : st[i] \in S
    BY <1>1, <1>2
  <2>2. /\ f \in Seq(S)
        /\ Len(f) = IF Len(s) + 1 <= Len(st) THEN Len(st) - (Len(s) + 1) + 1
                                             ELSE 0
        /\ \A i \in 1..(Len(st) - (Len(s) + 1) + 1) : f[i] = st[Len(s) + 1 + i - 1]
    <3>1. Len(s) + 1 \in Int /\ Len(st) \in Int
      BY <1>1, <1>2
    <3> QED BY <2>1, <3>1, SubSeqProperties
  <2>3. Len(f) = Len(t)
    BY <1>1, <1>2, <2>2
  <2>4. ASSUME NEW i \in 1..Len(t) PROVE f[i] = t[i]
    <3>1. i \in 1..(Len(st) - (Len(s) + 1) + 1) /\ Len(s) + 1 + i - 1 = Len(s) + i
      BY <1>1, <1>2
    <3> QED BY <1>4, <2>2, <3>1
  <2>5. f = t
    BY <2>2, <2>3, <2>4, SeqEqual
  <2> QED BY <2>5 DEF From
<1>6. UpTo(st, Len(s) + 1) = s
  <2> DEFINE f == SubSeq(st, 1, Len(s) + 1 - 1)
  <2>1. \A i \in 1..(Len(s) + 1 - 1) : st[i] \in S
    BY <1>1, <1>2
  <2>2. /\ f \in Seq(S)
        /\ Len(f) = IF 1 <= Len(s) + 1 - 1 THEN (Len(s) + 1 - 1) - 1 + 1 ELSE 0
        /\ \A i \in 1..((Len(s) + 1 - 1) - 1 + 1) : f[i] = st[1 + i - 1]
    <3>1. 1 \in Int /\ Len(s) + 1 - 1 \in Int
      BY <1>1
    <3> QED BY <2>1, <3>1, SubSeqProperties
  <2>3. Len(f) = Len(s)
    BY <1>1, <2>2
  <2>4. ASSUME NEW i \in 1..Len(s) PROVE f[i] = s[i]
    <3>1. i \in 1..((Len(s) + 1 - 1) - 1 + 1) /\ 1 + i - 1 = i
      BY <1>1
    <3> QED BY <1>3, <2>2, <3>1
  <2>5. f = s
    BY <2>2, <2>3, <2>4, SeqEqual
  <2> QED BY <2>5 DEF UpTo
<1> QED BY <1>2, <1>3, <1>4, <1>5, <1>6 DEF st

LEMMA LenOfFrom ==
    ASSUME NEW S, NEW s \in Seq(S), NEW i \in 1..(Len(s) + 1)
    PROVE  From(s, i) \in Seq(S) /\ Len(From(s, i)) = Len(s) - i + 1
<1>1. /\ Len(s) \in Nat /\ i \in Int
      /\ \A k \in i..Len(s) : s[k] \in S
  OBVIOUS
<1>2. /\ From(s, i) \in Seq(S)
      /\ Len(From(s, i)) = IF i <= Len(s) THEN Len(s) - i + 1 ELSE 0
  BY <1>1, SubSeqProperties DEF From
<1> QED BY <1>1, <1>2

\* The part of a text that lies between two others.
LEMMA Middle ==
    ASSUME NEW S, NEW s \in Seq(S), NEW t \in Seq(S), NEW u \in Seq(S)
    PROVE  SubSeq(s \o t \o u, Len(s) + 1, Len(s) + Len(t)) = t
<1> DEFINE st == s \o t
           w == st \o u
           f == SubSeq(w, Len(s) + 1, Len(s) + Len(t))
<1>1. Len(s) \in Nat /\ Len(t) \in Nat /\ Len(u) \in Nat
  OBVIOUS
<1>2. st \in Seq(S)
  OBVIOUS
<1>8. Len(st) = Len(s) + Len(t)
  OBVIOUS
<1>7. \A i \in 1..Len(t) : st[Len(s) + i] = t[i]
  OBVIOUS
<1> HIDE DEF st
<1>3. /\ w \in Seq(S)
      /\ Len(w) = Len(st) + Len(u)
      /\ \A i \in 1..Len(st) : w[i] = st[i]
  BY <1>2
<1> HIDE DEF w
<1>4. /\ f \in Seq(S)
      /\ Len(f) = Len(t)
      /\ \A i \in 1..Len(t) : f[i] = w[Len(s) + i]
  <2>1. \A i \in (Len(s) + 1)..(Len(s) + Len(t)) : w[i] \in S
    BY <1>1, <1>2, <1>8, <1>3
  <2>2. /\ f \in Seq(S)
        /\ Len(f) = IF Len(s) + 1 <= Len(s) + Len(t)
                    THEN (Len(s) + Len(t)) - (Len(s) + 1) + 1 ELSE 0
        /\ \A i \in 1..((Len(s) + Len(t)) - (Len(s) + 1) + 1) :
               f[i] = w[Len(s) + 1 + i - 1]
    <3>1. Len(s) + 1 \in Int /\ Len(s) + Len(t) \in Int
      BY <1>1
    <3> QED BY <2>1, <3>1, SubSeqProperties
  <2>3. ASSUME NEW i \in 1..Len(t) PROVE f[i] = w[Len(s) + i]
    <3>1. /\ i \in 1..((Len(s) + Len(t)) - (Len(s) + 1) + 1)
          /\ Len(s) + 1 + i - 1 = Len(s) + i
      BY <1>1
    <3> QED BY <2>2, <3>1
  <2> QED BY <1>1, <2>2, <2>3
<1>5. ASSUME NEW i \in 1..Len(t) PROVE f[i] = t[i]
  <2>1. Len(s) + i \in 1..Len(st)
    BY <1>1, <1>2, <1>8
  <2> QED BY <1>3, <1>4, <1>7, <2>1
<1> HIDE DEF f
<1>6. f = t
  BY <1>4, <1>5, SeqEqual
<1> QED BY <1>6 DEF f, w, st

\* The places in a text are those in what it begins with, as far as that goes.
LEMMA PlacesInPrefix ==
    ASSUME NEW S, NEW h \in Seq(S), NEW t \in Seq(S), NEW p \in Seq(S), NEW j \in Int,
           j <= Len(h) - Len(p) + 1
    PROVE  j \in Places(h \o t, p) <=> j \in Places(h, p)
<1> DEFINE w == h \o t
<1>1. /\ w \in Seq(S) /\ Len(w) = Len(h) + Len(t)
      /\ \A i \in 1..Len(h) : w[i] = h[i]
  OBVIOUS
<1>2. Len(h) \in Nat /\ Len(t) \in Nat /\ Len(p) \in Nat
  OBVIOUS
<1> HIDE DEF w
<1>3. j \in Places(w, p) <=> Stands(w, p, j)
  BY <1>1, PlaceIs
<1>4. j \in Places(h, p) <=> Stands(h, p, j)
  BY PlaceIs
<1>5. 1 <= j => \A k \in 1..Len(p) : w[j + k - 1] = h[j + k - 1]
  <2> SUFFICES ASSUME 1 <= j, NEW k \in 1..Len(p) PROVE w[j + k - 1] = h[j + k - 1]
    OBVIOUS
  <2>1. j + k - 1 \in 1..Len(h)
    BY <1>2
  <2> QED BY <1>1, <2>1
<1>6. j <= Len(w) - Len(p) + 1
  BY <1>1, <1>2
<1>7. j \in Places(w, p) <=> j \in Places(h, p)
  BY <1>3, <1>4, <1>5, <1>6 DEF Stands
<1> QED BY <1>7 DEF w

\* What is found in the beginning of a text is found in the text.
LEMMA FindInPrefix ==
    ASSUME NEW S, NEW h \in Seq(S), NEW t \in Seq(S), NEW p \in Seq(S),
           Places(h, p) # {}
    PROVE  Find(h \o t, p) = Find(h, p)
<1> DEFINE w == h \o t
           i == Find(h, p)
<1>1. /\ w \in Seq(S)
      /\ Places(w, p) \in SUBSET Nat /\ Places(h, p) \in SUBSET Nat
  BY DEF Places
<1>2. i \in Places(h, p) /\ \A j \in Places(h, p) : i <= j
  BY <1>1, FindExists
<1>3. i \in Int /\ i <= Len(h) - Len(p) + 1
  BY <1>2 DEF Places
<1> HIDE DEF i
<1>4. \A j \in Int : j <= Len(h) - Len(p) + 1 =>
          (j \in Places(w, p) <=> j \in Places(h, p))
  BY PlacesInPrefix
<1> HIDE DEF w
<1>5. i \in Places(w, p)
  BY <1>2, <1>3, <1>4
<1>6. \A j \in Places(w, p) : i <= j
  <2> SUFFICES ASSUME NEW j \in Places(w, p), j < i PROVE FALSE
    BY <1>1, <1>3
  <2>1. j \in Int /\ j <= Len(h) - Len(p) + 1
    <3>1. j \in Int /\ Len(h) \in Int /\ Len(p) \in Int
      BY <1>1
    <3> QED BY <1>3, <3>1
  <2>2. j \in Places(h, p)
    BY <1>4, <2>1
  <2> QED BY <1>2, <1>3, <2>1, <2>2
<1>7. Find(w, p) = i
  BY <1>1, <1>5, <1>6, FindIs
<1> QED BY <1>7 DEF w, i

\* If a text begins with something that has not even the first symbol of the
\* pattern, then the places are those in what follows.
LEMMA PlacesPastPrefix ==
    ASSUME NEW S, NEW h \in Seq(S), NEW t \in Seq(S), NEW p \in Seq(S), NEW j \in Int,
           Len(p) > 0, \A i \in 1..Len(h) : h[i] # p[1]
    PROVE  j \in Places(h \o t, p) <=> j - Len(h) \in Places(t, p)
<1> DEFINE w == h \o t
           n == Len(h)
<1>1. /\ w \in Seq(S) /\ Len(w) = Len(h) + Len(t)
      /\ \A i \in 1..Len(h) : w[i] = h[i]
      /\ \A i \in 1..Len(t) : w[Len(h) + i] = t[i]
  OBVIOUS
<1>2. n \in Nat /\ Len(t) \in Nat /\ Len(p) \in Nat
  OBVIOUS
<1> HIDE DEF w
<1>3. j \in Places(w, p) <=> Stands(w, p, j)
  BY <1>1, PlaceIs
<1>4. j - n \in Places(t, p) <=> Stands(t, p, j - n)
  <2>1. j - n \in Int
    BY <1>2
  <2> HIDE DEF n
  <2> QED BY <2>1, PlaceIs
<1>5. ASSUME j <= n PROVE j \notin Places(w, p) /\ j - n \notin Places(t, p)
  <2>1. ~(1 <= j - n)
    BY <1>2, <1>5
  <2>2. 1 <= j => w[j + 1 - 1] # p[1]
    <3> SUFFICES ASSUME 1 <= j PROVE w[j + 1 - 1] # p[1]
      OBVIOUS
    <3>1. j \in 1..Len(h) /\ j + 1 - 1 = j
      BY <1>2, <1>5
    <3>2. w[j] = h[j] /\ h[j] # p[1]
      BY <1>1, <3>1
    <3> QED BY <3>1, <3>2
  <2>3. 1 \in 1..Len(p)
    BY <1>2
  <2>4. ~Stands(t, p, j - n)
    BY <2>1 DEF Stands
  <2>5. ~Stands(w, p, j)
    BY <2>2, <2>3 DEF Stands
  <2> QED BY <1>3, <1>4, <2>4, <2>5
<1>6. ASSUME j > n PROVE j \in Places(w, p) <=> j - n \in Places(t, p)
  <2>1. 1 <= j /\ 1 <= j - n
    BY <1>2, <1>6
  <2>2. j <= Len(w) - Len(p) + 1 <=> j - n <= Len(t) - Len(p) + 1
    BY <1>1, <1>2
  <2>3. j <= Len(w) - Len(p) + 1 =>
            \A k \in 1..Len(p) : w[j + k - 1] = t[j - n + k - 1]
    <3> SUFFICES ASSUME j <= Len(w) - Len(p) + 1, NEW k \in 1..Len(p)
                 PROVE  w[j + k - 1] = t[j - n + k - 1]
      OBVIOUS
    <3>1. j - n + k - 1 \in 1..Len(t) /\ Len(h) + (j - n + k - 1) = j + k - 1
      BY <1>1, <1>2, <2>1
    <3> QED BY <1>1, <3>1
  <2>4. Stands(w, p, j) => Stands(t, p, j - n)
    BY <2>1, <2>2, <2>3 DEF Stands
  <2>5. Stands(t, p, j - n) => Stands(w, p, j)
    BY <2>1, <2>2, <2>3 DEF Stands
  <2> QED BY <1>3, <1>4, <2>4, <2>5
<1>7. j \in Places(w, p) <=> j - n \in Places(t, p)
  BY <1>2, <1>5, <1>6
<1> QED BY <1>7 DEF w

\* So nothing is found, or what is found there.
LEMMA FindPastPrefix ==
    ASSUME NEW S, NEW h \in Seq(S), NEW t \in Seq(S), NEW p \in Seq(S),
           Len(p) > 0, \A i \in 1..Len(h) : h[i] # p[1]
    PROVE  /\ Places(h \o t, p) = {} <=> Places(t, p) = {}
           /\ Find(h \o t, p) =
                  IF Places(t, p) = {} THEN npos ELSE Len(h) + Find(t, p)
<1> DEFINE w == h \o t
           n == Len(h)
           i == Find(t, p)
<1>1. w \in Seq(S) /\ Places(w, p) \in SUBSET Nat /\ Places(t, p) \in SUBSET Nat
  BY DEF Places
<1>2. n \in Nat
  OBVIOUS
<1>3. \A j \in Int : j \in Places(w, p) <=> j - n \in Places(t, p)
  BY PlacesPastPrefix
<1> HIDE DEF w, n
<1>4. \A j \in Places(t, p) : n + j \in Places(w, p)
  <2> SUFFICES ASSUME NEW j \in Places(t, p) PROVE n + j \in Places(w, p)
    OBVIOUS
  <2>1. n + j \in Int /\ (n + j) - n = j
    BY <1>1, <1>2
  <2> QED BY <1>3, <2>1
<1>5. Places(w, p) = {} <=> Places(t, p) = {}
  BY <1>1, <1>3, <1>4
<1>6. ASSUME Places(t, p) # {} PROVE Find(w, p) = n + i
  <2>1. i \in Places(t, p) /\ \A j \in Places(t, p) : i <= j
    BY <1>1, <1>6, FindExists
  <2> HIDE DEF i
  <2>2. n + i \in Places(w, p)
    BY <1>4, <2>1
  <2>3. ASSUME NEW j \in Places(w, p) PROVE n + i <= j
    <3>1. j - n \in Places(t, p)
      BY <1>1, <1>3
    <3>2. i \in Int /\ j \in Int /\ i <= j - n
      BY <1>1, <2>1, <3>1
    <3> QED BY <1>2, <3>2
  <2> QED BY <1>1, <2>2, <2>3, FindIs
<1>7. Places(t, p) = {} => Find(w, p) = npos
  BY <1>5 DEF Find
<1> QED BY <1>5, <1>6, <1>7 DEF w, n

-----------------------------------------------------------------------------
(***************************************************************************)
(* The argument of a JSONP reply.                                          *)
(***************************************************************************)

\* All the symbols that occur in a text: those that somebody else chooses
\* from, and those the program or a server puts around them.
Chars == Symbols \cup
    {"callback", "(", ")", ";", "CR", "LF", "SP", ":", "/", "host", "https",
     "http", "443", "80", "8080", "GET", "HTTP/1.1", "Host", "Connection",
     "close", "User-Agent", "x", "200 OK", "Server"}

LEMMA CharsHave ==
    /\ "callback" \in Chars /\ "(" \in Chars /\ ")" \in Chars /\ ";" \in Chars
    /\ "CR" \in Chars /\ "LF" \in Chars /\ "SP" \in Chars /\ ":" \in Chars
    /\ "/" \in Chars /\ "host" \in Chars /\ "https" \in Chars /\ "http" \in Chars
    /\ "443" \in Chars /\ "80" \in Chars /\ "8080" \in Chars /\ "GET" \in Chars
    /\ "HTTP/1.1" \in Chars /\ "Host" \in Chars /\ "Connection" \in Chars
    /\ "close" \in Chars /\ "User-Agent" \in Chars /\ "x" \in Chars
    /\ "200 OK" \in Chars /\ "Server" \in Chars /\ Symbols \subseteq Chars
BY DEF Chars

\* A sequence written out has the symbols it is written with.
LEMMA One ==
    ASSUME NEW S, NEW a \in S
    PROVE  <<a>> \in Seq(S) /\ Len(<<a>>) = 1 /\ <<a>>[1] = a
OBVIOUS

LEMMA Two ==
    ASSUME NEW S, NEW a \in S, NEW b \in S
    PROVE  /\ <<a, b>> \in Seq(S) /\ Len(<<a, b>>) = 2
           /\ <<a, b>>[1] = a /\ <<a, b>>[2] = b
OBVIOUS

\* The places of a pattern of one symbol are those of the symbol.
LEMMA PlacesOfOne ==
    ASSUME NEW S, NEW s \in Seq(S), NEW a \in S, NEW i
    PROVE  i \in Places(s, <<a>>) <=> i \in 1..Len(s) /\ s[i] = a
<1>1. <<a>> \in Seq(S) /\ Len(<<a>>) = 1 /\ <<a>>[1] = a
  OBVIOUS
<1>2. Len(s) \in Nat /\ Places(s, <<a>>) \in SUBSET Nat
  BY DEF Places
<1>3. CASE i \in Int
  <2>1. i \in Places(s, <<a>>) <=>
            /\ 1 <= i /\ i <= Len(s) - Len(<<a>>) + 1
            /\ \A k \in 1..Len(<<a>>) : s[i + k - 1] = <<a>>[k]
    <3> DEFINE p == <<a>>
    <3>1. p \in Seq(S)
      BY <1>1
    <3> HIDE DEF p
    <3>2. i \in Places(s, p) <=> Stands(s, p, i)
      BY <1>3, <3>1, PlaceIs
    <3> QED BY <3>2 DEF p, Stands
  <2>2. \A k : k \in 1..Len(<<a>>) <=> k = 1
    BY <1>1
  <2>3. i + 1 - 1 = i /\ Len(s) - Len(<<a>>) + 1 = Len(s)
    BY <1>1, <1>2, <1>3
  <2> QED BY <1>1, <1>2, <1>3, <2>1, <2>2, <2>3
<1>4. CASE i \notin Int
  BY <1>2, <1>4
<1> QED BY <1>3, <1>4

\* Of a call, the parenthesis that Find finds is the one after the name.
LEMMA CallOpens ==
    ASSUME NEW t \in Seq(Chars)
    PROVE  Find(<<"callback", "(">> \o t, <<"(">>) = 2
<1> DEFINE name == <<"callback", "(">>
           call == name \o t
<1>1. name \in Seq(Chars)
  <2>1. "callback" \in Chars /\ "(" \in Chars
    BY CharsHave
  <2> QED BY <2>1
<1>8. Len(name) = 2 /\ name[1] = "callback" /\ name[2] = "("
  OBVIOUS
<1> HIDE DEF name
<1>2. /\ call \in Seq(Chars) /\ Len(call) = Len(name) + Len(t)
      /\ \A i \in 1..Len(name) : call[i] = name[i]
  BY <1>1
<1> HIDE DEF call
<1>3. \A i : i \in Places(call, <<"(">>) <=> i \in 1..Len(call) /\ call[i] = "("
  BY <1>2, CharsHave, PlacesOfOne
<1>4. Len(t) \in Nat /\ call[1] = "callback" /\ call[2] = "("
  BY <1>2, <1>8
<1>5. 2 \in Places(call, <<"(">>)
  BY <1>2, <1>3, <1>4, <1>8
<1>6. \A j \in Places(call, <<"(">>) : j \in Nat /\ 2 <= j
  BY <1>2, <1>3, <1>4, <1>8
<1>7. Find(call, <<"(">>) = 2
  BY <1>5, <1>6, FindIs
<1> QED BY <1>7 DEF call, name

LEMMA TextIsRead ==
    ASSUME NEW t \in Seq(Chars)
    PROVE  strip_jsonp(<<"callback", "(">> \o t \o <<")">>) = t
<1> DEFINE name == <<"callback", "(">>
           close == <<")">>
           call == name \o t \o close
<1>1. name \in Seq(Chars) /\ close \in Seq(Chars)
  <2>1. "callback" \in Chars /\ "(" \in Chars /\ ")" \in Chars
    BY CharsHave
  <2> QED BY <2>1
<1>2. Len(name) = 2 /\ Len(close) = 1 /\ close[1] = ")"
  OBVIOUS
<1>3. t \o close \in Seq(Chars) /\ call = name \o (t \o close)
  BY <1>1, ConcatAssociative, ConcatProperties
<1>4. Find(call, <<"(">>) = 2
  BY <1>3, CallOpens
<1> HIDE DEF name, close
<1>5. Len(call) = 2 + Len(t) + 1 /\ call[Len(call)] = ")"
  <2> DEFINE st == name \o t
  <2>1. st \in Seq(Chars)
    BY <1>1
  <2>2. Len(st) = 2 + Len(t) /\ Len(t) \in Nat
    <3>1. Len(st) = Len(name) + Len(t)
      BY <1>1
    <3> QED BY <1>2, <3>1
  <2> HIDE DEF st
  <2>3. /\ Len(st \o close) = Len(st) + Len(close)
        /\ \A i \in 1..Len(close) : (st \o close)[Len(st) + i] = close[i]
    BY <1>1, <2>1
  <2>4. 1 \in 1..Len(close)
    BY <1>2
  <2>5. Len(st \o close) = Len(st) + 1 /\ (st \o close)[Len(st) + 1] = ")"
    BY <1>2, <2>3, <2>4
  <2> QED BY <2>2, <2>5 DEF st
<1>6. SubSeq(call, Len(name) + 1, Len(name) + Len(t)) = t
  BY <1>1, Middle
<1> HIDE DEF call
<1>7. SubSeq(call, 2 + 1, Len(call) - 1) = t
  <2>1. Len(name) + 1 = 2 + 1 /\ Len(name) + Len(t) = Len(call) - 1
    <3>1. Len(t) \in Nat
      OBVIOUS
    <3> QED BY <1>2, <1>5, <3>1
  <2> QED BY <1>6, <2>1
<1>8. strip_jsonp(call) = t
  BY <1>4, <1>5, <1>7 DEF strip_jsonp, npos
<1> QED BY <1>8 DEF call, name, close

LEMMA TailIsKept ==
    ASSUME NEW s \in Seq(Chars), NEW tail \in Seq(Chars),
           Len(tail) > 0, tail[Len(tail)] # ")"
    PROVE  strip_jsonp(s \o tail) = s \o tail
<1> DEFINE w == s \o tail
<1>1. Len(w) = Len(s) + Len(tail) /\ w[Len(s) + Len(tail)] = tail[Len(tail)]
  <2>1. Len(w) = Len(s) + Len(tail) /\ \A i \in 1..Len(tail) : w[Len(s) + i] = tail[i]
    OBVIOUS
  <2>2. Len(tail) \in 1..Len(tail)
    OBVIOUS
  <2> QED BY <2>1, <2>2
<1> HIDE DEF w
<1>2. strip_jsonp(w) = w
  BY <1>1 DEF strip_jsonp
<1> QED BY <1>2 DEF w

\* Reachable texts are sequences over the alphabet of their kind.
IsText == kind \in {"bytes", "symbols"} /\ text \in Seq(Alphabet)

LEMMA TextInvariance == Spec => []IsText
<1>1. Init => IsText
  BY DEF Init, IsText
<1>2. IsText /\ [Grow]_<<kind, text>> => IsText'
  <2> SUFFICES ASSUME IsText, [Grow]_<<kind, text>> PROVE IsText'
    OBVIOUS
  <2>1. CASE Grow
    <3>1. kind' = kind /\ Alphabet' = Alphabet
      BY <2>1 DEF Grow, Alphabet
    <3>2. PICK c \in Alphabet : text' = Append(text, c)
      BY <2>1 DEF Grow
    <3>3. text' \in Seq(Alphabet)
      BY <3>2, AppendProperties DEF IsText
    <3> QED BY <3>1, <3>3 DEF IsText
  <2>2. CASE UNCHANGED <<kind, text>>
    BY <2>2 DEF IsText, Alphabet
  <2> QED BY <2>1, <2>2
<1> QED BY <1>1, <1>2, PTL DEF Spec

LEMMA SymbolsAreChars ==
    ASSUME IsText, kind = "symbols"
    PROVE  text \in Seq(Chars)
<1>1. text \in Seq(Symbols)
  BY DEF IsText, Alphabet
<1> QED BY <1>1, CharsHave, SeqMonotonic

\* The argument of a call comes out whole, whatever parentheses it contains;
\* the first parenthesis of the reply is the call's and its last symbol closes
\* it.  A line break after the call hides it from strip_jsonp
\* (Authenticator.cpp:22-28).
THEOREM ArgumentsComeOut == Spec => []ArgumentIsTakenOut
<1>1. IsText => ArgumentIsTakenOut
  <2> SUFFICES ASSUME IsText, kind = "symbols"
               PROVE  LET call == <<"callback", "(">> \o text \o <<")">>
                      IN  /\ strip_jsonp(call) = text
                          /\ \A tail \in {CRLF, <<";">>} :
                                 strip_jsonp(call \o tail) = call \o tail
                          /\ ~Has(<<"(">>) => strip_jsonp(text) = text
    BY DEF ArgumentIsTakenOut
  <2> DEFINE call == <<"callback", "(">> \o text \o <<")">>
  <2>1. text \in Seq(Chars)
    BY SymbolsAreChars
  <2>2. strip_jsonp(call) = text
    BY <2>1, TextIsRead
  <2>3. call \in Seq(Chars)
    <3>1. "callback" \in Chars /\ "(" \in Chars /\ ")" \in Chars
      BY CharsHave
    <3>2. <<"callback", "(">> \in Seq(Chars) /\ <<")">> \in Seq(Chars)
      BY <3>1
    <3> QED BY <2>1, <3>2, ConcatProperties
  <2> HIDE DEF call
  <2>4. strip_jsonp(call \o CRLF) = call \o CRLF
    <3>1. "CR" \in Chars /\ "LF" \in Chars
      BY CharsHave
    <3>2. CRLF \in Seq(Chars)
      BY <3>1 DEF CRLF
    <3>3. Len(CRLF) = 2 /\ CRLF[2] = "LF"
      BY DEF CRLF
    <3>4. Len(CRLF) > 0 /\ CRLF[Len(CRLF)] # ")"
      BY <3>3
    <3> QED BY <2>3, <3>2, <3>4, TailIsKept
  <2>5. strip_jsonp(call \o <<";">>) = call \o <<";">>
    <3> DEFINE tail == <<";">>
    <3>1. ";" \in Chars
      BY CharsHave
    <3>2. tail \in Seq(Chars)
      BY <3>1, One
    <3>3. Len(tail) > 0 /\ tail[Len(tail)] # ")"
      OBVIOUS
    <3> HIDE DEF tail
    <3>4. strip_jsonp(call \o tail) = call \o tail
      BY <2>3, <3>2, <3>3, TailIsKept
    <3> QED BY <3>4 DEF tail
  <2>6. ~Has(<<"(">>) => strip_jsonp(text) = text
    BY DEF Has, strip_jsonp, Find
  <2> QED BY <2>2, <2>4, <2>5, <2>6 DEF call
<1> QED BY <1>1, TextInvariance, PTL

-----------------------------------------------------------------------------
(***************************************************************************)
(* The body of a response.                                                 *)
(***************************************************************************)

LEMMA PlacesOfTwo ==
    ASSUME NEW S, NEW s \in Seq(S), NEW a \in S, NEW b \in S, NEW i
    PROVE  i \in Places(s, <<a, b>>) <=>
               i \in 1..(Len(s) - 1) /\ s[i] = a /\ s[i + 1] = b
<1> DEFINE p == <<a, b>>
<1>1. p \in Seq(S) /\ Places(s, p) \in SUBSET Nat
  BY DEF Places
<1>2. Len(p) = 2 /\ p[1] = a /\ p[2] = b /\ Len(s) \in Nat
  OBVIOUS
<1> HIDE DEF p
<1>3. ASSUME NEW j \in Int
      PROVE  j \in Places(s, p) <=> j \in 1..(Len(s) - 1) /\ s[j] = a /\ s[j + 1] = b
  <2>1. j \in Places(s, p) <=> Stands(s, p, j)
    BY <1>1, PlaceIs
  <2>2. (\A k \in 1..2 : s[j + k - 1] = p[k]) <=> s[j] = p[1] /\ s[j + 1] = p[2]
    <3>1. \A k : k \in 1..2 <=> k = 1 \/ k = 2
      OBVIOUS
    <3>2. j + 1 - 1 = j /\ j + 2 - 1 = j + 1
      OBVIOUS
    <3> QED BY <3>1, <3>2
  <2> QED BY <1>2, <2>1, <2>2 DEF Stands
<1>4. i \in Places(s, p) => i \in Int
  BY <1>1
<1>5. i \in Places(s, p) <=> i \in 1..(Len(s) - 1) /\ s[i] = a /\ s[i + 1] = b
  BY <1>3, <1>4
<1> QED BY <1>5 DEF p

LEMMA PlacesOfFour ==
    ASSUME NEW S, NEW s \in Seq(S), NEW a \in S, NEW b \in S, NEW i
    PROVE  i \in Places(s, <<a, b>> \o <<a, b>>) <=>
               /\ i \in 1..(Len(s) - 3)
               /\ s[i] = a /\ s[i + 1] = b /\ s[i + 2] = a /\ s[i + 3] = b
<1> DEFINE p == <<a, b>> \o <<a, b>>
<1>1. p \in Seq(S) /\ Places(s, p) \in SUBSET Nat
  BY DEF Places
<1>2. Len(p) = 4 /\ p[1] = a /\ p[2] = b /\ p[3] = a /\ p[4] = b /\ Len(s) \in Nat
  OBVIOUS
<1> HIDE DEF p
<1>3. ASSUME NEW j \in Int
      PROVE  j \in Places(s, p) <=>
                 /\ j \in 1..(Len(s) - 3)
                 /\ s[j] = a /\ s[j + 1] = b /\ s[j + 2] = a /\ s[j + 3] = b
  <2>1. j \in Places(s, p) <=> Stands(s, p, j)
    BY <1>1, PlaceIs
  <2>2. (\A k \in 1..4 : s[j + k - 1] = p[k]) <=>
            s[j] = p[1] /\ s[j + 1] = p[2] /\ s[j + 2] = p[3] /\ s[j + 3] = p[4]
    <3>1. \A k : k \in 1..4 <=> k = 1 \/ k = 2 \/ k = 3 \/ k = 4
      OBVIOUS
    <3>2. j + 1 - 1 = j /\ j + 2 - 1 = j + 1 /\ j + 3 - 1 = j + 2 /\ j + 4 - 1 = j + 3
      OBVIOUS
    <3> QED BY <3>1, <3>2
  <2> QED BY <1>2, <2>1, <2>2 DEF Stands
<1>4. i \in Places(s, p) => i \in Int
  BY <1>1
<1>5. i \in Places(s, p) <=>
          /\ i \in 1..(Len(s) - 3)
          /\ s[i] = a /\ s[i + 1] = b /\ s[i + 2] = a /\ s[i + 3] = b
  BY <1>3, <1>4
<1> QED BY <1>5 DEF p

\* The lines before the body, for any symbols.
Header(a, b, eol) == <<a>> \o eol \o <<b>> \o eol \o eol

\* A beginning of n symbols with the pattern first at place i.
Begins(S, h, p, n, i) ==
    /\ h \in Seq(S) /\ p \in Seq(S) /\ Len(h) = n
    /\ Places(h, p) # {} /\ Find(h, p) = i

\* With line ends of two symbols, the first empty line begins at the fifth.
LEMMA LongHeader ==
    ASSUME NEW S, NEW a \in S, NEW b \in S, NEW c \in S, NEW d \in S,
           a # c, b # c, d # c
    PROVE  Begins(S, Header(a, b, <<c, d>>), <<c, d>> \o <<c, d>>, 8, 5)
<1> DEFINE h == Header(a, b, <<c, d>>)
           p == <<c, d>> \o <<c, d>>
<1>1. h \in Seq(S) /\ p \in Seq(S) /\ Places(h, p) \in SUBSET Nat
  BY DEF Header, Places
<1>2. /\ Len(h) = 8
      /\ h[1] = a /\ h[2] = c /\ h[3] = d /\ h[4] = b
      /\ h[5] = c /\ h[6] = d /\ h[7] = c /\ h[8] = d
  BY DEF Header
<1> HIDE DEF h
<1>3. \A i : i \in Places(h, p) <=>
          /\ i \in 1..(Len(h) - 3)
          /\ h[i] = c /\ h[i + 1] = d /\ h[i + 2] = c /\ h[i + 3] = d
  BY <1>1, PlacesOfFour
<1> HIDE DEF p
<1>4. 5 \in Places(h, p)
  BY <1>2, <1>3
<1>5. \A j \in Places(h, p) : 5 <= j
  <2> SUFFICES ASSUME NEW j \in Places(h, p) PROVE 5 <= j
    OBVIOUS
  <2>1. j \in 1..5 /\ h[j] = c /\ h[j + 2] = c
    BY <1>2, <1>3
  <2> QED BY <1>2, <2>1
<1>6. Find(h, p) = 5
  BY <1>1, <1>4, <1>5, FindIs
<1> QED BY <1>1, <1>2, <1>4, <1>6 DEF h, p, Begins

LEMMA ShortSymbols ==
    ASSUME NEW S, NEW a \in S, NEW b \in S, NEW d \in S, NEW e, a # e, b # e, d # e
    PROVE  \A i \in 1..Len(Header(a, b, <<d>>)) : Header(a, b, <<d>>)[i] # e
<1> DEFINE h == Header(a, b, <<d>>)
<1>1. Len(h) = 5 /\ h[1] = a /\ h[2] = d /\ h[3] = b /\ h[4] = d /\ h[5] = d
  BY DEF Header
<1> HIDE DEF h
<1>2. \A i \in 1..Len(h) : h[i] # e
  BY <1>1
<1> QED BY <1>2 DEF h

\* With line ends of one symbol, it begins at the fourth.
LEMMA ShortHeader ==
    ASSUME NEW S, NEW a \in S, NEW b \in S, NEW d \in S, a # d, b # d
    PROVE  Begins(S, Header(a, b, <<d>>), <<d, d>>, 5, 4)
<1> DEFINE h == Header(a, b, <<d>>)
           p == <<d, d>>
<1>1. h \in Seq(S) /\ p \in Seq(S) /\ Places(h, p) \in SUBSET Nat
  BY DEF Header, Places
<1>2. Len(h) = 5 /\ h[1] = a /\ h[2] = d /\ h[3] = b /\ h[4] = d /\ h[5] = d
  BY DEF Header
<1> HIDE DEF h
<1>3. \A i : i \in Places(h, p) <=> i \in 1..(Len(h) - 1) /\ h[i] = d /\ h[i + 1] = d
  BY <1>1, PlacesOfTwo
<1> HIDE DEF p
<1>4. 4 \in Places(h, p)
  BY <1>2, <1>3
<1>5. \A j \in Places(h, p) : 4 <= j
  <2> SUFFICES ASSUME NEW j \in Places(h, p) PROVE 4 <= j
    OBVIOUS
  <2>1. j \in 1..4 /\ h[j] = d /\ h[j + 1] = d
    BY <1>2, <1>3
  <2> QED BY <1>2, <2>1
<1>6. Find(h, p) = 4
  BY <1>1, <1>4, <1>5, FindIs
<1> QED BY <1>1, <1>2, <1>4, <1>6 DEF h, p, Begins

LEMMA LongBody ==
    ASSUME NEW t \in Seq(Chars)
    PROVE  parseHttpResponse(Header("200 OK", "Server", CRLF) \o t) = t
<1> DEFINE h == Header("200 OK", "Server", CRLF)
           p == CRLF \o CRLF
           r == h \o t
<1>1. /\ h \in Seq(Chars) /\ Len(h) = 8 /\ p \in Seq(Chars)
      /\ Places(h, p) # {} /\ Find(h, p) = 5
  <2>1. /\ "200 OK" \in Chars /\ "Server" \in Chars /\ "CR" \in Chars /\ "LF" \in Chars
        /\ "200 OK" # "CR" /\ "Server" # "CR" /\ "LF" # "CR"
    BY CharsHave
  <2>2. Begins(Chars, h, p, 8, 5)
    BY <2>1, LongHeader, Zenon DEF CRLF
  <2> QED BY <2>2, Zenon DEF Begins
<1> HIDE DEF h, p
<1>2. Find(r, p) = 5
  BY <1>1, FindInPrefix, Zenon
<1>3. From(r, Len(h) + 1) = t
  BY <1>1, CutAt, Zenon
<1> HIDE DEF r
<1>4. From(r, 5 + 4) = t
  BY <1>1, <1>3
<1>5. parseHttpResponse(r) = t
  BY <1>2, <1>4 DEF parseHttpResponse, npos, p
<1> QED BY <1>5 DEF r, h

\* If lines end with a line feed alone, an empty line of the other kind is
\* looked for first, and there is one exactly if the body contains it.
LEMMA ShortBody ==
    ASSUME NEW t \in Seq(Chars)
    PROVE  parseHttpResponse(Header("200 OK", "Server", <<"LF">>) \o t) = t <=>
               Places(t, CRLF \o CRLF) = {}
<1> DEFINE h == Header("200 OK", "Server", <<"LF">>)
           short == <<"LF", "LF">>
           long == CRLF \o CRLF
           r == h \o t
<1>1. /\ h \in Seq(Chars) /\ Len(h) = 5 /\ short \in Seq(Chars)
      /\ Places(h, short) # {} /\ Find(h, short) = 4
  <2>1. /\ "200 OK" \in Chars /\ "Server" \in Chars /\ "LF" \in Chars
        /\ "200 OK" # "LF" /\ "Server" # "LF"
    BY CharsHave
  <2>2. Begins(Chars, h, short, 5, 4)
    BY <2>1, ShortHeader, Zenon
  <2> QED BY <2>2, Zenon DEF Begins
<1>2. long \in Seq(Chars) /\ Len(long) = 4 /\ long[1] = "CR"
  <2>1. "CR" \in Chars /\ "LF" \in Chars
    BY CharsHave
  <2> QED BY <2>1 DEF CRLF
<1>3. \A i \in 1..Len(h) : h[i] # long[1]
  <2>1. /\ "200 OK" \in Chars /\ "Server" \in Chars /\ "LF" \in Chars
        /\ "200 OK" # "CR" /\ "Server" # "CR" /\ "LF" # "CR"
    BY CharsHave
  <2> HIDE DEF long
  <2>2. \A i \in 1..Len(h) : h[i] # "CR"
    BY <2>1, ShortSymbols, Zenon
  <2> QED BY <1>2, <2>2, Zenon
<1> HIDE DEF h, short, long
<1>4. r \in Seq(Chars) /\ Len(r) = Len(h) + Len(t) /\ Len(t) \in Nat
  <2>1. h \in Seq(Chars)
    BY <1>1
  <2> QED BY <2>1
<1>5. Find(r, short) = 4
  BY <1>1, FindInPrefix, Zenon
<1>6. /\ Places(r, long) = {} <=> Places(t, long) = {}
      /\ Find(r, long) = IF Places(t, long) = {} THEN npos ELSE Len(h) + Find(t, long)
  <2>1. h \in Seq(Chars) /\ long \in Seq(Chars)
    BY <1>1, <1>2
  <2>2. Len(long) > 0
    BY <1>2
  <2> QED BY <1>3, <2>1, <2>2, FindPastPrefix
<1>7. From(r, Len(h) + 1) = t
  BY <1>1, CutAt, Zenon
<1> HIDE DEF r
<1>8. ASSUME Places(t, long) = {} PROVE parseHttpResponse(r) = t
  <2>1. From(r, 4 + 2) = t
    <3>1. Len(h) = 5
      BY <1>1
    <3>2. Len(h) + 1 = 4 + 2
      BY <3>1
    <3> QED BY <1>7, <3>2
  <2>2. Find(r, CRLF \o CRLF) = npos
    BY <1>6, <1>8 DEF long
  <2> QED BY <1>5, <2>1, <2>2 DEF parseHttpResponse, npos, short
<1>9. ASSUME Places(t, long) # {} PROVE parseHttpResponse(r) # t
  <2> DEFINE i == Find(t, long)
             f == From(r, 5 + i + 4)
  <2>1. i \in Places(t, long)
    <3>1. Places(t, long) \in SUBSET Nat
      BY DEF Places
    <3> QED BY <1>9, <3>1, FindExists
  <2>2. i \in Nat \ {0} /\ i <= Len(t) - 3
    BY <1>2, <2>1 DEF Places
  <2>3. Find(r, long) = 5 + i
    BY <1>1, <1>6, <1>9
  <2> HIDE DEF i
  <2>4. parseHttpResponse(r) = f
    BY <2>2, <2>3 DEF parseHttpResponse, npos, long
  <2>5. Len(f) # Len(t)
    <3>1. Len(r) = 5 + Len(t) /\ Len(t) \in Nat
      BY <1>1, <1>4
    <3>2. 5 + i + 4 \in 1..(Len(r) + 1)
      BY <2>2, <3>1
    <3>3. Len(f) = Len(r) - (5 + i + 4) + 1
      BY <1>4, <3>2, LenOfFrom
    <3> QED BY <2>2, <3>1, <3>3
  <2> QED BY <2>4, <2>5
<1>10. parseHttpResponse(r) = t <=> Places(t, long) = {}
  BY <1>8, <1>9
<1> QED BY <1>10 DEF r, h, long

\* However long the body is and whatever it contains, it comes back whole from
\* a server that ends its lines with CR LF; from one that does not, exactly if
\* CR LF CR LF is not in the body (HTTPSClient.cpp:99-110).
THEOREM BodiesComeBack == Spec => []BodyComesBack
<1>1. IsText => BodyComesBack
  <2> SUFFICES ASSUME IsText, kind = "symbols"
               PROVE  /\ parseHttpResponse(Response(CRLF)) = text
                      /\ parseHttpResponse(Response(<<"LF">>)) = text <=>
                             ~Has(CRLF \o CRLF)
    BY DEF BodyComesBack
  <2>1. text \in Seq(Chars)
    BY SymbolsAreChars
  <2>2. /\ Response(CRLF) = Header("200 OK", "Server", CRLF) \o text
        /\ Response(<<"LF">>) = Header("200 OK", "Server", <<"LF">>) \o text
    BY Zenon DEF Response, Header
  <2>3. parseHttpResponse(Response(CRLF)) = text
    BY <2>1, <2>2, LongBody
  <2>4. parseHttpResponse(Response(<<"LF">>)) = text <=> ~Has(CRLF \o CRLF)
    BY <2>1, <2>2, ShortBody, Zenon DEF Has
  <2> QED BY <2>3, <2>4
<1> QED BY <1>1, TextInvariance, PTL

-----------------------------------------------------------------------------
(***************************************************************************)
(* The parts of a URL.                                                     *)
(***************************************************************************)

Lacks(s, c) == \A i \in 1..Len(s) : s[i] # c

LEMMA OneSymbol ==
    ASSUME NEW S, NEW a \in S
    PROVE  <<a>> \in Seq(S) /\ Len(<<a>>) > 0 /\ <<a>>[1] = a
OBVIOUS

\* A symbol is not found where it is not, and found where it comes first.
LEMMA FindSymbol ==
    ASSUME NEW S, NEW s \in Seq(S), NEW c \in S, Lacks(s, c)
    PROVE  /\ Find(s, <<c>>) = npos
           /\ \A t \in Seq(S) : Find(s \o (<<c>> \o t), <<c>>) = Len(s) + 1
<1> DEFINE p == <<c>>
<1>1. p \in Seq(S) /\ Len(p) > 0 /\ p[1] = c
  BY OneSymbol
<1>2. \A i : i \in Places(s, p) <=> i \in 1..Len(s) /\ s[i] = c
  BY PlacesOfOne
<1>3. Find(s, p) = npos
  BY <1>2 DEF Find, Lacks
<1>4. ASSUME NEW t \in Seq(S) PROVE Find(s \o (p \o t), p) = Len(s) + 1
  <2> DEFINE u == p \o t
  <2>1. u \in Seq(S)
    BY <1>1
  <2>2. Find(p, p) = 1 /\ Places(p, p) # {}
    <3>1. \A i : i \in Places(p, p) <=> i \in 1..Len(p) /\ p[i] = c
      <4>1. p \in Seq(S)
        BY <1>1
      <4>2. \A q \in Seq(S) : \A i : i \in Places(q, p) <=> i \in 1..Len(q) /\ q[i] = c
        BY PlacesOfOne
      <4> HIDE DEF p
      <4> QED BY <4>1, <4>2
    <3>2. Len(p) = 1 /\ p[1] = c
      OBVIOUS
    <3> HIDE DEF p
    <3>3. 1 \in Places(p, p) /\ \A i \in Places(p, p) : 1 <= i /\ i \in Nat
      BY <3>1, <3>2
    <3> QED BY <3>3, FindIs
  <2>3. Find(u, p) = 1
    BY <1>1, <2>2, FindInPrefix, Zenon
  <2> HIDE DEF p
  <2>4. Places(u, p) # {}
    <3>1. npos # 1
      BY DEF npos
    <3> QED BY <2>3, <3>1 DEF Find
  <2>5. \A i \in 1..Len(s) : s[i] # p[1]
    BY <1>1 DEF Lacks
  <2> HIDE DEF u
  <2>6. Find(s \o u, p) = Len(s) + Find(u, p)
    BY <1>1, <2>1, <2>4, <2>5, FindPastPrefix
  <2> QED BY <2>3, <2>6 DEF u
<1> QED BY <1>3, <1>4

SchemeMark == <<":", "/", "/">>

LEMMA MarkIsFirst ==
    /\ SchemeMark \in Seq(Chars) /\ Len(SchemeMark) = 3 /\ SchemeMark[1] = ":"
    /\ Places(SchemeMark, SchemeMark) # {} /\ Find(SchemeMark, SchemeMark) = 1
<1>1. ":" \in Chars /\ "/" \in Chars
  BY CharsHave
<1>2. SchemeMark \in Seq(Chars)
  BY <1>1 DEF SchemeMark
<1>3. Len(SchemeMark) = 3 /\ SchemeMark[1] = ":"
  BY DEF SchemeMark
<1>4. 1 \in Places(SchemeMark, SchemeMark)
  <2>1. Stands(SchemeMark, SchemeMark, 1)
    <3>1. \A k \in 1..Len(SchemeMark) : 1 + k - 1 = k
      OBVIOUS
    <3>2. 1 <= Len(SchemeMark) - Len(SchemeMark) + 1
      BY <1>3
    <3> QED BY <3>1, <3>2 DEF Stands
  <2> QED BY <1>2, <2>1, PlaceIs
<1>5. \A i \in Places(SchemeMark, SchemeMark) : i \in Nat /\ 1 <= i
  BY DEF Places
<1> QED BY <1>2, <1>3, <1>4, <1>5, FindIs

\* A scheme without a colon ends at the mark, and the rest follows it.
LEMMA SchemeIsCut ==
    ASSUME NEW s \in Seq(Chars), NEW rest \in Seq(Chars), Lacks(s, ":")
    PROVE  LET url == s \o (SchemeMark \o rest)
           IN  /\ Find(url, SchemeMark) = Len(s) + 1
               /\ UpTo(url, Len(s) + 1) = s
               /\ From(url, Len(s) + 1 + 3) = rest
<1> DEFINE u == SchemeMark \o rest
           url == s \o u
<1>1. u \in Seq(Chars)
  BY MarkIsFirst
<1>2. Find(u, SchemeMark) = 1
  BY MarkIsFirst, FindInPrefix, Zenon
<1>3. Places(u, SchemeMark) # {}
  <2>1. npos # 1
    BY DEF npos
  <2> QED BY <1>2, <2>1 DEF Find
<1>4. UpTo(url, Len(s) + 1) = s
  BY <1>1, CutAt, Zenon
<1>5. Find(url, SchemeMark) = Len(s) + 1
  <2> HIDE DEF u
  <2>1. \A i \in 1..Len(s) : s[i] # SchemeMark[1]
    BY MarkIsFirst, Zenon DEF Lacks
  <2>2. SchemeMark \in Seq(Chars) /\ Len(SchemeMark) > 0
    BY MarkIsFirst
  <2>3. Find(url, SchemeMark) = Len(s) + Find(u, SchemeMark)
    BY <1>1, <1>3, <2>1, <2>2, FindPastPrefix
  <2> QED BY <1>2, <2>3
<1>6. From(url, Len(s) + 1 + 3) = rest
  <2> DEFINE sm == s \o SchemeMark
  <2>1. sm \in Seq(Chars) /\ Len(sm) = Len(s) + Len(SchemeMark) /\ url = sm \o rest
    <3>1. SchemeMark \in Seq(Chars)
      BY MarkIsFirst
    <3>2. sm \in Seq(Chars) /\ Len(sm) = Len(s) + Len(SchemeMark)
      BY <3>1
    <3>3. sm \o rest = url
      BY <3>1, ConcatAssociative
    <3> QED BY <3>2, <3>3
  <2>2. Len(sm) + 1 = Len(s) + 1 + 3
    <3>1. Len(s) \in Nat
      OBVIOUS
    <3> HIDE DEF sm
    <3> QED BY <2>1, <3>1, MarkIsFirst
  <2>3. From(sm \o rest, Len(sm) + 1) = rest
    BY <2>1, CutAt, Zenon
  <2> HIDE DEF sm, url
  <2> QED BY <2>1, <2>2, <2>3
<1> QED BY <1>4, <1>5, <1>6

\* Host and port, without a slash, end where the path begins.
LEMMA PathIsCut ==
    ASSUME NEW hp \in Seq(Chars), NEW t \in Seq(Chars), Lacks(hp, "/")
    PROVE  LET path == <<"/">> \o t
               rest == hp \o path
           IN  /\ Find(hp, <<"/">>) = npos
               /\ Find(rest, <<"/">>) = Len(hp) + 1
               /\ UpTo(rest, Len(hp) + 1) = hp
               /\ From(rest, Len(hp) + 1) = path
<1> DEFINE path == <<"/">> \o t
           rest == hp \o path
<1>1. "/" \in Chars
  BY CharsHave
<1>2. path \in Seq(Chars)
  BY <1>1
<1>3. Find(hp, <<"/">>) = npos
  BY <1>1, FindSymbol, Zenon
<1>4. Find(rest, <<"/">>) = Len(hp) + 1
  BY <1>1, FindSymbol, Zenon
<1> HIDE DEF path
<1>5. UpTo(rest, Len(hp) + 1) = hp /\ From(rest, Len(hp) + 1) = path
  BY <1>2, CutAt, Zenon
<1> QED BY <1>3, <1>4, <1>5 DEF path

\* A port follows the colon after the host.
LEMMA PortIsCut ==
    ASSUME NEW host \in Seq(Chars), NEW port \in Seq(Chars), Lacks(host, ":")
    PROVE  LET hp == host \o (<<":">> \o port)
           IN  /\ Find(host, <<":">>) = npos
               /\ Find(hp, <<":">>) = Len(host) + 1
               /\ UpTo(hp, Len(host) + 1) = host
               /\ From(hp, Len(host) + 1 + 1) = port
<1> DEFINE colon == <<":">>
           cp == colon \o port
           hp == host \o cp
           hc == host \o colon
<1>1. ":" \in Chars
  BY CharsHave
<1>2. colon \in Seq(Chars) /\ Len(colon) = 1
  BY <1>1, One
<1>3. Find(host, colon) = npos /\ Find(hp, colon) = Len(host) + 1
  BY <1>1, FindSymbol, Zenon
<1> HIDE DEF colon
<1>4. cp \in Seq(Chars) /\ hc \in Seq(Chars) /\ Len(hc) = Len(host) + Len(colon)
  <2>1. colon \in Seq(Chars)
    BY <1>2
  <2> QED BY <2>1
<1>5. hc \o port = hp
  BY <1>2, ConcatAssociative
<1>6. From(hc \o port, Len(hc) + 1) = port
  BY <1>4, CutAt, Zenon
<1>7. UpTo(hp, Len(host) + 1) = host
  BY <1>4, CutAt, Zenon
<1>8. Len(hc) + 1 = Len(host) + 1 + 1
  <2> HIDE DEF hc
  <2>1. Len(host) \in Nat
    OBVIOUS
  <2> QED BY <1>2, <1>4, <2>1
<1>9. From(hp, Len(host) + 1 + 1) = port
  BY <1>5, <1>6, <1>8, Zenon
<1> QED BY <1>3, <1>7, <1>9 DEF colon

\* The places parseUrl finds, and what it cuts out there.
PathPlace(rest, hp, path) ==
    \/ /\ Find(rest, <<"/">>) # npos
       /\ UpTo(rest, Find(rest, <<"/">>)) = hp
       /\ From(rest, Find(rest, <<"/">>)) = path
    \/ Find(rest, <<"/">>) = npos /\ hp = rest /\ path = <<"/">>

PortPlace(s, hp, host, port) ==
    \/ /\ Find(hp, <<":">>) # npos
       /\ UpTo(hp, Find(hp, <<":">>)) = host
       /\ From(hp, Find(hp, <<":">>) + 1) = port
    \/ Find(hp, <<":">>) = npos /\ host = hp /\ port = DefaultPort(s)

LEMMA ParseIs ==
    ASSUME NEW url, NEW s, NEW rest, NEW hp, NEW path, NEW host, NEW port,
           Find(url, SchemeMark) # npos,
           UpTo(url, Find(url, SchemeMark)) = s,
           From(url, Find(url, SchemeMark) + 3) = rest,
           PathPlace(rest, hp, path), PortPlace(s, hp, host, port)
    PROVE  parseUrl(url) = [scheme |-> s, host |-> host, port |-> port, path |-> path]
BY DEF parseUrl, SchemeMark, PathPlace, PortPlace

Associates(s, t, u) == (s \o t) \o u = s \o (t \o u)

LEMMA Association ==
    ASSUME NEW S, NEW s \in Seq(S), NEW t \in Seq(S), NEW u \in Seq(S)
    PROVE  Associates(s, t, u) /\ t \o u \in Seq(S)
<1>1. (s \o t) \o u = s \o (t \o u)
  BY ConcatAssociative
<1>2. t \o u \in Seq(S)
  OBVIOUS
<1> QED BY <1>1, <1>2 DEF Associates

Regroups(s, t, u, v) == (s \o (t \o u)) \o v = s \o (t \o (u \o v))

LEMMA Regrouping ==
    ASSUME NEW S, NEW s \in Seq(S), NEW t \in Seq(S), NEW u \in Seq(S), NEW v \in Seq(S)
    PROVE  Regroups(s, t, u, v)
<1>1. Associates(t, u, v) /\ t \o u \in Seq(S)
  BY Association, Zenon
<1>2. Associates(s, t \o u, v)
  BY <1>1, Association, Zenon
<1> QED BY <1>1, <1>2, Zenon DEF Associates, Regroups

LEMMA FourOfThree ==
    ASSUME NEW S, NEW a \in S, NEW b \in S, NEW c \in S, NEW d \in S
    PROVE  <<a, b, c, d>> = <<a, b, c>> \o <<d>>
<1> DEFINE x == <<a, b, c, d>>
           y == <<a, b, c>> \o <<d>>
<1>1. x \in Seq(S) /\ y \in Seq(S)
  OBVIOUS
<1>2. Len(x) = 4 /\ x[1] = a /\ x[2] = b /\ x[3] = c /\ x[4] = d
  OBVIOUS
<1>3. Len(y) = 4 /\ y[1] = a /\ y[2] = b /\ y[3] = c /\ y[4] = d
  OBVIOUS
<1> HIDE DEF x, y
<1>4. \A i \in 1..4 : x[i] = y[i]
  BY <1>2, <1>3
<1>5. x = y
  BY <1>1, <1>2, <1>3, <1>4, SeqEqual
<1> QED BY <1>5 DEF x, y

Host == <<"host">>

IsTakenApart(s, e, port, t) ==
    LET base == s \o <<":", "/", "/", "host">> \o e
        path == <<"/">> \o t
    IN  /\ parseUrl(base \o path) = [scheme |-> s, host |-> Host,
                                     port |-> port, path |-> path]
        /\ parseUrl(base).path = <<"/">>

\* A base URL, as it is and with a path, has the parts it was made of.
LEMMA UrlParts ==
    ASSUME NEW s \in Seq(Chars), NEW e \in Seq(Chars), NEW t \in Seq(Chars), NEW port,
           Lacks(s, ":"), Lacks(Host \o e, "/"), Lacks(Host, ":"),
           \/ e = <<>> /\ port = DefaultPort(s)
           \/ e = <<":">> \o port /\ port \in Seq(Chars)
    PROVE  IsTakenApart(s, e, port, t)
<1> DEFINE mh == <<":", "/", "/", "host">>
           hp == Host \o e
           path == <<"/">> \o t
           base == s \o mh \o e
<1>1. SchemeMark \in Seq(Chars) /\ Host \in Seq(Chars) /\ path \in Seq(Chars)
  <2>1. "/" \in Chars /\ "host" \in Chars
    BY CharsHave
  <2>2. Host \in Seq(Chars)
    BY <2>1, One DEF Host
  <2>3. path \in Seq(Chars)
    BY <2>1
  <2> QED BY <2>2, <2>3, MarkIsFirst
<1> HIDE DEF path
<1>2. hp \in Seq(Chars) /\ hp \o path \in Seq(Chars)
  BY <1>1
<1>3. mh = SchemeMark \o Host
  <2>1. ":" \in Chars /\ "/" \in Chars /\ "host" \in Chars
    BY CharsHave
  <2>2. mh = <<":", "/", "/">> \o <<"host">>
    BY <2>1, FourOfThree
  <2> QED BY <2>2, Zenon DEF SchemeMark, Host
<1> HIDE DEF mh
<1>4. base = s \o (SchemeMark \o hp)
  <2>1. Regroups(s, SchemeMark, Host, e)
    BY <1>1, Regrouping, Zenon
  <2> QED BY <1>3, <2>1, Zenon DEF Regroups
<1>5. base \o path = s \o (SchemeMark \o (hp \o path))
  <2> HIDE DEF hp, base
  <2>1. Regroups(s, SchemeMark, hp, path)
    BY <1>1, <1>2, Regrouping, Zenon
  <2> QED BY <1>4, <2>1, Zenon DEF Regroups
<1>6. Len(s) + 1 # npos
  <2>1. Len(s) \in Nat
    OBVIOUS
  <2> QED BY <2>1 DEF npos
<1>7. PortPlace(s, hp, Host, port)
  <2>1. CASE e = <<>> /\ port = DefaultPort(s)
    <3>1. hp = Host
      BY <1>1, <2>1, ConcatEmptySeq
    <3>2. Find(Host, <<":">>) = npos
      BY <1>1, CharsHave, PortIsCut, Zenon
    <3> QED BY <2>1, <3>1, <3>2 DEF PortPlace
  <2>2. CASE e = <<":">> \o port /\ port \in Seq(Chars)
    <3>1. /\ Find(hp, <<":">>) = Len(Host) + 1
          /\ UpTo(hp, Len(Host) + 1) = Host
          /\ From(hp, Len(Host) + 1 + 1) = port
      BY <1>1, <2>2, PortIsCut, Zenon
    <3>2. Len(Host) + 1 # npos
      <4>1. Len(Host) \in Nat
        BY <1>1
      <4> QED BY <4>1 DEF npos
    <3> QED BY <3>1, <3>2 DEF PortPlace
  <2> QED BY <2>1, <2>2
<1>8. parseUrl(base \o path) = [scheme |-> s, host |-> Host, port |-> port, path |-> path]
  <2> DEFINE rest == hp \o path
             url == s \o (SchemeMark \o rest)
  <2>1. /\ Find(url, SchemeMark) = Len(s) + 1
        /\ UpTo(url, Len(s) + 1) = s
        /\ From(url, Len(s) + 1 + 3) = rest
    BY <1>2, SchemeIsCut, Zenon
  <2>2. /\ Find(rest, <<"/">>) = Len(hp) + 1
        /\ UpTo(rest, Len(hp) + 1) = hp
        /\ From(rest, Len(hp) + 1) = path
    BY <1>2, PathIsCut, Zenon DEF path
  <2>3. Len(hp) + 1 # npos
    <3>1. Len(hp) \in Nat
      BY <1>2
    <3> QED BY <3>1 DEF npos
  <2> HIDE DEF rest, url, hp, base
  <2>4. parseUrl(url) = [scheme |-> s, host |-> Host, port |-> port, path |-> path]
    <3>1. /\ Find(url, SchemeMark) # npos
          /\ UpTo(url, Find(url, SchemeMark)) = s
          /\ From(url, Find(url, SchemeMark) + 3) = rest
      BY <1>6, <2>1
    <3>2. PathPlace(rest, hp, path)
      BY <2>2, <2>3 DEF PathPlace
    <3> QED BY <1>7, <3>1, <3>2, ParseIs, Zenon
  <2> QED BY <1>5, <2>4 DEF url, rest
<1>9. parseUrl(base).path = <<"/">>
  <2> DEFINE url == s \o (SchemeMark \o hp)
  <2>1. /\ Find(url, SchemeMark) = Len(s) + 1
        /\ UpTo(url, Len(s) + 1) = s
        /\ From(url, Len(s) + 1 + 3) = hp
    BY <1>2, SchemeIsCut, Zenon
  <2>2. Find(hp, <<"/">>) = npos
    BY <1>2, PathIsCut, Zenon
  <2> HIDE DEF url, hp, base
  <2>3. parseUrl(url) = [scheme |-> s, host |-> Host, port |-> port, path |-> <<"/">>]
    <3>1. /\ Find(url, SchemeMark) # npos
          /\ UpTo(url, Find(url, SchemeMark)) = s
          /\ From(url, Find(url, SchemeMark) + 3) = hp
      BY <1>6, <2>1
    <3>2. PathPlace(hp, hp, <<"/">>)
      BY <2>2 DEF PathPlace
    <3> QED BY <1>7, <3>1, <3>2, ParseIs, Zenon
  <2>4. parseUrl(url).path = <<"/">>
    BY <2>3
  <2> QED BY <1>4, <2>4 DEF url
<1> QED BY <1>8, <1>9 DEF base, mh, path, IsTakenApart

-----------------------------------------------------------------------------
(***************************************************************************)
(* The lines of a request, for any symbols.                                *)
(***************************************************************************)

Line(g, sp, sl, v, t) == <<g, sp>> \o (<<sl>> \o t) \o <<sp, v>>

IsLine(S, l, g, sp, sl, v, t, n) ==
    /\ l \in Seq(S) /\ n \in Nat /\ Len(l) = n + 5
    /\ l[1] = g /\ l[2] = sp /\ l[3] = sl
    /\ \A i \in 1..n : l[3 + i] = t[i]
    /\ l[n + 4] = sp /\ l[n + 5] = v

LEMMA LineSymbols ==
    ASSUME NEW S, NEW g \in S, NEW sp \in S, NEW sl \in S, NEW v \in S, NEW t \in Seq(S)
    PROVE  IsLine(S, Line(g, sp, sl, v, t), g, sp, sl, v, t, Len(t))
<1> DEFINE n == Len(t)
           st == <<sl>> \o t
           gst == <<g, sp>> \o st
           l == gst \o <<sp, v>>
<1>1. st \in Seq(S) /\ Len(st) = n + 1 /\ n \in Nat
      /\ st[1] = sl /\ \A i \in 1..n : st[1 + i] = t[i]
  OBVIOUS
<1> HIDE DEF st
<1>2. gst \in Seq(S)
  BY <1>1
<1>3. /\ Len(gst) = Len(st) + 2 /\ gst[1] = g /\ gst[2] = sp
      /\ \A i \in 1..Len(st) : gst[2 + i] = st[i]
  <2>1. st \in Seq(S)
    BY <1>1
  <2> QED BY <2>1
<1>4. /\ gst[3] = sl /\ \A i \in 1..n : gst[3 + i] = t[i]
      /\ Len(gst) = n + 3
  <2> HIDE DEF gst, n
  <2>1. 1 \in 1..Len(st)
    BY <1>1
  <2>2. gst[2 + 1] = st[1]
    BY <1>3, <2>1
  <2>3. ASSUME NEW i \in 1..n PROVE gst[3 + i] = t[i]
    <3>1. 1 + i \in 1..Len(st) /\ 2 + (1 + i) = 3 + i
      BY <1>1
    <3>2. gst[2 + (1 + i)] = st[1 + i]
      BY <1>3, <3>1
    <3> QED BY <1>1, <3>1, <3>2
  <2> QED BY <1>1, <1>3, <2>2, <2>3
<1> HIDE DEF gst
<1>5. l \in Seq(S)
  BY <1>2
<1>6. /\ Len(l) = Len(gst) + 2 /\ l[Len(gst) + 1] = sp /\ l[Len(gst) + 2] = v
      /\ \A i \in 1..Len(gst) : l[i] = gst[i]
  BY <1>2
<1> HIDE DEF l, n
<1>7. /\ Len(l) = n + 5 /\ l[1] = g /\ l[2] = sp /\ l[3] = sl
      /\ l[n + 4] = sp /\ l[n + 5] = v
  <2>1. 1 \in 1..Len(gst) /\ 2 \in 1..Len(gst) /\ 3 \in 1..Len(gst)
        /\ Len(gst) + 1 = n + 4 /\ Len(gst) + 2 = n + 5
    BY <1>1, <1>4
  <2> QED BY <1>3, <1>4, <1>6, <2>1
<1>8. ASSUME NEW i \in 1..n PROVE l[3 + i] = t[i]
  <2>1. 3 + i \in 1..Len(gst)
    BY <1>1, <1>4
  <2> QED BY <1>4, <1>6, <2>1
<1> QED BY <1>1, <1>5, <1>7, <1>8 DEF Line, l, gst, st, n, IsLine

\* Where a line ends: if the text has no line break, then after the line.
LEMMA LineEnd ==
    ASSUME NEW S, NEW g \in S, NEW sp \in S, NEW sl \in S, NEW v \in S, NEW t \in Seq(S),
           NEW c \in S, NEW d \in S, g # c, sp # c, sl # c, v # c, sp # d,
           NEW i \in Places(Line(g, sp, sl, v, t) \o <<c, d>>, <<c, d>>)
    PROVE  i = Len(t) + 6 \/ i - 3 \in Places(t, <<c, d>>)
<1> DEFINE l == Line(g, sp, sl, v, t)
           n == Len(t)
           y == l \o <<c, d>>
<1>1. /\ l \in Seq(S) /\ n \in Nat /\ Len(l) = n + 5
      /\ l[1] = g /\ l[2] = sp /\ l[3] = sl
      /\ \A k \in 1..n : l[3 + k] = t[k]
      /\ l[n + 4] = sp /\ l[n + 5] = v
  <2>1. IsLine(S, Line(g, sp, sl, v, t), g, sp, sl, v, t, Len(t))
    BY LineSymbols, Zenon
  <2> QED BY <2>1 DEF IsLine
<1> HIDE DEF l
<1>2. y \in Seq(S) /\ Len(y) = Len(l) + 2
      /\ \A k \in 1..Len(l) : y[k] = l[k]
  <2>1. l \in Seq(S)
    BY <1>1
  <2> QED BY <2>1
<1> HIDE DEF y
<1>3. i \in 1..(Len(y) - 1) /\ y[i] = c /\ y[i + 1] = d
  <2>1. \A k : k \in Places(y, <<c, d>>) <=>
            k \in 1..(Len(y) - 1) /\ y[k] = c /\ y[k + 1] = d
    BY <1>2, PlacesOfTwo
  <2>2. i \in Places(y, <<c, d>>)
    BY DEF y, l
  <2> QED BY <2>1, <2>2
<1> HIDE DEF n
<1>4. i \in Int /\ 1 <= i /\ i <= n + 6
  BY <1>1, <1>2, <1>3
<1>5. ASSUME i # n + 6 PROVE i - 3 \in Places(t, <<c, d>>)
  <2>1. i <= n + 5 /\ i \in 1..Len(l)
    BY <1>1, <1>4, <1>5
  <2>2. l[i] = c
    BY <1>2, <1>3, <2>1
  <2>3. i # 1 /\ i # 2 /\ i # 3 /\ i # n + 4 /\ i # n + 5
    BY <1>1, <2>2
  <2>4. i - 3 \in 1..n /\ 3 + (i - 3) = i /\ i + 1 \in 1..Len(l)
    BY <1>1, <1>4, <2>1, <2>3
  <2>5. t[i - 3] = c
    BY <1>1, <2>2, <2>4
  <2>6. l[i + 1] = d
    BY <1>2, <1>3, <2>4
  <2>7. i + 1 # n + 4
    BY <1>1, <2>6
  <2>8. i - 3 + 1 \in 1..n /\ 3 + (i - 3 + 1) = i + 1 /\ i - 3 \in 1..(n - 1)
    BY <1>1, <1>4, <2>4, <2>7
  <2>9. t[i - 3 + 1] = d
    BY <1>1, <2>6, <2>8
  <2>10. i - 3 \in Places(t, <<c, d>>) <=>
            i - 3 \in 1..(Len(t) - 1) /\ t[i - 3] = c /\ t[i - 3 + 1] = d
    BY PlacesOfTwo
  <2> QED BY <2>5, <2>8, <2>9, <2>10 DEF n
<1> QED BY <1>5 DEF n

\* What follows the first line of a request: Host, Connection, the headers of
\* the caller and the empty line.
Rest(a, k, sp, h, c, d, n, o, u, x) ==
    <<a, k, sp>> \o <<h>> \o <<c, d>> \o <<n, k, sp, o>> \o <<c, d>> \o
    (<<u, k, sp, x>> \o <<c, d>>) \o <<c, d>>

RestEnds(S, r, c, d) ==
    /\ r \in Seq(S) /\ Len(r) = 20 /\ r[1] # c
    /\ r[17] = c /\ r[18] = d /\ r[19] = c /\ r[20] = d
    /\ \A i \in 1..17 : r[i] = c /\ r[i + 2] = c => i = 17

LEMMA RestSymbols ==
    ASSUME NEW S, NEW a \in S, NEW k \in S, NEW sp \in S, NEW h \in S, NEW c \in S,
           NEW d \in S, NEW n \in S, NEW o \in S, NEW u \in S, NEW x \in S,
           a # c, k # c, sp # c, h # c, d # c, n # c, o # c, u # c, x # c
    PROVE  RestEnds(S, Rest(a, k, sp, h, c, d, n, o, u, x), c, d)
<1> DEFINE r == Rest(a, k, sp, h, c, d, n, o, u, x)
<1>1. r \in Seq(S) /\ Len(r) = 20
  BY DEF Rest
<1>2. /\ r[1] = a /\ r[2] = k /\ r[3] = sp /\ r[4] = h /\ r[5] = c /\ r[6] = d
      /\ r[7] = n /\ r[8] = k /\ r[9] = sp /\ r[10] = o /\ r[11] = c /\ r[12] = d
  BY DEF Rest
<1>3. /\ r[13] = u /\ r[14] = k /\ r[15] = sp /\ r[16] = x
      /\ r[17] = c /\ r[18] = d /\ r[19] = c /\ r[20] = d
  BY DEF Rest
<1> HIDE DEF r
<1>4. ASSUME NEW i \in 1..17, r[i] = c, r[i + 2] = c PROVE i = 17
  <2>1. i \in {5, 11, 17}
    BY <1>2, <1>3, <1>4
  <2>2. i # 5 /\ i # 11
    BY <1>2, <1>3, <1>4
  <2> QED BY <2>1, <2>2
<1> QED BY <1>1, <1>2, <1>3, <1>4 DEF r, RestEnds

EndsAt(w, eol, n) == Find(w, eol) = n /\ Find(w, eol \o eol) = Len(w) - 3

\* If the text has no line break, then the first is the one after the line, and
\* the first empty line is the end of the request.
LEMMA RequestEnds ==
    ASSUME NEW S, NEW g \in S, NEW sp \in S, NEW sl \in S, NEW v \in S, NEW t \in Seq(S),
           NEW c \in S, NEW d \in S, g # c, sp # c, sl # c, v # c, sp # d, d # c,
           NEW r, RestEnds(S, r, c, d),
           Places(t, <<c, d>>) = {}
    PROVE  EndsAt(Line(g, sp, sl, v, t) \o <<c, d>> \o r, <<c, d>>, Len(t) + 6)
<1> DEFINE l == Line(g, sp, sl, v, t)
           n == Len(t)
           y == l \o <<c, d>>
           w == y \o r
           two == <<c, d>>
           four == <<c, d>> \o <<c, d>>
<1>1. l \in Seq(S) /\ n \in Nat /\ Len(l) = n + 5 /\ l[n + 5] = v
  <2>1. IsLine(S, Line(g, sp, sl, v, t), g, sp, sl, v, t, Len(t))
    BY LineSymbols, Zenon
  <2> QED BY <2>1 DEF IsLine
<1> HIDE DEF l
<1>2. /\ y \in Seq(S) /\ Len(y) = Len(l) + 2
      /\ \A k \in 1..Len(l) : y[k] = l[k]
      /\ y[Len(l) + 1] = c /\ y[Len(l) + 2] = d
  <2>1. l \in Seq(S)
    BY <1>1
  <2> QED BY <2>1
<1>3. \A i \in Places(y, two) : i = n + 6
  BY LineEnd, Zenon DEF l
<1> HIDE DEF y
<1>4. r \in Seq(S)
  BY DEF RestEnds
<1>5. /\ w \in Seq(S) /\ Len(w) = Len(y) + Len(r)
      /\ \A k \in 1..Len(y) : w[k] = y[k]
      /\ \A k \in 1..Len(r) : w[Len(y) + k] = r[k]
  <2>1. y \in Seq(S)
    BY <1>2
  <2> QED BY <1>4, <2>1
<1>6. two \in Seq(S) /\ four \in Seq(S)
  OBVIOUS
<1>7. \A i : i \in Places(y, two) <=> i \in 1..(Len(y) - 1) /\ y[i] = c /\ y[i + 1] = d
  BY <1>2, PlacesOfTwo
<1>8. \A i : i \in Places(w, four) <=>
          /\ i \in 1..(Len(w) - 3)
          /\ w[i] = c /\ w[i + 1] = d /\ w[i + 2] = c /\ w[i + 3] = d
  <2>1. w \in Seq(S)
    BY <1>5
  <2> HIDE DEF w
  <2> QED BY <2>1, PlacesOfFour
<1> HIDE DEF two, four, n
<1>9. /\ Len(l) = n + 5 /\ Len(y) = n + 7 /\ Len(w) = n + 27 /\ n \in Nat
      /\ y[n + 5] = v /\ y[n + 6] = c /\ y[n + 7] = d
  <2>1. n + 5 \in 1..Len(l) /\ Len(l) + 1 = n + 6 /\ Len(l) + 2 = n + 7
    BY <1>1
  <2>2. Len(r) = 20
    BY DEF RestEnds
  <2> HIDE DEF w
  <2> QED BY <1>1, <1>2, <1>5, <2>1, <2>2
<1>10. n + 6 \in Places(y, two)
  BY <1>7, <1>9
<1>11. Find(y, two) = n + 6
  <2>1. Places(y, two) \in SUBSET Nat
    BY DEF Places
  <2> QED BY <1>3, <1>9, <1>10, <2>1, FindIs
<1>12. Find(w, two) = n + 6
  <2>1. Places(y, two) # {} /\ y \in Seq(S)
    BY <1>2, <1>10
  <2>2. Find(w, two) = Find(y, two)
    BY <1>4, <1>6, <2>1, FindInPrefix, Zenon
  <2> QED BY <1>11, <2>2
<1> HIDE DEF w
<1>13. /\ w[n + 5] = v /\ w[n + 7] = d /\ w[n + 8] = r[1]
       /\ \A k \in 1..20 : w[n + 7 + k] = r[k]
  <2>1. n + 5 \in 1..Len(y) /\ n + 7 \in 1..Len(y) /\ 1 \in 1..20 /\ n + 7 + 1 = n + 8
    BY <1>9
  <2>2. Len(r) = 20
    BY DEF RestEnds
  <2> QED BY <1>5, <1>9, <2>1, <2>2
<1>14. n + 24 \in Places(w, four)
  <2>1. w[n + 7 + 17] = c /\ w[n + 7 + 18] = d /\ w[n + 7 + 19] = c /\ w[n + 7 + 20] = d
    BY <1>13 DEF RestEnds
  <2>2. n + 7 + 17 = n + 24 /\ n + 7 + 18 = n + 24 + 1 /\ n + 7 + 19 = n + 24 + 2
        /\ n + 7 + 20 = n + 24 + 3 /\ n + 24 \in 1..(Len(w) - 3)
    BY <1>9
  <2> QED BY <1>8, <2>1, <2>2
<1>15. ASSUME NEW i \in Places(w, four) PROVE i \in Nat /\ n + 24 <= i
  <2>1. i \in 1..(n + 24) /\ w[i] = c /\ w[i + 1] = d /\ w[i + 2] = c
    BY <1>8, <1>9
  <2>2. ~(i <= n + 4)
    <3> SUFFICES ASSUME i <= n + 4 PROVE FALSE
      OBVIOUS
    <3>1. i \in 1..Len(y) /\ i + 1 \in 1..Len(y) /\ i \in 1..(Len(y) - 1) /\ i # n + 6
      BY <1>9, <2>1
    <3>2. y[i] = c /\ y[i + 1] = d
      BY <1>5, <2>1, <3>1
    <3> QED BY <1>3, <1>7, <3>1, <3>2
  <2>3. i # n + 5 /\ i # n + 7
    BY <1>13, <2>1
  <2>4. i # n + 6
    <3>1. r[1] # c /\ n + 6 + 2 = n + 8
      BY <1>9 DEF RestEnds
    <3> QED BY <1>13, <2>1, <3>1
  <2>5. i - (n + 7) \in 1..17 /\ n + 7 + (i - (n + 7)) = i
        /\ n + 7 + (i - (n + 7) + 2) = i + 2 /\ i - (n + 7) + 2 \in 1..20
    BY <1>9, <2>1, <2>2, <2>3, <2>4
  <2>6. r[i - (n + 7)] = c /\ r[i - (n + 7) + 2] = c
    <3>1. i - (n + 7) \in 1..20
      BY <2>5
    <3> QED BY <1>13, <2>1, <2>5, <3>1
  <2>7. i - (n + 7) = 17
    BY <2>5, <2>6 DEF RestEnds
  <2> QED BY <1>9, <2>1, <2>7
<1>16. Find(w, four) = n + 24
  BY <1>14, <1>15, FindIs
<1>17. n + 24 = Len(w) - 3
  BY <1>9
<1> QED BY <1>12, <1>16, <1>17 DEF w, y, l, n, two, four, EndsAt

-----------------------------------------------------------------------------
(***************************************************************************)
(* How a server reads the first line.                                      *)
(***************************************************************************)

Reads(w, eol, space, bad) ==
    LET line == UpTo(w, Find(w, eol))
        spaces == Places(line, space)
    IN  IF Cardinality(spaces) = 2 /\ Find(w, eol \o eol) = Len(w) - 3
        THEN SubSeq(line, Min(spaces) + 1, Max(spaces) - 1)
        ELSE bad

SpacesAre(spaces, t, n, sp) ==
    /\ spaces \subseteq 1..(n + 5) /\ 2 \in spaces /\ n + 4 \in spaces
    /\ \A i \in 1..n : t[i] = sp => 3 + i \in spaces
    /\ \A j \in spaces : j = 2 \/ j = n + 4 \/ (j - 3 \in 1..n /\ t[j - 3] = sp)

\* The spaces of the line are the two around the path and those of the text.
LEMMA SpacesOfLine ==
    ASSUME NEW S, NEW g \in S, NEW sp \in S, NEW sl \in S, NEW v \in S, NEW t \in Seq(S),
           g # sp, sl # sp, v # sp
    PROVE  SpacesAre(Places(Line(g, sp, sl, v, t), <<sp>>), t, Len(t), sp)
<1> DEFINE l == Line(g, sp, sl, v, t)
           n == Len(t)
           spaces == Places(l, <<sp>>)
<1>1. /\ l \in Seq(S) /\ n \in Nat /\ Len(l) = n + 5
      /\ l[1] = g /\ l[2] = sp /\ l[3] = sl
      /\ \A i \in 1..n : l[3 + i] = t[i]
      /\ l[n + 4] = sp /\ l[n + 5] = v
  <2>1. IsLine(S, Line(g, sp, sl, v, t), g, sp, sl, v, t, Len(t))
    BY LineSymbols, Zenon
  <2> QED BY <2>1 DEF IsLine
<1> HIDE DEF l
<1>2. \A j : j \in spaces <=> j \in 1..Len(l) /\ l[j] = sp
  <2>1. l \in Seq(S)
    BY <1>1
  <2> QED BY <2>1, PlacesOfOne
<1> HIDE DEF spaces, n
<1>3. spaces \subseteq 1..(n + 5) /\ 2 \in spaces /\ n + 4 \in spaces
  BY <1>1, <1>2
<1>4. ASSUME NEW i \in 1..n, t[i] = sp PROVE 3 + i \in spaces
  <2>1. 3 + i \in 1..Len(l)
    BY <1>1
  <2> QED BY <1>1, <1>2, <1>4, <2>1
<1>5. ASSUME NEW j \in spaces
      PROVE  j = 2 \/ j = n + 4 \/ (j - 3 \in 1..n /\ t[j - 3] = sp)
  <2> SUFFICES ASSUME j # 2, j # n + 4 PROVE j - 3 \in 1..n /\ t[j - 3] = sp
    BY Zenon
  <2>1. j \in 1..(n + 5) /\ l[j] = sp /\ j # 1 /\ j # 3 /\ j # n + 5
    BY <1>1, <1>2
  <2>2. j - 3 \in 1..n /\ 3 + (j - 3) = j
    BY <1>1, <2>1
  <2> QED BY <1>1, <2>1, <2>2
<1>6. \A i \in 1..n : t[i] = sp => 3 + i \in spaces
  BY <1>4
<1>7. SpacesAre(spaces, t, n, sp)
  BY <1>3, <1>5, <1>6 DEF SpacesAre
<1> QED BY <1>7 DEF spaces, l, n

LEMMA CardOfTwo ==
    ASSUME NEW a, NEW b, a # b
    PROVE  IsFiniteSet({a, b}) /\ Cardinality({a, b}) = 2
<1>1. IsFiniteSet({a}) /\ Cardinality({a}) = 1
  BY FS_Singleton
<1>2. b \notin {a} /\ {a} \cup {b} = {a, b}
  OBVIOUS
<1> QED BY <1>1, <1>2, FS_AddElement

LEMMA CardOfThree ==
    ASSUME NEW T, IsFiniteSet(T), NEW a \in T, NEW b \in T, NEW c \in T,
           a # b, b # c, a # c
    PROVE  Cardinality(T) >= 3
<1> DEFINE ab == {a, b}
           abc == ab \cup {c}
<1>1. IsFiniteSet(ab) /\ Cardinality(ab) = 2
  BY CardOfTwo
<1>2. c \notin ab /\ abc \in SUBSET T
  OBVIOUS
<1> HIDE DEF ab
<1>3. Cardinality(abc) = 3
  BY <1>1, <1>2, FS_AddElement
<1> HIDE DEF abc
<1>4. Cardinality(abc) <= Cardinality(T) /\ Cardinality(T) \in Nat
  BY <1>2, FS_Subset, FS_CardinalityType
<1> QED BY <1>3, <1>4

IsReadAs(w, eol, sp, bad, sl, t) ==
    Reads(w, eol, <<sp>>, bad) = IF Places(t, <<sp>>) = {} THEN <<sl>> \o t ELSE bad

\* A text without space and line break is read as it is; one with a space makes
\* a line that is not three words.
LEMMA WholeLine ==
    ASSUME NEW S, NEW g \in S, NEW sp \in S, NEW sl \in S, NEW v \in S, NEW t \in Seq(S),
           NEW c \in S, NEW d \in S, g # c, sp # c, sl # c, v # c, sp # d, d # c,
           g # sp, sl # sp, v # sp, NEW r, RestEnds(S, r, c, d), NEW bad,
           Places(t, <<c, d>>) = {}
    PROVE  IsReadAs(Line(g, sp, sl, v, t) \o <<c, d>> \o r, <<c, d>>, sp, bad, sl, t)
<1> DEFINE l == Line(g, sp, sl, v, t)
           n == Len(t)
           eol == <<c, d>>
           w == l \o eol \o r
           spaces == Places(l, <<sp>>)
           path == <<sl>> \o t
<1>1. Find(w, eol) = n + 6 /\ Find(w, eol \o eol) = Len(w) - 3
  <2>1. EndsAt(Line(g, sp, sl, v, t) \o <<c, d>> \o r, <<c, d>>, Len(t) + 6)
    BY RequestEnds, Zenon
  <2> QED BY <2>1, Zenon DEF EndsAt
<1>2. l \in Seq(S) /\ n \in Nat /\ Len(l) = n + 5
  <2>1. IsLine(S, Line(g, sp, sl, v, t), g, sp, sl, v, t, Len(t))
    BY LineSymbols, Zenon
  <2> QED BY <2>1 DEF IsLine
<1>3. /\ spaces \subseteq 1..(n + 5) /\ 2 \in spaces /\ n + 4 \in spaces
      /\ \A i \in 1..n : t[i] = sp => 3 + i \in spaces
      /\ \A j \in spaces : j = 2 \/ j = n + 4 \/ (j - 3 \in 1..n /\ t[j - 3] = sp)
  <2>1. SpacesAre(Places(Line(g, sp, sl, v, t), <<sp>>), t, Len(t), sp)
    BY SpacesOfLine, Zenon
  <2> QED BY <2>1, Zenon DEF SpacesAre
<1>4. \A i : i \in Places(t, <<sp>>) <=> i \in 1..n /\ t[i] = sp
  BY PlacesOfOne
<1>5. SubSeq(l, 3, n + 3) = path
  <2> DEFINE a == <<g, sp>>
             b == <<sp, v>>
  <2>1. a \in Seq(S) /\ b \in Seq(S) /\ path \in Seq(S)
    OBVIOUS
  <2>2. Len(a) = 2 /\ Len(path) = n + 1
    OBVIOUS
  <2> HIDE DEF a, b, path
  <2>3. SubSeq(a \o path \o b, Len(a) + 1, Len(a) + Len(path)) = path
    BY <2>1, Middle, Zenon
  <2>4. l = a \o path \o b
    BY Zenon DEF Line, a, b, path
  <2> HIDE DEF l, n
  <2>5. Len(a) + 1 = 3 /\ Len(a) + Len(path) = n + 3
    BY <1>2, <2>2
  <2> QED BY <2>3, <2>4, <2>5
<1>6. UpTo(w, n + 6) = l
  <2>1. eol \in Seq(S) /\ r \in Seq(S)
    BY DEF RestEnds
  <2> HIDE DEF eol, l
  <2>2. Associates(l, eol, r) /\ eol \o r \in Seq(S)
    BY <1>2, <2>1, Association, Zenon
  <2>3. UpTo(l \o (eol \o r), Len(l) + 1) = l
    BY <1>2, <2>2, CutAt, Zenon
  <2>4. Len(l) + 1 = n + 6
    BY <1>2
  <2> QED BY <2>2, <2>3, <2>4, Zenon DEF Associates
<1>7. UpTo(w, Find(w, eol)) = l
  BY <1>1, <1>6, Zenon
<1> HIDE DEF l, w, eol, spaces, path, n
<1>8. Reads(w, eol, <<sp>>, bad) =
          IF Cardinality(spaces) = 2
          THEN SubSeq(l, Min(spaces) + 1, Max(spaces) - 1) ELSE bad
  BY <1>1, <1>7, Zenon DEF Reads, spaces
<1>9. spaces \in SUBSET Nat
  BY <1>3
<1>10. ASSUME Places(t, <<sp>>) = {} PROVE Reads(w, eol, <<sp>>, bad) = path
  <2>1. spaces = {2, n + 4}
    BY <1>3, <1>4, <1>10
  <2>2. Cardinality(spaces) = 2
    <3>1. n + 4 # 2
      BY <1>2
    <3> QED BY <2>1, <3>1, CardOfTwo, Zenon
  <2>3. Min(spaces) = 2
    <3>1. spaces \in SUBSET Int /\ 2 \in spaces /\ \A j \in spaces : 2 <= j
      BY <1>2, <2>1
    <3> QED BY <3>1, MinIs
  <2>4. Max(spaces) = n + 4
    <3>1. Max(spaces) \in spaces /\ \A j \in spaces : j <= Max(spaces)
      <4>1. spaces # {} /\ n + 5 \in Nat /\ \A j \in spaces : j <= n + 5
        BY <1>2, <2>1
      <4> QED BY <1>9, <4>1, MaxExists
    <3> QED BY <1>2, <2>1, <3>1
  <2>5. SubSeq(l, Min(spaces) + 1, Max(spaces) - 1) = path
    <3>1. Min(spaces) + 1 = 3 /\ Max(spaces) - 1 = n + 3
      BY <1>2, <2>3, <2>4
    <3> QED BY <1>5, <3>1
  <2> QED BY <1>8, <2>2, <2>5
<1>11. ASSUME Places(t, <<sp>>) # {} PROVE Reads(w, eol, <<sp>>, bad) = bad
  <2>1. PICK i \in 1..n : t[i] = sp
    BY <1>4, <1>11
  <2>2. 2 \in spaces /\ 3 + i \in spaces /\ n + 4 \in spaces
    BY <1>3, <2>1
  <2>3. 3 + i # 2 /\ n + 4 # 2 /\ n + 4 # 3 + i
    BY <1>2, <2>1
  <2>4. Cardinality(spaces) # 2
    <3>1. IsFiniteSet(spaces)
      <4>1. IsFiniteSet(1..(n + 5))
        BY <1>2, FS_Interval
      <4> QED BY <1>3, <4>1, FS_Subset
    <3>2. Cardinality(spaces) >= 3
      BY <2>2, <2>3, <3>1, CardOfThree
    <3> QED BY <3>2
  <2> QED BY <1>8, <2>4
<1>12. IsReadAs(w, eol, sp, bad, sl, t)
  BY <1>10, <1>11, Zenon DEF IsReadAs, path
<1> QED BY <1>12 DEF w, l, eol

\* A text with a line break is cut there, and what is left of it is too short.
LEMMA BrokenLine ==
    ASSUME NEW S, NEW g \in S, NEW sp \in S, NEW sl \in S, NEW v \in S, NEW t \in Seq(S),
           NEW c \in S, NEW d \in S, NEW r \in Seq(S), NEW bad, bad # <<sl>> \o t,
           Places(t, <<c, d>>) # {}
    PROVE  Reads(Line(g, sp, sl, v, t) \o <<c, d>> \o r, <<c, d>>, <<sp>>, bad)
               # <<sl>> \o t
<1> DEFINE l == Line(g, sp, sl, v, t)
           n == Len(t)
           eol == <<c, d>>
           w == l \o eol \o r
           q == Find(w, eol)
           line == UpTo(w, q)
           spaces == Places(line, <<sp>>)
           path == <<sl>> \o t
<1>1. l \in Seq(S) /\ n \in Nat /\ Len(l) = n + 5 /\ \A i \in 1..n : l[3 + i] = t[i]
  <2>1. IsLine(S, Line(g, sp, sl, v, t), g, sp, sl, v, t, Len(t))
    BY LineSymbols, Zenon
  <2> QED BY <2>1 DEF IsLine
<1>2. eol \in Seq(S) /\ Len(path) = n + 1
  OBVIOUS
<1>3. \A s \in Seq(S) : \A i : i \in Places(s, eol) <=>
          i \in 1..(Len(s) - 1) /\ s[i] = c /\ s[i + 1] = d
  BY PlacesOfTwo
<1>4. PICK i \in 1..(n - 1) : t[i] = c /\ t[i + 1] = d
  BY <1>3
<1> HIDE DEF l, n, eol, path
<1>5. /\ w \in Seq(S) /\ Len(w) >= Len(l) /\ Len(w) \in Nat
      /\ \A k \in 1..Len(l) : w[k] = l[k]
  <2> DEFINE b == eol \o r
  <2>1. Associates(l, eol, r) /\ b \in Seq(S)
    BY <1>1, <1>2, Association, Zenon
  <2>2. w = l \o b
    BY <2>1, Zenon DEF Associates
  <2> HIDE DEF b, w
  <2>3. /\ l \o b \in Seq(S) /\ Len(l \o b) = Len(l) + Len(b)
        /\ \A k \in 1..Len(l) : (l \o b)[k] = l[k]
    <3>1. l \in Seq(S)
      BY <1>1
    <3> QED BY <2>1, <3>1
  <2>4. Len(b) \in Nat /\ Len(l) \in Nat
    BY <1>1, <2>1
  <2> QED BY <2>2, <2>3, <2>4
<1> HIDE DEF w
<1>6. 3 + i \in Places(w, eol)
  <2>1. 3 + i \in 1..(Len(w) - 1) /\ 3 + i \in 1..Len(l) /\ 3 + i + 1 \in 1..Len(l)
        /\ i \in 1..n /\ i + 1 \in 1..n /\ 3 + (i + 1) = 3 + i + 1
    BY <1>1, <1>4, <1>5
  <2>2. w[3 + i] = c /\ w[3 + i + 1] = d
    BY <1>1, <1>4, <1>5, <2>1
  <2> QED BY <1>3, <1>5, <2>1, <2>2
<1>7. q \in 1..(n + 2) /\ q <= Len(w)
  <2>1. Places(w, eol) \in SUBSET Nat /\ Places(w, eol) # {}
    BY <1>3, <1>5, <1>6
  <2>2. q \in Places(w, eol) /\ \A j \in Places(w, eol) : q <= j
    BY <2>1, FindExists, Zenon
  <2>3. q \in 1..(Len(w) - 1) /\ q <= 3 + i
    BY <1>3, <1>5, <1>6, <2>2
  <2> QED BY <1>1, <1>4, <1>5, <2>3
<1> HIDE DEF q
<1>8. line \in Seq(S) /\ Len(line) = q - 1
  <2>1. q - 1 <= Len(w) /\ q - 1 \in Nat
    BY <1>5, <1>7
  <2>2. w \in Seq(S)
    BY <1>5
  <2>3. SubSeq(w, 1, q - 1) \in Seq(S)
    BY <2>1, <2>2
  <2>4. Len(SubSeq(w, 1, q - 1)) = q - 1
    BY <2>1, <2>2
  <2> QED BY <2>3, <2>4 DEF UpTo
<1> HIDE DEF line
<1>9. spaces \subseteq 1..(q - 1)
  <2>1. \A j : j \in spaces <=> j \in 1..Len(line) /\ line[j] = sp
    BY <1>8, PlacesOfOne
  <2> QED BY <1>8, <2>1
<1> HIDE DEF spaces
<1>10. ASSUME Cardinality(spaces) = 2
       PROVE  SubSeq(line, Min(spaces) + 1, Max(spaces) - 1) # path
  <2>1. spaces # {}
    <3> SUFFICES ASSUME spaces = {} PROVE FALSE
      OBVIOUS
    <3>1. Cardinality(spaces) = 0
      BY FS_EmptySet
    <3> QED BY <1>10, <3>1
  <2>2. spaces \in SUBSET Nat /\ q - 1 \in Nat /\ \A j \in spaces : j <= q - 1
    BY <1>7, <1>9
  <2>3. Min(spaces) \in spaces /\ Max(spaces) \in spaces
    BY <2>1, <2>2, MinExists, MaxExists
  <2> DEFINE from == Min(spaces)
             to == Max(spaces)
  <2>4. from \in 1..(q - 1) /\ to \in 1..(q - 1)
    BY <1>9, <2>3
  <2> HIDE DEF from, to
  <2>5. Len(SubSeq(line, from + 1, to - 1)) <= n
    <3>1. from + 1 \in 1..q /\ to - 1 \in 0..q /\ q \in Nat
      BY <1>7, <2>4
    <3>2. line \in Seq(S)
      BY <1>8
    <3>3. Len(SubSeq(line, from + 1, to - 1)) =
              IF from + 1 <= to - 1 THEN to - 1 - (from + 1) + 1 ELSE 0
      BY <3>1, <3>2
    <3> QED BY <1>1, <1>7, <2>4, <3>1, <3>3
  <2>6. Len(path) > n
    BY <1>1, <1>2
  <2>7. SubSeq(line, from + 1, to - 1) # path
    <3> DEFINE cut == SubSeq(line, from + 1, to - 1)
    <3>1. n \in Nat /\ Len(path) = n + 1 /\ Len(cut) <= n
      BY <1>1, <1>2, <2>5
    <3> HIDE DEF cut
    <3>2. Len(cut) # Len(path)
      BY <3>1
    <3> QED BY <3>2 DEF cut
  <2> QED BY <2>7 DEF from, to
<1>11. Reads(w, eol, <<sp>>, bad) \in
           {bad} \cup (IF Cardinality(spaces) = 2
                       THEN {SubSeq(line, Min(spaces) + 1, Max(spaces) - 1)} ELSE {})
  BY DEF Reads, spaces, line, q
<1>12. bad # path
  BY DEF path
<1>13. Reads(w, eol, <<sp>>, bad) # path
  BY <1>10, <1>11, <1>12
<1> QED BY <1>13 DEF w, l, eol, path

LEMMA FirstDiffers ==
    ASSUME NEW S, NEW a, NEW b \in S, NEW t \in Seq(S), a # b
    PROVE  <<a>> # <<b>> \o t
<1> DEFINE x == <<a>>
           y == <<b>> \o t
<1>1. x[1] = a
  OBVIOUS
<1>2. y[1] = b
  OBVIOUS
<1> HIDE DEF x, y
<1>3. x # y
  BY <1>1, <1>2
<1> QED BY <1>3 DEF x, y

-----------------------------------------------------------------------------
(***************************************************************************)
(* The request that is made of the parts of a URL.                         *)
(***************************************************************************)

Attaches(y, a, b, e, n, h) ==
    y \o a \o b \o e \o n \o e \o h \o e = y \o (a \o b \o e \o n \o e \o h \o e)

LEMMA Attachment ==
    ASSUME NEW S, NEW y \in Seq(S), NEW a \in Seq(S), NEW b \in Seq(S), NEW e \in Seq(S),
           NEW n \in Seq(S), NEW h \in Seq(S)
    PROVE  Attaches(y, a, b, e, n, h)
<1> DEFINE ab == a \o b
           abe == ab \o e
           aben == abe \o n
           abene == aben \o e
           all == abene \o h
<1>1. Associates(y, a, b) /\ ab \in Seq(S)
  BY Association, Zenon
<1>2. Associates(y, ab, e) /\ abe \in Seq(S)
  BY <1>1, Association, Zenon
<1>3. Associates(y, abe, n) /\ aben \in Seq(S)
  BY <1>2, Association, Zenon
<1>4. Associates(y, aben, e) /\ abene \in Seq(S)
  BY <1>3, Association, Zenon
<1>5. Associates(y, abene, h) /\ all \in Seq(S)
  BY <1>4, Association, Zenon
<1>6. Associates(y, all, e)
  BY <1>5, Association, Zenon
<1>7. y \o a \o b \o e = y \o abe
  BY <1>1, <1>2, Zenon DEF Associates
<1>8. y \o a \o b \o e \o n = y \o aben
  BY <1>3, <1>7, Zenon DEF Associates
<1>9. y \o a \o b \o e \o n \o e = y \o abene
  BY <1>4, <1>8, Zenon DEF Associates
<1>10. y \o a \o b \o e \o n \o e \o h = y \o all
  BY <1>5, <1>9, Zenon DEF Associates
<1>11. y \o a \o b \o e \o n \o e \o h \o e = y \o (all \o e)
  BY <1>6, <1>10, Zenon DEF Associates
<1> QED BY <1>11, Zenon DEF Attaches

RestLines == Rest("Host", ":", "SP", "host", "CR", "LF", "Connection", "close",
                  "User-Agent", "x")

Request(t) == Line("GET", "SP", "/", "HTTP/1.1", t) \o <<"CR", "LF">> \o RestLines

\* A request is the line with the path, a line break and the other lines.
LEMMA RequestIs ==
    ASSUME NEW t \in Seq(Chars), NEW parts,
           parts.path = <<"/">> \o t, parts.host = Host
    PROVE  buildHttpRequest(parts, <<"User-Agent", ":", "SP", "x">> \o CRLF) = Request(t)
<1> DEFINE l == Line("GET", "SP", "/", "HTTP/1.1", t)
           e == <<"CR", "LF">>
           y == l \o e
           a == <<"Host", ":", "SP">>
           n == <<"Connection", ":", "SP", "close">>
           h == <<"User-Agent", ":", "SP", "x">> \o e
<1>1. l \in Seq(Chars)
  <2>1. "GET" \in Chars /\ "SP" \in Chars /\ "/" \in Chars /\ "HTTP/1.1" \in Chars
    BY CharsHave
  <2>2. IsLine(Chars, l, "GET", "SP", "/", "HTTP/1.1", t, Len(t))
    BY <2>1, LineSymbols, Zenon
  <2> QED BY <2>2, Zenon DEF IsLine
<1>2. e \in Seq(Chars)
  <2>1. "CR" \in Chars /\ "LF" \in Chars
    BY CharsHave
  <2> QED BY <2>1
<1>3. y \in Seq(Chars)
  <2> HIDE DEF l, e
  <2> QED BY <1>1, <1>2
<1>4. a \in Seq(Chars) /\ Host \in Seq(Chars) /\ n \in Seq(Chars)
  <2>1. "Host" \in Chars /\ ":" \in Chars /\ "SP" \in Chars /\ "host" \in Chars
        /\ "Connection" \in Chars /\ "close" \in Chars
    BY CharsHave
  <2> QED BY <2>1 DEF Host
<1>5. h \in Seq(Chars)
  <2>1. "User-Agent" \in Chars /\ ":" \in Chars /\ "SP" \in Chars /\ "x" \in Chars
    BY CharsHave
  <2>2. <<"User-Agent", ":", "SP", "x">> \in Seq(Chars)
    BY <2>1
  <2> HIDE DEF e
  <2> QED BY <1>2, <2>2
<1>6. Attaches(y, a, Host, e, n, h)
  BY <1>2, <1>3, <1>4, <1>5, Attachment, Zenon
<1> QED BY <1>6, Zenon DEF buildHttpRequest, CRLF, Attaches, Request, RestLines, Rest,
                           Host, Line

\* What the server reads is the path exactly if it has no space and no line break.
LEMMA RequestIsRead ==
    ASSUME NEW t \in Seq(Chars)
    PROVE  ServerReads(Request(t)) = <<"/">> \o t <=>
               Places(t, <<"SP">>) = {} /\ Places(t, CRLF) = {}
<1> DEFINE bad == <<"bad request">>
           path == <<"/">> \o t
<1>1. /\ "GET" \in Chars /\ "SP" \in Chars /\ "/" \in Chars /\ "HTTP/1.1" \in Chars
      /\ "CR" \in Chars /\ "LF" \in Chars
  BY CharsHave
<1>2. /\ "GET" # "CR" /\ "SP" # "CR" /\ "/" # "CR" /\ "HTTP/1.1" # "CR" /\ "SP" # "LF"
      /\ "LF" # "CR" /\ "GET" # "SP" /\ "/" # "SP" /\ "HTTP/1.1" # "SP"
  OBVIOUS
<1>3. RestEnds(Chars, RestLines, "CR", "LF")
  <2>1. /\ "Host" \in Chars /\ ":" \in Chars /\ "SP" \in Chars /\ "host" \in Chars
        /\ "Connection" \in Chars /\ "close" \in Chars /\ "User-Agent" \in Chars
        /\ "x" \in Chars /\ "CR" \in Chars /\ "LF" \in Chars
    BY CharsHave
  <2>2. /\ "Host" # "CR" /\ ":" # "CR" /\ "SP" # "CR" /\ "host" # "CR"
        /\ "Connection" # "CR" /\ "close" # "CR" /\ "User-Agent" # "CR"
        /\ "x" # "CR" /\ "LF" # "CR"
    OBVIOUS
  <2> QED BY <2>1, <2>2, RestSymbols, Zenon DEF RestLines
<1>4. bad # path
  <2>1. "bad request" # "/"
    OBVIOUS
  <2> QED BY <1>1, <2>1, FirstDiffers, Zenon
<1>5. ServerReads(Request(t)) = Reads(Request(t), <<"CR", "LF">>, <<"SP">>, bad)
  BY Zenon DEF ServerReads, Reads, CRLF
<1>6. CASE Places(t, CRLF) = {}
  <2>1. Places(t, <<"CR", "LF">>) = {}
    BY <1>6, Zenon DEF CRLF
  <2>2. IsReadAs(Request(t), <<"CR", "LF">>, "SP", bad, "/", t)
    BY <1>1, <1>2, <1>3, <2>1, WholeLine, Zenon DEF Request
  <2>3. Reads(Request(t), <<"CR", "LF">>, <<"SP">>, bad) =
            IF Places(t, <<"SP">>) = {} THEN path ELSE bad
    BY <2>2, Zenon DEF IsReadAs
  <2> QED BY <1>4, <1>5, <1>6, <2>3, Zenon
<1>7. CASE Places(t, CRLF) # {}
  <2>1. Places(t, <<"CR", "LF">>) # {}
    BY <1>7, Zenon DEF CRLF
  <2>2. RestLines \in Seq(Chars)
    BY <1>3, Zenon DEF RestEnds
  <2>3. Reads(Request(t), <<"CR", "LF">>, <<"SP">>, bad) # path
    BY <1>1, <1>4, <2>1, <2>2, BrokenLine, Zenon DEF Request
  <2> QED BY <1>5, <1>7, <2>3, Zenon
<1> QED BY <1>6, <1>7, Zenon

LEMMA WordLacks ==
    ASSUME NEW S, NEW a \in S, NEW c, a # c
    PROVE  Lacks(<<a>>, c)
<1> DEFINE w == <<a>>
<1>1. Len(w) = 1 /\ w[1] = a
  OBVIOUS
<1> HIDE DEF w
<1>2. Lacks(w, c)
  BY <1>1 DEF Lacks
<1> QED BY <1>2 DEF w

LEMMA WordsLack ==
    ASSUME NEW S, NEW a \in S, NEW b \in S, NEW e \in S, NEW c, a # c, b # c, e # c
    PROVE  Lacks(<<a>> \o (<<b>> \o <<e>>), c)
<1> DEFINE w == <<a>> \o (<<b>> \o <<e>>)
<1>1. Len(w) = 3
  OBVIOUS
<1>2. w[1] = a /\ w[2] = b /\ w[3] = e
  OBVIOUS
<1> HIDE DEF w
<1>3. Lacks(w, c)
  BY <1>1, <1>2 DEF Lacks
<1> QED BY <1>3 DEF w

\* The three kinds of base URL: with the port of https, with that of http, and
\* with one of its own.
LEMMA BasesAreTakenApart ==
    ASSUME NEW t \in Seq(Chars)
    PROVE  /\ IsTakenApart(<<"https">>, <<>>, <<"443">>, t)
           /\ IsTakenApart(<<"http">>, <<>>, <<"80">>, t)
           /\ IsTakenApart(<<"http">>, <<":">> \o <<"8080">>, <<"8080">>, t)
<1>1. /\ "https" \in Chars /\ "http" \in Chars /\ "host" \in Chars /\ ":" \in Chars
      /\ "8080" \in Chars
  BY CharsHave
<1>2. /\ "https" # ":" /\ "http" # ":" /\ "host" # ":" /\ "host" # "/" /\ ":" # "/"
      /\ "8080" # "/"
  OBVIOUS
<1>3. /\ <<"https">> \in Seq(Chars) /\ <<"http">> \in Seq(Chars) /\ Host \in Seq(Chars)
      /\ <<":">> \o <<"8080">> \in Seq(Chars) /\ <<"8080">> \in Seq(Chars)
      /\ <<>> \in Seq(Chars)
  BY <1>1 DEF Host
<1>4. Lacks(<<"https">>, ":") /\ Lacks(<<"http">>, ":") /\ Lacks(Host, ":")
  BY <1>1, <1>2, WordLacks, Zenon DEF Host
<1>5. Lacks(Host \o <<>>, "/")
  <2>1. Host \o <<>> = Host
    BY <1>3, ConcatEmptySeq, Zenon
  <2>2. Lacks(Host, "/")
    BY <1>1, <1>2, WordLacks, Zenon DEF Host
  <2> QED BY <2>1, <2>2, Zenon
<1>6. Lacks(Host \o (<<":">> \o <<"8080">>), "/")
  BY <1>1, <1>2, WordsLack, Zenon DEF Host
<1>7. DefaultPort(<<"https">>) = <<"443">>
  BY Zenon DEF DefaultPort
<1>8. DefaultPort(<<"http">>) = <<"80">>
  <2>1. <<"http">> # <<"https">>
    OBVIOUS
  <2> QED BY <2>1, Zenon DEF DefaultPort
<1>9. IsTakenApart(<<"https">>, <<>>, <<"443">>, t)
  BY <1>3, <1>4, <1>5, <1>7, UrlParts, Zenon
<1>10. IsTakenApart(<<"http">>, <<>>, <<"80">>, t)
  BY <1>3, <1>4, <1>5, <1>8, UrlParts, Zenon
<1>11. IsTakenApart(<<"http">>, <<":">> \o <<"8080">>, <<"8080">>, t)
  BY <1>3, <1>4, <1>6, UrlParts, Zenon
<1> QED BY <1>9, <1>10, <1>11, Zenon

\* Whatever the user's name is made of and however long it is, it stays in the
\* path of the URL of get_challenge, and the server reads that path exactly if
\* there is neither a space nor a line break in the name
\* (HTTPSClient.cpp:46-97, Authenticator.cpp:203).
THEOREM NamesReachTheServer == Spec => []NameReachesServer
<1>1. IsText => NameReachesServer
  <2> DEFINE explicit(p) == IF p.colon = <<>> THEN <<>> ELSE p.colon \o p.port
             base(p) == p.scheme \o <<":", "/", "/", "host">> \o explicit(p)
             path == <<"/">> \o text
             parts(p) == parseUrl(base(p) \o path)
             agent == <<"User-Agent", ":", "SP", "x">> \o CRLF
             request(p) == buildHttpRequest(parts(p), agent)
  <2> SUFFICES ASSUME IsText, kind = "symbols", NEW p \in HostParts
               PROVE  /\ parts(p) = [scheme |-> p.scheme, host |-> <<"host">>,
                                     port |-> p.port, path |-> path]
                      /\ parseUrl(base(p)).path = <<"/">>
                      /\ ServerReads(request(p)) = path <=> ~Has(<<"SP">>) /\ ~Has(CRLF)
    BY Zenon DEF NameReachesServer
  <2>1. text \in Seq(Chars)
    BY SymbolsAreChars
  <2>2. IsTakenApart(p.scheme, explicit(p), p.port, text)
    <3>1. /\ IsTakenApart(<<"https">>, <<>>, <<"443">>, text)
          /\ IsTakenApart(<<"http">>, <<>>, <<"80">>, text)
          /\ IsTakenApart(<<"http">>, <<":">> \o <<"8080">>, <<"8080">>, text)
      BY <2>1, BasesAreTakenApart, Zenon
    <3>2. <<":">> # <<>>
      OBVIOUS
    <3>3. CASE p = [scheme |-> <<"https">>, colon |-> <<>>, port |-> <<"443">>]
      <4>1. p.scheme = <<"https">> /\ p.colon = <<>> /\ p.port = <<"443">>
        BY <3>3
      <4> QED BY <3>1, <4>1, Zenon
    <3>4. CASE p = [scheme |-> <<"http">>, colon |-> <<>>, port |-> <<"80">>]
      <4>1. p.scheme = <<"http">> /\ p.colon = <<>> /\ p.port = <<"80">>
        BY <3>4
      <4> QED BY <3>1, <4>1, Zenon
    <3>5. CASE p = [scheme |-> <<"http">>, colon |-> <<":">>, port |-> <<"8080">>]
      <4>1. p.scheme = <<"http">> /\ p.colon = <<":">> /\ p.port = <<"8080">>
        BY <3>5
      <4> QED BY <3>1, <3>2, <4>1, Zenon
    <3> QED BY <3>3, <3>4, <3>5, Zenon DEF HostParts
  <2>3. /\ parts(p) = [scheme |-> p.scheme, host |-> Host, port |-> p.port, path |-> path]
        /\ parseUrl(base(p)).path = <<"/">>
    BY <2>2, Zenon DEF IsTakenApart
  <2>4. request(p) = Request(text)
    <3>1. parts(p).path = path /\ parts(p).host = Host
      <4> HIDE DEF parts, path
      <4> QED BY <2>3
    <3> QED BY <2>1, <3>1, RequestIs, Zenon
  <2>5. ServerReads(request(p)) = path <=> ~Has(<<"SP">>) /\ ~Has(CRLF)
    <3>1. ServerReads(Request(text)) = path <=>
              Places(text, <<"SP">>) = {} /\ Places(text, CRLF) = {}
      BY <2>1, RequestIsRead, Zenon
    <3>2. /\ Places(text, <<"SP">>) = {} <=> ~Has(<<"SP">>)
          /\ Places(text, CRLF) = {} <=> ~Has(CRLF)
      BY Zenon DEF Has
    <3>3. ServerReads(request(p)) = ServerReads(Request(text))
      BY <2>4, Zenon
    <3> HIDE DEF request, path
    <3> QED BY <3>1, <3>2, <3>3, Zenon
  <2> QED BY <2>3, <2>5, Zenon DEF Host
<1> QED BY <1>1, TextInvariance, PTL

-----------------------------------------------------------------------------
(***************************************************************************)
(* Texts of bytes, in base64 and in a URL.                                 *)
(***************************************************************************)

LEMMA BytesAreBytes ==
    ASSUME IsText, kind = "bytes"
    PROVE  text \in Seq(0..255) /\ text \in Seq(Int)
<1>1. text \in Seq(Bytes)
  BY DEF IsText, Alphabet
<1>2. Bytes \subseteq 0..255 /\ Bytes \subseteq Int
  BY TextsConstants
<1>3. Seq(Bytes) \subseteq Seq(0..255) /\ Seq(Bytes) \subseteq Seq(Int)
  BY <1>2, SeqMonotonic, Zenon
<1> QED BY <1>1, <1>3

\* What base64 makes of a text of bytes is read as the text, whatever its
\* length modulo three, and has four characters for three bytes
\* (SrunBase64.cpp:11-48).
THEOREM Base64Returns == Spec => []Base64ComesBack
<1>1. IsText => Base64ComesBack
  <2> SUFFICES ASSUME IsText, kind = "bytes"
               PROVE  /\ 4 * Len(text) <= 3 * Len(get_base64_string(text))
                      /\ Base64Decoded(get_base64_string(text)) = text
    BY Zenon DEF Base64ComesBack
  <2>1. text \in Seq(0..255)
    BY BytesAreBytes, Zenon
  <2>2. Len(get_base64_string(text)) = 4 * Groups(text)
    BY <2>1, CodeIs, Zenon
  <2>3. 4 * Len(text) <= 3 * Len(get_base64_string(text))
    BY <2>1, <2>2, GroupsAre, SMT
  <2> QED BY <2>1, <2>3, DecodedIs, Zenon
<1> QED BY <1>1, TextInvariance, PTL

\* Whatever bytes a parameter has and however many, it is one word of the URL
\* and is read as what was encoded, with a space for every white space
\* (Encoder.cpp:12-22).
THEOREM ParametersComeBack == Spec => []ParameterComesBack
<1>1. IsText => ParameterComesBack
  <2> SUFFICES ASSUME IsText, kind = "bytes"
               PROVE  LET code == UrlEncode(text)
                      IN  /\ \A i \in DOMAIN code :
                                 isalnum(code[i]) \/ code[i] \in {Plus, Percent}
                          /\ WellFormed(code) /\ FormDecoded(code) = Spaced(text)
    BY Zenon DEF ParameterComesBack
  <2>1. IsReadAsText(UrlEncode(text), Spaced(text))
    BY BytesAreBytes, EncodedIsRead, Zenon
  <2> QED BY <2>1, Zenon DEF IsReadAsText, InUrl
<1> QED BY <1>1, TextInvariance, PTL

\* Two digits make the same byte on either build.
LEMMA DigitsMakeBytes ==
    ASSUME NEW high \in Int, NEW low \in Int, HexValue(high) # {}, HexValue(low) # {}
    PROVE  /\ OnSigned!StrToBin(high, low) = Pair(high, low)
           /\ OnUnsigned!StrToBin(high, low) = Pair(high, low)
<1> DEFINE h == Min(HexValue(high))
           w == Min(HexValue(low))
<1>1. h \in 0..15 /\ w \in 0..15
  BY DigitIs
<1>2. OnSigned!CharToInt(high) = h /\ OnUnsigned!CharToInt(high) = h
  BY DigitIs DEF OnSigned!CharToInt, OnUnsigned!CharToInt, OnSigned!Digits, OnUnsigned!Digits
<1>3. OnSigned!CharToInt(low) = w /\ OnUnsigned!CharToInt(low) = w
  BY DigitIs DEF OnSigned!CharToInt, OnUnsigned!CharToInt, OnSigned!Digits, OnUnsigned!Digits
<1>4. Pair(high, low) = 16 * h + w
  BY Zenon DEF Pair
<1> HIDE DEF h, w
<1>5. ~(h < 0 \/ w < 0) /\ w # 255 /\ ((16 * h) % 256) + w = 16 * h + w
  BY <1>1
<1> QED BY <1>2, <1>3, <1>4, <1>5, Zenon DEF OnSigned!StrToBin, OnUnsigned!StrToBin

\* The digits of a text that is well formed.
LEMMA DigitsFollow ==
    ASSUME NEW code \in Seq(Int), WellFormed(code), NEW i \in 1..Len(code),
           code[i] = Percent
    PROVE  /\ i + 2 <= Len(code) /\ code[i + 1] \in Int /\ code[i + 2] \in Int
           /\ HexValue(code[i + 1]) # {} /\ HexValue(code[i + 2]) # {}
<1>1. i \in DOMAIN code
  OBVIOUS
<1>2. i + 2 <= Len(code) /\ HexValue(code[i + 1]) # {} /\ HexValue(code[i + 2]) # {}
  BY <1>1, Zenon DEF WellFormed
<1>3. i + 1 \in 1..Len(code) /\ i + 2 \in 1..Len(code)
  BY <1>2
<1> QED BY <1>2, <1>3, ElementOfSeq, Zenon

IsSignedReading(f, code) ==
    f = [i \in 1..(Len(code) + 1) |->
            IF i > Len(code) THEN <<>>
            ELSE IF OnSigned!IsEscape(code, i)
                 THEN <<OnSigned!StrToBin(code[i + 1], code[i + 2])>> \o f[i + 3]
            ELSE <<IF code[i] = OnSigned!Plus THEN 32 ELSE code[i]>> \o f[i + 1]]

IsUnsignedReading(f, code) ==
    f = [i \in 1..(Len(code) + 1) |->
            IF i > Len(code) THEN <<>>
            ELSE IF OnUnsigned!IsEscape(code, i)
                 THEN <<OnUnsigned!StrToBin(code[i + 1], code[i + 2])>> \o f[i + 3]
            ELSE <<IF code[i] = OnUnsigned!Plus THEN 32 ELSE code[i]>> \o f[i + 1]]

LEMMA SignedReading ==
    ASSUME NEW code \in Seq(Int), WellFormed(code)
    PROVE  OnSigned!UrlDecode(code) = FormDecoded(code)
<1> DEFINE byte == [i \in 1..Len(code) |-> OnSigned!StrToBin(code[i + 1], code[i + 2])]
           chosen == CHOOSE f : IsSignedReading(f, code)
<1>1. MakesBytes(byte, code)
  BY DigitsFollow, DigitsMakeBytes, Zenon DEF MakesBytes
<1>2. ASSUME NEW f PROVE IsSignedReading(f, code) <=> ReadsAs(f, code, byte)
  <2> DEFINE m == Len(code)
             signed(i) == IF i > m THEN <<>>
                          ELSE IF OnSigned!IsEscape(code, i)
                               THEN <<OnSigned!StrToBin(code[i + 1], code[i + 2])>> \o f[i + 3]
                          ELSE <<IF code[i] = OnSigned!Plus THEN 32 ELSE code[i]>> \o f[i + 1]
             read(i) == IF i > m THEN <<>>
                        ELSE IF code[i] = Percent /\ i + 2 <= m
                             THEN <<byte[i]>> \o f[i + 3]
                        ELSE <<IF code[i] = Plus THEN 32 ELSE code[i]>> \o f[i + 1]
  <2>1. ASSUME NEW i \in 1..(m + 1) PROVE signed(i) = read(i)
    <3>1. i > m \/ i \in 1..m
      OBVIOUS
    <3>2. i \in 1..m => byte[i] = OnSigned!StrToBin(code[i + 1], code[i + 2])
      BY Zenon
    <3>3. OnSigned!IsEscape(code, i) <=> code[i] = Percent /\ i + 2 <= m
      BY Zenon DEF OnSigned!IsEscape, OnSigned!Percent, Percent
    <3>4. OnSigned!Plus = Plus
      BY DEF OnSigned!Plus, Plus
    <3> HIDE DEF byte, m
    <3> QED BY <3>1, <3>2, <3>3, <3>4, Zenon
  <2>2. IsSignedReading(f, code) <=> f = [i \in 1..(m + 1) |-> signed(i)]
    BY Zenon DEF IsSignedReading
  <2>3. ReadsAs(f, code, byte) <=> f = [i \in 1..(m + 1) |-> read(i)]
    BY Zenon DEF ReadsAs
  <2> HIDE DEF signed, read
  <2>4. [i \in 1..(m + 1) |-> signed(i)] = [i \in 1..(m + 1) |-> read(i)]
    BY <2>1, Zenon
  <2> QED BY <2>2, <2>3, <2>4, Zenon
<1>3. OnSigned!UrlDecode(code) = chosen[1]
  BY Zenon DEF OnSigned!UrlDecode, IsSignedReading
<1> HIDE DEF byte
<1>4. (\E f : ReadsAs(f, code, byte))
      /\ \A f : ReadsAs(f, code, byte) => f[1] = FormDecoded(code)
  BY <1>1, ReadingExists, Zenon
<1>5. IsSignedReading(chosen, code)
  BY <1>2, <1>4, Zenon
<1> HIDE DEF chosen
<1> QED BY <1>2, <1>3, <1>4, <1>5, Zenon

LEMMA UnsignedReading ==
    ASSUME NEW code \in Seq(Int), WellFormed(code)
    PROVE  OnUnsigned!UrlDecode(code) = FormDecoded(code)
<1> DEFINE byte == [i \in 1..Len(code) |-> OnUnsigned!StrToBin(code[i + 1], code[i + 2])]
           chosen == CHOOSE f : IsUnsignedReading(f, code)
<1>1. MakesBytes(byte, code)
  BY DigitsFollow, DigitsMakeBytes, Zenon DEF MakesBytes
<1>2. ASSUME NEW f PROVE IsUnsignedReading(f, code) <=> ReadsAs(f, code, byte)
  <2> DEFINE m == Len(code)
             unsigned(i) == IF i > m THEN <<>>
                            ELSE IF OnUnsigned!IsEscape(code, i)
                                 THEN <<OnUnsigned!StrToBin(code[i + 1], code[i + 2])>> \o f[i + 3]
                            ELSE <<IF code[i] = OnUnsigned!Plus THEN 32 ELSE code[i]>> \o f[i + 1]
             read(i) == IF i > m THEN <<>>
                        ELSE IF code[i] = Percent /\ i + 2 <= m
                             THEN <<byte[i]>> \o f[i + 3]
                        ELSE <<IF code[i] = Plus THEN 32 ELSE code[i]>> \o f[i + 1]
  <2>1. ASSUME NEW i \in 1..(m + 1) PROVE unsigned(i) = read(i)
    <3>1. i > m \/ i \in 1..m
      OBVIOUS
    <3>2. i \in 1..m => byte[i] = OnUnsigned!StrToBin(code[i + 1], code[i + 2])
      BY Zenon
    <3>3. OnUnsigned!IsEscape(code, i) <=> code[i] = Percent /\ i + 2 <= m
      BY Zenon DEF OnUnsigned!IsEscape, OnUnsigned!Percent, Percent
    <3>4. OnUnsigned!Plus = Plus
      BY DEF OnUnsigned!Plus, Plus
    <3> HIDE DEF byte, m
    <3> QED BY <3>1, <3>2, <3>3, <3>4, Zenon
  <2>2. IsUnsignedReading(f, code) <=> f = [i \in 1..(m + 1) |-> unsigned(i)]
    BY Zenon DEF IsUnsignedReading
  <2>3. ReadsAs(f, code, byte) <=> f = [i \in 1..(m + 1) |-> read(i)]
    BY Zenon DEF ReadsAs
  <2> HIDE DEF unsigned, read
  <2>4. [i \in 1..(m + 1) |-> unsigned(i)] = [i \in 1..(m + 1) |-> read(i)]
    BY <2>1, Zenon
  <2> QED BY <2>2, <2>3, <2>4, Zenon
<1>3. OnUnsigned!UrlDecode(code) = chosen[1]
  BY Zenon DEF OnUnsigned!UrlDecode, IsUnsignedReading
<1> HIDE DEF byte
<1>4. (\E f : ReadsAs(f, code, byte))
      /\ \A f : ReadsAs(f, code, byte) => f[1] = FormDecoded(code)
  BY <1>1, ReadingExists, Zenon
<1>5. IsUnsignedReading(chosen, code)
  BY <1>2, <1>4, Zenon
<1> HIDE DEF chosen
<1> QED BY <1>2, <1>3, <1>4, <1>5, Zenon

\* A text in which two digits follow every percent sign is read as a server
\* reads it, whether or not the characters of the build have a sign
\* (Encoder.cpp:32, 59, 67).
THEOREM BuildsReadAlike == Spec => []BuildsAgreeOnWellFormed
<1>1. IsText => BuildsAgreeOnWellFormed
  BY BytesAreBytes, SignedReading, UnsignedReading, Zenon DEF BuildsAgreeOnWellFormed
<1> QED BY <1>1, TextInvariance, PTL

=============================================================================
