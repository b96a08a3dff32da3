--------------------------- MODULE CliArgsProofs ---------------------------
(***************************************************************************)
(* The two walks over the command line agree for arguments of every number *)
(* and kind.                                                               *)
(***************************************************************************)
EXTENDS CliArgs, SequenceTheorems, TLAPS

\* An argument list is a function on an interval.
LEMMA ArgvShape ==
    ASSUME TypeOK
    PROVE  /\ Len(argv) \in Nat /\ DOMAIN argv = 1..Len(argv)
           /\ \A j \in DOMAIN argv : argv[j] \in Words
<1>1. argv \in Seq(Words)
  BY DEF TypeOK
<1> QED
  BY <1>1, LenProperties, ElementOfSeq

\* The two lists of the options that take a value are the same.
LEMMA SameOptions == Valued = Skipping
  BY DEF Valued, Skipping, NamesOfText, Texts

LEMMA InitWalkInv == Init => WalkInv
<1> SUFFICES ASSUME Init PROVE WalkInv
  OBVIOUS
<1> USE DEF Init
<1>1. PICK len \in 0..MaxArgs : argv \in [1..len -> Words]
  OBVIOUS
<1>2. len \in Nat /\ len <= MaxArgs
  BY CliArgsConstants
<1>3. argv \in Seq(Words)
  BY <1>1, <1>2, SeqDef
<1>4. Len(argv) \in Nat /\ DOMAIN argv = 1..Len(argv) /\ DOMAIN argv = 1..len
  BY <1>1, <1>3, LenProperties
<1>5. Len(argv) = len
  BY <1>2, <1>4
<1>6. params \in [Texts -> Words \cup {Empty}]
  OBVIOUS
<1>7. i \in 1..(Len(argv) + 2)
  BY <1>4
<1>8. TypeOK
  BY <1>2, <1>3, <1>5, <1>6, <1>7 DEF TypeOK
<1> QED
  BY <1>4, <1>8 DEF WalkInv, Running

LEMMA StepWalkInv == WalkInv /\ [Next]_vars => WalkInv'
<1> SUFFICES ASSUME WalkInv, [Next]_vars PROVE WalkInv'
  OBVIOUS
<1> USE DEF WalkInv
<1>a. Len(argv) \in Nat /\ DOMAIN argv = 1..Len(argv)
  BY ArgvShape
<1>b. \A j \in DOMAIN argv : argv[j] \in Words
  BY ArgvShape
<1>2. i \in Nat /\ i > 0
  BY <1>a DEF TypeOK
<1>1. TypeOK'
  <2>1. CASE TakeValue
    <3>1. i + 1 \in DOMAIN argv /\ argv[i + 1] \in Words
      BY <1>a, <1>b, <1>2, <2>1 DEF TakeValue
    <3>2. params' \in [Texts -> Words \cup {Empty}]
      BY <2>1, <3>1 DEF TakeValue, TypeOK
    <3>3. values' \subseteq 2..(Len(argv) + 1) /\ i' \in 1..(Len(argv) + 2)
      BY <1>a, <1>2, <2>1, <3>1 DEF TakeValue, TypeOK
    <3> QED
      BY <2>1, <3>2, <3>3 DEF TakeValue, InLoop, TypeOK
  <2>2. CASE TakeWord
    BY <1>a, <1>b, <1>2, <2>2 DEF FlagsOf, TakeWord, InLoop, TypeOK
  <2>3. CASE ArgsParsed
    BY <1>a, <1>b, <1>2, <2>3 DEF ArgsParsed, TypeOK
  <2>4. CASE SkipValue
    BY <1>a, <1>b, <1>2, <2>4 DEF SkipValue, InLoop, TypeOK
  <2>5. CASE ReadWord
    BY <1>a, <1>b, <1>2, <2>5 DEF ReadWord, InLoop, TypeOK
  <2>6. CASE Run
    BY <1>a, <1>b, <1>2, <2>6 DEF Run, TypeOK
  <2>7. CASE UNCHANGED vars
    BY <2>7 DEF vars, TypeOK
  <2> QED
    BY <2>1, <2>2, <2>3, <2>4, <2>5, <2>6, <2>7 DEF Next
<1>3. CASE TakeValue
  <2>1. /\ pc = "parseArgs" /\ pc' = pc /\ i' = i + 2 /\ argv' = argv
        /\ values' = values \cup {i + 1} /\ skipped' = skipped
        /\ argv[i] \in Valued /\ i \in DOMAIN argv /\ i + 1 \in DOMAIN argv
    BY <1>a, <1>2, <1>3 DEF TakeValue, InLoop
  <2>2. values' \subseteq DOMAIN argv /\ values' \subseteq 1..(i' - 1)
    BY <1>2, <2>1
  <2>3. ASSUME NEW j \in DOMAIN argv, j <= i + 2
        PROVE  j \in values' <=> /\ j > 1 /\ argv[j - 1] \in Valued
                                 /\ j - 1 \notin values'
    <3>1. j \in Nat
      BY <1>a
    <3>2. j <= i \/ j = i + 1 \/ j = i + 2
      BY <1>2, <2>3, <3>1
    <3>3. CASE j <= i
      BY <1>2, <2>1, <3>1, <3>3
    <3>4. CASE j = i + 1
      BY <1>2, <2>1, <3>4
    <3>5. CASE j = i + 2
      BY <1>2, <2>1, <3>5
    <3> QED
      BY <3>2, <3>3, <3>4, <3>5
  <2> QED
    BY <1>1, <2>1, <2>2, <2>3 DEF Running
<1>4. CASE TakeWord
  <2>1. /\ pc = "parseArgs" /\ pc' = pc /\ i' = i + 1 /\ argv' = argv
        /\ values' = values /\ skipped' = skipped /\ i \in DOMAIN argv
        /\ i + 1 \in DOMAIN argv => argv[i] \notin Valued
    BY <1>a, <1>2, <1>4 DEF TakeWord, InLoop
  <2>2. values \subseteq 1..(i' - 1)
    BY <1>2, <2>1
  <2>3. ASSUME NEW j \in DOMAIN argv, j <= i + 1
        PROVE  j \in values <=> /\ j > 1 /\ argv[j - 1] \in Valued
                                /\ j - 1 \notin values
    <3>1. j \in Nat
      BY <1>a
    <3>2. j <= i \/ j = i + 1
      BY <1>2, <2>3, <3>1
    <3>3. CASE j <= i
      BY <2>1, <3>3
    <3>4. CASE j = i + 1
      BY <1>2, <2>1, <3>4
    <3> QED
      BY <3>2, <3>3, <3>4
  <2> QED
    BY <1>1, <2>1, <2>2, <2>3 DEF Running
<1>5. CASE ArgsParsed
  <2>1. /\ pc = "parseArgs" /\ i > Len(argv) /\ i' = 1
        /\ pc' \in {"usage", "parseSubcommand"}
        /\ argv' = argv /\ values' = values /\ skipped' = skipped
    BY <1>5 DEF ArgsParsed
  <2>2. \A j \in DOMAIN argv : j <= i
    BY <1>a, <1>2, <2>1
  <2>3. 1 \notin values /\ skipped = {}
    BY <1>a, <1>2, <2>1, <2>2
  <2> QED
    BY <1>a, <1>1, <1>2, <2>1, <2>2, <2>3 DEF Running
<1>6. CASE SkipValue
  <2>1. /\ pc = "parseSubcommand" /\ pc' = pc /\ i' = i + 2 /\ argv' = argv
        /\ values' = values /\ skipped' = skipped \cup {i + 1}
        /\ argv[i] \in Valued /\ i \in DOMAIN argv
    BY <1>a, <1>2, <1>6, SameOptions DEF SkipValue, InLoop
  <2>2. i \notin values /\ i \notin skipped'
    BY <1>2, <2>1
  <2>3. i + 1 \in DOMAIN argv => i + 1 \in values
    <3> SUFFICES ASSUME i + 1 \in DOMAIN argv PROVE i + 1 \in values
      OBVIOUS
    <3>1. (i + 1) - 1 = i /\ i + 1 > 1
      BY <1>2
    <3> QED
      BY <2>1, <2>2, <3>1
  <2>4. i + 2 \notin values
    <3> SUFFICES ASSUME i + 2 \in values PROVE FALSE
      OBVIOUS
    <3>1. i + 2 \in DOMAIN argv /\ (i + 2) - 1 = i + 1
      BY <1>2
    <3>2. i + 1 \in DOMAIN argv
      BY <1>a, <1>2, <3>1
    <3> QED
      BY <2>1, <2>3, <3>1, <3>2
  <2>5. skipped' \subseteq 1..(i' - 1)
    BY <1>2, <2>1
  <2>6. ASSUME NEW j \in DOMAIN argv, j < i + 2
        PROVE  j \in values <=> j \in skipped'
    <3>1. j \in Nat
      BY <1>a
    <3>2. j < i \/ j = i \/ j = i + 1
      BY <1>2, <2>6, <3>1
    <3>3. CASE j < i
      BY <1>2, <2>1, <3>3
    <3>4. CASE j \in {i, i + 1}
      BY <2>1, <2>2, <2>3, <3>4
    <3> QED
      BY <3>2, <3>3, <3>4
  <2> QED
    BY <1>1, <2>1, <2>4, <2>5, <2>6 DEF Running
<1>7. CASE ReadWord
  BY <1>a, <1>1, <1>2, <1>7, SameOptions DEF ReadWord, InLoop, Running
<1>8. CASE Run
  BY <1>a, <1>1, <1>2, <1>8 DEF Run, Running
<1>9. CASE UNCHANGED vars
  BY <1>1, <1>9 DEF vars, Running
<1> QED
  BY <1>3, <1>4, <1>5, <1>6, <1>7, <1>8, <1>9 DEF Next

-----------------------------------------------------------------------------
(* What is read on the walks.                                              *)

\* A later place is the last.
LEMMA LastOfLater ==
  ASSUME NEW places \in SUBSET Nat, NEW n \in Nat, \A m \in places : m < n,
         NEW default
  PROVE  LastOf(places \cup {n}, default) = argv[n]
<1> DEFINE last == CHOOSE j \in places \cup {n} :
                       \A m \in places \cup {n} : m <= j
<1>1. \A m \in places \cup {n} : m <= n
  OBVIOUS
<1>2. /\ last \in places \cup {n}
      /\ \A m \in places \cup {n} : m <= last
  BY <1>1
<1>3. last = n
  <2> HIDE DEF last
  <2> QED BY <1>2
<1> QED BY <1>3 DEF LastOf

\* An option that takes a value is no flag.
LEMMA ValuedIsNoFlag == ASSUME NEW option \in Valued PROVE FlagsOf(option) = {}
BY DEF Valued, NamesOfText, Texts, FlagsOf, Flags, NamesOfFlag

LEMMA InitReadInv == Init => ReadInv
<1> SUFFICES ASSUME Init PROVE ReadInv
  OBVIOUS
<1> USE DEF Init
<1>1. \A t : ValuesOf(t, values) = {}
  BY DEF ValuesOf
<1>2. Free(values) \subseteq Nat \ {0}
  BY InitWalkInv, ArgvShape DEF WalkInv, Free
<1>3. \A default : LastOf({}, default) = default
  BY DEF LastOf
<1>4. UNION {FlagsOf(argv[j]) : j \in {j \in Free(values) : j < i}} = {}
  BY <1>2
<1> QED BY <1>1, <1>3, <1>4 DEF ReadInv

\* The places passed are numbers, and so are the values.
LEMMA Places ==
  ASSUME WalkInv
  PROVE  /\ i \in Nat /\ i > 0 /\ Len(argv) \in Nat /\ DOMAIN argv = 1..Len(argv)
         /\ DOMAIN argv \subseteq Nat /\ values \subseteq Nat
BY ArgvShape DEF WalkInv, TypeOK

\* Nothing is read by a step that only moves on.
LEMMA NothingRead ==
  ASSUME ReadInv, UNCHANGED <<argv, params, flags, subcommand, values>>,
         \A j \in Free(values) : (pc = "parseArgs" => j < i)
                                    <=> (pc' = "parseArgs" => j < i'),
         \A j \in FreeWords(values) :
             (pc \notin {"parseArgs", "usage"} /\ j < i)
                <=> (pc' \notin {"parseArgs", "usage"} /\ j < i')
  PROVE  ReadInv'
<1>1. Free(values)' = Free(values) /\ FreeWords(values)' = FreeWords(values)
  BY DEF Free, FreeWords
<1>2. \A t : ValuesOf(t, values)' = ValuesOf(t, values)
  BY DEF ValuesOf
<1>3. /\ {j \in Free(values) : pc' = "parseArgs" => j < i'}
            = {j \in Free(values) : pc = "parseArgs" => j < i}
      /\ {j \in FreeWords(values) : pc' \notin {"parseArgs", "usage"} /\ j < i'}
            = {j \in FreeWords(values) : pc \notin {"parseArgs", "usage"} /\ j < i}
  OBVIOUS
<1>4. \A t \in Texts : params'[t] = LastOf(ValuesOf(t, values), Empty)'
  BY <1>2 DEF ReadInv, LastOf
<1>5. flags' = UNION {FlagsOf(argv'[j]) :
                         j \in {j \in Free(values)' : pc' = "parseArgs" => j < i'}}
  BY <1>1, <1>3 DEF ReadInv
<1>6. subcommand' = LastOf({j \in FreeWords(values)' :
                   pc' \notin {"parseArgs", "usage"} /\ j < i'}, "auth")
  BY <1>1, <1>3 DEF ReadInv
<1> QED BY <1>1, <1>2, <1>4, <1>5, <1>6 DEF ReadInv, LastOf

\* A value is the last of its option's, and its option is no flag.
LEMMA TakeValueReads ==
  ASSUME WalkInv, ReadInv, TakeValue PROVE ReadInv'
<1>1. /\ i \in Nat /\ i > 0 /\ DOMAIN argv \subseteq Nat
      /\ i \in DOMAIN argv /\ i + 1 \in DOMAIN argv /\ (i + 1) - 1 = i
      /\ argv' = argv /\ pc = "parseArgs" /\ pc' = "parseArgs" /\ i' = i + 2
      /\ argv[i] \in Valued /\ values' = values \cup {i + 1}
      /\ UNCHANGED <<flags, subcommand>>
      /\ params' = [params EXCEPT ![TextOf(argv[i])] = argv[i + 1]]
  BY Places DEF TakeValue, InLoop
<1>2. values \subseteq 1..(i - 1) /\ values \subseteq Nat
  BY <1>1, Places DEF WalkInv
<1>3. ASSUME NEW t \in Texts
      PROVE  params'[t] = LastOf(ValuesOf(t, values), Empty)'
  <2>1. CASE TextOf(argv[i]) = t
    <3>1. ValuesOf(t, values)' = ValuesOf(t, values) \cup {i + 1}
      BY <1>1, <1>2, <2>1 DEF ValuesOf
    <3>2. LastOf(ValuesOf(t, values) \cup {i + 1}, Empty) = argv[i + 1]
      <4>1. /\ ValuesOf(t, values) \in SUBSET Nat /\ i + 1 \in Nat
            /\ \A m \in ValuesOf(t, values) : m < i + 1
        <5>1. ValuesOf(t, values) \subseteq values
          BY DEF ValuesOf
        <5>2. \A m \in values : m \in Nat /\ m < i + 1
          BY <1>1, <1>2
        <5> QED BY <1>1, <5>1, <5>2
      <4> QED BY <4>1, LastOfLater
    <3>3. params'[t] = argv[i + 1]
      BY <1>1, <2>1 DEF WalkInv, TypeOK
    <3> QED BY <1>1, <3>1, <3>2, <3>3 DEF LastOf
  <2>2. CASE TextOf(argv[i]) # t
    <3>1. ValuesOf(t, values)' = ValuesOf(t, values)
      BY <1>1, <1>2, <2>2 DEF ValuesOf
    <3>2. params'[t] = params[t]
      BY <1>1, <2>2 DEF WalkInv, TypeOK
    <3> QED BY <1>1, <3>1, <3>2 DEF LastOf, ReadInv
  <2> QED BY <2>1, <2>2
<1>4. flags' = UNION {FlagsOf(argv[j]) : j \in {j \in Free(values') : j < i + 2}}
  <2> DEFINE passed == {j \in Free(values) : j < i}
  <2>1. {j \in Free(values') : j < i + 2} = passed \cup {i}
    BY <1>1, <1>2 DEF Free
  <2>2. FlagsOf(argv[i]) = {}
    BY <1>1, ValuedIsNoFlag
  <2>3. flags = UNION {FlagsOf(argv[j]) : j \in passed}
    BY <1>1 DEF ReadInv
  <2> QED BY <1>1, <2>1, <2>2, <2>3
<1>5. flags' = UNION {FlagsOf(argv'[j]) :
                         j \in {j \in Free(values)' : pc' = "parseArgs" => j < i'}}
  <2>1. Free(values)' = Free(values')
    BY <1>1 DEF Free
  <2>2. {j \in Free(values)' : pc' = "parseArgs" => j < i'}
           = {j \in Free(values') : j < i + 2}
    BY <1>1, <2>1
  <2>3. argv' = argv
    BY <1>1
  <2> QED BY <1>4, <2>2, <2>3
<1>6. subcommand' = LastOf({j \in FreeWords(values)' :
                   pc' \notin {"parseArgs", "usage"} /\ j < i'}, "auth")
  BY <1>1 DEF ReadInv
<1> QED BY <1>1, <1>3, <1>5, <1>6 DEF ReadInv, LastOf

\* A word sets its flag, if it is one.
LEMMA TakeWordReads ==
  ASSUME WalkInv, ReadInv, TakeWord PROVE ReadInv'
<1>1. /\ i \in Nat /\ i > 0 /\ DOMAIN argv \subseteq Nat
      /\ i \in DOMAIN argv /\ argv' = argv
      /\ pc = "parseArgs" /\ pc' = "parseArgs" /\ i' = i + 1
      /\ UNCHANGED <<params, subcommand, values>>
      /\ flags' = flags \cup FlagsOf(argv[i])
  BY Places DEF TakeWord, InLoop
<1>2. i \notin values
  BY <1>1 DEF WalkInv
<1>3. \A t : ValuesOf(t, values)' = ValuesOf(t, values)
  BY <1>1 DEF ValuesOf
<1>4. flags' = UNION {FlagsOf(argv[j]) : j \in {j \in Free(values) : j < i + 1}}
  <2> DEFINE passed == {j \in Free(values) : j < i}
  <2>1. {j \in Free(values) : j < i + 1} = passed \cup {i}
    BY <1>1, <1>2 DEF Free
  <2>2. flags = UNION {FlagsOf(argv[j]) : j \in passed}
    BY <1>1 DEF ReadInv
  <2> QED BY <1>1, <2>1, <2>2
<1>5. subcommand' = LastOf({}, "auth")
  BY <1>1 DEF ReadInv
<1>6. Free(values)' = Free(values)
  BY <1>1 DEF Free
<1> QED BY <1>1, <1>3, <1>4, <1>5, <1>6 DEF ReadInv, LastOf

\* A word that is neither skipped nor an option is the last subcommand.
LEMMA ReadWordReads ==
  ASSUME WalkInv, ReadInv, ReadWord PROVE ReadInv'
<1>1. /\ i \in Nat /\ i > 0 /\ DOMAIN argv \subseteq Nat
      /\ i \in DOMAIN argv /\ argv' = argv /\ argv[i] \notin Valued
      /\ pc = "parseSubcommand" /\ pc' = "parseSubcommand" /\ i' = i + 1
      /\ UNCHANGED <<params, flags, values>>
      /\ subcommand' = IF Positional(argv[i]) THEN argv[i] ELSE subcommand
  BY Places, SameOptions DEF ReadWord, InLoop
<1>2. i \notin values
  BY <1>1 DEF WalkInv
<1> DEFINE passed == {j \in FreeWords(values) : j < i}
<1>3. subcommand = LastOf(passed, "auth")
  BY <1>1 DEF ReadInv
<1>4. subcommand' = LastOf({j \in FreeWords(values) : j < i + 1}, "auth")
  <2>1. CASE Positional(argv[i])
    <3>1. {j \in FreeWords(values) : j < i + 1} = passed \cup {i}
      BY <1>1, <1>2, <2>1 DEF FreeWords, Free
    <3>2. passed \in SUBSET Nat /\ \A m \in passed : m < i
      BY <1>1 DEF FreeWords, Free
    <3> HIDE DEF passed
    <3> QED BY <1>1, <2>1, <3>1, <3>2, LastOfLater
  <2>2. CASE ~Positional(argv[i])
    <3>1. {j \in FreeWords(values) : j < i + 1} = passed
      BY <1>1, <2>2 DEF FreeWords, Free
    <3> QED BY <1>1, <1>3, <2>2, <3>1
  <2> QED BY <2>1, <2>2
<1>5. /\ Free(values)' = Free(values) /\ FreeWords(values)' = FreeWords(values)
      /\ \A t : ValuesOf(t, values)' = ValuesOf(t, values)
  BY <1>1 DEF Free, FreeWords, ValuesOf
<1> QED BY <1>1, <1>4, <1>5 DEF ReadInv, LastOf

\* Every step keeps what was read in line with the grammar.
LEMMA StepReadInv == WalkInv /\ ReadInv /\ [Next]_vars => ReadInv'
<1> SUFFICES ASSUME WalkInv, ReadInv, [Next]_vars PROVE ReadInv'
  OBVIOUS
<1>1. /\ Free(values) \subseteq 1..Len(argv) /\ FreeWords(values) \subseteq Free(values)
      /\ i \in Nat /\ Len(argv) \in Nat /\ DOMAIN argv = 1..Len(argv)
  BY Places DEF Free, FreeWords
<1>2. CASE ArgsParsed
  BY <1>1, <1>2, NothingRead DEF ArgsParsed
<1>3. CASE SkipValue
  <2>1. /\ i \in DOMAIN argv /\ argv[i] \in Valued /\ i \notin values
        /\ pc = "parseSubcommand" /\ pc' = pc /\ i' = i + 2
        /\ UNCHANGED <<argv, params, flags, subcommand, values>>
    BY <1>1, <1>3, Places, SameOptions DEF SkipValue, InLoop, WalkInv
  <2>2. i + 1 \in DOMAIN argv => i + 1 \in values
    <3>1. i + 1 > 1 /\ (i + 1) - 1 = i
      BY <1>1, <2>1
    <3> QED BY <2>1, <3>1 DEF WalkInv
  <2>3. i \notin FreeWords(values) /\ i + 1 \notin FreeWords(values)
    BY <2>1, <2>2 DEF FreeWords, Free
  <2>4. \A j \in FreeWords(values) : j < i <=> j < i + 2
    BY <1>1, <2>3
  <2> QED BY <2>1, <2>4, NothingRead
<1>4. CASE Run
  BY <1>4, NothingRead DEF Run
<1>5. CASE UNCHANGED vars
  BY <1>5, NothingRead DEF vars
<1> QED BY <1>2, <1>3, <1>4, <1>5, TakeValueReads, TakeWordReads, ReadWordReads
        DEF Next

\* IndInv holds in every state of both walks (main.cpp:69-129).
THEOREM ArgsInvariance == Spec => []IndInv
<1>1. Init => IndInv
  BY InitWalkInv, InitReadInv DEF IndInv
<1>2. IndInv /\ [Next]_vars => IndInv'
  BY StepWalkInv, StepReadInv DEF IndInv
<1> QED
  BY <1>1, <1>2, PTL DEF Spec

\* Every variable keeps its type; in particular neither index leaves its range
\* by more than the one step of a missing value (main.cpp:71, 117-123).
THEOREM ArgsTypeCorrect == Spec => []TypeOK
<1>1. IndInv => TypeOK
  BY DEF IndInv, WalkInv
<1> QED
  BY <1>1, ArgsInvariance, PTL

\* For command lines of every length: what one walk takes for values the other
\* skips, and nothing else (main.cpp:69-129).
THEOREM WalksAlwaysAgree == Spec => []WalksAgree
<1>1. IndInv => WalksAgree
  <2> SUFFICES ASSUME IndInv, Running PROVE values = skipped \cap DOMAIN argv
    BY DEF WalksAgree
  <2>1. i > Len(argv) /\ i \in Nat /\ TypeOK
    BY ArgvShape DEF IndInv, WalkInv, TypeOK
  <2>2. \A j \in DOMAIN argv : j < i
    BY <2>1, ArgvShape
  <2>3. \A j \in DOMAIN argv : j \in values <=> j \in skipped
    BY <2>2 DEF IndInv, WalkInv, Running
  <2> QED
    BY <2>3 DEF IndInv, WalkInv
<1> QED
  BY <1>1, ArgsInvariance, PTL

\* For command lines of every length: the options, the flags and the subcommand
\* are what the grammar of the arguments says (main.cpp:69-129).
THEOREM ReadsAlwaysAsGrammar == Spec => []ReadsAsGrammar
<1>1. IndInv => ReadsAsGrammar
  <2> SUFFICES ASSUME IndInv, Running
      PROVE  \E places \in SUBSET DOMAIN argv :
                /\ AreValues(places)
                /\ \A t \in Texts : params[t] = LastOf(ValuesOf(t, places), Empty)
                /\ flags = UNION {FlagsOf(argv[j]) : j \in Free(places)}
                /\ subcommand = LastOf(FreeWords(places), "auth")
    BY DEF ReadsAsGrammar
  <2>1. /\ i > Len(argv) /\ i \in Nat /\ DOMAIN argv = 1..Len(argv)
        /\ Len(argv) \in Nat /\ pc \notin {"parseArgs", "usage"}
        /\ values \in SUBSET DOMAIN argv
    BY Places DEF IndInv, WalkInv, Running
  <2>2. AreValues(values)
    BY <2>1 DEF AreValues, IndInv, WalkInv
  <2>3. {j \in Free(values) : pc = "parseArgs" => j < i} = Free(values)
    BY <2>1
  <2>4. {j \in FreeWords(values) : pc \notin {"parseArgs", "usage"} /\ j < i}
           = FreeWords(values)
    BY <2>1 DEF FreeWords, Free
  <2>5. /\ \A t \in Texts : params[t] = LastOf(ValuesOf(t, values), Empty)
        /\ flags = UNION {FlagsOf(argv[j]) : j \in Free(values)}
        /\ subcommand = LastOf(FreeWords(values), "auth")
    BY <2>3, <2>4 DEF IndInv, ReadInv
  <2> QED BY <2>1, <2>2, <2>5
<1> QED
  BY <1>1, ArgsInvariance, PTL

=============================================================================
