------------------------------ MODULE CliArgs ------------------------------
(***************************************************************************)
(* How the program reads its command line (src/main.cpp): parseArgs walks  *)
(* the arguments for options, then parseSubcommand walks them again for    *)
(* the subcommand, with a list of its own of the options that take a       *)
(* value.  A step is one turn of a loop.                                   *)
(***************************************************************************)
EXTENDS Naturals, Sequences

CONSTANTS
    Words,     \* what an argument can be
    MaxArgs    \* bound on their number

ASSUME CliArgsConstants == Words \subseteq STRING /\ MaxArgs \in Nat

VARIABLES
    argv,        \* the arguments after the program's name
    i,           \* the loops' index
    params,      \* the texts in CliParams
    flags,       \* the members of CliParams that are true
    subcommand,
    pc,          \* which loop runs, or where main went after them
    values,      \* history: the places of what parseArgs took for values
    skipped      \* history: the places parseSubcommand skipped

vars == <<argv, i, params, flags, subcommand, pc, values, skipped>>

Empty == ""

Texts == {"username", "password", "configPath", "acId", "caFile"}

Flags == {"daemon", "keepOnline", "ipv6", "help", "campusOnly", "noCheck"}

\* The options of parseArgs: with a value ...
NamesOfText ==
    [username |-> {"-u", "--username"}, password |-> {"-p", "--password"},
     configPath |-> {"-c", "--config"}, acId |-> {"--ac-id"},
     caFile |-> {"--ca-file"}]

\* ... and without.
NamesOfFlag ==
    [daemon |-> {"-D", "--daemon"}, keepOnline |-> {"-k", "--keep-online"},
     ipv6 |-> {"-6", "--ipv6"}, help |-> {"-h", "--help"},
     campusOnly |-> {"--campus-only"}, noCheck |-> {"--no-check"}]

Valued == UNION {NamesOfText[t] : t \in Texts}
TextOf(option) == CHOOSE t \in Texts : option \in NamesOfText[t]
FlagsOf(option) == {f \in Flags : option \in NamesOfFlag[f]}

\* Mutant: an option added to parseArgs was forgotten in parseSubcommand.
SkippingButCaFile == {"-u", "--username", "-p", "--password", "-c",
                      "--config", "--ac-id"}

\* The list in parseSubcommand.
Skipping == {"-u", "--username", "-p", "--password", "-c", "--config",
             "--ac-id", "--ca-file"}

\* arg[0] != '-', which an empty argument passes too
Positional(arg) == arg = Empty \/ SubSeq(arg, 1, 1) # "-"

Init ==
    /\ argv \in UNION {[1..len -> Words] : len \in 0..MaxArgs}
    /\ i = 1
    /\ params = [t \in Texts |-> Empty]
    /\ flags = {}
    /\ subcommand = "auth"
    /\ pc = "parseArgs"
    /\ values = {} /\ skipped = {}

-----------------------------------------------------------------------------

InLoop(loop) == pc = loop /\ i <= Len(argv) /\ UNCHANGED <<argv, pc>>

\* Mutant: the value is looked at again as an argument.
TakeValueAgain ==
    /\ InLoop("parseArgs") /\ argv[i] \in Valued /\ i < Len(argv)
    /\ params' = [params EXCEPT ![TextOf(argv[i])] = argv[i + 1]]
    /\ values' = values \cup {i + 1}
    /\ i' = i + 1
    /\ UNCHANGED <<flags, subcommand, skipped>>

TakeValue ==
    /\ InLoop("parseArgs") /\ argv[i] \in Valued /\ i < Len(argv)
    /\ params' = [params EXCEPT ![TextOf(argv[i])] = argv[i + 1]]
    /\ values' = values \cup {i + 1}
    /\ i' = i + 2
    /\ UNCHANGED <<flags, subcommand, skipped>>

\* A flag, an option whose value is missing, a word that is no option, or an
\* option the program does not know.
TakeWord ==
    /\ InLoop("parseArgs") /\ ~(argv[i] \in Valued /\ i < Len(argv))
    /\ flags' = flags \cup FlagsOf(argv[i])
    /\ i' = i + 1
    /\ UNCHANGED <<params, subcommand, values, skipped>>

\* main between the loops: --help prints the usage and returns.
ArgsParsed ==
    /\ pc = "parseArgs" /\ i > Len(argv)
    /\ pc' = IF "help" \in flags THEN "usage" ELSE "parseSubcommand"
    /\ i' = 1
    /\ UNCHANGED <<argv, params, flags, subcommand, values, skipped>>

SkipValue ==
    /\ InLoop("parseSubcommand") /\ argv[i] \in Skipping
    /\ skipped' = skipped \cup {i + 1}
    /\ i' = i + 2
    /\ UNCHANGED <<params, flags, subcommand, values>>

ReadWord ==
    /\ InLoop("parseSubcommand") /\ argv[i] \notin Skipping
    /\ subcommand' = IF Positional(argv[i]) THEN argv[i] ELSE subcommand
    /\ i' = i + 1
    /\ UNCHANGED <<params, flags, values, skipped>>

\* doDeauth or, for whatever else the word is, doAuth.
Run ==
    /\ pc = "parseSubcommand" /\ i > Len(argv)
    /\ pc' = IF subcommand = "deauth" THEN "doDeauth" ELSE "doAuth"
    /\ UNCHANGED <<argv, i, params, flags, subcommand, values, skipped>>

Next == TakeValue \/ TakeWord \/ ArgsParsed \/ SkipValue \/ ReadWord \/ Run

Spec == Init /\ [][Next]_vars

-----------------------------------------------------------------------------
(* Safety.                                                                 *)

TypeOK ==
    /\ argv \in Seq(Words) /\ Len(argv) <= MaxArgs
    /\ i \in 1..(Len(argv) + 2)
    /\ params \in [Texts -> Words \cup {Empty}]
    /\ flags \subseteq Flags
    /\ subcommand \in Words \cup {"auth"}
    /\ pc \in {"parseArgs", "usage", "parseSubcommand", "doAuth", "doDeauth"}
    /\ values \cup skipped \subseteq 2..(Len(argv) + 1)

Running == pc \in {"doAuth", "doDeauth"}

\* The two walks agree on which arguments are values: a password, name or path
\* is never taken for the subcommand, and a subcommand never for a value
\* (main.cpp:69-129).
WalksAgree == Running => values = skipped \cap DOMAIN argv

\* The grammar: the values are the arguments after an option that takes one
\* and is not a value itself.  There is one such set for every command line.
AreValues(places) ==
    \A j \in DOMAIN argv :
        j \in places <=> j > 1 /\ argv[j - 1] \in Valued /\ j - 1 \notin places

ValuesOf(t, places) == {j \in places : TextOf(argv[j - 1]) = t}
Free(places) == DOMAIN argv \ places
FreeWords(places) ==
    {j \in Free(places) : argv[j] \notin Valued /\ Positional(argv[j])}

LastOf(places, default) ==
    IF places = {} THEN default
    ELSE argv[CHOOSE j \in places : \A m \in places : m <= j]

\* Of an option that is given twice the last value counts, of several words
\* that are no values the last is the subcommand, and where no value follows
\* the option is as if absent (main.cpp:69-129).
ReadsAsGrammar ==
    Running => \E places \in SUBSET DOMAIN argv :
        /\ AreValues(places)
        /\ \A t \in Texts : params[t] = LastOf(ValuesOf(t, places), Empty)
        /\ flags = UNION {FlagsOf(argv[j]) : j \in Free(places)}
        /\ subcommand = LastOf(FreeWords(places), "auth")

-----------------------------------------------------------------------------
(* The inductive invariant.                                                *)

\* A place is a value if the one before it is an option that takes one and no
\* value itself, up to where the first walk is; and the second walk has skipped
\* the same up to where it is, which is no value.
WalkInv ==
    /\ TypeOK
    /\ values \subseteq DOMAIN argv
    /\ \A j \in DOMAIN argv : (j <= i \/ pc # "parseArgs") =>
           (j \in values <=> /\ j > 1 /\ argv[j - 1] \in Valued
                             /\ j - 1 \notin values)
    /\ pc = "parseArgs" => values \subseteq 1..(i - 1)
    /\ pc \in {"parseArgs", "usage"} => skipped = {}
    /\ pc \notin {"parseArgs", "usage"} =>
           /\ i \notin values
           /\ skipped \subseteq 1..(i - 1)
           /\ \A j \in DOMAIN argv : j < i => (j \in values <=> j \in skipped)
    /\ Running => i > Len(argv)

\* What was read is what the grammar makes of the arguments passed so far.
ReadInv ==
    /\ \A t \in Texts : params[t] = LastOf(ValuesOf(t, values), Empty)
    /\ LET passed == {j \in Free(values) : pc = "parseArgs" => j < i}
       IN  flags = UNION {FlagsOf(argv[j]) : j \in passed}
    /\ LET passed == {j \in FreeWords(values) :
                          pc \notin {"parseArgs", "usage"} /\ j < i}
       IN  subcommand = LastOf(passed, "auth")

IndInv == WalkInv /\ ReadInv

-----------------------------------------------------------------------------
(* What the program's own texts say of it.                                 *)

\* "./thulogin username" (README.md:22): a word alone is the user's name.
WordIsUsername ==
    Running /\ Len(argv) = 1 /\ Positional(argv[1]) /\ argv[1] \notin {"auth", "deauth"}
        => params["username"] = argv[1]

=============================================================================
