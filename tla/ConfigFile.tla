----------------------------- MODULE ConfigFile -----------------------------
(* Config::save and Config::load (src/Config.cpp): the file ~/.auth-thu as   *)
(* other processes find it at any moment, while the program saves, fails or  *)
(* is killed. The program itself never calls save.                           *)
EXTENDS Naturals

CONSTANTS
    Short,          \* texts whose JSON fits the buffer of the stream
    Long,           \* texts whose JSON does not
    Garbage         \* texts that are no UTF-8: json::dump throws

Empty == ""
Absent == "no such key"
NoString == "a value that is no string"

ASSUME ConfigFileTexts ==
    /\ Short \cap Long = {} /\ (Short \cup Long) \cap Garbage = {}
    /\ {Empty, Absent, NoString} \cap (Short \cup Long \cup Garbage) = {}

Texts == Short \cup Long \cup Garbage
ConfigData == [username : Texts, password : Texts]

Fields == {Absent, NoString} \cup Texts

Dumps(d) == d.username \notin Garbage /\ d.password \notin Garbage
Buffered(d) == d.username \in Short /\ d.password \in Short

VARIABLES
    exists,         \* the file is there
    parses,         \* it is a JSON object; if not, it is empty or cut short
    file,           \* the two fields of the object
    readable,       \* other users may read it
    at,             \* where save is
    data,           \* what it saves
    last,           \* history: the last save that opened the file
    unrestricted    \* history: did its chmod fail?

vars == <<exists, parses, file, readable, at, data, last, unrestricted>>

Nothing == [username |-> Empty, password |-> Empty]

(* Config::load: the first field that is no string ends the reading. *)
load ==
    LET Given(f) == IF f \in {Absent, NoString} THEN Empty ELSE f
    IN  IF exists /\ parses /\ file.username # NoString
        THEN [username |-> Given(file.username), password |-> Given(file.password)]
        ELSE Nothing

-----------------------------------------------------------------------------
(* A file made by hand, or none. *)
Init ==
    /\ exists \in BOOLEAN /\ parses \in BOOLEAN /\ readable \in BOOLEAN
    /\ file \in [username : Fields, password : Fields]
    /\ ~parses => file = [username |-> Absent, password |-> Absent]
    /\ ~exists => ~parses /\ ~readable
    /\ at = "idle" /\ data \in ConfigData /\ last = "none"
    /\ unrestricted = FALSE

(* What reaches the file when the stream is flushed: all of it, or less when *)
(* the disk is full, which nobody asks the stream about.                     *)
Flush ==
    \/ parses' = TRUE /\ file' = data
    \/ UNCHANGED <<parses, file>>

(* Mutant: the file is opened without being emptied, and keeps the old       *)
(* object when nothing comes to be written.                                  *)
OpenInPlace ==
    /\ at = "idle" /\ at' = "open"
    /\ data' \in ConfigData
    /\ exists' = TRUE
    /\ UNCHANGED <<parses, file>>
    /\ IF exists THEN UNCHANGED readable ELSE readable' \in BOOLEAN
    /\ last' = "begun" /\ unrestricted' = FALSE

Open ==
    /\ at = "idle" /\ at' = "open"
    /\ data' \in ConfigData
    /\ exists' = TRUE
    /\ parses' = FALSE /\ file' = [username |-> Absent, password |-> Absent]
    /\ IF exists THEN UNCHANGED readable ELSE readable' \in BOOLEAN     \* umask
    /\ last' = "begun" /\ unrestricted' = FALSE

(* The text goes nowhere, and nobody asks; the permissions still change.     *)
OpenFails ==
    /\ at = "idle" /\ at' = "unopened"
    /\ UNCHANGED <<exists, parses, file, readable, data, last, unrestricted>>

DumpThrows ==
    /\ at = "open" /\ ~Dumps(data) /\ at' = "idle"
    /\ UNCHANGED <<exists, parses, file, readable, data, last, unrestricted>>

(* Mutant: the text is flushed at once, before the chmod. *)
DumpFlushed ==
    /\ at = "open" /\ Dumps(data) /\ at' = "dumped"
    /\ Flush
    /\ UNCHANGED <<exists, readable, data, last, unrestricted>>

Dump ==
    /\ at = "open" /\ Dumps(data) /\ at' = "dumped"
    /\ IF Buffered(data) THEN UNCHANGED <<parses, file>> ELSE Flush
    /\ UNCHANGED <<exists, readable, data, last, unrestricted>>

(* chmod may fail, on a file of another user say, and nobody asks.           *)
Chmod ==
    /\ at \in {"unopened", "dumped"}
    /\ at' = IF at = "dumped" THEN "closing" ELSE "idle"
    /\ \/ readable' = FALSE /\ UNCHANGED unrestricted
       \/ UNCHANGED readable /\ unrestricted' = (at = "dumped" \/ unrestricted)
    /\ UNCHANGED <<exists, parses, file, data, last>>

Close ==
    /\ at = "closing" /\ at' = "idle"
    /\ IF Buffered(data) THEN Flush ELSE UNCHANGED <<parses, file>>
    /\ last' = IF parses' THEN "whole" ELSE "begun"
    /\ UNCHANGED <<exists, readable, data, unrestricted>>

Killed ==
    /\ at # "idle" /\ at' = "idle"
    /\ UNCHANGED <<exists, parses, file, readable, data, last, unrestricted>>

Next == Open \/ OpenFails \/ DumpThrows \/ Dump \/ Chmod \/ Close \/ Killed

Spec == Init /\ [][Next]_vars

-----------------------------------------------------------------------------
(* While save is at work, and after it was killed, threw or filled the disk,  *)
(* load finds the credentials of that very save or none at all: never the    *)
(* older ones, and never a name with the password of another save. Once a    *)
(* save has ended well, load finds what it saved.                            *)
SaveIsAllOrNothing ==
    /\ last # "none" => load \in {Nothing, data}
    /\ last = "whole" => load = data

(* save restricts the permissions before the destructor of the stream writes *)
(* the file, so credentials that fit the buffer are in a file others may read *)
(* only if its own chmod failed, and never because the program was killed.   *)
(* Longer ones are, for good if it is killed before the chmod.               *)
ReadableOnlyIfLong ==
    last # "none" /\ readable /\ parses => ~Buffered(data) \/ unrestricted
=============================================================================
