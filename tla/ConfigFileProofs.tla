-------------------------- MODULE ConfigFileProofs --------------------------
(***************************************************************************)
(* What other processes find in the configuration file, proved for texts   *)
(* of every kind and any number of saves, failures and kills.              *)
(***************************************************************************)
EXTENDS ConfigFile, TLAPS

\* Once a save has opened the file, a file that parses holds what it saves; what
\* fits the buffer is not there before the permissions are restricted.
IndInv ==
    /\ data \in ConfigData
    /\ last # "none" => exists /\ (parses => file = data)
    /\ last = "whole" => parses /\ at \in {"idle", "unopened"}
    /\ at \in {"open", "dumped", "closing"} => last = "begun"
    /\ at = "open" => ~parses
    /\ at = "dumped" /\ Buffered(data) => ~parses
    /\ at = "closing" => ~readable \/ unrestricted
    /\ ReadableOnlyIfLong

\* load gives back what a file that parses holds, and nothing of another.
LEMMA LoadReads ==
  ASSUME data \in ConfigData
  PROVE  /\ exists /\ parses /\ file = data => load = data
         /\ ~parses => load = Nothing
<1>1. data.username \in Texts /\ data.password \in Texts
      /\ data = [username |-> data.username, password |-> data.password]
  BY DEF ConfigData
<1>2. /\ data.username \notin {Absent, NoString}
      /\ data.password \notin {Absent, NoString}
  BY <1>1, ConfigFileTexts DEF Texts
<1>3. ASSUME exists, parses, file = data PROVE load = data
  BY <1>1, <1>2, <1>3 DEF load
<1>4. ASSUME ~parses PROVE load = Nothing
  BY <1>4 DEF load
<1> QED BY <1>3, <1>4

LEMMA InitEstablishes == ASSUME Init PROVE IndInv
BY DEF Init, IndInv, ReadableOnlyIfLong

LEMMA StepKeeps == ASSUME IndInv, [Next]_vars PROVE IndInv'
<1> USE DEF IndInv, ReadableOnlyIfLong
<1>1. CASE Open
  BY <1>1 DEF Open
<1>2. CASE OpenFails
  BY <1>2 DEF OpenFails
<1>3. CASE DumpThrows
  BY <1>3 DEF DumpThrows
<1>4. CASE Dump
  <2>1. CASE Buffered(data)
    BY <1>4, <2>1 DEF Dump, Buffered
  <2>2. CASE ~Buffered(data)
    BY <1>4, <2>2 DEF Dump, Flush, Buffered
  <2> QED BY <2>1, <2>2
<1>5. CASE Chmod
  <2>1. UNCHANGED <<exists, parses, file, data, last>>
        /\ at \in {"unopened", "dumped"}
        /\ at' = IF at = "dumped" THEN "closing" ELSE "idle"
    BY <1>5 DEF Chmod
  <2>2. CASE readable' = FALSE
    BY <2>1, <2>2 DEF Buffered
  <2>3. CASE UNCHANGED readable /\ unrestricted' = (at = "dumped" \/ unrestricted)
    <3>1. at = "dumped" \/ unrestricted => unrestricted'
      BY <2>3, Zenon
    <3> QED BY <2>1, <2>3, <3>1 DEF Buffered
  <2> QED BY <1>5, <2>2, <2>3 DEF Chmod
<1>6. CASE Close
  BY <1>6 DEF Close, Flush, Buffered
<1>7. CASE Killed
  BY <1>7 DEF Killed, Buffered
<1>8. CASE UNCHANGED vars
  BY <1>8 DEF vars, Buffered
<1> QED BY <1>1, <1>2, <1>3, <1>4, <1>5, <1>6, <1>7, <1>8 DEF Next

\* IndInv holds whatever happens to a save (Config.cpp:23-33).
THEOREM FileInvariance == Spec => []IndInv
<1>1. Init => IndInv
  BY InitEstablishes
<1>2. IndInv /\ [Next]_vars => IndInv'
  BY StepKeeps
<1> QED BY <1>1, <1>2, PTL DEF Spec

\* load finds the credentials of the last save or none (Config.cpp:8-33).
THEOREM SavesAreAllOrNothing == Spec => []SaveIsAllOrNothing
<1>1. IndInv => SaveIsAllOrNothing
  BY LoadReads DEF IndInv, SaveIsAllOrNothing
<1> QED BY <1>1, FileInvariance, PTL

\* Unless the chmod fails, only what does not fit the buffer is ever in a file
\* others may read (Config.cpp:28-32).
THEOREM OnlyLongIsReadable == Spec => []ReadableOnlyIfLong
<1>1. IndInv => ReadableOnlyIfLong
  BY DEF IndInv
<1> QED BY <1>1, FileInvariance, PTL

=============================================================================
