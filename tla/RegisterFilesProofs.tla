------------------------ MODULE RegisterFilesProofs ------------------------
(***************************************************************************)
(* SavedStays, and that a save in three calls is a save in one step, for   *)
(* any keys, files and bounds.                                             *)
(***************************************************************************)
EXTENDS RegisterFiles, TLAPS

\* The file in hand, and what was loaded from it.
HandInv ==
  /\ pc = "dump" => FileOf[key] \in torn
  /\ pc = "open" => data = IF FileOf[key] \in torn THEN Empty ELSE files[FileOf[key]]
  /\ pc \in {"open", "dump"} /\ FileOf[key] \notin damaged =>
       \A k \in Keys : FileOf[k] = FileOf[key] => data[k] = saved[k]

\* A torn file was left behind, unless it is being written.
TornInv ==
  \A f \in torn : f \in damaged \/ (pc = "dump" /\ f = FileOf[key])

IInv == TypeOK /\ HandInv /\ TornInv /\ SavedStays

-----------------------------------------------------------------------------
LEMMA FileIsFile == \A k \in Keys : FileOf[k] \in Files
BY RegisterAssumption DEF Files

LEMMA InitInv == Init => IInv
<1> SUFFICES ASSUME Init PROVE IInv
  OBVIOUS
<1> USE DEF Init, Empty
<1>1. TypeOK
  BY RegisterAssumption DEF TypeOK, Contents
<1>2. HandInv /\ TornInv
  BY DEF HandInv, TornInv
<1>3. SavedStays
  BY FileIsFile DEF SavedStays
<1> QED
  BY <1>1, <1>2, <1>3 DEF IInv

LEMMA TypeStep == TypeOK /\ [Next]_vars => TypeOK'
<1> SUFFICES ASSUME TypeOK, [Next]_vars PROVE TypeOK'
  OBVIOUS
<1> USE RegisterAssumption, FileIsFile DEF TypeOK, Contents
<1>1. ASSUME NEW k \in Keys, NEW v \in Values, Report(k, v) PROVE TypeOK'
  BY <1>1 DEF Report
<1>2. CASE Load
  <2>1. files[FileOf[key]] \in Contents /\ Empty \in Contents
    BY DEF Empty
  <2>2. data' \in Contents
    BY <1>2, <2>1 DEF Load
  <2> QED
    BY <1>2, <2>2 DEF Load
<1>3. CASE OpenForWriting
  BY <1>3 DEF OpenForWriting
<1>4. CASE Dump
  <2>1. Merged \in Contents
    BY DEF Merged
  <2>2. files' \in [Files -> Contents] /\ saved' \in Contents
    BY <1>4, <2>1 DEF Dump
  <2> QED
    BY <1>4, <2>2 DEF Dump
<1>5. CASE CallFails
  <2>1. faults' \in 0..MaxFaults
    BY <1>5 DEF CallFails
  <2> QED
    BY <1>5, <2>1 DEF CallFails, LeaveBehind
<1>6. CASE Stop
  <2>1. stops' \in 0..MaxStops
    BY <1>6 DEF Stop
  <2> QED
    BY <1>6, <2>1 DEF Stop, LeaveBehind
<1>7. CASE Restart
  BY <1>7 DEF Restart
<1>8. CASE UNCHANGED vars
  BY <1>8 DEF vars
<1> QED
  BY <1>1, <1>2, <1>3, <1>4, <1>5, <1>6, <1>7, <1>8 DEF Next, Step

\* A call that fails and a stop have the same effect on the files.
LEMMA MishapStep ==
  ASSUME IInv, CallFails \/ Stop
  PROVE  HandInv' /\ TornInv' /\ SavedStays'
<1>1. pc' \in {"idle", "down"} /\ UNCHANGED <<key, data, files, torn, saved>>
  BY DEF CallFails, Stop
<1>2. damaged \subseteq damaged'
  BY DEF CallFails, Stop, LeaveBehind
<1>3. pc = "dump" => FileOf[key] \in damaged'
  BY DEF CallFails, Stop, LeaveBehind
<1>4. HandInv'
  BY <1>1 DEF HandInv
<1>5. TornInv'
  BY <1>1, <1>2, <1>3 DEF IInv, TornInv
<1>6. SavedStays'
  BY <1>1, <1>2 DEF IInv, SavedStays
<1> QED
  BY <1>4, <1>5, <1>6

LEMMA DumpStep ==
  ASSUME IInv, Dump
  PROVE  HandInv' /\ TornInv' /\ SavedStays'
<1> USE RegisterAssumption, FileIsFile DEF IInv, TypeOK, Dump
<1>1. HandInv'
  BY DEF HandInv
<1>2. TornInv'
  BY DEF TornInv
<1>3. ASSUME NEW k \in Keys, FileOf[k] \notin damaged', FileOf[k] \notin torn'
      PROVE  files'[FileOf[k]][k] = saved'[k]
  <2>1. CASE FileOf[k] = FileOf[key]
    <3>1. files'[FileOf[k]][k] = Merged[k]
      BY <2>1
    <3>2. data[k] = saved[k]
      BY <1>3, <2>1 DEF HandInv
    <3>3. Merged[k] = IF k = key THEN value ELSE data[k]
      BY DEF Merged, Contents
    <3>4. saved'[k] = IF k = key THEN value ELSE saved[k]
      BY DEF Contents
    <3> QED
      BY <3>1, <3>2, <3>3, <3>4
  <2>2. CASE FileOf[k] # FileOf[key]
    <3>1. files'[FileOf[k]] = files[FileOf[k]]
      BY <2>2
    <3>2. k # key /\ saved'[k] = saved[k]
      BY <2>2 DEF Contents
    <3>3. FileOf[k] \notin torn
      BY <1>3, <2>2
    <3> QED
      BY <1>3, <3>1, <3>2, <3>3 DEF SavedStays
  <2> QED
    BY <2>1, <2>2
<1>4. SavedStays'
  BY <1>3 DEF SavedStays
<1> QED
  BY <1>1, <1>2, <1>4

LEMMA NextInv == IInv /\ [Next]_vars => IInv'
<1> SUFFICES ASSUME IInv, [Next]_vars PROVE IInv'
  OBVIOUS
<1>1. TypeOK'
  BY TypeStep DEF IInv
<1>2. ASSUME NEW k \in Keys, NEW v \in Values, Report(k, v)
      PROVE  HandInv' /\ TornInv' /\ SavedStays'
  BY <1>2 DEF Report, IInv, HandInv, TornInv, SavedStays
<1>3. ASSUME Load PROVE HandInv' /\ TornInv' /\ SavedStays'
  <2>0. /\ pc = "load" /\ pc' = "open"
        /\ data' = IF FileOf[key] \in torn THEN Empty ELSE files[FileOf[key]]
        /\ UNCHANGED <<key, value, files, torn, saved, damaged>>
    BY <1>3 DEF Load
  <2>1. FileOf[key] \in torn => FileOf[key] \in damaged
    BY <2>0 DEF IInv, TornInv
  <2>2. ASSUME FileOf[key] \notin damaged, NEW k \in Keys, FileOf[k] = FileOf[key]
        PROVE  data'[k] = saved[k]
    <3>1. FileOf[key] \notin torn /\ data' = files[FileOf[key]]
      BY <2>0, <2>1, <2>2
    <3> QED
      BY <2>2, <3>1 DEF IInv, SavedStays
  <2>3. HandInv'
    BY <2>0, <2>2 DEF HandInv, Empty
  <2>4. TornInv' /\ SavedStays'
    BY <2>0 DEF IInv, TornInv, SavedStays
  <2> QED
    BY <2>3, <2>4
<1>4. ASSUME OpenForWriting PROVE HandInv' /\ TornInv' /\ SavedStays'
  <2>0. /\ pc = "open" /\ pc' = "dump" /\ torn' = torn \cup {FileOf[key]}
        /\ UNCHANGED <<key, value, data, files, saved, damaged>>
    BY <1>4 DEF OpenForWriting
  <2> QED
    BY <2>0 DEF IInv, HandInv, TornInv, SavedStays
<1>5. ASSUME Dump PROVE HandInv' /\ TornInv' /\ SavedStays'
  BY <1>5, DumpStep
<1>6. ASSUME CallFails \/ Stop PROVE HandInv' /\ TornInv' /\ SavedStays'
  BY <1>6, MishapStep
<1>7. ASSUME Restart PROVE HandInv' /\ TornInv' /\ SavedStays'
  BY <1>7 DEF Restart, IInv, HandInv, TornInv, SavedStays
<1>8. ASSUME UNCHANGED vars PROVE HandInv' /\ TornInv' /\ SavedStays'
  BY <1>8 DEF vars, IInv, HandInv, TornInv, SavedStays, Empty
<1> QED
  BY <1>1, <1>2, <1>3, <1>4, <1>5, <1>6, <1>7, <1>8 DEF Next, Step, IInv

\* The variables have their types: the counters stay within their bounds and
\* a file holds values of keys only.
THEOREM TypeCorrect == Spec => []TypeOK
BY InitInv, NextInv, PTL DEF Spec, IInv

\* A file that parses and was never left torn holds the last saved values.
THEOREM SavesStay == Spec => []SavedStays
BY InitInv, NextInv, PTL DEF Spec, IInv

-----------------------------------------------------------------------------
(* The refinement.                                                         *)

Held == [k \in Keys |-> Holds(k)]

\* Only the contents, the torn files, the file in hand and whether it is
\* being written matter for what counts.
LEMMA SameHolds ==
  ASSUME UNCHANGED <<files, torn, key, data>>, Writing' <=> Writing
  PROVE  Held' = Held
BY DEF Held, Holds

LEMMA OpenKeeps == ASSUME IInv, OpenForWriting PROVE Held' = Held
<1>1. ASSUME NEW k \in Keys PROVE Holds(k)' = Holds(k)
  <2>1. CASE FileOf[k] = FileOf[key]
    BY <2>1, <1>1 DEF OpenForWriting, Holds, Writing, IInv, HandInv, Empty
  <2>2. CASE FileOf[k] # FileOf[key]
    BY <2>2 DEF OpenForWriting, Holds, Writing
  <2> QED
    BY <2>1, <2>2
<1> QED
  BY <1>1 DEF Held

LEMMA DumpSaves == ASSUME IInv, Dump PROVE Held' = [Held EXCEPT ![key] = value]
<1> USE RegisterAssumption, FileIsFile DEF IInv, TypeOK, Contents
<1>1. ASSUME NEW k \in Keys PROVE Holds(k)' = IF k = key THEN value ELSE Holds(k)
  <2>1. CASE FileOf[k] = FileOf[key]
    <3>1. Holds(k)' = Merged[k]
      BY <2>1 DEF Dump, Holds
    <3>2. Holds(k) = data[k]
      BY <2>1 DEF Dump, Holds, Writing, HandInv
    <3>3. Merged[k] = IF k = key THEN value ELSE data[k]
      BY DEF Merged
    <3> QED
      BY <3>1, <3>2, <3>3
  <2>2. CASE FileOf[k] # FileOf[key]
    <3>1. k # key /\ files'[FileOf[k]] = files[FileOf[k]]
      BY <2>2 DEF Dump
    <3>2. FileOf[k] \in torn' <=> FileOf[k] \in torn
      BY <2>2 DEF Dump
    <3> QED
      BY <2>2, <3>1, <3>2 DEF Dump, Holds, Writing
  <2> QED
    BY <2>1, <2>2
<1> QED
  BY <1>1 DEF Held

LEMMA MishapLoses ==
  ASSUME IInv, CallFails \/ Stop
  PROVE  \/ Held' = Held
         \/ Held' = [k \in Keys |-> IF FileOf[k] = FileOf[key] THEN NoValue ELSE Held[k]]
<1>1. UNCHANGED <<key, data, files, torn>> /\ pc' # "dump"
  BY DEF CallFails, Stop
<1>2. CASE Writing
  <2>1. FileOf[key] \in torn
    BY <1>2 DEF IInv, HandInv, Writing
  <2>2. ASSUME NEW k \in Keys
        PROVE  Holds(k)' = IF FileOf[k] = FileOf[key] THEN NoValue ELSE Holds(k)
    BY <1>1, <1>2, <2>1 DEF Holds, Writing
  <2> QED
    BY <2>2 DEF Held
<1>3. CASE ~Writing
  BY <1>1, <1>3, SameHolds DEF Writing
<1> QED
  BY <1>2, <1>3

Mishaps == (MaxStops - stops) + (MaxFaults - faults)

LEMMA StepRefines == IInv /\ [Next]_vars => [Store!Next]_(Store!vars)
<1> SUFFICES ASSUME IInv, [Next]_vars PROVE [Store!Next]_(Store!vars)
  OBVIOUS
<1>0. Held = [k \in Keys |-> Holds(k)] /\ Held' = [k \in Keys |-> Holds(k)']
  BY DEF Held
<1>a. ASSUME UNCHANGED <<stops, faults>>, Held' = Held PROVE UNCHANGED Store!vars
  BY <1>a DEF Store!vars, Held
<1>1. ASSUME NEW k \in Keys, NEW v \in Values, Report(k, v) PROVE UNCHANGED Store!vars
  <2>1. Held' = Held
    <3>1. ASSUME NEW j \in Keys PROVE Holds(j)' = Holds(j)
      BY <1>1 DEF Report, Holds, Writing
    <3> QED
      BY <3>1 DEF Held
  <2> QED
    BY <1>1, <1>a, <2>1 DEF Report
<1>2. CASE Load
  <2>1. ASSUME NEW j \in Keys PROVE Holds(j)' = Holds(j)
    BY <1>2 DEF Load, Holds, Writing
  <2> QED
    BY <1>2, <1>a, <2>1 DEF Load, Held
<1>3. CASE OpenForWriting
  BY <1>3, <1>a, OpenKeeps DEF OpenForWriting
<1>4. CASE Dump
  <2>1. Store!Save(key, value)
    BY <1>4, DumpSaves DEF Store!Save, Held, Dump
  <2> QED
    BY <2>1 DEF IInv, TypeOK, Store!Next
<1>5. CASE CallFails \/ Stop
  <2>1. Mishaps > 0 /\ Mishaps' = Mishaps - 1
    BY <1>5, RegisterAssumption DEF Mishaps, CallFails, Stop, IInv, TypeOK
  <2>2. Held' = Held \/ Held' = Store!Without(FileOf[key])
    BY <1>5, MishapLoses DEF Held, Store!Without
  <2>3. Store!Mishap
    BY <2>1, <2>2 DEF Store!Mishap, Held, Mishaps, IInv, TypeOK
  <2> QED
    BY <2>3 DEF Store!Next
<1>6. CASE Restart
  BY <1>6, <1>a, SameHolds DEF Restart, Writing
<1>7. CASE UNCHANGED vars
  BY <1>7, <1>a, SameHolds DEF vars, Writing
<1> QED
  BY <1>1, <1>2, <1>3, <1>4, <1>5, <1>6, <1>7 DEF Next, Step

\* The register files implement RegisterStore: every save is one step, and
\* only a mishap loses values, those of one file.
THEOREM ImplementsRegisterStore == Spec => ImplementsStore
<1>1. ASSUME Init PROVE Store!Init
  <2>1. ASSUME NEW k \in Keys PROVE Holds(k) = NoValue
    BY <1>1, FileIsFile DEF Init, Holds, Empty
  <2>2. (MaxStops - stops) + (MaxFaults - faults) \in Nat
    BY <1>1, RegisterAssumption DEF Init
  <2> QED
    BY <2>1, <2>2 DEF Store!Init
<1> QED
  BY <1>1, InitInv, NextInv, StepRefines, PTL
  DEF Spec, ImplementsStore, Store!Spec
=============================================================================
