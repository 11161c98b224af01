--------------------------- MODULE RegisterFiles ---------------------------
(***************************************************************************)
(* save_data_to_file of src/v008/IMS_uart.py, call by call. The listener   *)
(* reads a register file, empties it, and writes it with one value         *)
(* changed; it can be stopped between any two of these, and each of them   *)
(* can fail. A file that does not parse counts as an empty one. (In        *)
(* UartReceiver a save is one step; here is why it may be.)                *)
(***************************************************************************)
EXTENDS Integers

CONSTANTS
  Keys, Values,
  NoValue,     \* the value of a key that a file does not hold
  FileOf,      \* the file each key is in (mapping_table.json)
  MaxStops,    \* bounds: stops of the program,
  MaxFaults    \*   calls that fail

Files == {FileOf[k] : k \in Keys}

ASSUME RegisterAssumption ==
  /\ FileOf = [k \in Keys |-> FileOf[k]]
  /\ NoValue \notin Values
  /\ MaxStops \in Nat /\ MaxFaults \in Nat

VARIABLES
  pc,       \* what the listener does next
  key, value,
  data,     \* what it has loaded
  files,    \* what the files hold
  torn,     \* files that were emptied and not written
  \* history and bounds
  saved,    \* the last value of each key whose save was finished
  damaged,  \* files that were ever left torn
  stops, faults

vars == <<pc, key, value, data, files, torn, saved, damaged, stops, faults>>

Contents == [Keys -> Values \cup {NoValue}]
Empty    == [k \in Keys |-> NoValue]

TypeOK ==
  /\ pc \in {"idle", "load", "open", "dump", "down"}
  /\ key \in Keys /\ value \in Values
  /\ data \in Contents
  /\ files \in [Files -> Contents]
  /\ torn \subseteq Files
  /\ saved \in Contents /\ damaged \subseteq Files
  /\ stops \in 0..MaxStops /\ faults \in 0..MaxFaults

Init ==
  /\ pc = "idle" /\ key \in Keys /\ value \in Values /\ data = Empty
  /\ files = [f \in Files |-> Empty] /\ torn = {}
  /\ saved = Empty /\ damaged = {}
  /\ stops = 0 /\ faults = 0

-----------------------------------------------------------------------------

\* A report of the MCU.
Report(k, v) ==
  /\ pc = "idle" /\ pc' = "load"
  /\ key' = k /\ value' = v
  /\ UNCHANGED <<data, files, torn, saved, damaged, stops, faults>>

\* Variant: the file is not read.
LoadNothing ==
  /\ pc = "load" /\ pc' = "open" /\ data' = Empty
  /\ UNCHANGED <<key, value, files, torn, saved, damaged, stops, faults>>

\* A file that is not there is as good as an empty table.
Load ==
  /\ pc = "load" /\ pc' = "open"
  /\ data' = IF FileOf[key] \in torn THEN Empty ELSE files[FileOf[key]]
  /\ UNCHANGED <<key, value, files, torn, saved, damaged, stops, faults>>

OpenForWriting ==
  /\ pc = "open" /\ pc' = "dump"
  /\ torn' = torn \cup {FileOf[key]}
  /\ UNCHANGED <<key, value, data, files, saved, damaged, stops, faults>>

\* Variant: the new value alone is written.
Changed == [Empty EXCEPT ![key] = value]

Merged == [data EXCEPT ![key] = value]

Dump ==
  /\ pc = "dump" /\ pc' = "idle"
  /\ files' = [files EXCEPT ![FileOf[key]] = Merged]
  /\ torn' = torn \ {FileOf[key]}
  /\ saved' = [saved EXCEPT ![key] = value]
  /\ UNCHANGED <<key, value, data, damaged, stops, faults>>

\* What was being written when the save ended early is damaged.
LeaveBehind == damaged' = IF pc = "dump" THEN damaged \cup {FileOf[key]} ELSE damaged

\* Every exception is caught and logged, and the value dropped.
CallFails ==
  /\ pc \in {"load", "open", "dump"} /\ faults < MaxFaults
  /\ faults' = faults + 1 /\ pc' = "idle"
  /\ LeaveBehind
  /\ UNCHANGED <<key, value, data, files, torn, saved, stops>>

\* The board loses its power or the process is killed, anywhere in a save.
Stop ==
  /\ pc # "down" /\ stops < MaxStops
  /\ stops' = stops + 1 /\ pc' = "down"
  /\ LeaveBehind
  /\ UNCHANGED <<key, value, data, files, torn, saved, faults>>

Restart ==
  /\ pc = "down" /\ pc' = "idle"
  /\ UNCHANGED <<key, value, data, files, torn, saved, damaged, stops, faults>>

Step == Load \/ OpenForWriting \/ Dump

Next ==
  \/ \E k \in Keys, v \in Values : Report(k, v)
  \/ Step \/ CallFails \/ Stop \/ Restart

Spec == Init /\ [][Next]_vars

-----------------------------------------------------------------------------
(* Properties.                                                             *)

\* A whole file that was never left torn holds the last saved value of every
\* one of its keys, whatever has happened to other files and whatever saves
\* have failed. A reader that finds a file it can parse finds that.
SavedStays ==
  \A k \in Keys :
    FileOf[k] \notin damaged /\ FileOf[k] \notin torn =>
      files[FileOf[k]][k] = saved[k]

\* The values as they count: those of a whole file, those that have been
\* loaded from the file that is being written, and none of a file that was
\* left torn.
Writing == pc = "dump"

Holds(k) ==
  IF FileOf[k] \notin torn THEN files[FileOf[k]][k]
  ELSE IF Writing /\ FileOf[k] = FileOf[key] THEN data[k]
  ELSE NoValue

Store == INSTANCE RegisterStore WITH
           store   <- [k \in Keys |-> Holds(k)],
           mishaps <- (MaxStops - stops) + (MaxFaults - faults)

\* Emptying and writing a file amounts to one step that changes one key;
\* values are lost only by a stop or a failing call, each of which costs
\* one file at most.
ImplementsStore == Store!Spec
=============================================================================
