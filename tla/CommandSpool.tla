---------------------------- MODULE CommandSpool ----------------------------
(***************************************************************************)
(* The sending half of src/v008/IMS_uart.py: every two seconds the main    *)
(* thread lists send_data/, sends each JSON file in it to the MCU as one   *)
(* packet and removes the file. The files come from the server's side,     *)
(* which is not in the repository: a process that creates a file and then  *)
(* fills it.                                                               *)
(***************************************************************************)
EXTENDS Integers, FiniteSets

CONSTANTS
  Names,       \* file names in send_data/
  Commands,    \* contents of files, each written once
  Sendable,    \* commands with a packet: some mapped key, all values fit
  Unmapped,    \* commands without a key of the table; the others raise
  Absent,      \* no file of this name
  Torn,        \* a file that is no complete JSON text
  Nothing,     \* no command, no file
  Overwrites,  \* may the server write a name that is still there?
  MaxStops,    \* bound on the stops of the gateway
  MaxFaults    \* bound on failing calls of ser.write and os.remove

ASSUME SpoolAssumption ==
  /\ Sendable \subseteq Commands
  /\ Unmapped \subseteq Commands \ Sendable
  /\ Absent \notin Commands /\ Torn \notin Commands
  /\ Nothing \notin Commands /\ Nothing \notin Names
  /\ Absent # Torn
  /\ Overwrites \in BOOLEAN
  /\ MaxStops \in Nat /\ MaxFaults \in Nat

VARIABLES
  \* the directory and the server
  dir,       \* what each name holds
  writing,   \* the name the server is writing, or Nothing
  text,      \* the command it is writing there
  written,   \* commands whose file was completed
  \* the main thread
  pc,        \* where check_and_process_server_json is
  listing,   \* names of os.listdir that are still to be visited
  cur,       \* file_name
  loaded,    \* json_data
  table,     \* is send_mapping_table a table (else it is None)?
  \* the serial line and what goes wrong
  sent,      \* how often each command went out
  stops,
  faults

serverVars  == <<dir, writing, text, written>>
gatewayVars == <<pc, listing, cur, loaded>>
vars == <<serverVars, gatewayVars, table, sent, stops, faults>>

Files == {n \in Names : dir[n] # Absent}

TypeOK ==
  /\ dir \in [Names -> Commands \cup {Absent, Torn}]
  /\ writing \in Names \cup {Nothing}
  /\ text \in Commands \cup {Nothing}
  /\ written \subseteq Commands
  /\ pc \in {"sleep", "pick", "load", "send", "remove", "down"}
  /\ listing \subseteq Names
  /\ cur \in Names \cup {Nothing}
  /\ loaded \in Commands \cup {Nothing}
  /\ table \in BOOLEAN
  /\ sent \in [Commands -> Nat]
  /\ stops \in 0..MaxStops
  /\ faults \in 0..MaxFaults

Init ==
  /\ dir = [n \in Names |-> Absent]
  /\ writing = Nothing /\ text = Nothing /\ written = {}
  /\ pc = "sleep" /\ listing = {} /\ cur = Nothing /\ loaded = Nothing
  /\ table \in BOOLEAN
  /\ sent = [c \in Commands |-> 0]
  /\ stops = 0 /\ faults = 0

-----------------------------------------------------------------------------
(* The server's side.                                                      *)

\* No command is written twice at a time, and none is in two files.
BeginWrite(n, c) ==
  /\ writing = Nothing
  /\ dir[n] = Absent \/ Overwrites
  /\ c \notin written
  /\ dir' = [dir EXCEPT ![n] = Torn]
  /\ writing' = n /\ text' = c
  /\ UNCHANGED <<written, gatewayVars, table, sent, stops, faults>>

\* If the gateway has removed the file, the text goes where no name leads.
FinishWrite ==
  /\ writing # Nothing
  /\ dir' = IF dir[writing] = Torn THEN [dir EXCEPT ![writing] = text] ELSE dir
  /\ written' = written \cup {text}
  /\ writing' = Nothing /\ text' = Nothing
  /\ UNCHANGED <<gatewayVars, table, sent, stops, faults>>

\* The server breaks off and leaves what it has written.
AbortWrite ==
  /\ writing # Nothing
  /\ writing' = Nothing /\ text' = Nothing
  /\ UNCHANGED <<dir, written, gatewayVars, table, sent, stops, faults>>

-----------------------------------------------------------------------------
(* check_and_process_server_json.                                          *)

\* os.listdir, after time.sleep(2).
List ==
  /\ pc = "sleep"
  /\ pc' = "pick" /\ listing' = Files
  /\ UNCHANGED <<serverVars, cur, loaded, table, sent, stops, faults>>

\* The listing is in no particular order.
Pick(n) ==
  /\ pc = "pick" /\ n \in listing
  /\ pc' = "load" /\ cur' = n /\ listing' = listing \ {n}
  /\ UNCHANGED <<serverVars, loaded, table, sent, stops, faults>>

ListingDone ==
  /\ pc = "pick" /\ listing = {}
  /\ pc' = "sleep"
  /\ UNCHANGED <<serverVars, listing, cur, loaded, table, sent, stops, faults>>

\* What the loop variables are when the next name is due.
NextName == pc' = "pick" /\ cur' = Nothing /\ loaded' = Nothing

\* Variant: the file is removed when it has been read.
LoadAndRemove ==
  /\ pc = "load" /\ dir[cur] \in Commands
  /\ pc' = "send" /\ loaded' = dir[cur]
  /\ dir' = [dir EXCEPT ![cur] = Absent]
  /\ UNCHANGED <<writing, text, written, listing, cur, table, sent, stops, faults>>

Load ==
  /\ pc = "load" /\ dir[cur] \in Commands
  /\ pc' = "send" /\ loaded' = dir[cur]
  /\ UNCHANGED <<serverVars, listing, cur, table, sent, stops, faults>>

\* JSONDecodeError or FileNotFoundError: the file is left as it is.
LoadFails ==
  /\ pc = "load" /\ dir[cur] \notin Commands
  /\ NextName
  /\ UNCHANGED <<serverVars, listing, table, sent, stops, faults>>

Send ==
  /\ pc = "send" /\ table /\ loaded \in Sendable
  /\ pc' = "remove"
  /\ sent' = [sent EXCEPT ![loaded] = @ + 1]
  /\ UNCHANGED <<serverVars, listing, cur, loaded, table, stops, faults>>

NothingToSend ==
  /\ pc = "send" /\ table /\ loaded \in Unmapped
  /\ pc' = "remove"
  /\ UNCHANGED <<serverVars, listing, cur, loaded, table, sent, stops, faults>>

\* Variant: the try statement is around the loop.
ConversionEndsScan ==
  /\ pc = "send"
  /\ ~table \/ loaded \notin Sendable \cup Unmapped
  /\ pc' = "sleep" /\ listing' = {} /\ cur' = Nothing /\ loaded' = Nothing
  /\ UNCHANGED <<serverVars, table, sent, stops, faults>>

\* The table is None, or a value does not convert, or does not fit two
\* bytes, or there are more fields than fit one.
ConversionFails ==
  /\ pc = "send"
  /\ ~table \/ loaded \notin Sendable \cup Unmapped
  /\ NextName
  /\ UNCHANGED <<serverVars, listing, table, sent, stops, faults>>

\* Variant: the file is removed in a finally clause.
WriteFailsAndRemoves ==
  /\ pc = "send" /\ table /\ loaded \in Sendable
  /\ faults < MaxFaults /\ faults' = faults + 1
  /\ dir' = [dir EXCEPT ![cur] = Absent]
  /\ NextName
  /\ UNCHANGED <<writing, text, written, listing, table, sent, stops>>

WriteFails ==
  /\ pc = "send" /\ table /\ loaded \in Sendable
  /\ faults < MaxFaults /\ faults' = faults + 1
  /\ NextName
  /\ UNCHANGED <<serverVars, listing, table, sent, stops>>

\* Variant: os.remove is commented out, as in src/V007/uart/IMS_uart.py.
KeepFile ==
  /\ pc = "remove"
  /\ NextName
  /\ UNCHANGED <<serverVars, listing, table, sent, stops, faults>>

Remove ==
  /\ pc = "remove"
  /\ dir' = [dir EXCEPT ![cur] = Absent]
  /\ NextName
  /\ UNCHANGED <<writing, text, written, listing, table, sent, stops, faults>>

RemoveFails ==
  /\ pc = "remove"
  /\ faults < MaxFaults /\ faults' = faults + 1
  /\ NextName
  /\ UNCHANGED <<serverVars, listing, table, sent, stops>>

GatewayStep ==
  \/ List \/ (\E n \in Names : Pick(n)) \/ ListingDone
  \/ Load \/ LoadFails
  \/ Send \/ NothingToSend \/ ConversionFails \/ WriteFails
  \/ Remove \/ RemoveFails

\* A KeyboardInterrupt, which except Exception lets through, or a power cut,
\* between any two steps; the directory stays.
Stop ==
  /\ pc # "down" /\ stops < MaxStops
  /\ pc' = "down" /\ stops' = stops + 1
  /\ listing' = {} /\ cur' = Nothing /\ loaded' = Nothing
  /\ UNCHANGED <<serverVars, table, sent, faults>>

\* main, from the top: the table file is as it was.
Start ==
  /\ pc = "down" /\ pc' = "sleep"
  /\ UNCHANGED <<serverVars, listing, cur, loaded, table, sent, stops, faults>>

ServerStep ==
  \/ \E n \in Names, c \in Commands : BeginWrite(n, c)
  \/ FinishWrite \/ AbortWrite

Next == ServerStep \/ GatewayStep \/ Stop \/ Start

\* A running gateway goes on and a stopped one is started again; the server
\* owes nothing.
Fairness == WF_vars(GatewayStep) /\ WF_vars(Start)

Spec == Init /\ [][Next]_vars /\ Fairness

-----------------------------------------------------------------------------
(* Properties.                                                             *)

Waiting == {dir[n] : n \in Names} \cap Commands
Sent    == {c \in Commands : sent[c] > 0}

\* As long as the server takes a new name for a new command, a command for
\* the MCU is in the directory until it has been sent, across stops, failing
\* calls and files that cannot be processed.
NoCommandLost == written \cap Sendable \subseteq Waiting \cup Sent

\* The MCU gets a command again only if the gateway was stopped, or a call
\* failed, between ser.write and os.remove.
BoundedRepetition == \A c \in Commands : sent[c] <= 1 + stops + faults

\* A file that cannot be processed delays no other command: each is sent
\* once its file is complete.
EveryCommandSent ==
  \A c \in Sendable : c \in written /\ table ~> c \in Sent

\* The directory keeps the promise of CommandDelivery.
Delivery == INSTANCE CommandDelivery
  WITH submitted <- written, delivered <- Sent, retired <- written \ Waiting

DeliveryKept == Delivery!Spec
=============================================================================
