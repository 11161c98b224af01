---------------------------- MODULE PacketReader ----------------------------
(***************************************************************************)
(* What the programs that read packets of the MCU have in common: the      *)
(* reports and the mapping table, the bytes that wait to be read, the      *)
(* place in the program and the JSON files. UartReceiver is the program of *)
(* v008, UartRetry the prototype of V006.                                  *)
(***************************************************************************)
EXTENDS Frame

CONSTANTS
  Reports,       \* the field sequences the MCU sends, one packet each
  MappingTable,  \* mapping_table.json: a function from addresses to keys
  FileOf         \*   and the file of each key

ASSUME ReportsAssumption ==
  /\ Reports \subseteq Seq(Field)
  /\ \A r \in Reports : Len(r) \in Byte
  /\ DOMAIN MappingTable \subseteq Word

VARIABLES
  line,  \* bytes in the driver's buffer
  pc,    \* where the reader is
  store, \* what the JSON files hold
  missed \* keys whose last save failed or whose file was emptied since

Keys     == Range(MappingTable)
NoValue  == 65536   \* a key that a file does not hold
Contents == [Keys -> Word \cup {NoValue}]

Packets         == [r \in Reports |-> Packet(ReportInfo, r)]
ReportPacket(r) == Packets[r]

Mapped(f) == f.id \in DOMAIN MappingTable
KeyOf(f)  == MappingTable[f.id]

\* What a save that fails may cost: nothing, or the file, which is emptied
\* before it is written (see RegisterFiles) and then does not parse.
SameFile(key)           == {k \in Keys : FileOf[k] = FileOf[key]}
Emptied(contents, torn) == [k \in Keys |-> IF k \in torn THEN NoValue ELSE contents[k]]
=============================================================================
