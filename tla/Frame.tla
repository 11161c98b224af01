------------------------------- MODULE Frame -------------------------------
(***************************************************************************)
(* The packets on the serial line between the gateway and the MCU, as      *)
(* src/v008/IMS_uart.py reads and builds them:                             *)
(*                                                                         *)
(*   D1 | set info | quantity | quantity x (address, value) | checksum     *)
(*                                                                         *)
(* with two bytes for an address and two for a value, most significant     *)
(* byte first, and a checksum that is the XOR of every byte before it.     *)
(* Sequences are indexed from 1 here and from 0 in the code.               *)
(***************************************************************************)
EXTENDS Integers, FiniteSets, SequencesExt

Byte == 0..255

MaxWord == 65535
Word == 0..MaxWord

StartCode   == 209   \* D1
ReportInfo  ==  64   \* 40, the set info of packets from the MCU
CommandInfo ==  16   \* 10, the set info of packets to the MCU

Field == [id : Word, value : Word]

-----------------------------------------------------------------------------
Bit(n, i) == (n \div 2^i) % 2

\* The XOR of all the bytes: bit i is set when an odd number of them set it.
calculate_checksum(data) ==
  LET parity(i) == Cardinality({j \in DOMAIN data : Bit(data[j], i) = 1}) % 2
  IN  parity(0) + 2 * parity(1) + 4 * parity(2) + 8 * parity(3)
        + 16 * parity(4) + 32 * parity(5) + 64 * parity(6) + 128 * parity(7)

verify_checksum(data) == Last(data) = calculate_checksum(Front(data))

\* Indexing past the end of the packet raises IndexError, and nothing of
\* the packet is used.
Extractable(data, quantity) == Len(data) >= 3 + 4 * quantity

\* Variant: the value is read one byte early and as three bytes.
extract_wide_fields(data, quantity) ==
  [i \in 1..quantity |->
     [id    |-> data[4 * i] * 256 + data[4 * i + 1],
      value |-> data[4 * i + 1] * 65536 + data[4 * i + 2] * 256 + data[4 * i + 3]]]

extract_data_fields(data, quantity) ==
  [i \in 1..quantity |->
     [id    |-> data[4 * i] * 256 + data[4 * i + 1],
      value |-> data[4 * i + 2] * 256 + data[4 * i + 3]]]

-----------------------------------------------------------------------------
\* The four bytes of a field.
FieldBytes(f) == <<f.id \div 256, f.id % 256, f.value \div 256, f.value % 256>>

\* What precedes the checksum in a packet.
Content(info, fields) ==
  <<StartCode, info, Len(fields)>>
    \o [i \in 1..4 * Len(fields) |->
          FieldBytes(fields[((i - 1) \div 4) + 1])[((i - 1) % 4) + 1]]

Packet(info, fields) ==
  Append(Content(info, fields), calculate_checksum(Content(info, fields)))
=============================================================================
