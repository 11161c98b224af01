------------------------- MODULE UartProofs ---------------------------------
(***************************************************************************)
(* What holds of the two programs that read packets, for any reports,      *)
(* mapping table and bounds. A packet is read back as it was built. Of the *)
(* receiver: types are kept, the port is not closed under a reader, and    *)
(* what the files hold is what was reported. Of the prototype with         *)
(* retries: types are kept, and what the files hold when the line is quiet *)
(* is what the MCU sent last.                                              *)
(***************************************************************************)
EXTENDS UartReceiver, UartRetry, FiniteSetTheorems, SequenceTheorems, TLAPS

-----------------------------------------------------------------------------
(* Packets, whatever their fields.                                         *)

LEMMA EightBits ==
  ASSUME NEW p \in [0..7 -> 0..1]
  PROVE  p[0] + 2 * p[1] + 4 * p[2] + 8 * p[3]
           + 16 * p[4] + 32 * p[5] + 64 * p[6] + 128 * p[7] \in Byte
  BY DEF Byte

LEMMA ChecksumType ==
  ASSUME NEW bytes \in Seq(Byte) PROVE calculate_checksum(bytes) \in Byte
<1> DEFINE S(i) == {j \in DOMAIN bytes : Bit(bytes[j], i) = 1}
<1>1. ASSUME NEW i PROVE Cardinality(S(i)) % 2 \in 0..1
  <2>1. IsFiniteSet(DOMAIN bytes)
    BY FS_Interval, LenProperties
  <2>2. IsFiniteSet(S(i)) /\ Cardinality(S(i)) \in Nat
    BY <2>1, FS_Subset, FS_CardinalityType
  <2> QED
    BY <2>2
<1> DEFINE parity == [i \in 0..7 |-> Cardinality(S(i)) % 2]
<1>2. parity \in [0..7 -> 0..1]
  BY <1>1
<1>3. calculate_checksum(bytes) =
        parity[0] + 2 * parity[1] + 4 * parity[2] + 8 * parity[3]
          + 16 * parity[4] + 32 * parity[5] + 64 * parity[6] + 128 * parity[7]
  BY DEF calculate_checksum
<1> HIDE DEF parity
<1> QED
  BY <1>2, <1>3, EightBits

\* A word is made of its two bytes.
LEMMA WordBytes ==
  ASSUME NEW w \in Word
  PROVE  /\ w \div 256 \in Byte /\ w % 256 \in Byte
         /\ (w \div 256) * 256 + (w % 256) = w
<1>1. w \in Nat /\ w < 65536
  BY DEF Word, MaxWord
<1>2. w \div 256 \in Nat /\ w % 256 \in 0..255 /\ w = 256 * (w \div 256) + (w % 256)
  BY <1>1
<1> QED
  BY <1>1, <1>2 DEF Byte

LEMMA FieldBytesType ==
  ASSUME NEW f \in Field
  PROVE  /\ f.id \div 256 \in Byte /\ f.id % 256 \in Byte
         /\ f.value \div 256 \in Byte /\ f.value % 256 \in Byte
  BY WordBytes DEF Field

\* What three bytes in front of a sequence do to its indices.
LEMMA AfterHeader ==
  ASSUME NEW head \in Seq(Byte), NEW body \in Seq(Byte), Len(head) = 3
  PROVE  /\ head \o body \in Seq(Byte)
         /\ Len(head \o body) = 3 + Len(body)
         /\ \A i \in 1..3 : (head \o body)[i] = head[i]
         /\ \A i \in 1..Len(body) : (head \o body)[i + 3] = body[i]
<1> DEFINE all == head \o body
<1>1. /\ all \in Seq(Byte) /\ Len(all) = 3 + Len(body)
      /\ \A i \in 1..3 + Len(body) :
           all[i] = IF i <= 3 THEN head[i] ELSE body[i - 3]
  <2>1. /\ all \in Seq(Byte) /\ Len(all) = Len(head) + Len(body)
        /\ \A i \in 1..Len(head) + Len(body) :
             all[i] = IF i <= Len(head) THEN head[i] ELSE body[i - Len(head)]
    BY ConcatProperties, Zenon
  <2> QED
    BY <2>1, Zenon
<1>2. Len(body) \in Nat
  BY LenProperties
<1> HIDE DEF all
<1>3. ASSUME NEW i \in 1..Len(body) PROVE all[i + 3] = body[i]
  <2>1. i + 3 \in 1..3 + Len(body) /\ ~(i + 3 <= 3) /\ (i + 3) - 3 = i
    BY <1>2
  <2> QED
    BY <1>1, <2>1
<1>4. \A i \in 1..3 : all[i] = head[i]
  BY <1>1, <1>2
<1> QED
  BY <1>1, <1>3, <1>4 DEF all

LEMMA ContentType ==
  ASSUME NEW info \in Byte, NEW fields \in Seq(Field), Len(fields) \in Byte
  PROVE  /\ Content(info, fields) \in Seq(Byte)
         /\ Len(Content(info, fields)) = 3 + 4 * Len(fields)
         /\ Content(info, fields)[2] = info
         /\ Content(info, fields)[3] = Len(fields)
         /\ \A i \in 1..Len(fields) :
              /\ Content(info, fields)[4 * i]     = fields[i].id \div 256
              /\ Content(info, fields)[4 * i + 1] = fields[i].id % 256
              /\ Content(info, fields)[4 * i + 2] = fields[i].value \div 256
              /\ Content(info, fields)[4 * i + 3] = fields[i].value % 256
<1> DEFINE q == Len(fields)
           head == <<StartCode, info, q>>
           body == [i \in 1..4 * q |->
                      FieldBytes(fields[((i - 1) \div 4) + 1])[((i - 1) % 4) + 1]]
<1>1. head \in Seq(Byte) /\ Len(head) = 3
  BY DEF StartCode, Byte
<1>2. ASSUME NEW i \in 1..4 * q PROVE body[i] \in Byte
  <2>1. ((i - 1) \div 4) + 1 \in 1..q /\ ((i - 1) % 4) + 1 \in 1..4
    OBVIOUS
  <2>2. fields[((i - 1) \div 4) + 1] \in Field
    BY <2>1
  <2> QED
    BY <2>1, <2>2, FieldBytesType DEF FieldBytes
<1>3. body \in Seq(Byte) /\ Len(body) = 4 * q
  BY <1>2
<1>4. Content(info, fields) = head \o body
  BY DEF Content
<1>5. ASSUME NEW i \in 1..q
      PROVE  /\ body[4 * i - 3] = fields[i].id \div 256
             /\ body[4 * i - 2] = fields[i].id % 256
             /\ body[4 * i - 1] = fields[i].value \div 256
             /\ body[4 * i]     = fields[i].value % 256
  <2>1. /\ (4 * i - 3 - 1) \div 4 = i - 1 /\ (4 * i - 3 - 1) % 4 = 0
        /\ (4 * i - 2 - 1) \div 4 = i - 1 /\ (4 * i - 2 - 1) % 4 = 1
        /\ (4 * i - 1 - 1) \div 4 = i - 1 /\ (4 * i - 1 - 1) % 4 = 2
        /\ (4 * i - 1) \div 4 = i - 1 /\ (4 * i - 1) % 4 = 3
    OBVIOUS
  <2> QED
    BY <2>1 DEF FieldBytes
<1> HIDE DEF head, body
<1> DEFINE all == head \o body
<1>6. /\ all \in Seq(Byte) /\ Len(all) = 3 + 4 * q
      /\ \A i \in 1..3 : all[i] = head[i]
      /\ \A i \in 1..4 * q : all[i + 3] = body[i]
  <2>1. /\ head \o body \in Seq(Byte) /\ Len(head \o body) = 3 + Len(body)
        /\ \A i \in 1..3 : (head \o body)[i] = head[i]
        /\ \A i \in 1..Len(body) : (head \o body)[i + 3] = body[i]
    BY <1>1, <1>3, AfterHeader, Zenon
  <2> QED
    BY <1>3, <2>1, Zenon
<1>7. all[2] = info /\ all[3] = q
  BY <1>6 DEF head
<1> HIDE DEF all
<1>8. ASSUME NEW i \in 1..q
      PROVE  /\ all[4 * i] = body[4 * i - 3]
             /\ all[4 * i + 1] = body[4 * i - 2]
             /\ all[4 * i + 2] = body[4 * i - 1]
             /\ all[4 * i + 3] = body[4 * i]
  <2>1. /\ 4 * i - 3 \in 1..4 * q /\ 4 * i - 2 \in 1..4 * q
        /\ 4 * i - 1 \in 1..4 * q /\ 4 * i \in 1..4 * q
        /\ (4 * i - 3) + 3 = 4 * i /\ (4 * i - 2) + 3 = 4 * i + 1
        /\ (4 * i - 1) + 3 = 4 * i + 2
    OBVIOUS
  <2> QED
    BY <2>1, <1>6
<1>9. Content(info, fields) = all
  BY <1>4 DEF all
<1> QED
  BY <1>5, <1>6, <1>7, <1>8, <1>9

LEMMA AppendedByte ==
  ASSUME NEW s \in Seq(Byte), NEW b \in Byte
  PROVE  /\ Append(s, b) \in Seq(Byte)
         /\ Len(Append(s, b)) = Len(s) + 1
         /\ \A i \in 1..Len(s) : Append(s, b)[i] = s[i]
  BY AppendProperties

\* A packet is a sequence of bytes; its set info and quantity are where the
\* receiver looks for them.
LEMMA PacketType ==
  ASSUME NEW info \in Byte, NEW fields \in Seq(Field), Len(fields) \in Byte
  PROVE  /\ Packet(info, fields) \in Seq(Byte)
         /\ Len(Packet(info, fields)) = 4 + 4 * Len(fields)
         /\ Packet(info, fields)[2] = info
         /\ Packet(info, fields)[3] = Len(fields)
<1> DEFINE c == Content(info, fields)
<1>1. /\ c \in Seq(Byte) /\ Len(c) = 3 + 4 * Len(fields)
      /\ c[2] = info /\ c[3] = Len(fields)
  BY ContentType
<1>2. Packet(info, fields) = Append(c, calculate_checksum(c))
  BY DEF Packet
<1>3. calculate_checksum(c) \in Byte
  BY <1>1, ChecksumType
<1> HIDE DEF c
<1> QED
  <2> DEFINE all == Append(c, calculate_checksum(c))
  <2>1. /\ all \in Seq(Byte) /\ Len(all) = Len(c) + 1
        /\ \A i \in 1..Len(c) : all[i] = c[i]
    BY <1>1, <1>3, AppendedByte, Zenon
  <2>2. Len(fields) \in Nat
    BY LenProperties
  <2> HIDE DEF all
  <2>3. Len(all) = 4 + 4 * Len(fields) /\ 2 \in 1..Len(c) /\ 3 \in 1..Len(c)
    BY <1>1, <2>1, <2>2
  <2>4. Packet(info, fields) = all
    BY <1>2 DEF all
  <2> QED
    BY <1>1, <2>1, <2>3, <2>4, Zenon

\* The receiver's checks and extract_data_fields undo process_json_and_send,
\* for any number of fields that fits the quantity byte and any values.
THEOREM RoundTrip ==
  ASSUME NEW info \in Byte, NEW fields \in Seq(Field), Len(fields) \in Byte
  PROVE  /\ verify_checksum(Packet(info, fields))
         /\ Extractable(Packet(info, fields), Len(fields))
         /\ extract_data_fields(Packet(info, fields), Len(fields)) = fields
<1> DEFINE c == Content(info, fields)
           p == Packet(info, fields)
<1>1. c \in Seq(Byte) /\ Len(c) = 3 + 4 * Len(fields)
  BY ContentType
<1>2. p = Append(c, calculate_checksum(c))
  BY DEF Packet
<1> HIDE DEF c, p
<1>3. verify_checksum(p)
  <2>1. Last(p) = calculate_checksum(c)
    BY <1>1, <1>2 DEF Last
  <2>2. Front(p) = c
    BY <1>1, <1>2 DEF Front
  <2> QED
    BY <2>1, <2>2 DEF verify_checksum
<1>4. Extractable(p, Len(fields))
  BY <1>1, <1>2 DEF Extractable
<1>5. \A i \in 1..3 + 4 * Len(fields) : p[i] = c[i]
  BY <1>1, <1>2
<1>6. ASSUME NEW i \in 1..Len(fields)
      PROVE  extract_data_fields(p, Len(fields))[i] = fields[i]
  <2>1. fields[i] \in Field
    OBVIOUS
  <2>2. /\ p[4 * i]     = fields[i].id \div 256
        /\ p[4 * i + 1] = fields[i].id % 256
        /\ p[4 * i + 2] = fields[i].value \div 256
        /\ p[4 * i + 3] = fields[i].value % 256
    BY <1>5, ContentType DEF c
  <2>3. /\ (fields[i].id \div 256) * 256 + (fields[i].id % 256) = fields[i].id
        /\ (fields[i].value \div 256) * 256 + (fields[i].value % 256)
             = fields[i].value
    BY <2>1, WordBytes DEF Field
  <2>4. extract_data_fields(p, Len(fields))[i]
          = [id |-> fields[i].id, value |-> fields[i].value]
    BY <2>2, <2>3 DEF extract_data_fields
  <2> QED
    BY <2>1, <2>4 DEF Field
<1>7. extract_data_fields(p, Len(fields)) = fields
  <2>1. /\ DOMAIN extract_data_fields(p, Len(fields)) = 1..Len(fields)
        /\ extract_data_fields(p, Len(fields))
             = [i \in 1..Len(fields) |-> extract_data_fields(p, Len(fields))[i]]
    BY DEF extract_data_fields
  <2>2. fields = [i \in 1..Len(fields) |-> fields[i]]
    OBVIOUS
  <2> QED
    BY <1>6, <2>1, <2>2
<1> QED
  BY <1>3, <1>4, <1>7 DEF p

-----------------------------------------------------------------------------
(* Types, and the shutdown.                                                *)

\* What the main thread knows of the listener once join has returned.
ShutdownInv ==
  /\ main \in {"joining", "closing", "exited"} => ~running
  /\ main \in {"closing", "exited"} => pc \in {"test", "apply", "exec", "done"}
  /\ port = "closed" => main = "exited"

\* The quantity has been read when the body is.
DataInv == pc = "body" => Len(data) >= 3

IInv == ReceiverTypeOK /\ ShutdownInv /\ DataInv

-----------------------------------------------------------------------------
LEMMA ReportPacketIs ==
  ASSUME NEW r \in Reports PROVE ReportPacket(r) = Packet(ReportInfo, r)
  BY DEF ReportPacket, Packets

LEMMA ReportPacketType ==
  ASSUME NEW r \in Reports
  PROVE  ReportPacket(r) \in Seq(Byte)
<1>1. r \in Seq(Field) /\ Len(r) \in Byte
  BY ReportsAssumption
<1>2. ReportInfo \in Byte
  BY DEF ReportInfo, Byte
<1> QED
  BY <1>1, <1>2, PacketType, ReportPacketIs

LEMMA InWord ==
  ASSUME NEW n \in Int, 0 <= n, n <= 65535 PROVE n \in Word
<1>1. n <= MaxWord /\ MaxWord \in Int
  BY DEF MaxWord
<1> QED
  BY <1>1 DEF Word

LEMMA TwoBytes ==
  ASSUME NEW high \in Byte, NEW low \in Byte PROVE (high * 256) + low \in Word
<1>1. /\ high \in Int /\ 0 <= high /\ high <= 255
      /\ low \in Int /\ 0 <= low /\ low <= 255
  BY DEF Byte
<1>2. /\ (high * 256) + low \in Int
      /\ 0 <= (high * 256) + low /\ (high * 256) + low <= 65535
  BY <1>1
<1> QED
  BY <1>2, InWord

LEMMA FieldsType ==
  ASSUME NEW packet \in Seq(Byte), NEW q \in Nat, Extractable(packet, q)
  PROVE  extract_data_fields(packet, q) \in Seq(Field)
<1>1. ASSUME NEW i \in 1..q PROVE extract_data_fields(packet, q)[i] \in Field
  <2>1. /\ 4 * i \in 1..Len(packet) /\ 4 * i + 1 \in 1..Len(packet)
        /\ 4 * i + 2 \in 1..Len(packet) /\ 4 * i + 3 \in 1..Len(packet)
    BY LenProperties DEF Extractable
  <2>2. /\ packet[4 * i] \in Byte /\ packet[4 * i + 1] \in Byte
        /\ packet[4 * i + 2] \in Byte /\ packet[4 * i + 3] \in Byte
    BY <2>1, ElementOfSeq
  <2>3. /\ packet[4 * i] * 256 + packet[4 * i + 1] \in Word
        /\ packet[4 * i + 2] * 256 + packet[4 * i + 3] \in Word
    BY <2>2, TwoBytes
  <2>4. extract_data_fields(packet, q)[i] =
          [id    |-> packet[4 * i] * 256 + packet[4 * i + 1],
           value |-> packet[4 * i + 2] * 256 + packet[4 * i + 3]]
    BY DEF extract_data_fields
  <2> QED
    BY <2>3, <2>4 DEF Field
<1> QED
  BY <1>1 DEF extract_data_fields

LEMMA UpdatedType ==
  ASSUME NEW contents \in Contents, NEW r \in Reports
  PROVE  Updated(contents, r) \in Contents
<1>1. r \in Seq(Field) /\ Len(r) \in Nat /\ DOMAIN r = 1..Len(r)
  BY ReportsAssumption, LenProperties
<1>2. ASSUME NEW k \in Keys PROVE Updated(contents, r)[k] \in Word \cup {NoValue}
  <2>1. CASE \E i \in DOMAIN r : LastFor(k, r, i)
    <3> DEFINE i == CHOOSE i \in DOMAIN r : LastFor(k, r, i)
    <3>1. i \in 1..Len(r)
      BY <1>1, <2>1
    <3>2. r[i].value \in Word
      <4>1. r[i] \in Field
        BY <1>1, <3>1, ElementOfSeq
      <4> HIDE DEF i
      <4> QED
        BY <4>1 DEF Field
    <3>3. Updated(contents, r)[k] = r[i].value
      BY <2>1 DEF Updated
    <3> QED
      BY <3>2, <3>3
  <2>2. CASE ~ \E i \in DOMAIN r : LastFor(k, r, i)
    BY <2>2 DEF Updated, Contents
  <2> QED
    BY <2>1, <2>2
<1> QED
  BY <1>2 DEF Updated, Contents

LEMMA SaveType ==
  ASSUME NEW contents \in Contents, NEW f \in Field, Mapped(f)
  PROVE  Save(contents, f) \in Contents
<1>1. KeyOf(f) \in Keys
  BY DEF Keys, KeyOf, Mapped, Range
<1>2. f.value \in Word
  BY DEF Field
<1> QED
  BY <1>1, <1>2 DEF Save, Contents
-----------------------------------------------------------------------------
LEMMA InitInv == Init => IInv
<1> SUFFICES ASSUME Init PROVE IInv
  OBVIOUS
<1>1. toSend \in Seq(Byte)
  <2>1. CASE toSend = <<>>
    BY <2>1
  <2>2. CASE \E r \in Reports : \E gone \in 1..Len(ReportPacket(r)) - 1 :
               toSend = SubSeq(ReportPacket(r), gone + 1, Len(ReportPacket(r)))
    <3>1. PICK r \in Reports : \E gone \in 1..Len(ReportPacket(r)) - 1 :
                 toSend = SubSeq(ReportPacket(r), gone + 1, Len(ReportPacket(r)))
      BY <2>2
    <3>2. ReportPacket(r) \in Seq(Byte) /\ Len(ReportPacket(r)) \in Nat
      BY ReportPacketType, LenProperties
    <3>3. PICK gone \in 1..Len(ReportPacket(r)) - 1 :
                 toSend = SubSeq(ReportPacket(r), gone + 1, Len(ReportPacket(r)))
      BY <3>1
    <3>4. gone + 1 \in Int /\ Len(ReportPacket(r)) \in Int
      BY <3>2
    <3>5. \A i \in gone + 1..Len(ReportPacket(r)) : ReportPacket(r)[i] \in Byte
      <4>1. \A i \in gone + 1..Len(ReportPacket(r)) : i \in 1..Len(ReportPacket(r))
        BY <3>2
      <4> QED
        BY <3>2, <4>1, ElementOfSeq
    <3> QED
      BY <3>3, <3>4, <3>5, SubSeqProperties
  <2> QED
    BY <2>1, <2>2 DEF Init
<1>2. [k \in Keys |-> NoValue] \in Contents
  BY DEF Contents
<1>3. line \in Seq(Byte) /\ data \in Seq(Byte) /\ rest \in Seq(Field)
  BY DEF Init
<1>4. lost \in 0..MaxLoss /\ store \in Contents /\ latest \in Contents
      /\ applied \in Contents /\ missed \subseteq Keys /\ failures \in 0..MaxFailures
  BY <1>2, ReceiverAssumption, ReportsAssumption DEF Init
<1>5. /\ pc = "test" /\ main = "loop" /\ port = "open" /\ reported = {}
      /\ table \in BOOLEAN /\ running \in BOOLEAN
      /\ gap \in BOOLEAN /\ cut \in BOOLEAN
  BY DEF Init
<1>6. ReceiverTypeOK
  BY <1>1, <1>3, <1>4, <1>5 DEF ReceiverTypeOK
<1>7. ShutdownInv /\ DataInv
  BY DEF Init, ShutdownInv, DataInv
<1> QED
  BY <1>6, <1>7 DEF IInv

LEMMA ByteIsNat ==
  ASSUME NEW b \in Byte PROVE b \in Nat
  BY DEF Byte

LEMMA HeadTail ==
  ASSUME NEW S, NEW s \in Seq(S), s # <<>>
  PROVE  Head(s) \in S /\ Tail(s) \in Seq(S)
  BY HeadTailProperties

LEMMA NextInv == IInv /\ [Next]_vars => IInv'
<1> SUFFICES ASSUME IInv, [Next]_vars PROVE IInv'
  OBVIOUS
<1> USE DEF IInv, ShutdownInv, DataInv, files, lineVars, listenerVars, mainVars, history
<1>1. ASSUME NEW r \in Reports, StartPacket(r) PROVE IInv'
  <2>1. toSend' \in Seq(Byte)
    BY <1>1, ReportPacketType DEF StartPacket
  <2>2. latest' \in Contents
    BY <1>1, UpdatedType DEF StartPacket, ReceiverTypeOK
  <2>3. reported' \subseteq Field
    <3>1. r \in Seq(Field)
      BY ReportsAssumption
    <3>2. \A i \in DOMAIN r : r[i] \in Field
      BY <3>1, LenProperties, ElementOfSeq
    <3>3. ToSet(r) \subseteq Field
      BY <3>2 DEF ToSet
    <3> QED
      BY <1>1, <3>3 DEF StartPacket, ReceiverTypeOK
  <2> QED
    BY <1>1, <2>1, <2>2, <2>3 DEF StartPacket, ReceiverTypeOK
<1>2. CASE DeliverByte
  <2>1. Head(toSend) \in Byte /\ toSend' \in Seq(Byte)
    BY <1>2, HeadTail DEF DeliverByte, ReceiverTypeOK
  <2>2. line' \in Seq(Byte)
    BY <1>2, <2>1, AppendProperties DEF DeliverByte, ReceiverTypeOK
  <2> QED
    BY <1>2, <2>1, <2>2 DEF DeliverByte, ReceiverTypeOK
<1>3. CASE LoseByte
  <2>1. toSend' \in Seq(Byte)
    BY <1>3, HeadTail DEF LoseByte, ReceiverTypeOK
  <2>2. lost' \in 0..MaxLoss
    BY <1>3, ReceiverAssumption DEF LoseByte, ReceiverTypeOK
  <2> QED
    BY <1>3, <2>1, <2>2 DEF LoseByte, ReceiverTypeOK
<1>4. CASE OverflowByte
  <2>1. toSend' \in Seq(Byte)
    BY <1>4, HeadTail DEF OverflowByte, ReceiverTypeOK
  <2> QED
    BY <1>4, <2>1 DEF OverflowByte, ReceiverTypeOK
<1>5. CASE TestRunning
  BY <1>5 DEF TestRunning, ReceiverTypeOK
<1>6. CASE TakeByte
  <2>1. Head(line) \in Byte /\ line' \in Seq(Byte)
    BY <1>6, HeadTail DEF TakeByte, ReceiverTypeOK
  <2>2. data' \in Seq(Byte) /\ Len(data') = Len(data) + 1
    BY <1>6, <2>1, AppendProperties DEF TakeByte, ReceiverTypeOK
  <2>3. Len(data) \in Nat
    BY LenProperties DEF ReceiverTypeOK
  <2>4. ReceiverTypeOK'
    BY <1>6, <2>1, <2>2 DEF TakeByte, ReceiverTypeOK
  <2>5. DataInv'
    BY <1>6, <2>2, <2>3 DEF TakeByte
  <2>6. ShutdownInv'
    BY <1>6 DEF TakeByte
  <2> QED
    BY <2>4, <2>5, <2>6
<1>7. CASE AcceptHeader
  <2>1. Len(data) = 3
    BY <1>7 DEF AcceptHeader, ReportHeader
  <2>2. ReceiverTypeOK'
    BY <1>7 DEF AcceptHeader, ReceiverTypeOK
  <2>3. ShutdownInv'
    BY <1>7 DEF AcceptHeader
  <2>4. DataInv'
    BY <1>7, <2>1 DEF AcceptHeader
  <2> QED
    BY <2>2, <2>3, <2>4
<1>8. CASE DiscardHeader
  <2>1. cut' \in BOOLEAN
    BY <1>8 DEF DiscardHeader, ReadCutShort, ReceiverTypeOK
  <2>2. data' \in Seq(Byte)
    BY <1>8 DEF DiscardHeader
  <2> QED
    BY <1>8, <2>1, <2>2 DEF DiscardHeader, ReceiverTypeOK
<1>9. CASE AcceptPacket
  <2>1. cut' \in BOOLEAN
    BY <1>9 DEF AcceptPacket, ReadCutShort, ReceiverTypeOK
  <2>2. data[3] \in Nat
    <3>1. 3 \in 1..Len(data) /\ data \in Seq(Byte)
      BY <1>9, LenProperties DEF AcceptPacket, ReceiverTypeOK
    <3>2. data[3] \in Byte
      BY <3>1, ElementOfSeq
    <3> QED
      BY <3>2, ByteIsNat
  <2>3. rest' \in Seq(Field)
    BY <1>9, <2>2, FieldsType DEF AcceptPacket, Valid, ReceiverTypeOK
  <2> QED
    BY <1>9, <2>1, <2>3 DEF AcceptPacket, ReceiverTypeOK
<1>10. CASE RejectPacket
  <2>1. cut' \in BOOLEAN
    BY <1>10 DEF RejectPacket, ReadCutShort, ReceiverTypeOK
  <2>2. data' \in Seq(Byte)
    BY <1>10 DEF RejectPacket
  <2> QED
    BY <1>10, <2>1, <2>2 DEF RejectPacket, ReceiverTypeOK
<1>11. CASE RunSoftap
  <2>1. rest' \in Seq(Field)
    BY <1>11, HeadTail DEF RunSoftap, ReceiverTypeOK
  <2> QED
    BY <1>11, <2>1 DEF RunSoftap, ReceiverTypeOK
<1>12. CASE SaveField
  <2>1. Head(rest) \in Field /\ rest' \in Seq(Field)
    BY <1>12, HeadTail DEF SaveField, AtMapped, ReceiverTypeOK
  <2>2. store' \in Contents /\ applied' \in Contents /\ missed' \subseteq Keys
    BY <1>12, <2>1, SaveType DEF SaveField, AtMapped, ReceiverTypeOK
  <2> QED
    BY <1>12, <2>1, <2>2 DEF SaveField, AtMapped, ReceiverTypeOK
<1>13. CASE SkipField
  <2>1. rest' \in Seq(Field)
    BY <1>13, HeadTail DEF SkipField, ReceiverTypeOK
  <2> QED
    BY <1>13, <2>1 DEF SkipField, ReceiverTypeOK
<1>14. CASE PacketDone
  <2>1. data' \in Seq(Byte) /\ rest' \in Seq(Field)
    BY <1>14 DEF PacketDone
  <2> QED
    BY <1>14, <2>1 DEF PacketDone, ReceiverTypeOK
<1>15. CASE SoftapReturns
  BY <1>15 DEF SoftapReturns, ReceiverTypeOK
<1>16. CASE Interrupt
  BY <1>16 DEF Interrupt, ReceiverTypeOK
<1>17. CASE stop_uart_listener
  BY <1>17 DEF stop_uart_listener, ReceiverTypeOK
<1>18. CASE Join
  BY <1>18 DEF Join, ReceiverTypeOK
<1>19. CASE ClosePort
  BY <1>19 DEF ClosePort, ReceiverTypeOK
<1>20. CASE UNCHANGED vars
  BY <1>20 DEF vars, ReceiverTypeOK
<1>21. CASE SaveFails
  <2>1. Head(rest) \in Field /\ Mapped(Head(rest)) /\ rest' \in Seq(Field)
    BY <1>21, HeadTail DEF SaveFails, AtMapped, ReceiverTypeOK
  <2>2. PICK torn \in {{}, SameFile(KeyOf(Head(rest)))} :
          store' = Emptied(store, torn) /\ missed' = missed \cup torn \cup {KeyOf(Head(rest))}
    BY <1>21 DEF SaveFails
  <2>3. KeyOf(Head(rest)) \in Keys /\ torn \subseteq Keys
    BY <2>1, <2>2 DEF SameFile, Keys, KeyOf, Mapped, Range
  <2>4. store' \in Contents /\ missed' \subseteq Keys
    BY <2>2, <2>3 DEF Emptied, Contents, ReceiverTypeOK
  <2>5. applied' \in Contents
    BY <1>21, <2>1, SaveType DEF SaveFails, ReceiverTypeOK
  <2>6. failures' \in 0..MaxFailures
    BY <1>21, ReceiverAssumption DEF SaveFails, ReceiverTypeOK
  <2> QED
    BY <1>21, <2>1, <2>4, <2>5, <2>6 DEF SaveFails, AtMapped, ReceiverTypeOK
<1> QED
  BY <1>1, <1>2, <1>3, <1>4, <1>5, <1>6, <1>7, <1>8, <1>9, <1>10, <1>11,
     <1>12, <1>13, <1>14, <1>15, <1>16, <1>17, <1>18, <1>19, <1>20, <1>21
     DEF Next, ListenerStep, MainStep

-----------------------------------------------------------------------------
\* Whatever bytes arrive and wherever reads break off, every byte stays a
\* byte and no value that is stored is wider than the two bytes it came in.
THEOREM TypeCorrect == Spec => []ReceiverTypeOK
<1>1. IInv => ReceiverTypeOK
  BY DEF IInv
<1> QED
  BY InitInv, NextInv, <1>1, PTL DEF Spec

\* main never closes the port under a listener that will read from it: the
\* timeout of join only expires while the access point program runs, and the
\* listener comes back from that to a flag that is down.
THEOREM PortSafe == Spec => []NoReadOnClosedPort
<1>1. IInv => NoReadOnClosedPort
  BY DEF IInv, ShutdownInv, NoReadOnClosedPort
<1> QED
  BY InitInv, NextInv, <1>1, PTL DEF Spec

-----------------------------------------------------------------------------
(* The bytes that were sent and not yet dealt with, packet by packet.      *)

Size(r) == Len(ReportPacket(r))

\* Byte k of s is byte nth[k] of a packet with the fields rep[k]; only the
\* first packet of s may lack its beginning, and none lacks its end. A packet
\* that is there from its first byte on was started by the MCU.
Labelled(s, said, rep, nth) ==
  \A k \in 1..Len(s) :
    /\ rep[k] \in Reports /\ nth[k] \in 1..Size(rep[k])
    /\ s[k] = ReportPacket(rep[k])[nth[k]]
    /\ k + Size(rep[k]) - nth[k] <= Len(s)
    /\ \A j \in 0..Size(rep[k]) - nth[k] : rep[k + j] = rep[k] /\ nth[k + j] = nth[k] + j
    /\ nth[k] = Size(rep[k]) /\ k < Len(s) => nth[k + 1] = 1
    /\ nth[k] = 1 => ToSet(rep[k]) \subseteq said

\* Applying the packets of s in turn leads from now to then; due[k] is what
\* the files should hold when a packet that starts at k is reached.
Chained(s, now, then, rep, nth, due) ==
  /\ s # <<>> => nth[1] = 1
  /\ due[1] = now
  /\ due[Len(s) + 1] = then
  /\ \A k \in 1..Len(s) : nth[k] = 1 => due[k + Size(rep[k])] = Updated(due[k], rep[k])

LEMMA SizeIs ==
  ASSUME NEW r \in Reports
  PROVE  /\ r \in Seq(Field) /\ Len(r) \in Nat /\ Len(r) \in Byte
         /\ ReportPacket(r) \in Seq(Byte)
         /\ Size(r) = 4 + 4 * Len(r) /\ Size(r) \in Nat /\ Size(r) >= 4
         /\ ReportPacket(r)[2] = ReportInfo /\ ReportPacket(r)[3] = Len(r)
<1>1. r \in Seq(Field) /\ Len(r) \in Byte
  BY ReportsAssumption
<1>2. ReportInfo \in Byte
  BY DEF ReportInfo, Byte
<1>3. Len(r) \in Nat
  BY <1>1, LenProperties
<1>4. /\ ReportPacket(r) \in Seq(Byte)
      /\ Size(r) = 4 + 4 * Len(r)
      /\ ReportPacket(r)[2] = ReportInfo /\ ReportPacket(r)[3] = Len(r)
  <2>1. /\ Packet(ReportInfo, r) \in Seq(Byte) /\ Len(Packet(ReportInfo, r)) = 4 + 4 * Len(r)
        /\ Packet(ReportInfo, r)[2] = ReportInfo /\ Packet(ReportInfo, r)[3] = Len(r)
    BY <1>1, <1>2, PacketType
  <2> QED
    BY <2>1, ReportPacketIs DEF Size
<1> QED
  BY <1>1, <1>3, <1>4

\* A packet behind what is on its way.
LEMMA LabelsAppend ==
  ASSUME NEW s \in Seq(Byte), NEW r \in Reports, NEW rep, NEW nth,
         NEW said, NEW said2,
         Labelled(s, said, rep, nth), ToSet(r) \subseteq said2, said \subseteq said2,
         NEW rep2, NEW nth2,
         rep2 = [k \in 1..Len(s) + Size(r) |-> IF k <= Len(s) THEN rep[k] ELSE r],
         nth2 = [k \in 1..Len(s) + Size(r) |-> IF k <= Len(s) THEN nth[k] ELSE k - Len(s)]
  PROVE  Labelled(s \o ReportPacket(r), said2, rep2, nth2)
<1> DEFINE p == ReportPacket(r)
           t == s \o p
           n == Len(s)
           q == Size(r)
<1>1. p \in Seq(Byte) /\ q \in Nat /\ Len(p) = q /\ q > 0 /\ n \in Nat
  BY SizeIs, LenProperties DEF Size
<1>2. /\ t \in Seq(Byte) /\ Len(t) = n + q
      /\ \A k \in 1..n : t[k] = s[k]
      /\ \A k \in 1..q : t[n + k] = p[k]
  <2>1. /\ t \in Seq(Byte) /\ Len(t) = n + Len(p)
        /\ \A i \in 1..n + Len(p) : t[i] = IF i <= n THEN s[i] ELSE p[i - n]
    BY <1>1, ConcatProperties, Zenon
  <2> HIDE DEF t
  <2>2. \A k \in 1..q : n + k \in 1..n + Len(p) /\ ~(n + k <= n) /\ (n + k) - n = k
    BY <1>1
  <2>3. \A k \in 1..n : k \in 1..n + Len(p) /\ k <= n
    BY <1>1
  <2> QED
    BY <1>1, <2>1, <2>2, <2>3
<1> HIDE DEF t, n, q
<1>3. ASSUME NEW k \in 1..Len(t)
      PROVE /\ rep2[k] \in Reports /\ nth2[k] \in 1..Size(rep2[k])
            /\ t[k] = ReportPacket(rep2[k])[nth2[k]]
            /\ k + Size(rep2[k]) - nth2[k] <= Len(t)
            /\ \A j \in 0..Size(rep2[k]) - nth2[k] :
                 rep2[k + j] = rep2[k] /\ nth2[k + j] = nth2[k] + j
            /\ nth2[k] = Size(rep2[k]) /\ k < Len(t) => nth2[k + 1] = 1
            /\ nth2[k] = 1 => ToSet(rep2[k]) \subseteq said2
  <2>1. CASE k <= n
    <3>0. k \in 1..n
      BY <1>1, <1>2, <2>1
    <3>1. rep2[k] = rep[k] /\ nth2[k] = nth[k] /\ t[k] = s[k]
      BY <1>1, <1>2, <3>0 DEF n, q
    <3>2. /\ rep[k] \in Reports /\ nth[k] \in 1..Size(rep[k])
          /\ s[k] = ReportPacket(rep[k])[nth[k]]
          /\ k + Size(rep[k]) - nth[k] <= n
          /\ \A j \in 0..Size(rep[k]) - nth[k] : rep[k + j] = rep[k] /\ nth[k + j] = nth[k] + j
          /\ nth[k] = Size(rep[k]) /\ k < n => nth[k + 1] = 1
          /\ nth[k] = 1 => ToSet(rep[k]) \subseteq said
      BY <3>0 DEF Labelled, n
    <3>3. Size(rep[k]) \in Nat
      <4>1. rep[k] \in Reports
        BY <3>2
      <4> HIDE <3>2
      <4> QED
        BY <4>1, SizeIs, Zenon
    <3>4. ASSUME NEW j \in 0..Size(rep[k]) - nth[k]
          PROVE rep2[k + j] = rep[k] /\ nth2[k + j] = nth[k] + j
      <4>1. k + j \in 1..n
        BY <1>1, <3>0, <3>2, <3>3
      <4>2. rep2[k + j] = rep[k + j] /\ nth2[k + j] = nth[k + j]
        BY <1>1, <4>1 DEF n, q
      <4> QED
        BY <3>2, <4>2
    <3>5. ASSUME nth[k] = Size(rep[k]), k < Len(t) PROVE nth2[k + 1] = 1
      <4>1. CASE k < n
        <5>1. k + 1 \in 1..n
          BY <1>1, <3>0, <4>1
        <5> QED
          BY <1>1, <3>2, <3>5, <4>1, <5>1 DEF n, q
      <4>2. CASE k = n
        BY <1>1, <1>2, <4>2 DEF n, q
      <4> QED
        BY <3>0, <4>1, <4>2, <1>1
    <3>6. k + Size(rep[k]) - nth[k] <= Len(t)
      BY <1>1, <1>2, <3>0, <3>2, <3>3
    <3> QED
      BY <3>1, <3>2, <3>4, <3>5, <3>6
  <2>2. CASE ~(k <= n)
    <3>1. k - n \in 1..q /\ k \in 1..n + q /\ k = n + (k - n)
      BY <1>1, <1>2, <2>2
    <3>2. rep2[k] = r /\ nth2[k] = k - n /\ t[k] = p[k - n]
      <4>1. t[n + (k - n)] = p[k - n]
        BY <1>2, <3>1
      <4> QED
        BY <2>2, <3>1, <4>1 DEF n, q
    <3>3. ASSUME NEW j \in 0..q - (k - n) PROVE rep2[k + j] = r /\ nth2[k + j] = (k - n) + j
      <4>1. k + j \in 1..n + q /\ ~(k + j <= n) /\ k + j - n = (k - n) + j
        BY <1>1, <2>2, <3>1
      <4> QED
        BY <4>1 DEF n, q
    <3>4. ~(nth2[k] = q /\ k < Len(t))
      BY <1>1, <1>2, <3>1, <3>2
    <3>5. k + q - (k - n) <= Len(t)
      BY <1>1, <1>2, <3>1
    <3> QED
      BY <3>1, <3>2, <3>3, <3>4, <3>5 DEF q
  <2> QED
    BY <2>1, <2>2
<1> QED
  BY <1>3 DEF Labelled, t

\* The same without its first bytes.
LEMMA LabelsDrop ==
  ASSUME NEW h \in Seq(Byte), NEW t \in Seq(Byte), NEW rep, NEW nth, NEW said,
         Labelled(h \o t, said, rep, nth),
         NEW rep2, NEW nth2,
         rep2 = [k \in 1..Len(t) |-> rep[Len(h) + k]],
         nth2 = [k \in 1..Len(t) |-> nth[Len(h) + k]]
  PROVE  Labelled(t, said, rep2, nth2)
<1> DEFINE s == h \o t
           n == Len(h)
           m == Len(t)
<1>1. n \in Nat /\ m \in Nat
  BY LenProperties
<1>2. Len(s) = n + m /\ \A k \in 1..m : s[n + k] = t[k]
  <2>1. /\ Len(s) = n + m
        /\ \A i \in 1..n + m : s[i] = IF i <= n THEN h[i] ELSE t[i - n]
    BY <1>1, ConcatProperties, Zenon
  <2> HIDE DEF s, n, m
  <2>2. \A k \in 1..m : n + k \in 1..n + m /\ ~(n + k <= n) /\ (n + k) - n = k
    BY <1>1
  <2> QED
    BY <2>1, <2>2
<1> HIDE DEF s, n, m
<1>3. ASSUME NEW k \in 1..m
      PROVE /\ rep2[k] \in Reports /\ nth2[k] \in 1..Size(rep2[k])
            /\ t[k] = ReportPacket(rep2[k])[nth2[k]]
            /\ k + Size(rep2[k]) - nth2[k] <= m
            /\ \A j \in 0..Size(rep2[k]) - nth2[k] :
                 rep2[k + j] = rep2[k] /\ nth2[k + j] = nth2[k] + j
            /\ nth2[k] = Size(rep2[k]) /\ k < m => nth2[k + 1] = 1
            /\ nth2[k] = 1 => ToSet(rep2[k]) \subseteq said
  <2> DEFINE a == n + k
  <2>1. a \in 1..Len(s)
    BY <1>1, <1>2
  <2>2. /\ rep[a] \in Reports /\ nth[a] \in 1..Size(rep[a])
        /\ s[a] = ReportPacket(rep[a])[nth[a]]
        /\ a + Size(rep[a]) - nth[a] <= Len(s)
        /\ \A j \in 0..Size(rep[a]) - nth[a] : rep[a + j] = rep[a] /\ nth[a + j] = nth[a] + j
        /\ nth[a] = Size(rep[a]) /\ a < Len(s) => nth[a + 1] = 1
        /\ nth[a] = 1 => ToSet(rep[a]) \subseteq said
    BY <2>1 DEF Labelled, s
  <2>3. rep2[k] = rep[a] /\ nth2[k] = nth[a] /\ t[k] = s[a]
    BY <1>2 DEF n, m
  <2>4. Size(rep[a]) \in Nat
    <3>1. rep[a] \in Reports
      BY <2>2
    <3> HIDE <2>2
    <3> QED
      BY <3>1, SizeIs, Zenon
  <2>5. ASSUME NEW j \in 0..Size(rep[a]) - nth[a]
        PROVE rep2[k + j] = rep[a] /\ nth2[k + j] = nth[a] + j
    <3>1. /\ nth[a] \in 1..Size(rep[a]) /\ a = n + k
          /\ a + Size(rep[a]) - nth[a] <= n + m
      BY <1>2, <2>2
    <3>3. k + j \in 1..m /\ n + (k + j) = a + j
      <4> HIDE DEF a
      <4> QED
        BY <1>1, <2>4, <3>1
    <3>2. rep2[k + j] = rep[a + j] /\ nth2[k + j] = nth[a + j]
      BY <3>3 DEF n, m
    <3> QED
      BY <2>2, <3>2
  <2>6. ASSUME nth[a] = Size(rep[a]), k < m PROVE nth2[k + 1] = 1
    <3>1. k + 1 \in 1..m /\ n + (k + 1) = a + 1 /\ a < Len(s)
      <4>1. k < m /\ a = n + k /\ Len(s) = n + m
        BY <1>2, <2>6
      <4> HIDE DEF a
      <4> QED
        BY <1>1, <4>1
    <3>2. nth2[k + 1] = nth[a + 1]
      BY <3>1 DEF n, m
    <3> QED
      BY <2>2, <2>6, <3>1, <3>2
  <2>7. k + Size(rep[a]) - nth[a] <= m
    BY <1>1, <1>2, <2>2, <2>4
  <2> HIDE DEF a
  <2> QED
    BY <2>2, <2>3, <2>5, <2>6, <2>7
<1> QED
  BY <1>3 DEF Labelled, m

-----------------------------------------------------------------------------
(* What the files should hold once a packet is applied. LastFor speaks of  *)
(* the last of some fields, so it must be shown that there is one.         *)

LEMMA Largest ==
  ASSUME NEW n \in Nat, NEW T, T \subseteq 1..n, T # {}
  PROVE  \E x \in T : \A y \in T : y <= x
<1> DEFINE Above(x) == (x + 1)..n
           A == {Above(x) : x \in T}
<1>1. IsFiniteSet(1..n)
  BY FS_Interval
<1>2. IsWellFoundedOn(StrictSubsetOrdering(1..n), FiniteSubsetsOf(1..n))
  BY FS_StrictSubsetOrderingWellFounded
<1>3. A \subseteq FiniteSubsetsOf(1..n) /\ A # {}
  <2>1. ASSUME NEW x \in T PROVE Above(x) \in SUBSET (1..n) /\ IsFiniteSet(Above(x))
    BY <1>1, FS_Subset
  <2> QED
    BY <2>1 DEF FiniteSubsetsOf
<1>4. \E x \in T : \A y \in T : ~(<<Above(y), Above(x)>> \in StrictSubsetOrdering(1..n))
  <2>1. \E a \in A : \A b \in A : ~(<<b, a>> \in StrictSubsetOrdering(1..n))
    <3> HIDE DEF A
    <3> QED
      BY <1>2, <1>3, WFMin
  <2> QED
    BY <2>1
<1>5. ASSUME NEW x \in T, NEW y \in T, x < y
      PROVE <<Above(y), Above(x)>> \in StrictSubsetOrdering(1..n)
  <2>1. Above(y) \in SUBSET (1..n) /\ Above(x) \in SUBSET (1..n)
    OBVIOUS
  <2>2. y \in Above(x) /\ y \notin Above(y) /\ Above(y) \subseteq Above(x)
    BY <1>5
  <2> QED
    BY <2>1, <2>2 DEF StrictSubsetOrdering
<1>6. PICK x \in T : \A y \in T : ~(<<Above(y), Above(x)>> \in StrictSubsetOrdering(1..n))
  BY <1>4
<1>7. \A y \in T : ~(x < y)
  BY <1>5, <1>6
<1>8. \A y \in T : y \in Int
  OBVIOUS
<1> QED
  BY <1>7, <1>8

\* save_data_to_file stores f in the file of key k.
StoredUnder(k, f) == Mapped(f) /\ ~Softap(f) /\ KeyOf(f) = k

\* A key that some field of r is stored under has a last one, and only one.
LEMMA LastField ==
  ASSUME NEW r \in Seq(Field), NEW k
  PROVE  /\ \A i \in DOMAIN r : LastFor(k, r, i) <=>
              StoredUnder(k, r[i]) /\ \A j \in DOMAIN r : StoredUnder(k, r[j]) => j <= i
         /\ \A i, j \in DOMAIN r : LastFor(k, r, i) /\ LastFor(k, r, j) => i = j
         /\ (\E i \in DOMAIN r : StoredUnder(k, r[i])) =>
              \E i \in DOMAIN r : LastFor(k, r, i)
<1>1. Len(r) \in Nat /\ DOMAIN r = 1..Len(r)
  BY LenProperties
<1>2. \A i \in DOMAIN r : LastFor(k, r, i) <=>
              StoredUnder(k, r[i]) /\ \A j \in DOMAIN r : StoredUnder(k, r[j]) => j <= i
  BY DEF LastFor, StoredUnder
<1>3. ASSUME NEW i \in DOMAIN r, NEW j \in DOMAIN r, LastFor(k, r, i), LastFor(k, r, j)
      PROVE i = j
  <2>1. i <= j /\ j <= i
    BY <1>2, <1>3
  <2>2. i \in Int /\ j \in Int
    BY <1>1
  <2> QED
    BY <2>1, <2>2
<1>4. ASSUME NEW i \in DOMAIN r, StoredUnder(k, r[i]) PROVE \E j \in DOMAIN r : LastFor(k, r, j)
  <2> DEFINE T == {j \in DOMAIN r : StoredUnder(k, r[j])}
  <2>1. T \subseteq 1..Len(r) /\ T # {}
    BY <1>1, <1>4
  <2>2. \E x \in T : \A y \in T : y <= x
    <3> HIDE DEF T
    <3> QED
      BY <1>1, <2>1, Largest
  <2> QED
    BY <1>2, <2>2
<1> QED
  BY <1>2, <1>3, <1>4

LEMMA UpdatedAt ==
  ASSUME NEW contents, NEW r \in Seq(Field), NEW k \in Keys
  PROVE  /\ \A i \in DOMAIN r : LastFor(k, r, i) => Updated(contents, r)[k] = r[i].value
         /\ ~(\E i \in DOMAIN r : LastFor(k, r, i)) => Updated(contents, r)[k] = contents[k]
<1>1. Updated(contents, r)[k] =
        IF \E i \in DOMAIN r : LastFor(k, r, i)
        THEN r[CHOOSE i \in DOMAIN r : LastFor(k, r, i)].value
        ELSE contents[k]
  BY DEF Updated
<1>2. ASSUME NEW i \in DOMAIN r, LastFor(k, r, i) PROVE Updated(contents, r)[k] = r[i].value
  <2>1. (CHOOSE j \in DOMAIN r : LastFor(k, r, j)) = i
    BY <1>2, LastField
  <2> QED
    BY <1>1, <1>2, <2>1
<1> QED
  BY <1>1, <1>2

LEMMA UpdatedEqual ==
  ASSUME NEW c, NEW d, NEW r, NEW s,
         \A k \in Keys : Updated(c, r)[k] = Updated(d, s)[k]
  PROVE  Updated(c, r) = Updated(d, s)
<1>1. /\ Updated(c, r) = [k \in Keys |-> Updated(c, r)[k]]
      /\ Updated(d, s) = [k \in Keys |-> Updated(d, s)[k]]
  BY DEF Updated
<1> HIDE DEF Updated
<1> QED
  BY <1>1

LEMMA UpdatedNothing ==
  ASSUME NEW contents \in Contents PROVE Updated(contents, <<>>) = contents
<1>1. \A k \in Keys : Updated(contents, <<>>)[k] = contents[k]
  BY DEF Updated
<1>2. Updated(contents, <<>>) = [k \in Keys |-> Updated(contents, <<>>)[k]]
  BY DEF Updated
<1>3. contents = [k \in Keys |-> contents[k]]
  BY DEF Contents
<1> QED
  BY <1>1, <1>2, <1>3

\* What is stored under a key by r is what is stored by its tail, or its head.
LEMMA LastOfTail ==
  ASSUME NEW r \in Seq(Field), r # <<>>, NEW k
  PROVE  /\ Head(r) \in Field /\ Tail(r) \in Seq(Field) /\ 1 \in DOMAIN r /\ r[1] = Head(r)
         /\ \A i \in DOMAIN Tail(r) : i + 1 \in DOMAIN r /\ Tail(r)[i] = r[i + 1]
         /\ \A i \in DOMAIN Tail(r) : LastFor(k, Tail(r), i) => LastFor(k, r, i + 1)
         /\ ~(\E i \in DOMAIN Tail(r) : LastFor(k, Tail(r), i)) =>
              \A i \in DOMAIN r : LastFor(k, r, i) <=> i = 1 /\ StoredUnder(k, Head(r))
<1> DEFINE t == Tail(r)
<1>1. /\ Head(r) \in Field /\ t \in Seq(Field) /\ Len(t) = Len(r) - 1
      /\ \A i \in 1..Len(t) : t[i] = r[i + 1]
  BY HeadTailProperties
<1>2. Head(r) = r[1]
  OBVIOUS
<1>3. /\ Len(r) \in Nat /\ DOMAIN r = 1..Len(r) /\ Len(t) \in Nat /\ DOMAIN t = 1..Len(t)
  BY <1>1, LenProperties
<1>4. Len(r) > 0
  BY <1>1, <1>3
<1>5. 1 \in DOMAIN r /\ \A i \in DOMAIN t : i + 1 \in DOMAIN r
  BY <1>1, <1>3, <1>4
<1> HIDE DEF t
<1>6. \A j \in DOMAIN r : j = 1 \/ (j - 1 \in DOMAIN t /\ t[j - 1] = r[j])
  <2>1. ASSUME NEW j \in DOMAIN r, j # 1 PROVE j - 1 \in 1..Len(t) /\ (j - 1) + 1 = j
    BY <1>1, <1>3, <2>1
  <2> QED
    BY <1>1, <1>3, <2>1
<1>7. ASSUME NEW i \in DOMAIN t, LastFor(k, t, i) PROVE LastFor(k, r, i + 1)
  <2>1. StoredUnder(k, t[i]) /\ \A j \in DOMAIN t : StoredUnder(k, t[j]) => j <= i
    BY <1>1, <1>7, LastField
  <2>2. StoredUnder(k, r[i + 1])
    BY <1>1, <1>3, <2>1
  <2>3. ASSUME NEW j \in DOMAIN r, StoredUnder(k, r[j]) PROVE j <= i + 1
    <3>1. CASE j = 1
      BY <1>3, <3>1
    <3>2. CASE j # 1
      <4>1. j - 1 \in DOMAIN t /\ j - 1 <= i
        BY <1>6, <2>1, <2>3, <3>2
      <4> QED
        BY <1>3, <4>1
    <3> QED
      BY <3>1, <3>2
  <2> QED
    BY <1>5, <2>2, <2>3, LastField
<1>8. ASSUME ~(\E i \in DOMAIN t : LastFor(k, t, i)), NEW i \in DOMAIN r
      PROVE LastFor(k, r, i) <=> i = 1 /\ StoredUnder(k, r[1])
  <2>1. \A j \in DOMAIN t : ~StoredUnder(k, t[j])
    BY <1>1, <1>8, LastField
  <2>2. \A j \in DOMAIN r : StoredUnder(k, r[j]) => j = 1
    BY <1>6, <2>1
  <2>3. LastFor(k, r, i) <=>
          StoredUnder(k, r[i]) /\ \A j \in DOMAIN r : StoredUnder(k, r[j]) => j <= i
    BY LastField
  <2> QED
    BY <1>3, <2>2, <2>3
<1> QED
  BY <1>1, <1>2, <1>3, <1>5, <1>7, <1>8 DEF t

\* Applying the first field of r, and then the others, is applying r.
LEMMA UpdatedStep ==
  ASSUME NEW contents \in Contents, NEW r \in Seq(Field), r # <<>>
  PROVE  /\ Softap(Head(r)) \/ ~Mapped(Head(r)) =>
              Updated(contents, Tail(r)) = Updated(contents, r)
         /\ ~Softap(Head(r)) /\ Mapped(Head(r)) =>
              Updated(Save(contents, Head(r)), Tail(r)) = Updated(contents, r)
<1> DEFINE t == Tail(r)
           f == Head(r)
<1>0. t \in Seq(Field) /\ f \in Field
  BY LastOfTail
<1>1. ASSUME NEW k \in Keys, NEW c PROVE
        /\ (\E i \in DOMAIN t : LastFor(k, t, i)) => Updated(c, t)[k] = Updated(contents, r)[k]
        /\ ~(\E i \in DOMAIN t : LastFor(k, t, i)) =>
             /\ Updated(c, t)[k] = c[k]
             /\ StoredUnder(k, f) => Updated(contents, r)[k] = f.value
             /\ ~StoredUnder(k, f) => Updated(contents, r)[k] = contents[k]
  <2>1. ASSUME NEW i \in DOMAIN t, LastFor(k, t, i) PROVE Updated(c, t)[k] = Updated(contents, r)[k]
    <3>1. Updated(c, t)[k] = t[i].value
      <4>1. i \in DOMAIN t /\ LastFor(k, t, i)
        BY <2>1
      <4> HIDE DEF t
      <4> QED
        BY <1>0, <4>1, UpdatedAt
    <3>2. i + 1 \in DOMAIN r /\ LastFor(k, r, i + 1) /\ t[i] = r[i + 1]
      BY <2>1, LastOfTail
    <3>3. Updated(contents, r)[k] = r[i + 1].value
      BY <3>2, UpdatedAt
    <3> QED
      BY <3>1, <3>2, <3>3
  <2>2. ASSUME ~(\E i \in DOMAIN t : LastFor(k, t, i))
        PROVE /\ Updated(c, t)[k] = c[k]
              /\ StoredUnder(k, f) => Updated(contents, r)[k] = f.value
              /\ ~StoredUnder(k, f) => Updated(contents, r)[k] = contents[k]
    <3>1. Updated(c, t)[k] = c[k]
      BY <1>0, <2>2, UpdatedAt
    <3>2. \A i \in DOMAIN r : LastFor(k, r, i) <=> i = 1 /\ StoredUnder(k, f)
      BY <2>2, LastOfTail
    <3>3. 1 \in DOMAIN r /\ r[1] = f
      BY LastOfTail
    <3> QED
      BY <3>1, <3>2, <3>3, UpdatedAt
  <2> QED
    BY <2>1, <2>2
<1>2. ASSUME Softap(f) \/ ~Mapped(f), NEW k \in Keys
      PROVE  Updated(contents, t)[k] = Updated(contents, r)[k]
  <2>1. ~StoredUnder(k, f)
    BY <1>2 DEF StoredUnder
  <2> QED
    BY <1>1, <2>1
<1>3. ASSUME ~Softap(f), Mapped(f), NEW k \in Keys
      PROVE Updated(Save(contents, f), t)[k] = Updated(contents, r)[k]
  <2>1. StoredUnder(k, f) <=> k = KeyOf(f)
    BY <1>3 DEF StoredUnder
  <2>2. Save(contents, f)[k] = IF k = KeyOf(f) THEN f.value ELSE contents[k]
    BY DEF Save, Contents
  <2> QED
    BY <1>1, <2>1, <2>2
<1> QED
  BY <1>2, <1>3, UpdatedEqual

-----------------------------------------------------------------------------
(* Bytes at the end and bytes from the front of what is on its way.        *)

\* s is what the MCU sent, up to the end of its last packet. If whole, it
\* starts with a packet, and its packets lead from now to then; if first, it
\* starts with a packet at least.
Traffic(s, said, now, then, whole, first) ==
  \E rep, nth, due :
    /\ Labelled(s, said, rep, nth)
    /\ whole => Chained(s, now, then, rep, nth, due)
    /\ first => nth[1] = 1

LEMMA ConcatBytes ==
  ASSUME NEW s \in Seq(Byte), NEW t \in Seq(Byte)
  PROVE  /\ s \o t \in Seq(Byte) /\ Len(s \o t) = Len(s) + Len(t)
         /\ Len(s) \in Nat /\ Len(t) \in Nat
         /\ \A i \in 1..Len(s) : (s \o t)[i] = s[i]
<1>1. Len(s) \in Nat /\ Len(t) \in Nat
  BY LenProperties
<1>2. /\ s \o t \in Seq(Byte) /\ Len(s \o t) = Len(s) + Len(t)
      /\ \A i \in 1..Len(s) + Len(t) :
           (s \o t)[i] = IF i <= Len(s) THEN s[i] ELSE t[i - Len(s)]
  BY ConcatProperties, Zenon
<1>3. \A i \in 1..Len(s) : i \in 1..Len(s) + Len(t) /\ i <= Len(s)
  BY <1>1
<1> QED
  BY <1>1, <1>2, <1>3, Zenon

\* A byte that goes from the front of one sequence to the end of another.
LEMMA MoveByte ==
  ASSUME NEW s \in Seq(Byte), NEW t \in Seq(Byte), t # <<>>
  PROVE  Append(s, Head(t)) \o Tail(t) = s \o t
<1>1. Head(t) \in Byte /\ Tail(t) \in Seq(Byte)
  BY HeadTailProperties
<1>2. Append(s, Head(t)) = s \o <<Head(t)>>
  BY <1>1, AppendIsConcat
<1>3. <<Head(t)>> \in Seq(Byte)
  BY <1>1
<1>4. (s \o <<Head(t)>>) \o Tail(t) = s \o (<<Head(t)>> \o Tail(t))
  BY <1>1, <1>3, ConcatAssociative
<1>5. <<Head(t)>> \o Tail(t) = t
  BY <1>1
<1> QED
  BY <1>2, <1>4, <1>5

\* The same with something behind the two.
LEMMA TakenByte ==
  ASSUME NEW s \in Seq(Byte), NEW t \in Seq(Byte), NEW u \in Seq(Byte), t # <<>>
  PROVE  Append(s, Head(t)) \o (Tail(t) \o u) = s \o (t \o u)
<1>1. Head(t) \in Byte /\ Tail(t) \in Seq(Byte)
  BY HeadTailProperties
<1>2. Append(s, Head(t)) \in Seq(Byte)
  BY <1>1, AppendedByte
<1>3. Append(s, Head(t)) \o (Tail(t) \o u) = (Append(s, Head(t)) \o Tail(t)) \o u
  BY <1>1, <1>2, ConcatAssociative, SMTT(30)
<1>4. s \o (t \o u) = (s \o t) \o u
  BY ConcatAssociative
<1> QED
  BY <1>3, <1>4, MoveByte

LEMMA TrafficAppend ==
  ASSUME NEW s \in Seq(Byte), NEW r \in Reports, NEW said, NEW now, NEW then,
         NEW whole, NEW first,
         Traffic(s, said, now, then, whole, first), first => s # <<>>
  PROVE  Traffic(s \o ReportPacket(r), said \cup ToSet(r), now, Updated(then, r), whole, first)
<1> DEFINE p == ReportPacket(r)
           n == Len(s)
           q == Size(r)
<1>1. PICK rep, nth, due :
           /\ Labelled(s, said, rep, nth)
           /\ whole => Chained(s, now, then, rep, nth, due)
           /\ first => nth[1] = 1
  BY DEF Traffic
<1> DEFINE rep2 == [k \in 1..n + q |-> IF k <= n THEN rep[k] ELSE r]
           nth2 == [k \in 1..n + q |-> IF k <= n THEN nth[k] ELSE k - n]
           due2 == [k \in 1..n + q + 1 |-> IF k <= n + 1 THEN due[k] ELSE Updated(then, r)]
<1>2. Labelled(s \o p, said \cup ToSet(r), rep2, nth2)
  BY <1>1, LabelsAppend
<1>3. /\ p \in Seq(Byte) /\ q \in Nat /\ q >= 4 /\ n \in Nat /\ Len(p) = q
      /\ Len(s \o p) = n + q
  BY SizeIs, ConcatBytes DEF Size
<1>4. nth2[1] = IF n = 0 THEN 1 ELSE nth[1]
  BY <1>3
<1>5. s # <<>> <=> n # 0
  BY EmptySeq
<1>6. ASSUME whole PROVE Chained(s \o p, now, Updated(then, r), rep2, nth2, due2)
  <2>1. /\ s # <<>> => nth[1] = 1
        /\ due[1] = now
        /\ due[n + 1] = then
        /\ \A k \in 1..n : nth[k] = 1 => due[k + Size(rep[k])] = Updated(due[k], rep[k])
    BY <1>1, <1>6 DEF Chained
  <2>2. nth2[1] = 1
    BY <1>4, <1>5, <2>1
  <2>3. due2[1] = now /\ due2[n + q + 1] = Updated(then, r) /\ due2[n + 1] = then
    BY <1>3, <2>1
  <2>4. ASSUME NEW k \in 1..n + q, nth2[k] = 1
        PROVE due2[k + Size(rep2[k])] = Updated(due2[k], rep2[k])
    <3>1. CASE k <= n
      <4>1. k \in 1..n /\ rep2[k] = rep[k] /\ nth[k] = 1 /\ due2[k] = due[k]
        BY <1>3, <2>4, <3>1
      <4>2. rep[k] \in Reports /\ k + Size(rep[k]) - nth[k] <= n
        BY <1>1, <4>1 DEF Labelled
      <4>3. Size(rep[k]) \in Nat
        BY <4>2, SizeIs, Zenon
      <4>4. k + Size(rep[k]) \in 1..n + q + 1 /\ k + Size(rep[k]) <= n + 1
        BY <1>3, <4>1, <4>2, <4>3
      <4>5. due2[k + Size(rep[k])] = due[k + Size(rep[k])]
        BY <4>4
      <4> QED
        BY <2>1, <4>1, <4>5
    <3>2. CASE ~(k <= n)
      <4>1. k = n + 1 /\ rep2[k] = r
        BY <1>3, <2>4, <3>2
      <4>2. k + q = n + q + 1
        BY <1>3, <4>1
      <4> QED
        BY <2>3, <4>1, <4>2
    <3> QED
      BY <3>1, <3>2
  <2> HIDE DEF rep2, nth2, due2, p, q, n
  <2> QED
    BY <1>3, <2>2, <2>3, <2>4 DEF Chained
<1>7. first => nth2[1] = 1
  BY <1>1, <1>4, <1>5
<1> HIDE DEF rep2, nth2, due2
<1> QED
  BY <1>2, <1>6, <1>7 DEF Traffic

LEMMA TrafficDrop ==
  ASSUME NEW h \in Seq(Byte), NEW t \in Seq(Byte), NEW said, NEW now, NEW then,
         NEW whole, NEW first, NEW now2,
         Traffic(h \o t, said, now, then, whole, first)
  PROVE  Traffic(t, said, now2, then, FALSE, FALSE)
<1>1. PICK rep, nth : Labelled(h \o t, said, rep, nth)
  BY DEF Traffic
<1> DEFINE rep2 == [k \in 1..Len(t) |-> rep[Len(h) + k]]
           nth2 == [k \in 1..Len(t) |-> nth[Len(h) + k]]
<1>2. Labelled(t, said, rep2, nth2)
  BY <1>1, LabelsDrop
<1> HIDE DEF rep2, nth2
<1> QED
  BY <1>2 DEF Traffic

\* h is the beginning of a packet with the fields r, or all of it; then the
\* next packet starts behind it.
StartsPacket(h, t, said, now, then, whole, r) ==
  /\ ToSet(r) \subseteq said
  /\ h[2] = ReportInfo /\ h[3] = Len(r)
  /\ Len(h) <= Size(r) => \A k \in 1..Len(h) : h[k] = ReportPacket(r)[k]
  /\ whole /\ Len(h) = Size(r) => Traffic(t, said, Updated(now, r), then, TRUE, FALSE)

LEMMA FirstPacket ==
  ASSUME NEW h \in Seq(Byte), NEW t \in Seq(Byte), NEW said, NEW now, NEW then,
         NEW whole, NEW first, whole \/ first,
         Traffic(h \o t, said, now, then, whole, first), Len(h) >= 3
  PROVE  \E r \in Reports : StartsPacket(h, t, said, now, then, whole, r)
<1> DEFINE s == h \o t
           n == Len(h)
           m == Len(t)
<1>1. PICK rep, nth, due :
           /\ Labelled(s, said, rep, nth)
           /\ whole => Chained(s, now, then, rep, nth, due)
           /\ first => nth[1] = 1
  BY DEF Traffic
<1>2. /\ s \in Seq(Byte) /\ Len(s) = n + m /\ n \in Nat /\ m \in Nat /\ n >= 3
      /\ \A i \in 1..n : s[i] = h[i]
  BY ConcatBytes
<1>3. s # <<>>
  BY <1>2, EmptySeq
<1>4. nth[1] = 1
  BY <1>1, <1>3 DEF Chained
<1> DEFINE r == rep[1]
<1>5. /\ r \in Reports /\ ToSet(r) \subseteq said
      /\ Size(r) <= n + m
      /\ \A j \in 0..Size(r) - 1 : rep[1 + j] = r /\ nth[1 + j] = 1 + j
  <2>1. 1 \in 1..Len(s)
    BY <1>2
  <2> HIDE DEF s
  <2>2. /\ r \in Reports /\ ToSet(r) \subseteq said
        /\ 1 + Size(r) - 1 <= Len(s)
        /\ \A j \in 0..Size(r) - 1 : rep[1 + j] = r /\ nth[1 + j] = 1 + j
    BY <1>1, <1>4, <2>1 DEF Labelled
  <2>3. Size(r) \in Nat
    BY <2>2, SizeIs, Zenon
  <2> QED
    BY <1>2, <2>2, <2>3
<1> HIDE DEF s, r
<1>6. Size(r) \in Nat /\ Size(r) >= 4 /\ ReportPacket(r)[2] = ReportInfo /\ ReportPacket(r)[3] = Len(r)
  BY <1>5, SizeIs, Zenon
<1>7. ASSUME NEW k \in 1..Size(r)
      PROVE rep[k] = r /\ nth[k] = k /\ s[k] = ReportPacket(r)[k]
  <2>1. k - 1 \in 0..Size(r) - 1 /\ 1 + (k - 1) = k /\ k \in 1..Len(s)
    BY <1>2, <1>5, <1>6
  <2>2. rep[k] = r /\ nth[k] = k
    BY <1>5, <2>1
  <2> QED
    BY <1>1, <2>1, <2>2 DEF Labelled
<1>8. h[2] = ReportInfo /\ h[3] = Len(r)
  <2>1. 2 \in 1..Size(r) /\ 3 \in 1..Size(r) /\ 2 \in 1..n /\ 3 \in 1..n
    BY <1>2, <1>6
  <2> QED
    BY <1>2, <1>6, <1>7, <2>1
<1>9. ASSUME n <= Size(r), NEW k \in 1..n PROVE h[k] = ReportPacket(r)[k]
  <2>1. k \in 1..Size(r)
    BY <1>2, <1>6, <1>9
  <2> QED
    BY <1>2, <1>7, <2>1
<1>10. ASSUME whole, n = Size(r) PROVE Traffic(t, said, Updated(now, r), then, TRUE, FALSE)
  <2> DEFINE rep2 == [k \in 1..m |-> rep[n + k]]
             nth2 == [k \in 1..m |-> nth[n + k]]
             due2 == [k \in 1..m + 1 |-> due[n + k]]
  <2>1. Labelled(t, said, rep2, nth2)
    BY <1>1, LabelsDrop DEF s
  <2>2. /\ due[1] = now
        /\ due[(n + m) + 1] = then
        /\ \A k \in 1..n + m : nth[k] = 1 => due[k + Size(rep[k])] = Updated(due[k], rep[k])
    BY <1>1, <1>2, <1>10 DEF Chained
  <2>3. due2[1] = Updated(now, r)
    <3>1. 1 \in 1..n + m /\ 1 \in 1..m + 1 /\ 1 + n = n + 1
      BY <1>2
    <3>2. due[1 + n] = Updated(now, r)
      BY <1>4, <1>10, <2>2, <3>1 DEF r
    <3>3. due2[1] = due[n + 1]
      BY <3>1
    <3> QED
      BY <3>1, <3>2, <3>3
  <2>4. due2[m + 1] = then
    <3>1. m + 1 \in 1..m + 1 /\ n + (m + 1) = (n + m) + 1
      BY <1>2
    <3> QED
      BY <2>2, <3>1
  <2>5. t # <<>> => nth2[1] = 1
    <3>1. ASSUME t # <<>> PROVE nth2[1] = 1
      <4>1. m # 0
        BY <3>1, EmptySeq
      <4>2. n \in 1..Len(s) /\ n < Len(s) /\ 1 \in 1..m /\ n \in 1..Size(r)
        BY <1>2, <1>10, <4>1
      <4>3. rep[n] = r /\ nth[n] = Size(r)
        BY <1>7, <1>10, <4>2
      <4>4. nth[n + 1] = 1
        BY <1>1, <4>2, <4>3 DEF Labelled
      <4> QED
        BY <4>2, <4>4
    <3> QED
      BY <3>1
  <2>6. ASSUME NEW k \in 1..m, nth2[k] = 1
        PROVE due2[k + Size(rep2[k])] = Updated(due2[k], rep2[k])
    <3> DEFINE a == n + k
    <3>1. /\ a \in 1..n + m /\ a \in 1..Len(s) /\ rep2[k] = rep[a] /\ nth[a] = 1
          /\ k \in 1..m + 1 /\ due2[k] = due[a]
      BY <1>2, <2>6
    <3>2. rep[a] \in Reports /\ a + Size(rep[a]) - nth[a] <= n + m
      <4> HIDE DEF a
      <4> QED
        BY <1>1, <1>2, <3>1 DEF Labelled
    <3>3. Size(rep[a]) \in Nat
      <4> HIDE DEF a
      <4> QED
        BY <3>2, SizeIs, Zenon
    <3>4. k + Size(rep[a]) \in 1..m + 1 /\ n + (k + Size(rep[a])) = a + Size(rep[a])
      <4>1. a = n + k
        OBVIOUS
      <4> HIDE DEF a
      <4> QED
        BY <1>2, <3>1, <3>2, <3>3, <4>1
    <3>5. due2[k + Size(rep[a])] = due[a + Size(rep[a])]
      BY <3>4
    <3> HIDE DEF a
    <3> QED
      BY <2>2, <3>1, <3>5
  <2> HIDE DEF rep2, nth2, due2
  <2>7. Chained(t, Updated(now, r), then, rep2, nth2, due2)
    BY <2>3, <2>4, <2>5, <2>6 DEF Chained
  <2> QED
    BY <2>1, <2>7 DEF Traffic
<1> QED
  BY <1>5, <1>8, <1>9, <1>10 DEF StartsPacket

\* Where 40 is only ever the set info, a header with it starts a packet.
LEMMA HeaderIsFirst ==
  ASSUME NEW h \in Seq(Byte), NEW t \in Seq(Byte), NEW said, NEW now, NEW then,
         NEW whole, NEW first, NEW first2,
         Traffic(h \o t, said, now, then, whole, first),
         first2 => InfoOnlyOnce, Len(h) = 3, h[2] = ReportInfo
  PROVE  Traffic(h \o t, said, now, then, whole, first2)
<1> DEFINE s == h \o t
<1>1. PICK rep, nth, due :
           /\ Labelled(s, said, rep, nth)
           /\ whole => Chained(s, now, then, rep, nth, due)
  BY DEF Traffic
<1>0. /\ Len(s) = Len(h) + Len(t) /\ Len(t) \in Nat
      /\ \A i \in 1..Len(h) : s[i] = h[i]
  BY ConcatBytes
<1> HIDE DEF s
<1>2. 1 \in 1..Len(s) /\ 2 \in 1..Len(s) /\ 1 < Len(s) /\ s[2] = ReportInfo
  BY <1>0
<1>3. ASSUME first2 PROVE nth[1] = 1
  <2>1. rep[2] \in Reports /\ nth[2] \in 1..Size(rep[2]) /\ s[2] = ReportPacket(rep[2])[nth[2]]
    BY <1>1, <1>2 DEF Labelled
  <2>2. nth[2] = 2
    BY <1>2, <1>3, <2>1 DEF InfoOnlyOnce, Size
  <2>3. /\ rep[1] \in Reports /\ nth[1] \in 1..Size(rep[1])
        /\ nth[1] = Size(rep[1]) => nth[1 + 1] = 1
        /\ \A j \in 0..Size(rep[1]) - nth[1] : nth[1 + j] = nth[1] + j
    BY <1>1, <1>2 DEF Labelled
  <2>4. Size(rep[1]) \in Nat
    BY <2>3, SizeIs, Zenon
  <2>5. nth[1] # Size(rep[1])
    BY <2>2, <2>3
  <2>6. 1 \in 0..Size(rep[1]) - nth[1]
    BY <2>3, <2>4, <2>5
  <2>7. nth[2] = nth[1] + 1
    BY <2>3, <2>6
  <2> QED
    BY <2>2, <2>3, <2>4, <2>7
<1> QED
  BY <1>1, <1>3 DEF Traffic, s

LEMMA TrafficLess ==
  ASSUME NEW s, NEW said, NEW now, NEW then, NEW whole, NEW first, NEW whole2, NEW first2,
         Traffic(s, said, now, then, whole, first), whole2 => whole, first2 => first
  PROVE  Traffic(s, said, now, then, whole2, first2)
  BY DEF Traffic

LEMMA NoTraffic ==
  ASSUME NEW said, NEW now, NEW then, NEW first,
         Traffic(<<>>, said, now, then, TRUE, first)
  PROVE  now = then
<1>1. PICK rep, nth, due : Chained(<<>>, now, then, rep, nth, due)
  BY DEF Traffic
<1>2. due[1] = now /\ due[0 + 1] = then
  BY <1>1 DEF Chained
<1> QED
  BY <1>2

-----------------------------------------------------------------------------
(* The invariant: what the listener, the driver and the MCU hold together  *)
(* is a run of packets, and the files with these packets applied are       *)
(* latest. Nothing less is inductive: a packet is split over all three.    *)

\* What the listener holds of the packet it is reading.
InHand == IF pc \in {"apply", "exec"} THEN <<>> ELSE data

\* What was sent and not yet dealt with.
Stream == InHand \o (line \o toSend)

\* How much the listener holds, and of what.
HandInv ==
  /\ pc \notin {"apply", "exec"} => rest = <<>>
  /\ pc \in {"test", "done"} => data = <<>>
  /\ pc = "header" => Len(data) <= 3
  /\ pc = "body" => data[2] = ReportInfo /\ Len(data) <= 4 + 4 * data[3]

\* The listener is sure to have found the start of a packet.
Sound == InfoOnlyOnce /\ pc = "body"

\* Until a byte is lost the bytes are those of packets, in order; and until a
\* read breaks off the listener is at the packet it should be at.
LineInv ==
  ~gap => Traffic(Stream, reported, Updated(applied, rest), latest, ~cut /\ table, Sound)

\* What is being applied, or was, has been reported.
FieldsInv ==
  /\ table /\ ~gap /\ (cut => InfoOnlyOnce) => ToSet(rest) \subseteq reported /\ FilesHoldReports
  /\ ~table => \A k \in Keys : store[k] = NoValue

TrafficInv == HandInv /\ LineInv /\ FieldsInv

\* The files differ from what was applied in the keys that failed saves cost.
MissedInv == \A k \in Keys \ missed : store[k] = applied[k]

-----------------------------------------------------------------------------
LEMMA InHandType == ReceiverTypeOK => InHand \in Seq(Byte) /\ line \o toSend \in Seq(Byte)
<1> SUFFICES ASSUME ReceiverTypeOK PROVE InHand \in Seq(Byte) /\ line \o toSend \in Seq(Byte)
  OBVIOUS
<1>1. line \o toSend \in Seq(Byte)
  BY ConcatBytes DEF ReceiverTypeOK
<1>2. <<>> \in Seq(Byte)
  OBVIOUS
<1> QED
  BY <1>1, <1>2 DEF InHand, ReceiverTypeOK

LEMMA InitTraffic == Init /\ ReceiverTypeOK => TrafficInv
<1> SUFFICES ASSUME Init, ReceiverTypeOK PROVE TrafficInv
  OBVIOUS
<1>1. Stream = toSend
  <2>1. InHand = <<>> /\ line = <<>> /\ toSend \in Seq(Byte)
    BY DEF Init, InHand, ReceiverTypeOK
  <2> QED
    BY <2>1, ConcatEmptySeq DEF Stream
<1>2. Updated(applied, rest) = latest
  <2>1. rest = <<>> /\ applied \in Contents /\ applied = latest
    BY DEF Init, ReceiverTypeOK
  <2> QED
    BY <2>1, UpdatedNothing
<1>3. ~Sound
  BY DEF Init, Sound
<1>4. CASE toSend = <<>> /\ cut = FALSE
  <2> DEFINE due == [k \in 1..1 |-> latest]
  <2>1. Labelled(<<>>, reported, <<>>, <<>>)
    BY DEF Labelled
  <2>2. Len(<<>>) = 0 /\ due[1] = latest /\ 0 + 1 = 1 /\ 1..0 = {}
    OBVIOUS
  <2> HIDE DEF due
  <2>3. Chained(<<>>, latest, latest, <<>>, <<>>, due)
    BY <2>2 DEF Chained
  <2>4. Traffic(<<>>, reported, latest, latest, ~cut /\ table, Sound)
    BY <1>3, <2>1, <2>3 DEF Traffic
  <2>5. LineInv
    BY <1>1, <1>2, <1>4, <2>4 DEF LineInv
  <2> QED
    BY <2>5 DEF TrafficInv, HandInv, FieldsInv, Init, FilesHoldReports, ToSet
<1>5. CASE cut = TRUE /\ \E r \in Reports : \E gone \in 1..Len(ReportPacket(r)) - 1 :
             toSend = SubSeq(ReportPacket(r), gone + 1, Len(ReportPacket(r)))
  <2>1. PICK r \in Reports : \E gone \in 1..Size(r) - 1 :
               toSend = SubSeq(ReportPacket(r), gone + 1, Size(r))
    BY <1>5 DEF Size
  <2>2. PICK gone \in 1..Size(r) - 1 :
               toSend = SubSeq(ReportPacket(r), gone + 1, Size(r))
    BY <2>1
  <2>3. ReportPacket(r) \in Seq(Byte) /\ Size(r) \in Nat /\ Size(r) >= 4 /\ gone \in Nat
    BY SizeIs
  <2>4. /\ Len(toSend) = Size(r) - gone
        /\ \A k \in 1..Size(r) - gone : toSend[k] = ReportPacket(r)[gone + k]
    <3>1. \A i \in gone + 1..Size(r) : ReportPacket(r)[i] \in Byte
      <4>1. \A i \in gone + 1..Size(r) : i \in 1..Len(ReportPacket(r))
        BY <2>3 DEF Size
      <4> QED
        BY <2>3, <4>1, ElementOfSeq
    <3>2. /\ Len(toSend) = IF gone + 1 <= Size(r) THEN Size(r) - (gone + 1) + 1 ELSE 0
          /\ \A k \in 1..Size(r) - (gone + 1) + 1 : toSend[k] = ReportPacket(r)[(gone + 1) + k - 1]
      BY <2>2, <2>3, <3>1, SubSeqProperties
    <3>3. /\ gone + 1 <= Size(r) /\ Size(r) - (gone + 1) + 1 = Size(r) - gone
          /\ \A k \in 1..Size(r) - gone : (gone + 1) + k - 1 = gone + k
      BY <2>3
    <3> QED
      BY <3>2, <3>3
  <2> DEFINE n == Size(r) - gone
             rep == [k \in 1..n |-> r]
             nth == [k \in 1..n |-> gone + k]
  <2>5. n \in Nat /\ n + gone = Size(r)
    BY <2>3
  <2>6. Labelled(toSend, reported, rep, nth)
    <3>1. ASSUME NEW k \in 1..n
          PROVE /\ rep[k] = r /\ nth[k] = gone + k /\ gone + k \in 1..Size(r) /\ gone + k # 1
                /\ k + Size(r) - (gone + k) <= n
                /\ gone + k = Size(r) => ~(k < n)
                /\ \A j \in 0..Size(r) - (gone + k) : rep[k + j] = r /\ nth[k + j] = (gone + k) + j
      <4>1. \A j \in 0..Size(r) - (gone + k) : k + j \in 1..n /\ gone + (k + j) = (gone + k) + j
        BY <2>3, <2>5
      <4>2. rep[k] = r /\ nth[k] = gone + k
        OBVIOUS
      <4>3. /\ gone + k \in 1..Size(r) /\ gone + k # 1
            /\ k + Size(r) - (gone + k) <= n
            /\ gone + k = Size(r) => ~(k < n)
        <5>1. k \in Int /\ 1 <= k /\ k <= n
          BY <2>5
        <5> HIDE DEF rep, nth, n
        <5> QED
          BY <2>3, <2>5, <5>1
      <4> QED
        BY <4>1, <4>2, <4>3
    <3> HIDE DEF rep, nth, n
    <3> QED
      BY <2>4, <3>1 DEF Labelled, n
  <2> HIDE DEF rep, nth, n
  <2>7. Traffic(toSend, reported, latest, latest, ~cut /\ table, Sound)
    BY <1>3, <1>5, <2>6 DEF Traffic
  <2>8. LineInv
    BY <1>1, <1>2, <2>7 DEF LineInv
  <2> QED
    BY <2>8 DEF TrafficInv, HandInv, FieldsInv, Init, FilesHoldReports, ToSet
<1> QED
  BY <1>4, <1>5 DEF Init

\* A step that leaves the line and the files alone.
LEMMA SameTraffic ==
  ASSUME LineInv, Stream' = Stream, Updated(applied', rest') = Updated(applied, rest),
         reported' = reported, latest' = latest, gap' = gap, table' = table,
         cut => cut', Sound' => Sound
  PROVE  LineInv'
<1>1. ASSUME ~gap'
      PROVE Traffic(Stream', reported', Updated(applied', rest'), latest', ~cut' /\ table', Sound')
  <2>1. Traffic(Stream, reported, Updated(applied, rest), latest, ~cut /\ table, Sound)
    BY <1>1 DEF LineInv
  <2>2. Traffic(Stream, reported, Updated(applied, rest), latest, ~cut' /\ table', Sound')
    BY <2>1, TrafficLess
  <2> QED
    BY <2>2
<1> QED
  BY <1>1 DEF LineInv

LEMMA StartPacketTraffic ==
  ASSUME ReceiverTypeOK, DataInv, TrafficInv, NEW r \in Reports, StartPacket(r)
  PROVE  TrafficInv'
<1> USE DEF listenerVars, files, mainVars
<1>1. HandInv'
  BY DEF TrafficInv, HandInv, StartPacket
<1>2. FieldsInv'
  BY DEF TrafficInv, FieldsInv, StartPacket, FilesHoldReports
<1>3. Stream' = Stream \o ReportPacket(r) /\ Stream \in Seq(Byte)
  <2>1. InHand \in Seq(Byte) /\ line \in Seq(Byte) /\ ReportPacket(r) \in Seq(Byte)
    BY InHandType, SizeIs DEF ReceiverTypeOK
  <2>2. Stream = InHand \o line
    BY <2>1, ConcatEmptySeq DEF StartPacket, Stream
  <2>3. Stream' = InHand \o (line \o ReportPacket(r))
    BY DEF StartPacket, Stream, InHand
  <2>4. (InHand \o line) \o ReportPacket(r) = InHand \o (line \o ReportPacket(r))
    BY <2>1, ConcatAssociative
  <2>5. InHand \o line \in Seq(Byte)
    BY <2>1, ConcatBytes
  <2> QED
    BY <2>2, <2>3, <2>4, <2>5
<1>4. Sound => Stream # <<>>
  <2>1. ASSUME Sound PROVE Len(Stream) # 0
    <3>1. InHand = data /\ Len(data) >= 3
      BY <2>1 DEF Sound, InHand, DataInv
    <3>2. Len(Stream) = Len(InHand) + Len(line \o toSend) /\ Len(line \o toSend) \in Nat /\ Len(InHand) \in Nat
      BY InHandType, ConcatBytes DEF Stream
    <3> QED
      BY <3>1, <3>2
  <2> QED
    BY <1>3, <2>1, EmptySeq
<1>5. LineInv'
  <2>1. ASSUME ~gap'
        PROVE Traffic(Stream', reported', Updated(applied', rest'), latest', ~cut' /\ table', Sound')
    <3>1. Traffic(Stream, reported, Updated(applied, rest), latest, ~cut /\ table, Sound)
      BY <2>1 DEF LineInv, TrafficInv, StartPacket
    <3>2. Traffic(Stream \o ReportPacket(r), reported \cup ToSet(r), Updated(applied, rest),
                  Updated(latest, r), ~cut /\ table, Sound)
      BY <1>3, <1>4, <3>1, TrafficAppend
    <3> QED
      BY <1>3, <3>2 DEF StartPacket, Sound
  <2> QED
    BY <2>1 DEF LineInv
<1> QED
  BY <1>1, <1>2, <1>5 DEF TrafficInv

LEMMA DeliverTraffic ==
  ASSUME ReceiverTypeOK, TrafficInv, DeliverByte PROVE TrafficInv'
<1> USE DEF listenerVars, files, mainVars, history
<1>1. HandInv' /\ FieldsInv'
  BY DEF TrafficInv, HandInv, DeliverByte, FieldsInv, FilesHoldReports
<1>2. Stream' = Stream
  <2>1. line' \o toSend' = line \o toSend
    BY MoveByte DEF DeliverByte, ReceiverTypeOK
  <2>2. InHand' = InHand
    BY DEF InHand, DeliverByte
  <2> QED
    BY <2>1, <2>2 DEF Stream
<1>3. LineInv'
  BY <1>2, SameTraffic DEF TrafficInv, DeliverByte, Sound
<1> QED
  BY <1>1, <1>3 DEF TrafficInv

LEMMA LostTraffic ==
  ASSUME TrafficInv, LoseByte \/ OverflowByte PROVE TrafficInv'
<1> USE DEF listenerVars, files, mainVars
<1>1. HandInv'
  BY DEF TrafficInv, HandInv, LoseByte, OverflowByte
<1>2. gap' = TRUE /\ UNCHANGED <<table, store>>
  BY DEF LoseByte, OverflowByte
<1>3. LineInv'
  BY <1>2 DEF LineInv
<1>4. FieldsInv'
  BY <1>2 DEF TrafficInv, FieldsInv
<1> QED
  BY <1>1, <1>3, <1>4 DEF TrafficInv

LEMMA TakeTraffic ==
  ASSUME ReceiverTypeOK, DataInv, TrafficInv, TakeByte PROVE TrafficInv'
<1> USE DEF files, mainVars, history
<1>1. FieldsInv'
  BY DEF TrafficInv, TakeByte, FieldsInv, FilesHoldReports
<1>2. /\ Head(line) \in Byte /\ Tail(line) \in Seq(Byte)
      /\ data \in Seq(Byte) /\ Len(data) \in Nat /\ toSend \in Seq(Byte) /\ line \in Seq(Byte)
  BY HeadTailProperties, LenProperties DEF TakeByte, ReceiverTypeOK
<1>3. /\ Len(data') = Len(data) + 1
      /\ \A i \in 1..Len(data) : data'[i] = data[i]
      /\ data' \in Seq(Byte)
  BY <1>2, AppendedByte DEF TakeByte
<1>4. HandInv'
  <2>1. CASE pc = "header"
    <3>1. Len(data) < 3
      BY <2>1 DEF TakeByte, Wanted
    <3>2. Len(data') <= 3
      BY <1>2, <1>3, <3>1
    <3> QED
      BY <2>1, <3>2 DEF TakeByte, HandInv, TrafficInv
  <2>2. CASE pc = "body"
    <3>1. Len(data) < 4 + 4 * data[3] /\ Len(data) >= 3
      BY <2>2 DEF TakeByte, Wanted, DataInv
    <3>2. 2 \in 1..Len(data) /\ 3 \in 1..Len(data)
      BY <1>2, <3>1
    <3>3. data[3] \in Nat
      BY <1>2, <3>2, ElementOfSeq, ByteIsNat
    <3>4. data'[2] = data[2] /\ data'[3] = data[3] /\ Len(data') <= 4 + 4 * data[3]
      BY <1>2, <1>3, <3>1, <3>2, <3>3
    <3> QED
      BY <2>2, <3>4 DEF TakeByte, HandInv, TrafficInv
  <2> QED
    BY <2>1, <2>2 DEF TakeByte
<1>5. Stream' = Stream
  <2>1. /\ Stream = data \o (line \o toSend)
        /\ Stream' = Append(data, Head(line)) \o (Tail(line) \o toSend)
    BY DEF Stream, InHand, TakeByte
  <2> QED
    BY <1>2, <2>1, TakenByte DEF TakeByte
<1>6. LineInv'
  BY <1>5, SameTraffic DEF TrafficInv, TakeByte, Sound
<1> QED
  BY <1>1, <1>4, <1>6 DEF TrafficInv

LEMMA AcceptHeaderTraffic ==
  ASSUME ReceiverTypeOK, TrafficInv, AcceptHeader PROVE TrafficInv'
<1> USE DEF lineVars, files, mainVars, history
<1>1. FieldsInv'
  BY DEF TrafficInv, AcceptHeader, FieldsInv, FilesHoldReports
<1>2. Len(data) = 3 /\ data[2] = ReportInfo /\ data \in Seq(Byte)
  BY DEF AcceptHeader, ReportHeader, ReceiverTypeOK
<1>3. data[3] \in Nat
  <2>1. 3 \in 1..Len(data)
    BY <1>2
  <2> QED
    BY <1>2, <2>1, ElementOfSeq, ByteIsNat
<1>4. HandInv'
  BY <1>2, <1>3 DEF AcceptHeader, HandInv, TrafficInv
<1>5. Stream = data \o (line \o toSend) /\ Stream' = Stream
  BY DEF Stream, InHand, AcceptHeader
<1>6. LineInv'
  <2>1. ASSUME ~gap'
        PROVE Traffic(Stream', reported', Updated(applied', rest'), latest', ~cut' /\ table', Sound')
    <3>1. Traffic(Stream, reported, Updated(applied, rest), latest, ~cut /\ table, Sound)
      BY <2>1 DEF LineInv, TrafficInv, AcceptHeader
    <3>2. Sound' => InfoOnlyOnce
      BY DEF Sound
    <3>3. line \o toSend \in Seq(Byte)
      BY InHandType
    <3>4. Traffic(Stream, reported, Updated(applied, rest), latest, ~cut /\ table, Sound')
      BY <1>2, <1>5, <3>1, <3>2, <3>3, HeaderIsFirst
    <3> QED
      BY <1>5, <3>4 DEF AcceptHeader
  <2> QED
    BY <2>1 DEF LineInv
<1> QED
  BY <1>1, <1>4, <1>6 DEF TrafficInv

\* The bytes that are dropped with a header or a packet.
LEMMA DropTraffic ==
  ASSUME ReceiverTypeOK, LineInv, pc \in {"header", "body"}, Stream' = line \o toSend,
         reported' = reported, latest' = latest, gap' = gap,
         ~(cut' = FALSE /\ table'), ~Sound'
  PROVE  LineInv'
<1>1. ASSUME ~gap'
      PROVE Traffic(Stream', reported', Updated(applied', rest'), latest', ~cut' /\ table', Sound')
  <2>1. Traffic(data \o (line \o toSend), reported, Updated(applied, rest), latest, ~cut /\ table, Sound)
    BY <1>1 DEF LineInv, Stream, InHand
  <2>2. data \in Seq(Byte) /\ line \o toSend \in Seq(Byte)
    BY InHandType DEF ReceiverTypeOK
  <2>3. Traffic(line \o toSend, reported, Updated(applied', rest'), latest, FALSE, FALSE)
    BY <2>1, <2>2, TrafficDrop
  <2>4. (~cut' /\ table' => FALSE) /\ (Sound' => FALSE)
    OBVIOUS
  <2> QED
    BY <2>3, <2>4, TrafficLess
<1> QED
  BY <1>1 DEF LineInv

LEMMA DroppedStream ==
  ASSUME ReceiverTypeOK, InHand' = <<>>, line' = line, toSend' = toSend
  PROVE  Stream' = line \o toSend
<1>1. line \o toSend \in Seq(Byte)
  BY InHandType
<1> QED
  BY <1>1, ConcatEmptySeq DEF Stream

LEMMA DiscardTraffic ==
  ASSUME ReceiverTypeOK, ReceiverTypeOK', TrafficInv, DiscardHeader PROVE TrafficInv'
<1> USE DEF lineVars, files, mainVars
<1>1. FieldsInv'
  BY DEF TrafficInv, DiscardHeader, FieldsInv, FilesHoldReports
<1>2. HandInv'
  BY DEF TrafficInv, HandInv, DiscardHeader
<1>3. Stream' = line \o toSend
  <2>1. InHand' = <<>>
    BY DEF DiscardHeader, InHand
  <2> QED
    BY <2>1, DroppedStream DEF DiscardHeader
<1>4. ~Sound'
  BY DEF DiscardHeader, Sound
<1>5. CASE data = <<>>
  <2>1. line \o toSend \in Seq(Byte)
    BY InHandType
  <2>2. Stream' = Stream
    BY <1>3, <1>5, <2>1, ConcatEmptySeq DEF Stream, InHand, DiscardHeader
  <2>3. LineInv'
    BY <1>4, <2>2, SameTraffic DEF TrafficInv, DiscardHeader
  <2> QED
    BY <1>1, <1>2, <2>3 DEF TrafficInv
<1>6. CASE data # <<>> /\ ~gap /\ ~cut' /\ table
  <2>1. Len(data) = 3 /\ ~cut
    <3>1. ~(Len(data) < 3)
      BY <1>6 DEF DiscardHeader, ReadCutShort, Wanted, ReceiverTypeOK
    <3>2. Len(data) <= 3 /\ Len(data) \in Nat
      BY LenProperties DEF TrafficInv, HandInv, DiscardHeader, ReceiverTypeOK
    <3>3. Len(data) = 3
      <4> DEFINE n == Len(data)
      <4>1. ~(n < 3) /\ n <= 3 /\ n \in Nat
        BY <3>1, <3>2
      <4> HIDE DEF n
      <4>2. n = 3
        BY <4>1
      <4> QED
        BY <4>2 DEF n
    <3>4. ~cut
      BY <1>6 DEF DiscardHeader, ReceiverTypeOK
    <3> QED
      BY <3>3, <3>4
  <2>2. Traffic(data \o (line \o toSend), reported, Updated(applied, rest), latest, TRUE, Sound)
    BY <1>6, <2>1 DEF TrafficInv, LineInv, Stream, InHand, DiscardHeader
  <2>3. data \in Seq(Byte) /\ line \o toSend \in Seq(Byte) /\ Len(data) >= 3
    BY <2>1, InHandType DEF ReceiverTypeOK
  <2>4. data[2] = ReportInfo
    BY <2>2, <2>3, FirstPacket DEF StartsPacket
  <2> QED
    BY <2>1, <2>4 DEF DiscardHeader, ReportHeader
<1>7. CASE ~(~gap /\ ~cut' /\ table)
  <2>1. CASE gap
    <3>1. gap'
      BY <2>1 DEF DiscardHeader
    <3> QED
      BY <1>1, <1>2, <3>1 DEF TrafficInv, LineInv
  <2>2. CASE ~gap
    <3>1. ~(cut' = FALSE /\ table')
      BY <1>7, <2>2 DEF DiscardHeader
    <3>2. LineInv'
      BY <1>3, <1>4, <3>1, DropTraffic DEF TrafficInv, DiscardHeader
    <3> QED
      BY <1>1, <1>2, <3>2 DEF TrafficInv
  <2> QED
    BY <2>1, <2>2
<1> QED
  BY <1>5, <1>6, <1>7

\* What a listener that reads a body at a packet's start holds.
LEMMA BodyIsPacket ==
  ASSUME ReceiverTypeOK, DataInv, TrafficInv, pc = "body", ~gap, InfoOnlyOnce \/ (~cut /\ table)
  PROVE  \E r \in Reports :
           /\ ToSet(r) \subseteq reported
           /\ data[3] = Len(r) /\ Wanted = Size(r)
           /\ \A k \in 1..Len(data) : data[k] = ReportPacket(r)[k]
           /\ Len(data) = Size(r) => data = ReportPacket(r)
           /\ (~cut /\ table) /\ Len(data) = Size(r) =>
                Traffic(line \o toSend, reported, Updated(applied, r), latest, TRUE, FALSE)
<1> DEFINE whole == ~cut /\ table
           ahead == line \o toSend
<1>1. Traffic(data \o ahead, reported, Updated(applied, rest), latest, whole, Sound)
  BY DEF TrafficInv, LineInv, Stream, InHand
<1>2. /\ data \in Seq(Byte) /\ ahead \in Seq(Byte) /\ Len(data) >= 3
      /\ Len(data) <= 4 + 4 * data[3] /\ rest = <<>> /\ applied \in Contents
  BY InHandType DEF ReceiverTypeOK, DataInv, TrafficInv, HandInv
<1>3. whole \/ Sound
  BY DEF Sound
<1>4. PICK r \in Reports :
        StartsPacket(data, ahead, reported, Updated(applied, rest), latest, whole, r)
  <2> HIDE DEF whole, ahead
  <2> QED
    BY <1>1, <1>2, <1>3, FirstPacket
<1>5. Size(r) = 4 + 4 * Len(r) /\ ReportPacket(r) \in Seq(Byte)
  BY SizeIs, Zenon
<1>6. data[3] = Len(r) /\ Wanted = Size(r) /\ Len(data) <= Size(r)
  BY <1>2, <1>4, <1>5 DEF Wanted, StartsPacket
<1>7. Len(data) = Size(r) => data = ReportPacket(r)
  <2>1. ASSUME Len(data) = Size(r) PROVE data = ReportPacket(r)
    <3>1. Len(data) = Len(ReportPacket(r))
      BY <2>1 DEF Size
    <3>2. \A k \in 1..Len(data) : data[k] = ReportPacket(r)[k]
      BY <1>4, <1>6 DEF StartsPacket
    <3>3. data \in Seq(Byte) /\ ReportPacket(r) \in Seq(Byte)
      BY <1>2, <1>5
    <3> QED
      BY <3>1, <3>2, <3>3, SeqEqual, Zenon
  <2> QED
    BY <2>1
<1>8. Updated(applied, rest) = applied
  BY <1>2, UpdatedNothing
<1> QED
  BY <1>4, <1>6, <1>7, <1>8 DEF StartsPacket

\* The fields that are read from the bytes of a packet, be they all there or
\* not, are those that were put into it.
LEMMA SameFields ==
  ASSUME NEW r \in Reports, NEW packet \in Seq(Byte), Extractable(packet, Len(r)),
         Len(packet) <= Size(r), \A k \in 1..Len(packet) : packet[k] = ReportPacket(r)[k]
  PROVE  extract_data_fields(packet, Len(r)) = r
<1>1. /\ r \in Seq(Field) /\ Len(r) \in Nat /\ Len(r) \in Byte
      /\ ReportInfo \in Byte /\ Len(packet) >= 3 + 4 * Len(r) /\ Len(packet) \in Nat
  BY SizeIs, LenProperties DEF Extractable, ReportInfo, Byte
<1>2. extract_data_fields(ReportPacket(r), Len(r)) = r
  BY <1>1, RoundTrip, ReportPacketIs
<1>3. ASSUME NEW i \in 1..Len(r)
      PROVE  /\ packet[4 * i] = ReportPacket(r)[4 * i]
             /\ packet[4 * i + 1] = ReportPacket(r)[4 * i + 1]
             /\ packet[4 * i + 2] = ReportPacket(r)[4 * i + 2]
             /\ packet[4 * i + 3] = ReportPacket(r)[4 * i + 3]
  <2>1. /\ 4 * i \in 1..Len(packet) /\ 4 * i + 1 \in 1..Len(packet)
        /\ 4 * i + 2 \in 1..Len(packet) /\ 4 * i + 3 \in 1..Len(packet)
    BY <1>1
  <2> QED
    BY <2>1
<1>4. extract_data_fields(packet, Len(r)) = extract_data_fields(ReportPacket(r), Len(r))
  <2> DEFINE p == ReportPacket(r)
  <2>1. extract_data_fields(packet, Len(r)) = [i \in 1..Len(r) |->
           [id    |-> packet[4 * i] * 256 + packet[4 * i + 1],
            value |-> packet[4 * i + 2] * 256 + packet[4 * i + 3]]]
    BY DEF extract_data_fields
  <2>2. extract_data_fields(p, Len(r)) = [i \in 1..Len(r) |->
           [id    |-> p[4 * i] * 256 + p[4 * i + 1],
            value |-> p[4 * i + 2] * 256 + p[4 * i + 3]]]
    BY DEF extract_data_fields
  <2>3. \A i \in 1..Len(r) :
          /\ packet[4 * i] = p[4 * i] /\ packet[4 * i + 1] = p[4 * i + 1]
          /\ packet[4 * i + 2] = p[4 * i + 2] /\ packet[4 * i + 3] = p[4 * i + 3]
    BY <1>3
  <2> HIDE DEF p
  <2> DEFINE e == extract_data_fields(packet, Len(r))
             f == extract_data_fields(p, Len(r))
  <2>4. \A i \in 1..Len(r) : e[i] = f[i]
    BY <2>1, <2>2, <2>3
  <2>5. e = [i \in 1..Len(r) |-> e[i]] /\ f = [i \in 1..Len(r) |-> f[i]]
    BY <2>1, <2>2
  <2> HIDE DEF e, f
  <2>6. e = f
    BY <2>4, <2>5
  <2> QED
    BY <2>6 DEF e, f, p
<1> QED
  BY <1>2, <1>4

LEMMA RejectTraffic ==
  ASSUME ReceiverTypeOK, DataInv, TrafficInv, RejectPacket PROVE TrafficInv'
<1> USE DEF lineVars, files, mainVars
<1>1. FieldsInv'
  BY DEF TrafficInv, RejectPacket, FieldsInv, FilesHoldReports
<1>2. HandInv'
  BY DEF TrafficInv, HandInv, RejectPacket
<1>3. Stream' = line \o toSend
  <2>1. InHand' = <<>>
    BY DEF RejectPacket, InHand
  <2> QED
    BY <2>1, DroppedStream DEF RejectPacket
<1>4. ~Sound'
  BY DEF RejectPacket, Sound
<1>5. CASE ~gap /\ ~cut' /\ table
  <2>1. ~cut /\ ~ReadCutShort
    BY <1>5 DEF RejectPacket, ReceiverTypeOK
  <2>2. PICK r \in Reports : data[3] = Len(r) /\ Wanted = Size(r)
                             /\ (Len(data) = Size(r) => data = ReportPacket(r))
    BY <1>5, <2>1, BodyIsPacket DEF RejectPacket
  <2>3. data # <<>> /\ Len(data) \in Nat /\ Len(data) <= 4 + 4 * data[3] /\ Wanted = 4 + 4 * data[3]
    <3>1. Len(data) >= 3 /\ data \in Seq(Byte) /\ Len(data) <= 4 + 4 * data[3]
      BY DEF RejectPacket, DataInv, TrafficInv, HandInv, ReceiverTypeOK
    <3>2. Wanted = 4 + 4 * data[3]
      BY DEF Wanted, RejectPacket
    <3> QED
      BY <3>1, <3>2, LenProperties, EmptySeq
  <2>4. Size(r) \in Nat /\ Len(r) \in Byte /\ r \in Seq(Field)
    BY SizeIs
  <2>5. Len(data) = Size(r)
    BY <2>1, <2>2, <2>3, <2>4 DEF ReadCutShort
  <2>6. data = Packet(ReportInfo, r) /\ data[3] = Len(r)
    BY <2>2, <2>5, ReportPacketIs
  <2>7. ReportInfo \in Byte
    BY DEF ReportInfo, Byte
  <2>8. verify_checksum(data) /\ Extractable(data, Len(r))
    BY <2>4, <2>6, <2>7, RoundTrip
  <2> QED
    BY <2>6, <2>8 DEF RejectPacket, Valid
<1>6. CASE ~(~gap /\ ~cut' /\ table)
  <2>1. CASE gap
    <3>1. gap'
      BY <2>1 DEF RejectPacket
    <3> QED
      BY <1>1, <1>2, <3>1 DEF TrafficInv, LineInv
  <2>2. CASE ~gap
    <3>1. ~(cut' = FALSE /\ table')
      BY <1>6, <2>2 DEF RejectPacket
    <3>2. LineInv'
      BY <1>3, <1>4, <3>1, DropTraffic DEF TrafficInv, RejectPacket
    <3> QED
      BY <1>1, <1>2, <3>2 DEF TrafficInv
  <2> QED
    BY <2>1, <2>2
<1> QED
  BY <1>5, <1>6

LEMMA AcceptTraffic ==
  ASSUME ReceiverTypeOK, DataInv, TrafficInv, AcceptPacket PROVE TrafficInv'
<1> USE DEF lineVars, files, mainVars
<1>1. HandInv'
  BY DEF TrafficInv, HandInv, AcceptPacket
<1>2. Stream' = line \o toSend
  <2>1. InHand' = <<>>
    BY DEF AcceptPacket, InHand
  <2> QED
    BY <2>1, DroppedStream DEF AcceptPacket
<1>3. ~Sound' /\ pc = "body" /\ gap' = gap /\ reported' = reported /\ latest' = latest
      /\ files' = files /\ table' = table
  BY DEF AcceptPacket, Sound
<1>4. ASSUME NEW r \in Reports, data[3] = Len(r), Wanted = Size(r),
             \A k \in 1..Len(data) : data[k] = ReportPacket(r)[k]
      PROVE rest' = r
  <2>1. Extractable(data, Len(r)) /\ data \in Seq(Byte)
    BY <1>4 DEF AcceptPacket, Valid, ReceiverTypeOK
  <2>2. Len(data) <= Size(r)
    BY <1>3, <1>4 DEF TrafficInv, HandInv, Wanted
  <2>3. extract_data_fields(data, Len(r)) = r
    BY <1>4, <2>1, <2>2, SameFields
  <2> QED
    BY <1>4, <2>3 DEF AcceptPacket
<1>5. FieldsInv'
  <2>0. (cut => cut') /\ cut \in BOOLEAN
    BY DEF AcceptPacket, ReceiverTypeOK
  <2>1. ASSUME table', ~gap', cut' => InfoOnlyOnce PROVE ToSet(rest') \subseteq reported' /\ FilesHoldReports'
    <3>1. PICK r \in Reports : /\ ToSet(r) \subseteq reported
                               /\ data[3] = Len(r) /\ Wanted = Size(r)
                               /\ \A k \in 1..Len(data) : data[k] = ReportPacket(r)[k]
      BY <1>3, <2>0, <2>1, BodyIsPacket
    <3>2. rest' = r
      BY <1>4, <3>1
    <3>3. FilesHoldReports
      BY <1>3, <2>0, <2>1 DEF TrafficInv, FieldsInv
    <3> QED
      BY <1>3, <3>1, <3>2, <3>3 DEF FilesHoldReports, files
  <2>2. ~table' => \A k \in Keys : store'[k] = NoValue
    BY <1>3 DEF files, TrafficInv, FieldsInv
  <2> QED
    BY <2>1, <2>2 DEF FieldsInv
<1>6. LineInv'
  <2>1. CASE ~gap /\ ~cut' /\ table
    <3>1. ~cut /\ ~ReadCutShort
      BY <2>1 DEF AcceptPacket, ReceiverTypeOK
    <3>2. PICK r \in Reports :
             /\ data[3] = Len(r) /\ Wanted = Size(r)
             /\ \A k \in 1..Len(data) : data[k] = ReportPacket(r)[k]
             /\ Len(data) = Size(r) =>
                  Traffic(line \o toSend, reported, Updated(applied, r), latest, TRUE, FALSE)
      BY <1>3, <2>1, <3>1, BodyIsPacket
    <3>3. rest' = r
      BY <1>4, <3>2
    <3>4. Len(data) = Size(r)
      <4>1. Len(data) >= 3 /\ data \in Seq(Byte) /\ Len(data) <= 4 + 4 * data[3]
        BY <1>3 DEF DataInv, TrafficInv, HandInv, ReceiverTypeOK
      <4>2. Wanted = 4 + 4 * data[3]
        BY <1>3 DEF Wanted
      <4>3. Len(data) \in Nat /\ data # <<>>
        BY <4>1, LenProperties, EmptySeq
      <4>4. Size(r) \in Nat
        BY SizeIs
      <4> QED
        BY <3>1, <3>2, <4>1, <4>2, <4>3, <4>4 DEF ReadCutShort
    <3>5. Traffic(Stream', reported', Updated(applied', rest'), latest', TRUE, FALSE)
      BY <1>2, <1>3, <3>2, <3>3, <3>4
    <3>6. Traffic(Stream', reported', Updated(applied', rest'), latest', ~cut' /\ table', Sound')
      BY <1>3, <2>1, <3>5, TrafficLess
    <3> QED
      BY <3>6 DEF LineInv
  <2>2. CASE gap
    BY <1>3, <2>2 DEF LineInv
  <2>3. CASE ~gap /\ ~(~cut' /\ table)
    <3>1. ~(cut' = FALSE /\ table')
      BY <1>3, <2>3
    <3> QED
      BY <1>2, <1>3, <3>1, DropTraffic DEF TrafficInv
  <2> QED
    BY <2>1, <2>2, <2>3
<1> QED
  BY <1>1, <1>5, <1>6 DEF TrafficInv

LEMMA HeadReported ==
  ASSUME NEW r \in Seq(Field), r # <<>>, NEW said, ToSet(r) \subseteq said
  PROVE  Head(r) \in said /\ ToSet(Tail(r)) \subseteq said
<1>1. /\ 1 \in DOMAIN r /\ r[1] = Head(r)
      /\ \A i \in DOMAIN Tail(r) : i + 1 \in DOMAIN r /\ Tail(r)[i] = r[i + 1]
  BY LastOfTail
<1> QED
  BY <1>1 DEF ToSet

\* A step of the listener through the fields of a packet.
LEMMA FieldDone ==
  ASSUME TrafficInv, pc \in {"apply", "exec"}, pc' \in {"apply", "exec"},
         UNCHANGED <<lineVars, mainVars, history, data, table>>,
         Updated(applied', rest') = Updated(applied, rest), FieldsInv'
  PROVE  TrafficInv'
<1> USE DEF lineVars, files, mainVars, history
<1>1. HandInv'
  BY DEF TrafficInv, HandInv
<1>2. Stream' = Stream
  BY DEF Stream, InHand
<1>3. LineInv'
  BY <1>2, SameTraffic DEF TrafficInv, Sound
<1> QED
  BY <1>1, <1>3 DEF TrafficInv

LEMMA SaveTraffic ==
  ASSUME ReceiverTypeOK, TrafficInv, SaveField \/ SaveFails PROVE TrafficInv'
<1> DEFINE f == Head(rest)
<1> USE DEF lineVars, files, mainVars, history, AtMapped
<1>1. rest \in Seq(Field) /\ rest # <<>> /\ applied \in Contents /\ store \in Contents
      /\ table /\ pc = "apply" /\ f \in Field /\ Mapped(f) /\ ~Softap(f)
      /\ applied' = Save(applied, f) /\ rest' = Tail(rest) /\ UNCHANGED <<pc, data, table>>
      /\ UNCHANGED <<lineVars, mainVars, history>>
  BY HeadTailProperties DEF ReceiverTypeOK, SaveField, SaveFails
<1>2. Updated(applied', rest') = Updated(applied, rest)
  BY <1>1, UpdatedStep
<1>3. ASSUME NEW k \in Keys
      PROVE store'[k] \in {NoValue, store[k]} \/ (k = KeyOf(f) /\ store'[k] = f.value)
  <2>1. CASE SaveField
    BY <1>1, <2>1 DEF SaveField, Save, Contents
  <2>2. CASE SaveFails
    <3>1. PICK torn : store' = Emptied(store, torn)
      BY <2>2 DEF SaveFails
    <3> QED
      BY <3>1 DEF Emptied
  <2> QED
    BY <2>1, <2>2
<1>4. FieldsInv'
  <2>1. ASSUME ~gap', cut' => InfoOnlyOnce PROVE ToSet(rest') \subseteq reported' /\ FilesHoldReports'
    <3>1. ToSet(rest) \subseteq reported /\ FilesHoldReports
      BY <1>1, <2>1 DEF TrafficInv, FieldsInv
    <3>2. f \in reported /\ ToSet(Tail(rest)) \subseteq reported
      BY <1>1, <3>1, HeadReported
    <3>3. ASSUME NEW k \in Keys, store'[k] # NoValue
          PROVE \E g \in reported : Mapped(g) /\ KeyOf(g) = k /\ g.value = store'[k]
      BY <1>1, <1>3, <3>1, <3>2, <3>3 DEF FilesHoldReports
    <3> QED
      BY <1>1, <3>2, <3>3 DEF FilesHoldReports
  <2> QED
    BY <1>1, <2>1 DEF FieldsInv
<1> QED
  BY <1>1, <1>2, <1>4, FieldDone

LEMMA SkipTraffic ==
  ASSUME ReceiverTypeOK, TrafficInv, SkipField \/ RunSoftap PROVE TrafficInv'
<1> USE DEF lineVars, files, mainVars, history
<1>1. rest \in Seq(Field) /\ rest # <<>> /\ store \in Contents /\ applied \in Contents
  BY DEF ReceiverTypeOK, SkipField, RunSoftap
<1>2. Updated(applied', rest') = Updated(applied, rest)
  BY <1>1, UpdatedStep DEF SkipField, RunSoftap
<1>3. FieldsInv'
  <2>1. ASSUME table', ~gap', cut' => InfoOnlyOnce PROVE ToSet(rest') \subseteq reported' /\ FilesHoldReports'
    <3>1. ToSet(rest) \subseteq reported /\ FilesHoldReports
      BY <2>1 DEF TrafficInv, FieldsInv, SkipField, RunSoftap
    <3>2. ToSet(Tail(rest)) \subseteq reported
      BY <1>1, <3>1, HeadReported
    <3> QED
      BY <3>1, <3>2 DEF SkipField, RunSoftap, FilesHoldReports
  <2>2. ~table' => \A k \in Keys : store'[k] = NoValue
    BY DEF TrafficInv, FieldsInv, SkipField, RunSoftap
  <2> QED
    BY <2>1, <2>2 DEF FieldsInv
<1> QED
  BY <1>2, <1>3, FieldDone DEF SkipField, RunSoftap

LEMMA DoneTraffic ==
  ASSUME ReceiverTypeOK, TrafficInv, PacketDone PROVE TrafficInv'
<1> USE DEF lineVars, files, mainVars, history
<1>1. HandInv'
  BY DEF HandInv, PacketDone
<1>2. FieldsInv'
  BY DEF TrafficInv, FieldsInv, PacketDone, FilesHoldReports, ToSet
<1>3. Stream' = Stream
  BY DEF Stream, InHand, PacketDone
<1>4. LineInv'
  <2>1. CASE table
    <3>1. rest = <<>> /\ rest' = <<>>
      BY <2>1 DEF PacketDone
    <3> QED
      BY <1>3, <3>1, SameTraffic DEF TrafficInv, PacketDone, Sound
  <2>2. CASE ~table
    <3>1. ASSUME ~gap'
          PROVE Traffic(Stream', reported', Updated(applied', rest'), latest', ~cut' /\ table', Sound')
      <4>1. \E rep, nth : Labelled(Stream, reported, rep, nth)
        BY <3>1 DEF TrafficInv, LineInv, Traffic, PacketDone
      <4>2. ~table' /\ ~Sound' /\ reported' = reported
        BY <2>2 DEF PacketDone, Sound
      <4> QED
        BY <1>3, <4>1, <4>2 DEF Traffic
    <3> QED
      BY <3>1 DEF LineInv
  <2> QED
    BY <2>1, <2>2 DEF ReceiverTypeOK
<1> QED
  BY <1>1, <1>2, <1>4 DEF TrafficInv

\* Steps of the other thread, and of the listener between two packets.
LEMMA OtherTraffic ==
  ASSUME ReceiverTypeOK, TrafficInv,
         UNCHANGED <<lineVars, data, rest, table, files, history>>,
         \/ pc' = pc
         \/ pc = "test" /\ pc' \in {"header", "done"}
         \/ pc = "exec" /\ pc' = "apply"
  PROVE  TrafficInv'
<1> USE DEF lineVars, files, history
<1>1. HandInv'
  <2>1. pc = "test" => Len(data) = 0
    BY DEF TrafficInv, HandInv
  <2> QED
    BY <2>1 DEF TrafficInv, HandInv
<1>2. FieldsInv'
  BY DEF TrafficInv, FieldsInv, FilesHoldReports
<1>3. Stream' = Stream
  BY DEF Stream, InHand
<1>4. LineInv'
  BY <1>3, SameTraffic DEF TrafficInv, Sound
<1> QED
  BY <1>1, <1>2, <1>4 DEF TrafficInv

LEMMA NextTraffic == IInv /\ IInv' /\ TrafficInv /\ [Next]_vars => TrafficInv'
<1> SUFFICES ASSUME IInv, IInv', TrafficInv, [Next]_vars PROVE TrafficInv'
  OBVIOUS
<1> USE DEF IInv
<1>1. ASSUME NEW r \in Reports, StartPacket(r) PROVE TrafficInv'
  BY <1>1, StartPacketTraffic
<1>2. CASE DeliverByte
  BY <1>2, DeliverTraffic
<1>3. CASE LoseByte \/ OverflowByte
  BY <1>3, LostTraffic
<1>4. CASE TakeByte
  BY <1>4, TakeTraffic
<1>5. CASE AcceptHeader
  BY <1>5, AcceptHeaderTraffic
<1>6. CASE DiscardHeader
  BY <1>6, DiscardTraffic
<1>7. CASE AcceptPacket
  BY <1>7, AcceptTraffic
<1>8. CASE RejectPacket
  BY <1>8, RejectTraffic
<1>9. CASE SkipField \/ RunSoftap
  BY <1>9, SkipTraffic
<1>10. CASE SaveField \/ SaveFails
  BY <1>10, SaveTraffic
<1>11. CASE PacketDone
  BY <1>11, DoneTraffic
<1>12. CASE TestRunning \/ SoftapReturns
  BY <1>12, OtherTraffic DEF TestRunning, SoftapReturns
<1>13. CASE Interrupt \/ MainStep
  BY <1>13, OtherTraffic DEF Interrupt, MainStep, stop_uart_listener, Join, ClosePort, listenerVars, files
<1>14. CASE UNCHANGED vars
  BY <1>14, OtherTraffic DEF vars, listenerVars, files
<1> QED
  BY <1>1, <1>2, <1>3, <1>4, <1>5, <1>6, <1>7, <1>8, <1>9, <1>10, <1>11,
     <1>12, <1>13, <1>14 DEF Next, ListenerStep

-----------------------------------------------------------------------------
LEMMA InitMissed == Init => MissedInv
BY DEF Init, MissedInv

LEMMA NextMissed == IInv /\ MissedInv /\ [Next]_vars => MissedInv'
<1> SUFFICES ASSUME ReceiverTypeOK, MissedInv, [Next]_vars PROVE MissedInv'
  BY DEF IInv
<1>1. CASE SaveField
  BY <1>1 DEF SaveField, Save, MissedInv, ReceiverTypeOK, Contents
<1>2. CASE SaveFails
  <2>1. PICK torn :
          store' = Emptied(store, torn) /\ missed' = missed \cup torn \cup {KeyOf(Head(rest))}
    BY <1>2 DEF SaveFails
  <2>2. applied' = Save(applied, Head(rest))
    BY <1>2 DEF SaveFails
  <2> QED
    BY <2>1, <2>2 DEF Emptied, Save, MissedInv, ReceiverTypeOK, Contents
<1>3. CASE UNCHANGED files
  BY <1>3 DEF files, MissedInv
<1>4. SaveField \/ SaveFails \/ UNCHANGED files
  BY DEF Next, ListenerStep, MainStep, StartPacket, DeliverByte, LoseByte, OverflowByte, TestRunning,
     TakeByte, AcceptHeader, DiscardHeader, AcceptPacket, RejectPacket, RunSoftap, SoftapReturns,
     SkipField, PacketDone, Interrupt, stop_uart_listener, Join, ClosePort, listenerVars, vars
<1> QED
  BY <1>1, <1>2, <1>3, <1>4

LEMMA TrafficAlways == Spec => [](IInv /\ TrafficInv /\ MissedInv)
<1>1. Init => IInv /\ TrafficInv /\ MissedInv
  BY InitInv, InitTraffic, InitMissed DEF IInv
<1>2. (IInv /\ TrafficInv /\ MissedInv) /\ [Next]_vars => (IInv /\ TrafficInv /\ MissedInv)'
  BY NextInv, NextTraffic, NextMissed
<1> QED
  BY <1>1, <1>2, PTL DEF Spec

\* Whatever the MCU sends, in any grouping and with the threads interleaved
\* in any way: when the line and the listener are empty, no byte was lost
\* and no read broke off, the files hold the latest report of every address,
\* but for the keys that failed saves have cost and no later one has mended.
THEOREM UpToDate == Spec => []IdleMeansUpToDate
<1>1. IInv /\ TrafficInv /\ MissedInv => IdleMeansUpToDate
  <2> SUFFICES ASSUME IInv, TrafficInv, MissedInv, Idle, ~gap, ~cut, table
               PROVE  \A k \in Keys \ missed : store[k] = latest[k]
    BY DEF IdleMeansUpToDate
  <2>1. Stream = <<>> /\ rest = <<>> /\ applied \in Contents
    <3>1. InHand = <<>> /\ line \o toSend = <<>>
      BY DEF Idle, InHand
    <3> QED
      BY <3>1 DEF Idle, Stream, TrafficInv, HandInv, IInv, ReceiverTypeOK
  <2>2. Traffic(<<>>, reported, Updated(applied, rest), latest, TRUE, Sound)
    BY <2>1 DEF TrafficInv, LineInv
  <2>3. Updated(applied, rest) = latest
    BY <2>2, NoTraffic
  <2>4. applied = latest
    BY <2>1, <2>3, UpdatedNothing
  <2> QED
    BY <2>4 DEF MissedInv
<1> QED
  BY <1>1, TrafficAlways, PTL

\* As long as every byte arrives: what is stored under a key was reported for
\* it, whatever values there are while reads follow the packets; wherever the
\* port was opened and wherever reads break off, if 40 is only the set info.
THEOREM ReportsStored == Spec => []StoredWasReported
<1>1. IInv /\ TrafficInv => StoredWasReported
  <2> SUFFICES ASSUME TrafficInv, ReceiverTypeOK, ~gap, cut => InfoOnlyOnce PROVE FilesHoldReports
    BY DEF StoredWasReported, IInv
  <2> QED
    BY DEF TrafficInv, FieldsInv, FilesHoldReports, ReceiverTypeOK
<1> QED
  BY <1>1, TrafficAlways, PTL

-----------------------------------------------------------------------------
(* The prototype with retries: which bits are set in the checksum of some  *)
(* bytes, and what a changed bit does to it.                               *)

\* The bytes of s that set bit b, and the bits that an odd number of them sets.
Ones(s, b) == {j \in DOMAIN s : Bit(s[j], b) = 1}
Marks(s)   == {b \in 0..7 : Cardinality(Ones(s, b)) % 2 = 1}

\* What is in one of two sets.
Differ(A, B) == (A \ B) \cup (B \ A)

LEMMA PowersOfTwo ==
  /\ 2^0 = 1 /\ 2^1 = 2 /\ 2^2 = 4 /\ 2^3 = 8
  /\ 2^4 = 16 /\ 2^5 = 32 /\ 2^6 = 64 /\ 2^7 = 128
  OBVIOUS

LEMMA BitType ==
  ASSUME NEW n \in Byte, NEW b \in 0..7 PROVE Bit(n, b) \in 0..1
<1>0. b \in {0, 1, 2, 3, 4, 5, 6, 7}
  OBVIOUS
<1> DEFINE Digit == Bit(n, b) \in 0..1
<1>1. (b = 0 => Digit) /\ (b = 1 => Digit)
  BY PowersOfTwo DEF Bit, Byte
<1>2. (b = 2 => Digit) /\ (b = 3 => Digit)
  BY PowersOfTwo DEF Bit, Byte
<1>3. (b = 4 => Digit) /\ (b = 5 => Digit)
  BY PowersOfTwo DEF Bit, Byte
<1>4. (b = 6 => Digit) /\ (b = 7 => Digit)
  BY PowersOfTwo DEF Bit, Byte
<1> HIDE DEF Digit
<1>5. Digit
  BY <1>0, <1>1, <1>2, <1>3, <1>4, Zenon
<1> QED
  BY <1>5 DEF Digit

\* A number made of binary digits has these digits.
LEMMA DigitsAre ==
  ASSUME NEW p \in [0..7 -> 0..1], NEW b \in 0..7
  PROVE  Bit(p[0] + 2 * p[1] + 4 * p[2] + 8 * p[3]
               + 16 * p[4] + 32 * p[5] + 64 * p[6] + 128 * p[7], b) = p[b]
<1> DEFINE n == p[0] + 2 * p[1] + 4 * p[2] + 8 * p[3]
                  + 16 * p[4] + 32 * p[5] + 64 * p[6] + 128 * p[7]
<1>0. /\ p[0] \in 0..1 /\ p[1] \in 0..1 /\ p[2] \in 0..1 /\ p[3] \in 0..1
      /\ p[4] \in 0..1 /\ p[5] \in 0..1 /\ p[6] \in 0..1 /\ p[7] \in 0..1
  OBVIOUS
<1>1. (n \div 1) % 2 = p[0] /\ (n \div 2) % 2 = p[1]
  BY <1>0
<1>2. (n \div 4) % 2 = p[2] /\ (n \div 8) % 2 = p[3]
  BY <1>0
<1>3. (n \div 16) % 2 = p[4] /\ (n \div 32) % 2 = p[5]
  BY <1>0
<1>4. (n \div 64) % 2 = p[6] /\ (n \div 128) % 2 = p[7]
  BY <1>0
<1> HIDE DEF n
<1>5. b = 0 => Bit(n, b) = p[b]
  BY <1>1, PowersOfTwo DEF Bit
<1>6. b = 1 => Bit(n, b) = p[b]
  BY <1>1, PowersOfTwo DEF Bit
<1>7. b = 2 => Bit(n, b) = p[b]
  BY <1>2, PowersOfTwo DEF Bit
<1>8. b = 3 => Bit(n, b) = p[b]
  BY <1>2, PowersOfTwo DEF Bit
<1>9. b = 4 => Bit(n, b) = p[b]
  BY <1>3, PowersOfTwo DEF Bit
<1>10. b = 5 => Bit(n, b) = p[b]
  BY <1>3, PowersOfTwo DEF Bit
<1>11. b = 6 => Bit(n, b) = p[b]
  BY <1>4, PowersOfTwo DEF Bit
<1>12. b = 7 => Bit(n, b) = p[b]
  BY <1>4, PowersOfTwo DEF Bit
<1>13. b \in {0, 1, 2, 3, 4, 5, 6, 7}
  OBVIOUS
<1>14. Bit(n, b) = p[b]
  BY <1>5, <1>6, <1>7, <1>8, <1>9, <1>10, <1>11, <1>12, <1>13, Zenon
<1> QED
  BY <1>14 DEF n

\* Turning a bit over changes that bit and no other.
LEMMA FlippedBit ==
  ASSUME NEW n \in Byte, NEW a \in 0..7
  PROVE  /\ Flip(n, 2^a) \in Byte
         /\ \A b \in 0..7 : Bit(Flip(n, 2^a), b) = IF b = a THEN 1 - Bit(n, b) ELSE Bit(n, b)
<1> DEFINE p == [i \in 0..7 |-> Bit(n, i)]
           q == [p EXCEPT ![a] = 1 - p[a]]
           Sum(d) == d[0] + 2 * d[1] + 4 * d[2] + 8 * d[3]
                       + 16 * d[4] + 32 * d[5] + 64 * d[6] + 128 * d[7]
<1>1. p \in [0..7 -> 0..1] /\ q \in [0..7 -> 0..1]
  BY BitType
<1>2. Sum(p) = n
  <2>1. /\ p[0] = n % 2 /\ p[1] = (n \div 2) % 2 /\ p[2] = (n \div 4) % 2
        /\ p[3] = (n \div 8) % 2 /\ p[4] = (n \div 16) % 2 /\ p[5] = (n \div 32) % 2
        /\ p[6] = (n \div 64) % 2 /\ p[7] = (n \div 128) % 2
    BY PowersOfTwo DEF Bit, Byte
  <2> HIDE DEF p
  <2> QED
    BY <2>1 DEF Byte
<1>3. Flip(n, 2^a) = Sum(q)
  <2>1. Flip(n, 2^a) = IF p[a] = 1 THEN n - 2^a ELSE n + 2^a
    BY DEF Flip, Bit
  <2> HIDE DEF p, Sum
  <2>2. \A i \in 0..7 : q[i] = IF i = a THEN 1 - p[a] ELSE p[i]
    BY <1>1
  <2>3. /\ p[0] \in 0..1 /\ p[1] \in 0..1 /\ p[2] \in 0..1 /\ p[3] \in 0..1
        /\ p[4] \in 0..1 /\ p[5] \in 0..1 /\ p[6] \in 0..1 /\ p[7] \in 0..1
    BY <1>1
  <2>13. n = p[0] + 2 * p[1] + 4 * p[2] + 8 * p[3] + 16 * p[4] + 32 * p[5] + 64 * p[6] + 128 * p[7]
    BY <1>2 DEF Sum
  <2> HIDE DEF q
  <2>4. CASE a = 0
    <3>1. /\ q[0] = 1 - p[0] /\ q[1] = p[1] /\ q[2] = p[2] /\ q[3] = p[3]
          /\ q[4] = p[4] /\ q[5] = p[5] /\ q[6] = p[6] /\ q[7] = p[7]
      BY <2>2, <2>4
    <3>2. Flip(n, 2^a) = IF p[0] = 1 THEN n - 1 ELSE n + 1
      BY <2>1, <2>4, PowersOfTwo
    <3>3. CASE p[0] = 0
      BY <2>3, <2>13, <3>1, <3>2, <3>3 DEF Sum
    <3>4. CASE p[0] = 1
      BY <2>3, <2>13, <3>1, <3>2, <3>4 DEF Sum
    <3> QED
      BY <2>3, <3>3, <3>4
  <2>5. CASE a = 1
    <3>1. /\ q[0] = p[0] /\ q[1] = 1 - p[1] /\ q[2] = p[2] /\ q[3] = p[3]
          /\ q[4] = p[4] /\ q[5] = p[5] /\ q[6] = p[6] /\ q[7] = p[7]
      BY <2>2, <2>5
    <3>2. Flip(n, 2^a) = IF p[1] = 1 THEN n - 2 ELSE n + 2
      BY <2>1, <2>5, PowersOfTwo
    <3>3. CASE p[1] = 0
      BY <2>3, <2>13, <3>1, <3>2, <3>3 DEF Sum
    <3>4. CASE p[1] = 1
      BY <2>3, <2>13, <3>1, <3>2, <3>4 DEF Sum
    <3> QED
      BY <2>3, <3>3, <3>4
  <2>6. CASE a = 2
    <3>1. /\ q[0] = p[0] /\ q[1] = p[1] /\ q[2] = 1 - p[2] /\ q[3] = p[3]
          /\ q[4] = p[4] /\ q[5] = p[5] /\ q[6] = p[6] /\ q[7] = p[7]
      BY <2>2, <2>6
    <3>2. Flip(n, 2^a) = IF p[2] = 1 THEN n - 4 ELSE n + 4
      BY <2>1, <2>6, PowersOfTwo
    <3>3. CASE p[2] = 0
      BY <2>3, <2>13, <3>1, <3>2, <3>3 DEF Sum
    <3>4. CASE p[2] = 1
      BY <2>3, <2>13, <3>1, <3>2, <3>4 DEF Sum
    <3> QED
      BY <2>3, <3>3, <3>4
  <2>7. CASE a = 3
    <3>1. /\ q[0] = p[0] /\ q[1] = p[1] /\ q[2] = p[2] /\ q[3] = 1 - p[3]
          /\ q[4] = p[4] /\ q[5] = p[5] /\ q[6] = p[6] /\ q[7] = p[7]
      BY <2>2, <2>7
    <3>2. Flip(n, 2^a) = IF p[3] = 1 THEN n - 8 ELSE n + 8
      BY <2>1, <2>7, PowersOfTwo
    <3>3. CASE p[3] = 0
      BY <2>3, <2>13, <3>1, <3>2, <3>3 DEF Sum
    <3>4. CASE p[3] = 1
      BY <2>3, <2>13, <3>1, <3>2, <3>4 DEF Sum
    <3> QED
      BY <2>3, <3>3, <3>4
  <2>8. CASE a = 4
    <3>1. /\ q[0] = p[0] /\ q[1] = p[1] /\ q[2] = p[2] /\ q[3] = p[3]
          /\ q[4] = 1 - p[4] /\ q[5] = p[5] /\ q[6] = p[6] /\ q[7] = p[7]
      BY <2>2, <2>8
    <3>2. Flip(n, 2^a) = IF p[4] = 1 THEN n - 16 ELSE n + 16
      BY <2>1, <2>8, PowersOfTwo
    <3>3. CASE p[4] = 0
      BY <2>3, <2>13, <3>1, <3>2, <3>3 DEF Sum
    <3>4. CASE p[4] = 1
      BY <2>3, <2>13, <3>1, <3>2, <3>4 DEF Sum
    <3> QED
      BY <2>3, <3>3, <3>4
  <2>9. CASE a = 5
    <3>1. /\ q[0] = p[0] /\ q[1] = p[1] /\ q[2] = p[2] /\ q[3] = p[3]
          /\ q[4] = p[4] /\ q[5] = 1 - p[5] /\ q[6] = p[6] /\ q[7] = p[7]
      BY <2>2, <2>9
    <3>2. Flip(n, 2^a) = IF p[5] = 1 THEN n - 32 ELSE n + 32
      BY <2>1, <2>9, PowersOfTwo
    <3>3. CASE p[5] = 0
      BY <2>3, <2>13, <3>1, <3>2, <3>3 DEF Sum
    <3>4. CASE p[5] = 1
      BY <2>3, <2>13, <3>1, <3>2, <3>4 DEF Sum
    <3> QED
      BY <2>3, <3>3, <3>4
  <2>10. CASE a = 6
    <3>1. /\ q[0] = p[0] /\ q[1] = p[1] /\ q[2] = p[2] /\ q[3] = p[3]
          /\ q[4] = p[4] /\ q[5] = p[5] /\ q[6] = 1 - p[6] /\ q[7] = p[7]
      BY <2>2, <2>10
    <3>2. Flip(n, 2^a) = IF p[6] = 1 THEN n - 64 ELSE n + 64
      BY <2>1, <2>10, PowersOfTwo
    <3>3. CASE p[6] = 0
      BY <2>3, <2>13, <3>1, <3>2, <3>3 DEF Sum
    <3>4. CASE p[6] = 1
      BY <2>3, <2>13, <3>1, <3>2, <3>4 DEF Sum
    <3> QED
      BY <2>3, <3>3, <3>4
  <2>11. CASE a = 7
    <3>1. /\ q[0] = p[0] /\ q[1] = p[1] /\ q[2] = p[2] /\ q[3] = p[3]
          /\ q[4] = p[4] /\ q[5] = p[5] /\ q[6] = p[6] /\ q[7] = 1 - p[7]
      BY <2>2, <2>11
    <3>2. Flip(n, 2^a) = IF p[7] = 1 THEN n - 128 ELSE n + 128
      BY <2>1, <2>11, PowersOfTwo
    <3>3. CASE p[7] = 0
      BY <2>3, <2>13, <3>1, <3>2, <3>3 DEF Sum
    <3>4. CASE p[7] = 1
      BY <2>3, <2>13, <3>1, <3>2, <3>4 DEF Sum
    <3> QED
      BY <2>3, <3>3, <3>4
  <2>12. a \in {0, 1, 2, 3, 4, 5, 6, 7}
    OBVIOUS
  <2> QED
    BY <2>4, <2>5, <2>6, <2>7, <2>8, <2>9, <2>10, <2>11, <2>12, Zenon
<1> HIDE DEF q
<1>4. Sum(q) \in Byte
  BY <1>1, EightBits
<1>5. ASSUME NEW b \in 0..7 PROVE Bit(Sum(q), b) = q[b]
  BY <1>1, DigitsAre
<1>6. \A b \in 0..7 : q[b] = IF b = a THEN 1 - p[b] ELSE p[b]
  BY <1>1 DEF q
<1>7. \A b \in 0..7 : p[b] = Bit(n, b)
  OBVIOUS
<1> HIDE DEF p, Sum
<1> QED
  BY <1>3, <1>4, <1>5, <1>6, <1>7

\* The bits of a byte that force_incorrect_crc turns over, all of them.
LEMMA ComplementBits ==
  ASSUME NEW n \in Byte, NEW b \in 0..7
  PROVE  255 - n \in Byte /\ Bit(255 - n, b) = 1 - Bit(n, b)
<1> DEFINE p == [i \in 0..7 |-> Bit(n, i)]
           q == [i \in 0..7 |-> 1 - Bit(n, i)]
           Sum(d) == d[0] + 2 * d[1] + 4 * d[2] + 8 * d[3]
                       + 16 * d[4] + 32 * d[5] + 64 * d[6] + 128 * d[7]
<1>1. p \in [0..7 -> 0..1] /\ q \in [0..7 -> 0..1]
  <2>1. \A i \in 0..7 : Bit(n, i) \in 0..1 /\ 1 - Bit(n, i) \in 0..1
    BY BitType
  <2> QED
    BY <2>1
<1>2. Sum(p) = n
  <2>1. /\ p[0] = n % 2 /\ p[1] = (n \div 2) % 2 /\ p[2] = (n \div 4) % 2
        /\ p[3] = (n \div 8) % 2 /\ p[4] = (n \div 16) % 2 /\ p[5] = (n \div 32) % 2
        /\ p[6] = (n \div 64) % 2 /\ p[7] = (n \div 128) % 2
    BY PowersOfTwo DEF Bit, Byte
  <2> HIDE DEF p
  <2> QED
    BY <2>1 DEF Byte
<1>3. \A i \in 0..7 : q[i] = 1 - p[i] /\ p[i] \in 0..1
  BY <1>1
<1>4. q[b] = 1 - Bit(n, b)
  OBVIOUS
<1> HIDE DEF p, q
<1>5. Sum(q) = 255 - n /\ 255 - n \in Byte
  <2>1. /\ p[0] \in 0..1 /\ p[1] \in 0..1 /\ p[2] \in 0..1 /\ p[3] \in 0..1
        /\ p[4] \in 0..1 /\ p[5] \in 0..1 /\ p[6] \in 0..1 /\ p[7] \in 0..1
        /\ q[0] = 1 - p[0] /\ q[1] = 1 - p[1] /\ q[2] = 1 - p[2] /\ q[3] = 1 - p[3]
        /\ q[4] = 1 - p[4] /\ q[5] = 1 - p[5] /\ q[6] = 1 - p[6] /\ q[7] = 1 - p[7]
    BY <1>3
  <2>2. n = p[0] + 2 * p[1] + 4 * p[2] + 8 * p[3] + 16 * p[4] + 32 * p[5] + 64 * p[6] + 128 * p[7]
    BY <1>2
  <2>3. Sum(q) = 255 - n
    BY <2>1, <2>2
  <2> QED
    BY <2>3 DEF Byte
<1>6. Bit(Sum(q), b) = q[b]
  BY <1>1, DigitsAre
<1> HIDE DEF Sum
<1> QED
  BY <1>4, <1>5, <1>6

LEMMA OnesFinite ==
  ASSUME NEW s \in Seq(Byte), NEW b
  PROVE  IsFiniteSet(Ones(s, b)) /\ Cardinality(Ones(s, b)) \in Nat
<1>1. DOMAIN s = 1..Len(s) /\ Len(s) \in Nat
  BY LenProperties
<1>2. IsFiniteSet(1..Len(s)) /\ Ones(s, b) \in SUBSET (1..Len(s))
  BY <1>1, FS_Interval DEF Ones
<1> QED
  BY <1>2, FS_Subset, FS_CardinalityType

\* A bit is marked when its count is odd.
LEMMA MarkIs ==
  ASSUME NEW s \in Seq(Byte), NEW b \in 0..7
  PROVE  b \in Marks(s) <=> Cardinality(Ones(s, b)) % 2 = 1
  BY DEF Marks

LEMMA MarksEqual ==
  ASSUME NEW A \in SUBSET (0..7), NEW B \in SUBSET (0..7), \A b \in 0..7 : b \in A <=> b \in B
  PROVE  A = B
  OBVIOUS

LEMMA MarksType == \A s : Marks(s) \in SUBSET (0..7)
  BY DEF Marks

\* The marks of two sequences, one behind the other.
LEMMA MarksConcat ==
  ASSUME NEW s \in Seq(Byte), NEW t \in Seq(Byte)
  PROVE  Marks(s \o t) = Differ(Marks(s), Marks(t))
<1> DEFINE n == Len(s)
           Moved(b) == {n + j : j \in Ones(t, b)}
<1>1. /\ n \in Nat /\ Len(t) \in Nat /\ DOMAIN s = 1..n /\ DOMAIN t = 1..Len(t)
      /\ s \o t \in Seq(Byte) /\ Len(s \o t) = n + Len(t) /\ DOMAIN (s \o t) = 1..n + Len(t)
  BY LenProperties, ConcatProperties
<1>2. \A i \in 1..n + Len(t) : (s \o t)[i] = IF i <= n THEN s[i] ELSE t[i - n]
  BY ConcatProperties, Zenon
<1>3. ASSUME NEW b \in 0..7
      PROVE  b \in Marks(s \o t) <=> ~(b \in Marks(s) <=> b \in Marks(t))
  <2>1. Ones(s \o t, b) = Ones(s, b) \cup Moved(b)
    <3>1. ASSUME NEW i \in 1..n PROVE i \in 1..n + Len(t) /\ (s \o t)[i] = s[i]
      BY <1>1, <1>2
    <3>2. ASSUME NEW j \in 1..Len(t) PROVE n + j \in 1..n + Len(t) /\ (s \o t)[n + j] = t[j]
      <4>1. n + j \in 1..n + Len(t) /\ ~(n + j <= n) /\ (n + j) - n = j
        BY <1>1
      <4> QED
        BY <1>2, <4>1
    <3>3. ASSUME NEW i \in 1..n + Len(t) PROVE i \in 1..n \/ \E j \in 1..Len(t) : i = n + j
      <4>1. CASE i <= n
        BY <1>1, <4>1
      <4>2. CASE ~(i <= n)
        <5>1. i - n \in 1..Len(t) /\ i = n + (i - n)
          BY <1>1, <4>2
        <5> QED
          BY <5>1
      <4> QED
        BY <4>1, <4>2
    <3> HIDE DEF n
    <3>4. Ones(s, b) \subseteq Ones(s \o t, b)
      BY <1>1, <3>1 DEF Ones
    <3>5. Moved(b) \subseteq Ones(s \o t, b)
      BY <1>1, <3>2 DEF Ones
    <3>6. ASSUME NEW i \in Ones(s \o t, b) PROVE i \in Ones(s, b) \cup Moved(b)
      <4>1. i \in 1..n + Len(t) /\ Bit((s \o t)[i], b) = 1
        BY <1>1 DEF Ones
      <4>2. CASE i \in 1..n
        BY <1>1, <3>1, <4>1, <4>2 DEF Ones
      <4>3. CASE \E j \in 1..Len(t) : i = n + j
        <5>1. PICK j \in 1..Len(t) : i = n + j
          BY <4>3
        <5>2. j \in Ones(t, b)
          BY <1>1, <3>2, <4>1, <5>1 DEF Ones
        <5> QED
          BY <5>1, <5>2
      <4> QED
        BY <3>3, <4>1, <4>2, <4>3
    <3> QED
      BY <3>4, <3>5, <3>6
  <2>2. IsFiniteSet(Moved(b)) /\ Cardinality(Moved(b)) = Cardinality(Ones(t, b))
    <3> DEFINE f == [j \in Ones(t, b) |-> n + j]
    <3>1. f \in Bijection(Ones(t, b), Moved(b))
      <4>1. Ones(t, b) \subseteq Nat
        BY <1>1 DEF Ones
      <4> QED
        BY <1>1, <4>1 DEF Bijection, Injection, Surjection, IsInjective
    <3>2. ExistsBijection(Ones(t, b), Moved(b))
      BY <3>1 DEF ExistsBijection
    <3> QED
      BY <3>2, OnesFinite, FS_Bijection
  <2>3. Ones(s, b) \cap Moved(b) = {}
    BY <1>1 DEF Ones
  <2>4. Cardinality(Ones(s \o t, b)) = Cardinality(Ones(s, b)) + Cardinality(Ones(t, b))
    <3>1. Cardinality({}) = 0
      BY FS_EmptySet
    <3> DEFINE A == Ones(s, b)
               B == Moved(b)
    <3>2. IsFiniteSet(A) /\ IsFiniteSet(B) /\ Cardinality(A) \in Nat /\ Cardinality(Ones(t, b)) \in Nat
      BY <2>2, OnesFinite
    <3>3. Ones(s \o t, b) = A \cup B /\ A \cap B = {} /\ Cardinality(B) = Cardinality(Ones(t, b))
      BY <2>1, <2>2, <2>3
    <3> HIDE DEF A, B
    <3>4. Cardinality(A \cup B) = Cardinality(A) + Cardinality(B) - Cardinality(A \cap B)
      BY <3>2, FS_Union
    <3>5. Cardinality(Ones(s \o t, b)) = Cardinality(A) + Cardinality(Ones(t, b))
      <4>1. Cardinality(A \cap B) = 0
        BY <3>1, <3>3
      <4>2. Cardinality(Ones(s \o t, b)) = Cardinality(A \cup B)
        BY <3>3
      <4> QED
        BY <3>2, <3>3, <3>4, <4>1, <4>2
    <3>6. A = Ones(s, b)
      BY DEF A
    <3> QED
      BY <3>5, <3>6
  <2>5. /\ b \in Marks(s) <=> Cardinality(Ones(s, b)) % 2 = 1
        /\ b \in Marks(t) <=> Cardinality(Ones(t, b)) % 2 = 1
        /\ b \in Marks(s \o t) <=> Cardinality(Ones(s \o t, b)) % 2 = 1
    BY <1>1, MarkIs
  <2>6. ASSUME NEW x \in Nat, NEW y \in Nat
        PROVE  (x + y) % 2 = 1 <=> ~(x % 2 = 1 <=> y % 2 = 1)
    OBVIOUS
  <2>7. /\ Cardinality(Ones(s, b)) \in Nat /\ Cardinality(Ones(t, b)) \in Nat
    BY OnesFinite
  <2> QED
    BY <2>4, <2>5, <2>6, <2>7
<1>4. \A b \in 0..7 : b \in Marks(s \o t) <=> b \in Differ(Marks(s), Marks(t))
  BY <1>3 DEF Differ
<1>5. Differ(Marks(s), Marks(t)) \in SUBSET (0..7)
  BY DEF Differ, Marks
<1> QED
  BY <1>4, <1>5, MarksType, MarksEqual

\* The checksum has the bits that are marked.
LEMMA ChecksumMarks ==
  ASSUME NEW s \in Seq(Byte)
  PROVE  /\ calculate_checksum(s) \in Byte
         /\ \A b \in 0..7 : Bit(calculate_checksum(s), b) = 1 <=> b \in Marks(s)
<1> DEFINE parity == [i \in 0..7 |-> Cardinality(Ones(s, i)) % 2]
<1>1. parity \in [0..7 -> 0..1]
  <2>1. ASSUME NEW i \in 0..7 PROVE Cardinality(Ones(s, i)) % 2 \in 0..1
    <3>1. Cardinality(Ones(s, i)) \in Nat
      BY OnesFinite
    <3> QED
      BY <3>1
  <2> QED
    BY <2>1
<1>2. calculate_checksum(s) =
        parity[0] + 2 * parity[1] + 4 * parity[2] + 8 * parity[3]
          + 16 * parity[4] + 32 * parity[5] + 64 * parity[6] + 128 * parity[7]
  BY DEF calculate_checksum, Ones
<1>3. ASSUME NEW b \in 0..7 PROVE parity[b] = 1 <=> b \in Marks(s)
  BY MarkIs
<1> HIDE DEF parity
<1>4. ASSUME NEW b \in 0..7 PROVE Bit(calculate_checksum(s), b) = parity[b]
  BY <1>1, <1>2, DigitsAre
<1> QED
  BY <1>3, <1>4, ChecksumType

LEMMA MarksOfByte ==
  ASSUME NEW x \in Byte
  PROVE  \A b \in 0..7 : b \in Marks(<<x>>) <=> Bit(x, b) = 1
<1> SUFFICES ASSUME NEW b \in 0..7 PROVE b \in Marks(<<x>>) <=> Bit(x, b) = 1
  OBVIOUS
<1>1. <<x>> \in Seq(Byte)
  OBVIOUS
<1>2. Ones(<<x>>, b) = IF Bit(x, b) = 1 THEN {1} ELSE {}
  BY DEF Ones
<1>3. Cardinality({1}) = 1 /\ Cardinality({}) = 0
  BY FS_Singleton, FS_EmptySet
<1>4. b \in Marks(<<x>>) <=> Cardinality(Ones(<<x>>, b)) % 2 = 1
  BY <1>1, MarkIs
<1>5. CASE Bit(x, b) = 1
  BY <1>2, <1>3, <1>4, <1>5
<1>6. CASE Bit(x, b) # 1
  BY <1>2, <1>3, <1>4, <1>6
<1> QED
  BY <1>5, <1>6

\* Bytes that pass verify_checksum leave no bit marked.
LEMMA GoodMarks ==
  ASSUME NEW s \in Seq(Byte), Len(s) >= 1, verify_checksum(s)
  PROVE  Marks(s) = {}
<1> DEFINE f == SubSeq(s, 1, Len(s) - 1)
           x == s[Len(s)]
<1>1. Len(s) \in Nat /\ x \in Byte
  BY LenProperties, ElementOfSeq
<1>2. f \in Seq(Byte) /\ s = f \o <<x>>
  <2>1. SubSeq(s, 1, Len(s)) = SubSeq(s, 1, Len(s) - 1) \o << s[Len(s)] >>
    BY <1>1, SubSeqRecursiveSecond
  <2>2. \A i \in 1..Len(s) - 1 : s[i] \in Byte
    BY <1>1, ElementOfSeq
  <2>3. f \in Seq(Byte)
    BY <1>1, <2>2, SubSeqProperties
  <2> QED
    BY <2>1, <2>3, SubSeqFull
<1>3. x = calculate_checksum(f)
  BY DEF verify_checksum, Last, Front
<1> HIDE DEF f, x
<1>4. \A b \in 0..7 : b \in Marks(<<x>>) <=> b \in Marks(f)
  BY <1>1, <1>2, <1>3, MarksOfByte, ChecksumMarks
<1>5. Marks(<<x>>) = Marks(f)
  BY <1>4, MarksType, MarksEqual
<1>6. Marks(s) = Differ(Marks(f), Marks(<<x>>))
  <2>1. <<x>> \in Seq(Byte)
    BY <1>1
  <2>2. Marks(f \o <<x>>) = Differ(Marks(f), Marks(<<x>>))
    BY <1>2, <2>1, MarksConcat, Zenon
  <2> QED
    BY <1>2, <2>2
<1> QED
  BY <1>5, <1>6 DEF Differ

\* Bytes that pass it once the last one is turned over leave every bit marked.
LEMMA ForcedMarks ==
  ASSUME NEW s \in Seq(Byte), Len(s) >= 1, verify_checksum(force_incorrect_crc(s))
  PROVE  Marks(s) = 0..7
<1> DEFINE f == SubSeq(s, 1, Len(s) - 1)
           x == s[Len(s)]
           t == force_incorrect_crc(s)
<1>1. Len(s) \in Nat /\ x \in Byte /\ Len(s) \in 1..Len(s) /\ Len(s) \in DOMAIN s
  <2>1. Len(s) \in Nat /\ Len(s) \in 1..Len(s) /\ DOMAIN s = 1..Len(s)
    BY LenProperties
  <2> QED
    BY <2>1, ElementOfSeq
<1> DEFINE m == Len(s) - 1
<1>2. f \in Seq(Byte) /\ s = f \o <<x>> /\ Len(f) = m /\ \A i \in 1..m : f[i] = s[i]
  <2>1. SubSeq(s, 1, Len(s)) = SubSeq(s, 1, Len(s) - 1) \o << s[Len(s)] >>
    BY <1>1, SubSeqRecursiveSecond
  <2>2. m \in Int /\ \A i \in 1..m : s[i] \in Byte
    BY <1>1, ElementOfSeq
  <2>3. /\ SubSeq(s, 1, m) \in Seq(Byte)
        /\ Len(SubSeq(s, 1, m)) = (IF 1 <= m THEN m - 1 + 1 ELSE 0)
        /\ \A i \in 1..m - 1 + 1 : SubSeq(s, 1, m)[i] = s[1 + i - 1]
    <3> HIDE DEF m
    <3> QED
      BY <2>2, SubSeqProperties
  <2>4. m - 1 + 1 = m /\ (~(1 <= m) => m = 0) /\ \A i \in 1..m : 1 + i - 1 = i
    <3>1. m \in Nat
      BY <1>1
    <3> HIDE DEF m
    <3> QED
      BY <3>1
  <2>5. Len(f) = m /\ f \in Seq(Byte) /\ \A i \in 1..m : f[i] = s[i]
    <3> HIDE DEF m
    <3>1. SubSeq(s, 1, m) \in Seq(Byte) /\ Len(SubSeq(s, 1, m)) = m
          /\ \A i \in 1..m : SubSeq(s, 1, m)[i] = s[i]
      BY <2>3, <2>4
    <3> QED
      BY <3>1 DEF m
  <2> QED
    BY <2>1, <2>5, SubSeqFull
<1>3. 255 - x \in Byte
  BY <1>1, ComplementBits
<1>4. /\ t \in Seq(Byte) /\ Len(t) = Len(s)
      /\ \A i \in 1..Len(s) : t[i] = IF i = Len(s) THEN 255 - x ELSE s[i]
  BY <1>1, <1>3, ExceptSeq DEF force_incorrect_crc
<1>5. t = f \o <<255 - x>>
  <2> DEFINE y == 255 - x
             v == f \o <<y>>
  <2> HIDE DEF f, x, t, y
  <2>1. y \in Byte /\ <<y>> \in Seq(Byte) /\ Len(<<y>>) = 1 /\ <<y>>[1] = y
    BY <1>3 DEF y
  <2>2. /\ v \in Seq(Byte) /\ Len(v) = Len(f) + Len(<<y>>)
        /\ \A i \in 1..Len(f) + Len(<<y>>) : v[i] = IF i <= Len(f) THEN f[i] ELSE <<y>>[i - Len(f)]
    BY <1>2, <2>1, ConcatProperties
  <2> HIDE DEF v
  <2>3. Len(f) + Len(<<y>>) = Len(s) /\ Len(v) = Len(s)
    BY <1>1, <1>2, <2>1, <2>2
  <2>4. ASSUME NEW i \in 1..Len(s) PROVE v[i] = t[i]
    <3>1. CASE i = Len(s)
      <4>1. ~(i <= Len(f)) /\ i - Len(f) = 1
        BY <1>1, <1>2, <3>1
      <4> QED
        BY <1>4, <2>1, <2>2, <2>3, <3>1, <4>1 DEF y
    <3>2. CASE i # Len(s)
      <4>1. i <= Len(f) /\ i \in 1..m
        BY <1>1, <1>2, <3>2
      <4> QED
        BY <1>2, <1>4, <2>2, <2>3, <3>2, <4>1
    <3> QED
      BY <3>1, <3>2
  <2>5. t = v
    BY <1>1, <1>4, <2>2, <2>3, <2>4, SeqEqual
  <2> QED
    BY <2>5 DEF v, y
<1>6. Marks(t) = {}
  <2> HIDE DEF f, x
  <2>1. Len(t) >= 1
    BY <1>1, <1>4
  <2> QED
    BY <1>4, <2>1, GoodMarks
<1> HIDE DEF f, x, t
<1>7. <<x>> \in Seq(Byte) /\ <<255 - x>> \in Seq(Byte)
  BY <1>1, <1>3
<1>8. Marks(s) = Differ(Marks(f), Marks(<<x>>)) /\ {} = Differ(Marks(f), Marks(<<255 - x>>))
  <2>1. /\ Marks(f \o <<x>>) = Differ(Marks(f), Marks(<<x>>))
        /\ Marks(f \o <<255 - x>>) = Differ(Marks(f), Marks(<<255 - x>>))
    BY <1>2, <1>7, MarksConcat, ZenonT(40)
  <2> QED
    BY <1>2, <1>5, <1>6, <2>1
<1>9. ASSUME NEW b \in 0..7 PROVE b \in Marks(<<x>>) <=> b \notin Marks(<<255 - x>>)
  <2>1. /\ b \in Marks(<<x>>) <=> Bit(x, b) = 1
        /\ b \in Marks(<<255 - x>>) <=> Bit(255 - x, b) = 1
    BY <1>1, <1>3, MarksOfByte
  <2>2. Bit(x, b) \in 0..1 /\ Bit(255 - x, b) = 1 - Bit(x, b)
    BY <1>1, BitType, ComplementBits
  <2> QED
    BY <2>1, <2>2
<1>10. \A b \in 0..7 : b \in Marks(s)
  BY <1>8, <1>9, MarksType DEF Differ
<1> QED
  BY <1>10, MarksType

\* Bit a of byte i is turned over: its mark changes and no other.
Flipped(s, i, a) == [s EXCEPT ![i] = Flip(s[i], 2^a)]

LEMMA MarksFlipped ==
  ASSUME NEW s \in Seq(Byte), NEW i \in DOMAIN s, NEW a \in 0..7,
         NEW t, t = Flipped(s, i, a)
  PROVE  /\ t \in Seq(Byte) /\ Len(t) = Len(s)
         /\ \A j \in 1..Len(s) : j # i => t[j] = s[j]
         /\ Marks(t) = Differ(Marks(s), {a})
<1>1. DOMAIN s = 1..Len(s) /\ Len(s) \in Nat /\ s[i] \in Byte
  BY LenProperties, ElementOfSeq
<1>2. /\ Flip(s[i], 2^a) \in Byte
      /\ \A b \in 0..7 : Bit(Flip(s[i], 2^a), b) = IF b = a THEN 1 - Bit(s[i], b) ELSE Bit(s[i], b)
  BY <1>1, FlippedBit
<1>3. /\ t \in Seq(Byte) /\ Len(t) = Len(s)
      /\ \A j \in 1..Len(s) : t[j] = IF j = i THEN Flip(s[i], 2^a) ELSE s[j]
  BY <1>1, <1>2, ExceptSeq DEF Flipped
<1>4. DOMAIN t = DOMAIN s
  BY <1>1, <1>3, LenProperties
<1>5. ASSUME NEW b \in 0..7 PROVE b \in Marks(t) <=> b \in Differ(Marks(s), {a})
  <2>1. ASSUME b # a PROVE Ones(t, b) = Ones(s, b)
    BY <1>1, <1>2, <1>3, <1>4, <2>1 DEF Ones
  <2>2. ASSUME b = a PROVE Cardinality(Ones(t, b)) % 2 = 1 <=> ~(Cardinality(Ones(s, b)) % 2 = 1)
    <3>1. Bit(s[i], b) \in 0..1 /\ Bit(t[i], b) = 1 - Bit(s[i], b)
      BY <1>1, <1>2, <1>3, <2>2, BitType
    <3>2. CASE Bit(s[i], b) = 0
      <4>1. Ones(t, b) = Ones(s, b) \cup {i} /\ i \notin Ones(s, b)
        BY <1>1, <1>3, <1>4, <3>1, <3>2 DEF Ones
      <4>2. Cardinality(Ones(t, b)) = Cardinality(Ones(s, b)) + 1
        BY <4>1, OnesFinite, FS_AddElement
      <4> QED
        BY <4>2, OnesFinite
    <3>3. CASE Bit(s[i], b) = 1
      <4>1. Ones(t, b) = Ones(s, b) \ {i} /\ i \in Ones(s, b)
        BY <1>1, <1>3, <1>4, <3>1, <3>3 DEF Ones
      <4>2. Cardinality(Ones(s, b) \ {i}) = Cardinality(Ones(s, b)) - 1
        <5>1. IsFiniteSet(Ones(s, b))
          BY OnesFinite
        <5> QED
          BY <4>1, <5>1, FS_RemoveElement
      <4>3. Cardinality(Ones(t, b)) = Cardinality(Ones(s, b)) - 1
        BY <4>1, <4>2
      <4>4. Cardinality(Ones(s, b)) \in Nat
        BY OnesFinite
      <4> QED
        BY <4>3, <4>4
    <3> QED
      BY <3>1, <3>2, <3>3
  <2>3. /\ b \in Marks(s) <=> Cardinality(Ones(s, b)) % 2 = 1
        /\ b \in Marks(t) <=> Cardinality(Ones(t, b)) % 2 = 1
    BY <1>3, MarkIs
  <2> QED
    BY <2>1, <2>2, <2>3 DEF Differ
<1>6. Differ(Marks(s), {a}) \in SUBSET (0..7)
  BY DEF Differ, Marks
<1> QED
  BY <1>3, <1>5, <1>6, MarksType, MarksEqual

\* What a read that begins at byte k of s has of it.
From(s, k) == SubSeq(s, k, Len(s))

LEMMA FromIs ==
  ASSUME NEW s \in Seq(Byte), NEW k \in 1..Len(s) + 1
  PROVE  /\ From(s, k) \in Seq(Byte) /\ Len(From(s, k)) = Len(s) - k + 1
         /\ \A i \in 1..Len(s) - k + 1 : From(s, k)[i] = s[k + i - 1]
<1>1. Len(s) \in Nat /\ k \in Int /\ 1 <= k /\ k <= Len(s) + 1
  BY LenProperties
<1>2. \A i \in k..Len(s) : s[i] \in Byte
  <2>1. \A i \in k..Len(s) : i \in 1..Len(s)
    BY <1>1
  <2> QED
    BY <2>1, ElementOfSeq
<1>3. /\ From(s, k) \in Seq(Byte)
      /\ Len(From(s, k)) = IF k <= Len(s) THEN Len(s) - k + 1 ELSE 0
      /\ \A i \in 1..Len(s) - k + 1 : From(s, k)[i] = s[k + i - 1]
  BY <1>1, <1>2, SubSeqProperties DEF From
<1> QED
  BY <1>1, <1>3

LEMMA FromFrom ==
  ASSUME NEW s \in Seq(Byte), NEW k \in 1..Len(s) + 1, NEW j \in 1..Len(s) - k + 1
  PROVE  /\ j \in 1..Len(From(s, k)) /\ k + j - 1 \in 1..Len(s)
         /\ From(From(s, k), j) = From(s, k + j - 1)
<1>1. /\ Len(s) \in Nat /\ k \in Int /\ 1 <= k /\ j \in Int /\ 1 <= j /\ j <= Len(s) - k + 1
      /\ k + j - 1 \in 1..Len(s)
  BY LenProperties
<1>2. Len(From(s, k)) = Len(s) - k + 1
  BY FromIs
<1>3. SubSeq(SubSeq(s, k, Len(s)), j, Len(s) - k + 1) = SubSeq(s, k + j - 1, k + (Len(s) - k + 1) - 1)
  <2>1. /\ k \in 1..Len(s) /\ Len(s) \in 1..Len(s)
        /\ j \in 1..Len(s) - k + 1 /\ Len(s) - k + 1 \in 1..Len(s) - k + 1
    BY <1>1
  <2> QED
    BY <2>1, SubSeqOfSubSeq
<1>4. k + (Len(s) - k + 1) - 1 = Len(s)
  BY <1>1
<1> QED
  BY <1>1, <1>2, <1>3, <1>4 DEF From

LEMMA FromConcat ==
  ASSUME NEW s \in Seq(Byte), NEW t \in Seq(Byte)
  PROVE  /\ \A k \in 1..Len(s) : From(s \o t, k) = From(s, k) \o t
         /\ \A j \in 1..Len(t) : From(s \o t, Len(s) + j) = From(t, j)
<1> DEFINE u == s \o t
<1>1. /\ Len(s) \in Nat /\ Len(t) \in Nat /\ u \in Seq(Byte) /\ Len(u) = Len(s) + Len(t)
  BY ConcatBytes
<1>2. \A i \in 1..Len(s) + Len(t) : u[i] = IF i <= Len(s) THEN s[i] ELSE t[i - Len(s)]
  BY ConcatProperties, Zenon
<1> HIDE DEF u
<1>3. ASSUME NEW k \in 1..Len(s) PROVE From(u, k) = From(s, k) \o t
  <2> DEFINE f == From(s, k)
             l == Len(s) - k + 1
  <2>1. k \in 1..Len(s) + 1 /\ k \in 1..Len(u) + 1 /\ l \in Nat
    BY <1>1
  <2>2. f \in Seq(Byte) /\ Len(f) = l /\ \A i \in 1..l : f[i] = s[k + i - 1]
    BY <2>1, FromIs
  <2>3. /\ From(u, k) \in Seq(Byte) /\ Len(From(u, k)) = Len(u) - k + 1
        /\ \A i \in 1..Len(u) - k + 1 : From(u, k)[i] = u[k + i - 1]
    BY <1>1, <2>1, FromIs
  <2> HIDE DEF f
  <2>4. /\ f \o t \in Seq(Byte) /\ Len(f \o t) = Len(f) + Len(t)
        /\ \A i \in 1..Len(f) + Len(t) : (f \o t)[i] = IF i <= Len(f) THEN f[i] ELSE t[i - Len(f)]
    BY <2>2, ConcatProperties, Zenon
  <2>5. Len(From(u, k)) = Len(f \o t) /\ Len(f \o t) = l + Len(t) /\ Len(u) - k + 1 = l + Len(t)
    BY <1>1, <2>2, <2>3, <2>4
  <2>6. ASSUME NEW i \in 1..l + Len(t) PROVE From(u, k)[i] = (f \o t)[i]
    <3>1. From(u, k)[i] = u[k + i - 1] /\ (f \o t)[i] = IF i <= l THEN f[i] ELSE t[i - l]
      BY <2>2, <2>3, <2>4, <2>5
    <3>2. k + i - 1 \in 1..Len(s) + Len(t)
      BY <1>1
    <3>3. u[k + i - 1] = IF k + i - 1 <= Len(s) THEN s[k + i - 1] ELSE t[k + i - 1 - Len(s)]
      BY <1>2, <3>2
    <3>4. CASE i <= l
      <4>1. k + i - 1 <= Len(s) /\ i \in 1..l
        BY <1>1, <2>1, <3>4
      <4> QED
        BY <2>2, <3>1, <3>3, <3>4, <4>1
    <3>5. CASE ~(i <= l)
      <4>1. ~(k + i - 1 <= Len(s)) /\ k + i - 1 - Len(s) = i - l
        BY <1>1, <3>5
      <4> QED
        BY <3>1, <3>3, <3>5, <4>1
    <3> QED
      BY <3>4, <3>5
  <2>7. From(u, k) = f \o t
    <3> HIDE DEF l
    <3> QED
      BY <2>3, <2>4, <2>5, <2>6, SeqEqual
  <2> QED
    BY <2>7 DEF f
<1>4. ASSUME NEW j \in 1..Len(t) PROVE From(u, Len(s) + j) = From(t, j)
  <2>1. /\ Len(s) + j \in Len(s) + 1..Len(s) + Len(t)
        /\ Len(s) + Len(t) \in Len(s) + 1..Len(s) + Len(t)
        /\ Len(s) + j - Len(s) = j /\ Len(s) + Len(t) - Len(s) = Len(t)
    BY <1>1
  <2>2. SubSeq(u, Len(s) + j, Len(s) + Len(t)) = SubSeq(t, j, Len(t))
    BY <2>1, SubSeqOfConcat2 DEF u
  <2> QED
    BY <1>1, <2>2 DEF From
<1> QED
  BY <1>3, <1>4 DEF u

\* Two parts of a sequence.
LEMMA SplitAt ==
  ASSUME NEW s \in Seq(Byte), NEW k \in 1..Len(s)
  PROVE  /\ SubSeq(s, 1, k) \in Seq(Byte)
         /\ k < Len(s) => Marks(s) = Differ(Marks(SubSeq(s, 1, k)), Marks(From(s, k + 1)))
<1>1. Len(s) \in Nat /\ k \in Int /\ 1 <= k /\ k <= Len(s)
  BY LenProperties
<1>2. /\ SubSeq(s, 1, k) \in Seq(Byte) /\ Len(SubSeq(s, 1, k)) = k
      /\ \A i \in 1..k : SubSeq(s, 1, k)[i] = s[i]
  <2>1. \A i \in 1..k : s[i] \in Byte
    <3>1. \A i \in 1..k : i \in 1..Len(s)
      BY <1>1
    <3> QED
      BY <3>1, ElementOfSeq
  <2>2. /\ SubSeq(s, 1, k) \in Seq(Byte) /\ Len(SubSeq(s, 1, k)) = IF 1 <= k THEN k - 1 + 1 ELSE 0
        /\ \A i \in 1..k - 1 + 1 : SubSeq(s, 1, k)[i] = s[1 + i - 1]
    BY <1>1, <2>1, SubSeqProperties
  <2>3. k - 1 + 1 = k /\ \A i \in 1..k : 1 + i - 1 = i
    BY <1>1
  <2> QED
    BY <1>1, <2>2, <2>3
<1>3. ASSUME k < Len(s) PROVE s = SubSeq(s, 1, k) \o From(s, k + 1)
  <2>1. /\ 1 \in 1..Len(s) + 1 /\ k \in 1 - 1..Len(s) /\ Len(s) \in k..Len(s)
    BY <1>1
  <2>2. SubSeq(s, 1, k) \o SubSeq(s, k + 1, Len(s)) = SubSeq(s, 1, Len(s))
    BY <2>1, ConcatAdjacentSubSeq
  <2> QED
    BY <2>2, SubSeqFull DEF From
<1>4. ASSUME k < Len(s) PROVE Marks(s) = Differ(Marks(SubSeq(s, 1, k)), Marks(From(s, k + 1)))
  <2>1. From(s, k + 1) \in Seq(Byte)
    <3>1. k + 1 \in 1..Len(s) + 1
      BY <1>1
    <3> QED
      BY <3>1, FromIs
  <2> QED
    BY <1>2, <1>3, <1>4, <2>1, MarksConcat
<1> QED
  BY <1>2, <1>4

\* What has a divisor, and what has not.
LEMMA Multiple ==
  ASSUME NEW d \in Nat \ {0}, NEW x \in Int
  PROVE  x % d = 0 <=> \E e \in Int : x = d * e
<1>1. x = d * (x \div d) + (x % d) /\ x \div d \in Int /\ x % d \in 0..d - 1
  OBVIOUS
<1>2. ASSUME x % d = 0 PROVE \E e \in Int : x = d * e
  <2> DEFINE e == x \div d
  <2>1. x = d * e + 0 /\ e \in Int
    BY <1>1, <1>2
  <2> HIDE DEF e
  <2>2. x = d * e
    BY <2>1
  <2> QED
    BY <2>1, <2>2
<1>3. ASSUME NEW e \in Int, x = d * e PROVE x % d = 0
  BY <1>3
<1> QED
  BY <1>2, <1>3

LEMMA Multiples ==
  ASSUME NEW d \in Nat \ {0}, NEW x \in Int, NEW y \in Int, x % d = 0
  PROVE  /\ y % d = 0 => (x + y) % d = 0
         /\ y % d # 0 => (x + y) % d # 0 /\ (x - y) % d # 0
<1>1. PICK e \in Int : x = d * e
  BY Multiple
<1>2. ASSUME NEW f \in Int, y = d * f PROVE (x + y) % d = 0
  <2>1. x + y = d * (e + f) /\ x + y \in Int /\ e + f \in Int
    BY <1>1, <1>2
  <2> QED
    BY <2>1, Multiple
<1>3. ASSUME NEW f \in Int, x + y = d * f PROVE y % d = 0
  <2>1. y = d * (f - e) /\ f - e \in Int
    BY <1>1, <1>3
  <2> QED
    BY <2>1, Multiple
<1>4. ASSUME NEW f \in Int, x - y = d * f PROVE y % d = 0
  <2>1. y = d * (e - f) /\ e - f \in Int
    BY <1>1, <1>4
  <2> QED
    BY <2>1, Multiple
<1>5. x + y \in Int /\ x - y \in Int
  OBVIOUS
<1> QED
  BY <1>2, <1>3, <1>4, <1>5, Multiple
-----------------------------------------------------------------------------
(* What a read that begins somewhere in the unread bytes s has of them,    *)
(* when p is the packet that was sent last and n packets were spoiled.     *)

\* It begins behind the i-th byte of a packet: its marks are those of the
\* bytes that it misses, apart from noise.
InsideAt(s, k, n) ==
  \E r \in Reports : \E i \in 1..Len(ReportPacket(r)) - 1 :
    LET noisy == Differ(Marks(From(s, k)), Marks(SubSeq(ReportPacket(r), 1, i)))
    IN  Cardinality(noisy) <= n /\ \A b \in noisy : 2^b \in Masks

\* It begins where a packet does whose quantity is as it was sent: it ends
\* with the packet, which is the last one if nothing follows.
PacketAt(s, k, p) ==
  /\ k + 2 <= Len(s) /\ k + 3 + 4 * s[k + 2] <= Len(s)
  /\ k + 3 + 4 * s[k + 2] = Len(s) /\ Marks(From(s, k)) = {} => From(s, k) = ReportPacket(p)

\* It begins with a packet whose quantity was changed, by the last noise,
ChangedAt(s, k, n) == n = MaxNoise /\ Marks(From(s, k)) # {}

\* or so that no packet ends where it does.
AstrayAt(s, k) ==
  \E d \in Byte \ {0}, y \in Nat :
    /\ NoPacketEnds(d) /\ Len(s) - k + 1 = 4 * y /\ y % d = 0
    /\ k + 2 <= Len(s) /\ (1 + s[k + 2]) % d # 0

\* Then all its marks are noise.
NoiseOnly(s, k, n) ==
  Cardinality(Marks(From(s, k))) <= n /\ \A b \in Marks(From(s, k)) : 2^b \in Masks

AtPacket(s, k, p, n) ==
  NoiseOnly(s, k, n) /\ (PacketAt(s, k, p) \/ ChangedAt(s, k, n) \/ AstrayAt(s, k))

Begins(s, k, p, n) == InsideAt(s, k, n) \/ AtPacket(s, k, p, n)

Anywhere(s, p, n) == \A k \in 1..Len(s) : Begins(s, k, p, n)

LEMMA ByteIsInt == \A x \in Byte : x \in Int
  BY DEF Byte

LEMMA AnywhereInRest ==
  ASSUME NEW s \in Seq(Byte), NEW p, NEW n, Anywhere(s, p, n), NEW m \in 0..Len(s)
  PROVE  Anywhere(From(s, m + 1), p, n)
<1> DEFINE f == From(s, m + 1)
<1>1. Len(s) \in Nat /\ m \in Nat /\ m + 1 \in 1..Len(s) + 1 /\ m <= Len(s)
  BY LenProperties
<1>2. /\ f \in Seq(Byte) /\ Len(f) = Len(s) - (m + 1) + 1
      /\ \A i \in 1..Len(s) - (m + 1) + 1 : f[i] = s[(m + 1) + i - 1]
  BY <1>1, FromIs
<1>3. Len(f) = Len(s) - m /\ \A i \in 1..Len(s) - m : f[i] = s[m + i]
  <2> HIDE DEF f
  <2>1. Len(s) - (m + 1) + 1 = Len(s) - m
    BY <1>1
  <2>2. ASSUME NEW i \in 1..Len(s) - m PROVE f[i] = s[m + i]
    <3>1. (m + 1) + i - 1 = m + i
      BY <1>1
    <3> QED
      BY <1>2, <2>1, <3>1
  <2> QED
    BY <1>2, <2>1, <2>2
<1>4. ASSUME NEW k \in 1..Len(s) - m
      PROVE m + k \in 1..Len(s) /\ From(f, k) = From(s, m + k)
  <2>1. /\ k \in 1..Len(s) - (m + 1) + 1 /\ m + 1 + k - 1 = m + k
        /\ m + k \in 1..Len(s)
    BY <1>1
  <2> QED
    BY <1>1, <2>1, FromFrom
<1> HIDE DEF f
<1>5. ASSUME NEW k \in 1..Len(s) - m PROVE Begins(f, k, p, n)
  <2>1. Begins(s, m + k, p, n)
    BY <1>4, <1>5 DEF Anywhere
  <2>2. CASE InsideAt(s, m + k, n)
    BY <1>4, <2>2 DEF InsideAt, Begins
  <2>6. NoiseOnly(s, m + k, n) => NoiseOnly(f, k, n)
    BY <1>4 DEF NoiseOnly
  <2>3. CASE NoiseOnly(s, m + k, n) /\ ChangedAt(s, m + k, n)
    BY <1>4, <2>6, <2>3 DEF ChangedAt, AtPacket, Begins
  <2>4. CASE NoiseOnly(s, m + k, n) /\ PacketAt(s, m + k, p)
    <3>1. /\ k + 2 <= Len(s) - m /\ k + 2 \in 1..Len(s) - m
          /\ m + (k + 2) = m + k + 2 /\ m + k + 2 \in 1..Len(s)
      BY <1>1, <2>4 DEF PacketAt
    <3>2. f[k + 2] = s[m + k + 2] /\ s[m + k + 2] \in Byte
      BY <1>3, <3>1, ElementOfSeq
    <3>3. /\ k + 3 + 4 * f[k + 2] <= Len(f)
          /\ k + 3 + 4 * f[k + 2] = Len(f) => m + k + 3 + 4 * s[m + k + 2] = Len(s)
      <4>1. m + k + 3 + 4 * s[m + k + 2] <= Len(s)
        BY <2>4 DEF PacketAt
      <4>2. s[m + k + 2] \in Int /\ f[k + 2] = s[m + k + 2] /\ Len(f) = Len(s) - m
        BY <1>3, <3>2, ByteIsInt, Zenon
      <4> DEFINE x == s[m + k + 2]
      <4> HIDE DEF x
      <4>3. x \in Int /\ m + k + 3 + 4 * x <= Len(s)
        BY <4>1, <4>2 DEF x
      <4>4. k + 3 + 4 * x <= Len(s) - m /\ (k + 3 + 4 * x = Len(s) - m => m + k + 3 + 4 * x = Len(s))
        BY <1>1, <4>3
      <4> QED
        BY <4>2, <4>4 DEF x
    <3>4. k + 2 <= Len(f)
      BY <1>3, <3>1
    <3>5. ASSUME k + 3 + 4 * f[k + 2] = Len(f), Marks(From(f, k)) = {}
          PROVE From(f, k) = ReportPacket(p)
      BY <1>4, <2>4, <3>3, <3>5 DEF PacketAt
    <3>6. PacketAt(f, k, p)
      BY <3>3, <3>4, <3>5 DEF PacketAt
    <3> QED
      BY <2>6, <2>4, <3>6 DEF AtPacket, Begins
  <2>5. CASE NoiseOnly(s, m + k, n) /\ AstrayAt(s, m + k)
    <3>1. PICK d \in Byte \ {0}, y \in Nat :
            /\ NoPacketEnds(d) /\ Len(s) - (m + k) + 1 = 4 * y /\ y % d = 0
            /\ m + k + 2 <= Len(s) /\ (1 + s[m + k + 2]) % d # 0
      BY <2>5 DEF AstrayAt
    <3>2. /\ k + 2 \in 1..Len(s) - m /\ m + (k + 2) = m + k + 2
          /\ Len(f) - k + 1 = 4 * y /\ k + 2 <= Len(f)
      BY <1>1, <1>3, <3>1
    <3>3. f[k + 2] = s[m + k + 2]
      BY <1>3, <3>2
    <3>4. AstrayAt(f, k)
      BY <3>1, <3>2, <3>3, Zenon DEF AstrayAt
    <3> QED
      BY <2>6, <2>5, <3>4 DEF AtPacket, Begins
  <2> QED
    BY <2>1, <2>2, <2>3, <2>4, <2>5 DEF AtPacket, Begins
<1>6. Anywhere(f, p, n)
  BY <1>3, <1>5 DEF Anywhere
<1> QED
  BY <1>6 DEF f

\* A packet as it was built leaves no bit marked.
LEMMA PacketMarks ==
  ASSUME NEW r \in Reports
  PROVE  /\ ReportPacket(r) \in Seq(Byte) /\ Len(r) \in Nat
         /\ Len(ReportPacket(r)) = 4 + 4 * Len(r) /\ ReportPacket(r)[3] = Len(r)
         /\ Marks(ReportPacket(r)) = {}
<1>1. /\ r \in Seq(Field) /\ Len(r) \in Nat /\ Len(r) \in Byte
      /\ ReportPacket(r) \in Seq(Byte) /\ ReportPacket(r)[3] = Len(r)
  BY SizeIs
<1>2. ReportInfo \in Byte
  BY DEF ReportInfo, Byte
<1>3. Len(ReportPacket(r)) = 4 + 4 * Len(r)
  BY <1>1, <1>2, PacketType, ReportPacketIs
<1>4. verify_checksum(ReportPacket(r))
  BY <1>1, <1>2, RoundTrip, ReportPacketIs
<1>5. Len(ReportPacket(r)) >= 1
  BY <1>1, <1>3
<1> QED
  BY <1>1, <1>3, <1>4, <1>5, GoodMarks

\* One more bit is at most one more noisy bit.
LEMMA OneMoreBit ==
  ASSUME NEW M \in SUBSET (0..7), NEW A \in SUBSET (0..7), NEW a \in 0..7, NEW n \in Nat,
         Cardinality(Differ(M, A)) <= n, \A b \in Differ(M, A) : 2^b \in Masks, 2^a \in Masks
  PROVE  /\ Cardinality(Differ(Differ(M, {a}), A)) <= n + 1
         /\ \A b \in Differ(Differ(M, {a}), A) : 2^b \in Masks
<1> DEFINE D == Differ(M, A)
           E == Differ(Differ(M, {a}), A)
<1>1. D \in SUBSET (0..7) /\ E \subseteq D \cup {a}
  BY DEF Differ
<1>2. IsFiniteSet(0..7)
  <2>1. 0 \in Int /\ 7 \in Int
    OBVIOUS
  <2> QED
    BY <2>1, FS_Interval, Zenon
<1>3. IsFiniteSet(D)
  BY <1>1, <1>2, FS_Subset
<1>4. /\ IsFiniteSet(D \cup {a}) /\ Cardinality(D) \in Nat
      /\ Cardinality(D \cup {a}) \in Nat /\ Cardinality(D \cup {a}) <= Cardinality(D) + 1
  <2> HIDE DEF D
  <2>1. /\ IsFiniteSet(D \cup {a}) /\ Cardinality(D) \in Nat
        /\ Cardinality(D \cup {a}) = IF a \in D THEN Cardinality(D) ELSE Cardinality(D) + 1
    BY <1>3, FS_AddElement, FS_CardinalityType
  <2> QED
    BY <2>1
<1>5. Cardinality(E) \in Nat /\ Cardinality(E) <= Cardinality(D \cup {a})
  <2> HIDE DEF D, E
  <2> QED
    BY <1>1, <1>4, FS_Subset, FS_CardinalityType
<1>6. \A b \in E : 2^b \in Masks
  BY <1>1
<1>7. Cardinality(E) <= n + 1
  <2>1. Cardinality(D) <= n
    OBVIOUS
  <2> HIDE DEF D, E
  <2> QED
    BY <1>4, <1>5, <2>1
<1> QED
  BY <1>6, <1>7

\* What a packet q becomes on the line: as it was built, or with a bit
\* changed, which makes n of the spoiled packets n2.
ArrivesAs(q, t, n, n2) ==
  \/ t = ReportPacket(q) /\ n2 = n
  \/ /\ n < MaxNoise /\ n2 = n + 1
     /\ \E i \in NoisyBytes \cap DOMAIN ReportPacket(q), m \in Masks :
          t = [ReportPacket(q) EXCEPT ![i] = Flip(@, m)]

\* The bit that was changed, and where.
Spoilt(q, t, i, a) ==
  /\ i \in NoisyBytes /\ i \in DOMAIN ReportPacket(q) /\ a \in 0..7 /\ 2^a \in Masks
  /\ Marks(t) = {a} /\ t[i] = Flip(ReportPacket(q)[i], 2^a)
  /\ \A j \in 1..Len(ReportPacket(q)) : j # i => t[j] = ReportPacket(q)[j]

LEMMA ArrivesIs ==
  ASSUME NEW q \in Reports, NEW t, NEW n, NEW n2, ArrivesAs(q, t, n, n2)
  PROVE  /\ t \in Seq(Byte) /\ Len(t) = Len(ReportPacket(q))
         /\ \/ t = ReportPacket(q) /\ n2 = n
            \/ n < MaxNoise /\ n2 = n + 1 /\ \E i, a : Spoilt(q, t, i, a)
<1>1. ReportPacket(q) \in Seq(Byte) /\ Marks(ReportPacket(q)) = {}
  BY PacketMarks
<1>2. CASE t = ReportPacket(q) /\ n2 = n
  BY <1>1, <1>2
<1>3. CASE /\ n < MaxNoise /\ n2 = n + 1
           /\ \E i \in NoisyBytes \cap DOMAIN ReportPacket(q), m \in Masks :
                t = [ReportPacket(q) EXCEPT ![i] = Flip(@, m)]
  <2>1. PICK i \in NoisyBytes \cap DOMAIN ReportPacket(q), m \in Masks :
          t = [ReportPacket(q) EXCEPT ![i] = Flip(ReportPacket(q)[i], m)]
    BY <1>3
  <2>2. PICK a \in 0..7 : m = 2^a
    BY RetryAssumption
  <2>3. /\ t \in Seq(Byte) /\ Len(t) = Len(ReportPacket(q))
        /\ \A j \in 1..Len(ReportPacket(q)) : j # i => t[j] = ReportPacket(q)[j]
        /\ Marks(t) = Differ(Marks(ReportPacket(q)), {a})
        /\ t[i] = Flip(ReportPacket(q)[i], 2^a)
    <3> DEFINE P == ReportPacket(q)
    <3>1. P \in Seq(Byte) /\ i \in DOMAIN P /\ t = Flipped(P, i, a)
      BY <1>1, <2>1, <2>2 DEF Flipped
    <3>3. t[i] = Flip(P[i], 2^a)
      BY <3>1 DEF Flipped
    <3> HIDE DEF P
    <3>2. /\ t \in Seq(Byte) /\ Len(t) = Len(P)
          /\ \A j \in 1..Len(P) : j # i => t[j] = P[j]
          /\ Marks(t) = Differ(Marks(P), {a})
      BY <3>1, MarksFlipped
    <3> QED
      BY <3>2, <3>3 DEF P
  <2>4. Marks(t) = {a}
    BY <1>1, <2>3 DEF Differ
  <2>5. Spoilt(q, t, i, a)
    BY <2>2, <2>3, <2>4 DEF Spoilt
  <2> QED
    BY <1>3, <2>3, <2>5
<1> QED
  BY <1>2, <1>3 DEF ArrivesAs

\* A packet behind a place does not change what a read there begins with.
LEMMA BeginsOn ==
  ASSUME NEW s \in Seq(Byte), NEW k \in 1..Len(s), NEW p, NEW n \in Nat, Begins(s, k, p, n),
         NEW q \in Reports, NEW t, NEW n2, ArrivesAs(q, t, n, n2)
  PROVE  Begins(s \o t, k, q, n2)
<1> DEFINE u == s \o t
<1>1. /\ t \in Seq(Byte) /\ Len(t) = Len(ReportPacket(q))
      /\ \/ t = ReportPacket(q) /\ n2 = n
         \/ n < MaxNoise /\ n2 = n + 1 /\ \E i, a : Spoilt(q, t, i, a)
  BY ArrivesIs
<1>2. Len(ReportPacket(q)) = 4 + 4 * Len(q) /\ Len(q) \in Nat /\ Marks(ReportPacket(q)) = {}
  BY PacketMarks
<1>3. /\ Len(s) \in Nat /\ Len(t) \in Nat /\ Len(t) > 0
      /\ Len(u) = Len(s) + Len(t) /\ u \in Seq(Byte) /\ \A i \in 1..Len(s) : u[i] = s[i]
  <2>1. Len(u) = Len(s) + Len(t) /\ u \in Seq(Byte) /\ Len(s) \in Nat /\ Len(t) \in Nat
        /\ \A i \in 1..Len(s) : u[i] = s[i]
    BY <1>1, ConcatBytes
  <2>2. Len(t) > 0
    BY <1>1, <1>2
  <2> HIDE DEF u
  <2> QED
    BY <2>1, <2>2
<1>4. From(s, k) \in Seq(Byte) /\ From(u, k) = From(s, k) \o t
  <2>1. k \in 1..Len(s) + 1
    BY <1>3
  <2> QED
    BY <1>1, <2>1, FromIs, FromConcat
<1>5. Marks(From(u, k)) = Differ(Marks(From(s, k)), Marks(t))
  BY <1>1, <1>4, MarksConcat
<1> HIDE DEF u
<1>11. ASSUME NoiseOnly(s, k, n) PROVE NoiseOnly(u, k, n2)
  <2> DEFINE M == Marks(From(s, k))
  <2>1. M \in SUBSET (0..7) /\ {} \in SUBSET (0..7) /\ Differ(M, {}) = M
    BY MarksType DEF Differ
  <2>2. Cardinality(M) <= n /\ \A b \in M : 2^b \in Masks
    BY <1>11 DEF NoiseOnly
  <2>3. Marks(From(u, k)) = Differ(M, Marks(t))
    BY <1>5
  <2> HIDE DEF M
  <2>4. CASE t = ReportPacket(q) /\ n2 = n
    <3>1. Marks(From(u, k)) = M
      BY <1>2, <2>1, <2>3, <2>4
    <3> QED
      BY <2>2, <2>4, <3>1 DEF NoiseOnly
  <2>5. CASE n2 = n + 1 /\ \E j, a : Spoilt(q, t, j, a)
    <3>1. PICK j, a : Spoilt(q, t, j, a)
      BY <2>5
    <3>2. a \in 0..7 /\ 2^a \in Masks /\ Marks(From(u, k)) = Differ(M, {a})
      BY <2>3, <3>1 DEF Spoilt
    <3>3. Differ(Differ(M, {a}), {}) = Differ(M, {a})
      BY DEF Differ
    <3>4. /\ Cardinality(Differ(Differ(M, {a}), {})) <= n + 1
          /\ \A b \in Differ(Differ(M, {a}), {}) : 2^b \in Masks
      BY <2>1, <2>2, <3>2, OneMoreBit
    <3> QED
      BY <2>5, <3>2, <3>3, <3>4 DEF NoiseOnly
  <2> QED
    BY <1>1, <2>4, <2>5
<1>6. ASSUME NoiseOnly(s, k, n), PacketAt(s, k, p) PROVE Begins(u, k, q, n2)
  <2>1. k + 2 <= Len(s) /\ k + 2 \in 1..Len(s) /\ k + 3 + 4 * s[k + 2] <= Len(s)
    BY <1>3, <1>6 DEF PacketAt
  <2>2. u[k + 2] = s[k + 2] /\ s[k + 2] \in Int
    BY <1>3, <2>1, ElementOfSeq, ByteIsInt
  <2>3. k + 2 <= Len(u) /\ k + 3 + 4 * u[k + 2] <= Len(u) /\ k + 3 + 4 * u[k + 2] # Len(u)
    <3> DEFINE x == s[k + 2]
    <3> HIDE DEF x
    <3>1. x \in Int /\ k + 3 + 4 * x <= Len(s) /\ u[k + 2] = x
      BY <2>1, <2>2 DEF x
    <3> QED
      BY <1>3, <2>1, <3>1
  <2> QED
    BY <1>6, <1>11, <2>3 DEF PacketAt, AtPacket, Begins
<1>7. ASSUME NoiseOnly(s, k, n), ChangedAt(s, k, n) PROVE Begins(u, k, q, n2)
  <2>1. n = MaxNoise /\ t = ReportPacket(q) /\ n2 = n
    BY <1>1, <1>7, RetryAssumption DEF ChangedAt
  <2>2. Marks(From(u, k)) = Marks(From(s, k))
    BY <1>2, <1>5, <2>1 DEF Differ
  <2> QED
    BY <1>7, <1>11, <2>1, <2>2 DEF ChangedAt, AtPacket, Begins
<1>8. ASSUME InsideAt(s, k, n) PROVE Begins(u, k, q, n2)
  <2> DEFINE noisy(r, i) == Differ(Marks(From(s, k)), Marks(SubSeq(ReportPacket(r), 1, i)))
  <2>0. PICK r \in Reports : \E i \in 1..Len(ReportPacket(r)) - 1 :
          Cardinality(noisy(r, i)) <= n /\ \A b \in noisy(r, i) : 2^b \in Masks
    BY <1>8 DEF InsideAt
  <2>1. PICK i \in 1..Len(ReportPacket(r)) - 1 :
          Cardinality(noisy(r, i)) <= n /\ \A b \in noisy(r, i) : 2^b \in Masks
    BY <2>0
  <2> DEFINE M == Marks(From(s, k))
             A == Marks(SubSeq(ReportPacket(r), 1, i))
  <2>2. M \in SUBSET (0..7) /\ A \in SUBSET (0..7)
    BY MarksType
  <2>3. Cardinality(Differ(M, A)) <= n /\ \A b \in Differ(M, A) : 2^b \in Masks
    BY <2>1
  <2>4. Marks(From(u, k)) = Differ(M, Marks(t))
    BY <1>5
  <2> DEFINE D == Differ(Marks(From(u, k)), A)
  <2>5. Cardinality(D) <= n2 /\ \A b \in D : 2^b \in Masks
    <3> HIDE DEF M, A
    <3>1. CASE t = ReportPacket(q) /\ n2 = n
      <4>1. Differ(M, Marks(t)) = M
        BY <1>2, <3>1 DEF Differ
      <4> QED
        BY <2>3, <2>4, <3>1, <4>1
    <3>2. CASE n2 = n + 1 /\ \E j, a : Spoilt(q, t, j, a)
      <4>1. PICK j, a : Spoilt(q, t, j, a)
        BY <3>2
      <4>2. a \in 0..7 /\ 2^a \in Masks /\ D = Differ(Differ(M, {a}), A)
        BY <2>4, <4>1 DEF Spoilt
      <4>3. /\ Cardinality(Differ(Differ(M, {a}), A)) <= n + 1
            /\ \A b \in Differ(Differ(M, {a}), A) : 2^b \in Masks
        BY <2>2, <2>3, <4>2, OneMoreBit
      <4> QED
        BY <3>2, <4>2, <4>3
    <3> QED
      BY <1>1, <3>1, <3>2
  <2>6. InsideAt(u, k, n2)
    BY <2>5 DEF InsideAt
  <2> QED
    BY <2>6 DEF Begins
<1>9. ASSUME NoiseOnly(s, k, n), AstrayAt(s, k) PROVE Begins(u, k, q, n2)
  <2>1. PICK d \in Byte \ {0}, y \in Nat :
          /\ NoPacketEnds(d) /\ Len(s) - k + 1 = 4 * y /\ y % d = 0
          /\ k + 2 <= Len(s) /\ (1 + s[k + 2]) % d # 0
    BY <1>9 DEF AstrayAt
  <2> DEFINE y2 == y + (1 + Len(q))
  <2>2. y2 \in Nat /\ Len(u) - k + 1 = 4 * y2 /\ k + 2 <= Len(u) /\ k + 2 \in 1..Len(s)
    <3>1. Len(t) = 4 + 4 * Len(q)
      BY <1>1, <1>2
    <3>2. k \in Int /\ 1 <= k
      BY <1>3
    <3>3. k + 2 \in 1..Len(s) /\ k + 2 <= Len(u)
      BY <1>3, <2>1, <3>2
    <3>4. y2 \in Nat /\ 4 * y2 = 4 * y + Len(t)
      BY <1>2, <3>1
    <3> HIDE DEF y2
    <3>5. Len(s) - k + 1 = 4 * y
      BY <2>1
    <3>6. Len(u) - k + 1 = 4 * y2
      <4>1. /\ Len(s) \in Int /\ Len(t) \in Int /\ Len(u) = Len(s) + Len(t)
            /\ y \in Int /\ y2 \in Int
        BY <1>3, <3>4
      <4>2. Len(u) - k + 1 = (Len(s) - k + 1) + Len(t)
        BY <3>2, <4>1
      <4> QED
        BY <3>4, <3>5, <4>2, Zenon
    <3> QED
      BY <3>3, <3>4, <3>6
  <2>3. y2 % d = 0
    <3>1. (1 + Len(q)) % d = 0 /\ d \in Nat \ {0} /\ y \in Int /\ 1 + Len(q) \in Int
      BY <1>2, <2>1 DEF NoPacketEnds, Byte
    <3> QED
      BY <2>1, <3>1, Multiples, Zenon
  <2>4. u[k + 2] = s[k + 2]
    BY <1>3, <2>2
  <2> HIDE DEF y2
  <2>5. AstrayAt(u, k)
    BY <2>1, <2>2, <2>3, <2>4, Zenon DEF AstrayAt
  <2> QED
    BY <1>9, <1>11, <2>5 DEF AtPacket, Begins
<1>10. Begins(u, k, q, n2)
  BY <1>6, <1>7, <1>8, <1>9 DEF AtPacket, Begins
<1> QED
  BY <1>10 DEF u

\* A read that begins with the packet, or inside it.
LEMMA BeginsHere ==
  ASSUME QuantityShows, NEW s \in Seq(Byte), NEW n \in Nat,
         NEW q \in Reports, NEW t, NEW n2, ArrivesAs(q, t, n, n2), NEW j \in 1..Len(t)
  PROVE  Begins(s \o t, Len(s) + j, q, n2)
<1> DEFINE u == s \o t
           P == ReportPacket(q)
<1>1. /\ t \in Seq(Byte) /\ Len(t) = Len(P)
      /\ \/ t = P /\ n2 = n
         \/ n < MaxNoise /\ n2 = n + 1 /\ \E i, a : Spoilt(q, t, i, a)
  BY ArrivesIs
<1>2. P \in Seq(Byte) /\ Len(P) = 4 + 4 * Len(q) /\ Len(q) \in Nat /\ Marks(P) = {} /\ P[3] = Len(q)
  BY PacketMarks
<1>3. /\ Len(s) \in Nat /\ Len(t) \in Nat /\ Len(u) = Len(s) + Len(t)
      /\ From(u, Len(s) + j) = From(t, j)
  BY <1>1, ConcatBytes, FromConcat
<1>4. 3 \in 1..Len(t) /\ u[Len(s) + 3] = t[3]
  <2>1. 3 \in 1..Len(t)
    BY <1>1, <1>2
  <2>2. \A i \in 1..Len(s) + Len(t) : u[i] = IF i <= Len(s) THEN s[i] ELSE t[i - Len(s)]
    <3>1. s \in Seq(Byte) /\ t \in Seq(Byte)
      BY <1>1
    <3> QED
      BY <3>1, ConcatProperties, Zenon
  <2>3. Len(s) + 3 \in 1..Len(s) + Len(t) /\ ~(Len(s) + 3 <= Len(s)) /\ Len(s) + 3 - Len(s) = 3
    BY <1>3, <2>1
  <2> HIDE DEF u
  <2> QED
    BY <2>1, <2>2, <2>3
<1> HIDE DEF u
<1>5. ASSUME j = 1 PROVE Begins(u, Len(s) + j, q, n2)
  <2>1. From(u, Len(s) + j) = t
    BY <1>1, <1>3, <1>5, SubSeqFull DEF From
  <2>6. NoiseOnly(u, Len(s) + 1, n2)
    <3>0. From(u, Len(s) + 1) = t /\ n2 \in Nat
      BY <1>1, <1>5, <2>1
    <3>1. CASE t = P
      <4>1. Marks(t) = {} /\ Cardinality({}) = 0
        BY <1>2, <3>1, FS_EmptySet
      <4>2. Cardinality(Marks(t)) <= n2 /\ \A b \in Marks(t) : 2^b \in Masks
        <5> HIDE DEF P
        <5> QED
          BY <3>0, <4>1
      <4> QED
        BY <3>0, <4>2, Zenon DEF NoiseOnly
    <3>2. CASE n2 = n + 1 /\ \E i, a : Spoilt(q, t, i, a)
      <4>1. PICK i, a : Spoilt(q, t, i, a)
        BY <3>2
      <4>2. Marks(t) = {a} /\ 2^a \in Masks
        BY <4>1 DEF Spoilt
      <4>3. Cardinality({a}) = 1 /\ 1 <= n2
        <5>1. 1 <= n2
          BY <3>2
        <5> QED
          BY <5>1, FS_Singleton, Zenon
      <4>4. Cardinality(Marks(t)) <= n2 /\ \A b \in Marks(t) : 2^b \in Masks
        BY <4>2, <4>3
      <4> QED
        BY <3>0, <4>4, Zenon DEF NoiseOnly
    <3> QED
      BY <1>1, <3>1, <3>2
  <2>2. CASE t[3] = Len(q) /\ (Marks(t) = {} => t = P)
    <3>1. /\ Len(s) + 1 + 2 <= Len(u) /\ Len(s) + 1 + 2 = Len(s) + 3
          /\ Len(s) + 1 + 3 + 4 * Len(q) = Len(u)
      <4>1. Len(t) = 4 + 4 * Len(q) /\ Len(q) \in Nat
        BY <1>1, <1>2
      <4> HIDE DEF P
      <4> QED
        BY <1>3, <4>1
    <3>2. u[Len(s) + 1 + 2] = Len(q)
      BY <1>4, <2>2, <3>1
    <3>3. /\ Len(s) + 1 + 3 + 4 * u[Len(s) + 1 + 2] <= Len(u)
      BY <1>3, <3>1, <3>2
    <3>4. PacketAt(u, Len(s) + 1, q)
      BY <1>5, <2>1, <2>2, <3>1, <3>3 DEF PacketAt
    <3> QED
      BY <1>5, <2>6, <3>4 DEF AtPacket, Begins
  <2>3. CASE n2 = MaxNoise /\ Marks(t) # {}
    BY <1>5, <2>1, <2>3, <2>6 DEF ChangedAt, AtPacket, Begins
  <2>4. CASE t = P
    BY <1>2, <2>2, <2>4
  <2>5. CASE n < MaxNoise /\ n2 = n + 1 /\ \E i, a : Spoilt(q, t, i, a)
    <3>1. PICK i, a : Spoilt(q, t, i, a)
      BY <2>5
    <3>2. Marks(t) # {}
      BY <3>1 DEF Spoilt
    <3>3. CASE i = 3
      <4>1. MaxNoise <= 1 \/ \E d \in Byte \ {0} : NoPacketEnds(d)
        BY <3>1, <3>3 DEF QuantityShows, Spoilt
      <4>2. CASE MaxNoise <= 1
        <5>1. n2 = MaxNoise
          BY <2>5, <4>2, RetryAssumption
        <5> QED
          BY <2>3, <3>2, <5>1
      <4>3. CASE \E d \in Byte \ {0} : NoPacketEnds(d)
        <5>1. PICK d \in Byte \ {0} : NoPacketEnds(d)
          BY <4>3
        <5> DEFINE x == 1 + Len(q)
                   m == 2^a
        <5>2. /\ x % d = 0 /\ x \in Nat /\ m \in Int /\ m % d # 0 /\ d \in Nat \ {0}
          <6>1. m \in Int
            <7>1. a \in {0, 1, 2, 3, 4, 5, 6, 7}
              BY <3>1 DEF Spoilt
            <7> QED
              BY <7>1, PowersOfTwo
          <6> QED
            BY <1>2, <3>1, <5>1, <6>1 DEF NoPacketEnds, Spoilt, Byte
        <5>3. t[3] = Flip(Len(q), m)
          BY <1>2, <3>1, <3>3 DEF Spoilt
        <5>4. 1 + t[3] = x + m \/ 1 + t[3] = x - m
          <6>1. t[3] = Len(q) - m \/ t[3] = Len(q) + m
            BY <5>3 DEF Flip
          <6> HIDE DEF m
          <6> QED
            BY <1>2, <5>2, <6>1
        <5>5. (1 + t[3]) % d # 0
          <6> HIDE DEF x, m
          <6>1. (x + m) % d # 0 /\ (x - m) % d # 0
            <7>1. x \in Int
              BY <5>2
            <7> QED
              BY <5>2, <7>1, Multiples, Zenon
          <6> QED
            BY <5>4, <6>1
        <5>6. /\ Len(u) - (Len(s) + 1) + 1 = 4 * x /\ Len(s) + 1 + 2 <= Len(u)
              /\ Len(s) + 1 + 2 = Len(s) + 3
          <6>1. Len(t) = 4 + 4 * Len(q)
            BY <1>1, <1>2
          <6> HIDE DEF P
          <6> QED
            BY <1>2, <1>3, <6>1
        <5>7. u[Len(s) + 1 + 2] = t[3]
          BY <1>4, <5>6
        <5> HIDE DEF x
        <5>8. AstrayAt(u, Len(s) + 1)
          BY <5>1, <5>2, <5>5, <5>6, <5>7, Zenon DEF AstrayAt
        <5> QED
          BY <1>5, <2>6, <5>8 DEF AtPacket, Begins
      <4> QED
        BY <4>1, <4>2, <4>3
    <3>4. CASE i # 3
      <4>1. t[3] = Len(q)
        BY <1>1, <1>2, <1>4, <3>1, <3>4 DEF Spoilt
      <4> QED
        BY <2>2, <3>2, <4>1
    <3> QED
      BY <3>3, <3>4
  <2> QED
    BY <1>1, <2>4, <2>5
<1>6. ASSUME j # 1 PROVE Begins(u, Len(s) + j, q, n2)
  <2> DEFINE i == j - 1
             D == Differ(Marks(From(t, j)), Marks(SubSeq(P, 1, i)))
  <2>1. i \in 1..Len(P) - 1 /\ i + 1 = j /\ i \in 1..Len(t) /\ i < Len(t) /\ i \in 1..Len(P) /\ i < Len(P)
    BY <1>1, <1>3, <1>6
  <2>2. /\ Marks(t) = Differ(Marks(SubSeq(t, 1, i)), Marks(From(t, j)))
        /\ Marks(P) = Differ(Marks(SubSeq(P, 1, i)), Marks(From(P, j)))
    <3> HIDE DEF i
    <3> QED
      BY <1>1, <1>2, <2>1, SplitAt
  <2>3. Marks(SubSeq(P, 1, i)) = Marks(From(P, j))
    BY <1>2, <2>2 DEF Differ
  <2>4. \A e : Cardinality({}) = 0 /\ Cardinality({e}) = 1
    BY FS_EmptySet, FS_Singleton
  <2>5. CASE D = {}
    <3>1. Cardinality(D) <= n2
      BY <1>1, <2>4, <2>5
    <3>2. InsideAt(u, Len(s) + j, n2)
      BY <1>3, <2>1, <2>5, <3>1 DEF InsideAt
    <3> QED
      BY <3>2 DEF Begins
  <2>6. CASE t = P
    <3>1. D = {}
      BY <2>3, <2>6 DEF Differ
    <3> QED
      BY <2>5, <3>1
  <2>7. CASE n < MaxNoise /\ n2 = n + 1 /\ \E x, a : Spoilt(q, t, x, a)
    <3>1. PICK x, a : Spoilt(q, t, x, a)
      BY <2>7
    <3>2. x \in 1..Len(P) /\ \A y \in 1..Len(P) : y # x => t[y] = P[y]
      BY <1>2, <3>1, LenProperties DEF Spoilt
    <3>3. CASE x < j
      <4>1. From(t, j) = From(P, j)
        <5>1. /\ j \in 1..Len(t) + 1 /\ j \in 1..Len(P) + 1
              /\ \A y \in 1..Len(t) - j + 1 : j + y - 1 \in 1..Len(P) /\ j + y - 1 # x
          BY <1>1, <1>3, <3>2, <3>3
        <5>2. /\ From(t, j) \in Seq(Byte) /\ Len(From(t, j)) = Len(t) - j + 1
              /\ \A y \in 1..Len(t) - j + 1 : From(t, j)[y] = t[j + y - 1]
          BY <1>1, <5>1, FromIs
        <5>3. /\ From(P, j) \in Seq(Byte) /\ Len(From(P, j)) = Len(P) - j + 1
              /\ \A y \in 1..Len(P) - j + 1 : From(P, j)[y] = P[j + y - 1]
          BY <1>2, <5>1, FromIs
        <5>4. \A y \in 1..Len(t) - j + 1 : From(t, j)[y] = From(P, j)[y]
          BY <1>1, <3>2, <5>1, <5>2, <5>3
        <5> DEFINE l == Len(t) - j + 1
                   e == From(t, j)
                   f == From(P, j)
        <5>5. e \in Seq(Byte) /\ f \in Seq(Byte) /\ Len(e) = l /\ Len(f) = l /\ \A y \in 1..l : e[y] = f[y]
          BY <1>1, <5>2, <5>3, <5>4
        <5> HIDE DEF l, e, f
        <5>6. e = f
          BY <5>5, SeqEqual
        <5> QED
          BY <5>6 DEF e, f
      <4>2. D = {}
        BY <2>3, <4>1 DEF Differ
      <4> QED
        BY <2>5, <4>2
    <3>4. CASE ~(x < j)
      <4>1. SubSeq(t, 1, i) = SubSeq(P, 1, i)
        <5>1. 1 \in Int /\ i \in Int /\ 1 <= i /\ i - 1 + 1 = i
          BY <2>1
        <5>2. \A y \in 1..i : y \in 1..Len(t) /\ y \in 1..Len(P) /\ y # x
          BY <1>1, <1>3, <2>1, <3>2, <3>4
        <5>3. \A y \in 1..i : t[y] \in Byte /\ P[y] \in Byte /\ t[y] = P[y] /\ 1 + y - 1 = y
          BY <1>1, <1>2, <3>2, <5>2, ElementOfSeq
        <5> HIDE DEF i, P
        <5>4. /\ SubSeq(t, 1, i) \in Seq(Byte) /\ Len(SubSeq(t, 1, i)) = i
              /\ \A y \in 1..i : SubSeq(t, 1, i)[y] = t[1 + y - 1]
          BY <5>1, <5>3, SubSeqProperties
        <5>5. /\ SubSeq(P, 1, i) \in Seq(Byte) /\ Len(SubSeq(P, 1, i)) = i
              /\ \A y \in 1..i : SubSeq(P, 1, i)[y] = P[1 + y - 1]
          BY <5>1, <5>3, SubSeqProperties
        <5> QED
          BY <5>3, <5>4, <5>5, SeqEqual
      <4>2. Marks(t) = {a} /\ 2^a \in Masks
        BY <3>1 DEF Spoilt
      <4>3. D = {a}
        BY <2>2, <4>1, <4>2 DEF Differ
      <4>4. Cardinality(D) <= n2
        <5>1. Cardinality(D) = 1
          BY <2>4, <4>3
        <5> HIDE DEF D
        <5> QED
          BY <2>7, <5>1
      <4>5. InsideAt(u, Len(s) + j, n2)
        BY <1>3, <2>1, <4>2, <4>3, <4>4 DEF InsideAt
      <4> QED
        BY <4>5 DEF Begins
    <3> QED
      BY <3>3, <3>4
  <2> QED
    BY <1>1, <2>6, <2>7
<1>7. Begins(u, Len(s) + j, q, n2)
  BY <1>5, <1>6
<1> QED
  BY <1>7 DEF u

LEMMA AnywhereWithPacket ==
  ASSUME QuantityShows, NEW s \in Seq(Byte), NEW p, NEW n \in Nat, Anywhere(s, p, n),
         NEW q \in Reports, NEW t, NEW n2, ArrivesAs(q, t, n, n2)
  PROVE  Anywhere(s \o t, q, n2)
<1>1. t \in Seq(Byte)
  BY ArrivesIs
<1>2. Len(s \o t) = Len(s) + Len(t) /\ Len(s) \in Nat /\ Len(t) \in Nat
  BY <1>1, ConcatBytes
<1>3. SUFFICES ASSUME NEW k \in 1..Len(s) + Len(t) PROVE Begins(s \o t, k, q, n2)
  BY <1>2 DEF Anywhere
<1>4. CASE k \in 1..Len(s)
  BY <1>4, BeginsOn DEF Anywhere
<1>5. CASE ~(k \in 1..Len(s))
  <2>1. k - Len(s) \in 1..Len(t) /\ k = Len(s) + (k - Len(s))
    BY <1>2, <1>5
  <2>2. Begins(s \o t, Len(s) + (k - Len(s)), q, n2)
    BY <2>1, BeginsHere, SMTT(30)
  <2> QED
    BY <2>1, <2>2
<1> QED
  BY <1>4, <1>5

-----------------------------------------------------------------------------
(* The prototype: types.                                                   *)

\* The bytes that wait to be read or judged.
Unread == header \o line

\* A packet that is there, or is asked for, has been sent.
LastSent == Unread # <<>> \/ asked > 0 => last \in Reports

RetryInv == RetryTypeOK /\ LastSent

\* What ser.read(n) takes, and what it leaves.
LEMMA ReadIs ==
  ASSUME line \in Seq(Byte), NEW n \in Nat
  PROVE  /\ Read(n) \in Seq(Byte) /\ Len(Read(n)) = (IF Len(line) < n THEN Len(line) ELSE n)
         /\ LeftOver(n) \in Seq(Byte) /\ line = Read(n) \o LeftOver(n)
         /\ n < Len(line) => LeftOver(n) = From(line, n + 1)
         /\ n >= Len(line) => LeftOver(n) = <<>> /\ Read(n) = line
<1> DEFINE m == IF Len(line) < n THEN Len(line) ELSE n
<1>1. Len(line) \in Nat /\ m \in 0..Len(line) /\ (n >= Len(line) => m = Len(line))
      /\ (n < Len(line) => m = n)
  BY LenProperties
<1>2. \A i \in 1..Len(line) : line[i] \in Byte
  BY ElementOfSeq
<1>3. /\ SubSeq(line, 1, m) \in Seq(Byte)
      /\ Len(SubSeq(line, 1, m)) = IF 1 <= m THEN m - 1 + 1 ELSE 0
  BY <1>1, <1>2, SubSeqProperties
<1>4. /\ SubSeq(line, n + 1, Len(line)) \in Seq(Byte)
      /\ Len(SubSeq(line, n + 1, Len(line))) =
           IF n + 1 <= Len(line) THEN Len(line) - (n + 1) + 1 ELSE 0
  BY <1>1, <1>2, SubSeqProperties
<1>5. Read(n) = SubSeq(line, 1, m) /\ LeftOver(n) = SubSeq(line, n + 1, Len(line))
  BY DEF Read, LeftOver
<1> HIDE DEF m
<1>6. Len(Read(n)) = m
  BY <1>1, <1>3, <1>5
<1>7. ASSUME n < Len(line) PROVE LeftOver(n) = From(line, n + 1) /\ line = Read(n) \o LeftOver(n)
  <2>1. 1 \in 1..Len(line) + 1 /\ n \in 1 - 1..Len(line) /\ Len(line) \in n..Len(line) /\ m = n
    BY <1>1, <1>7
  <2>2. SubSeq(line, 1, n) \o SubSeq(line, n + 1, Len(line)) = SubSeq(line, 1, Len(line))
    BY <2>1, ConcatAdjacentSubSeq
  <2> QED
    BY <1>5, <2>1, <2>2, SubSeqFull DEF From
<1>8. ASSUME n >= Len(line) PROVE LeftOver(n) = <<>> /\ Read(n) = line
  <2>1. n + 1 \in Int /\ Len(line) \in Int /\ Len(line) < n + 1 /\ m = Len(line)
    BY <1>1, <1>8
  <2> QED
    BY <1>5, <2>1, SubSeqEmpty, SubSeqFull
<1>9. line = Read(n) \o LeftOver(n)
  BY <1>1, <1>7, <1>8, ConcatEmptySeq
<1> QED
  BY <1>3, <1>4, <1>5, <1>6, <1>7, <1>8, <1>9 DEF m

\* The bytes that receive_data judges.
LEMMA ReceivedIs ==
  ASSUME RetryTypeOK, pc = "body"
  PROVE  /\ header[3] \in Byte /\ BodyLength \in Nat
         /\ received_data \in Seq(Byte)
         /\ Len(header \o Read(BodyLength)) =
              3 + (IF Len(line) < BodyLength THEN Len(line) ELSE BodyLength)
         /\ LeftOver(BodyLength) \in Seq(Byte)
<1>1. header \in Seq(Byte) /\ Len(header) = 3 /\ line \in Seq(Byte)
  BY DEF RetryTypeOK
<1>2. header[3] \in Byte
  <2>1. 3 \in 1..Len(header)
    BY <1>1
  <2> QED
    BY <1>1, <2>1, ElementOfSeq
<1>3. BodyLength \in Nat
  BY <1>2 DEF BodyLength, Byte
<1>4. /\ Read(BodyLength) \in Seq(Byte) /\ LeftOver(BodyLength) \in Seq(Byte)
      /\ Len(Read(BodyLength)) = IF Len(line) < BodyLength THEN Len(line) ELSE BodyLength
  BY <1>1, <1>3, ReadIs
<1> DEFINE d == header \o Read(BodyLength)
<1>5. d \in Seq(Byte) /\ Len(d) = 3 + Len(Read(BodyLength)) /\ Len(Read(BodyLength)) \in Nat
  <2>1. d \in Seq(Byte) /\ Len(d) = Len(header) + Len(Read(BodyLength)) /\ Len(Read(BodyLength)) \in Nat
    BY <1>1, <1>4, ConcatBytes
  <2> HIDE DEF d
  <2> QED
    BY <1>1, <2>1
<1>6. received_data = IF force_crc_error THEN force_incorrect_crc(d) ELSE d
  BY DEF received_data
<1> HIDE DEF d
<1>7. force_incorrect_crc(d) \in Seq(Byte)
  <2>1. Len(d) \in 1..Len(d) /\ Len(d) \in DOMAIN d
    BY <1>5, LenProperties
  <2>2. d[Len(d)] \in Byte
    BY <1>5, <2>1, ElementOfSeq
  <2>3. 255 - d[Len(d)] \in Byte
    <3> DEFINE x == d[Len(d)]
    <3> HIDE DEF x
    <3>1. x \in Byte
      BY <2>2 DEF x
    <3>2. 255 - x \in Byte
      BY <3>1 DEF Byte
    <3> QED
      BY <3>2 DEF x
  <2>4. force_incorrect_crc(d) = [d EXCEPT ![Len(d)] = 255 - d[Len(d)]]
    BY DEF force_incorrect_crc
  <2> QED
    BY <1>5, <2>1, <2>3, <2>4, ExceptSeq
<1>8. received_data \in Seq(Byte)
  BY <1>5, <1>6, <1>7
<1> QED
  BY <1>2, <1>3, <1>4, <1>5, <1>8 DEF d

\* What saves that may fail leave: the files hold words, and a key that they
\* have not cost is as the fields say.
LEMMA LeftType ==
  ASSUME NEW contents \in Contents, NEW r \in Seq(Field), NEW outcome
  PROVE  Left(contents, r, outcome) \in Contents
<1>1. DOMAIN r = 1..Len(r)
  BY LenProperties
<1>2. ASSUME NEW k \in Keys PROVE Left(contents, r, outcome)[k] \in Word \cup {NoValue}
  <2> DEFINE good == SavedBy(k, r, outcome)
             torn == TornBy(k, r, outcome)
             i == Max(good \cup torn)
  <2>1. CASE good \cup torn = {}
    BY <2>1 DEF Left, Contents
  <2>2. CASE good \cup torn # {} /\ i \in good
    <3>1. i \in 1..Len(r)
      BY <1>1, <2>2 DEF SavedBy
    <3>2. r[i].value \in Word
      <4>1. r[i] \in Field
        BY <3>1, ElementOfSeq
      <4> HIDE DEF i
      <4> QED
        BY <4>1 DEF Field
    <3>3. Left(contents, r, outcome)[k] = r[i].value
      BY <2>2 DEF Left
    <3> QED
      BY <3>2, <3>3
  <2>3. CASE good \cup torn # {} /\ i \notin good
    BY <2>3 DEF Left
  <2> QED
    BY <2>1, <2>2, <2>3
<1> QED
  BY <1>2 DEF Left, Contents

LEMMA SavesType ==
  ASSUME RetryTypeOK, NEW r \in Seq(Field), save_data_to_file(r)
  PROVE  store' \in Contents /\ missed' \subseteq Keys /\ faults' \in 0..MaxFaults
<1> DEFINE bad(outcome) == {i \in DOMAIN r : outcome[i] # "saved"}
<1>1. PICK outcome \in [DOMAIN r -> Outcomes] :
        /\ faults + Cardinality(bad(outcome)) <= MaxFaults
        /\ faults' = faults + Cardinality(bad(outcome))
        /\ store' = Left(store, r, outcome) /\ missed' = StillMissed(r, outcome)
  BY DEF save_data_to_file
<1>2. Cardinality(bad(outcome)) \in Nat
  <2>1. IsFiniteSet(1..Len(r)) /\ DOMAIN r = 1..Len(r)
    BY LenProperties, FS_Interval
  <2>2. IsFiniteSet(bad(outcome))
    BY <2>1, FS_Subset
  <2> QED
    BY <2>2, FS_CardinalityType
<1>3. faults' \in 0..MaxFaults
  <2> DEFINE c == Cardinality(bad(outcome))
  <2> HIDE DEF c
  <2>1. c \in Nat /\ faults + c <= MaxFaults /\ faults' = faults + c
    BY <1>1, <1>2 DEF c
  <2> QED
    BY <2>1, RetryAssumption DEF RetryTypeOK
<1>4. store' \in Contents
  BY <1>1, LeftType DEF RetryTypeOK
<1> QED
  BY <1>1, <1>3, <1>4 DEF StillMissed

\* What is received goes behind the unread bytes.
LEMMA ArrivesOnLine ==
  ASSUME RetryTypeOK, NEW q \in Reports, Arrives(ReportPacket(q))
  PROVE  \E t \in Seq(Byte) :
           /\ ArrivesAs(q, t, noise, noise') /\ t # <<>>
           /\ line' = line \o t /\ line' \in Seq(Byte)
<1>1. PICK t : ArrivesAs(q, t, noise, noise') /\ line' = line \o t
  <2>1. CASE line' = line \o ReportPacket(q) /\ UNCHANGED noise
    BY <2>1 DEF ArrivesAs
  <2>2. CASE /\ noise < MaxNoise /\ noise' = noise + 1
             /\ \E i \in NoisyBytes \cap DOMAIN ReportPacket(q), m \in Masks :
                  line' = line \o [ReportPacket(q) EXCEPT ![i] = Flip(@, m)]
    BY <2>2 DEF ArrivesAs
  <2> QED
    BY <2>1, <2>2 DEF Arrives
<1>2. t \in Seq(Byte) /\ Len(t) = Len(ReportPacket(q))
  BY <1>1, ArrivesIs
<1>3. Len(t) # 0
  BY <1>2, PacketMarks
<1>4. t # <<>>
  BY <1>3, EmptySeq
<1>5. line' \in Seq(Byte)
  BY <1>1, <1>2, ConcatBytes DEF RetryTypeOK
<1> QED
  BY <1>1, <1>2, <1>4, <1>5

LEMMA RetriedType ==
  ASSUME RetryTypeOK, pc # "sleep", NEW n \in {retries + 1, retries + 2}, Retried(n)
  PROVE  /\ pc' \in {"header", "sleep"} /\ header' \in Seq(Byte) /\ Len(header') = 0
         /\ retries' \in 0..MaxRetries + 1 /\ (pc' # "sleep" => retries' < MaxRetries)
         /\ header' = <<>>
<1>1. retries \in Nat /\ retries < MaxRetries /\ MaxRetries \in Nat
  BY RetryAssumption DEF RetryTypeOK
<1>2. <<>> \in Seq(Byte) /\ Len(<<>>) = 0
  BY EmptySeq
<1> QED
  BY <1>1, <1>2 DEF Retried

LEMMA InitRetry == RetryInit => RetryInv
<1> SUFFICES ASSUME RetryInit PROVE RetryInv
  OBVIOUS
<1>1. <<>> \in Seq(Byte) /\ Len(<<>>) = 0
  BY EmptySeq
<1>2. store \in Contents
  BY DEF RetryInit, Contents
<1>3. /\ line \in Seq(Byte)
      /\ (line = <<>> /\ last = <<>> /\ sent = 0) \/ (last \in Reports /\ sent = 1)
  <2>1. CASE line = <<>> /\ last = <<>> /\ sent = 0
    BY <1>1, <2>1
  <2>2. CASE \E r \in Reports : \E i \in 2..Len(ReportPacket(r)) :
               /\ line = SubSeq(ReportPacket(r), i, Len(ReportPacket(r)))
               /\ last = r /\ sent = 1
    <3>1. PICK r \in Reports : \E i \in 2..Len(ReportPacket(r)) :
               /\ line = SubSeq(ReportPacket(r), i, Len(ReportPacket(r)))
               /\ last = r /\ sent = 1
      BY <2>2
    <3>2. PICK i \in 2..Len(ReportPacket(r)) :
               /\ line = SubSeq(ReportPacket(r), i, Len(ReportPacket(r)))
               /\ last = r /\ sent = 1
      BY <3>1
    <3>3. ReportPacket(r) \in Seq(Byte) /\ i \in 1..Len(ReportPacket(r)) + 1
      BY PacketMarks
    <3>4. From(ReportPacket(r), i) \in Seq(Byte)
      BY <3>3, FromIs
    <3>5. line \in Seq(Byte)
      BY <3>2, <3>4, Zenon DEF From
    <3> QED
      BY <3>2, <3>5
  <2> QED
    BY <2>1, <2>2 DEF RetryInit
<1>4. MaxRetries \in Nat \ {0} /\ MaxReports \in Nat \ {0} /\ MaxNoise \in Nat /\ MaxFaults \in Nat
  BY RetryAssumption
<1>5. RetryTypeOK
  <2>1. sent \in 0..MaxReports
        /\ noise \in 0..MaxNoise /\ faults \in 0..MaxFaults
        /\ retries \in 0..MaxRetries + 1 /\ retries < MaxRetries
    BY <1>3, <1>4 DEF RetryInit
  <2>2. /\ pc \in {"header", "body", "sleep"} /\ asked \in Nat /\ dropped \in BOOLEAN
        /\ force_crc_error \in BOOLEAN /\ missed \subseteq Keys
    BY DEF RetryInit
  <2>3. header \in Seq(Byte) /\ Len(header) = IF pc = "body" THEN 3 ELSE 0
    BY <1>1 DEF RetryInit
  <2> QED
    BY <1>1, <1>2, <1>3, <2>1, <2>2, <2>3, Zenon DEF RetryTypeOK
<1>6. LastSent
  <2>1. line = <<>> => Unread = <<>>
    BY <1>1, ConcatEmptySeq DEF RetryInit, Unread
  <2> QED
    BY <1>3, <2>1 DEF RetryInit, LastSent
<1> QED
  BY <1>5, <1>6 DEF RetryInv

LEMMA UnreadIs ==
  ASSUME RetryTypeOK
  PROVE  /\ Unread \in Seq(Byte) /\ (Unread = <<>> <=> pc # "body" /\ line = <<>>)
         /\ pc # "body" => header = <<>> /\ Unread = line
<1>1. header \in Seq(Byte) /\ line \in Seq(Byte) /\ Len(header) = IF pc = "body" THEN 3 ELSE 0
  BY DEF RetryTypeOK
<1>2. header = <<>> <=> pc # "body"
  <2>1. header = <<>> <=> Len(header) = 0
    BY <1>1, EmptySeq
  <2> QED
    BY <1>1, <2>1
<1> QED
  BY <1>1, <1>2, ConcatBytes, ConcatEmptySeq, ConcatEqualIffEmpty DEF Unread

LEMMA NextRetry == RetryInv /\ [RetryNext]_retryVars => RetryInv'
<1> SUFFICES ASSUME RetryInv, [RetryNext]_retryVars PROVE RetryInv'
  OBVIOUS
<1> USE DEF RetryInv
<1>0. /\ MaxRetries \in Nat \ {0} /\ MaxReports \in Nat /\ MaxNoise \in Nat /\ MaxFaults \in Nat
      /\ <<>> \in Seq(Byte) /\ Len(<<>>) = 0
  BY RetryAssumption, EmptySeq
<1>1. ASSUME NEW q \in Reports, Arrives(ReportPacket(q)), last' = q,
             UNCHANGED <<pc, force_crc_error, header, retries, storeVars, faults, dropped>>,
             sent' \in 0..MaxReports, asked' \in Nat
      PROVE  RetryInv'
  <2>1. PICK t \in Seq(Byte) : ArrivesAs(q, t, noise, noise') /\ line' \in Seq(Byte)
    BY <1>1, ArrivesOnLine
  <2>2. noise' \in 0..MaxNoise
    <3>1. noise \in 0..MaxNoise /\ (noise' = noise \/ (noise < MaxNoise /\ noise' = noise + 1))
      <4>1. noise' = noise \/ (noise < MaxNoise /\ noise' = noise + 1)
        BY <2>1, Zenon DEF ArrivesAs
      <4> QED
        BY <4>1 DEF RetryTypeOK
    <3> QED
      BY <1>0, <3>1
  <2>3. RetryTypeOK'
    BY <1>1, <2>1, <2>2 DEF RetryTypeOK, storeVars
  <2>4. LastSent'
    BY <1>1 DEF LastSent
  <2> QED
    BY <2>3, <2>4
<1>2. ASSUME NEW q \in Reports, Send(q) PROVE RetryInv'
  <2>1. sent' \in 0..MaxReports
    BY <1>0, <1>2 DEF Send, RetryTypeOK
  <2> QED
    BY <1>1, <1>2, <2>1 DEF Send, RetryTypeOK
<1>3. CASE Answer
  <2>1. last \in Reports
    BY <1>3 DEF Answer, LastSent
  <2>2. asked' \in Nat
    BY <1>3 DEF Answer, RetryTypeOK
  <2> QED
    BY <1>1, <1>3, <2>1, <2>2 DEF Answer, RetryTypeOK
<1>4. CASE LoseRequest
  <2>1. asked' \in Nat /\ faults' \in 0..MaxFaults
    BY <1>0, <1>4 DEF LoseRequest, RetryTypeOK, storeVars
  <2>2. RetryTypeOK'
    BY <1>4, <2>1 DEF LoseRequest, RetryTypeOK, storeVars
  <2>3. LastSent'
    BY <1>4 DEF LoseRequest, LastSent, Unread
  <2> QED
    BY <2>2, <2>3
<1>5. CASE ReadHeader
  <2>1. line \in Seq(Byte) /\ header = <<>> /\ Unread = line
    BY <1>5, UnreadIs DEF ReadHeader, RetryTypeOK, storeVars
  <2>2. /\ Read(3) \in Seq(Byte) /\ Len(Read(3)) = 3 /\ LeftOver(3) \in Seq(Byte)
        /\ line = Read(3) \o LeftOver(3)
    <3>1. 3 \in Nat /\ Len(line) \in Nat /\ ~(Len(line) < 3)
      BY <1>5, <2>1, LenProperties DEF ReadHeader
    <3>2. /\ Read(3) \in Seq(Byte) /\ Len(Read(3)) = (IF Len(line) < 3 THEN Len(line) ELSE 3)
          /\ LeftOver(3) \in Seq(Byte) /\ line = Read(3) \o LeftOver(3)
      BY <2>1, <3>1, ReadIs, Zenon
    <3> QED
      BY <3>1, <3>2, Zenon
  <2>3. RetryTypeOK'
    BY <1>5, <2>2 DEF ReadHeader, RetryTypeOK, storeVars
  <2>4. LastSent'
    BY <1>5, <2>1, <2>2 DEF ReadHeader, LastSent, Unread
  <2> QED
    BY <2>3, <2>4
<1>6. CASE ShortHeader
  <2>1. pc = "header" /\ Retried(retries + 1) /\ line' = <<>>
    BY <1>6 DEF ShortHeader
  <2>2. RetryTypeOK'
    BY <1>0, <1>6, <2>1, RetriedType DEF ShortHeader, RetryTypeOK, storeVars
  <2>3. Unread' = <<>>
    BY <1>0, <2>1, <2>2, RetriedType, ConcatEmptySeq DEF Unread
  <2>4. LastSent'
    BY <1>6, <2>3 DEF ShortHeader, LastSent
  <2> QED
    BY <2>2, <2>4
<1>7. ASSUME ReadBody PROVE last \in Reports /\ LeftOver(BodyLength) \in Seq(Byte)
  <2>1. pc = "body"
    BY <1>7 DEF ReadBody
  <2>2. Unread # <<>>
    BY <2>1, UnreadIs
  <2> QED
    BY <2>1, <2>2, ReceivedIs DEF LastSent
<1>8. CASE Process
  <2>1. pc = "body" /\ ReadBody /\ line' = LeftOver(BodyLength)
    BY <1>8 DEF Process, ReadBody
  <2>2. CASE Extractable(received_data, header[3])
    <3>1. extract_data_fields(received_data, header[3]) \in Seq(Field)
      BY <2>1, <2>2, ReceivedIs, ByteIsNat, FieldsType
    <3>2. store' \in Contents /\ missed' \subseteq Keys /\ faults' \in 0..MaxFaults
      BY <1>8, <2>2, <3>1, SavesType DEF Process
    <3>3. RetryTypeOK'
      BY <1>0, <1>7, <1>8, <2>1, <2>2, <3>2 DEF Process, RetryTypeOK
    <3> QED
      BY <1>7, <1>8, <2>1, <3>3 DEF Process, LastSent
  <2>3. CASE ~Extractable(received_data, header[3])
    <3>1. Retried(retries + 1)
      BY <1>8, <2>3 DEF Process
    <3>2. RetryTypeOK'
      BY <1>7, <1>8, <2>1, <2>3, <3>1, RetriedType DEF Process, RetryTypeOK, storeVars
    <3> QED
      BY <1>7, <1>8, <2>1, <3>2 DEF Process, LastSent
  <2> QED
    BY <2>2, <2>3
<1>9. CASE Request
  <2>1. pc = "body" /\ ReadBody /\ line' = LeftOver(BodyLength) /\ Retried(retries + 1)
    BY <1>9 DEF Request, ReadBody
  <2>2. asked' \in Nat
    BY <1>9 DEF Request, RetryTypeOK, storeVars
  <2>3. RetryTypeOK'
    BY <1>7, <1>9, <2>1, <2>2, RetriedType DEF Request, RetryTypeOK, storeVars
  <2> QED
    BY <1>7, <1>9, <2>1, <2>3 DEF Request, LastSent
<1>10. CASE RequestFails
  <2>1. pc = "body" /\ ReadBody /\ line' = LeftOver(BodyLength) /\ Retried(retries + 2)
    BY <1>10 DEF RequestFails, ReadBody
  <2>2. faults' \in 0..MaxFaults
    BY <1>0, <1>10 DEF RequestFails, RetryTypeOK, storeVars
  <2>3. RetryTypeOK'
    BY <1>7, <1>10, <2>1, <2>2, RetriedType DEF RequestFails, RetryTypeOK, storeVars
  <2> QED
    BY <1>7, <1>10, <2>1, <2>3 DEF RequestFails, LastSent
<1>11. CASE CallAgain
  <2>1. RetryTypeOK'
    BY <1>0, <1>11 DEF CallAgain, RetryTypeOK, storeVars
  <2> QED
    BY <1>11, <2>1 DEF CallAgain, LastSent, Unread
<1>12. CASE UNCHANGED retryVars
  BY <1>12 DEF retryVars, storeVars, RetryTypeOK, LastSent, Unread
<1> QED
  BY <1>2, <1>3, <1>4, <1>5, <1>6, <1>8, <1>9, <1>10, <1>11, <1>12 DEF RetryNext, receive_data

\* The types of the prototype are kept; in particular a try beyond
\* MAX_RETRIES ends the call of receive_data.
THEOREM RetryTypeCorrect == RetrySpec => []RetryTypeOK
<1>1. RetryInv => RetryTypeOK
  BY DEF RetryInv
<1> QED
  BY <1>1, InitRetry, NextRetry, PTL DEF RetrySpec

-----------------------------------------------------------------------------
(* The prototype: what is unread, and what the files hold.                 *)

\* Wherever reads begin, the unread bytes end with the packet sent last.
UnreadInv == Anywhere(Unread, last, noise)

\* With nothing unread and nothing asked for, the files hold that packet.
Current    == \A k \in Keys \ missed : store[k] = Stored(store, last)[k]
CurrentInv == Unread = <<>> /\ asked = 0 /\ ~dropped => Current

LEMMA AnywhereInNothing == \A p, n : Anywhere(<<>>, p, n)
<1>1. Len(<<>>) = 0
  BY EmptySeq
<1>2. 1..0 = {}
  OBVIOUS
<1> QED
  BY <1>1, <1>2 DEF Anywhere

\* The last field of a key was saved, and its file not emptied since, when
\* the saves have not cost that key.
LEMMA SavedLast ==
  ASSUME NEW r \in Seq(Field), NEW outcome \in [DOMAIN r -> Outcomes],
         NEW contents, NEW k \in Keys, k \notin StillMissed(r, outcome),
         NEW i \in DOMAIN r, LastMapped(k, r, i)
  PROVE  Left(contents, r, outcome)[k] = r[i].value
<1> DEFINE good == SavedBy(k, r, outcome)
           torn == TornBy(k, r, outcome)
           failed == FailedBy(k, r, outcome)
           most == Max(good \cup torn)
<1>1. /\ DOMAIN r = 1..Len(r) /\ Len(r) \in Nat /\ i \in Int
      /\ Mapped(r[i]) /\ KeyOf(r[i]) = k
      /\ \A j \in DOMAIN r : Mapped(r[j]) /\ KeyOf(r[j]) = k => j <= i
  <2>1. DOMAIN r = 1..Len(r) /\ Len(r) \in Nat
    BY LenProperties
  <2> QED
    BY <2>1 DEF LastMapped
<1>2. \A j \in torn \cup failed : ~(\A l \in good : l < j)
  BY DEF StillMissed
<1>3. \A j \in good : j <= i /\ j \in Int /\ outcome[j] = "saved" /\ j \in DOMAIN r
  BY <1>1 DEF SavedBy
<1>4. \A j \in torn : j \in DOMAIN r /\ j \in Int /\ outcome[j] = "torn"
  BY <1>1 DEF TornBy
<1>5. i \in good
  <2>1. outcome[i] \in Outcomes
    OBVIOUS
  <2>2. CASE outcome[i] = "saved"
    BY <1>1, <2>2 DEF SavedBy
  <2>3. CASE outcome[i] = "failed"
    <3>1. i \in failed
      BY <1>1, <2>3 DEF FailedBy
    <3>2. \A j \in good : j # i
      BY <1>3, <2>3
    <3>3. \A j \in good : j < i
      <4> HIDE DEF good
      <4> QED
        BY <1>1, <1>3, <3>2
    <3> QED
      BY <1>2, <3>1, <3>3
  <2>4. CASE outcome[i] = "torn"
    <3>1. i \in torn
      BY <1>1, <2>4 DEF TornBy, SameFile
    <3>2. \A j \in good : j # i
      BY <1>3, <2>4
    <3>3. \A j \in good : j < i
      <4> HIDE DEF good
      <4> QED
        BY <1>1, <1>3, <3>2
    <3> QED
      BY <1>2, <3>1, <3>3
  <2> QED
    BY <2>1, <2>2, <2>3, <2>4 DEF Outcomes
<1> HIDE DEF good, torn, failed
<1>6. most \in good \cup torn /\ \A j \in good \cup torn : most >= j
  <2>1. good \cup torn \subseteq 1..Len(r) /\ good \cup torn # {}
    BY <1>1, <1>3, <1>4, <1>5
  <2>2. \E x \in good \cup torn : \A y \in good \cup torn : y <= x
    BY <1>1, <2>1, Largest
  <2>3. \E x \in good \cup torn : \A y \in good \cup torn : x >= y
    BY <1>1, <2>1, <2>2
  <2> QED
    BY <2>3 DEF Max
<1>7. most \in good
  <2> SUFFICES ASSUME most \in torn PROVE FALSE
    BY <1>6
  <2>1. PICK l \in good : ~(l < most)
    BY <1>2
  <2>2. most \in Int /\ l \in Int /\ l <= i /\ most >= i
    BY <1>3, <1>4, <1>5, <1>6
  <2>3. most = i
    <3> HIDE DEF most
    <3> QED
      BY <1>1, <2>1, <2>2
  <2>4. outcome[i] = "torn" /\ outcome[i] = "saved"
    BY <1>3, <1>4, <1>5, <2>3
  <2> QED
    BY <2>4
<1>8. most = i
  <2>1. most \in Int /\ most <= i /\ most >= i
    BY <1>3, <1>5, <1>6, <1>7
  <2> HIDE DEF most
  <2> QED
    BY <1>1, <2>1
<1>9. Left(contents, r, outcome)[k] = r[most].value
  BY <1>5, <1>7 DEF Left, good, torn
<1> QED
  BY <1>8, <1>9

\* So the files are as the packet says.
LEMMA SavesCurrent ==
  ASSUME NEW r \in Seq(Field), save_data_to_file(r)
  PROVE  \A k \in Keys \ missed' : store'[k] = Stored(store', r)[k]
<1>1. PICK outcome \in [DOMAIN r -> Outcomes] :
        store' = Left(store, r, outcome) /\ missed' = StillMissed(r, outcome)
  BY DEF save_data_to_file
<1> SUFFICES ASSUME NEW k \in Keys, k \notin missed' PROVE store'[k] = Stored(store', r)[k]
  OBVIOUS
<1>2. CASE \E i \in DOMAIN r : LastMapped(k, r, i)
  <2> DEFINE i == CHOOSE i \in DOMAIN r : LastMapped(k, r, i)
  <2>1. i \in DOMAIN r /\ LastMapped(k, r, i)
    BY <1>2
  <2>2. Stored(store', r)[k] = r[i].value
    BY <1>2 DEF Stored
  <2> HIDE DEF i
  <2>3. store'[k] = r[i].value
    BY <1>1, <2>1, SavedLast
  <2> QED
    BY <2>2, <2>3
<1>3. CASE ~ \E i \in DOMAIN r : LastMapped(k, r, i)
  BY <1>3 DEF Stored
<1> QED
  BY <1>2, <1>3

LEMMA StoredNothing ==
  ASSUME NEW contents \in Contents PROVE Stored(contents, <<>>) = contents
<1>1. DOMAIN <<>> = {}
  OBVIOUS
<1>2. ASSUME NEW k \in Keys PROVE Stored(contents, <<>>)[k] = contents[k]
  BY <1>1 DEF Stored
<1> QED
  BY <1>2 DEF Stored, Contents

LEMMA InitUnread == QuantityShows /\ RetryInit /\ RetryTypeOK => UnreadInv /\ CurrentInv
<1> SUFFICES ASSUME QuantityShows, RetryInit, RetryTypeOK PROVE UnreadInv /\ CurrentInv
  OBVIOUS
<1>1. Unread = line /\ noise = 0
  BY UnreadIs DEF RetryInit
<1>2. CASE line = <<>> /\ last = <<>>
  <2>1. store \in Contents
    BY DEF RetryTypeOK
  <2>2. store = Stored(store, last)
    BY <1>2, <2>1, StoredNothing
  <2> QED
    BY <1>1, <1>2, <2>2, AnywhereInNothing DEF UnreadInv, CurrentInv, Current
<1>3. CASE \E r \in Reports : \E i \in 2..Len(ReportPacket(r)) :
             line = SubSeq(ReportPacket(r), i, Len(ReportPacket(r))) /\ last = r
  <2>1. PICK r \in Reports : \E i \in 2..Len(ReportPacket(r)) :
          line = SubSeq(ReportPacket(r), i, Len(ReportPacket(r))) /\ last = r
    BY <1>3
  <2>2. PICK i \in 2..Len(ReportPacket(r)) :
          line = SubSeq(ReportPacket(r), i, Len(ReportPacket(r))) /\ last = r
    BY <2>1
  <2> DEFINE P == ReportPacket(r)
  <2>3. P \in Seq(Byte) /\ Len(P) \in Nat /\ i \in Int /\ 2 <= i /\ i <= Len(P)
    BY PacketMarks, LenProperties
  <2>4. ArrivesAs(r, P, 0, 0) /\ <<>> \in Seq(Byte) /\ <<>> \o P = P /\ 0 \in Nat
    BY <2>3, EmptySeq, ConcatEmptySeq DEF ArrivesAs
  <2>5. Anywhere(<<>> \o P, r, 0)
    <3> HIDE DEF P
    <3> QED
      BY <2>4, AnywhereInNothing, AnywhereWithPacket
  <2>6. Anywhere(P, r, 0)
    BY <2>4, <2>5
  <2>7. i - 1 \in 0..Len(P) /\ (i - 1) + 1 = i
    BY <2>3
  <2>8. Anywhere(From(P, (i - 1) + 1), r, 0)
    <3> HIDE DEF P
    <3> QED
      BY <2>3, <2>6, <2>7, AnywhereInRest
  <2>9. line = From(P, i) /\ From(P, (i - 1) + 1) = From(P, i)
    BY <2>2, <2>7 DEF From
  <2>10. line # <<>>
    <3>1. i \in 1..Len(P) + 1 /\ Len(P) - i + 1 # 0
      BY <2>3
    <3>2. Len(From(P, i)) = Len(P) - i + 1
      BY <2>3, <3>1, FromIs
    <3> QED
      BY <2>9, <3>1, <3>2, EmptySeq
  <2> QED
    BY <1>1, <2>2, <2>8, <2>9, <2>10 DEF UnreadInv, CurrentInv
<1> QED
  BY <1>2, <1>3 DEF RetryInit

\* A packet that arrives.
LEMMA ArrivesUnread ==
  ASSUME QuantityShows, RetryTypeOK, UnreadInv, NEW q \in Reports, Arrives(ReportPacket(q)),
         last' = q, UNCHANGED header
  PROVE  UnreadInv' /\ CurrentInv'
<1>1. PICK t \in Seq(Byte) : /\ ArrivesAs(q, t, noise, noise') /\ t # <<>>
                             /\ line' = line \o t
  BY ArrivesOnLine
<1>2. header \in Seq(Byte) /\ line \in Seq(Byte) /\ Unread \in Seq(Byte) /\ noise \in Nat
  BY UnreadIs DEF RetryTypeOK
<1>3. Unread' = Unread \o t
  <2>1. Unread' = header \o (line \o t)
    BY <1>1 DEF Unread
  <2>2. (header \o line) \o t = header \o (line \o t)
    <3>1. \A a, b, c \in Seq(Byte) : (a \o b) \o c = a \o (b \o c)
      BY ConcatAssociative
    <3> QED
      BY <1>2, <3>1, SMTT(30)
  <2> QED
    BY <2>1, <2>2 DEF Unread
<1>4. Anywhere(Unread \o t, q, noise')
  BY <1>1, <1>2, AnywhereWithPacket DEF UnreadInv
<1>5. Unread' # <<>>
  BY <1>1, <1>2, <1>3, ConcatEqualIffEmpty
<1> QED
  BY <1>3, <1>4, <1>5 DEF UnreadInv, CurrentInv

\* A read of a body, whatever is done with it.
LEMMA BodyUnread ==
  ASSUME RetryTypeOK, UnreadInv, ReadBody, header' = <<>>, UNCHANGED <<last, noise>>
  PROVE  /\ UnreadInv' /\ Unread' = line'
         /\ line' = <<>> => header \o Read(BodyLength) = Unread
<1>1. /\ pc = "body" /\ line' = LeftOver(BodyLength)
      /\ header \in Seq(Byte) /\ Len(header) = 3 /\ line \in Seq(Byte)
  BY DEF ReadBody, RetryTypeOK
<1>2. BodyLength \in Nat /\ line' \in Seq(Byte)
  BY <1>1, ReceivedIs
<1>3. Unread' = line'
  BY <1>2, ConcatEmptySeq DEF Unread
<1> DEFINE b == BodyLength
<1>4. CASE b < Len(line)
  <2>1. line' = From(line, b + 1) /\ Len(line) \in Nat
    BY <1>1, <1>2, <1>4, ReadIs, LenProperties
  <2>2. b + 1 \in 1..Len(line) /\ b + 1 \in 1..Len(line) + 1
    BY <1>2, <1>4, <2>1
  <2>3. line' = From(Unread, Len(header) + (b + 1))
    <3> HIDE DEF b
    <3> QED
      BY <1>1, <2>1, <2>2, FromConcat DEF Unread
  <2>4. line' # <<>>
    <3>1. Len(line') = Len(line) - (b + 1) + 1
      BY <1>1, <2>1, <2>2, FromIs
    <3>2. Len(line') # 0
      BY <1>2, <1>4, <2>1, <3>1
    <3> QED
      BY <3>2, EmptySeq
  <2>5. Unread \in Seq(Byte) /\ Len(Unread) = 3 + Len(line)
    <3>1. Unread \in Seq(Byte) /\ Len(Unread) = Len(header) + Len(line)
      BY <1>1, ConcatBytes DEF Unread
    <3> QED
      BY <1>1, <3>1
  <2>6. 3 + b \in 0..Len(Unread) /\ Len(header) + (b + 1) = (3 + b) + 1
    BY <1>1, <1>2, <1>4, <2>1, <2>5
  <2>7. Anywhere(line', last, noise)
    BY <2>3, <2>5, <2>6, AnywhereInRest DEF UnreadInv
  <2> QED
    BY <1>3, <2>4, <2>7 DEF UnreadInv
<1>5. CASE ~(b < Len(line))
  <2>1. b >= Len(line)
    BY <1>1, <1>2, <1>5, LenProperties
  <2>2. line' = <<>> /\ Read(b) = line
    BY <1>1, <1>2, <2>1, ReadIs
  <2> QED
    BY <1>3, <2>2, AnywhereInNothing DEF UnreadInv, Unread
<1> QED
  BY <1>4, <1>5

\* Marks that are the bits, apart from noise, are not noise alone.
LEMMA ShownBits ==
  ASSUME NEW bits \in SUBSET (0..7), Shows(bits), noise \in 0..MaxNoise
  PROVE  ~(Cardinality(bits) <= noise /\ \A b \in bits : 2^b \in Masks)
<1>1. IsFiniteSet(0..7)
  <2>1. 0 \in Int /\ 7 \in Int
    OBVIOUS
  <2> QED
    BY <2>1, FS_Interval, Zenon
<1>2. Cardinality(bits) \in Nat
  BY <1>1, FS_Subset, FS_CardinalityType
<1>3. noise \in Nat /\ noise <= MaxNoise /\ MaxNoise \in Nat
  BY RetryAssumption
<1> QED
  BY <1>2, <1>3 DEF Shows

\* Bytes that are all there is and count as good have no bit marked or, when
\* main spoils the checksum on purpose, all of them; so they begin where a
\* packet does, and the switch is off.
LEMMA BeginsAtPacket ==
  ASSUME SplitsShow, NEW u \in Seq(Byte), NEW p, Begins(u, 1, p, noise),
         noise \in 0..MaxNoise, Marks(u) = {} \/ Marks(u) = 0..7
  PROVE  Marks(u) = {} /\ AtPacket(u, 1, p, noise)
<1>1. From(u, 1) = u
  BY SubSeqFull DEF From
<1>2. ~InsideAt(u, 1, noise)
  <2> SUFFICES ASSUME InsideAt(u, 1, noise) PROVE FALSE
    OBVIOUS
  <2> DEFINE noisy(r, i) == Differ(Marks(From(u, 1)), Marks(SubSeq(ReportPacket(r), 1, i)))
             before(r, i) ==
               {b \in 0..7 : Bit(calculate_checksum(SubSeq(ReportPacket(r), 1, i)), b) = 1}
  <2>1. PICK r \in Reports : \E i \in 1..Len(ReportPacket(r)) - 1 :
          Cardinality(noisy(r, i)) <= noise /\ \A b \in noisy(r, i) : 2^b \in Masks
    BY DEF InsideAt
  <2>2. PICK i \in 1..Len(ReportPacket(r)) - 1 :
          Cardinality(noisy(r, i)) <= noise /\ \A b \in noisy(r, i) : 2^b \in Masks
    BY <2>1
  <2>3. SubSeq(ReportPacket(r), 1, i) \in Seq(Byte)
    <3>1. ReportPacket(r) \in Seq(Byte) /\ i \in 1..Len(ReportPacket(r))
      BY PacketMarks, LenProperties
    <3> QED
      BY <3>1, SplitAt
  <2>4. Marks(SubSeq(ReportPacket(r), 1, i)) = before(r, i)
    BY <2>3, ChecksumMarks, MarksType
  <2>5. Shows(before(r, i)) /\ Shows((0..7) \ before(r, i))
    BY DEF SplitsShow
  <2>6. /\ noisy(r, i) \in SUBSET (0..7)
        /\ noisy(r, i) = before(r, i) \/ noisy(r, i) = (0..7) \ before(r, i)
    <3>1. noisy(r, i) = Differ(Marks(u), before(r, i))
      BY <1>1, <2>4
    <3> DEFINE A == before(r, i)
    <3>2. A \in SUBSET (0..7)
      OBVIOUS
    <3> HIDE DEF A
    <3>3. Differ({}, A) = A /\ Differ(0..7, A) = (0..7) \ A
      BY <3>2 DEF Differ
    <3>4. noisy(r, i) = A \/ noisy(r, i) = (0..7) \ A
      BY <3>1, <3>3 DEF A
    <3> QED
      BY <3>2, <3>4 DEF A
  <2> HIDE DEF noisy, before
  <2> QED
    BY <2>2, <2>5, <2>6, ShownBits
<1>3. AtPacket(u, 1, p, noise)
  BY <1>2 DEF Begins
<1>4. Marks(u) # 0..7
  <2>1. Shows(0..7) /\ NoiseOnly(u, 1, noise)
    BY <1>3 DEF SplitsShow, AtPacket
  <2>2. 0..7 \in SUBSET (0..7)
    OBVIOUS
  <2> QED
    BY <1>1, <2>1, <2>2, ShownBits DEF NoiseOnly
<1> QED
  BY <1>3, <1>4

\* Such bytes are the packet that was sent last.
LEMMA AcceptedIsLast ==
  ASSUME SplitsShow, RetryInv, UnreadInv, pc = "body", header \o Read(BodyLength) = Unread,
         Good, Extractable(received_data, header[3])
  PROVE  /\ last \in Reports /\ header[3] = Len(last)
         /\ received_data = Unread /\ Unread = ReportPacket(last)
<1> DEFINE u == Unread
<1>1. /\ header \in Seq(Byte) /\ Len(header) = 3 /\ line \in Seq(Byte) /\ noise \in 0..MaxNoise
      /\ u \in Seq(Byte) /\ last \in Reports
  <2>1. RetryTypeOK /\ LastSent
    BY DEF RetryInv
  <2>2. u \in Seq(Byte) /\ u # <<>>
    BY <2>1, UnreadIs
  <2> QED
    BY <2>1, <2>2 DEF RetryTypeOK, LastSent
<1>2. /\ header[3] \in Byte /\ u[3] = header[3]
      /\ Len(u) = 3 + (IF Len(line) < BodyLength THEN Len(line) ELSE BodyLength)
  <2>1. 3 \in 1..Len(header)
    BY <1>1
  <2>2. u[3] = header[3]
    BY <1>1, <2>1, ConcatBytes DEF Unread
  <2>3. RetryTypeOK
    BY DEF RetryInv
  <2> QED
    BY <2>2, <2>3, ReceivedIs
<1>3. Len(u) \in Nat /\ 3 <= Len(u) /\ Len(u) <= 4 + 4 * u[3] /\ u[3] \in Nat
  <2>1. BodyLength = 4 * u[3] + 1 /\ u[3] \in Nat /\ Len(line) \in Nat
    BY <1>1, <1>2, ByteIsNat, LenProperties DEF BodyLength
  <2> HIDE DEF u
  <2> QED
    BY <1>2, <2>1
<1>4. received_data = IF force_crc_error THEN force_incorrect_crc(u) ELSE u
  BY DEF received_data
<1>5. (~force_crc_error /\ Marks(u) = {}) \/ (force_crc_error /\ Marks(u) = 0..7)
  <2> HIDE DEF u
  <2>1. Len(u) >= 1
    BY <1>3
  <2>2. CASE force_crc_error
    BY <1>1, <1>4, <2>1, <2>2, ForcedMarks DEF Good
  <2>3. CASE ~force_crc_error
    BY <1>1, <1>4, <2>1, <2>3, GoodMarks DEF Good
  <2> QED
    BY <2>2, <2>3
<1>6. Begins(u, 1, last, noise)
  BY <1>3 DEF UnreadInv, Anywhere
<1>7. Marks(u) = {} /\ AtPacket(u, 1, last, noise) /\ received_data = u
  <2> HIDE DEF u
  <2>1. Marks(u) = {} /\ AtPacket(u, 1, last, noise)
    BY <1>1, <1>5, <1>6, BeginsAtPacket
  <2>2. 0 \in 0..7
    OBVIOUS
  <2>3. ~force_crc_error
    BY <1>5, <2>1, <2>2
  <2> QED
    BY <1>4, <2>1, <2>3
<1>8. From(u, 1) = u /\ ~ChangedAt(u, 1, noise)
  BY <1>1, <1>7, SubSeqFull DEF From, ChangedAt
<1>9. ~AstrayAt(u, 1)
  <2> SUFFICES ASSUME AstrayAt(u, 1) PROVE FALSE
    OBVIOUS
  <2>1. PICK d \in Byte \ {0}, y \in Nat :
          /\ Len(u) - 1 + 1 = 4 * y /\ y % d = 0 /\ (1 + u[1 + 2]) % d # 0
    BY DEF AstrayAt
  <2>2. Len(u) >= 3 + 4 * u[3]
    BY <1>2, <1>7 DEF Extractable
  <2> HIDE DEF u
  <2>3. y = 1 + u[3] /\ 1 + 2 = 3
    BY <1>3, <2>1, <2>2
  <2> QED
    BY <2>1, <2>3
<1>10. PacketAt(u, 1, last)
  BY <1>7, <1>8, <1>9 DEF AtPacket
<1>11. u = ReportPacket(last)
  <2>1. 1 + 2 = 3 /\ 1 + 3 + 4 * u[1 + 2] <= Len(u)
    BY <1>10 DEF PacketAt
  <2>2. 1 + 3 + 4 * u[1 + 2] = Len(u)
    <3> HIDE DEF u
    <3> QED
      BY <1>3, <2>1
  <2> QED
    BY <1>7, <1>8, <1>10, <2>2 DEF PacketAt
<1>12. header[3] = Len(last)
  <2>1. ReportPacket(last)[3] = Len(last)
    BY <1>1, PacketMarks
  <2> QED
    BY <1>2, <1>11, <2>1
<1> QED
  BY <1>1, <1>7, <1>11, <1>12

LEMMA ProcessUnread ==
  ASSUME SplitsShow, RetryInv, UnreadInv, Process PROVE UnreadInv' /\ CurrentInv'
<1>1. ReadBody /\ pc = "body" /\ header' = <<>> /\ UNCHANGED <<last, noise, asked>>
      /\ Good /\ RetryTypeOK
  BY DEF Process, ReadBody, Retried, RetryInv
<1>2. /\ UnreadInv' /\ Unread' = line'
      /\ line' = <<>> => header \o Read(BodyLength) = Unread
  BY <1>1, BodyUnread
<1>3. ASSUME line' = <<>>, ~dropped' PROVE Current'
  <2>1. /\ Extractable(received_data, header[3])
        /\ save_data_to_file(extract_data_fields(received_data, header[3]))
    BY <1>3 DEF Process
  <2>2. /\ last \in Reports /\ header[3] = Len(last)
        /\ received_data = Unread /\ Unread = ReportPacket(last)
    BY <1>1, <1>2, <1>3, <2>1, AcceptedIsLast
  <2>3. last \in Seq(Field) /\ Len(last) \in Byte /\ ReportInfo \in Byte
    BY <2>2, SizeIs DEF ReportInfo, Byte
  <2>4. extract_data_fields(received_data, header[3]) = last
    BY <2>2, <2>3, RoundTrip, ReportPacketIs
  <2>5. \A k \in Keys \ missed' : store'[k] = Stored(store', last)[k]
    BY <2>1, <2>3, <2>4, SavesCurrent
  <2> QED
    BY <1>1, <2>5 DEF Current
<1> QED
  BY <1>2, <1>3 DEF CurrentInv

LEMMA NextUnread ==
  ASSUME SplitsShow, QuantityShows
  PROVE  RetryInv /\ UnreadInv /\ CurrentInv /\ [RetryNext]_retryVars => UnreadInv' /\ CurrentInv'
<1> SUFFICES ASSUME RetryInv, UnreadInv, CurrentInv, [RetryNext]_retryVars
             PROVE  UnreadInv' /\ CurrentInv'
  OBVIOUS
<1>0. RetryTypeOK /\ LastSent
  BY DEF RetryInv
<1>1. ASSUME NEW q \in Reports, Send(q) PROVE UnreadInv' /\ CurrentInv'
  BY <1>0, <1>1, ArrivesUnread DEF Send
<1>2. CASE Answer
  <2>1. last \in Reports
    BY <1>0, <1>2 DEF Answer, LastSent, RetryTypeOK
  <2> QED
    BY <1>0, <1>2, <2>1, ArrivesUnread DEF Answer
<1>3. CASE LoseRequest
  BY <1>3 DEF LoseRequest, UnreadInv, CurrentInv, Current, storeVars, Unread
<1>4. CASE ReadHeader
  <2>1. Unread = line /\ line \in Seq(Byte) /\ Len(line) \in Nat /\ ~(Len(line) < 3) /\ 3 \in Nat
    BY <1>0, <1>4, UnreadIs, LenProperties DEF ReadHeader, RetryTypeOK, storeVars
  <2>2. line = Read(3) \o LeftOver(3)
    BY <2>1, ReadIs, Zenon
  <2>3. Unread' = Unread
    BY <1>4, <2>1, <2>2 DEF ReadHeader, Unread
  <2> QED
    BY <1>4, <2>3 DEF ReadHeader, UnreadInv, CurrentInv, Current, storeVars
<1>5. CASE ShortHeader
  <2>1. header' = <<>> /\ line' = <<>> /\ dropped'
    BY <1>5 DEF ShortHeader, Retried
  <2>2. Unread' = <<>>
    BY <2>1, EmptySeq, ConcatEmptySeq DEF Unread
  <2> QED
    BY <2>1, <2>2, AnywhereInNothing DEF UnreadInv, CurrentInv
<1>6. CASE Process
  BY <1>6, ProcessUnread
<1>7. CASE Request
  <2>1. ReadBody /\ header' = <<>> /\ UNCHANGED <<last, noise>> /\ asked' = asked + 1
    BY <1>7 DEF Request, Retried
  <2>2. asked' # 0
    BY <1>0, <2>1 DEF RetryTypeOK
  <2> QED
    BY <1>0, <2>1, <2>2, BodyUnread DEF CurrentInv
<1>8. CASE RequestFails
  <2>1. ReadBody /\ header' = <<>> /\ UNCHANGED <<last, noise>> /\ dropped'
    BY <1>8 DEF RequestFails, Retried
  <2> QED
    BY <1>0, <2>1, BodyUnread DEF CurrentInv
<1>9. CASE CallAgain \/ UNCHANGED retryVars
  BY <1>9 DEF CallAgain, retryVars, storeVars, UnreadInv, CurrentInv, Current, Unread
<1> QED
  BY <1>1, <1>2, <1>3, <1>4, <1>5, <1>6, <1>7, <1>8, <1>9 DEF RetryNext, receive_data

\* However many tries it took and in whichever call of receive_data the
\* answer was taken: on a quiet line the files hold what the MCU sent last,
\* unless bytes went without a request that reached it, except under the keys
\* that failed saves have cost, and whether or not main spoils every checksum.
\* For any packets whose splits show (SplitsShow), and noise that spoils one
\* packet at most, spares the quantity, or makes it one that ends with no
\* packet (QuantityShows).
THEOREM QuietCurrent ==
  ASSUME SplitsShow, QuantityShows PROVE RetrySpec => []QuietMeansCurrent
<1>1. RetryInit => RetryInv /\ UnreadInv /\ CurrentInv
  BY InitRetry, InitUnread DEF RetryInv
<1>2. (RetryInv /\ UnreadInv /\ CurrentInv) /\ [RetryNext]_retryVars
        => (RetryInv /\ UnreadInv /\ CurrentInv)'
  BY NextRetry, NextUnread
<1>3. RetryInv /\ CurrentInv => QuietMeansCurrent
  <2> SUFFICES ASSUME RetryTypeOK, CurrentInv, Quiet, ~dropped PROVE Current
    BY DEF RetryInv, QuietMeansCurrent, Current
  <2>1. Unread = <<>>
    BY UnreadIs DEF Quiet
  <2> QED
    BY <2>1 DEF Quiet, CurrentInv
<1> QED
  BY <1>1, <1>2, <1>3, PTL DEF RetrySpec
=============================================================================
