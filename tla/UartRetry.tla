----------------------------- MODULE UartRetry -----------------------------
(***************************************************************************)
(* src/V006_개발중/uart/uart_ims.py, the prototype that asks the MCU to    *)
(* send a packet again when its checksum is wrong. The packets are those   *)
(* of Frame. A packet takes no time beside the second that a read waits    *)
(* for, so it reaches the line in one step, and a read takes what is there *)
(* or, when the line is silent, less than it wanted.                       *)
(***************************************************************************)
EXTENDS PacketReader

CONSTANTS
  TestMishaps, \* may there be noise, and a port opened inside a packet, while
               \*   the switch of the retransmission test is on?
  NoisyBytes,  \* the places of a packet where noise can change a byte,
  Masks,       \*   and the bits it changes there
  MaxRetries,  \* MAX_RETRIES
  MaxReports,  \* bounds: packets that are sent, the one in which the port is
               \*   opened among them,
  MaxNoise,    \*   packets that are spoiled,
  MaxFaults    \*   requests that are lost or cannot be written, saves that fail

ASSUME RetryAssumption ==
  /\ TestMishaps \in BOOLEAN
  /\ Masks \subseteq {2^n : n \in 0..7}
  /\ MaxRetries \in Nat \ {0} /\ MaxReports \in Nat \ {0} /\ MaxNoise \in Nat
  /\ MaxFaults \in Nat

VARIABLES
  \* receive_data, with pc ("sleep" is between two calls), store and missed
  force_crc_error, \* its parameter, which main sets to test the retransmission
  header,    \* header_data
  retries,
  \* the MCU and the line
  last,      \* the packet the MCU sent last, without its noise
  asked,     \* requests on their way to the MCU
  sent, noise, faults,
  \* history
  dropped    \* did bytes go without a request that reached the MCU?

storeVars == <<store, missed>>
retryVars == <<pc, force_crc_error, header, retries, storeVars, line, last, asked, sent,
               noise, faults, dropped>>

RetryTypeOK ==
  /\ pc \in {"header", "body", "sleep"}
  /\ header \in Seq(Byte) /\ Len(header) = IF pc = "body" THEN 3 ELSE 0
  /\ retries \in 0..MaxRetries + 1 /\ (pc # "sleep" => retries < MaxRetries)
  /\ force_crc_error \in BOOLEAN
  /\ store \in Contents /\ missed \subseteq Keys
  /\ line \in Seq(Byte) /\ last \in Reports \cup {<<>>} /\ asked \in Nat
  /\ sent \in 0..MaxReports /\ noise \in 0..MaxNoise /\ faults \in 0..MaxFaults
  /\ dropped \in BOOLEAN

-----------------------------------------------------------------------------
(* The MCU and the line.                                                   *)

Mishaps == force_crc_error => TestMishaps

\* The port is opened while the line is silent, or inside a packet.
RetryInit ==
  /\ force_crc_error \in BOOLEAN
  /\ pc = "header" /\ header = <<>> /\ retries = 0
  /\ store = [k \in Keys |-> NoValue] /\ missed = {}
  /\ \/ line = <<>> /\ last = <<>> /\ sent = 0
     \/ Mishaps /\ \E r \in Reports : \E i \in 2..Len(ReportPacket(r)) :
          /\ line = SubSeq(ReportPacket(r), i, Len(ReportPacket(r)))
          /\ last = r /\ sent = 1
  /\ asked = 0 /\ noise = 0 /\ faults = 0
  /\ dropped = FALSE

\* A bit that is turned over.
Flip(byte, mask) == IF (byte \div mask) % 2 = 1 THEN byte - mask ELSE byte + mask

\* The packet reaches the line whole, or with a bit changed.
Arrives(packet) ==
  \/ line' = line \o packet /\ UNCHANGED noise
  \/ /\ Mishaps /\ noise < MaxNoise /\ noise' = noise + 1
     /\ \E i \in NoisyBytes \cap DOMAIN packet, m \in Masks :
          line' = line \o [packet EXCEPT ![i] = Flip(@, m)]

Send(r) ==
  /\ sent < MaxReports /\ sent' = sent + 1
  /\ Arrives(ReportPacket(r)) /\ last' = r
  /\ UNCHANGED <<pc, force_crc_error, header, retries, storeVars, asked, faults, dropped>>

\* A request does not say which packet was bad: the MCU repeats the last one.
Answer ==
  /\ asked > 0 /\ asked' = asked - 1
  /\ Arrives(ReportPacket(last))
  /\ UNCHANGED <<pc, force_crc_error, header, retries, storeVars, last, sent, faults, dropped>>

LoseRequest ==
  /\ asked > 0 /\ asked' = asked - 1
  /\ faults < MaxFaults /\ faults' = faults + 1 /\ dropped' = TRUE
  /\ UNCHANGED <<pc, force_crc_error, header, retries, storeVars, line, last, sent, noise>>

-----------------------------------------------------------------------------
(* receive_data.                                                           *)

\* What ser.read(n) returns, and what it leaves.
Read(n)     == SubSeq(line, 1, IF Len(line) < n THEN Len(line) ELSE n)
LeftOver(n) == SubSeq(line, n + 1, Len(line))

\* Variant: a failure after the last retry goes on in the same call.
RetriesForEver(n) ==
  /\ retries' = (IF n > MaxRetries THEN MaxRetries ELSE n) /\ pc' = "header" /\ header' = <<>>

\* The next turn of the loop, or the end of the call.
Retried(n) ==
  /\ retries' = n /\ header' = <<>>
  /\ pc' = IF n < MaxRetries THEN "header" ELSE "sleep"

\* A read that nothing comes for changes nothing and is not counted.
ReadHeader ==
  /\ pc = "header" /\ Len(line) >= 3
  /\ pc' = "body" /\ header' = Read(3) /\ line' = LeftOver(3)
  /\ UNCHANGED <<force_crc_error, retries, storeVars, last, asked, sent, noise, faults, dropped>>

\* Indexing raises IndexError; nothing is asked for.
ShortHeader ==
  /\ pc = "header" /\ Len(line) \in {1, 2} /\ line' = <<>>
  /\ Retried(retries + 1) /\ dropped' = TRUE
  /\ UNCHANGED <<force_crc_error, storeVars, last, asked, sent, noise, faults>>

BodyLength == 4 * header[3] + 1

force_incorrect_crc(data) == [data EXCEPT ![Len(data)] = 255 - @]

received_data ==
  LET data == header \o Read(BodyLength)
  IN  IF force_crc_error THEN force_incorrect_crc(data) ELSE data

ReadBody == pc = "body" /\ line' = LeftOver(BodyLength)

\* Field i of the packet is the last one whose value is saved under key k.
LastMapped(k, fields, i) ==
  LET mapped(j) == Mapped(fields[j]) /\ KeyOf(fields[j]) = k
  IN  mapped(i) /\ \A j \in DOMAIN fields : mapped(j) => j <= i

\* What the loop over the fields should leave: a later value replaces an
\* earlier one.
Stored(contents, fields) ==
  [k \in Keys |->
     IF \E i \in DOMAIN fields : LastMapped(k, fields, i)
     THEN fields[CHOOSE i \in DOMAIN fields : LastMapped(k, fields, i)].value
     ELSE contents[k]]

\* save_data_to_file returns when a call in it fails, and the loop goes on.
Outcomes == {"saved", "failed", "torn"}

SavedBy(k, fields, outcome) ==
  {i \in DOMAIN fields : Mapped(fields[i]) /\ KeyOf(fields[i]) = k /\ outcome[i] = "saved"}

TornBy(k, fields, outcome) ==
  {i \in DOMAIN fields :
     Mapped(fields[i]) /\ k \in SameFile(KeyOf(fields[i])) /\ outcome[i] = "torn"}

FailedBy(k, fields, outcome) ==
  {i \in DOMAIN fields : Mapped(fields[i]) /\ KeyOf(fields[i]) = k /\ outcome[i] = "failed"}

\* What it leaves then.
Left(contents, fields, outcome) ==
  [k \in Keys |->
     LET good == SavedBy(k, fields, outcome)
         torn == TornBy(k, fields, outcome)
     IN  IF good \cup torn = {} THEN contents[k]
         ELSE LET i == Max(good \cup torn) IN IF i \in good THEN fields[i].value ELSE NoValue]

\* Keys that a save has cost, here or earlier, and none since has mended.
StillMissed(fields, outcome) ==
  {k \in Keys :
     LET good == SavedBy(k, fields, outcome)
     IN  \/ k \in missed /\ good = {}
         \/ \E i \in TornBy(k, fields, outcome) \cup FailedBy(k, fields, outcome) :
              \A j \in good : j < i}

\* Variant: the checksum is taken over the checksum byte as well.
GoodOverAll == Last(received_data) = calculate_checksum(received_data)

Good == verify_checksum(received_data)

save_data_to_file(fields) ==
  \E outcome \in [DOMAIN fields -> Outcomes] :
    LET bad == {i \in DOMAIN fields : outcome[i] # "saved"}
    IN  /\ faults + Cardinality(bad) <= MaxFaults /\ faults' = faults + Cardinality(bad)
        /\ store' = Left(store, fields, outcome)
        /\ missed' = StillMissed(fields, outcome)

\* process_received_data returns True, or raises IndexError.
Process ==
  /\ ReadBody /\ Good
  /\ \/ /\ Extractable(received_data, header[3])
        /\ save_data_to_file(extract_data_fields(received_data, header[3]))
        /\ pc' = "sleep" /\ header' = <<>> /\ UNCHANGED <<retries, dropped>>
     \/ /\ ~Extractable(received_data, header[3])
        /\ Retried(retries + 1) /\ dropped' = TRUE /\ UNCHANGED <<storeVars, faults>>
  /\ UNCHANGED <<force_crc_error, last, asked, sent, noise>>

\* Variant: the request is not sent when it was the last try.
RequestUnlessLast ==
  /\ ReadBody /\ ~Good /\ Retried(retries + 1)
  /\ asked' = IF retries + 1 < MaxRetries THEN asked + 1 ELSE asked
  /\ UNCHANGED <<force_crc_error, storeVars, last, sent, noise, faults, dropped>>

\* The checksum is wrong: send_retransmission_request.
Request ==
  /\ ReadBody /\ ~Good /\ Retried(retries + 1)
  /\ asked' = asked + 1
  /\ UNCHANGED <<force_crc_error, storeVars, last, sent, noise, faults, dropped>>

\* Its write raises, which counts as another try.
RequestFails ==
  /\ ReadBody /\ ~Good /\ Retried(retries + 2)
  /\ faults < MaxFaults /\ faults' = faults + 1 /\ dropped' = TRUE
  /\ UNCHANGED <<force_crc_error, storeVars, last, asked, sent, noise>>

\* main sleeps for a second and calls it again, with no retries so far.
CallAgain ==
  /\ pc = "sleep" /\ pc' = "header" /\ retries' = 0
  /\ UNCHANGED <<force_crc_error, header, storeVars, line, last, asked, sent, noise, faults, dropped>>

receive_data == ReadHeader \/ ShortHeader \/ Process \/ Request \/ RequestFails \/ CallAgain

RetryNext == (\E r \in Reports : Send(r)) \/ Answer \/ LoseRequest \/ receive_data

\* The program goes on and the MCU answers what reaches it.
RetrySpec ==
  /\ RetryInit /\ [][RetryNext]_retryVars
  /\ WF_retryVars(receive_data) /\ WF_retryVars(Answer)

-----------------------------------------------------------------------------
(* Properties.                                                             *)

Quiet == line = <<>> /\ asked = 0 /\ pc = "header"

\* However many tries it took, and whether or not the transmission was given
\* up meanwhile, a quiet line means that the files hold what the MCU sent
\* last: the answer to a request that was made in one call of receive_data
\* is taken by a later one. Excused are bytes that were thrown away without
\* asking, requests that were lost, and the keys that failed saves have cost.
\* (With the switch on nothing is stored, and from the first packet on the
\* line is not quiet until a request is lost.)
QuietMeansCurrent ==
  Quiet /\ ~dropped => \A k \in Keys \ missed : store[k] = Stored(store, last)[k]

\* When that is so. A read that begins behind the i-th byte of a packet and
\* ends where a packet ends has the checksum of the bytes it has missed, apart
\* from noise. Where it differs from the right one, or from the wrong one that
\* the switch makes of it, there must be more bits than noise turns over, or
\* one that it never does.
Shows(bits) == Cardinality(bits) > MaxNoise \/ \E b \in bits : 2^b \notin Masks

SplitsShow ==
  /\ Shows(0..7)
  /\ \A r \in Reports : \A i \in 1..Len(ReportPacket(r)) - 1 :
       LET bits == {b \in 0..7 : Bit(calculate_checksum(SubSeq(ReportPacket(r), 1, i)), b) = 1}
       IN  Shows(bits) /\ Shows((0..7) \ bits)

\* Two changes can cancel out when the first one is in the quantity and
\* makes a read go on to the end of another packet; packets whose sizes have
\* a divisor that no changed bit has never end where it does.
NoPacketEnds(d) ==
  /\ \A r \in Reports : (1 + Len(r)) % d = 0
  /\ \A m \in Masks : m % d # 0

QuantityShows ==
  3 \in NoisyBytes => MaxNoise <= 1 \/ \E d \in Byte \ {0} : NoPacketEnds(d)

\* The exchange comes to an end once noise and new packets do, unless main
\* spoils every checksum on purpose: a packet that is refused because reads are
\* out of step with packets does not lead to requests for ever.
ExchangeEnds == ~force_crc_error => []<>Quiet

\* The test of the retransmission that main is committed with goes on for
\* ever, through any number of calls that give up after MAX_RETRIES, unless
\* a request is lost.
TestGoesOn == force_crc_error => [](last # <<>> => <>(asked > 0 \/ dropped))
=============================================================================
