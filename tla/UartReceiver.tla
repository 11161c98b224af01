---------------------------- MODULE UartReceiver ----------------------------
(***************************************************************************)
(* The receiving half of src/v008/IMS_uart.py: the listener thread that    *)
(* reads packets of the MCU from the serial port and stores their values,  *)
(* the serial line that feeds it, and the main thread that shuts it down.  *)
(***************************************************************************)
EXTENDS PacketReader

CONSTANTS
  BufferSize,    \* bytes the tty driver buffers for the process
  MaxLoss,       \* bounds: bytes that noise takes off the line,
  MaxFailures,   \*   and saves that fail
  Pauses,        \* may the MCU pause inside a packet for a read's timeout?
  MidPacket      \* may the port be opened while a packet is on its way?

ASSUME ReceiverAssumption ==
  /\ BufferSize \in Nat \ {0}
  /\ MaxLoss \in Nat /\ MaxFailures \in Nat
  /\ Pauses \in BOOLEAN
  /\ MidPacket \in BOOLEAN

VARIABLES
  \* the MCU and the line (the driver's buffer is line)
  toSend,     \* bytes of the current packet that are still to be sent
  lost,       \* number of bytes noise has taken
  \* the listener thread, with pc, store and missed
  data,       \* header_data, then received_data
  rest,       \* fields of the packet that are still to be applied
  table,      \* is mapping_table a table (else it is None)?
  \* the main thread
  running,    \* the global flag of the same name
  main,       \* where the main thread is
  port,       \* is the serial port open?
  \* history
  reported,   \* fields the MCU has sent
  latest,     \* what the files would hold, were every packet applied at once
  gap,        \* has a byte been lost, to noise or to a full buffer?
  cut,        \* did the port open, or a read end, in the middle of a packet?
  applied,    \* what the files would hold, had no save failed
  failures    \* number of saves that failed

lineVars     == <<toSend, line, lost>>
files        == <<store, applied, missed, failures>>
listenerVars == <<pc, data, rest, table, files>>
mainVars     == <<running, main, port>>
history      == <<reported, latest, gap, cut>>
vars         == <<lineVars, listenerVars, mainVars, history>>

SoftapAddress == 308   \* 0134

ReceiverTypeOK ==
  /\ toSend \in Seq(Byte)
  /\ line \in Seq(Byte)
  /\ lost \in 0..MaxLoss
  /\ pc \in {"test", "header", "body", "apply", "exec", "done"}
  /\ data \in Seq(Byte)
  /\ rest \in Seq(Field)
  /\ table \in BOOLEAN
  /\ store \in Contents
  /\ running \in BOOLEAN
  /\ main \in {"loop", "stopping", "joining", "closing", "exited"}
  /\ port \in {"open", "closed"}
  /\ reported \subseteq Field
  /\ latest \in Contents
  /\ gap \in BOOLEAN /\ cut \in BOOLEAN
  /\ applied \in Contents /\ missed \subseteq Keys /\ failures \in 0..MaxFailures

-----------------------------------------------------------------------------
Softap(f) == f.id = SoftapAddress /\ f.value = 1

\* What save_data_to_file does when nothing fails: one value in its file.
Save(contents, f) == [contents EXCEPT ![KeyOf(f)] = f.value]

\* Field i of r is the last one stored under key k.
LastFor(k, r, i) ==
  LET stored(j) == Mapped(r[j]) /\ ~Softap(r[j]) /\ KeyOf(r[j]) = k
  IN  stored(i) /\ \A j \in DOMAIN r : stored(j) => j <= i

\* What the files should hold once packet r is dealt with.
Updated(contents, r) ==
  [k \in Keys |->
     IF \E i \in DOMAIN r : LastFor(k, r, i)
     THEN r[CHOOSE i \in DOMAIN r : LastFor(k, r, i)].value
     ELSE contents[k]]

\* The MCU may have been sending before the port was opened: what reaches
\* the process first is then the end of a packet.
Init ==
  /\ \/ toSend = <<>> /\ cut = FALSE
     \/ /\ MidPacket
        /\ \E r \in Reports : \E sent \in 1..Len(ReportPacket(r)) - 1 :
             toSend = SubSeq(ReportPacket(r), sent + 1, Len(ReportPacket(r)))
        /\ cut = TRUE
  /\ line = <<>> /\ lost = 0
  /\ pc = "test" /\ data = <<>> /\ rest = <<>>
  /\ table \in BOOLEAN
  /\ store = [k \in Keys |-> NoValue]
  /\ latest = [k \in Keys |-> NoValue] /\ applied = [k \in Keys |-> NoValue]
  /\ missed = {} /\ failures = 0
  /\ running = TRUE /\ main = "loop" /\ port = "open"
  /\ reported = {} /\ gap = FALSE

-----------------------------------------------------------------------------
(* The MCU and the line.                                                   *)

StartPacket(r) ==
  /\ toSend = <<>>
  /\ toSend' = ReportPacket(r)
  /\ reported' = reported \cup ToSet(r)
  /\ latest' = Updated(latest, r)
  /\ UNCHANGED <<line, lost, gap, cut, listenerVars, mainVars>>

DeliverByte ==
  /\ toSend # <<>> /\ Len(line) < BufferSize
  /\ line' = Append(line, Head(toSend))
  /\ toSend' = Tail(toSend)
  /\ UNCHANGED <<lost, listenerVars, mainVars, history>>

LoseByte ==
  /\ toSend # <<>> /\ lost < MaxLoss
  /\ toSend' = Tail(toSend)
  /\ lost' = lost + 1
  /\ gap' = TRUE
  /\ UNCHANGED <<line, reported, latest, cut, listenerVars, mainVars>>

\* The driver drops what does not fit its buffer. The listener empties the
\* buffer far faster than the line fills it, unless it is waiting for the
\* program that execute_run_file runs.
OverflowByte ==
  /\ toSend # <<>> /\ Len(line) = BufferSize
  /\ pc = "exec"
  /\ toSend' = Tail(toSend)
  /\ gap' = TRUE
  /\ UNCHANGED <<line, lost, reported, latest, cut, listenerVars, mainVars>>

-----------------------------------------------------------------------------
(* The listener thread.                                                    *)

\* The bytes data holds when the current ser.read is complete.
Wanted == IF pc = "header" THEN 3 ELSE 4 + 4 * data[3]

\* ser.read collects bytes as they come ...
TakeByte ==
  /\ pc \in {"header", "body"}
  /\ Len(data) < Wanted /\ line # <<>>
  /\ data' = Append(data, Head(line))
  /\ line' = Tail(line)
  /\ UNCHANGED <<toSend, lost, pc, rest, table, files, mainVars, history>>

\* Variant: a port opened without a timeout.
NeverTimedOut == FALSE

\* ... and gives up when TIMEOUT, the deadline of the whole read, has passed.
\* It has then taken what there was: before a packet, or the beginning of one
\* in which the MCU pauses or, with Pauses, the deadline happens to fall.
TimedOut == line = <<>> /\ (toSend = <<>> \/ Pauses)

ReadReturns == Len(data) = Wanted \/ TimedOut

ReadCutShort == Len(data) < Wanted /\ data # <<>>

\* Variant: while True.
TestNothing ==
  /\ pc = "test"
  /\ pc' = "header"
  /\ UNCHANGED <<lineVars, data, rest, table, files, mainVars, history>>

\* The condition of the while loop.
TestRunning ==
  /\ pc = "test"
  /\ pc' = IF running THEN "header" ELSE "done"
  /\ UNCHANGED <<lineVars, data, rest, table, files, mainVars, history>>

\* Variants: any set info, or the one of commands.
AnyHeader     == Len(data) = 3
CommandHeader == Len(data) = 3 /\ data[2] = CommandInfo

ReportHeader == Len(data) = 3 /\ data[2] = ReportInfo

AcceptHeader ==
  /\ pc = "header" /\ ReportHeader
  /\ pc' = "body"
  /\ UNCHANGED <<lineVars, data, rest, table, files, mainVars, history>>

\* No byte came; or one or two, and indexing them raises IndexError; or the
\* set info is not that of a report. What was read is gone.
DiscardHeader ==
  /\ pc = "header" /\ ReadReturns
  /\ ~ReportHeader
  /\ pc' = "test" /\ data' = <<>>
  /\ cut' = (cut \/ ReadCutShort)
  /\ UNCHANGED <<lineVars, rest, table, files, reported, latest, gap, mainVars>>

Valid(packet) == verify_checksum(packet) /\ Extractable(packet, packet[3])

AcceptPacket ==
  /\ pc = "body" /\ ReadReturns
  /\ Valid(data)
  /\ pc' = "apply"
  /\ rest' = extract_data_fields(data, data[3])
  /\ cut' = (cut \/ ReadCutShort)
  /\ UNCHANGED <<lineVars, data, table, files, reported, latest, gap, mainVars>>

RejectPacket ==
  /\ pc = "body" /\ ReadReturns
  /\ ~Valid(data)
  /\ pc' = "test" /\ data' = <<>>
  /\ cut' = (cut \/ ReadCutShort)
  /\ UNCHANGED <<lineVars, rest, table, files, reported, latest, gap, mainVars>>

\* Variant: break instead of continue after the program.
RunSoftapAndBreak ==
  /\ pc = "apply" /\ rest # <<>>
  /\ Softap(Head(rest))
  /\ pc' = "exec" /\ rest' = <<>>
  /\ UNCHANGED <<lineVars, data, table, files, mainVars, history>>

RunSoftap ==
  /\ pc = "apply" /\ rest # <<>>
  /\ Softap(Head(rest))
  /\ pc' = "exec" /\ rest' = Tail(rest)
  /\ UNCHANGED <<lineVars, data, table, files, mainVars, history>>

\* The program ends, or could not be started; execute_run_file catches all.
SoftapReturns ==
  /\ pc = "exec"
  /\ pc' = "apply"
  /\ UNCHANGED <<lineVars, data, rest, table, files, mainVars, history>>

AtMapped ==
  pc = "apply" /\ rest # <<>> /\ ~Softap(Head(rest)) /\ table /\ Mapped(Head(rest))

SaveField ==
  /\ AtMapped
  /\ store' = Save(store, Head(rest))
  /\ missed' = missed \ {KeyOf(Head(rest))}
  /\ applied' = Save(applied, Head(rest)) /\ rest' = Tail(rest)
  /\ UNCHANGED <<lineVars, pc, data, table, failures, mainVars, history>>

\* A call inside save_data_to_file fails; it logs that and returns, and the
\* loop over the fields goes on.
SaveFails ==
  /\ AtMapped /\ failures < MaxFailures
  /\ \E torn \in {{}, SameFile(KeyOf(Head(rest)))} :
       /\ store' = Emptied(store, torn)
       /\ missed' = missed \cup torn \cup {KeyOf(Head(rest))}
  /\ applied' = Save(applied, Head(rest)) /\ rest' = Tail(rest)
  /\ failures' = failures + 1
  /\ UNCHANGED <<lineVars, pc, data, table, mainVars, history>>

SkipField ==
  /\ pc = "apply" /\ rest # <<>>
  /\ ~Softap(Head(rest)) /\ table /\ ~Mapped(Head(rest))
  /\ rest' = Tail(rest)
  /\ UNCHANGED <<lineVars, pc, data, table, files, mainVars, history>>

\* Every field is dealt with, or mapping_table is None and .get raises
\* AttributeError at the first field that is looked up.
PacketDone ==
  /\ pc = "apply"
  /\ rest # <<>> => ~Softap(Head(rest)) /\ ~table
  /\ pc' = "test" /\ data' = <<>> /\ rest' = <<>>
  /\ UNCHANGED <<lineVars, table, files, mainVars, history>>

ListenerStep ==
  \/ TestRunning \/ TakeByte
  \/ AcceptHeader \/ DiscardHeader \/ AcceptPacket \/ RejectPacket
  \/ RunSoftap \/ SaveField \/ SaveFails \/ SkipField \/ PacketDone

-----------------------------------------------------------------------------
(* The main thread, from a KeyboardInterrupt on.                           *)

Interrupt ==
  /\ main = "loop" /\ main' = "stopping"
  /\ UNCHANGED <<lineVars, listenerVars, running, port, history>>

stop_uart_listener ==
  /\ main = "stopping" /\ main' = "joining"
  /\ running' = FALSE
  /\ UNCHANGED <<lineVars, listenerVars, port, history>>

\* Variant: join() without a timeout, as in src/V007/uart/IMS_uart.py.
JoinForever ==
  /\ main = "joining" /\ main' = "closing"
  /\ pc = "done"
  /\ UNCHANGED <<lineVars, listenerVars, running, port, history>>

\* join returns when the thread ends, or after 5 seconds. Two reads take at
\* most 2, so the thread is then in the program that execute_run_file runs.
Join ==
  /\ main = "joining" /\ main' = "closing"
  /\ pc = "done" \/ pc = "exec"
  /\ UNCHANGED <<lineVars, listenerVars, running, port, history>>

ClosePort ==
  /\ main = "closing" /\ main' = "exited"
  /\ port' = "closed"
  /\ UNCHANGED <<lineVars, listenerVars, running, history>>

MainStep == stop_uart_listener \/ Join \/ ClosePort

\* The process ends when both threads have; the MCU goes on.
Next ==
  \/ \E r \in Reports : StartPacket(r)
  \/ DeliverByte \/ LoseByte \/ OverflowByte
  \/ ListenerStep \/ SoftapReturns
  \/ Interrupt \/ MainStep

\* The threads are scheduled and the line delivers; nothing obliges the MCU
\* to send, the operator to interrupt or the access point program to end.
Fairness ==
  /\ WF_vars(DeliverByte)
  /\ WF_vars(ListenerStep)
  /\ WF_vars(MainStep)

Spec == Init /\ [][Next]_vars /\ Fairness

\* As Spec, with an MCU that always has another packet to send.
BusySpec == Spec /\ WF_vars(\E r \in Reports : StartPacket(r))

-----------------------------------------------------------------------------
(* Properties.                                                             *)

\* Every value in a file is one the MCU reported, at an address mapped to
\* its key.
FilesHoldReports ==
  \A k \in Keys : store[k] # NoValue =>
    \E f \in reported : Mapped(f) /\ KeyOf(f) = k /\ f.value = store[k]

\* Nothing in a packet but its set info has the value 40.
InfoOnlyOnce ==
  \A r \in Reports :
    \A i \in 1..Len(ReportPacket(r)) : ReportPacket(r)[i] = ReportInfo => i = 2

\* That is so as long as every byte arrives, whatever is sent when the reads
\* follow the packets; when the port was opened, or a read broke off, inside
\* a packet, if InfoOnlyOnce keeps misaligned ones from save_data_to_file.
StoredWasReported == ~gap /\ (cut => InfoOnlyOnce) => FilesHoldReports

\* Nothing on the line or in the listener's hands.
Idle ==
  /\ toSend = <<>> /\ line = <<>>
  /\ pc \in {"test", "header"} /\ data = <<>>

\* When every byte arrived and was read with its packet, and the table is
\* loaded, an idle listener has stored exactly the latest report of every
\* address: process_received_data drops, repeats and reorders nothing. A save
\* that fails costs its own key until the next report of it, and at most the
\* keys of the same file.
IdleMeansUpToDate ==
  Idle /\ ~gap /\ ~cut /\ table => \A k \in Keys \ missed : store[k] = latest[k]

\* The main thread closes the port under a listener that join did not wait
\* for; the listener must never call ser.read again.
NoReadOnClosedPort ==
  port = "closed" => pc \notin {"header", "body"}

\* An interrupted program gives the serial port up, whatever the listener
\* and the program it may be waiting for do (the timeout of join).
InterruptClosesPort == main = "stopping" ~> port = "closed"

\* A packet that breaks off does not hold the listener in ser.read.
BodyReadEnds == pc = "body" ~> pc # "body"

\* However the port came to be opened in the middle of the traffic, the
\* listener keeps finding packets as long as the MCU keeps sending them.
KeepsFindingPackets == <>(main # "loop") \/ []<>(pc = "apply")
=============================================================================
