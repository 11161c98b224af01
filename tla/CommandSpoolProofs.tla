------------------------- MODULE CommandSpoolProofs -------------------------
(***************************************************************************)
(* The safety properties of CommandSpool, and that it implements           *)
(* CommandDelivery, for any names, commands and bounds, when               *)
(* the server takes a new name for a new command.                          *)
(***************************************************************************)
EXTENDS CommandSpool, TLAPS

\* The file being written is torn until it is finished, and its command is
\* new; a command is in one file at most, and only when it was written.
ServerInv ==
  /\ writing # Nothing =>
       dir[writing] = Torn /\ text \in Commands /\ text \notin written
  /\ \A n \in Names : dir[n] \in Commands => dir[n] \in written
  /\ \A m, n \in Names : dir[m] = dir[n] /\ dir[m] \in Commands => m = n

\* What the loop variables mean at each point.
GatewayInv ==
  /\ pc \in {"load", "send", "remove"} => cur \in Names
  /\ pc \in {"send", "remove"} => loaded \in Commands /\ dir[cur] = loaded
  /\ pc = "remove" /\ loaded \in Sendable => sent[loaded] > 0

\* How often a command can have been sent: at most once more than stops and
\* faults, and that once only if it is now being removed or is gone.
RepetitionInv ==
  /\ \A c \in Commands : sent[c] <= 1 + stops + faults
  /\ \A n \in Names : dir[n] \in Commands /\ ~(pc = "remove" /\ cur = n) =>
       sent[dir[n]] <= stops + faults
  /\ \A c \in Commands \ written : sent[c] = 0

IInv ==
  /\ TypeOK
  /\ ServerInv
  /\ GatewayInv
  /\ NoCommandLost
  /\ RepetitionInv

-----------------------------------------------------------------------------
LEMMA InitInv == Init => IInv
<1> SUFFICES ASSUME Init PROVE IInv
  OBVIOUS
<1> USE SpoolAssumption DEF Init
<1>1. TypeOK
  <2>1. dir \in [Names -> Commands \cup {Absent, Torn}]
    OBVIOUS
  <2>2. sent \in [Commands -> Nat]
    OBVIOUS
  <2>3. stops \in 0..MaxStops /\ faults \in 0..MaxFaults
    OBVIOUS
  <2> QED
    BY <2>1, <2>2, <2>3 DEF TypeOK
<1>2. ServerInv
  BY DEF ServerInv
<1>3. GatewayInv
  BY DEF GatewayInv
<1>4. NoCommandLost
  BY DEF NoCommandLost
<1>5. RepetitionInv
  BY DEF RepetitionInv
<1> QED
  BY <1>1, <1>2, <1>3, <1>4, <1>5 DEF IInv

LEMMA NextInv == ASSUME Overwrites = FALSE PROVE IInv /\ [Next]_vars => IInv'
<1> SUFFICES ASSUME IInv, [Next]_vars PROVE IInv'
  OBVIOUS
<1> USE SpoolAssumption, Overwrites = FALSE
    DEF IInv, TypeOK, ServerInv, GatewayInv, NoCommandLost, RepetitionInv,
        Waiting, Sent, serverVars, gatewayVars, NextName
<1>1. ASSUME NEW n \in Names, NEW c \in Commands, BeginWrite(n, c) PROVE IInv'
  BY <1>1 DEF BeginWrite
<1>2. CASE FinishWrite
  BY <1>2 DEF FinishWrite
<1>3. CASE AbortWrite
  BY <1>3 DEF AbortWrite
<1>4. CASE List
  BY <1>4 DEF List, Files
<1>5. ASSUME NEW n \in Names, Pick(n) PROVE IInv'
  BY <1>5 DEF Pick
<1>6. CASE ListingDone
  BY <1>6 DEF ListingDone
<1>7. CASE Load
  BY <1>7 DEF Load
<1>8. CASE LoadFails
  BY <1>8 DEF LoadFails
<1>9. CASE Send
  BY <1>9 DEF Send
<1>10. CASE NothingToSend
  BY <1>10 DEF NothingToSend
<1>11. CASE ConversionFails
  BY <1>11 DEF ConversionFails
<1>12. CASE WriteFails
  BY <1>12 DEF WriteFails
<1>13. CASE Remove
  BY <1>13 DEF Remove
<1>14. CASE RemoveFails
  BY <1>14 DEF RemoveFails
<1>15. CASE Stop
  BY <1>15 DEF Stop
<1>16. CASE Start
  BY <1>16 DEF Start
<1>17. CASE UNCHANGED vars
  BY <1>17 DEF vars
<1> QED
  BY <1>1, <1>2, <1>3, <1>4, <1>5, <1>6, <1>7, <1>8, <1>9, <1>10, <1>11,
     <1>12, <1>13, <1>14, <1>15, <1>16, <1>17
  DEF Next, ServerStep, GatewayStep

-----------------------------------------------------------------------------
\* The state is always of the declared types.
THEOREM TypeCorrect == ASSUME Overwrites = FALSE PROVE Spec => []TypeOK
<1>1. IInv => TypeOK
  BY DEF IInv
<1> QED
  BY <1>1, InitInv, NextInv, PTL DEF Spec

\* check_and_process_server_json removes no command for the MCU before it
\* was sent, whatever fails and whenever the gateway stops.
THEOREM NothingLost == ASSUME Overwrites = FALSE PROVE Spec => []NoCommandLost
<1>1. IInv => NoCommandLost
  BY DEF IInv
<1> QED
  BY <1>1, InitInv, NextInv, PTL DEF Spec

\* Each repetition of a command is due to a stop or a failing call.
THEOREM RepetitionBounded ==
  ASSUME Overwrites = FALSE PROVE Spec => []BoundedRepetition
<1>1. IInv => BoundedRepetition
  BY DEF IInv, RepetitionInv, BoundedRepetition
<1> QED
  BY <1>1, InitInv, NextInv, PTL DEF Spec

-----------------------------------------------------------------------------
\* What a step does to the commands that wait in the directory.
LEMMA StepRefines ==
  ASSUME Overwrites = FALSE
  PROVE  IInv /\ [Next]_vars => [Delivery!Next]_Delivery!vars
<1> SUFFICES ASSUME IInv, [Next]_vars
             PROVE  [Delivery!Next]_Delivery!vars
  OBVIOUS
<1> USE SpoolAssumption, Overwrites = FALSE
    DEF IInv, TypeOK, ServerInv, GatewayInv, RepetitionInv,
        Waiting, Sent, serverVars, gatewayVars, NextName
<1>1. CASE FinishWrite
  <2>1. written' = written \cup {text} /\ Sent' = Sent
    BY <1>1 DEF FinishWrite
  <2>2. Waiting' = Waiting \cup {text}
    BY <1>1 DEF FinishWrite
  <2>3. Delivery!Submit(text)
    BY <1>1, <2>1, <2>2 DEF FinishWrite, Delivery!Submit
  <2> QED
    BY <1>1, <2>3 DEF FinishWrite, Delivery!Next
<1>2. CASE Send
  <2>1. loaded \in Waiting /\ loaded \in written
    BY <1>2 DEF Send
  <2>2. Sent' = Sent \cup {loaded}
    BY <1>2 DEF Send
  <2>3. UNCHANGED <<written, Waiting>>
    BY <1>2 DEF Send
  <2>4. Delivery!Deliver(loaded)
    BY <1>2, <2>1, <2>2, <2>3 DEF Send, Delivery!Deliver
  <2>5. loaded \in Commands
    BY <2>1
  <2> HIDE DEF Sent, Waiting
  <2> QED
    BY <2>4, <2>5 DEF Delivery!Next
<1>3. CASE Remove
  <2>1. loaded \in Waiting /\ loaded \in written
    BY <1>3 DEF Remove
  <2>2. Waiting' = Waiting \ {loaded}
    BY <1>3 DEF Remove
  <2>3. UNCHANGED <<written, Sent>>
    BY <1>3 DEF Remove
  <2>4. loaded \in Sendable => loaded \in Sent
    BY <1>3 DEF Remove
  <2>5. Delivery!Retire(loaded)
    BY <2>1, <2>2, <2>3, <2>4 DEF Delivery!Retire
  <2>6. loaded \in Commands
    BY <2>1
  <2> HIDE DEF Sent, Waiting
  <2> QED
    BY <2>5, <2>6 DEF Delivery!Next
<1>4. ASSUME NEW n \in Names, NEW c \in Commands, BeginWrite(n, c)
      PROVE  UNCHANGED <<written, Sent, Waiting>>
  BY <1>4 DEF BeginWrite
<1>5. ASSUME UNCHANGED <<dir, written, sent>>
      PROVE  UNCHANGED <<written, Sent, Waiting>>
  BY <1>5
<1>6. ASSUME UNCHANGED <<written, Sent, Waiting>>
      PROVE  UNCHANGED Delivery!vars
  BY <1>6 DEF Delivery!vars
<1>7. \/ FinishWrite \/ Send \/ Remove
      \/ \E n \in Names, c \in Commands : BeginWrite(n, c)
      \/ UNCHANGED <<dir, written, sent>>
  BY DEF Next, ServerStep, GatewayStep, AbortWrite, List, Pick, ListingDone,
         Load, LoadFails, NothingToSend, ConversionFails, WriteFails,
         RemoveFails, Stop, Start, vars
<1> QED
  BY <1>1, <1>2, <1>3, <1>4, <1>5, <1>6, <1>7

\* The command directory implements CommandDelivery.
THEOREM ImplementsDelivery ==
  ASSUME Overwrites = FALSE PROVE Spec => DeliveryKept
<1>1. Init => Delivery!Init
  BY SpoolAssumption DEF Init, Delivery!Init, Waiting, Sent
<1> QED
  BY <1>1, InitInv, NextInv, StepRefines, PTL
  DEF Spec, DeliveryKept, Delivery!Spec
=============================================================================
