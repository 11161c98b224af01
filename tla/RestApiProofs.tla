--------------------------- MODULE RestApiProofs ---------------------------
(***************************************************************************)
(* The safety properties of RestApi, for any users, networks and bounds.   *)
(***************************************************************************)
EXTENDS RestApi, TLAPS

\* A handler is at work exactly when there is a request.
HandlerInv ==
  /\ request = NoRequest <=> pc \in {"idle", "down", "failed"}
  /\ pc \in {"openWifi", "writeWifi", "reboot"} => Registering
  /\ Registering => request.user \in mem
  /\ pc = "error" => faults > 0

\* What the disk holds at each point.
DiskInv ==
  /\ file # "complete" => saved = {}
  /\ file = "torn" => pc \in {"dumpUsers", "down", "failed"} \/ faults > 0
  /\ pc \in {"openWifi", "writeWifi", "reply", "reboot"} =>
       file = "complete" /\ mem = saved
  /\ pc \in {"reply", "reboot"} /\ Registering => wifi = request.network
  /\ pc = "idle" /\ faults = 0 => mem = saved
  /\ pc = "failed" => saved = {}

\* Whom the board has acknowledged at each point.
AckInv ==
  /\ pc = "reboot" => request.user \in acked
  /\ faults = 0 /\ file # "torn" => acked \subseteq saved
  /\ faults = 0 /\ pc \in {"openUsers", "dumpUsers"} => acked \subseteq mem
  /\ ~cutOff => faults = 0
  /\ ~cutOff /\ pc \in {"idle", "down"} => saved \subseteq acked
  /\ ~cutOff /\ request # NoRequest =>
       mem \subseteq IF Registering THEN acked \cup {request.user} ELSE acked

IInv == TypeOK /\ HandlerInv /\ DiskInv /\ AckInv

-----------------------------------------------------------------------------
LEMMA InitInv == Init => IInv
<1> SUFFICES ASSUME Init PROVE IInv
  OBVIOUS
<1> USE RestAssumption DEF Init
<1>1. TypeOK
  <2>1. file \in {"absent", "complete", "torn"} /\ saved \subseteq Users
    OBVIOUS
  <2>2. wifi \in Networks \cup {Factory, Torn}
    OBVIOUS
  <2>3. request \in Registration \cup Deletion \cup {NoRequest}
    OBVIOUS
  <2>4. cuts \in 0..MaxCuts /\ faults \in 0..MaxFaults /\ hangups \in 0..MaxHangups
    OBVIOUS
  <2>5. cutOff \in BOOLEAN /\ acked \subseteq Users /\ mem \subseteq Users /\ rebooting \in BOOLEAN
    OBVIOUS
  <2> QED
    BY <2>1, <2>2, <2>3, <2>4, <2>5 DEF TypeOK
<1>2. HandlerInv
  BY DEF HandlerInv, NoRequest, Registering
<1>3. DiskInv
  BY DEF DiskInv
<1>4. AckInv
  BY DEF AckInv
<1> QED
  BY <1>1, <1>2, <1>3, <1>4 DEF IInv

LEMMA NextInv == IInv /\ [Next]_vars => IInv'
<1> SUFFICES ASSUME IInv, [Next]_vars PROVE IInv'
  OBVIOUS
<1> USE RestAssumption
    DEF IInv, TypeOK, HandlerInv, DiskInv, AckInv, Registering, NoRequest,
        Registration, Deletion, disk, process, bounds
<1>1. CASE Start
  BY <1>1 DEF Start
<1>2. ASSUME NEW u \in Users, NEW n \in Networks, Register(u, n) PROVE IInv'
  BY <1>2 DEF Register
<1>3. ASSUME NEW u \in Users, do_DELETE(u) PROVE IInv'
  BY <1>3 DEF do_DELETE
<1>4. CASE reset_users
  BY <1>4 DEF reset_users
<1>5. CASE OpenUsers
  BY <1>5 DEF OpenUsers
<1>6. CASE DumpUsers
  BY <1>6 DEF DumpUsers
<1>7. CASE OpenWifi
  BY <1>7 DEF OpenWifi
<1>8. CASE WriteWifi
  BY <1>8 DEF WriteWifi
<1>9. CASE Reply
  BY <1>9 DEF Reply
<1>10. CASE ReplyError
  BY <1>10 DEF ReplyError
<1>11. CASE reboot_system
  BY <1>11 DEF reboot_system
<1>12. CASE FileFault
  BY <1>12 DEF FileFault
<1>13. CASE Hangup
  BY <1>13 DEF Hangup
<1>14. CASE ShutDown
  BY <1>14 DEF ShutDown, ProcessesEnd
<1>15. CASE PowerCut
  <2> USE <1>15 DEF PowerCut, ProcessesEnd
  <2>1. TypeOK'
    <3>1. cuts' \in 0..MaxCuts
      OBVIOUS
    <3>2. request' \in Registration \cup Deletion \cup {NoRequest}
      OBVIOUS
    <3>3. cutOff' \in BOOLEAN
      OBVIOUS
    <3> QED
      BY <3>1, <3>2, <3>3
  <2>2. HandlerInv'
    OBVIOUS
  <2>3. DiskInv'
    OBVIOUS
  <2>4. AckInv'
    OBVIOUS
  <2> QED
    BY <2>1, <2>2, <2>3, <2>4
<1>16. CASE UNCHANGED vars
  BY <1>16 DEF vars
<1> QED
  BY <1>1, <1>2, <1>3, <1>4, <1>5, <1>6, <1>7, <1>8, <1>9, <1>10, <1>11,
     <1>12, <1>13, <1>14, <1>15, <1>16
  DEF Next, HandlerStep
-----------------------------------------------------------------------------
\* The state is always of the declared types.
THEOREM TypeCorrect == Spec => []TypeOK
<1>1. IInv => TypeOK
  BY DEF IInv
<1> QED
  BY <1>1, InitInv, NextInv, PTL DEF Spec

\* do_POST, do_DELETE and /reset_users save the set before the next request,
\* so memory and file agree between requests unless an operation failed.
THEOREM MemoryCorrect == Spec => []MemoryIsOnFile
<1>1. IInv => MemoryIsOnFile
  BY DEF IInv, DiskInv, MemoryIsOnFile
<1> QED
  BY <1>1, InitInv, NextInv, PTL DEF Spec

\* A user who was told SUCCESS stays in every complete users file, whenever
\* the power is cut.
THEOREM AcknowledgementsDurable == Spec => []AcknowledgedIsOnFile
<1>1. IInv => AcknowledgedIsOnFile
  BY DEF IInv, AckInv, AcknowledgedIsOnFile
<1> QED
  BY <1>1, InitInv, NextInv, PTL DEF Spec

\* Only users who were told SUCCESS are refused, as long as no request was
\* cut off.
THEOREM RefusalsJustified == Spec => []RefusedWereAcknowledged
<1>1. IInv => RefusedWereAcknowledged
  BY DEF IInv, TypeOK, DiskInv, AckInv, RefusedWereAcknowledged
<1> QED
  BY <1>1, InitInv, NextInv, PTL DEF Spec

\* The reboot is called with both files complete and the answer given.
THEOREM RebootsCorrect == Spec => RebootsConfigured
<1> DEFINE Configured ==
      pc = "reboot" /\ rebooting' /\ ~rebooting =>
        /\ wifi = request.network
        /\ file = "complete" /\ request.user \in acked \cap saved
<1>1. IInv /\ [Next]_vars => [Configured]_vars
  <2> SUFFICES ASSUME IInv, pc = "reboot" PROVE
        /\ wifi = request.network
        /\ file = "complete" /\ request.user \in acked \cap saved
    OBVIOUS
  <2>1. Registering
    BY DEF IInv, HandlerInv
  <2> QED
    BY <2>1 DEF IInv, HandlerInv, DiskInv, AckInv
<1> QED
  BY <1>1, InitInv, NextInv, PTL DEF Spec, RebootsConfigured
=============================================================================
