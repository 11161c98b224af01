-------------------------- MODULE CommandDelivery --------------------------
(***************************************************************************)
(* What the command directory promises the server: a command that was      *)
(* written is taken out only after it went to the MCU, unless it has       *)
(* nothing to say to the MCU. How often it goes out is left open.          *)
(***************************************************************************)
CONSTANTS
  Commands,   \* the commands of the server
  Sendable    \* those that address a register of the MCU

VARIABLES submitted, delivered, retired

vars == <<submitted, delivered, retired>>

Init == submitted = {} /\ delivered = {} /\ retired = {}

Submit(c) ==
  /\ c \notin submitted
  /\ submitted' = submitted \cup {c}
  /\ UNCHANGED <<delivered, retired>>

Deliver(c) ==
  /\ c \in submitted \ retired /\ c \in Sendable
  /\ delivered' = delivered \cup {c}
  /\ UNCHANGED <<submitted, retired>>

Retire(c) ==
  /\ c \in submitted \ retired
  /\ c \in Sendable => c \in delivered
  /\ retired' = retired \cup {c}
  /\ UNCHANGED <<submitted, delivered>>

Next == \E c \in Commands : Submit(c) \/ Deliver(c) \/ Retire(c)

Spec == Init /\ [][Next]_vars
=============================================================================
