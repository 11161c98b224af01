--------------------------- MODULE MCUartReceiver ---------------------------
(* Small instances of UartReceiver. *)
EXTENDS UartReceiver

F(id, value) == [id |-> id, value |-> value]

\* Packets of one field, one of them at an address without a mapping.
MCSingles == {<<F(125, 0)>>, <<F(256, 1)>>}

\* A report that starts the access point and says that the door is open, and
\* one with an address that has no mapping before one that has. 40 is never
\* anything but the set info. A packet cut out of the second one, from 40 on,
\* has a good checksum and would store 1280 for the door.
MCMixed == {<<F(308, 1), F(125, 1)>>, <<F(256, 32005), F(59, 1)>>}

ASSUME InfoOnlyOnce

MCTable == 125 :> "door" @@ 59 :> "fan_room2"
MCFiles == "door" :> "alarms" @@ "fan_room2" :> "alarms"
=============================================================================
