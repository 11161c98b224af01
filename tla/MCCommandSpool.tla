--------------------------- MODULE MCCommandSpool ---------------------------
(* Small instances of CommandSpool. *)
EXTENDS CommandSpool, TLC

CONSTANTS light, pump, odd, mute, a, b

MCNames    == {a, b}
MCCommands == {light, pump, odd, mute}   \* odd does not convert
MCSendable == {light, pump}
MCUnmapped == {mute}
=============================================================================
