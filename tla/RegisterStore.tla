--------------------------- MODULE RegisterStore ---------------------------
(***************************************************************************)
(* What the register files promise: a save changes the value of one key    *)
(* and of nothing else, at once. Only a mishap, a program that is stopped  *)
(* or a call that fails, can lose values, and then those of one file.      *)
(***************************************************************************)
EXTENDS Integers

CONSTANTS
  Keys, Values,
  NoValue,     \* the value of a key that no file holds
  FileOf       \* the file each key is in

VARIABLES
  store,       \* the value of each key
  mishaps      \* mishaps that may still happen

vars == <<store, mishaps>>

Init == store = [k \in Keys |-> NoValue] /\ mishaps \in Nat

Save(k, v) == store' = [store EXCEPT ![k] = v] /\ UNCHANGED mishaps

Without(file) == [k \in Keys |-> IF FileOf[k] = file THEN NoValue ELSE store[k]]

Mishap ==
  /\ mishaps > 0 /\ mishaps' = mishaps - 1
  /\ store' = store \/ \E k \in Keys : store' = Without(FileOf[k])

Next == (\E k \in Keys, v \in Values : Save(k, v)) \/ Mishap

Spec == Init /\ [][Next]_vars
=============================================================================
