---------------------------- MODULE Photography ----------------------------
(***************************************************************************)
(* What take_pic promises: in a run every camera has one turn, one after   *)
(* the other. In its turn a camera either leaves its picture of an earlier *)
(* run alone, or replaces it by one of this run; a picture that is being   *)
(* replaced, or could not be, is damaged.                                  *)
(***************************************************************************)
EXTENDS Integers

CONSTANTS
  Cameras,  \* number of cameras
  Damaged   \* what an unfinished file holds

VARIABLES
  run,      \* number of the run
  turn,     \* the camera whose turn it is, 0 between runs
  picture   \* the run each camera's picture was taken in; 0 for none

vars == <<run, turn, picture>>

Init == run = 0 /\ turn = 0 /\ picture = [c \in 1..Cameras |-> 0]

Begin == turn = 0 /\ turn' = 1 /\ run' = run + 1 /\ UNCHANGED picture

Damage == turn # 0 /\ picture' = [picture EXCEPT ![turn] = Damaged] /\ UNCHANGED <<run, turn>>

Replace ==
  /\ turn # 0 /\ picture[turn] = Damaged
  /\ picture' = [picture EXCEPT ![turn] = run]
  /\ UNCHANGED <<run, turn>>

Pass == turn # 0 /\ turn' = (IF turn < Cameras THEN turn + 1 ELSE 0) /\ UNCHANGED <<run, picture>>

\* The board may stop at any time.
Stop == turn # 0 /\ turn' = 0 /\ UNCHANGED <<run, picture>>

Next == Begin \/ Damage \/ Replace \/ Pass \/ Stop

Spec == Init /\ [][Next]_vars
=============================================================================
