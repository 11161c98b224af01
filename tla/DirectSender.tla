---------------------------- MODULE DirectSender ----------------------------
(***************************************************************************)
(* src/v002/pic_sender/pic_sender.c, which sends every picture as soon as  *)
(* it is taken, and as it was taken: there is no rotate.py, and a camera's *)
(* turn is take_picture and then client_jpg_sender. An exit in the latter  *)
(* ends the run before the other cameras have taken theirs. The names and  *)
(* the connections are those of ImagePipeline; ImageServerJs adds the      *)
(* server.                                                                 *)
(***************************************************************************)
EXTENDS ImagePipeline

\* main goes from a picture to its connection.
DirectTake ==
  /\ pc = "take" /\ pc' = "connect"
  /\ files' = [files EXCEPT ![<<cam, 0>>] = WholePicture(run, 0)]
  /\ UNCHANGED <<run, cam, todo, at, link, failed, queue, serverVars, sentVars, faults, exits, cuts>>

\* The result is not looked at: what an earlier run has left is sent, or what
\* fwrite has written.
DirectTakeFails ==
  /\ pc = "take" /\ pc' = "connect" /\ failed' = TRUE /\ Fault
  /\ UNCHANGED files \/ Torn(<<cam, 0>>, WholePicture(run, 0))
  /\ UNCHANGED <<run, cam, todo, at, link, queue, serverVars, sentVars, exits, cuts>>

DirectOpen ==
  /\ pc = "open" /\ files[<<cam, 0>>] # NoFile
  /\ pc' = "send" /\ at' = 0
  /\ UNCHANGED <<files, run, cam, todo, link, failed, queue, serverVars, sentVars, faults, exits, cuts>>

DirectOpenFails ==
  /\ pc = "open" /\ files[<<cam, 0>>] = NoFile
  /\ Exit
  /\ UNCHANGED <<files, run, todo, failed, serverVars, sentVars, faults, exits, cuts>>

DirectPart == [camera |-> cam, picture |-> files[<<cam, 0>>], number |-> at + 1]

DirectSend ==
  /\ pc = "send" /\ MoreToSend(<<cam, 0>>)
  /\ link = "up" /\ Len(Last(queue).parts) < BufferSize
  /\ queue' = [queue EXCEPT ![Len(queue)].parts = Append(@, DirectPart)]
  /\ made' = [made EXCEPT ![Len(made)] = Append(@, DirectPart)] /\ UNCHANGED clean
  /\ at' = at + 1
  /\ UNCHANGED <<files, run, pc, cam, todo, link, failed, serverVars, faults, exits, cuts>>

\* The sockets are closed; the next camera's turn begins.
DirectSent ==
  /\ pc = "send" /\ ~MoreToSend(<<cam, 0>>)
  /\ NextCamera("take", "idle")
  /\ at' = 0 /\ CloseSocket
  /\ UNCHANGED <<files, run, todo, failed, serverVars, sentVars, faults, exits, cuts>>

\* What follows the attempt to connect.
Transfer ==
  \/ ConnectFails \/ DirectOpen \/ DirectOpenFails
  \/ DirectSend \/ SendNowhere(<<cam, 0>>) \/ SendFails(<<cam, 0>>) \/ DirectSent
=============================================================================
