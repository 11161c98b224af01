--------------------------- MODULE ImagePipeline ---------------------------
(***************************************************************************)
(* The camera pipeline: src/v005/pic_sender.c takes a picture with every   *)
(* camera, has src/v005/rotate.py turn them and sends the turned ones over *)
(* one TCP connection each; src/v002/pic_sender/server_jpg.c writes what a *)
(* connection brings to received_image_0.jpg, received_image_1.jpg, ...    *)
(*                                                                         *)
(* The pictures stay in the board's directory from one run of the sender   *)
(* to the next. rotate.py turns every image it finds there, its own output *)
(* included: <<c, 0>> stands for the name image<c>.jpg and <<c, k>> for    *)
(* the one with k times "rotated_" before it.                              *)
(***************************************************************************)
EXTENDS Integers, SequencesExt

CONSTANTS
  Cameras,     \* number of cameras
  Parts,       \* number of reads (BUFFER_SIZE) a picture takes
  Backlog,     \* connections listen lets wait besides the one served
  BufferSize,  \* parts on their way in one connection
  MaxRuns,     \* bounds: runs of the sender,
  MaxFaults,   \*   calls that fail on the board,
  MaxExits,    \*   exits of the server,
  MaxCuts      \*   power cuts of the board

ASSUME PipelineAssumption ==
  /\ Cameras \in Nat \ {0} /\ Parts \in Nat \ {0}
  /\ Backlog \in Nat /\ BufferSize \in Nat \ {0}
  /\ MaxRuns \in Nat /\ MaxFaults \in Nat /\ MaxExits \in Nat /\ MaxCuts \in Nat

VARIABLES
  \* the board
  files,     \* what each name holds
  run,       \* number of the sender's run
  pc,        \* where the sender, or rotate.py for it, is
  cam,       \* the camera it is at
  todo,      \* image_files of rotate.py that are still to be turned
  at,        \* parts of the open file that have been sent
  link,      \* the sender's socket
  failed,    \* has a picture of this run not been taken or turned as it should?
  \* the network
  queue,     \* connections the server has not closed, in order
  \* the server
  server,    \* where it is
  img_cnt,
  received,  \* what received_image_<n>.jpg holds
  \* history and bounds
  made,      \* what went into each connection since the server started,
  clean,     \*   and the run that made it, if nothing had failed in it (else 0)
  faults, exits, cuts

boardVars  == <<files, run, pc, cam, todo, at, link, failed>>
serverVars == <<server, img_cnt, received>>
sentVars   == <<made, clean>>
vars == <<boardVars, queue, serverVars, sentVars, faults, exits, cuts>>

Names   == (1..Cameras) \X (0..MaxRuns)
\* What an image file holds: a picture, or what a write that failed has left
\* of one. A torn picture that is turned is torn, and long again.
Picture == [run : 1..MaxRuns, turns : 0..MaxRuns, torn : BOOLEAN, length : 0..Parts]
NoFile  == [run |-> 0, turns |-> 0, torn |-> FALSE, length |-> 0]
WholePicture(r, k) == [run |-> r, turns |-> k, torn |-> FALSE, length |-> Parts]
Part    == [camera : 1..Cameras, picture : Picture, number : 1..Parts]
Connection == [parts : Seq(Part), closed : BOOLEAN]

TypeOK ==
  /\ files \in [Names -> Picture \cup {NoFile}]
  /\ run \in 0..MaxRuns
  /\ pc \in {"idle", "take", "list", "rotate", "connect", "open", "send"}
  /\ cam \in 1..Cameras
  /\ todo \subseteq Names
  /\ at \in 0..Parts
  /\ link \in {"none", "up", "broken"}
  /\ failed \in BOOLEAN
  /\ queue \in Seq(Connection)
  /\ server \in {"accept", "recv", "down"}
  /\ img_cnt \in 0..Cameras * MaxRuns
  /\ received \in [0..Cameras * MaxRuns -> Seq(Part)]
  /\ made \in Seq(Seq(Part)) /\ clean \in Seq(0..MaxRuns)
  /\ faults \in 0..MaxFaults /\ exits \in 0..MaxExits /\ cuts \in 0..MaxCuts

\* All that a file holds.
Whole(c, p) == [i \in 1..p.length |-> [camera |-> c, picture |-> p, number |-> i]]

Init ==
  /\ files = [n \in Names |-> NoFile]
  /\ run = 0 /\ pc = "idle" /\ cam = 1 /\ todo = {} /\ at = 0
  /\ link = "none" /\ failed = FALSE
  /\ queue = <<>>
  /\ server = "accept" /\ img_cnt = 0
  /\ received = [n \in 0..Cameras * MaxRuns |-> <<>>]
  /\ made = <<>> /\ clean = <<>> /\ faults = 0 /\ exits = 0 /\ cuts = 0

-----------------------------------------------------------------------------
(* The sender takes its pictures ...                                       *)

StartRun ==
  /\ pc = "idle" /\ run < MaxRuns
  /\ run' = run + 1 /\ pc' = "take" /\ cam' = 1 /\ failed' = FALSE
  /\ UNCHANGED <<files, todo, at, link, queue, serverVars, sentVars, faults, exits, cuts>>

\* What main does when it is through with a camera.
NextCamera(now, after) ==
  /\ pc'  = IF cam < Cameras THEN now ELSE after
  /\ cam' = IF cam < Cameras THEN cam + 1 ELSE 1

take_picture ==
  /\ pc = "take"
  /\ files' = [files EXCEPT ![<<cam, 0>>] = WholePicture(run, 0)]
  /\ NextCamera("take", "list")
  /\ UNCHANGED <<run, todo, at, link, failed, queue, serverVars, sentVars, faults, exits, cuts>>

Fault == faults < MaxFaults /\ faults' = faults + 1

\* A write that fails, or is cut off, leaves the beginning of the file.
Torn(n, p) ==
  \E l \in 0..Parts - 1 : files' = [files EXCEPT ![n] = [p EXCEPT !.torn = TRUE, !.length = l]]

\* A call on the camera fails, or the file cannot be opened; or fwrite, whose
\* result is not looked at, fails when the file has been emptied. main does
\* not look at the result of take_picture either.
TakeFails ==
  /\ pc = "take" /\ failed' = TRUE /\ Fault
  /\ UNCHANGED files \/ Torn(<<cam, 0>>, WholePicture(run, 0))
  /\ NextCamera("take", "list")
  /\ UNCHANGED <<run, todo, at, link, queue, serverVars, sentVars, exits, cuts>>

-----------------------------------------------------------------------------
(* ... rotate.py turns them ...                                            *)

ListImages ==
  /\ pc = "list" /\ pc' = "rotate"
  /\ todo' = {n \in Names : files[n] # NoFile}
  /\ UNCHANGED <<files, run, cam, at, link, failed, queue, serverVars, sentVars, faults, exits, cuts>>

\* system cannot run it, or it cannot import cv2.
RotateMissing ==
  /\ pc = "list" /\ pc' = "connect" /\ failed' = TRUE /\ Fault
  /\ UNCHANGED <<files, run, cam, todo, at, link, queue, serverVars, sentVars, exits, cuts>>

Rotated(n) == <<n[1], n[2] + 1>>
Turned(p)  == [run |-> p.run, turns |-> p.turns + 1, torn |-> p.torn, length |-> Parts]

\* Variant: an image that has been turned before is left alone.
RotateNewImage(n) ==
  /\ pc = "rotate" /\ n \in todo
  /\ files' = IF files[Rotated(n)] = NoFile
              THEN [files EXCEPT ![Rotated(n)] = Turned(files[n])]
              ELSE files
  /\ todo' = todo \ {n}
  /\ UNCHANGED <<run, pc, cam, at, link, failed, queue, serverVars, sentVars, faults, exits, cuts>>

\* os.listdir has no order: the output of an earlier run may be turned
\* again before or after it is replaced. An empty file cannot be loaded, but
\* of a torn one imread returns what there is.
RotateImage(n) ==
  /\ pc = "rotate" /\ n \in todo /\ files[n].length > 0
  /\ files' = [files EXCEPT ![Rotated(n)] = Turned(files[n])]
  /\ todo' = todo \ {n}
  /\ UNCHANGED <<run, pc, cam, at, link, failed, queue, serverVars, sentVars, faults, exits, cuts>>

TornTurn(n) == files[n].length > 0 /\ Torn(Rotated(n), Turned(files[n]))

\* imread fails, as it may for a torn file at any time, or imwrite, before or
\* after it has emptied the file. It matters to this run when the image is
\* one of its own pictures.
RotateFails(n) ==
  /\ pc = "rotate" /\ n \in todo
  /\ \/ files[n].torn /\ UNCHANGED <<files, faults>>
     \/ Fault /\ (UNCHANGED files \/ TornTurn(n))
  /\ todo' = todo \ {n} /\ failed' = (failed \/ n[2] = 0)
  /\ UNCHANGED <<run, pc, cam, at, link, queue, serverVars, sentVars, exits, cuts>>

RotateDone ==
  /\ pc = "rotate" /\ todo = {} /\ pc' = "connect"
  /\ UNCHANGED <<files, run, cam, todo, at, link, failed, queue, serverVars, sentVars, faults, exits, cuts>>

-----------------------------------------------------------------------------
(* ... and client_jpg_sender sends them.                                   *)

\* The connections that wait to be accepted.
Waiting == IF server = "recv" THEN Len(queue) - 1 ELSE Len(queue)

\* The kernel of the server's machine accepts up to one connection more than
\* the backlog; then connect blocks.
Connect ==
  /\ pc = "connect" /\ server # "down" /\ Waiting <= Backlog
  /\ pc' = "open" /\ link' = "up"
  /\ queue' = Append(queue, [parts |-> <<>>, closed |-> FALSE])
  /\ made' = Append(made, <<>>)
  /\ clean' = Append(clean, IF failed THEN 0 ELSE run)
  /\ UNCHANGED <<files, run, cam, todo, at, failed, serverVars, faults, exits, cuts>>

\* The sockets of the sender are closed, by close or by the end of the
\* process.
CloseSocket ==
  /\ link' = "none"
  /\ queue' = IF link = "up"
              THEN [queue EXCEPT ![Len(queue)].closed = TRUE] ELSE queue

\* exit(EXIT_FAILURE): the remaining pictures are not sent.
Exit ==
  /\ pc' = "idle" /\ cam' = 1 /\ at' = 0
  /\ CloseSocket

ConnectFails ==
  /\ pc = "connect" /\ server = "down"
  /\ Exit
  /\ UNCHANGED <<files, run, todo, failed, serverVars, sentVars, faults, exits, cuts>>

\* The server is not reached, or not in time.
ConnectGivesUp ==
  /\ pc = "connect" /\ server # "down" /\ Fault
  /\ Exit
  /\ UNCHANGED <<files, run, todo, failed, serverVars, sentVars, exits, cuts>>

\* The file is opened when the connection is there.
OpenFile ==
  /\ pc = "open" /\ files[<<cam, 1>>] # NoFile
  /\ pc' = "send" /\ at' = 0
  /\ UNCHANGED <<files, run, cam, todo, link, failed, queue, serverVars, sentVars, faults, exits, cuts>>

\* Variant: return instead of exit, with the socket left open.
OpenFailsAndReturns ==
  /\ pc = "open" /\ files[<<cam, 1>>] = NoFile
  /\ NextCamera("connect", "idle")
  /\ at' = 0 /\ link' = "none"
  /\ UNCHANGED <<files, run, todo, failed, queue, serverVars, sentVars, faults, exits, cuts>>

OpenFails ==
  /\ pc = "open" /\ files[<<cam, 1>>] = NoFile
  /\ Exit
  /\ UNCHANGED <<files, run, todo, failed, serverVars, sentVars, faults, exits, cuts>>

ThisPart == [camera |-> cam, picture |-> files[<<cam, 1>>], number |-> at + 1]

\* Is there more to read? Variant: one read too many.
MoreThanFile(n) == at <= files[n].length
MoreToSend(n)   == at < files[n].length

SendPart ==
  /\ pc = "send" /\ MoreToSend(<<cam, 1>>)
  /\ link = "up" /\ Len(Last(queue).parts) < BufferSize
  /\ queue' = [queue EXCEPT ![Len(queue)].parts = Append(@, ThisPart)]
  /\ made' = [made EXCEPT ![Len(made)] = Append(@, ThisPart)] /\ UNCHANGED clean
  /\ at' = at + 1
  /\ UNCHANGED <<files, run, pc, cam, todo, link, failed, serverVars, faults, exits, cuts>>

\* send does not know yet that the server is gone ...
SendNowhere(n) ==
  /\ pc = "send" /\ MoreToSend(n) /\ link = "broken"
  /\ at' = at + 1
  /\ UNCHANGED <<files, run, pc, cam, todo, link, failed, queue, serverVars, sentVars, faults, exits, cuts>>

\* ... or it does: it returns -1, or SIGPIPE ends the process.
SendFails(n) ==
  /\ pc = "send" /\ MoreToSend(n) /\ link = "broken"
  /\ Exit
  /\ UNCHANGED <<files, run, todo, failed, serverVars, sentVars, faults, exits, cuts>>

\* Variant: the socket is not closed.
FileSentAndLeftOpen ==
  /\ pc = "send" /\ ~MoreToSend(<<cam, 1>>)
  /\ NextCamera("connect", "idle")
  /\ at' = 0 /\ link' = "none"
  /\ UNCHANGED <<files, run, todo, failed, queue, serverVars, sentVars, faults, exits, cuts>>

FileSent ==
  /\ pc = "send" /\ ~MoreToSend(<<cam, 1>>)
  /\ NextCamera("connect", "idle")
  /\ at' = 0 /\ CloseSocket
  /\ UNCHANGED <<files, run, todo, failed, serverVars, sentVars, faults, exits, cuts>>

SenderStep ==
  \/ take_picture \/ TakeFails
  \/ ListImages \/ RotateMissing \/ RotateDone
  \/ \E n \in Names : RotateImage(n) \/ RotateFails(n)
  \/ Connect \/ ConnectFails \/ OpenFile \/ OpenFails
  \/ SendPart \/ SendNowhere(<<cam, 1>>) \/ SendFails(<<cam, 1>>) \/ FileSent

\* The file that is being written while a picture is taken or turned.
Unfinished ==
  \/ pc = "take" /\ Torn(<<cam, 0>>, WholePicture(run, 0))
  \/ pc = "rotate" /\ \E n \in todo : TornTurn(n)

\* The board stops. Nobody closes its connection, and what its kernel has
\* not sent yet is gone.
PowerCut ==
  /\ pc # "idle" /\ cuts < MaxCuts /\ cuts' = cuts + 1
  /\ pc' = "idle" /\ cam' = 1 /\ todo' = {} /\ at' = 0 /\ link' = "none"
  /\ IF link = "up"
     THEN \E n \in 0..Len(Last(queue).parts) :
            queue' = [queue EXCEPT ![Len(queue)].parts = SubSeq(@, 1, n)]
     ELSE queue' = queue
  /\ UNCHANGED files \/ Unfinished
  /\ UNCHANGED <<run, failed, serverVars, sentVars, faults, exits>>

-----------------------------------------------------------------------------
(* The server.                                                             *)

\* Variant: the file is opened without O_TRUNC and written at its end.
AcceptAndAppend ==
  /\ server = "accept" /\ queue # <<>>
  /\ server' = "recv"
  /\ UNCHANGED <<boardVars, queue, img_cnt, received, sentVars, faults, exits, cuts>>

Accept ==
  /\ server = "accept" /\ queue # <<>>
  /\ server' = "recv"
  /\ received' = [received EXCEPT ![img_cnt] = <<>>]
  /\ UNCHANGED <<boardVars, queue, img_cnt, sentVars, faults, exits, cuts>>

ReceivePart ==
  /\ server = "recv" /\ Head(queue).parts # <<>>
  /\ received' = [received EXCEPT ![img_cnt] = Append(@, Head(Head(queue).parts))]
  /\ queue' = [queue EXCEPT ![1].parts = Tail(@)]
  /\ UNCHANGED <<boardVars, server, img_cnt, sentVars, faults, exits, cuts>>

\* Variant: recv does not wait.
EndOfData ==
  /\ server = "recv" /\ Head(queue).parts = <<>>
  /\ server' = "accept" /\ img_cnt' = img_cnt + 1
  /\ queue' = Tail(queue)
  /\ link' = IF Len(queue) = 1 /\ link = "up" THEN "broken" ELSE link
  /\ UNCHANGED <<files, run, pc, cam, todo, at, failed, received, sentVars, faults, exits, cuts>>

EndOfFile ==
  /\ server = "recv" /\ Head(queue).parts = <<>> /\ Head(queue).closed
  /\ server' = "accept" /\ img_cnt' = img_cnt + 1
  /\ queue' = Tail(queue)
  /\ UNCHANGED <<boardVars, received, sentVars, faults, exits, cuts>>

ServerStep == Accept \/ ReceivePart \/ EndOfFile

\* accept, open, recv or write fails, or the server is stopped: it exits,
\* and every connection with it.
ServerExits ==
  /\ server # "down" /\ exits < MaxExits /\ exits' = exits + 1
  /\ server' = "down" /\ queue' = <<>>
  /\ link' = IF link = "up" THEN "broken" ELSE link
  /\ UNCHANGED <<files, run, pc, cam, todo, at, failed, img_cnt, received, sentVars, faults, cuts>>

\* img_cnt begins at 0 again.
ServerStarts ==
  /\ server = "down" /\ server' = "accept"
  /\ img_cnt' = 0 /\ made' = <<>> /\ clean' = <<>>
  /\ UNCHANGED <<boardVars, queue, received, faults, exits, cuts>>

Next ==
  \/ StartRun \/ SenderStep \/ ConnectGivesUp \/ PowerCut
  \/ ServerStep \/ ServerExits \/ ServerStarts

\* Both processes go on. Nobody has to start a run, or the server again; and
\* no connection has to fail while the server is there.
Spec == Init /\ [][Next]_vars /\ WF_vars(SenderStep) /\ WF_vars(ServerStep)

-----------------------------------------------------------------------------
(* Properties.                                                             *)

\* File n holds what connection n since the start of the server brought, so
\* far or, when the file is finished, completely: connections that wait, or
\* that a new run of the sender makes, do not mix, and nothing of a file
\* from before the start is left in it. (A power cut loses the end.)
ReceivedInOrder ==
  server # "down" =>
    /\ \A n \in 0..img_cnt - 1 :
         /\ IsPrefix(received[n], made[n + 1])
         /\ cuts = 0 => received[n] = made[n + 1]
    /\ server = "recv" => IsPrefix(received[img_cnt], made[img_cnt + 1])

\* A finished file is empty, when the sender had nothing to send, or all that
\* one file of the board held, an image turned once, however often rotate.py
\* has been run over its own output. It is a whole picture, and of the run
\* that sent it, if cameras, writes and rotate.py had worked in that run,
\* whatever torn and old files earlier runs and power cuts have left.
WholeOrEmpty ==
  server # "down" /\ cuts = 0 =>
    \A n \in 0..img_cnt - 1 :
      /\ received[n] # <<>> =>
           \E c \in 1..Cameras, p \in Picture : p.turns = 1 /\ received[n] = Whole(c, p)
      /\ clean[n + 1] # 0 =>
           \E c \in 1..Cameras : received[n] = Whole(c, WholePicture(clean[n + 1], 1))

\* Nor is anything else under way in such a run, when the power was cut in an
\* earlier one.
SentIsFresh == pc = "send" /\ ~failed => files[<<cam, 1>>] = WholePicture(run, 1)

\* A run of the sender ends: it does not wait for ever for a server that is
\* busy with an earlier connection, or gone. A board that lost its power
\* inside a connection is the exception, since the server waits for it.
RunEnds == pc # "idle" ~> pc = "idle" \/ cuts > 0

\* Every connection becomes a finished file.
EveryConnectionServed ==
  \A n \in 1..Cameras * MaxRuns :
    Len(made) >= n ~> img_cnt >= n \/ exits > 0 \/ cuts > 0
=============================================================================
