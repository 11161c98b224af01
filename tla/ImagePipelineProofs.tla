------------------------ MODULE ImagePipelineProofs ------------------------
(***************************************************************************)
(* Freshness of what the camera pipeline sends, and order and completeness *)
(* of what the server writes, for any numbers of cameras, parts, runs,     *)
(* exits and power cuts; order and completeness also for the server in     *)
(* JavaScript with the sender that does not turn its pictures.             *)
(***************************************************************************)
EXTENDS ImageServerJs, SequenceTheorems, TLAPS

\* What an image file is, before anything is known of its bounds.
File == [run : Nat, turns : Nat, torn : BOOLEAN, length : Nat]

BoardTypeOK ==
  /\ files \in [Names -> File]
  /\ run \in 0..MaxRuns
  /\ pc \in {"idle", "take", "list", "rotate", "connect", "open", "send"}
  /\ pc # "idle" => run >= 1
  /\ cam \in 1..Cameras
  /\ todo \subseteq Names
  /\ failed \in BOOLEAN

\* Does the name hold the whole picture of this run?
Fresh(c, k) == files[<<c, k>>] = WholePicture(run, k)

\* Where the run has got to, when nothing failed in it.
Progress ==
  ~failed =>
    /\ pc = "take" => \A c \in 1..Cameras : c < cam => Fresh(c, 0)
    /\ pc \in {"list", "rotate"} => \A c \in 1..Cameras : Fresh(c, 0)
    /\ pc = "rotate" => \A c \in 1..Cameras : <<c, 0>> \notin todo => Fresh(c, 1)
    /\ pc \in {"connect", "open", "send"} => \A c \in 1..Cameras : Fresh(c, 1)

FreshInv == BoardTypeOK /\ Progress

-----------------------------------------------------------------------------
USE DEF sentVars

LEMMA Constants ==
  /\ Cameras \in Nat /\ Cameras >= 1 /\ MaxRuns \in Nat
  BY PipelineAssumption

LEMMA NamesType ==
  ASSUME NEW c \in 1..Cameras, NEW k \in 0..MaxRuns PROVE <<c, k>> \in Names
  BY DEF Names

LEMMA WholeType ==
  ASSUME NEW r \in Nat, NEW k \in Nat
  PROVE  /\ WholePicture(r, k) \in File
         /\ r \in 1..MaxRuns /\ k \in 0..MaxRuns => WholePicture(r, k) \in Picture
         /\ WholePicture(r, k).run = r /\ WholePicture(r, k).turns = k
         /\ WholePicture(r, k).length = Parts
         /\ r >= 1 => WholePicture(r, k) # NoFile
         /\ Turned(WholePicture(r, k)) = WholePicture(r, k + 1)
<1>1. Parts \in Nat /\ Parts \in 0..Parts
  BY PipelineAssumption
<1> DEFINE p == [run |-> r, turns |-> k, torn |-> FALSE, length |-> Parts]
<1>2. WholePicture(r, k) = p
  BY DEF WholePicture
<1>3. p \in File /\ (r \in 1..MaxRuns /\ k \in 0..MaxRuns => p \in Picture)
  BY <1>1 DEF File, Picture
<1>4. p.run = r /\ p.turns = k /\ p.length = Parts
  OBVIOUS
<1>5. r >= 1 => p # NoFile
  <2>1. NoFile.run = 0
    BY DEF NoFile
  <2> QED
    BY <1>4, <2>1
<1>6. Turned(p) = [run |-> r, turns |-> k + 1, torn |-> FALSE, length |-> Parts]
  BY DEF Turned
<1>7. Turned(p) = WholePicture(r, k + 1)
  BY <1>6 DEF WholePicture
<1> HIDE DEF p
<1> QED
  BY <1>2, <1>3, <1>4, <1>5, <1>7

LEMMA TurnedType ==
  ASSUME NEW p \in File PROVE Turned(p) \in File /\ Turned(p).run = p.run /\ Turned(p).turns = p.turns + 1
<1>1. Parts \in Nat
  BY PipelineAssumption
<1>2. p.turns + 1 \in Nat
  BY DEF File
<1> QED
  BY <1>1, <1>2 DEF Turned, File

\* What a write that is cut off leaves of p.
LEMMA TornIs ==
  ASSUME NEW n, NEW p \in File, Torn(n, p)
  PROVE  \E q \in File : /\ files' = [files EXCEPT ![n] = q]
                         /\ q.run = p.run /\ q.turns = p.turns
                         /\ p \in Picture => q \in Picture
<1>1. PICK l \in 0..Parts - 1 :
        files' = [files EXCEPT ![n] = [p EXCEPT !.torn = TRUE, !.length = l]]
  BY DEF Torn
<1>2. l \in Nat /\ l \in 0..Parts
  BY PipelineAssumption
<1> DEFINE q == [p EXCEPT !.torn = TRUE, !.length = l]
<1>3. q \in File /\ q.run = p.run /\ q.turns = p.turns
  BY <1>2 DEF File
<1>4. p \in Picture => q \in Picture
  BY <1>2 DEF Picture
<1> QED
  BY <1>1, <1>3, <1>4

LEMMA InitFresh == Init => FreshInv
<1> SUFFICES ASSUME Init PROVE FreshInv
  OBVIOUS
<1>1. BoardTypeOK
  <2>1. NoFile \in File
    BY DEF NoFile, File
  <2>2. 1 \in 1..Cameras /\ 0 \in 0..MaxRuns
    BY Constants
  <2>3. files \in [Names -> File]
    BY <2>1 DEF Init
  <2>4. run \in 0..MaxRuns /\ cam \in 1..Cameras
    BY <2>2 DEF Init
  <2>5. pc = "idle" /\ failed \in BOOLEAN
    BY DEF Init
  <2> QED
    BY <2>3, <2>4, <2>5 DEF Init, BoardTypeOK
<1>2. Progress
  BY DEF Init, Progress
<1> QED
  BY <1>1, <1>2 DEF FreshInv

LEMMA NextFresh == FreshInv /\ [Next]_vars => FreshInv'
<1> SUFFICES ASSUME FreshInv, [Next]_vars PROVE FreshInv'
  OBVIOUS
<1> USE Constants DEF FreshInv, boardVars, serverVars
<1>1. CASE StartRun
  <2>1. BoardTypeOK'
    <3>1. run' \in 0..MaxRuns /\ run' >= 1 /\ cam' \in 1..Cameras
      BY <1>1 DEF StartRun, BoardTypeOK
    <3> QED
      BY <1>1, <3>1 DEF StartRun, BoardTypeOK
  <2>2. Progress'
    BY <1>1 DEF StartRun, Progress
  <2> QED
    BY <2>1, <2>2
<1>2. CASE take_picture
  <2>1. <<cam, 0>> \in Names /\ run >= 1 /\ run \in Nat /\ WholePicture(run, 0) \in File
    BY <1>2, NamesType, WholeType DEF take_picture, BoardTypeOK
  <2>2. BoardTypeOK'
    <3>1. files' \in [Names -> File]
      BY <1>2, <2>1 DEF take_picture, BoardTypeOK
    <3> QED
      BY <1>2, <2>1, <3>1 DEF take_picture, NextCamera, BoardTypeOK
  <2>3. ASSUME ~failed, NEW c \in 1..Cameras, c <= cam PROVE Fresh(c, 0)'
    <3>1. <<c, 0>> \in Names
      BY NamesType
    <3>2. CASE c = cam
      BY <1>2, <2>1, <3>2 DEF take_picture, BoardTypeOK, Fresh
    <3>3. CASE c < cam
      BY <1>2, <2>1, <2>3, <3>1, <3>3 DEF take_picture, BoardTypeOK, Progress, Fresh
    <3> QED
      BY <2>3, <3>2, <3>3 DEF BoardTypeOK
  <2>4. Progress'
    <3>1. CASE cam < Cameras
      BY <1>2, <2>3, <3>1 DEF take_picture, NextCamera, BoardTypeOK, Progress
    <3>2. CASE cam = Cameras
      BY <1>2, <2>3, <3>2 DEF take_picture, NextCamera, BoardTypeOK, Progress
    <3> QED
      BY <3>1, <3>2 DEF BoardTypeOK
  <2> QED
    BY <2>2, <2>4
<1>3. CASE TakeFails
  <2>1. run \in Nat /\ WholePicture(run, 0) \in File
    BY WholeType DEF BoardTypeOK
  <2>2. files' \in [Names -> File]
    <3>1. CASE UNCHANGED files
      BY <3>1 DEF BoardTypeOK
    <3>2. CASE Torn(<<cam, 0>>, WholePicture(run, 0))
      BY <2>1, <3>2, TornIs DEF BoardTypeOK
    <3> QED
      BY <1>3, <3>1, <3>2 DEF TakeFails
  <2> QED
    BY <1>3, <2>2 DEF TakeFails, NextCamera, BoardTypeOK, Progress
<1>4. CASE ListImages
  <2>1. BoardTypeOK'
    BY <1>4 DEF ListImages, BoardTypeOK
  <2>2. ASSUME ~failed, NEW c \in 1..Cameras PROVE <<c, 0>> \in todo'
    <3>1. <<c, 0>> \in Names
      BY NamesType
    <3>2. files[<<c, 0>>] = WholePicture(run, 0) /\ run >= 1 /\ run \in Nat
      BY <1>4, <2>2 DEF ListImages, BoardTypeOK, Progress, Fresh
    <3>3. files[<<c, 0>>] # NoFile
      BY <3>2, WholeType
    <3> QED
      BY <1>4, <3>1, <3>3 DEF ListImages
  <2>3. Progress'
    BY <1>4, <2>2 DEF ListImages, Progress, Fresh
  <2> QED
    BY <2>1, <2>3
<1>5. CASE RotateMissing
  BY <1>5 DEF RotateMissing, BoardTypeOK, Progress
<1>6. ASSUME NEW n \in Names, RotateImage(n) PROVE FreshInv'
  <2>1. Turned(files[n]) \in File /\ run \in Nat
    BY TurnedType DEF BoardTypeOK
  <2>2. BoardTypeOK'
    <3>1. files' \in [Names -> File]
      BY <1>6, <2>1 DEF RotateImage, BoardTypeOK
    <3> QED
      BY <1>6, <3>1 DEF RotateImage, BoardTypeOK
  <2>3. ASSUME ~failed, NEW c \in 1..Cameras PROVE Fresh(c, 0)'
    <3>1. <<c, 0>> \in Names
      BY NamesType
    <3>2. Rotated(n) # <<c, 0>>
      BY DEF Rotated, Names
    <3>3. files'[<<c, 0>>] = files[<<c, 0>>]
      BY <1>6, <3>1, <3>2 DEF RotateImage, BoardTypeOK
    <3> QED
      BY <1>6, <2>3, <3>3 DEF RotateImage, Progress, Fresh
  <2>4. ASSUME ~failed, NEW c \in 1..Cameras, <<c, 0>> \notin todo' PROVE Fresh(c, 1)'
    <3>1. <<c, 0>> \in Names /\ <<c, 1>> \in Names
      BY <1>6, NamesType DEF RotateImage, BoardTypeOK
    <3>2. CASE n = <<c, 0>>
      <4>1. Rotated(n) = <<c, 1>>
        BY <3>2 DEF Rotated
      <4>2. files'[<<c, 1>>] = Turned(files[n])
        BY <1>6, <2>1, <3>1, <4>1 DEF RotateImage, BoardTypeOK
      <4>3. files[n] = WholePicture(run, 0) /\ run' = run
        BY <1>6, <2>4, <3>2 DEF RotateImage, Progress, Fresh
      <4>4. run \in Nat /\ 0 \in Nat /\ 0 + 1 = 1
        BY Constants DEF BoardTypeOK
      <4>5. Turned(WholePicture(run, 0)) = WholePicture(run, 1)
        BY <4>4, WholeType
      <4> QED
        BY <4>2, <4>3, <4>5 DEF Fresh
    <3>3. CASE n # <<c, 0>>
      <4>1. Rotated(n) # <<c, 1>>
        BY <3>3 DEF Rotated, Names
      <4>2. files'[<<c, 1>>] = files[<<c, 1>>]
        BY <1>6, <3>1, <4>1 DEF RotateImage, BoardTypeOK
      <4>3. <<c, 0>> \notin todo
        BY <1>6, <2>4, <3>3 DEF RotateImage
      <4> QED
        BY <1>6, <2>4, <4>2, <4>3 DEF RotateImage, Progress, Fresh
    <3> QED
      BY <3>2, <3>3
  <2>5. Progress'
    BY <1>6, <2>3, <2>4 DEF RotateImage, Progress
  <2> QED
    BY <2>2, <2>5
<1>7. ASSUME NEW n \in Names, RotateFails(n) PROVE FreshInv'
  <2>1. /\ pc = "rotate" /\ todo' = todo \ {n} /\ failed' = (failed \/ n[2] = 0)
        /\ UNCHANGED <<run, pc, cam>>
        /\ UNCHANGED files \/ TornTurn(n)
    BY <1>7 DEF RotateFails
  <2>2. /\ files' \in [Names -> File]
        /\ \A m \in Names : m # Rotated(n) => files'[m] = files[m]
    <3>1. CASE UNCHANGED files
      BY <3>1 DEF BoardTypeOK
    <3>2. CASE TornTurn(n)
      <4>1. Turned(files[n]) \in File
        BY TurnedType DEF BoardTypeOK
      <4>2. PICK q \in File : files' = [files EXCEPT ![Rotated(n)] = q]
        BY <3>2, <4>1, TornIs DEF TornTurn
      <4> QED
        BY <4>2 DEF BoardTypeOK
    <3> QED
      BY <2>1, <3>1, <3>2
  <2>3. BoardTypeOK'
    BY <2>1, <2>2 DEF BoardTypeOK
  <2>4. ASSUME ~failed', NEW c \in 1..Cameras
        PROVE  Fresh(c, 0)' /\ (<<c, 0>> \notin todo' => Fresh(c, 1)')
    <3>1. ~failed /\ n[2] # 0
      BY <2>1, <2>4
    <3>2. <<c, 0>> \in Names /\ <<c, 1>> \in Names
      BY <2>1, NamesType DEF BoardTypeOK
    <3>3. Rotated(n) # <<c, 0>> /\ Rotated(n) # <<c, 1>> /\ n # <<c, 0>>
      <4>1. n[2] \in Nat
        BY DEF Names
      <4> QED
        BY <3>1, <4>1 DEF Rotated
    <3>4. files'[<<c, 0>>] = files[<<c, 0>>] /\ files'[<<c, 1>>] = files[<<c, 1>>]
      BY <2>2, <3>2, <3>3
    <3>5. <<c, 0>> \notin todo' => <<c, 0>> \notin todo
      BY <2>1, <3>3
    <3> QED
      BY <2>1, <3>1, <3>4, <3>5 DEF Progress, Fresh
  <2>5. Progress'
    BY <2>1, <2>4 DEF Progress
  <2> QED
    BY <2>3, <2>5
<1>8. CASE RotateDone
  BY <1>8 DEF RotateDone, BoardTypeOK, Progress, Fresh
<1>9. CASE Connect \/ OpenFile \/ SendPart \/ SendNowhere(<<cam, 1>>)
  BY <1>9 DEF Connect, OpenFile, SendPart, SendNowhere, BoardTypeOK, Progress, Fresh
<1>10. CASE ConnectFails \/ ConnectGivesUp \/ OpenFails \/ SendFails(<<cam, 1>>)
  BY <1>10 DEF ConnectFails, ConnectGivesUp, OpenFails, SendFails, Exit, CloseSocket, BoardTypeOK, Progress
<1>11. CASE FileSent
  BY <1>11 DEF FileSent, NextCamera, CloseSocket, BoardTypeOK, Progress, Fresh
<1>12. CASE PowerCut
  <2>1. files' \in [Names -> File]
    <3>1. CASE UNCHANGED files
      BY <3>1 DEF BoardTypeOK
    <3>2. CASE Torn(<<cam, 0>>, WholePicture(run, 0))
      <4>1. WholePicture(run, 0) \in File
        BY WholeType DEF BoardTypeOK
      <4> QED
        BY <3>2, <4>1, TornIs DEF BoardTypeOK
    <3>3. ASSUME NEW n \in todo, files[n].length > 0, Torn(Rotated(n), Turned(files[n]))
          PROVE  files' \in [Names -> File]
      <4>1. CASE n \in Names
        <5>1. Turned(files[n]) \in File
          BY <4>1, TurnedType DEF BoardTypeOK
        <5> QED
          BY <3>3, <5>1, TornIs DEF BoardTypeOK
      <4> QED
        BY <4>1 DEF BoardTypeOK
    <3> QED
      BY <1>12, <3>1, <3>2, <3>3 DEF PowerCut, Unfinished, TornTurn
  <2> QED
    BY <1>12, <2>1, Constants DEF PowerCut, BoardTypeOK, Progress
<1>13. CASE ServerStep \/ ServerExits \/ ServerStarts
  BY <1>13 DEF ServerStep, Accept, ReceivePart, EndOfFile, ServerExits, ServerStarts,
               BoardTypeOK, Progress, Fresh
<1>14. CASE UNCHANGED vars
  BY <1>14 DEF vars, BoardTypeOK, Progress, Fresh
<1> QED
  BY <1>1, <1>2, <1>3, <1>4, <1>5, <1>6, <1>7, <1>8, <1>9, <1>10, <1>11, <1>12,
     <1>13, <1>14 DEF Next, SenderStep

-----------------------------------------------------------------------------
\* When every camera, every write and rotate.py have worked in a run,
\* client_jpg_sender sends only whole pictures that were taken in it, whatever
\* the order in which rotate.py goes over its own earlier output, and whatever
\* torn files earlier runs have left.
THEOREM SentFresh == Spec => []SentIsFresh
<1>1. FreshInv => SentIsFresh
  BY DEF FreshInv, BoardTypeOK, Progress, Fresh, SentIsFresh
<1> QED
  BY InitFresh, NextFresh, <1>1, PTL DEF Spec

-----------------------------------------------------------------------------
(* The way of the parts, for the server's side of the pipeline.            *)

MaxFiles == Cameras * MaxRuns

\* Connections the sender can still make.
Left ==
  Cameras * (MaxRuns - run)
    + (CASE pc = "idle"                     -> 0
         [] pc \in {"take", "list", "rotate"} -> Cameras
         [] pc = "connect"                  -> Cameras - cam + 1
         [] pc \in {"open", "send"}         -> Cameras - cam)

\* A file with k turns is there from run k on, and is itself turned in the
\* next one. What is being sent is there.
FilesInv ==
  /\ \A c \in 1..Cameras, k \in 0..MaxRuns :
       files[<<c, k>>] # NoFile =>
         /\ files[<<c, k>>].turns = k
         /\ k <= run /\ (pc \in {"take", "list"} => k < run)
         /\ pc = "rotate" /\ <<c, k>> \in todo => k < run
  /\ pc = "rotate" => \A n \in todo : files[n] # NoFile
  /\ pc = "send" => files[<<cam, 1>>] # NoFile /\ at <= files[<<cam, 1>>].length
  /\ pc # "send" => at = 0
  /\ pc \in {"list", "rotate"} => cam = 1

\* Connections are numbered alike on both sides.
CountInv ==
  /\ server # "down" => Len(made) = img_cnt + Len(queue)
  /\ Len(made) + Left <= MaxFiles
  /\ img_cnt <= Len(made)
  /\ server = "recv" => queue # <<>>
  /\ server = "down" => queue = <<>> /\ link # "up"
  /\ link = "up" => queue # <<>> /\ pc \in {"open", "send"} /\ ~Last(queue).closed
  /\ pc \in {"open", "send"} <=> link # "none"

\* What connection n has brought so far, to the file and on its way.
Brought(n) ==
  IF n <= img_cnt THEN received[n - 1]
  ELSE IF n = img_cnt + 1 /\ server = "recv" THEN received[img_cnt] \o queue[1].parts
  ELSE queue[n - img_cnt].parts

Begins(s, t) == Len(s) <= Len(t) /\ \A i \in 1..Len(s) : s[i] = t[i]

\* It is the beginning of what went in, and all of it while the sender has
\* the connection or no power cut has taken anything away.
Flows(n) ==
  /\ Begins(Brought(n), made[n])
  /\ cuts = 0 \/ (n = Len(made) /\ link = "up") => Len(Brought(n)) = Len(made[n])

FlowInv == server # "down" => \A n \in 1..Len(made) : Flows(n)

\* A finished connection has brought nothing or all of one file with k turns,
\* and the whole picture of run r if it is known to be clean.
Sound(s, r, k) ==
  /\ s # <<>> => \E c \in 1..Cameras, p \in Picture : p.turns = k /\ s = Whole(c, p)
  /\ r # 0 => \E c \in 1..Cameras : s = Whole(c, WholePicture(r, k))

\* The sender's connection has brought what the sender has read of its file.
Held(k) ==
  /\ Len(made[Len(made)]) = at
  /\ \A i \in 1..at : made[Len(made)][i] = Whole(cam, files[<<cam, k>>])[i]
  /\ clean[Len(made)] # 0 => clean[Len(made)] = run /\ ~failed

CleanInv == Len(clean) = Len(made)

MadeInv ==
  server # "down" /\ cuts = 0 =>
    /\ \A n \in 1..Len(made) : (n = Len(made) /\ link = "up") \/ Sound(made[n], clean[n], 1)
    /\ link = "up" => Held(1)

PipeInv == FreshInv /\ TypeOK /\ FilesInv /\ CountInv /\ CleanInv /\ FlowInv /\ MadeInv

-----------------------------------------------------------------------------
(* Sequences.                                                              *)

LEMMA SetParts ==
  ASSUME NEW q \in Seq(Connection), NEW k \in 1..Len(q), NEW p \in Seq(Part)
  PROVE  LET r == [q EXCEPT ![k].parts = p]
         IN  /\ r \in Seq(Connection) /\ Len(r) = Len(q)
             /\ \A j \in 1..Len(q) : /\ r[j].parts = IF j = k THEN p ELSE q[j].parts
                                     /\ r[j].closed = q[j].closed
<1>1. q[k] \in Connection
  BY ElementOfSeq
<1>2. [q[k] EXCEPT !.parts = p] \in Connection
  BY <1>1 DEF Connection
<1>3. [q EXCEPT ![k].parts = p] = [q EXCEPT ![k] = [q[k] EXCEPT !.parts = p]]
  OBVIOUS
<1>4. /\ [q EXCEPT ![k] = [q[k] EXCEPT !.parts = p]] \in Seq(Connection)
      /\ Len([q EXCEPT ![k] = [q[k] EXCEPT !.parts = p]]) = Len(q)
      /\ \A j \in 1..Len(q) : [q EXCEPT ![k] = [q[k] EXCEPT !.parts = p]][j]
                               = IF j = k THEN [q[k] EXCEPT !.parts = p] ELSE q[j]
  BY <1>2, ExceptSeq
<1>5. /\ [q[k] EXCEPT !.parts = p].parts = p
      /\ [q[k] EXCEPT !.parts = p].closed = q[k].closed
  BY <1>1 DEF Connection
<1> QED
  BY <1>3, <1>4, <1>5

LEMMA SetClosed ==
  ASSUME NEW q \in Seq(Connection), NEW k \in 1..Len(q)
  PROVE  LET r == [q EXCEPT ![k].closed = TRUE]
         IN  /\ r \in Seq(Connection) /\ Len(r) = Len(q)
             /\ \A j \in 1..Len(q) : r[j].parts = q[j].parts
<1>1. q[k] \in Connection
  BY ElementOfSeq
<1>2. [q[k] EXCEPT !.closed = TRUE] \in Connection /\ [q[k] EXCEPT !.closed = TRUE].parts = q[k].parts
  BY <1>1 DEF Connection
<1>3. [q EXCEPT ![k].closed = TRUE] = [q EXCEPT ![k] = [q[k] EXCEPT !.closed = TRUE]]
  OBVIOUS
<1>4. /\ [q EXCEPT ![k] = [q[k] EXCEPT !.closed = TRUE]] \in Seq(Connection)
      /\ Len([q EXCEPT ![k] = [q[k] EXCEPT !.closed = TRUE]]) = Len(q)
      /\ \A j \in 1..Len(q) : [q EXCEPT ![k] = [q[k] EXCEPT !.closed = TRUE]][j]
                               = IF j = k THEN [q[k] EXCEPT !.closed = TRUE] ELSE q[j]
  BY <1>2, ExceptSeq
<1> QED
  BY <1>2, <1>3, <1>4

LEMMA Product ==
  ASSUME NEW a \in Nat, NEW b \in Nat
  PROVE  a * b \in Nat /\ (b > 0 => a * b = a * (b - 1) + a)
OBVIOUS

LEMMA LeftIs ==
  ASSUME TypeOK
  PROVE  /\ Cameras * (MaxRuns - run) \in Nat /\ MaxFiles \in Nat
         /\ pc = "idle" => Left = Cameras * (MaxRuns - run)
         /\ pc \in {"take", "list", "rotate"} => Left = Cameras * (MaxRuns - run) + Cameras
         /\ pc = "connect" => Left = Cameras * (MaxRuns - run) + Cameras - cam + 1
         /\ pc \in {"open", "send"} => Left = Cameras * (MaxRuns - run) + Cameras - cam
         /\ Left \in Nat
<1>1. MaxRuns - run \in Nat /\ Cameras \in Nat /\ MaxRuns \in Nat /\ cam \in 1..Cameras
  BY Constants DEF TypeOK
<1>2. Cameras * (MaxRuns - run) \in Nat /\ MaxFiles \in Nat
  BY <1>1, Product DEF MaxFiles
<1> HIDE DEF MaxFiles
<1>3. CASE pc = "idle"
  BY <1>1, <1>2, <1>3 DEF Left
<1>4. CASE pc \in {"take", "list", "rotate"}
  BY <1>1, <1>2, <1>4 DEF Left
<1>5. CASE pc = "connect"
  BY <1>1, <1>2, <1>5 DEF Left
<1>6. CASE pc \in {"open", "send"}
  BY <1>1, <1>2, <1>6 DEF Left
<1> QED
  BY <1>2, <1>3, <1>4, <1>5, <1>6 DEF TypeOK

-----------------------------------------------------------------------------
(* Types and files.                                                        *)

LEMMA PictureIsFile ==
  ASSUME NEW p \in Picture PROVE p \in File
  BY Constants, PipelineAssumption DEF Picture, File

LEMMA PictureTurned ==
  ASSUME TypeOK, FilesInv, NEW n \in Names, pc = "rotate", n \in todo,
         files' = [files EXCEPT ![Rotated(n)] = Turned(files[n])] \/ TornTurn(n)
  PROVE  /\ Rotated(n) \in Names /\ n[2] < run
         /\ \E p \in Picture : files' = [files EXCEPT ![Rotated(n)] = p] /\ p.turns = n[2] + 1
<1>1. PICK c \in 1..Cameras, k \in 0..MaxRuns : n = <<c, k>>
  BY DEF Names
<1>2. files[n] # NoFile
  BY DEF FilesInv
<1>3. k < run /\ files[n].turns = k
  BY <1>1, <1>2 DEF FilesInv
<1>4. run \in 0..MaxRuns /\ MaxRuns \in Nat
  BY Constants DEF TypeOK
<1>5. Rotated(n) = <<c, k + 1>> /\ k + 1 \in 0..MaxRuns
  BY <1>1, <1>3, <1>4 DEF Rotated
<1>6. files[n] \in Picture
  BY <1>2 DEF TypeOK
<1>7. Turned(files[n]) \in Picture /\ Turned(files[n]).turns = k + 1
  BY <1>3, <1>5, <1>6, PipelineAssumption DEF Picture, Turned
<1>8. \E p \in Picture : files' = [files EXCEPT ![Rotated(n)] = p] /\ p.turns = k + 1
  <2>1. CASE files' = [files EXCEPT ![Rotated(n)] = Turned(files[n])]
    BY <1>7, <2>1
  <2>2. CASE TornTurn(n)
    BY <1>7, <2>2, TornIs, PictureIsFile DEF TornTurn
  <2> QED
    BY <2>1, <2>2
<1> QED
  BY <1>1, <1>3, <1>5, <1>8, NamesType

\* What a failing or a cut off take_picture leaves.
LEMMA PictureTaken ==
  ASSUME TypeOK, run >= 1, Torn(<<cam, 0>>, WholePicture(run, 0))
  PROVE  \E p \in Picture : files' = [files EXCEPT ![<<cam, 0>>] = p] /\ p.turns = 0
<1>1. run \in Nat /\ run \in 1..MaxRuns /\ 0 \in 0..MaxRuns
  BY Constants DEF TypeOK
<1>2. /\ WholePicture(run, 0) \in File /\ WholePicture(run, 0) \in Picture
      /\ WholePicture(run, 0).turns = 0
  BY <1>1, WholeType
<1> QED
  BY <1>2, TornIs

LEMMA PictureIsSomething ==
  ASSUME NEW p \in Picture PROVE p # NoFile /\ p.length \in 0..Parts
  BY Constants DEF Picture, NoFile

LEMMA ThisPartType ==
  ASSUME FreshInv, TypeOK, FilesInv, pc = "send", MoreToSend(<<cam, 1>>)
  PROVE  /\ ThisPart \in Part /\ files[<<cam, 1>>] \in Picture /\ at + 1 \in 0..Parts
         /\ ThisPart = Whole(cam, files[<<cam, 1>>])[at + 1]
<1>1. cam \in 1..Cameras /\ at \in Nat /\ Parts \in Nat
  BY PipelineAssumption DEF TypeOK
<1>2. files[<<cam, 1>>] # NoFile
  BY DEF FilesInv
<1>3. 1 \in 0..MaxRuns
  BY Constants DEF FreshInv, BoardTypeOK
<1>4. files[<<cam, 1>>] \in Picture
  BY <1>1, <1>2, <1>3, NamesType DEF TypeOK
<1>5. at + 1 \in 1..files[<<cam, 1>>].length /\ files[<<cam, 1>>].length \in 0..Parts
  BY <1>1, <1>4, PictureIsSomething DEF MoreToSend
<1>6. at + 1 \in 1..Parts
  BY <1>1, <1>5
<1> QED
  BY <1>1, <1>4, <1>5, <1>6 DEF ThisPart, Part, Whole

LEMMA FirstOfQueue ==
  ASSUME TypeOK, queue # <<>>
  PROVE  /\ 1 \in 1..Len(queue) /\ Len(queue) \in 1..Len(queue) /\ Head(queue) = queue[1]
         /\ \A k \in 1..Len(queue) : queue[k] \in Connection /\ queue[k].parts \in Seq(Part)
<1>1. queue \in Seq(Connection) /\ Len(queue) \in Nat \ {0}
  BY EmptySeq DEF TypeOK
<1>2. \A k \in 1..Len(queue) : queue[k] \in Connection
  BY <1>1, ElementOfSeq
<1> QED
  BY <1>1, <1>2 DEF Connection

LEMMA CloseQueue ==
  ASSUME TypeOK, link = "up" => queue # <<>>, CloseSocket
  PROVE  /\ queue' \in Seq(Connection) /\ Len(queue') = Len(queue) /\ link' = "none"
         /\ \A k \in 1..Len(queue) : queue'[k].parts = queue[k].parts
<1>1. CASE link = "up"
  BY <1>1, FirstOfQueue, SetClosed DEF CloseSocket, TypeOK
<1>2. CASE link # "up"
  BY <1>2 DEF CloseSocket, TypeOK
<1> QED
  BY <1>1, <1>2

LEMMA CutParts ==
  ASSUME NEW q \in Seq(Connection), q # <<>>, NEW n \in 0..Len(q[Len(q)].parts)
  PROVE  LET r == [q EXCEPT ![Len(q)].parts = SubSeq(@, 1, n)]
         IN  /\ r \in Seq(Connection) /\ Len(r) = Len(q)
             /\ \A k \in 1..Len(q) :
                  /\ Len(r[k].parts) <= Len(q[k].parts)
                  /\ \A i \in 1..Len(r[k].parts) : r[k].parts[i] = q[k].parts[i]
<1>1. Len(q) \in 1..Len(q)
  BY EmptySeq
<1>2. ASSUME NEW k \in 1..Len(q) PROVE q[k].parts \in Seq(Part)
  <2>1. q[k] \in Connection
    BY ElementOfSeq
  <2> QED
    BY <2>1 DEF Connection
<1>3. PICK p \in Seq(Part) : p = q[Len(q)].parts
  BY <1>1, <1>2
<1>4. /\ SubSeq(p, 1, n) \in Seq(Part) /\ Len(SubSeq(p, 1, n)) = n /\ n <= Len(p)
      /\ \A i \in 1..n : SubSeq(p, 1, n)[i] = p[i]
  BY <1>3, SubSeqProperties
<1>5. PICK c \in Seq(Part) : c = SubSeq(p, 1, n)
  BY <1>4
<1>6. [q EXCEPT ![Len(q)].parts = SubSeq(@, 1, n)] = [q EXCEPT ![Len(q)].parts = c]
  BY <1>3, <1>5
<1>7. LET r == [q EXCEPT ![Len(q)].parts = c]
      IN  /\ r \in Seq(Connection) /\ Len(r) = Len(q)
          /\ \A k \in 1..Len(q) : r[k].parts = IF k = Len(q) THEN c ELSE q[k].parts
  BY <1>1, SetParts
<1>8. Len(c) <= Len(p) /\ \A i \in 1..Len(c) : c[i] = p[i]
  BY <1>4, <1>5
<1>9. \A k \in 1..Len(q) : Len(q[k].parts) \in Nat
  BY <1>2
<1> DEFINE r == [q EXCEPT ![Len(q)].parts = c]
<1> HIDE DEF r
<1>10. ASSUME NEW k \in 1..Len(q)
       PROVE  /\ Len(r[k].parts) <= Len(q[k].parts)
              /\ \A i \in 1..Len(r[k].parts) : r[k].parts[i] = q[k].parts[i]
  <2>1. CASE k = Len(q)
    BY <1>3, <1>7, <1>8, <2>1 DEF r
  <2>2. CASE k # Len(q)
    BY <1>7, <1>9, <2>2 DEF r
  <2> QED
    BY <2>1, <2>2
<1>11. /\ r \in Seq(Connection) /\ Len(r) = Len(q)
       /\ [q EXCEPT ![Len(q)].parts = SubSeq(@, 1, n)] = r
  BY <1>6, <1>7 DEF r
<1> QED
  BY <1>10, <1>11

LEMMA RoomForOne ==
  ASSUME NEW a \in Nat, NEW b \in Nat, NEW c \in Nat, NEW d \in Nat, NEW l \in Nat,
         c = a + b, c + l <= d, b > 0
  PROVE  a + 1 <= d
OBVIOUS

LEMMA CutQueue ==
  ASSUME TypeOK, link = "up" => queue # <<>>, PowerCut
  PROVE  /\ queue' \in Seq(Connection) /\ Len(queue') = Len(queue)
         /\ \A k \in 1..Len(queue) :
              /\ Len(queue'[k].parts) <= Len(queue[k].parts)
              /\ \A i \in 1..Len(queue'[k].parts) : queue'[k].parts[i] = queue[k].parts[i]
<1>1. CASE link = "up"
  <2>1. PICK n \in 0..Len(Last(queue).parts) :
          queue' = [queue EXCEPT ![Len(queue)].parts = SubSeq(@, 1, n)]
    BY <1>1 DEF PowerCut
  <2>2. Last(queue) = queue[Len(queue)] /\ queue \in Seq(Connection)
    BY DEF Last, TypeOK
  <2> QED
    BY <1>1, <2>1, <2>2, CutParts
<1>2. CASE link # "up"
  <2>1. queue' = queue
    BY <1>2 DEF PowerCut
  <2>2. \A k \in 1..Len(queue) : Len(queue[k].parts) \in Nat
    BY FirstOfQueue, LenProperties, EmptySeq DEF TypeOK
  <2> QED
    BY <2>1, <2>2 DEF TypeOK
<1> QED
  BY <1>1, <1>2

\* What a power cut leaves of the files: nothing it had not known before, or
\* one name with its turns.
LEMMA CutFiles ==
  ASSUME FreshInv, TypeOK, FilesInv, PowerCut
  PROVE  /\ files' \in [Names -> Picture \cup {NoFile}]
         /\ \A c \in 1..Cameras, k \in 0..MaxRuns :
              files'[<<c, k>>] # NoFile => files'[<<c, k>>].turns = k /\ k <= run
<1>0. /\ files \in [Names -> Picture \cup {NoFile}] /\ run \in Nat /\ cam \in 1..Cameras
      /\ \A c \in 1..Cameras, k \in 0..MaxRuns :
           files[<<c, k>>] # NoFile => files[<<c, k>>].turns = k /\ k <= run
  BY DEF TypeOK, FilesInv
<1>1. CASE UNCHANGED files
  BY <1>0, <1>1
<1>2. ASSUME NEW c \in 1..Cameras, NEW k \in 0..MaxRuns, NEW p \in Picture,
             files' = [files EXCEPT ![<<c, k>>] = p], p.turns = k, k <= run
      PROVE  /\ files' \in [Names -> Picture \cup {NoFile}]
             /\ \A d \in 1..Cameras, j \in 0..MaxRuns :
                  files'[<<d, j>>] # NoFile => files'[<<d, j>>].turns = j /\ j <= run
  <2>1. ASSUME NEW d \in 1..Cameras, NEW j \in 0..MaxRuns, files'[<<d, j>>] # NoFile
        PROVE  files'[<<d, j>>].turns = j /\ j <= run
    <3>1. <<d, j>> \in Names
      BY NamesType
    <3>2. CASE <<d, j>> = <<c, k>>
      BY <1>0, <1>2, <3>1, <3>2
    <3>3. CASE <<d, j>> # <<c, k>>
      BY <1>0, <1>2, <2>1, <3>1, <3>3
    <3> QED
      BY <3>2, <3>3
  <2> QED
    BY <1>0, <1>2, <2>1
<1>3. CASE pc = "take" /\ Torn(<<cam, 0>>, WholePicture(run, 0))
  <2>1. run >= 1 /\ 0 \in 0..MaxRuns
    BY <1>3, Constants DEF FreshInv, BoardTypeOK
  <2>2. PICK p \in Picture : files' = [files EXCEPT ![<<cam, 0>>] = p] /\ p.turns = 0
    BY <1>3, <2>1, PictureTaken
  <2>3. 0 <= run
    BY <1>0
  <2>4. cam \in 1..Cameras
    BY <1>0
  <2> QED
    BY <1>2, <2>1, <2>2, <2>3, <2>4
<1>4. CASE pc = "rotate" /\ \E n \in todo : TornTurn(n)
  <2>1. PICK n \in Names : n \in todo /\ TornTurn(n)
    BY <1>4 DEF TypeOK
  <2>2. PICK p \in Picture : files' = [files EXCEPT ![Rotated(n)] = p] /\ p.turns = n[2] + 1
    BY <1>4, <2>1, PictureTurned
  <2>3. Rotated(n) \in Names /\ n[2] < run /\ Rotated(n) = <<n[1], n[2] + 1>> /\ n[2] \in Nat
    BY <1>4, <2>1, PictureTurned DEF Rotated, Names
  <2>4. n[1] \in 1..Cameras /\ n[2] + 1 \in 0..MaxRuns /\ n[2] + 1 <= run
    BY <1>0, <2>3 DEF Names
  <2> QED
    BY <1>2, <2>2, <2>3, <2>4
<1> QED
  BY <1>1, <1>3, <1>4 DEF PowerCut, Unfinished

LEMMA TypeStep == PipeInv /\ [Next]_vars => TypeOK'
<1> SUFFICES ASSUME PipeInv, [Next]_vars PROVE TypeOK'
  OBVIOUS
<1>0. FreshInv /\ TypeOK /\ FilesInv /\ CountInv /\ (link = "up" => queue # <<>>)
  BY DEF PipeInv, CountInv
<1> USE <1>0, Constants DEF TypeOK, boardVars, serverVars
<1>1. ASSUME StartRun PROVE TypeOK'
  <2>1. run' \in 0..MaxRuns /\ cam' \in 1..Cameras
    BY <1>1 DEF StartRun
  <2> QED
    BY <1>1, <2>1 DEF StartRun
<1>2. ASSUME take_picture PROVE TypeOK'
  <2>1. WholePicture(run, 0) \in Picture
    BY <1>2, WholeType DEF take_picture, FreshInv, BoardTypeOK
  <2>2. files' \in [Names -> Picture \cup {NoFile}]
    BY <1>2, <2>1 DEF take_picture
  <2>3. cam' \in 1..Cameras
    BY <1>2 DEF take_picture, NextCamera
  <2> QED
    BY <1>2, <2>2, <2>3 DEF take_picture, NextCamera
<1>02. Fault => faults' \in 0..MaxFaults
  BY PipelineAssumption DEF Fault
<1>3. ASSUME TakeFails PROVE TypeOK'
  <2>1. cam' \in 1..Cameras /\ faults' \in 0..MaxFaults
    BY <1>02, <1>3 DEF TakeFails, NextCamera
  <2>2. files' \in [Names -> Picture \cup {NoFile}]
    <3>1. CASE UNCHANGED files
      BY <3>1
    <3>2. CASE Torn(<<cam, 0>>, WholePicture(run, 0))
      <4>1. run >= 1
        BY <1>3 DEF TakeFails, FreshInv, BoardTypeOK
      <4> QED
        BY <3>2, <4>1, PictureTaken
    <3> QED
      BY <1>3, <3>1, <3>2 DEF TakeFails
  <2> QED
    BY <1>3, <2>1, <2>2 DEF TakeFails, NextCamera
<1>4. ASSUME ListImages \/ RotateMissing \/ RotateDone PROVE TypeOK'
  BY <1>02, <1>4 DEF ListImages, RotateMissing, RotateDone
<1>5. ASSUME NEW n \in Names, RotateImage(n) PROVE TypeOK'
  <2>1. files' \in [Names -> Picture \cup {NoFile}]
    BY <1>5, PictureTurned DEF RotateImage
  <2> QED
    BY <1>5, <2>1 DEF RotateImage
<1>6. ASSUME NEW n \in Names, RotateFails(n) PROVE TypeOK'
  <2>1. faults' \in 0..MaxFaults
    BY <1>02, <1>6 DEF RotateFails
  <2>2. files' \in [Names -> Picture \cup {NoFile}]
    <3>1. CASE UNCHANGED files
      BY <3>1
    <3>2. CASE TornTurn(n)
      BY <1>6, <3>2, PictureTurned DEF RotateFails
    <3> QED
      BY <1>6, <3>1, <3>2 DEF RotateFails
  <2>3. todo' \subseteq Names /\ failed' \in BOOLEAN
    BY <1>6 DEF RotateFails
  <2> QED
    BY <1>6, <2>1, <2>2, <2>3 DEF RotateFails
<1>7. ASSUME Connect PROVE TypeOK'
  <2>1. [parts |-> <<>>, closed |-> FALSE] \in Connection /\ <<>> \in Seq(Part)
    BY DEF Connection
  <2>2. /\ queue' \in Seq(Connection) /\ made' \in Seq(Seq(Part))
        /\ clean' \in Seq(0..MaxRuns)
    BY <1>7, <2>1, AppendProperties DEF Connect
  <2> QED
    BY <1>7, <2>2 DEF Connect
<1>8. ASSUME ConnectFails \/ ConnectGivesUp \/ OpenFails \/ SendFails(<<cam, 1>>) \/ FileSent PROVE TypeOK'
  <2>1. CloseSocket /\ cam' \in 1..Cameras /\ pc' \in {"idle", "connect"} /\ at' = 0
    <3>1. CASE Exit
      BY <3>1 DEF Exit
    <3>2. CASE FileSent
      BY <3>2 DEF FileSent, NextCamera
    <3> QED
      BY <1>8, <3>1, <3>2 DEF ConnectFails, ConnectGivesUp, OpenFails, SendFails
  <2>2. queue' \in Seq(Connection)
    BY <2>1, CloseQueue
  <2>3. at' \in 0..Parts
    BY <2>1, PipelineAssumption
  <2>4. /\ link' = "none" /\ faults' \in 0..MaxFaults
        /\ UNCHANGED <<files, run, todo, failed, serverVars, sentVars, exits, cuts>>
    BY <1>02, <1>8, <2>1 DEF ConnectFails, ConnectGivesUp, OpenFails, SendFails, FileSent, CloseSocket
  <2> QED
    BY <2>1, <2>2, <2>3, <2>4
<1>9. ASSUME OpenFile PROVE TypeOK'
  <2>1. at' \in 0..Parts
    BY <1>9, PipelineAssumption DEF OpenFile
  <2> QED
    BY <1>9, <2>1 DEF OpenFile
<1>10. ASSUME SendPart PROVE TypeOK'
  <2>0. pc = "send" /\ MoreToSend(<<cam, 1>>) /\ at' = at + 1
    BY <1>10 DEF SendPart
  <2>1. ThisPart \in Part /\ at' \in 0..Parts
    BY <2>0, ThisPartType
  <2>2. queue # <<>> /\ Len(queue) \in 1..Len(queue)
    BY <1>10, FirstOfQueue DEF SendPart, CountInv
  <2>3. queue[Len(queue)].parts \in Seq(Part)
    BY <2>2, FirstOfQueue
  <2>4. Append(queue[Len(queue)].parts, ThisPart) \in Seq(Part)
    BY <2>1, <2>3, AppendProperties
  <2>5. queue' \in Seq(Connection)
    BY <1>10, <2>2, <2>4, SetParts DEF SendPart
  <2>6. made' \in Seq(Seq(Part))
    <3>1. Len(made) \in 1..Len(made)
      BY <1>10, <2>2 DEF SendPart, CountInv
    <3>2. Append(made[Len(made)], ThisPart) \in Seq(Part)
      BY <2>1, <3>1, ElementOfSeq, AppendProperties
    <3> QED
      BY <1>10, <3>1, <3>2, ExceptSeq DEF SendPart
  <2> QED
    BY <1>10, <2>1, <2>5, <2>6 DEF SendPart
<1>11. ASSUME SendNowhere(<<cam, 1>>) PROVE TypeOK'
  <2>1. at' \in 0..Parts
    BY <1>11, ThisPartType DEF SendNowhere
  <2> QED
    BY <1>11, <2>1 DEF SendNowhere
<1>12. ASSUME PowerCut PROVE TypeOK'
  <2>0. cuts < MaxCuts /\ cuts' = cuts + 1
    BY <1>12 DEF PowerCut
  <2>1. cuts' \in 0..MaxCuts
    BY <2>0, PipelineAssumption
  <2>2. queue' \in Seq(Connection)
    BY <1>12, CutQueue
  <2>3. at' \in 0..Parts /\ cam' \in 1..Cameras
    BY <1>12, PipelineAssumption DEF PowerCut
  <2>4. files' \in [Names -> Picture \cup {NoFile}]
    BY <1>12, CutFiles
  <2> QED
    BY <1>12, <2>1, <2>2, <2>3, <2>4 DEF PowerCut
<1>13. ASSUME Accept PROVE TypeOK'
  <2>1. received' \in [0..Cameras * MaxRuns -> Seq(Part)]
    BY <1>13 DEF Accept
  <2> QED
    BY <1>13, <2>1 DEF Accept
<1>14. ASSUME ReceivePart PROVE TypeOK'
  <2>1. /\ queue # <<>> /\ 1 \in 1..Len(queue) /\ Head(queue) = queue[1]
        /\ queue[1].parts \in Seq(Part) /\ queue[1].parts # <<>>
    BY <1>14, FirstOfQueue DEF ReceivePart, CountInv
  <2>2. Head(queue[1].parts) \in Part /\ Tail(queue[1].parts) \in Seq(Part)
    BY <2>1, HeadTailProperties
  <2>3. queue' \in Seq(Connection)
    BY <1>14, <2>1, <2>2, SetParts DEF ReceivePart
  <2>4. Append(received[img_cnt], Head(queue[1].parts)) \in Seq(Part)
    BY <2>2, AppendProperties
  <2>5. received' \in [0..Cameras * MaxRuns -> Seq(Part)]
    BY <1>14, <2>1, <2>4 DEF ReceivePart
  <2> QED
    BY <1>14, <2>3, <2>5 DEF ReceivePart
<1>15. ASSUME EndOfFile PROVE TypeOK'
  <2>1. queue # <<>> /\ Len(queue) \in Nat /\ Len(queue) > 0 /\ queue' \in Seq(Connection)
    BY <1>15, HeadTailProperties, EmptySeq DEF EndOfFile, CountInv
  <2>2. img_cnt + 1 <= MaxFiles
    <3>1. Len(made) = img_cnt + Len(queue) /\ Len(made) + Left <= MaxFiles
      BY <1>15 DEF EndOfFile, CountInv
    <3>2. Left \in Nat /\ MaxFiles \in Nat
      BY LeftIs
    <3>3. img_cnt \in Nat /\ Len(made) \in Nat
      BY <3>2 DEF MaxFiles
    <3> QED
      BY <2>1, <3>1, <3>2, <3>3, RoomForOne
  <2>3. img_cnt' \in 0..Cameras * MaxRuns
    BY <1>15, <2>2, LeftIs DEF EndOfFile, MaxFiles
  <2> QED
    BY <1>15, <2>1, <2>3 DEF EndOfFile
<1>16. ASSUME ServerExits PROVE TypeOK'
  <2>1. exits' \in 0..MaxExits
    BY <1>16, PipelineAssumption DEF ServerExits
  <2> QED
    BY <1>16, <2>1 DEF ServerExits
<1>17. ASSUME ServerStarts PROVE TypeOK'
  <2>1. img_cnt' \in 0..Cameras * MaxRuns /\ clean' \in Seq(0..MaxRuns)
    BY <1>17, LeftIs, EmptySeq DEF ServerStarts, MaxFiles
  <2> QED
    BY <1>17, <2>1 DEF ServerStarts
<1>18. ASSUME UNCHANGED vars PROVE TypeOK'
  BY <1>18 DEF vars
<1> QED
  BY <1>1, <1>2, <1>3, <1>4, <1>5, <1>6, <1>7, <1>8, <1>9, <1>10,
     <1>11, <1>12, <1>13, <1>14, <1>15, <1>16, <1>17, <1>18
  DEF Next, SenderStep, ServerStep

LEMMA FilesStep == PipeInv /\ [Next]_vars => FilesInv'
<1> SUFFICES ASSUME PipeInv, [Next]_vars PROVE FilesInv'
  OBVIOUS
<1>0. FreshInv /\ TypeOK /\ FilesInv /\ run \in 0..MaxRuns /\ cam \in 1..Cameras
  BY DEF PipeInv, TypeOK
<1>01. run \in Nat /\ 0 \in Nat /\ WholePicture(run, 0).turns = 0
  BY <1>0, WholeType
<1> USE <1>0, Constants DEF FilesInv, boardVars, serverVars
<1>1. ASSUME StartRun PROVE FilesInv'
  BY <1>1 DEF StartRun
<1>2. ASSUME take_picture PROVE FilesInv'
  <2>1. /\ pc' \in {"take", "list"} /\ (pc' = "list" => cam' = 1)
        /\ run' = run /\ run > 0 /\ pc = "take" /\ at' = at
    BY <1>2 DEF take_picture, NextCamera, FreshInv, BoardTypeOK
  <2>2. ASSUME NEW c \in 1..Cameras, NEW k \in 0..MaxRuns, files'[<<c, k>>] # NoFile
        PROVE  files'[<<c, k>>].turns = k /\ k < run
    <3>1. <<c, k>> \in Names
      BY NamesType
    <3>2. CASE <<c, k>> = <<cam, 0>>
      <4>1. k = 0
        BY <3>2
      <4>2. files'[<<c, k>>] = WholePicture(run, 0)
        BY <1>2, <3>1, <3>2 DEF take_picture, TypeOK
      <4> QED
        BY <1>01, <2>1, <4>1, <4>2
    <3>3. CASE <<c, k>> # <<cam, 0>>
      <4>1. files'[<<c, k>>] = files[<<c, k>>]
        BY <1>2, <3>1, <3>3 DEF take_picture, TypeOK
      <4> QED
        BY <2>1, <2>2, <4>1
    <3> QED
      BY <3>2, <3>3
  <2> QED
    BY <2>1, <2>2
<1>3. ASSUME TakeFails PROVE FilesInv'
  <2>1. /\ pc' \in {"take", "list"} /\ (pc' = "list" => cam' = 1)
        /\ run' = run /\ run > 0 /\ pc = "take" /\ at' = at
    BY <1>3 DEF TakeFails, NextCamera, FreshInv, BoardTypeOK
  <2>2. ASSUME NEW c \in 1..Cameras, NEW k \in 0..MaxRuns, files'[<<c, k>>] # NoFile
        PROVE  files'[<<c, k>>].turns = k /\ k < run
    <3>1. <<c, k>> \in Names
      BY NamesType
    <3>2. CASE UNCHANGED files
      BY <2>1, <2>2, <3>2
    <3>3. CASE Torn(<<cam, 0>>, WholePicture(run, 0))
      <4>1. PICK p \in Picture : files' = [files EXCEPT ![<<cam, 0>>] = p] /\ p.turns = 0
        BY <2>1, <3>3, PictureTaken
      <4>2. CASE <<c, k>> = <<cam, 0>>
        BY <2>1, <3>1, <4>1, <4>2 DEF TypeOK
      <4>3. CASE <<c, k>> # <<cam, 0>>
        <5>1. files'[<<c, k>>] = files[<<c, k>>]
          BY <3>1, <4>1, <4>3 DEF TypeOK
        <5> QED
          BY <2>1, <2>2, <5>1
      <4> QED
        BY <4>2, <4>3
    <3> QED
      BY <1>3, <3>2, <3>3 DEF TakeFails
  <2> QED
    BY <2>1, <2>2
<1>4. ASSUME ListImages PROVE FilesInv'
  BY <1>4 DEF ListImages
<1>5. ASSUME RotateMissing \/ RotateDone PROVE FilesInv'
  BY <1>5 DEF RotateMissing, RotateDone
<1>6. ASSUME NEW n \in Names, RotateImage(n) \/ (RotateFails(n) /\ TornTurn(n)) PROVE FilesInv'
  <2>1. PICK d \in 1..Cameras, j \in 0..MaxRuns : n = <<d, j>>
    BY DEF Names
  <2>2. /\ pc = "rotate" /\ n \in todo /\ todo' = todo \ {n} /\ UNCHANGED <<pc, cam, run, at>>
        /\ files' = [files EXCEPT ![Rotated(n)] = Turned(files[n])] \/ TornTurn(n)
    BY <1>6 DEF RotateImage, RotateFails
  <2>3. PICK p \in Picture : files' = [files EXCEPT ![Rotated(n)] = p] /\ p.turns = j + 1
    BY <2>1, <2>2, PictureTurned
  <2>4. /\ Rotated(n) = <<d, j + 1>> /\ Rotated(n) \in Names /\ j < run
        /\ files' = [files EXCEPT ![Rotated(n)] = p] /\ todo' = todo \ {n}
        /\ pc = "rotate" /\ UNCHANGED <<pc, cam, run, at>>
    BY <2>1, <2>2, <2>3, PictureTurned DEF Rotated
  <2>5. p # NoFile
    BY PictureIsSomething
  <2>6. ASSUME NEW c \in 1..Cameras, NEW k \in 0..MaxRuns, files'[<<c, k>>] # NoFile
        PROVE  /\ files'[<<c, k>>].turns = k /\ k <= run
               /\ <<c, k>> \in todo' => k < run
    <3>1. <<c, k>> \in Names
      BY NamesType
    <3>2. CASE <<c, k>> = Rotated(n)
      <4>1. files'[<<c, k>>] = p /\ k = j + 1
        BY <2>3, <2>4, <3>2 DEF TypeOK
      <4>2. <<c, k>> \in todo' => files[<<c, k>>] # NoFile /\ <<c, k>> \in todo
        BY <2>4
      <4> QED
        BY <2>3, <2>4, <4>1, <4>2
    <3>3. CASE <<c, k>> # Rotated(n)
      <4>1. files'[<<c, k>>] = files[<<c, k>>]
        BY <2>4, <3>1, <3>3 DEF TypeOK
      <4> QED
        BY <2>4, <2>6, <4>1
    <3> QED
      BY <3>2, <3>3
  <2>7. ASSUME NEW m \in todo' PROVE files'[m] # NoFile
    <3>1. m \in todo /\ m \in Names /\ files[m] # NoFile
      BY <2>4, <2>7 DEF TypeOK
    <3> QED
      BY <2>4, <2>5, <3>1 DEF TypeOK
  <2> QED
    BY <2>4, <2>6, <2>7
<1>7. ASSUME NEW n \in Names, RotateFails(n), UNCHANGED files PROVE FilesInv'
  BY <1>7 DEF RotateFails
<1>8. ASSUME Connect \/ OpenFile \/ SendPart \/ SendNowhere(<<cam, 1>>) PROVE FilesInv'
  <2>1. UNCHANGED <<files, run, cam, todo>> /\ pc' \in {"open", "send"}
    BY <1>8 DEF Connect, OpenFile, SendPart, SendNowhere
  <2>2. (pc' = "send" => files[<<cam, 1>>] # NoFile) /\ (pc' # "send" => at' = 0)
    BY <1>8 DEF Connect, OpenFile, SendPart, SendNowhere
  <2>3. ASSUME pc' = "send" PROVE at' <= files[<<cam, 1>>].length
    <3>1. <<cam, 1>> \in Names
      <4>1. run >= 1
        BY <1>8, <2>3 DEF Connect, OpenFile, SendPart, SendNowhere, FreshInv, BoardTypeOK
      <4> QED
        BY <4>1, NamesType
    <3>2. files[<<cam, 1>>].length \in Nat /\ at \in Nat
      BY <2>2, <2>3, <3>1, PictureIsSomething DEF TypeOK
    <3>3. CASE at' = 0
      BY <3>2, <3>3
    <3>4. CASE at' = at + 1 /\ MoreToSend(<<cam, 1>>)
      BY <3>2, <3>4 DEF MoreToSend
    <3> QED
      BY <1>8, <2>3, <3>3, <3>4 DEF Connect, OpenFile, SendPart, SendNowhere
  <2> QED
    BY <2>1, <2>2, <2>3
<1>9. ASSUME ConnectFails \/ ConnectGivesUp \/ OpenFails \/ SendFails(<<cam, 1>>) \/ FileSent PROVE FilesInv'
  <2>1. pc' \in {"idle", "connect"} /\ at' = 0 /\ UNCHANGED <<files, run>>
    BY <1>9 DEF ConnectFails, ConnectGivesUp, OpenFails, SendFails, FileSent, Exit, NextCamera
  <2>2. pc \notin {"idle", "take", "list", "rotate"}
    BY <1>9 DEF ConnectFails, ConnectGivesUp, OpenFails, SendFails, FileSent
  <2> QED
    BY <2>1, <2>2
<1>10. ASSUME PowerCut PROVE FilesInv'
  BY <1>10, CutFiles DEF PowerCut
<1>11. ASSUME ServerStep \/ ServerExits \/ ServerStarts \/ UNCHANGED vars PROVE FilesInv'
  BY <1>11 DEF ServerStep, Accept, ReceivePart, EndOfFile, ServerExits, ServerStarts, vars
<1> QED
  BY <1>1, <1>2, <1>3, <1>4, <1>5, <1>6, <1>7, <1>8, <1>9, <1>10, <1>11
  DEF Next, SenderStep, RotateFails

-----------------------------------------------------------------------------
(* The numbers of connections.                                             *)

LEMMA LeftStep ==
  ASSUME PipeInv, [Next]_vars
  PROVE  Left \in Nat /\ Left' \in Nat /\ Left' <= Left /\ (Connect => Left' + 1 <= Left)
<1>0. TypeOK /\ TypeOK' /\ (pc \in {"list", "rotate"} => cam = 1)
  BY TypeStep DEF PipeInv, FilesInv
<1> DEFINE B == Cameras * (MaxRuns - run)
<1>1. /\ B \in Nat /\ Cameras \in Nat /\ cam \in 1..Cameras
      /\ pc = "idle" => Left = B
      /\ pc \in {"take", "list", "rotate"} => Left = B + Cameras
      /\ pc = "connect" => Left = B + Cameras - cam + 1
      /\ pc \in {"open", "send"} => Left = B + Cameras - cam
      /\ Left \in Nat
  BY <1>0, LeftIs, Constants DEF TypeOK
<1>2. /\ B' \in Nat /\ cam' \in 1..Cameras
      /\ pc' = "idle" => Left' = B'
      /\ pc' \in {"take", "list", "rotate"} => Left' = B' + Cameras
      /\ pc' = "connect" => Left' = B' + Cameras - cam' + 1
      /\ pc' \in {"open", "send"} => Left' = B' + Cameras - cam'
      /\ Left' \in Nat
  <2>0. run' \in 0..MaxRuns /\ cam' \in 1..Cameras
    BY <1>0 DEF TypeOK
  <2>1. MaxRuns - run' \in Nat /\ Cameras \in Nat /\ cam' \in 1..Cameras
    <3>1. \A r \in 0..MaxRuns : MaxRuns - r \in Nat
      BY Constants
    <3> QED
      BY <2>0, <3>1, Constants
  <2>2. B' \in Nat
    BY <2>1, Product
  <2>3. CASE pc' = "idle"
    BY <2>1, <2>2, <2>3 DEF Left
  <2>4. CASE pc' \in {"take", "list", "rotate"}
    BY <2>1, <2>2, <2>4 DEF Left
  <2>5. CASE pc' = "connect"
    BY <2>1, <2>2, <2>5 DEF Left
  <2>6. CASE pc' \in {"open", "send"}
    BY <2>1, <2>2, <2>6 DEF Left
  <2> QED
    BY <1>0, <2>1, <2>2, <2>3, <2>4, <2>5, <2>6 DEF TypeOK
<1>3. run' = run => B' = B
  OBVIOUS
<1>4. ASSUME StartRun PROVE Left' <= Left /\ ~Connect
  <2>1. run' = run + 1 /\ run \in Nat /\ MaxRuns \in Nat /\ run < MaxRuns /\ pc = "idle" /\ pc' = "take"
    BY <1>0, <1>4, Constants DEF StartRun, TypeOK
  <2>2. MaxRuns - run \in Nat /\ MaxRuns - run > 0 /\ MaxRuns - run' = (MaxRuns - run) - 1
    BY <2>1
  <2>3. B = Cameras * ((MaxRuns - run) - 1) + Cameras
    BY <1>1, <2>2, Product
  <2>4. B = B' + Cameras
    BY <2>2, <2>3
  <2> HIDE DEF B
  <2>5. ~Connect
    BY <2>1 DEF Connect
  <2>6. Left = B /\ Left' = B' + Cameras /\ B \in Nat /\ B' \in Nat
    BY <1>1, <1>2, <2>1
  <2> QED
    BY <2>4, <2>5, <2>6
<1> HIDE DEF B
<1>5. ASSUME Connect PROVE Left' + 1 <= Left /\ Left' <= Left
  <2>1. pc = "connect" /\ pc' = "open" /\ cam' = cam /\ run' = run
    BY <1>5 DEF Connect
  <2> QED
    BY <1>1, <1>2, <1>3, <2>1
<1>6. ASSUME take_picture \/ TakeFails PROVE Left' <= Left
  <2>1. pc = "take" /\ pc' \in {"take", "list"} /\ run' = run
    BY <1>6 DEF take_picture, TakeFails, NextCamera
  <2> QED
    BY <1>1, <1>2, <1>3, <2>1
<1>7. ASSUME ListImages \/ RotateMissing \/ RotateDone \/ \E n \in Names : RotateImage(n) \/ RotateFails(n)
      PROVE  Left' <= Left
  <2>1. pc \in {"list", "rotate"} /\ pc' \in {"rotate", "connect"} /\ run' = run /\ cam' = cam
    BY <1>7 DEF ListImages, RotateMissing, RotateDone, RotateImage, RotateFails
  <2> QED
    BY <1>0, <1>1, <1>2, <1>3, <2>1
<1>8. ASSUME OpenFile \/ SendPart \/ SendNowhere(<<cam, 1>>) PROVE Left' <= Left
  <2>1. pc \in {"open", "send"} /\ pc' = "send" /\ run' = run /\ cam' = cam
    BY <1>8 DEF OpenFile, SendPart, SendNowhere
  <2> QED
    BY <1>1, <1>2, <1>3, <2>1
<1>9. ASSUME FileSent PROVE Left' <= Left
  <2>1. /\ pc = "send" /\ run' = run
        /\ \/ pc' = "connect" /\ cam' = cam + 1
           \/ pc' = "idle"
    BY <1>9 DEF FileSent, NextCamera
  <2>2. Left = B + Cameras - cam /\ B' = B
    BY <1>1, <1>3, <2>1
  <2>3. CASE pc' = "connect" /\ cam' = cam + 1
    BY <1>1, <1>2, <2>2, <2>3
  <2>4. CASE pc' = "idle"
    BY <1>1, <1>2, <2>2, <2>4
  <2> QED
    BY <2>1, <2>3, <2>4
<1>10. ASSUME ConnectFails \/ ConnectGivesUp \/ OpenFails \/ SendFails(<<cam, 1>>) \/ PowerCut PROVE Left' <= Left
  <2>1. pc # "idle" /\ pc' = "idle" /\ run' = run
    BY <1>10 DEF ConnectFails, ConnectGivesUp, OpenFails, SendFails, PowerCut, Exit
  <2>2. Left >= B
    <3>1. pc \in {"take", "list", "rotate", "connect", "open", "send"}
      BY <1>0, <2>1 DEF TypeOK
    <3> QED
      BY <1>1, <3>1
  <2> QED
    BY <1>1, <1>2, <1>3, <2>1, <2>2
<1>11. ASSUME ServerStep \/ ServerExits \/ ServerStarts \/ UNCHANGED vars PROVE Left' <= Left
  <2>1. pc' = pc /\ run' = run /\ cam' = cam
    BY <1>11 DEF ServerStep, Accept, ReceivePart, EndOfFile, ServerExits, ServerStarts, boardVars, vars
  <2>2. pc \in {"idle", "take", "list", "rotate", "connect", "open", "send"}
    BY <1>0 DEF TypeOK
  <2> QED
    BY <1>1, <1>2, <1>3, <2>1, <2>2
<1>12. Left' <= Left
  BY <1>4, <1>5, <1>6, <1>7, <1>8, <1>9, <1>10, <1>11 DEF Next, SenderStep
<1> QED
  BY <1>1, <1>2, <1>5, <1>12

LEMMA OneMoreFits ==
  ASSUME NEW m \in Nat, NEW l \in Nat, NEW k \in Nat, NEW d \in Nat, m + l <= d, k + 1 <= l
  PROVE  (m + 1) + k <= d
OBVIOUS

LEMMA LessStillFits ==
  ASSUME NEW m \in Nat, NEW l \in Nat, NEW k \in Nat, NEW d \in Nat, m + l <= d, k <= l
  PROVE  0 + k <= d
OBVIOUS

LEMMA CountStep == PipeInv /\ [Next]_vars => CountInv'
<1> SUFFICES ASSUME PipeInv, [Next]_vars PROVE CountInv'
  OBVIOUS
<1>0. TypeOK /\ TypeOK' /\ CountInv
  BY TypeStep DEF PipeInv
<1>01. Left \in Nat /\ Left' \in Nat /\ Left' <= Left /\ (Connect => Left' + 1 <= Left)
  BY LeftStep
<1>02. MaxFiles \in Nat /\ MaxFiles' = MaxFiles /\ Len(made) \in Nat /\ Len(queue) \in Nat /\ img_cnt \in Nat
  <2>1. MaxFiles' = MaxFiles /\ img_cnt \in 0..MaxFiles
    BY <1>0 DEF TypeOK, MaxFiles
  <2>2. made \in Seq(Seq(Part)) /\ queue \in Seq(Connection)
    BY <1>0 DEF TypeOK
  <2> QED
    BY <1>0, <2>1, <2>2, LeftIs, LenProperties
<1>03. link \in {"none", "up", "broken"} /\ server \in {"accept", "recv", "down"}
  BY <1>0 DEF TypeOK
<1> DEFINE Same == /\ UNCHANGED <<made, queue, server, img_cnt, link>>
                   /\ pc' \in {"open", "send"} <=> pc \in {"open", "send"}
<1>1. ASSUME Same PROVE CountInv'
  <2>1. Len(made') + Left' <= MaxFiles'
    BY <1>0, <1>01, <1>02, <1>1 DEF CountInv
  <2> QED
    BY <1>0, <1>1, <2>1 DEF CountInv
<1>2. ASSUME \/ StartRun \/ take_picture \/ TakeFails \/ ListImages \/ RotateMissing \/ RotateDone
             \/ \E n \in Names : RotateImage(n) \/ RotateFails(n)
             \/ OpenFile \/ SendNowhere(<<cam, 1>>) \/ UNCHANGED vars
      PROVE  Same
  BY <1>2 DEF StartRun, take_picture, TakeFails, ListImages, RotateMissing, RotateDone, RotateImage,
              RotateFails, OpenFile, SendNowhere, NextCamera, serverVars, boardVars, vars
<1> HIDE DEF Same
<1>3. ASSUME Connect PROVE CountInv'
  <2>0. [parts |-> <<>>, closed |-> FALSE] \in Connection
    BY DEF Connection
  <2>1. PICK e \in Connection : e = [parts |-> <<>>, closed |-> FALSE] /\ e.closed = FALSE
    BY <2>0
  <2>2. /\ queue' = Append(queue, e) /\ made' = Append(made, <<>>) /\ link' = "up" /\ pc' = "open"
        /\ server' = server /\ img_cnt' = img_cnt /\ server # "down"
    BY <1>3, <2>1 DEF Connect, serverVars
  <2>3. Len(queue') = Len(queue) + 1 /\ queue'[Len(queue) + 1] = e /\ Len(made') = Len(made) + 1
    BY <1>0, <2>1, <2>2, AppendProperties DEF TypeOK
  <2>4. queue' # <<>> /\ ~Last(queue').closed
    BY <1>02, <2>1, <2>3, EmptySeq DEF Last
  <2>5. Len(made') = img_cnt' + Len(queue') /\ img_cnt' <= Len(made') /\ Len(made') + Left' <= MaxFiles'
    <3>1. Len(made) = img_cnt + Len(queue) /\ Len(made) + Left <= MaxFiles
      BY <1>0, <2>2 DEF CountInv
    <3>2. Left' + 1 <= Left /\ Left \in Nat /\ Left' \in Nat
      BY <1>01, <1>3
    <3>3. Len(made') + Left' <= MaxFiles
      <4>1. Len(made') = Len(made) + 1
        BY <2>3
      <4> QED
        BY <1>02, <3>1, <3>2, <4>1, OneMoreFits
    <3>4. img_cnt' = img_cnt /\ MaxFiles' = MaxFiles
      BY <1>02, <2>2
    <3>5. Len(made') = img_cnt + Len(queue') /\ img_cnt <= Len(made')
      BY <1>02, <2>3, <3>1
    <3> QED
      BY <3>3, <3>4, <3>5
  <2> QED
    BY <2>2, <2>4, <2>5 DEF CountInv
<1>4. ASSUME ConnectFails \/ ConnectGivesUp \/ OpenFails \/ SendFails(<<cam, 1>>) \/ FileSent PROVE CountInv'
  <2>1. CloseSocket /\ pc' \in {"idle", "connect"} /\ UNCHANGED <<made, server, img_cnt>>
    BY <1>4 DEF ConnectFails, ConnectGivesUp, OpenFails, SendFails, FileSent, Exit, NextCamera, serverVars
  <2>2. Len(queue') = Len(queue) /\ link' = "none" /\ queue' \in Seq(Connection)
    BY <1>0, <2>1, CloseQueue DEF CountInv
  <2>3. queue' = <<>> <=> queue = <<>>
    BY <1>0, <2>2, EmptySeq DEF TypeOK
  <2>4. Len(made') + Left' <= MaxFiles'
    BY <1>0, <1>01, <1>02, <2>1 DEF CountInv
  <2> QED
    BY <1>0, <2>1, <2>2, <2>3, <2>4 DEF CountInv
<1>5. ASSUME SendPart PROVE CountInv'
  <2>1. /\ link = "up" /\ UNCHANGED <<link, pc, server, img_cnt>>
        /\ queue' = [queue EXCEPT ![Len(queue)].parts = Append(@, ThisPart)]
        /\ made' = [made EXCEPT ![Len(made)] = Append(@, ThisPart)]
    BY <1>5 DEF SendPart, serverVars
  <2>2. queue # <<>> /\ Last(queue).closed = FALSE
    BY <1>0, <2>1, FirstOfQueue DEF CountInv, Last, Connection
  <2>3. Len(queue) \in 1..Len(queue) /\ queue[Len(queue)].parts \in Seq(Part)
    BY <1>0, <2>2, FirstOfQueue
  <2>4. ThisPart \in Part
    BY <1>5, ThisPartType DEF PipeInv, SendPart
  <2>5. /\ Len(queue') = Len(queue) /\ queue'[Len(queue)].closed = queue[Len(queue)].closed
        /\ Len(made') = Len(made)
    <3>1. PICK p \in Seq(Part) : p = Append(queue[Len(queue)].parts, ThisPart)
      BY <2>3, <2>4, AppendProperties
    <3>2. queue' = [queue EXCEPT ![Len(queue)].parts = p]
      BY <2>1, <3>1
    <3>3. queue \in Seq(Connection) /\ made \in Seq(Seq(Part))
      BY <1>0 DEF TypeOK
    <3>4. Len(queue') = Len(queue) /\ queue'[Len(queue)].closed = queue[Len(queue)].closed
      BY <2>3, <3>2, <3>3, SetParts
    <3>5. Len(made') = Len(made)
      BY <2>1, <3>3
    <3> QED
      BY <3>4, <3>5
  <2>6. queue' # <<>> /\ Last(queue').closed = FALSE
    BY <2>2, <2>3, <2>5, EmptySeq DEF Last
  <2>7. Len(made') + Left' <= MaxFiles'
    BY <1>0, <1>01, <1>02, <2>5 DEF CountInv
  <2> QED
    BY <1>0, <2>1, <2>2, <2>5, <2>6, <2>7 DEF CountInv
<1>6. ASSUME PowerCut PROVE CountInv'
  <2>1. pc' = "idle" /\ link' = "none" /\ UNCHANGED <<made, server, img_cnt>>
    BY <1>6 DEF PowerCut, serverVars
  <2>2. Len(queue') = Len(queue) /\ queue' \in Seq(Connection)
    BY <1>0, <1>6, CutQueue DEF CountInv
  <2>3. queue' = <<>> <=> queue = <<>>
    BY <1>0, <2>2, EmptySeq DEF TypeOK
  <2>4. Len(made') + Left' <= MaxFiles'
    BY <1>0, <1>01, <1>02, <2>1 DEF CountInv
  <2> QED
    BY <1>0, <2>1, <2>2, <2>3, <2>4 DEF CountInv
<1>7. ASSUME Accept PROVE CountInv'
  <2>1. /\ server = "accept" /\ server' = "recv" /\ queue # <<>>
        /\ UNCHANGED <<made, queue, img_cnt, link, pc>>
    BY <1>7 DEF Accept, boardVars
  <2>2. Len(made') + Left' <= MaxFiles'
    BY <1>0, <1>01, <1>02, <2>1 DEF CountInv
  <2> QED
    BY <1>0, <2>1, <2>2 DEF CountInv
<1>8. ASSUME ReceivePart PROVE CountInv'
  <2>1. /\ server = "recv" /\ Head(queue).parts # <<>> /\ UNCHANGED <<made, server, img_cnt, link, pc>>
        /\ queue' = [queue EXCEPT ![1].parts = Tail(@)]
    BY <1>8 DEF ReceivePart, boardVars
  <2>2. /\ queue # <<>> /\ 1 \in 1..Len(queue) /\ Head(queue) = queue[1]
        /\ queue[1].parts \in Seq(Part) /\ queue[1].parts # <<>> /\ Len(queue) \in 1..Len(queue)
    BY <1>0, <2>1, FirstOfQueue DEF CountInv
  <2>3. PICK p \in Seq(Part) : p = Tail(queue[1].parts)
    BY <2>2, HeadTailProperties
  <2>4. queue' = [queue EXCEPT ![1].parts = p]
    BY <2>1, <2>3
  <2>5. /\ Len(queue') = Len(queue) /\ queue' \in Seq(Connection)
        /\ queue'[Len(queue)].closed = queue[Len(queue)].closed
    <3>1. queue \in Seq(Connection)
      BY <1>0 DEF TypeOK
    <3> QED
      BY <2>2, <2>4, <3>1, SetParts
  <2>6. queue' # <<>> /\ Last(queue').closed = Last(queue).closed
    BY <2>2, <2>5, EmptySeq DEF Last
  <2>7. Len(made') + Left' <= MaxFiles'
    BY <1>0, <1>01, <1>02, <2>1 DEF CountInv
  <2> QED
    BY <1>0, <2>1, <2>2, <2>5, <2>6, <2>7 DEF CountInv
<1>9. ASSUME EndOfFile PROVE CountInv'
  <2>1. /\ server = "recv" /\ server' = "accept" /\ img_cnt' = img_cnt + 1 /\ queue' = Tail(queue)
        /\ Head(queue).closed /\ UNCHANGED <<made, link, pc>>
    BY <1>9 DEF EndOfFile, boardVars
  <2>2. /\ queue # <<>> /\ Head(queue) = queue[1] /\ Len(made) = img_cnt + Len(queue)
        /\ queue \in Seq(Connection)
    BY <1>0, <2>1, FirstOfQueue DEF CountInv, TypeOK
  <2>3. /\ Len(queue) > 0 /\ Len(queue') = Len(queue) - 1 /\ queue' \in Seq(Connection)
        /\ \A i \in 1..Len(queue) - 1 : queue'[i] = queue[i + 1]
    BY <1>02, <2>1, <2>2, EmptySeq, HeadTailProperties
  <2>4. ASSUME link = "up" PROVE queue' # <<>> /\ ~Last(queue').closed
    <3>1. ~queue[Len(queue)].closed
      BY <1>0, <2>4 DEF CountInv, Last
    <3>2. Len(queue) # 1
      BY <2>1, <2>2, <3>1
    <3>3. Len(queue) - 1 \in 1..Len(queue) - 1
      BY <1>02, <2>3, <3>2
    <3>4. queue'[Len(queue) - 1] = queue[Len(queue)]
      BY <1>02, <2>3, <3>3
    <3> QED
      BY <2>3, <3>1, <3>3, <3>4, EmptySeq DEF Last
  <2>5. Len(made') = img_cnt' + Len(queue') /\ img_cnt' <= Len(made')
    BY <1>02, <2>1, <2>2, <2>3
  <2>6. Len(made') + Left' <= MaxFiles'
    BY <1>0, <1>01, <1>02, <2>1 DEF CountInv
  <2> QED
    BY <1>0, <2>1, <2>4, <2>5, <2>6 DEF CountInv
<1>10. ASSUME ServerExits PROVE CountInv'
  <2>1. /\ server' = "down" /\ queue' = <<>> /\ UNCHANGED <<pc, made, img_cnt>>
        /\ link' = IF link = "up" THEN "broken" ELSE link
    BY <1>10 DEF ServerExits
  <2>2. Len(made') + Left' <= MaxFiles'
    BY <1>0, <1>01, <1>02, <2>1 DEF CountInv
  <2> QED
    BY <1>0, <2>1, <2>2 DEF CountInv
<1>11. ASSUME ServerStarts PROVE CountInv'
  <2>1. /\ server = "down" /\ server' = "accept" /\ img_cnt' = 0 /\ made' = <<>>
        /\ UNCHANGED <<pc, link, queue>>
    BY <1>11 DEF ServerStarts, boardVars
  <2>2. queue = <<>> /\ link # "up" /\ Len(made') = 0 /\ Len(queue') = 0
    BY <1>0, <2>1 DEF CountInv
  <2>3. Len(made') + Left' <= MaxFiles'
    <3>1. Len(made) + Left <= MaxFiles
      BY <1>0 DEF CountInv
    <3>2. 0 + Left' <= MaxFiles
      BY <1>01, <1>02, <3>1, LessStillFits
    <3> QED
      BY <1>02, <2>2, <3>2
  <2> QED
    BY <1>0, <2>1, <2>2, <2>3 DEF CountInv
<1> QED
  BY <1>1, <1>2, <1>3, <1>4, <1>5, <1>6, <1>7, <1>8, <1>9, <1>10, <1>11
  DEF Next, SenderStep, ServerStep

LEMMA CleanStep == PipeInv /\ [Next]_vars => CleanInv'
<1> SUFFICES ASSUME PipeInv, [Next]_vars PROVE CleanInv'
  OBVIOUS
<1>0. /\ Len(clean) = Len(made) /\ made \in Seq(Seq(Part)) /\ clean \in Seq(0..MaxRuns)
      /\ run \in 0..MaxRuns /\ 0 \in 0..MaxRuns
  BY Constants DEF PipeInv, CleanInv, TypeOK
<1> USE DEF CleanInv, boardVars, serverVars
<1>1. CASE Connect
  <2>1. Len(made') = Len(made) + 1
    BY <1>0, <1>1, EmptySeq, AppendProperties DEF Connect
  <2>2. Len(clean') = Len(clean) + 1
    BY <1>0, <1>1, AppendProperties DEF Connect
  <2> QED
    BY <1>0, <2>1, <2>2
<1>2. CASE SendPart
  BY <1>0, <1>2 DEF SendPart
<1>3. CASE ServerStarts
  BY <1>3 DEF ServerStarts
<1>4. ASSUME UNCHANGED sentVars PROVE CleanInv'
  BY <1>0, <1>4
<1>5. CASE \/ StartRun \/ take_picture \/ TakeFails \/ ListImages \/ RotateMissing \/ RotateDone
           \/ \E n \in Names : RotateImage(n) \/ RotateFails(n)
  BY <1>4, <1>5 DEF StartRun, take_picture, TakeFails, ListImages, RotateMissing, RotateDone,
                    RotateImage, RotateFails
<1>6. CASE \/ ConnectFails \/ ConnectGivesUp \/ OpenFile \/ OpenFails \/ SendNowhere(<<cam, 1>>)
           \/ SendFails(<<cam, 1>>) \/ FileSent \/ PowerCut
  BY <1>4, <1>6 DEF ConnectFails, ConnectGivesUp, OpenFile, OpenFails, SendNowhere, SendFails,
                    FileSent, PowerCut
<1>7. CASE ServerStep \/ ServerExits \/ UNCHANGED vars
  BY <1>4, <1>7 DEF ServerStep, Accept, ReceivePart, EndOfFile, ServerExits, vars
<1> QED
  BY <1>1, <1>2, <1>3, <1>5, <1>6, <1>7 DEF Next, SenderStep

-----------------------------------------------------------------------------
(* What arrives.                                                           *)

LEMMA BeginsTransitive ==
  ASSUME NEW s \in Seq(Part), NEW t \in Seq(Part), NEW u \in Seq(Part), Begins(s, t), Begins(t, u)
  PROVE  Begins(s, u)
<1>1. Len(s) \in Nat /\ Len(t) \in Nat /\ Len(u) \in Nat
  BY LenProperties
<1> QED
  BY <1>1 DEF Begins

LEMMA MoveFirst ==
  ASSUME NEW s \in Seq(Part), NEW p \in Seq(Part), p # <<>>
  PROVE  Append(s, Head(p)) \o Tail(p) = s \o p
<1>1. /\ Head(p) \in Part /\ Tail(p) \in Seq(Part) /\ Head(p) = p[1]
      /\ Len(Tail(p)) = Len(p) - 1 /\ \A i \in 1..Len(p) - 1 : Tail(p)[i] = p[i + 1]
  BY HeadTailProperties
<1>2. PICK h \in Part, t \in Seq(Part) : h = Head(p) /\ t = Tail(p)
  BY <1>1
<1>3. Len(s) \in Nat /\ Len(p) \in Nat /\ Len(p) > 0
  BY EmptySeq
<1>4. PICK a \in Seq(Part) : a = Append(s, h)
  BY AppendProperties
<1>5. Len(a) = Len(s) + 1 /\ a[Len(s) + 1] = h /\ \A i \in 1..Len(s) : a[i] = s[i]
  BY <1>4, AppendProperties
<1>6. /\ a \o t \in Seq(Part) /\ Len(a \o t) = Len(a) + Len(t)
      /\ \A i \in 1..Len(a) + Len(t) : (a \o t)[i] = IF i <= Len(a) THEN a[i] ELSE t[i - Len(a)]
  BY ConcatProperties
<1>7. /\ s \o p \in Seq(Part) /\ Len(s \o p) = Len(s) + Len(p)
      /\ \A i \in 1..Len(s) + Len(p) : (s \o p)[i] = IF i <= Len(s) THEN s[i] ELSE p[i - Len(s)]
  BY ConcatProperties
<1>8. Len(t) = Len(p) - 1 /\ h = p[1] /\ \A i \in 1..Len(p) - 1 : t[i] = p[i + 1]
  BY <1>1, <1>2
<1>9. Len(a \o t) = Len(s \o p)
  BY <1>3, <1>5, <1>6, <1>7, <1>8
<1>10. ASSUME NEW i \in 1..Len(a \o t) PROVE (a \o t)[i] = (s \o p)[i]
  <2>1. i \in 1..Len(s) + Len(p) /\ i \in 1..Len(a) + Len(t)
    BY <1>6, <1>7, <1>9
  <2>2. CASE i <= Len(s)
    BY <1>3, <1>5, <1>6, <1>7, <2>1, <2>2
  <2>3. CASE i = Len(s) + 1
    BY <1>3, <1>5, <1>6, <1>7, <1>8, <2>1, <2>3
  <2>4. CASE i > Len(s) + 1
    <3>1. (a \o t)[i] = t[i - Len(a)] /\ (s \o p)[i] = p[i - Len(s)]
      BY <1>3, <1>5, <1>6, <1>7, <2>1, <2>4
    <3>2. i - Len(a) \in 1..Len(p) - 1 /\ (i - Len(a)) + 1 = i - Len(s)
      BY <1>3, <1>5, <2>1, <2>4
    <3> QED
      BY <1>8, <3>1, <3>2
  <2> QED
    BY <1>3, <2>1, <2>2, <2>3, <2>4
<1> QED
  BY <1>2, <1>4, <1>6, <1>7, <1>9, <1>10, SeqEqual

LEMMA BroughtIs ==
  ASSUME TypeOK, CountInv, server # "down", NEW n \in 1..Len(made)
  PROVE  /\ n <= img_cnt => Brought(n) = received[n - 1] /\ n - 1 \in 0..MaxFiles
         /\ n > img_cnt => n - img_cnt \in 1..Len(queue) /\ queue[n - img_cnt].parts \in Seq(Part)
         /\ Brought(n) \in Seq(Part) /\ made[n] \in Seq(Part)
<1>1. /\ made \in Seq(Seq(Part)) /\ received \in [0..MaxFiles -> Seq(Part)]
      /\ img_cnt \in 0..MaxFiles /\ queue \in Seq(Connection) /\ MaxFiles \in Nat
  BY LeftIs DEF TypeOK, MaxFiles
<1>2. Len(made) = img_cnt + Len(queue) /\ Len(queue) \in Nat /\ img_cnt \in Nat /\ Len(made) \in Nat
  BY <1>1, LenProperties DEF CountInv
<1>3. made[n] \in Seq(Part)
  BY <1>1, ElementOfSeq
<1>4. n <= img_cnt => n - 1 \in 0..MaxFiles
  BY <1>1, <1>2
<1>5. ASSUME n > img_cnt PROVE n - img_cnt \in 1..Len(queue) /\ queue[n - img_cnt].parts \in Seq(Part)
  <2>1. n - img_cnt \in 1..Len(queue)
    BY <1>2, <1>5
  <2>2. queue[n - img_cnt] \in Connection
    BY <1>1, <2>1, ElementOfSeq
  <2> QED
    BY <2>1, <2>2 DEF Connection
<1>6. n <= img_cnt => Brought(n) = received[n - 1] /\ received[n - 1] \in Seq(Part)
  BY <1>1, <1>4 DEF Brought
<1>7. ASSUME n > img_cnt PROVE Brought(n) \in Seq(Part)
  <2>1. CASE n = img_cnt + 1 /\ server = "recv"
    <3>1. n - img_cnt = 1
      BY <1>2, <2>1
    <3>2. received[img_cnt] \in Seq(Part) /\ queue[1].parts \in Seq(Part)
      BY <1>1, <1>5, <1>7, <3>1
    <3>3. Brought(n) = received[img_cnt] \o queue[1].parts
      <4>1. ~(n <= img_cnt)
        BY <1>2, <2>1
      <4> QED
        BY <2>1, <4>1 DEF Brought
    <3> QED
      BY <3>2, <3>3, ConcatProperties
  <2>2. CASE ~(n = img_cnt + 1 /\ server = "recv")
    BY <1>2, <1>5, <1>7, <2>2 DEF Brought
  <2> QED
    BY <2>1, <2>2
<1> QED
  BY <1>2, <1>3, <1>4, <1>5, <1>6, <1>7

LEMMA AppendAtEnd ==
  ASSUME NEW s \in Seq(Part), NEW p \in Seq(Part), NEW x \in Part
  PROVE  s \o Append(p, x) = Append(s \o p, x)
<1>1. <<x>> \in Seq(Part) /\ s \o p \in Seq(Part)
  BY ConcatProperties
<1>2. Append(p, x) = p \o <<x>> /\ Append(s \o p, x) = (s \o p) \o <<x>>
  BY <1>1, AppendIsConcat
<1> QED
  BY <1>1, <1>2, ConcatAssociative

LEMMA BeginsAfter ==
  ASSUME NEW s \in Seq(Part), NEW p \in Seq(Part), NEW q \in Seq(Part), Begins(p, q)
  PROVE  s \o p \in Seq(Part) /\ Begins(s \o p, s \o q)
<1>1. Len(s) \in Nat /\ Len(p) \in Nat /\ Len(q) \in Nat
  BY LenProperties
<1>2. /\ s \o p \in Seq(Part) /\ Len(s \o p) = Len(s) + Len(p)
      /\ \A i \in 1..Len(s) + Len(p) : (s \o p)[i] = IF i <= Len(s) THEN s[i] ELSE p[i - Len(s)]
  BY ConcatProperties
<1>3. /\ s \o q \in Seq(Part) /\ Len(s \o q) = Len(s) + Len(q)
      /\ \A i \in 1..Len(s) + Len(q) : (s \o q)[i] = IF i <= Len(s) THEN s[i] ELSE q[i - Len(s)]
  BY ConcatProperties
<1>4. Len(p) <= Len(q) /\ \A i \in 1..Len(p) : p[i] = q[i]
  BY DEF Begins
<1>5. ASSUME NEW i \in 1..Len(s) + Len(p) PROVE (s \o p)[i] = (s \o q)[i]
  <2>1. i \in 1..Len(s) + Len(q)
    BY <1>1, <1>4
  <2>2. CASE i <= Len(s)
    BY <1>2, <1>3, <2>1, <2>2
  <2>3. CASE i > Len(s)
    <3>1. i - Len(s) \in 1..Len(p) /\ ~(i <= Len(s))
      BY <1>1, <2>3
    <3>2. p[i - Len(s)] = q[i - Len(s)]
      BY <1>4, <3>1
    <3> QED
      BY <1>2, <1>3, <2>1, <3>1, <3>2
  <2>4. i <= Len(s) \/ i > Len(s)
    BY <1>1
  <2> QED
    BY <2>2, <2>3, <2>4
<1>6. Len(s \o p) <= Len(s \o q)
  BY <1>1, <1>2, <1>3, <1>4
<1> QED
  BY <1>2, <1>5, <1>6 DEF Begins

LEMMA FlowStep == PipeInv /\ [Next]_vars => FlowInv'
<1> SUFFICES ASSUME PipeInv, [Next]_vars PROVE FlowInv'
  OBVIOUS
<1>0. TypeOK /\ CountInv /\ FlowInv
  BY DEF PipeInv
<1>01. /\ made \in Seq(Seq(Part)) /\ received \in [0..MaxFiles -> Seq(Part)]
       /\ img_cnt \in 0..MaxFiles /\ img_cnt \in Nat /\ queue \in Seq(Connection)
       /\ Len(made) \in Nat /\ Len(queue) \in Nat /\ cuts \in Nat
  BY <1>0, LeftIs DEF TypeOK, MaxFiles
<1>02. server # "down" => Len(made) = img_cnt + Len(queue)
  BY <1>0 DEF CountInv
<1> DEFINE Same == UNCHANGED <<received, queue, server, img_cnt, made, cuts>> /\ (link' = "up" => link = "up")
<1>1. ASSUME Same, server' # "down", NEW n \in 1..Len(made') PROVE Flows(n)'
  <2>1. Flows(n) /\ Brought(n)' = Brought(n)
    BY <1>0, <1>1 DEF FlowInv, Brought
  <2> QED
    BY <1>1, <2>1 DEF Flows, Begins
<1>2. ASSUME \/ StartRun \/ take_picture \/ TakeFails \/ ListImages \/ RotateMissing \/ RotateDone
             \/ \E n \in Names : RotateImage(n) \/ RotateFails(n)
             \/ OpenFile \/ SendNowhere(<<cam, 1>>) \/ UNCHANGED vars
      PROVE  Same
  BY <1>2 DEF StartRun, take_picture, TakeFails, ListImages, RotateMissing, RotateDone, RotateImage,
              RotateFails, OpenFile, SendNowhere, NextCamera, serverVars, boardVars, vars
<1> HIDE DEF Same
<1>3. ASSUME Connect, NEW n \in 1..Len(made') PROVE Flows(n)'
  <2>1. /\ queue' = Append(queue, [parts |-> <<>>, closed |-> FALSE]) /\ made' = Append(made, <<>>)
        /\ UNCHANGED <<received, server, img_cnt, cuts>> /\ server # "down"
    BY <1>3 DEF Connect, serverVars
  <2>2. [parts |-> <<>>, closed |-> FALSE] \in Connection /\ <<>> \in Seq(Part)
    BY DEF Connection
  <2>3. /\ Len(made') = Len(made) + 1 /\ made'[Len(made) + 1] = <<>>
        /\ \A i \in 1..Len(made) : made'[i] = made[i]
        /\ queue'[Len(queue) + 1].parts = <<>>
        /\ \A i \in 1..Len(queue) : queue'[i] = queue[i]
    BY <1>01, <2>1, <2>2, AppendProperties
  <2>4. CASE n \in 1..Len(made)
    <3>1. Flows(n) /\ made'[n] = made[n] /\ n # Len(made')
      BY <1>0, <1>01, <2>1, <2>3, <2>4 DEF FlowInv
    <3>2. server = "recv" => 1 \in 1..Len(queue)
      BY <1>0, FirstOfQueue DEF CountInv
    <3>3. n > img_cnt => n - img_cnt \in 1..Len(queue)
      BY <1>0, <2>1, <2>4, BroughtIs
    <3>4. Brought(n)' = Brought(n)
      BY <1>01, <2>1, <2>3, <2>4, <3>2, <3>3 DEF Brought
    <3> QED
      BY <2>1, <3>1, <3>4 DEF Flows, Begins
  <2>5. CASE n = Len(made) + 1
    <3>1. n - img_cnt = Len(queue) + 1 /\ ~(n <= img_cnt)
      BY <1>01, <1>02, <2>1, <2>5
    <3>2. ~(n = img_cnt + 1 /\ server = "recv")
      BY <1>0, <1>01, <2>1, <3>1, FirstOfQueue DEF CountInv
    <3>3. Brought(n)' = <<>> /\ made'[n] = <<>>
      BY <2>1, <2>3, <2>5, <3>1, <3>2 DEF Brought
    <3>4. Brought(n)' = made'[n] /\ Len(<<>>) = 0
      BY <3>3, EmptySeq
    <3> QED
      BY <3>3, <3>4 DEF Flows, Begins
  <2> QED
    BY <1>01, <2>3, <2>4, <2>5
<1>4. ASSUME ConnectFails \/ ConnectGivesUp \/ OpenFails \/ SendFails(<<cam, 1>>) \/ FileSent, server' # "down", NEW n \in 1..Len(made')
      PROVE Flows(n)'
  <2>1. CloseSocket /\ UNCHANGED <<made, server, img_cnt, received, cuts>>
    BY <1>4 DEF ConnectFails, ConnectGivesUp, OpenFails, SendFails, FileSent, Exit, serverVars
  <2>2. link' = "none" /\ \A k \in 1..Len(queue) : queue'[k].parts = queue[k].parts
    BY <1>0, <2>1, CloseQueue DEF CountInv
  <2>3. Flows(n) /\ n \in 1..Len(made)
    BY <1>0, <1>4, <2>1 DEF FlowInv
  <2>4. server = "recv" => 1 \in 1..Len(queue)
    BY <1>0, FirstOfQueue DEF CountInv
  <2>5. n > img_cnt => n - img_cnt \in 1..Len(queue)
    BY <1>0, <1>4, <2>1, <2>3, BroughtIs
  <2>6. Brought(n)' = Brought(n)
    BY <1>01, <2>1, <2>2, <2>3, <2>4, <2>5 DEF Brought
  <2> QED
    BY <2>1, <2>2, <2>3, <2>6 DEF Flows, Begins
<1>5. ASSUME SendPart, NEW n \in 1..Len(made') PROVE Flows(n)'
  <2>1. /\ link = "up" /\ UNCHANGED <<link, server, img_cnt, received, cuts>>
        /\ queue' = [queue EXCEPT ![Len(queue)].parts = Append(@, ThisPart)]
        /\ made' = [made EXCEPT ![Len(made)] = Append(@, ThisPart)]
    BY <1>5 DEF SendPart, serverVars
  <2>2. server # "down" /\ queue # <<>>
    BY <1>0, <2>1 DEF CountInv
  <2>3. /\ Len(queue) \in 1..Len(queue) /\ 1 \in 1..Len(queue)
        /\ \A k \in 1..Len(queue) : queue[k].parts \in Seq(Part)
    BY <1>0, <2>2, FirstOfQueue
  <2>4. PICK x \in Part : x = ThisPart
    BY <1>5, ThisPartType DEF PipeInv, SendPart
  <2>5. PICK p \in Seq(Part) : p = Append(queue[Len(queue)].parts, x)
    BY <2>3, AppendProperties
  <2>6. queue' = [queue EXCEPT ![Len(queue)].parts = p]
    BY <2>1, <2>4, <2>5
  <2>7. \A k \in 1..Len(queue) : queue'[k].parts = IF k = Len(queue) THEN p ELSE queue[k].parts
    BY <1>01, <2>3, <2>6, SetParts
  <2>8. Len(made') = Len(made) /\ Len(made) \in 1..Len(made) /\ Len(made) = img_cnt + Len(queue)
    BY <1>01, <1>02, <2>1, <2>2, <2>3
  <2>9. CASE n # Len(made)
    <3>1. Flows(n) /\ made'[n] = made[n] /\ n # Len(made') /\ n \in 1..Len(made)
      BY <1>0, <1>01, <2>1, <2>2, <2>8, <2>9 DEF FlowInv
    <3>2. n > img_cnt => n - img_cnt \in 1..Len(queue) /\ n - img_cnt # Len(queue)
      BY <1>01, <2>8, <2>9, <3>1
    <3>3. n = img_cnt + 1 => 1 # Len(queue)
      BY <1>01, <2>8, <2>9, <3>1
    <3>4. Brought(n)' = Brought(n)
      BY <1>01, <2>1, <2>3, <2>7, <3>1, <3>2, <3>3 DEF Brought
    <3> QED
      BY <2>1, <3>1, <3>4 DEF Flows, Begins
  <2>10. CASE n = Len(made)
    <3>1. /\ n \in 1..Len(made) /\ Brought(n) \in Seq(Part) /\ made[n] \in Seq(Part)
      BY <1>0, <2>2, <2>8, <2>10, BroughtIs
    <3>2. PICK b \in Seq(Part), m \in Seq(Part) : b = Brought(n) /\ m = made[n]
      BY <3>1
    <3>3. Begins(b, m) /\ Len(b) = Len(m)
      BY <1>0, <2>1, <2>2, <2>10, <3>1, <3>2 DEF FlowInv, Flows
    <3>4. Brought(n)' = Append(b, x)
      <4>1. ~(n <= img_cnt) /\ n - img_cnt = Len(queue)
        BY <1>01, <2>3, <2>8, <2>10
      <4>2. CASE n = img_cnt + 1 /\ server = "recv"
        <5>0. img_cnt + Len(queue) = img_cnt + 1
          BY <2>8, <2>10, <4>2
        <5>1. Len(queue) = 1
          <6>1. \A j, k \in Nat : j + k = j + 1 => k = 1
            OBVIOUS
          <6> QED
            BY <1>01, <5>0, <6>1
        <5>2. b = received[img_cnt] \o queue[1].parts /\ p = Append(queue[1].parts, x)
          BY <2>5, <3>2, <4>1, <4>2, <5>1 DEF Brought
        <5>3. Brought(n)' = received[img_cnt] \o p
          BY <2>1, <2>3, <2>7, <4>1, <4>2, <5>1 DEF Brought
        <5>4. received[img_cnt] \in Seq(Part) /\ queue[1].parts \in Seq(Part)
          BY <1>01, <2>3
        <5> QED
          BY <5>2, <5>3, <5>4, AppendAtEnd
      <4>3. CASE ~(n = img_cnt + 1 /\ server = "recv")
        BY <2>1, <2>3, <2>5, <2>7, <3>2, <4>1, <4>3 DEF Brought
      <4> QED
        BY <4>2, <4>3
    <3>5. made'[n] = Append(m, x)
      BY <1>01, <2>1, <2>4, <2>8, <2>10, <3>2
    <3>6. /\ Len(Append(b, x)) = Len(b) + 1 /\ Append(b, x)[Len(b) + 1] = x
          /\ \A i \in 1..Len(b) : Append(b, x)[i] = b[i]
      BY AppendProperties
    <3>7. /\ Len(Append(m, x)) = Len(m) + 1 /\ Append(m, x)[Len(m) + 1] = x
          /\ \A i \in 1..Len(m) : Append(m, x)[i] = m[i]
      BY AppendProperties
    <3>8. Begins(Append(b, x), Append(m, x)) /\ Len(Append(b, x)) = Len(Append(m, x))
      BY <3>3, <3>6, <3>7, LenProperties DEF Begins
    <3> QED
      BY <3>4, <3>5, <3>8 DEF Flows, Begins
  <2> QED
    BY <2>9, <2>10
<1>6. ASSUME PowerCut, server' # "down", NEW n \in 1..Len(made') PROVE Flows(n)'
  <2>1. link' = "none" /\ UNCHANGED <<made, server, img_cnt, received>> /\ cuts' = cuts + 1
    BY <1>6 DEF PowerCut, serverVars
  <2>2. \A k \in 1..Len(queue) : Begins(queue'[k].parts, queue[k].parts)
    BY <1>0, <1>6, CutQueue DEF CountInv, Begins
  <2>3. queue' \in Seq(Connection) /\ Len(queue') = Len(queue)
    BY <1>0, <1>6, CutQueue DEF CountInv
  <2>4. Flows(n) /\ n \in 1..Len(made) /\ ~(cuts' = 0) /\ server # "down"
    BY <1>0, <1>01, <1>6, <2>1 DEF FlowInv
  <2>5. PICK b \in Seq(Part), m \in Seq(Part) : b = Brought(n) /\ m = made[n]
    BY <1>0, <2>4, BroughtIs
  <2>6. Begins(b, m)
    BY <2>4, <2>5 DEF Flows
  <2>7. Brought(n)' \in Seq(Part) /\ Begins(Brought(n)', b)
    <3>1. CASE n <= img_cnt
      <4>1. Brought(n)' = b
        BY <2>1, <2>5, <3>1 DEF Brought
      <4> QED
        BY <4>1 DEF Begins
    <3>2. CASE n > img_cnt
      <4>1. n - img_cnt \in 1..Len(queue) /\ ~(n <= img_cnt)
        BY <1>0, <1>01, <2>4, <3>2, BroughtIs
      <4>2. PICK k \in 1..Len(queue) : k = n - img_cnt
        BY <4>1
      <4>3. queue'[k] \in Connection /\ queue[k] \in Connection
        BY <1>01, <2>3, ElementOfSeq
      <4>4. PICK p \in Seq(Part), q \in Seq(Part) : p = queue'[k].parts /\ q = queue[k].parts
        BY <4>3 DEF Connection
      <4>5. Begins(p, q)
        BY <2>2, <4>4
      <4>6. CASE n = img_cnt + 1 /\ server = "recv"
        <5>1. k = 1
          BY <1>01, <4>2, <4>6
        <5>2. PICK r \in Seq(Part) : r = received[img_cnt]
          BY <1>01
        <5>3. Brought(n)' = r \o p /\ b = r \o q
          BY <2>1, <2>5, <4>1, <4>4, <4>6, <5>1, <5>2 DEF Brought
        <5> QED
          BY <4>5, <5>3, BeginsAfter
      <4>7. CASE ~(n = img_cnt + 1 /\ server = "recv")
        <5>1. Brought(n)' = p /\ b = q
          BY <2>1, <2>5, <4>1, <4>2, <4>4, <4>7 DEF Brought
        <5> QED
          BY <4>5, <5>1
      <4> QED
        BY <4>6, <4>7
    <3> QED
      BY <1>01, <2>4, <3>1, <3>2
  <2>8. Begins(Brought(n)', m)
    BY <2>6, <2>7, BeginsTransitive
  <2> QED
    BY <2>1, <2>4, <2>5, <2>8 DEF Flows, Begins
<1>7. ASSUME Accept, NEW n \in 1..Len(made') PROVE Flows(n)'
  <2>1. /\ server = "accept" /\ server' = "recv" /\ queue # <<>>
        /\ received' = [received EXCEPT ![img_cnt] = <<>>]
        /\ UNCHANGED <<made, queue, img_cnt, link, cuts>>
    BY <1>7 DEF Accept, boardVars
  <2>2. Flows(n) /\ n \in 1..Len(made)
    BY <1>0, <1>7, <2>1 DEF FlowInv
  <2>3. Brought(n)' = Brought(n)
    <3>1. CASE n <= img_cnt
      <4>1. n - 1 # img_cnt /\ n - 1 \in 0..MaxFiles
        BY <1>0, <1>01, <2>1, <2>2, <3>1, BroughtIs
      <4> QED
        BY <1>01, <2>1, <3>1, <4>1 DEF Brought
    <3>2. CASE n = img_cnt + 1
      <4>1. n - img_cnt = 1 /\ ~(n <= img_cnt)
        BY <1>01, <3>2
      <4>2. Brought(n) = queue[1].parts /\ queue[1].parts \in Seq(Part)
        BY <1>0, <2>1, <4>1, FirstOfQueue DEF Brought
      <4>3. Brought(n)' = <<>> \o queue[1].parts
        BY <1>01, <2>1, <3>2, <4>1 DEF Brought
      <4> QED
        BY <4>2, <4>3, ConcatEmptySeq
    <3>3. CASE n > img_cnt + 1
      <4>1. ~(n <= img_cnt) /\ n # img_cnt + 1
        BY <1>01, <2>2, <3>3
      <4> QED
        BY <2>1, <4>1 DEF Brought
    <3> QED
      BY <1>01, <2>2, <3>1, <3>2, <3>3
  <2> QED
    BY <2>1, <2>2, <2>3 DEF Flows, Begins
<1>8. ASSUME ReceivePart, NEW n \in 1..Len(made') PROVE Flows(n)'
  <2>1. /\ server = "recv" /\ Head(queue).parts # <<>>
        /\ received' = [received EXCEPT ![img_cnt] = Append(@, Head(Head(queue).parts))]
        /\ queue' = [queue EXCEPT ![1].parts = Tail(@)]
        /\ UNCHANGED <<made, server, img_cnt, link, cuts>>
    BY <1>8 DEF ReceivePart, boardVars
  <2>2. Flows(n) /\ n \in 1..Len(made)
    BY <1>0, <1>8, <2>1 DEF FlowInv
  <2>3. /\ queue # <<>> /\ 1 \in 1..Len(queue) /\ Head(queue) = queue[1]
        /\ queue[1].parts \in Seq(Part)
    BY <1>0, <2>1, FirstOfQueue DEF CountInv
  <2>4. PICK p \in Seq(Part), r \in Seq(Part) : p = queue[1].parts /\ p # <<>> /\ r = received[img_cnt]
    BY <1>01, <2>1, <2>3
  <2>5. PICK h \in Part, t \in Seq(Part) : h = Head(p) /\ t = Tail(p)
    BY <2>4, HeadTailProperties
  <2>6. queue' = [queue EXCEPT ![1].parts = t]
    BY <2>1, <2>4, <2>5
  <2>7. \A k \in 1..Len(queue) : queue'[k].parts = IF k = 1 THEN t ELSE queue[k].parts
    BY <1>01, <2>3, <2>6, SetParts
  <2>8. received' = [received EXCEPT ![img_cnt] = Append(r, h)]
    BY <1>01, <2>1, <2>3, <2>4, <2>5
  <2>9. Brought(n)' = Brought(n)
    <3>1. CASE n <= img_cnt
      <4>1. n - 1 # img_cnt /\ n - 1 \in 0..MaxFiles
        BY <1>0, <1>01, <2>1, <2>2, <3>1, BroughtIs
      <4> QED
        BY <1>01, <2>1, <2>8, <3>1, <4>1 DEF Brought
    <3>2. CASE n = img_cnt + 1
      <4>1. ~(n <= img_cnt)
        BY <1>01, <3>2
      <4>2. Brought(n) = r \o p
        BY <2>1, <2>4, <3>2, <4>1 DEF Brought
      <4>3. Brought(n)' = Append(r, h) \o t
        BY <1>01, <2>1, <2>3, <2>7, <2>8, <3>2, <4>1 DEF Brought
      <4> QED
        BY <2>4, <2>5, <4>2, <4>3, MoveFirst
    <3>3. CASE n > img_cnt + 1
      <4>1. ~(n <= img_cnt) /\ n # img_cnt + 1 /\ n - img_cnt # 1 /\ n > img_cnt
        BY <1>01, <2>2, <3>3
      <4>2. n - img_cnt \in 1..Len(queue)
        BY <1>0, <2>1, <2>2, <4>1, BroughtIs
      <4> QED
        BY <2>1, <2>7, <4>1, <4>2 DEF Brought
    <3> QED
      BY <1>01, <2>2, <3>1, <3>2, <3>3
  <2> QED
    BY <2>1, <2>2, <2>9 DEF Flows, Begins
<1>9. ASSUME EndOfFile, NEW n \in 1..Len(made') PROVE Flows(n)'
  <2>1. /\ server = "recv" /\ server' = "accept" /\ img_cnt' = img_cnt + 1 /\ queue' = Tail(queue)
        /\ Head(queue).parts = <<>> /\ UNCHANGED <<made, received, link, cuts>>
    BY <1>9 DEF EndOfFile, boardVars
  <2>2. Flows(n) /\ n \in 1..Len(made)
    BY <1>0, <1>9, <2>1 DEF FlowInv
  <2>3. queue # <<>> /\ Head(queue) = queue[1] /\ queue[1].parts = <<>>
    BY <1>0, <2>1, FirstOfQueue DEF CountInv
  <2>4. \A i \in 1..Len(queue) - 1 : queue'[i] = queue[i + 1]
    BY <1>01, <2>1, <2>3, HeadTailProperties
  <2>5. Brought(n)' = Brought(n)
    <3>1. CASE n <= img_cnt
      <4>1. n <= img_cnt + 1
        BY <1>01, <2>2, <3>1
      <4> QED
        BY <2>1, <3>1, <4>1 DEF Brought
    <3>2. CASE n = img_cnt + 1
      <4>1. ~(n <= img_cnt) /\ n <= img_cnt + 1 /\ n - 1 = img_cnt
        BY <1>01, <3>2
      <4>2. Brought(n) = received[img_cnt] \o <<>> /\ received[img_cnt] \in Seq(Part)
        BY <1>01, <2>1, <2>3, <3>2, <4>1 DEF Brought
      <4>3. Brought(n)' = received[img_cnt]
        BY <2>1, <4>1 DEF Brought
      <4> QED
        BY <4>2, <4>3, ConcatEmptySeq
    <3>3. CASE n > img_cnt + 1
      <4>1. ~(n <= img_cnt) /\ ~(n <= img_cnt + 1) /\ n # img_cnt + 1 /\ n > img_cnt
        BY <1>01, <2>2, <3>3
      <4>2. n - img_cnt \in 1..Len(queue)
        BY <1>0, <2>1, <2>2, <4>1, BroughtIs
      <4>3. n - (img_cnt + 1) \in 1..Len(queue) - 1 /\ (n - (img_cnt + 1)) + 1 = n - img_cnt
        BY <1>01, <2>2, <4>1, <4>2
      <4>4. queue'[n - (img_cnt + 1)] = queue[n - img_cnt]
        BY <2>4, <4>3
      <4> QED
        BY <2>1, <4>1, <4>4 DEF Brought
    <3> QED
      BY <1>01, <2>2, <3>1, <3>2, <3>3
  <2> QED
    BY <2>1, <2>2, <2>5 DEF Flows, Begins
<1>10. ASSUME ServerExits PROVE server' = "down"
  BY <1>10 DEF ServerExits
<1>11. ASSUME ServerStarts, NEW n \in 1..Len(made') PROVE FALSE
  <2>1. Len(made') = 0
    BY <1>11 DEF ServerStarts
  <2> QED
    BY <2>1
<1>12. ASSUME server' # "down", NEW n \in 1..Len(made') PROVE Flows(n)'
  BY <1>1, <1>2, <1>3, <1>4, <1>5, <1>6, <1>7, <1>8, <1>9, <1>10, <1>11, <1>12
  DEF Next, SenderStep, ServerStep
<1> QED
  BY <1>12 DEF FlowInv

-----------------------------------------------------------------------------
(* What went in.                                                           *)

LEMMA WholeIs ==
  ASSUME NEW c \in 1..Cameras, NEW p \in Picture
  PROVE  Whole(c, p) \in Seq(Part) /\ Len(Whole(c, p)) = p.length
<1> DEFINE e(i) == [camera |-> c, picture |-> p, number |-> i]
<1>1. p.length \in Nat /\ Parts \in Nat /\ p.length <= Parts
  BY PictureIsSomething, PipelineAssumption
<1>2. \A i \in 1..p.length : e(i) \in Part
  BY <1>1 DEF Part
<1>3. Whole(c, p) = [i \in 1..p.length |-> e(i)]
  BY DEF Whole
<1>4. PICK l \in Nat : l = p.length
  BY <1>1
<1> HIDE DEF e
<1>5. [i \in 1..l |-> e(i)] \in Seq(Part)
  BY <1>2, <1>4, IsASeq
<1>6. Len([i \in 1..l |-> e(i)]) = l
  BY <1>4
<1> QED
  BY <1>3, <1>4, <1>5, <1>6

\* A file has been sent to its end.
LEMMA SentIs ==
  ASSUME NEW c \in 1..Cameras, NEW p \in Picture, NEW m \in Seq(Part),
         Len(m) = p.length, \A i \in 1..p.length : m[i] = Whole(c, p)[i]
  PROVE  m = Whole(c, p)
<1>1. PICK w \in Seq(Part) : w = Whole(c, p) /\ Len(w) = p.length
  BY WholeIs
<1>2. Len(m) = Len(w) /\ \A i \in 1..Len(m) : m[i] = w[i]
  BY <1>1
<1> QED
  BY <1>1, <1>2, SeqEqual

LEMMA QueueIsCounted ==
  ASSUME TypeOK, CountInv, link = "up"
  PROVE  Len(made) \in 1..Len(made) /\ server # "down"
<1>1. server # "down" /\ queue # <<>> /\ Len(made) = img_cnt + Len(queue)
  BY DEF CountInv
<1>2. Len(queue) \in Nat \ {0} /\ Len(made) \in Nat /\ img_cnt \in Nat
  <2>1. queue \in Seq(Connection) /\ made \in Seq(Seq(Part)) /\ img_cnt \in 0..MaxFiles /\ MaxFiles \in Nat
    BY LeftIs DEF TypeOK, MaxFiles
  <2> QED
    BY <1>1, <2>1, EmptySeq
<1> QED
  BY <1>1, <1>2

LEMMA MadeStep == PipeInv /\ [Next]_vars => MadeInv'
<1> SUFFICES ASSUME PipeInv, [Next]_vars PROVE MadeInv'
  OBVIOUS
<1>0. TypeOK /\ CountInv /\ MadeInv /\ FilesInv /\ FreshInv /\ CleanInv
  BY DEF PipeInv
<1>01. /\ made \in Seq(Seq(Part)) /\ Len(made) \in Nat /\ cuts \in Nat /\ at \in Nat
       /\ cam \in 1..Cameras /\ clean \in Seq(0..MaxRuns) /\ Len(clean) = Len(made)
       /\ run \in 0..MaxRuns /\ 0 \in 0..MaxRuns
  BY <1>0, Constants DEF TypeOK, CleanInv
<1> DEFINE Good(n) == Sound(made[n], clean[n], 1)
           Same    == UNCHANGED <<server, sentVars, cuts>>
<1>02. MadeInv = (server # "down" /\ cuts = 0 =>
                    /\ \A n \in 1..Len(made) : (n = Len(made) /\ link = "up") \/ Good(n)
                    /\ link = "up" => Held(1))
  BY DEF MadeInv
<1>03. MadeInv' = (server' # "down" /\ cuts' = 0 =>
                    /\ \A n \in 1..Len(made') : (n = Len(made') /\ link' = "up") \/ Good(n)'
                    /\ link' = "up" => Held(1)')
  BY DEF MadeInv
<1>04. ASSUME NEW n, Same PROVE Good(n)' = Good(n)
  BY <1>04
<1> HIDE DEF Good
<1>1. ASSUME Same, link' = link, Held(1)' = Held(1) PROVE MadeInv'
  BY <1>0, <1>02, <1>03, <1>04, <1>1
<1>2. ASSUME Same, link' = link, link # "up" PROVE MadeInv'
  BY <1>0, <1>02, <1>03, <1>04, <1>2
<1>3. ASSUME \/ StartRun \/ take_picture \/ TakeFails \/ ListImages \/ RotateMissing \/ RotateDone
             \/ \E n \in Names : RotateImage(n) \/ RotateFails(n)
             \/ SendNowhere(<<cam, 1>>)
      PROVE  MadeInv'
  <2>1. Same /\ link' = link
    BY <1>3 DEF StartRun, take_picture, TakeFails, ListImages, RotateMissing, RotateDone, RotateImage,
                RotateFails, SendNowhere, serverVars
  <2>2. pc \in {"idle", "take", "list", "rotate"} \/ link = "broken"
    BY <1>3 DEF StartRun, take_picture, TakeFails, ListImages, RotateMissing, RotateDone, RotateImage,
                RotateFails, SendNowhere
  <2>3. link # "up"
    BY <1>0, <2>2 DEF CountInv
  <2> QED
    BY <1>2, <2>1, <2>3
<1>4. ASSUME Connect PROVE MadeInv'
  <2>1. /\ server # "down" /\ server' = server /\ cuts' = cuts /\ link' = "up" /\ pc = "connect" /\ pc' = "open"
        /\ made' = Append(made, <<>>) /\ clean' = Append(clean, IF failed THEN 0 ELSE run)
        /\ UNCHANGED <<at, run, failed>> /\ link # "up"
    BY <1>0, <1>4 DEF Connect, serverVars, CountInv
  <2>2. /\ Len(made') = Len(made) + 1 /\ made'[Len(made')] = <<>>
        /\ \A i \in 1..Len(made) : made'[i] = made[i]
    BY <1>01, <2>1, EmptySeq, AppendProperties
  <2>3. /\ clean'[Len(made')] = IF failed THEN 0 ELSE run
        /\ \A i \in 1..Len(made) : clean'[i] = clean[i]
    BY <1>01, <2>1, <2>2, AppendProperties
  <2>4. at = 0
    BY <1>0, <2>1 DEF FilesInv
  <2>5. Held(1)'
    <3>1. Len(made'[Len(made')]) = 0 /\ at' = 0
      BY <2>1, <2>2, <2>4, EmptySeq
    <3>2. \A i \in 1..at' : made'[Len(made')][i] = Whole(cam, files[<<cam, 1>>])'[i]
      BY <3>1
    <3>3. clean'[Len(made')] # 0 => clean'[Len(made')] = run' /\ ~failed'
      <4>1. CASE failed
        BY <2>3, <4>1
      <4>2. CASE ~failed
        BY <2>1, <2>3, <4>2
      <4> QED
        BY <4>1, <4>2
    <3> QED
      BY <3>1, <3>2, <3>3 DEF Held
  <2>6. ASSUME NEW n \in 1..Len(made'), cuts = 0 PROVE n = Len(made') \/ Good(n)'
    <3>1. n \in 1..Len(made) \/ n = Len(made')
      BY <1>01, <2>2, <2>6
    <3>2. \A i \in 1..Len(made) : Good(i)
      BY <1>0, <1>02, <2>1, <2>6
    <3>3. \A i \in 1..Len(made) : Good(i)' = Good(i)
      BY <2>2, <2>3 DEF Good
    <3> QED
      BY <3>1, <3>2, <3>3
  <2> QED
    BY <1>03, <2>1, <2>5, <2>6
<1>5. ASSUME OpenFile PROVE MadeInv'
  <2>1. /\ Same /\ link' = link /\ at' = 0 /\ pc = "open" /\ pc' = "send"
        /\ UNCHANGED <<cam, files, run, failed>>
    BY <1>5 DEF OpenFile, serverVars
  <2>2. at' = at
    BY <1>0, <2>1 DEF FilesInv
  <2>3. Held(1)' = Held(1)
    BY <2>1, <2>2 DEF Held
  <2> QED
    BY <1>1, <2>1, <2>3
<1>6. ASSUME ConnectFails \/ ConnectGivesUp \/ OpenFails \/ SendFails(<<cam, 1>>) \/ FileSent PROVE MadeInv'
  <2>1. Same /\ CloseSocket
    BY <1>6 DEF ConnectFails, ConnectGivesUp, OpenFails, SendFails, FileSent, Exit, serverVars
  <2>2. link' # "up"
    BY <2>1 DEF CloseSocket
  <2>3. ASSUME link = "up", server # "down", cuts = 0, Held(1) PROVE Good(Len(made))
    <3>1. ~ConnectFails /\ ~ConnectGivesUp /\ ~SendFails(<<cam, 1>>)
      BY <1>0, <2>3 DEF ConnectFails, ConnectGivesUp, SendFails, CountInv
    <3>2. /\ Len(made) \in 1..Len(made) /\ made[Len(made)] \in Seq(Part)
          /\ pc \in {"open", "send"}
          /\ clean[Len(made)] # 0 => clean[Len(made)] = run /\ Fresh(cam, 1)
      <4>1. Len(made) \in 1..Len(made) /\ pc \in {"open", "send"}
        BY <1>0, <2>3, QueueIsCounted DEF CountInv
      <4>2. clean[Len(made)] # 0 => clean[Len(made)] = run /\ ~failed
        BY <2>3 DEF Held
      <4> QED
        BY <1>0, <1>01, <4>1, <4>2, ElementOfSeq DEF FreshInv, Progress
    <3>3. run >= 1 /\ run \in Nat /\ 1 \in 0..MaxRuns /\ <<cam, 1>> \in Names
      <4>1. run >= 1 /\ run \in Nat
        BY <1>0, <1>01, <3>2 DEF FreshInv, BoardTypeOK
      <4>2. 1 \in 0..MaxRuns
        BY <1>01, <4>1, Constants
      <4> QED
        BY <1>01, <4>1, <4>2, NamesType
    <3>4. CASE OpenFails
      <4>1. Len(made[Len(made)]) = 0 /\ files[<<cam, 1>>] = NoFile
        BY <1>0, <2>3, <3>4 DEF OpenFails, Held, FilesInv
      <4>2. made[Len(made)] = <<>>
        BY <3>2, <4>1, EmptySeq
      <4>3. clean[Len(made)] = 0
        <5>1. WholePicture(run, 1) # NoFile
          BY <3>3, WholeType
        <5> QED
          BY <3>2, <4>1, <5>1 DEF Fresh
      <4> QED
        BY <4>2, <4>3 DEF Good, Sound
    <3>5. CASE FileSent
      <4>1. /\ pc = "send" /\ ~MoreToSend(<<cam, 1>>) /\ files[<<cam, 1>>] # NoFile
            /\ at <= files[<<cam, 1>>].length
        BY <1>0, <3>5 DEF FileSent, FilesInv
      <4>2. PICK p \in Picture : p = files[<<cam, 1>>] /\ p.turns = 1
        <5>1. files[<<cam, 1>>] \in Picture
          BY <1>0, <3>3, <4>1 DEF TypeOK
        <5> QED
          BY <1>0, <1>01, <3>3, <4>1, <5>1 DEF FilesInv
      <4>3. at = p.length
        BY <1>01, <4>1, <4>2, PictureIsSomething DEF MoreToSend
      <4>4. /\ Len(made[Len(made)]) = p.length
            /\ \A i \in 1..p.length : made[Len(made)][i] = Whole(cam, p)[i]
        BY <2>3, <4>2, <4>3 DEF Held
      <4>5. made[Len(made)] = Whole(cam, p)
        BY <1>01, <3>2, <4>4, SentIs
      <4>6. clean[Len(made)] # 0 => p = WholePicture(clean[Len(made)], 1)
        BY <3>2, <4>2 DEF Fresh
      <4> QED
        BY <1>01, <4>2, <4>5, <4>6 DEF Good, Sound
    <3> QED
      BY <1>6, <3>1, <3>4, <3>5
  <2> QED
    BY <1>0, <1>02, <1>03, <1>04, <2>1, <2>2, <2>3
<1>7. ASSUME SendPart PROVE MadeInv'
  <2>1. /\ link = "up" /\ link' = "up" /\ pc = "send" /\ pc' = "send" /\ at' = at + 1
        /\ MoreToSend(<<cam, 1>>) /\ UNCHANGED <<server, cuts, cam, files, run, failed, clean>>
        /\ made' = [made EXCEPT ![Len(made)] = Append(@, ThisPart)]
    BY <1>7 DEF SendPart, serverVars
  <2>2. Len(made) \in 1..Len(made) /\ server # "down"
    BY <1>0, <2>1, QueueIsCounted DEF CountInv
  <2>3. PICK x \in Part, m \in Seq(Part) :
          /\ x = ThisPart /\ m = made[Len(made)]
          /\ x = Whole(cam, files[<<cam, 1>>])[at + 1]
    BY <1>0, <1>01, <2>1, <2>2, ThisPartType, ElementOfSeq
  <2>4. PICK a \in Seq(Part) : a = Append(m, x)
    BY AppendProperties
  <2>5. made' = [made EXCEPT ![Len(made)] = a]
    BY <2>1, <2>3, <2>4
  <2>6. Len(made') = Len(made) /\ \A j \in 1..Len(made) : made'[j] = IF j = Len(made) THEN a ELSE made[j]
    BY <1>01, <2>2, <2>5, ExceptSeq
  <2>7. Len(a) = Len(m) + 1 /\ a[Len(m) + 1] = x /\ \A i \in 1..Len(m) : a[i] = m[i]
    BY <2>4, AppendProperties
  <2>8. ASSUME Held(1) PROVE Held(1)'
    <3>1. /\ Len(m) = at /\ \A i \in 1..at : m[i] = Whole(cam, files[<<cam, 1>>])[i]
          /\ clean[Len(made)] # 0 => clean[Len(made)] = run /\ ~failed
      BY <2>3, <2>8 DEF Held
    <3>2. made'[Len(made')] = a /\ Len(made') = Len(made)
      BY <2>2, <2>6
    <3>3. Len(a) = at + 1 /\ \A i \in 1..at + 1 : a[i] = Whole(cam, files[<<cam, 1>>])[i]
      <4>1. Len(a) = at + 1 /\ a[at + 1] = x /\ \A i \in 1..at : a[i] = m[i]
        BY <2>7, <3>1
      <4>2. \A i \in 1..at + 1 : i \in 1..at \/ i = at + 1
        BY <1>01
      <4> QED
        BY <2>3, <3>1, <4>1, <4>2
    <3> QED
      BY <2>1, <3>1, <3>2, <3>3 DEF Held
  <2>9. ASSUME cuts = 0, NEW n \in 1..Len(made') PROVE n = Len(made') \/ Good(n)'
    <3>1. CASE n # Len(made)
      <4>1. Good(n) /\ made'[n] = made[n]
        BY <1>0, <1>02, <2>2, <2>6, <2>9, <3>1
      <4> QED
        BY <2>1, <4>1 DEF Good
    <3> QED
      BY <2>6, <3>1
  <2> QED
    BY <1>0, <1>02, <1>03, <2>1, <2>2, <2>8, <2>9
<1>8. ASSUME PowerCut PROVE MadeInv'
  <2>1. cuts' # 0
    BY <1>01, <1>8 DEF PowerCut
  <2> QED
    BY <1>03, <2>1
<1>9. ASSUME ServerStep \/ UNCHANGED vars PROVE MadeInv'
  <2>1. /\ UNCHANGED <<made, clean, cuts, link, at, cam, files, pc, run, failed>>
        /\ (server' = "down" <=> server = "down")
    BY <1>9 DEF ServerStep, Accept, ReceivePart, EndOfFile, boardVars, serverVars, vars
  <2>2. Held(1)' = Held(1) /\ \A n : Good(n)' = Good(n)
    BY <2>1 DEF Held, Good
  <2> QED
    BY <1>0, <1>02, <1>03, <2>1, <2>2
<1>10. ASSUME ServerExits PROVE MadeInv'
  BY <1>03, <1>10 DEF ServerExits
<1>11. ASSUME ServerStarts PROVE MadeInv'
  <2>1. made' = <<>> /\ link' # "up" /\ Len(made') = 0
    BY <1>0, <1>11 DEF ServerStarts, boardVars, CountInv
  <2>2. \A n \in 1..Len(made') : FALSE
    BY <2>1
  <2> QED
    BY <1>03, <2>1, <2>2
<1> QED
  BY <1>3, <1>4, <1>5, <1>6, <1>7, <1>8, <1>9, <1>10, <1>11
  DEF Next, SenderStep

-----------------------------------------------------------------------------
LEMMA InitPipe == Init => PipeInv
<1> SUFFICES ASSUME Init PROVE PipeInv
  OBVIOUS
<1> USE DEF Init
<1>0. /\ Len(made) = 0 /\ img_cnt = 0 /\ run = 0 /\ queue = <<>> /\ pc = "idle" /\ link = "none"
      /\ server = "accept" /\ at = 0 /\ Len(queue) = 0 /\ Len(clean) = 0
  OBVIOUS
<1>1. MaxFiles \in Nat /\ Cameras * (MaxRuns - run) = MaxFiles
  <2>1. MaxRuns - run = MaxRuns
    BY <1>0, Constants
  <2> QED
    BY <2>1, Constants, Product DEF MaxFiles
<1>2. TypeOK
  <2>1. /\ 1 \in 1..Cameras /\ 0 \in 0..MaxRuns /\ 0 \in 0..Parts
        /\ 0 \in 0..MaxFaults /\ 0 \in 0..MaxExits /\ 0 \in 0..MaxCuts
    BY PipelineAssumption
  <2>2. img_cnt \in 0..Cameras * MaxRuns
    BY <1>0, <1>1 DEF MaxFiles
  <2>3. received \in [0..Cameras * MaxRuns -> Seq(Part)]
    BY EmptySeq
  <2>4. queue \in Seq(Connection) /\ made \in Seq(Seq(Part)) /\ clean \in Seq(0..MaxRuns)
    BY EmptySeq
  <2>5. files \in [Names -> Picture \cup {NoFile}]
    OBVIOUS
  <2> QED
    BY <2>1, <2>2, <2>3, <2>4, <2>5 DEF TypeOK
<1>3. FilesInv
  <2>1. \A c \in 1..Cameras, k \in 0..MaxRuns : files[<<c, k>>] = NoFile
    BY NamesType
  <2> QED
    BY <1>0, <2>1 DEF FilesInv
<1>4. CountInv
  <2>1. Len(made) + Left <= MaxFiles
    <3>1. Left = MaxFiles
      BY <1>0, <1>1, <1>2, LeftIs
    <3> QED
      BY <1>0, <1>1, <3>1
  <2> QED
    BY <1>0, <2>1 DEF CountInv
<1>5. \A n \in 1..Len(made) : FALSE
  BY <1>0
<1>6. FlowInv
  BY <1>5 DEF FlowInv
<1>7. MadeInv
  BY <1>0, <1>5 DEF MadeInv
<1>8. CleanInv
  BY <1>0 DEF CleanInv
<1> QED
  BY <1>2, <1>3, <1>4, <1>6, <1>7, <1>8, InitFresh DEF PipeInv

LEMMA NextPipe == PipeInv /\ [Next]_vars => PipeInv'
<1>1. PipeInv => FreshInv
  BY DEF PipeInv
<1> QED
  BY <1>1, NextFresh, TypeStep, FilesStep, CountStep, CleanStep, FlowStep, MadeStep DEF PipeInv

-----------------------------------------------------------------------------
\* No picture gets more turns than there are runs, and img_cnt stays within
\* the pictures the runs can send, in whatever order the programs of the
\* pipeline run and stop.
THEOREM TypeCorrect == Spec => []TypeOK
<1>1. PipeInv => TypeOK
  BY DEF PipeInv
<1> QED
  BY InitPipe, NextPipe, <1>1, PTL DEF Spec

LEMMA PrefixWhenBegins ==
  ASSUME NEW s \in Seq(Part), NEW t \in Seq(Part), Begins(s, t)
  PROVE  IsPrefix(s, t) /\ (Len(s) = Len(t) => s = t)
<1>1. Len(s) \in Nat /\ Len(t) \in Nat /\ Len(s) <= Len(t) /\ \A i \in 1..Len(s) : s[i] = t[i]
  BY LenProperties DEF Begins
<1>2. SubSeq(s, 1, Len(s)) = s
  BY SubSeqFull
<1>3. /\ SubSeq(t, 1, Len(s)) \in Seq(Part) /\ Len(SubSeq(t, 1, Len(s))) = Len(s)
      /\ \A i \in 1..Len(s) : SubSeq(t, 1, Len(s))[i] = t[i]
  <2>1. \A i \in 1..Len(s) : t[i] \in Part
    BY <1>1, ElementOfSeq
  <2> QED
    BY <1>1, <2>1, SubSeqProperties
<1>4. SubSeq(t, 1, Len(s)) = s
  BY <1>1, <1>3, SeqEqual
<1>5. Len(s) = Len(t) => s = t
  BY <1>1, SeqEqual
<1> QED
  BY <1>1, <1>2, <1>4, <1>5 DEF IsPrefix

\* What server_jpg writes to received_image_<n>.jpg is what its n-th
\* connection brought, in order, and when no power was cut all of it: the
\* connections are numbered alike at both ends, whoever waits or fails.
THEOREM OrderKept == Spec => []ReceivedInOrder
<1>1. PipeInv => ReceivedInOrder
  <2> SUFFICES ASSUME PipeInv, server # "down" PROVE ReceivedInOrder
    BY DEF ReceivedInOrder
  <2>1. TypeOK /\ CountInv /\ FlowInv
    BY DEF PipeInv
  <2>2. /\ Len(made) = img_cnt + Len(queue) /\ Len(queue) \in Nat /\ img_cnt \in Nat
        /\ server = "recv" => Len(queue) > 0
    <3>1. /\ Len(made) = img_cnt + Len(queue) /\ img_cnt \in 0..MaxFiles /\ MaxFiles \in Nat
          /\ queue \in Seq(Connection) /\ (server = "recv" => queue # <<>>)
      BY <2>1, LeftIs DEF CountInv, TypeOK, MaxFiles
    <3> QED
      BY <3>1, EmptySeq, LenProperties
  <2>3. ASSUME NEW n \in 0..img_cnt - 1
        PROVE  IsPrefix(received[n], made[n + 1]) /\ (cuts = 0 => received[n] = made[n + 1])
    <3>1. n + 1 \in 1..Len(made) /\ n + 1 <= img_cnt /\ (n + 1) - 1 = n
      BY <2>2
    <3>2. PICK s \in Seq(Part), t \in Seq(Part) : s = Brought(n + 1) /\ t = made[n + 1]
      BY <2>1, <3>1, BroughtIs
    <3>3. s = received[n]
      BY <2>1, <3>1, <3>2, BroughtIs
    <3>4. Begins(s, t) /\ (cuts = 0 => Len(s) = Len(t))
      BY <2>1, <3>1, <3>2 DEF FlowInv, Flows
    <3> QED
      BY <3>2, <3>3, <3>4, PrefixWhenBegins
  <2>4. ASSUME server = "recv" PROVE IsPrefix(received[img_cnt], made[img_cnt + 1])
    <3>1. img_cnt + 1 \in 1..Len(made) /\ ~(img_cnt + 1 <= img_cnt) /\ (img_cnt + 1) - img_cnt = 1
      BY <2>2, <2>4
    <3>2. queue[1].parts \in Seq(Part) /\ made[img_cnt + 1] \in Seq(Part) /\ img_cnt + 1 > img_cnt
      BY <2>1, <2>2, <3>1, BroughtIs
    <3>3. PICK r \in Seq(Part), p \in Seq(Part), t \in Seq(Part) :
            r = received[img_cnt] /\ p = queue[1].parts /\ t = made[img_cnt + 1]
      BY <2>1, <3>2 DEF TypeOK
    <3>4. Brought(img_cnt + 1) = r \o p
      BY <2>4, <3>1, <3>3 DEF Brought
    <3>5. Begins(r \o p, t)
      BY <2>1, <3>1, <3>3, <3>4 DEF FlowInv, Flows
    <3>6. Begins(r, r \o p) /\ r \o p \in Seq(Part)
      BY ConcatProperties, LenProperties DEF Begins
    <3>7. Begins(r, t)
      BY <3>5, <3>6, BeginsTransitive
    <3> QED
      BY <3>3, <3>7, PrefixWhenBegins
  <2> QED
    BY <2>3, <2>4 DEF ReceivedInOrder
<1> QED
  BY InitPipe, NextPipe, <1>1, PTL DEF Spec

\* Without a power cut, every received file is empty or all that one image
\* file of the board held, turned once: exit in the middle of a run closes an
\* empty connection, and never a begun one. It is the whole picture of the
\* run that sent it when cameras, writes and rotate.py had worked in that run,
\* however torn the files are that earlier runs have left.
THEOREM WholeFiles == Spec => []WholeOrEmpty
<1>1. PipeInv => WholeOrEmpty
  <2> SUFFICES ASSUME PipeInv, server # "down", cuts = 0, NEW n \in 0..img_cnt - 1
               PROVE  Sound(received[n], clean[n + 1], 1)
    BY DEF WholeOrEmpty, Sound
  <2>1. TypeOK /\ CountInv /\ FlowInv /\ MadeInv
    BY DEF PipeInv
  <2>2. Len(made) = img_cnt + Len(queue) /\ Len(queue) \in Nat /\ img_cnt \in Nat /\ (link = "up" => Len(queue) > 0)
    <3>1. /\ Len(made) = img_cnt + Len(queue) /\ img_cnt \in 0..MaxFiles /\ MaxFiles \in Nat
          /\ queue \in Seq(Connection) /\ (link = "up" => queue # <<>>)
      BY <2>1, LeftIs DEF CountInv, TypeOK, MaxFiles
    <3> QED
      BY <3>1, EmptySeq, LenProperties
  <2>3. /\ n + 1 \in 1..Len(made) /\ n + 1 <= img_cnt /\ (n + 1) - 1 = n
        /\ link = "up" => n + 1 # Len(made)
    BY <2>2
  <2>4. PICK s \in Seq(Part), t \in Seq(Part) : s = Brought(n + 1) /\ t = made[n + 1]
    BY <2>1, <2>3, BroughtIs
  <2>5. s = received[n]
    BY <2>1, <2>3, <2>4, BroughtIs
  <2>6. Begins(s, t) /\ Len(s) = Len(t)
    BY <2>1, <2>3, <2>4 DEF FlowInv, Flows
  <2>7. s = t
    BY <2>6, PrefixWhenBegins
  <2> QED
    BY <2>1, <2>3, <2>4, <2>5, <2>7 DEF MadeInv
<1> QED
  BY InitPipe, NextPipe, <1>1, PTL DEF Spec

-----------------------------------------------------------------------------
(* ImageServerJs: connections that are open side by side.                  *)

\* Connections the sender can still make.
JsLeft ==
  Cameras * (MaxRuns - run)
    + (CASE pc = "idle"              -> 0
         [] pc \in {"take", "connect"} -> Cameras - cam + 1
         [] pc \in {"open", "send"}    -> Cameras - cam)

\* A connection of the queue goes: it has ended, or was reset.
JsGone(k) == JsEnd(k) \/ JsError(k)

JsTypeOK == TypeOK /\ open \in Seq(Nat) /\ pc \notin {"list", "rotate"} /\ server # "recv"

\* Pictures are sent as they were taken. What is being sent is there.
JsFilesInv ==
  /\ \A c \in 1..Cameras : files[<<c, 0>>] # NoFile => files[<<c, 0>>].turns = 0
  /\ pc # "idle" => run >= 1
  /\ pc = "send" => files[<<cam, 0>>] # NoFile /\ at <= files[<<cam, 0>>].length
  /\ pc # "send" => at = 0
  /\ ~failed /\ pc \in {"connect", "open", "send"} => Fresh(cam, 0)

\* The connection at place k of the queue is the one with this number.
Number(k) == IF k <= Len(open) THEN open[k] + 1 ELSE img_cnt + (k - Len(open))

\* What it has brought so far.
Carried(k) == IF k <= Len(open) THEN received[open[k]] \o queue[k].parts ELSE queue[k].parts

JsCountInv ==
  /\ server # "down" => Len(made) = img_cnt + (Len(queue) - Len(open))
  /\ Len(open) <= Len(queue)
  /\ Len(made) + JsLeft <= MaxFiles
  /\ img_cnt <= Len(made)
  /\ server = "down" => queue = <<>> /\ link # "up"
  /\ link = "up" => queue # <<>> /\ ~queue[Len(queue)].closed /\ Number(Len(queue)) = Len(made)
  /\ pc \in {"open", "send"} <=> link # "none"
  /\ \A k \in 1..Len(open) : open[k] < img_cnt
  /\ \A j, k \in 1..Len(open) : j < k => open[j] < open[k]

FlowsTo(s, t, whole) == Begins(s, t) /\ (whole => Len(s) = Len(t))

Ended(n) == \A k \in 1..Len(open) : open[k] # n

\* A connection of the queue has brought what the sender put into it, all of
\* it when no power was cut or when it is the one the sender is at.
JsFlows(k) ==
  FlowsTo(Carried(k), made[Number(k)], cuts = 0 \/ (k = Len(queue) /\ link = "up"))

\* So has one that has ended.
JsKept(n) == Ended(n) => FlowsTo(received[n], made[n + 1], cuts = 0)

JsFlowInv ==
  server # "down" =>
    /\ \A k \in 1..Len(queue) : JsFlows(k)
    /\ \A n \in 0..img_cnt - 1 : JsKept(n)

JsMadeInv ==
  server # "down" /\ cuts = 0 =>
    /\ \A n \in 1..Len(made) : (n = Len(made) /\ link = "up") \/ Sound(made[n], clean[n], 0)
    /\ link = "up" => Held(0)

JsInv == JsTypeOK /\ JsFilesInv /\ JsCountInv /\ CleanInv /\ JsFlowInv /\ JsMadeInv

-----------------------------------------------------------------------------
\* The k-th element is left out, the ones behind it move up.
LEMMA RemovedIs ==
  ASSUME NEW S, NEW s \in Seq(S), NEW k \in 1..Len(s)
  PROVE  /\ RemoveAt(s, k) \in Seq(S) /\ Len(RemoveAt(s, k)) = Len(s) - 1
         /\ \A j \in 1..Len(s) - 1 : RemoveAt(s, k)[j] = IF j < k THEN s[j] ELSE s[j + 1]
<1>1. Len(s) \in Nat
  BY LenProperties
<1>2. PICK a \in Seq(S) : /\ a = SubSeq(s, 1, k - 1) /\ Len(a) = k - 1
                          /\ \A j \in 1..k - 1 : a[j] = s[j]
  <2>1. 1 \in 1..Len(s) + 1 /\ k - 1 \in 0..Len(s) /\ (k - 1) - 1 + 1 = k - 1
    BY <1>1
  <2>2. \A i \in 1..k - 1 : s[i] \in S
    BY <1>1, ElementOfSeq
  <2>3. /\ SubSeq(s, 1, k - 1) \in Seq(S) /\ Len(SubSeq(s, 1, k - 1)) = k - 1
        /\ \A j \in 1..k - 1 : SubSeq(s, 1, k - 1)[j] = s[j]
    BY <1>1, <2>1, <2>2, SubSeqProperties
  <2> QED
    BY <2>3
<1>3. PICK b \in Seq(S) : /\ b = SubSeq(s, k + 1, Len(s)) /\ Len(b) = Len(s) - k
                          /\ \A j \in 1..Len(s) - k : b[j] = s[j + k]
  <2>1. \A i \in k + 1..Len(s) : s[i] \in S
    BY <1>1, ElementOfSeq
  <2>2. /\ SubSeq(s, k + 1, Len(s)) \in Seq(S)
        /\ Len(SubSeq(s, k + 1, Len(s))) = Len(s) - k
        /\ \A j \in 1..Len(s) - k : SubSeq(s, k + 1, Len(s))[j] = s[j + k]
    BY <1>1, <2>1, SubSeqProperties
  <2> QED
    BY <2>2
<1>4. /\ a \o b \in Seq(S) /\ Len(a \o b) = Len(a) + Len(b)
      /\ \A j \in 1..Len(a) + Len(b) : (a \o b)[j] = IF j <= Len(a) THEN a[j] ELSE b[j - Len(a)]
  BY ConcatProperties
<1>5. RemoveAt(s, k) = a \o b
  BY <1>2, <1>3 DEF RemoveAt
<1>6. Len(a) + Len(b) = Len(s) - 1
  <2>1. \A l, m, n \in Int : m = k - 1 /\ n = l - k => m + n = l - 1
    OBVIOUS
  <2>2. Len(a) \in Int /\ Len(b) \in Int /\ Len(s) \in Int
    BY <1>1, LenProperties
  <2> QED
    BY <1>2, <1>3, <2>1, <2>2
<1>7. ASSUME NEW j \in 1..Len(s) - 1 PROVE (a \o b)[j] = IF j < k THEN s[j] ELSE s[j + 1]
  <2>1. CASE j < k
    <3>1. j \in 1..k - 1 /\ j <= Len(a)
      BY <1>1, <1>2, <2>1
    <3> QED
      BY <1>2, <1>4, <1>6, <2>1, <3>1
  <2>2. CASE ~(j < k)
    <3>0. Len(a) = k - 1 /\ Len(s) \in Nat
      BY <1>1, <1>2
    <3>1. j - Len(a) \in 1..Len(s) - k /\ (j - Len(a)) + k = j + 1 /\ ~(j <= Len(a))
      BY <2>2, <3>0
    <3>2. (a \o b)[j] = b[j - Len(a)]
      BY <1>4, <1>6, <3>1
    <3> QED
      BY <1>3, <2>2, <3>1, <3>2
  <2> QED
    BY <2>1, <2>2
<1> QED
  BY <1>4, <1>5, <1>6, <1>7

\* The numbers of the connections in the queue.
LEMMA NumberIs ==
  ASSUME JsTypeOK, JsCountInv, server # "down", NEW k \in 1..Len(queue)
  PROVE  /\ Number(k) \in 1..Len(made) /\ made[Number(k)] \in Seq(Part)
         /\ queue[k] \in Connection /\ queue[k].parts \in Seq(Part)
         /\ k <= Len(open) => /\ k \in 1..Len(open) /\ Number(k) = open[k] + 1
                              /\ open[k] \in 0..img_cnt - 1 /\ open[k] \in 0..MaxFiles
                              /\ received[open[k]] \in Seq(Part)
         /\ k > Len(open) => Number(k) = img_cnt + (k - Len(open)) /\ Number(k) > img_cnt
         /\ Carried(k) \in Seq(Part)
         /\ \A j \in 1..Len(queue) : j < k => Number(j) < Number(k)
<1>1. /\ made \in Seq(Seq(Part)) /\ received \in [0..MaxFiles -> Seq(Part)]
      /\ img_cnt \in 0..MaxFiles /\ queue \in Seq(Connection) /\ MaxFiles \in Nat
      /\ open \in Seq(Nat)
  BY LeftIs DEF JsTypeOK, TypeOK, MaxFiles
<1>2. /\ Len(made) = img_cnt + (Len(queue) - Len(open)) /\ Len(queue) \in Nat /\ img_cnt \in Nat
      /\ Len(made) \in Nat /\ Len(open) \in Nat /\ Len(open) <= Len(queue)
  BY <1>1, LenProperties DEF JsCountInv
<1>3. queue[k] \in Connection /\ queue[k].parts \in Seq(Part)
  <2>1. queue[k] \in Connection
    BY <1>1, ElementOfSeq
  <2> QED
    BY <2>1 DEF Connection
<1>4. \A j \in 1..Len(open) : open[j] \in Nat /\ open[j] < img_cnt
  BY <1>1, ElementOfSeq DEF JsCountInv
<1>5. ASSUME k <= Len(open)
      PROVE  /\ k \in 1..Len(open) /\ Number(k) = open[k] + 1
             /\ open[k] \in 0..img_cnt - 1 /\ open[k] \in 0..MaxFiles
             /\ received[open[k]] \in Seq(Part)
  <2>1. k \in 1..Len(open)
    BY <1>2, <1>5
  <2>2. open[k] \in Nat /\ open[k] < img_cnt
    BY <1>4, <2>1
  <2>3. open[k] \in 0..img_cnt - 1 /\ open[k] \in 0..MaxFiles
    <3>1. img_cnt \in 0..MaxFiles /\ MaxFiles \in Nat /\ img_cnt \in Nat
      BY <1>1, <1>2
    <3>2. \A o \in Nat : o < img_cnt => o \in 0..img_cnt - 1 /\ o \in 0..MaxFiles
      BY <3>1
    <3> QED
      BY <2>2, <3>2
  <2> QED
    BY <1>1, <1>5, <2>1, <2>3 DEF Number
<1>6. ASSUME k > Len(open) PROVE Number(k) = img_cnt + (k - Len(open)) /\ Number(k) > img_cnt
  BY <1>2, <1>6 DEF Number
<1>7. Number(k) \in 1..Len(made)
  <2>1. CASE k <= Len(open)
    BY <1>2, <1>5, <2>1
  <2>2. CASE k > Len(open)
    BY <1>2, <1>6, <2>2
  <2> QED
    BY <1>2, <2>1, <2>2
<1>8. made[Number(k)] \in Seq(Part)
  BY <1>1, <1>7, ElementOfSeq
<1>9. Carried(k) \in Seq(Part)
  <2>1. CASE k <= Len(open)
    BY <1>3, <1>5, <2>1, ConcatProperties DEF Carried
  <2>2. CASE ~(k <= Len(open))
    BY <1>3, <2>2 DEF Carried
  <2> QED
    BY <2>1, <2>2
<1>10. ASSUME NEW j \in 1..Len(queue), j < k PROVE Number(j) < Number(k)
  <2>1. CASE k <= Len(open)
    <3>1. j \in 1..Len(open) /\ k \in 1..Len(open)
      BY <1>2, <1>10, <2>1
    <3>2. open[j] < open[k] /\ open[j] \in Nat /\ open[k] \in Nat
      BY <1>4, <1>10, <3>1 DEF JsCountInv
    <3>3. Number(j) = open[j] + 1 /\ Number(k) = open[k] + 1
      BY <3>1 DEF Number
    <3> QED
      BY <3>2, <3>3
  <2>2. CASE k > Len(open)
    <3>1. CASE j <= Len(open)
      <4>1. j \in 1..Len(open)
        BY <1>2, <3>1
      <4>2. open[j] < img_cnt /\ open[j] \in Nat /\ Number(j) = open[j] + 1
        BY <1>4, <4>1 DEF Number
      <4> QED
        BY <1>2, <1>6, <2>2, <4>2
    <3>2. CASE j > Len(open)
      <4>1. Number(j) = img_cnt + (j - Len(open))
        BY <1>2, <3>2 DEF Number
      <4> QED
        BY <1>2, <1>6, <1>10, <2>2, <4>1
    <3> QED
      BY <1>2, <3>1, <3>2
  <2> QED
    BY <1>2, <2>1, <2>2
<1> QED
  BY <1>3, <1>5, <1>6, <1>7, <1>8, <1>9, <1>10

\* The sender's connection has not ended.
LEMMA EndedIsOlder ==
  ASSUME JsTypeOK, JsCountInv, link = "up", NEW n \in 0..img_cnt - 1, Ended(n)
  PROVE  n + 1 # Len(made)
<1>1. server # "down" /\ queue # <<>> /\ Number(Len(queue)) = Len(made)
  BY DEF JsCountInv
<1>2. Len(queue) \in 1..Len(queue) /\ img_cnt \in Nat /\ Len(queue) \in Nat
  <2>1. queue \in Seq(Connection) /\ img_cnt \in 0..MaxFiles /\ MaxFiles \in Nat
    BY LeftIs DEF JsTypeOK, TypeOK, MaxFiles
  <2> QED
    BY <1>1, <2>1, EmptySeq
<1>3. CASE Len(queue) <= Len(open)
  <2> DEFINE m == open[Len(queue)]
  <2>1. /\ Len(queue) \in 1..Len(open) /\ Number(Len(queue)) = m + 1 /\ m \in 0..img_cnt - 1
    BY <1>1, <1>2, <1>3, NumberIs
  <2>2. m # n
    BY <2>1 DEF Ended
  <2> HIDE DEF m
  <2> QED
    BY <1>1, <1>2, <2>1, <2>2
<1>4. CASE Len(queue) > Len(open)
  <2>1. Number(Len(queue)) > img_cnt
    BY <1>1, <1>2, <1>4, NumberIs
  <2> QED
    BY <1>1, <1>2, <2>1
<1>5. Len(open) \in Nat
  BY LenProperties DEF JsTypeOK
<1> QED
  BY <1>2, <1>3, <1>4, <1>5

-----------------------------------------------------------------------------
(* The steps of DirectSender and of the event loop.                        *)

\* What the sender and the server do to their parts of the state.
LEMMA JsCases ==
  ASSUME [JsNext]_jsVars
  PROVE  \/ StartRun /\ UNCHANGED open
         \/ JsConnect
         \/ (DirectTake \/ DirectTakeFails) /\ UNCHANGED open
         \/ (ConnectFails \/ ConnectGivesUp \/ DirectOpenFails \/ SendFails(<<cam, 0>>) \/ DirectSent) /\ UNCHANGED open
         \/ DirectOpen /\ UNCHANGED open
         \/ DirectSend /\ UNCHANGED open
         \/ SendNowhere(<<cam, 0>>) /\ UNCHANGED open
         \/ PowerCut /\ UNCHANGED open
         \/ JsConnection
         \/ \E k \in DOMAIN open : JsData(k)
         \/ \E k \in DOMAIN open : JsGone(k)
         \/ ServerExits /\ open' = <<>>
         \/ ServerStarts /\ UNCHANGED open
         \/ UNCHANGED jsVars
  BY DEF JsNext, JsSender, Transfer, JsStep, JsServe, JsGone

LEMMA DirectPartType ==
  ASSUME JsTypeOK, JsFilesInv, pc = "send", MoreToSend(<<cam, 0>>)
  PROVE  /\ DirectPart \in Part /\ files[<<cam, 0>>] \in Picture /\ at + 1 \in 0..Parts
         /\ DirectPart = Whole(cam, files[<<cam, 0>>])[at + 1]
<1>1. cam \in 1..Cameras /\ at \in Nat /\ Parts \in Nat /\ files[<<cam, 0>>] # NoFile
  BY PipelineAssumption DEF JsTypeOK, TypeOK, JsFilesInv
<1>2. 0 \in 0..MaxRuns
  BY Constants
<1>3. files[<<cam, 0>>] \in Picture
  BY <1>1, <1>2, NamesType DEF JsTypeOK, TypeOK
<1>4. at + 1 \in 1..files[<<cam, 0>>].length /\ files[<<cam, 0>>].length \in 0..Parts
  BY <1>1, <1>3, PictureIsSomething DEF MoreToSend
<1>5. at + 1 \in 1..Parts
  BY <1>1, <1>4
<1> QED
  BY <1>1, <1>3, <1>4, <1>5 DEF DirectPart, Part, Whole

\* What take_picture leaves: the camera's picture, whole or torn.
LEMMA JsTook ==
  ASSUME JsTypeOK, JsFilesInv, pc = "take",
         \/ files' = [files EXCEPT ![<<cam, 0>>] = WholePicture(run, 0)]
         \/ Torn(<<cam, 0>>, WholePicture(run, 0))
         \/ UNCHANGED files
  PROVE  /\ files' \in [Names -> Picture \cup {NoFile}]
         /\ \A c \in 1..Cameras : files'[<<c, 0>>] # NoFile => files'[<<c, 0>>].turns = 0
<1>1. /\ TypeOK /\ run >= 1 /\ run \in 1..MaxRuns /\ run \in Nat /\ cam \in 1..Cameras
      /\ files \in [Names -> Picture \cup {NoFile}] /\ 0 \in 0..MaxRuns
      /\ \A c \in 1..Cameras : files[<<c, 0>>] # NoFile => files[<<c, 0>>].turns = 0
  BY Constants DEF JsTypeOK, TypeOK, JsFilesInv
<1>2. CASE UNCHANGED files
  BY <1>1, <1>2
<1>3. CASE \E p \in Picture : files' = [files EXCEPT ![<<cam, 0>>] = p] /\ p.turns = 0
  <2>1. PICK p \in Picture : files' = [files EXCEPT ![<<cam, 0>>] = p] /\ p.turns = 0
    BY <1>3
  <2>2. \A c \in 1..Cameras : <<c, 0>> \in Names /\ (<<c, 0>> = <<cam, 0>> <=> c = cam)
    BY <1>1, NamesType
  <2>3. ASSUME NEW c \in 1..Cameras, files'[<<c, 0>>] # NoFile PROVE files'[<<c, 0>>].turns = 0
    <3>1. CASE c = cam
      BY <1>1, <2>1, <2>2, <3>1
    <3>2. CASE c # cam
      BY <1>1, <2>1, <2>2, <2>3, <3>2
    <3> QED
      BY <3>1, <3>2
  <2> QED
    BY <1>1, <2>1, <2>3
<1>4. WholePicture(run, 0) \in Picture /\ WholePicture(run, 0).turns = 0
  BY <1>1, WholeType
<1> QED
  BY <1>1, <1>2, <1>3, <1>4, PictureTaken

\* In DirectSender only take_picture writes files.
LEMMA JsCut ==
  ASSUME JsTypeOK, JsFilesInv, PowerCut
  PROVE  /\ files' \in [Names -> Picture \cup {NoFile}]
         /\ \A c \in 1..Cameras : files'[<<c, 0>>] # NoFile => files'[<<c, 0>>].turns = 0
<1>1. UNCHANGED files \/ (pc = "take" /\ Torn(<<cam, 0>>, WholePicture(run, 0)))
  BY DEF PowerCut, Unfinished, JsTypeOK
<1>2. CASE UNCHANGED files
  BY <1>2 DEF JsTypeOK, TypeOK, JsFilesInv
<1>3. CASE pc = "take" /\ Torn(<<cam, 0>>, WholePicture(run, 0))
  BY <1>3, JsTook
<1> QED
  BY <1>1, <1>2, <1>3

LEMMA JsClosed ==
  ASSUME JsTypeOK, JsCountInv, ConnectFails \/ ConnectGivesUp \/ DirectOpenFails \/ SendFails(<<cam, 0>>) \/ DirectSent
  PROVE  /\ queue' \in Seq(Connection) /\ Len(queue') = Len(queue) /\ link' = "none" /\ at' = 0
         /\ \A k \in 1..Len(queue) : queue'[k].parts = queue[k].parts
         /\ queue' = <<>> <=> queue = <<>>
         /\ faults' = faults \/ Fault
         /\ UNCHANGED <<files, run, todo, failed, serverVars, sentVars, exits, cuts>>
         /\ cam' \in 1..Cameras /\ pc # "idle"
         /\ \/ pc' = "idle"
            \/ pc = "send" /\ pc' = "take" /\ cam' = cam + 1
<1>1. /\ CloseSocket /\ at' = 0 /\ (faults' = faults \/ Fault)
      /\ UNCHANGED <<files, run, todo, failed, serverVars, sentVars, exits, cuts>>
      /\ pc # "idle"
      /\ \/ pc' = "idle" /\ cam' = 1
         \/ pc = "send" /\ pc' = "take" /\ cam < Cameras /\ cam' = cam + 1
  BY DEF ConnectFails, ConnectGivesUp, DirectOpenFails, SendFails, DirectSent, Exit, NextCamera
<1>2. TypeOK /\ (link = "up" => queue # <<>>)
  BY DEF JsTypeOK, JsCountInv
<1>3. /\ queue' \in Seq(Connection) /\ Len(queue') = Len(queue) /\ link' = "none"
      /\ \A k \in 1..Len(queue) : queue'[k].parts = queue[k].parts
  BY <1>1, <1>2, CloseQueue
<1>4. queue' = <<>> <=> queue = <<>>
  BY <1>2, <1>3, EmptySeq DEF TypeOK
<1>5. cam' \in 1..Cameras
  BY <1>1, <1>2, Constants DEF TypeOK
<1> QED
  BY <1>1, <1>3, <1>4, <1>5

\* What a part that is sent does to both ends.
LEMMA JsSent ==
  ASSUME JsTypeOK, JsFilesInv, JsCountInv, DirectSend
  PROVE  \E x \in Part, p \in Seq(Part), m \in Seq(Part) :
           /\ x = DirectPart /\ x = Whole(cam, files[<<cam, 0>>])[at + 1]
           /\ server # "down" /\ link = "up" /\ pc = "send" /\ MoreToSend(<<cam, 0>>) /\ at' = at + 1
           /\ Len(queue) \in 1..Len(queue) /\ Len(made) \in 1..Len(made)
           /\ p = queue[Len(queue)].parts /\ m = made[Len(made)]
           /\ queue' \in Seq(Connection) /\ Len(queue') = Len(queue)
           /\ \A k \in 1..Len(queue) :
                /\ queue'[k].parts = IF k = Len(queue) THEN Append(p, x) ELSE queue[k].parts
                /\ queue'[k].closed = queue[k].closed
           /\ made' \in Seq(Seq(Part)) /\ Len(made') = Len(made)
           /\ \A n \in 1..Len(made) : made'[n] = IF n = Len(made) THEN Append(m, x) ELSE made[n]
           /\ UNCHANGED <<files, run, pc, cam, todo, link, failed, serverVars, clean, faults, exits, cuts>>
<1>1. /\ pc = "send" /\ MoreToSend(<<cam, 0>>) /\ link = "up" /\ at' = at + 1
      /\ queue' = [queue EXCEPT ![Len(queue)].parts = Append(@, DirectPart)]
      /\ made' = [made EXCEPT ![Len(made)] = Append(@, DirectPart)]
      /\ UNCHANGED <<files, run, pc, cam, todo, link, failed, serverVars, clean, faults, exits, cuts>>
  BY DEF DirectSend
<1>2. TypeOK /\ queue # <<>> /\ server # "down" /\ Number(Len(queue)) = Len(made)
  BY <1>1 DEF JsTypeOK, JsCountInv
<1>3. Len(queue) \in 1..Len(queue) /\ queue[Len(queue)].parts \in Seq(Part)
  BY <1>2, FirstOfQueue
<1>4. Len(made) \in 1..Len(made)
  BY <1>2, <1>3, NumberIs
<1>5. PICK x \in Part : x = DirectPart /\ x = Whole(cam, files[<<cam, 0>>])[at + 1]
  BY <1>1, DirectPartType
<1>6. queue \in Seq(Connection) /\ made \in Seq(Seq(Part))
  BY <1>2 DEF TypeOK
<1>7. PICK p \in Seq(Part), m \in Seq(Part) : p = queue[Len(queue)].parts /\ m = made[Len(made)]
  BY <1>3, <1>4, <1>6, ElementOfSeq
<1>8. PICK a \in Seq(Part) : a = Append(p, x)
  BY AppendProperties
<1>9. PICK b \in Seq(Part) : b = Append(m, x)
  BY AppendProperties
<1>90. queue' = [queue EXCEPT ![Len(queue)].parts = a]
  BY <1>1, <1>5, <1>7, <1>8
<1>91. made' = [made EXCEPT ![Len(made)] = b]
  BY <1>1, <1>5, <1>7, <1>9
<1>10. /\ queue' \in Seq(Connection) /\ Len(queue') = Len(queue)
       /\ \A k \in 1..Len(queue) :
            /\ queue'[k].parts = IF k = Len(queue) THEN a ELSE queue[k].parts
            /\ queue'[k].closed = queue[k].closed
  <2>1. LET r == [queue EXCEPT ![Len(queue)].parts = a]
        IN  /\ r \in Seq(Connection) /\ Len(r) = Len(queue)
            /\ \A k \in 1..Len(queue) : /\ r[k].parts = IF k = Len(queue) THEN a ELSE queue[k].parts
                                        /\ r[k].closed = queue[k].closed
    BY <1>3, <1>6, SetParts
  <2> DEFINE r == [queue EXCEPT ![Len(queue)].parts = a]
  <2> HIDE DEF r
  <2>2. queue' = r
    BY <1>90 DEF r
  <2> QED
    BY <2>1, <2>2 DEF r
<1>11. /\ made' \in Seq(Seq(Part)) /\ Len(made') = Len(made)
       /\ \A n \in 1..Len(made) : made'[n] = IF n = Len(made) THEN b ELSE made[n]
  BY <1>4, <1>6, <1>91, ExceptSeq
<1>12. /\ \A k \in 1..Len(queue) :
            /\ queue'[k].parts = IF k = Len(queue) THEN Append(p, x) ELSE queue[k].parts
            /\ queue'[k].closed = queue[k].closed
       /\ \A n \in 1..Len(made) : made'[n] = IF n = Len(made) THEN Append(m, x) ELSE made[n]
  BY <1>8, <1>9, <1>10, <1>11
<1>13. /\ x = DirectPart /\ x = Whole(cam, files[<<cam, 0>>])[at + 1]
       /\ server # "down" /\ link = "up" /\ pc = "send" /\ MoreToSend(<<cam, 0>>) /\ at' = at + 1
       /\ Len(queue) \in 1..Len(queue) /\ Len(made) \in 1..Len(made)
       /\ p = queue[Len(queue)].parts /\ m = made[Len(made)]
       /\ queue' \in Seq(Connection) /\ Len(queue') = Len(queue)
       /\ \A k \in 1..Len(queue) :
            /\ queue'[k].parts = IF k = Len(queue) THEN Append(p, x) ELSE queue[k].parts
            /\ queue'[k].closed = queue[k].closed
       /\ made' \in Seq(Seq(Part)) /\ Len(made') = Len(made)
       /\ \A n \in 1..Len(made) : made'[n] = IF n = Len(made) THEN Append(m, x) ELSE made[n]
       /\ UNCHANGED <<files, run, pc, cam, todo, link, failed, serverVars, clean, faults, exits, cuts>>
  BY <1>1, <1>2, <1>3, <1>4, <1>5, <1>7, <1>10, <1>11, <1>12
<1> QED
  BY <1>13

\* A connection that is taken up, ...
LEMMA JsTaken ==
  ASSUME JsTypeOK, JsCountInv, JsConnection
  PROVE  /\ server = "accept" /\ Len(open) < Len(queue) /\ Len(open) \in Nat /\ Len(queue) \in Nat
         /\ img_cnt \in Nat /\ img_cnt' = img_cnt + 1 /\ img_cnt + 1 <= Len(made)
         /\ img_cnt' \in 0..MaxFiles /\ img_cnt \in 0..MaxFiles
         /\ open' \in Seq(Nat) /\ Len(open') = Len(open) + 1 /\ open'[Len(open) + 1] = img_cnt
         /\ \A k \in 1..Len(open) : open'[k] = open[k]
         /\ received' \in [0..MaxFiles -> Seq(Part)]
         /\ \A n \in 0..MaxFiles : received'[n] = IF n = img_cnt THEN <<>> ELSE received[n]
         /\ UNCHANGED <<boardVars, queue, server, sentVars, faults, exits, cuts>>
<1>1. /\ img_cnt \in 0..MaxFiles /\ MaxFiles \in Nat /\ open \in Seq(Nat)
      /\ queue \in Seq(Connection) /\ made \in Seq(Seq(Part)) /\ received \in [0..MaxFiles -> Seq(Part)]
  BY LeftIs DEF JsTypeOK, TypeOK, MaxFiles
<1>2. /\ server = "accept" /\ Len(open) < Len(queue) /\ open' = Append(open, img_cnt)
      /\ img_cnt' = img_cnt + 1 /\ received' = [received EXCEPT ![img_cnt] = <<>>]
      /\ UNCHANGED <<boardVars, queue, server, sentVars, faults, exits, cuts>>
  BY DEF JsConnection
<1>3. Len(made) = img_cnt + (Len(queue) - Len(open)) /\ Len(made) + JsLeft <= MaxFiles
  BY <1>2 DEF JsCountInv
<1>4. JsLeft \in Nat
  <2>1. MaxRuns - run \in Nat /\ Cameras \in Nat /\ cam \in 1..Cameras
    BY Constants DEF JsTypeOK, TypeOK
  <2>2. Cameras * (MaxRuns - run) \in Nat
    BY <2>1, Product
  <2> DEFINE B == Cameras * (MaxRuns - run)
  <2>3. \/ JsLeft = B + 0 \/ JsLeft = B + (Cameras - cam + 1) \/ JsLeft = B + (Cameras - cam)
    BY DEF JsLeft, JsTypeOK, TypeOK
  <2> HIDE DEF B
  <2> QED
    BY <2>1, <2>2, <2>3 DEF B
<1>5. /\ Len(open) \in Nat /\ Len(queue) \in Nat /\ img_cnt \in Nat /\ Len(made) \in Nat
  BY <1>1, LenProperties
<1>6. img_cnt + 1 <= Len(made)
  BY <1>2, <1>3, <1>5
<1>7. img_cnt' \in 0..MaxFiles
  BY <1>1, <1>2, <1>3, <1>4, <1>5, <1>6
<1>8. /\ open' \in Seq(Nat) /\ Len(open') = Len(open) + 1 /\ open'[Len(open) + 1] = img_cnt
      /\ \A k \in 1..Len(open) : open'[k] = open[k]
  BY <1>1, <1>2, <1>5, AppendProperties
<1>9. /\ received' \in [0..MaxFiles -> Seq(Part)]
      /\ \A n \in 0..MaxFiles : received'[n] = IF n = img_cnt THEN <<>> ELSE received[n]
  <2>1. <<>> \in Seq(Part)
    BY EmptySeq
  <2> QED
    BY <1>1, <1>2, <2>1
<1> QED
  BY <1>1, <1>2, <1>5, <1>6, <1>7, <1>8, <1>9

\* ... one of those that bring a part, ...
LEMMA JsBrings ==
  ASSUME JsTypeOK, JsCountInv, NEW k \in DOMAIN open, JsData(k)
  PROVE  \E p \in Seq(Part), r \in Seq(Part) :
           /\ server = "accept" /\ k \in 1..Len(open) /\ k \in 1..Len(queue)
           /\ p = queue[k].parts /\ p # <<>> /\ r = received[open[k]]
           /\ open[k] \in 0..MaxFiles /\ open[k] \in 0..img_cnt - 1
           /\ queue' \in Seq(Connection) /\ Len(queue') = Len(queue)
           /\ \A j \in 1..Len(queue) : /\ queue'[j].parts = IF j = k THEN Tail(p) ELSE queue[j].parts
                                       /\ queue'[j].closed = queue[j].closed
           /\ received' \in [0..MaxFiles -> Seq(Part)]
           /\ \A n \in 0..MaxFiles :
                received'[n] = IF n = open[k] THEN Append(r, Head(p)) ELSE received[n]
           /\ UNCHANGED <<boardVars, server, img_cnt, open, sentVars, faults, exits, cuts>>
<1>1. /\ img_cnt \in 0..MaxFiles /\ MaxFiles \in Nat /\ open \in Seq(Nat)
      /\ queue \in Seq(Connection) /\ received \in [0..MaxFiles -> Seq(Part)]
  BY LeftIs DEF JsTypeOK, TypeOK, MaxFiles
<1>2. /\ server = "accept" /\ queue[k].parts # <<>>
      /\ received' = [received EXCEPT ![open[k]] = Append(@, Head(queue[k].parts))]
      /\ queue' = [queue EXCEPT ![k].parts = Tail(@)]
      /\ UNCHANGED <<boardVars, server, img_cnt, open, sentVars, faults, exits, cuts>>
  BY DEF JsData
<1>3. k \in 1..Len(open) /\ k \in 1..Len(queue) /\ k <= Len(open)
  <2>1. k \in 1..Len(open)
    BY <1>1
  <2>2. Len(open) \in Nat /\ Len(queue) \in Nat /\ Len(open) <= Len(queue)
    BY <1>1, LenProperties DEF JsCountInv
  <2> QED
    BY <2>1, <2>2
<1>4. /\ open[k] \in 0..MaxFiles /\ open[k] \in 0..img_cnt - 1
      /\ queue[k].parts \in Seq(Part) /\ received[open[k]] \in Seq(Part)
  BY <1>2, <1>3, NumberIs
<1>5. PICK p \in Seq(Part), r \in Seq(Part) : p = queue[k].parts /\ p # <<>> /\ r = received[open[k]]
  BY <1>2, <1>4
<1>6. PICK h \in Part, t \in Seq(Part) : h = Head(p) /\ t = Tail(p)
  BY <1>5, HeadTailProperties
<1>7. PICK a \in Seq(Part) : a = Append(r, h)
  BY AppendProperties
<1>8. queue' = [queue EXCEPT ![k].parts = t] /\ received' = [received EXCEPT ![open[k]] = a]
  BY <1>1, <1>2, <1>4, <1>5, <1>6, <1>7
<1>9. /\ queue' \in Seq(Connection) /\ Len(queue') = Len(queue)
      /\ \A j \in 1..Len(queue) : /\ queue'[j].parts = IF j = k THEN t ELSE queue[j].parts
                                  /\ queue'[j].closed = queue[j].closed
  <2>0. queue \in Seq(Connection) /\ k \in 1..Len(queue)
    BY <1>1, <1>3
  <2>1. queue' = [queue EXCEPT ![k].parts = t]
    BY <1>8
  <2> QED
    BY <2>0, <2>1, SetParts
<1>10. /\ received' \in [0..MaxFiles -> Seq(Part)]
       /\ \A n \in 0..MaxFiles : received'[n] = IF n = open[k] THEN a ELSE received[n]
  BY <1>1, <1>8
<1> QED
  BY <1>2, <1>3, <1>4, <1>5, <1>6, <1>7, <1>9, <1>10

\* ... and one that has ended or was reset: the ones behind it move up. It is not the
\* sender's.
LEMMA JsEnded ==
  ASSUME JsTypeOK, JsCountInv, NEW k \in DOMAIN open, JsGone(k)
  PROVE  /\ server = "accept" /\ k \in 1..Len(open) /\ k \in 1..Len(queue)
         /\ cuts = 0 => queue[k].parts = <<>>
         /\ link = "up" => k # Len(queue)
         /\ Len(queue) \in Nat /\ Len(open) \in Nat /\ Len(open) <= Len(queue)
         /\ queue' \in Seq(Connection) /\ Len(queue') = Len(queue) - 1
         /\ \A j \in 1..Len(queue) - 1 : queue'[j] = IF j < k THEN queue[j] ELSE queue[j + 1]
         /\ open' \in Seq(Nat) /\ Len(open') = Len(open) - 1
         /\ \A j \in 1..Len(open) - 1 : open'[j] = IF j < k THEN open[j] ELSE open[j + 1]
         /\ UNCHANGED <<boardVars, serverVars, sentVars, faults, exits, cuts>>
<1>1. open \in Seq(Nat) /\ queue \in Seq(Connection)
  BY DEF JsTypeOK, TypeOK
<1>2. /\ server = "accept" /\ (cuts = 0 => queue[k].parts = <<>>)
      /\ queue[k].closed \/ ~(link = "up" /\ k = Len(queue))
      /\ queue' = RemoveAt(queue, k) /\ open' = RemoveAt(open, k)
      /\ UNCHANGED <<boardVars, serverVars, sentVars, faults, exits, cuts>>
  BY DEF JsGone, JsEnd, JsError, JsTypeOK, TypeOK
<1>3. k \in 1..Len(open) /\ k \in 1..Len(queue) /\ Len(queue) \in Nat /\ Len(open) \in Nat
      /\ Len(open) <= Len(queue)
  <2>1. k \in 1..Len(open)
    BY <1>1
  <2>2. Len(open) \in Nat /\ Len(queue) \in Nat /\ Len(open) <= Len(queue)
    BY <1>1, LenProperties DEF JsCountInv
  <2> QED
    BY <2>1, <2>2
<1>4. link = "up" => k # Len(queue)
  BY <1>2 DEF JsCountInv
<1>5. /\ queue' \in Seq(Connection) /\ Len(queue') = Len(queue) - 1
      /\ \A j \in 1..Len(queue) - 1 : queue'[j] = IF j < k THEN queue[j] ELSE queue[j + 1]
  BY <1>1, <1>2, <1>3, RemovedIs
<1>6. /\ open' \in Seq(Nat) /\ Len(open') = Len(open) - 1
      /\ \A j \in 1..Len(open) - 1 : open'[j] = IF j < k THEN open[j] ELSE open[j + 1]
  BY <1>1, <1>2, <1>3, RemovedIs
<1> QED
  BY <1>2, <1>3, <1>4, <1>5, <1>6

-----------------------------------------------------------------------------
(* Types, files and numbers.                                               *)

LEMMA JsTypeStep == JsInv /\ [JsNext]_jsVars => JsTypeOK'
<1> SUFFICES ASSUME JsInv, [JsNext]_jsVars PROVE JsTypeOK'
  OBVIOUS
<1>0. /\ JsTypeOK /\ JsFilesInv /\ JsCountInv /\ TypeOK /\ (link = "up" => queue # <<>>)
      /\ open \in Seq(Nat) /\ pc \notin {"list", "rotate"} /\ server # "recv"
  BY DEF JsInv, JsTypeOK, JsCountInv
<1> DEFINE More == open \in Seq(Nat) /\ pc \notin {"list", "rotate"} /\ server # "recv"
<1>01. JsTypeOK' = (TypeOK' /\ More')
  BY DEF JsTypeOK
<1>02. /\ TypeOK /\ More /\ MaxRuns \in Nat /\ Cameras \in Nat /\ Cameras >= 1
       /\ 0 \in 0..Parts /\ 1 \in 1..Cameras
  BY <1>0, Constants, PipelineAssumption
<1>03. Fault => faults' \in 0..MaxFaults
  BY <1>0, PipelineAssumption DEF Fault, TypeOK
<1> USE <1>02 DEF TypeOK, boardVars, serverVars
<1>1. ASSUME StartRun, open' = open PROVE TypeOK' /\ More'
  <2>1. run' \in 0..MaxRuns /\ cam' \in 1..Cameras
    BY <1>1 DEF StartRun
  <2> QED
    BY <1>1, <2>1 DEF StartRun
<1>2. ASSUME JsConnect PROVE TypeOK' /\ More'
  <2>1. [parts |-> <<>>, closed |-> FALSE] \in Connection /\ <<>> \in Seq(Part)
    BY DEF Connection
  <2>2. queue' \in Seq(Connection) /\ made' \in Seq(Seq(Part)) /\ clean' \in Seq(0..MaxRuns)
    BY <1>2, <2>1, AppendProperties DEF JsConnect
  <2> QED
    BY <1>2, <2>2 DEF JsConnect
<1>3. ASSUME DirectTake \/ DirectTakeFails, open' = open PROVE TypeOK' /\ More'
  <2>1. files' \in [Names -> Picture \cup {NoFile}]
    BY <1>0, <1>3, JsTook DEF DirectTake, DirectTakeFails
  <2>2. faults' \in 0..MaxFaults
    BY <1>03, <1>3 DEF DirectTake, DirectTakeFails
  <2> QED
    BY <1>3, <2>1, <2>2 DEF DirectTake, DirectTakeFails
<1>4. ASSUME ConnectFails \/ ConnectGivesUp \/ DirectOpenFails \/ SendFails(<<cam, 0>>) \/ DirectSent, open' = open
      PROVE TypeOK' /\ More'
  <2>1. /\ queue' \in Seq(Connection) /\ link' = "none" /\ at' = 0
        /\ UNCHANGED <<files, run, todo, failed, serverVars, sentVars, exits, cuts>>
        /\ cam' \in 1..Cameras /\ pc' \in {"idle", "take"} /\ faults' \in 0..MaxFaults
    BY <1>0, <1>03, <1>4, JsClosed
  <2> QED
    BY <1>4, <2>1
<1>5. ASSUME DirectOpen, open' = open PROVE TypeOK' /\ More'
  BY <1>5 DEF DirectOpen
<1>6. ASSUME DirectSend, open' = open PROVE TypeOK' /\ More'
  <2>1. /\ pc = "send" /\ MoreToSend(<<cam, 0>>) /\ at' = at + 1
        /\ queue' \in Seq(Connection) /\ made' \in Seq(Seq(Part))
        /\ UNCHANGED <<files, run, pc, cam, todo, link, failed, serverVars, clean, faults, exits, cuts>>
    BY <1>0, <1>6, JsSent
  <2>2. at' \in 0..Parts
    BY <1>0, <2>1, DirectPartType
  <2> QED
    BY <1>6, <2>1, <2>2
<1>7. ASSUME SendNowhere(<<cam, 0>>), open' = open PROVE TypeOK' /\ More'
  <2>1. at' \in 0..Parts
    BY <1>0, <1>7, DirectPartType DEF SendNowhere
  <2> QED
    BY <1>7, <2>1 DEF SendNowhere
<1>8. ASSUME PowerCut, open' = open PROVE TypeOK' /\ More'
  <2>0. cuts < MaxCuts /\ cuts' = cuts + 1
    BY <1>8 DEF PowerCut
  <2>1. cuts' \in 0..MaxCuts
    BY <2>0, PipelineAssumption
  <2>2. queue' \in Seq(Connection)
    BY <1>0, <1>8, CutQueue
  <2>3. at' \in 0..Parts /\ cam' \in 1..Cameras
    BY <1>8 DEF PowerCut
  <2>4. files' \in [Names -> Picture \cup {NoFile}]
    BY <1>0, <1>8, JsCut
  <2> QED
    BY <1>8, <2>1, <2>2, <2>3, <2>4 DEF PowerCut
<1>9. ASSUME JsConnection PROVE TypeOK' /\ More'
  <2>1. /\ img_cnt' \in 0..MaxFiles /\ open' \in Seq(Nat) /\ received' \in [0..MaxFiles -> Seq(Part)]
        /\ UNCHANGED <<boardVars, queue, server, sentVars, faults, exits, cuts>>
    BY <1>0, <1>9, JsTaken
  <2> QED
    BY <2>1 DEF MaxFiles
<1>10. ASSUME NEW k \in DOMAIN open, JsData(k) PROVE TypeOK' /\ More'
  <2>1. /\ queue' \in Seq(Connection) /\ received' \in [0..MaxFiles -> Seq(Part)]
        /\ UNCHANGED <<boardVars, server, img_cnt, open, sentVars, faults, exits, cuts>>
    BY <1>0, <1>10, JsBrings
  <2> QED
    BY <2>1 DEF MaxFiles
<1>11. ASSUME NEW k \in DOMAIN open, JsGone(k) PROVE TypeOK' /\ More'
  <2>1. /\ queue' \in Seq(Connection) /\ open' \in Seq(Nat)
        /\ UNCHANGED <<boardVars, serverVars, sentVars, faults, exits, cuts>>
    BY <1>0, <1>11, JsEnded
  <2> QED
    BY <2>1
<1>12. ASSUME ServerExits, open' = <<>> PROVE TypeOK' /\ More'
  <2>1. exits' \in 0..MaxExits
    BY <1>12, PipelineAssumption DEF ServerExits
  <2> QED
    BY <1>12, <2>1 DEF ServerExits
<1>13. ASSUME ServerStarts, open' = open PROVE TypeOK' /\ More'
  <2>1. img_cnt' \in 0..Cameras * MaxRuns /\ clean' \in Seq(0..MaxRuns)
    BY <1>0, <1>13, LeftIs, EmptySeq DEF ServerStarts, MaxFiles
  <2> QED
    BY <1>13, <2>1 DEF ServerStarts
<1>14. ASSUME UNCHANGED jsVars PROVE TypeOK' /\ More'
  BY <1>14 DEF jsVars, vars
<1> QED
  BY <1>01, <1>1, <1>2, <1>3, <1>4, <1>5, <1>6, <1>7, <1>8, <1>9, <1>10, <1>11, <1>12, <1>13, <1>14,
     JsCases

LEMMA JsFilesStep == JsInv /\ [JsNext]_jsVars => JsFilesInv'
<1> SUFFICES ASSUME JsInv, [JsNext]_jsVars PROVE JsFilesInv'
  OBVIOUS
<1>0. JsTypeOK /\ JsFilesInv /\ JsCountInv /\ TypeOK
  BY DEF JsInv, JsTypeOK
<1>1. ASSUME StartRun PROVE JsFilesInv'
  BY <1>0, <1>1 DEF StartRun, JsFilesInv, TypeOK
<1>2. ASSUME DirectTake \/ DirectTakeFails PROVE JsFilesInv'
  <2>1. \A c \in 1..Cameras : files'[<<c, 0>>] # NoFile => files'[<<c, 0>>].turns = 0
    BY <1>0, <1>2, JsTook DEF DirectTake, DirectTakeFails
  <2>2. pc = "take" /\ pc' = "connect" /\ UNCHANGED <<run, cam, at>>
    BY <1>2 DEF DirectTake, DirectTakeFails
  <2>3. ~failed' => Fresh(cam, 0)'
    <3>1. <<cam, 0>> \in Names
      BY <1>0, Constants, NamesType DEF TypeOK
    <3> QED
      BY <1>0, <1>2, <3>1 DEF DirectTake, DirectTakeFails, Fresh, TypeOK
  <2> QED
    BY <1>0, <2>1, <2>2, <2>3 DEF JsFilesInv
<1>3. ASSUME JsConnect \/ DirectOpen \/ DirectSend \/ SendNowhere(<<cam, 0>>) PROVE JsFilesInv'
  <2>1. UNCHANGED <<files, run, cam, failed>> /\ pc \in {"connect", "open", "send"}
    BY <1>3 DEF JsConnect, DirectOpen, DirectSend, SendNowhere
  <2>2. /\ pc' = "send" => files[<<cam, 0>>] # NoFile
        /\ pc' # "send" => at' = 0
    BY <1>0, <1>3 DEF JsConnect, DirectOpen, DirectSend, SendNowhere, JsFilesInv
  <2>3. ASSUME pc' = "send" PROVE at' <= files[<<cam, 0>>].length
    <3>1. <<cam, 0>> \in Names
      BY <1>0, Constants, NamesType DEF TypeOK
    <3>2. files[<<cam, 0>>].length \in Nat /\ at \in Nat
      BY <1>0, <2>2, <2>3, <3>1, PictureIsSomething DEF TypeOK
    <3>3. CASE at' = 0
      BY <3>2, <3>3
    <3>4. CASE at' = at + 1 /\ MoreToSend(<<cam, 0>>)
      BY <3>2, <3>4 DEF MoreToSend
    <3> QED
      BY <1>3, <2>3, <3>3, <3>4 DEF JsConnect, DirectOpen, DirectSend, SendNowhere
  <2>4. pc' \in {"open", "send"}
    BY <1>3 DEF JsConnect, DirectOpen, DirectSend, SendNowhere
  <2> QED
    BY <1>0, <2>1, <2>2, <2>3, <2>4 DEF JsFilesInv, Fresh
<1>8. ASSUME PowerCut PROVE JsFilesInv'
  <2>1. pc' = "idle" /\ at' = 0
    BY <1>8 DEF PowerCut
  <2> QED
    BY <1>0, <1>8, <2>1, JsCut DEF JsFilesInv
<1>4. ASSUME ConnectFails \/ ConnectGivesUp \/ DirectOpenFails \/ SendFails(<<cam, 0>>) \/ DirectSent PROVE JsFilesInv'
  <2>1. UNCHANGED <<files, run>> /\ at' = 0 /\ pc # "idle" /\ pc' \in {"idle", "take"}
    BY <1>0, <1>4, JsClosed
  <2> QED
    BY <1>0, <2>1 DEF JsFilesInv
<1>5. ASSUME UNCHANGED <<files, run, pc, cam, at, failed>> PROVE JsFilesInv'
  BY <1>0, <1>5 DEF JsFilesInv, Fresh
<1>7. ASSUME JsConnection \/ (\E k \in DOMAIN open : JsData(k) \/ JsGone(k)) \/ ServerExits \/ ServerStarts \/ UNCHANGED jsVars
      PROVE  UNCHANGED <<files, run, pc, cam, at, failed>>
  BY <1>7 DEF JsConnection, JsData, JsGone, JsEnd, JsError, ServerExits, ServerStarts, jsVars, vars, boardVars
<1> QED
  BY <1>1, <1>2, <1>3, <1>4, <1>5, <1>7, <1>8, JsCases


\* The connections the sender can still make become fewer with each one.
LEMMA JsLeftIs ==
  ASSUME JsTypeOK
  PROVE  /\ Cameras * (MaxRuns - run) \in Nat /\ MaxFiles \in Nat
         /\ pc = "idle" => JsLeft = Cameras * (MaxRuns - run)
         /\ pc \in {"take", "connect"} => JsLeft = Cameras * (MaxRuns - run) + Cameras - cam + 1
         /\ pc \in {"open", "send"} => JsLeft = Cameras * (MaxRuns - run) + Cameras - cam
         /\ JsLeft \in Nat /\ pc \in {"idle", "take", "connect", "open", "send"}
<1>1. /\ MaxRuns - run \in Nat /\ Cameras \in Nat /\ MaxRuns \in Nat /\ cam \in 1..Cameras
      /\ pc \in {"idle", "take", "connect", "open", "send"}
  BY Constants DEF JsTypeOK, TypeOK
<1>2. Cameras * (MaxRuns - run) \in Nat /\ MaxFiles \in Nat
  BY <1>1, Product DEF MaxFiles
<1> HIDE DEF MaxFiles
<1>3. CASE pc = "idle"
  BY <1>1, <1>2, <1>3 DEF JsLeft
<1>4. CASE pc \in {"take", "connect"}
  BY <1>1, <1>2, <1>4 DEF JsLeft
<1>5. CASE pc \in {"open", "send"}
  BY <1>1, <1>2, <1>5 DEF JsLeft
<1> QED
  BY <1>1, <1>2, <1>3, <1>4, <1>5

LEMMA JsLeftStep ==
  ASSUME JsInv, [JsNext]_jsVars
  PROVE  JsLeft \in Nat /\ JsLeft' \in Nat /\ JsLeft' <= JsLeft /\ (JsConnect => JsLeft' + 1 <= JsLeft)
<1>0. JsTypeOK /\ JsTypeOK' /\ JsFilesInv /\ JsCountInv
  BY JsTypeStep DEF JsInv
<1> DEFINE B == Cameras * (MaxRuns - run)
<1>1. /\ B \in Nat /\ Cameras \in Nat /\ cam \in 1..Cameras
      /\ pc = "idle" => JsLeft = B
      /\ pc \in {"take", "connect"} => JsLeft = B + Cameras - cam + 1
      /\ pc \in {"open", "send"} => JsLeft = B + Cameras - cam
      /\ JsLeft \in Nat /\ pc \in {"idle", "take", "connect", "open", "send"}
  BY <1>0, JsLeftIs, Constants DEF JsTypeOK, TypeOK
<1>2. /\ B' \in Nat /\ cam' \in 1..Cameras
      /\ pc' = "idle" => JsLeft' = B'
      /\ pc' \in {"take", "connect"} => JsLeft' = B' + Cameras - cam' + 1
      /\ pc' \in {"open", "send"} => JsLeft' = B' + Cameras - cam'
      /\ JsLeft' \in Nat /\ pc' \in {"idle", "take", "connect", "open", "send"}
  <2>0. /\ run' \in 0..MaxRuns /\ cam' \in 1..Cameras
        /\ pc' \in {"idle", "take", "connect", "open", "send"}
    BY <1>0 DEF JsTypeOK, TypeOK
  <2>1. MaxRuns - run' \in Nat /\ Cameras \in Nat /\ cam' \in 1..Cameras
    <3>1. \A r \in 0..MaxRuns : MaxRuns - r \in Nat
      BY Constants
    <3> QED
      BY <2>0, <3>1, Constants
  <2>2. B' \in Nat
    BY <2>1, Product
  <2>3. CASE pc' = "idle"
    BY <2>1, <2>2, <2>3 DEF JsLeft
  <2>4. CASE pc' \in {"take", "connect"}
    BY <2>1, <2>2, <2>4 DEF JsLeft
  <2>5. CASE pc' \in {"open", "send"}
    BY <2>1, <2>2, <2>5 DEF JsLeft
  <2> QED
    BY <2>0, <2>1, <2>2, <2>3, <2>4, <2>5
<1>3. run' = run => B' = B
  OBVIOUS
<1>4. ASSUME StartRun PROVE JsLeft' <= JsLeft
  <2>1. /\ run' = run + 1 /\ run \in Nat /\ MaxRuns \in Nat /\ run < MaxRuns
        /\ pc = "idle" /\ pc' = "take" /\ cam' = 1
    BY <1>0, <1>4, Constants DEF StartRun, JsTypeOK, TypeOK
  <2>2. MaxRuns - run \in Nat /\ MaxRuns - run > 0 /\ MaxRuns - run' = (MaxRuns - run) - 1
    BY <2>1
  <2>3. B = Cameras * ((MaxRuns - run) - 1) + Cameras
    BY <1>1, <2>2, Product
  <2>4. B = B' + Cameras
    BY <2>2, <2>3
  <2> HIDE DEF B
  <2>5. JsLeft = B /\ JsLeft' = B' + Cameras - 1 + 1 /\ B \in Nat /\ B' \in Nat
    BY <1>1, <1>2, <2>1
  <2>6. \A b, c \in Int : b + c - 1 + 1 = b + c
    OBVIOUS
  <2>7. JsLeft' = B' + Cameras
    BY <1>1, <2>5, <2>6
  <2>8. JsLeft' = JsLeft /\ JsLeft \in Nat
    BY <2>4, <2>5, <2>7
  <2> QED
    BY <2>8
<1> HIDE DEF B
<1>5. ASSUME JsConnect PROVE JsLeft' + 1 <= JsLeft /\ JsLeft' <= JsLeft
  <2>1. pc = "connect" /\ pc' = "open" /\ cam' = cam /\ run' = run
    BY <1>5 DEF JsConnect
  <2> QED
    BY <1>1, <1>2, <1>3, <2>1
<1>6. ASSUME DirectTake \/ DirectTakeFails PROVE JsLeft' <= JsLeft
  <2>1. pc = "take" /\ pc' = "connect" /\ cam' = cam /\ run' = run
    BY <1>6 DEF DirectTake, DirectTakeFails
  <2> QED
    BY <1>1, <1>2, <1>3, <2>1
<1>7. ASSUME DirectOpen \/ DirectSend \/ SendNowhere(<<cam, 0>>) PROVE JsLeft' <= JsLeft
  <2>1. pc \in {"open", "send"} /\ pc' \in {"open", "send"} /\ run' = run /\ cam' = cam
    BY <1>7 DEF DirectOpen, DirectSend, SendNowhere
  <2> QED
    BY <1>1, <1>2, <1>3, <2>1
<1>8. ASSUME ConnectFails \/ ConnectGivesUp \/ DirectOpenFails \/ SendFails(<<cam, 0>>) \/ DirectSent PROVE JsLeft' <= JsLeft
  <2>1. /\ run' = run /\ pc # "idle"
        /\ \/ pc' = "idle"
           \/ pc = "send" /\ pc' = "take" /\ cam' = cam + 1
    BY <1>0, <1>8, JsClosed
  <2>2. JsLeft >= B /\ B' = B
    BY <1>1, <1>3, <2>1
  <2>3. CASE pc' = "idle"
    BY <1>1, <1>2, <2>2, <2>3
  <2>4. CASE pc = "send" /\ pc' = "take" /\ cam' = cam + 1
    BY <1>1, <1>2, <2>2, <2>4
  <2> QED
    BY <2>1, <2>3, <2>4
<1>9. ASSUME PowerCut PROVE JsLeft' <= JsLeft
  <2>1. pc # "idle" /\ pc' = "idle" /\ run' = run
    BY <1>9 DEF PowerCut
  <2>2. JsLeft >= B
    BY <1>1, <2>1
  <2> QED
    BY <1>1, <1>2, <1>3, <2>1, <2>2
<1>10. ASSUME JsConnection \/ (\E k \in DOMAIN open : JsData(k) \/ JsGone(k)) \/ ServerExits \/ ServerStarts \/ UNCHANGED jsVars
       PROVE  JsLeft' <= JsLeft
  <2>1. pc' = pc /\ run' = run /\ cam' = cam
    BY <1>10 DEF JsConnection, JsData, JsGone, JsEnd, JsError, ServerExits, ServerStarts, boardVars, jsVars, vars
  <2> QED
    BY <1>1, <1>2, <1>3, <2>1
<1>11. JsLeft' <= JsLeft
  BY <1>4, <1>5, <1>6, <1>7, <1>8, <1>9, <1>10, JsCases
<1> QED
  BY <1>1, <1>2, <1>5, <1>11

\* Taking a connection up does not change its number, ...
LEMMA JsTakenNumber ==
  ASSUME JsTypeOK, JsCountInv, JsConnection, NEW k \in 1..Len(queue)
  PROVE  Number(k)' = Number(k)
<1>1. /\ server = "accept" /\ Len(open) < Len(queue) /\ Len(open) \in Nat /\ Len(queue) \in Nat
      /\ img_cnt \in Nat /\ img_cnt' = img_cnt + 1
      /\ Len(open') = Len(open) + 1 /\ open'[Len(open) + 1] = img_cnt
      /\ \A j \in 1..Len(open) : open'[j] = open[j]
  BY JsTaken
<1>2. CASE k <= Len(open)
  <2>1. k \in 1..Len(open) /\ k <= Len(open')
    BY <1>1, <1>2
  <2> QED
    BY <1>1, <1>2, <2>1 DEF Number
<1>3. CASE k = Len(open) + 1
  <2>1. ~(k <= Len(open)) /\ k <= Len(open') /\ k - Len(open) = 1
    BY <1>1, <1>3
  <2> QED
    BY <1>1, <1>3, <2>1 DEF Number
<1>4. CASE k > Len(open) + 1
  <2>1. ~(k <= Len(open)) /\ ~(k <= Len(open'))
    BY <1>1, <1>4
  <2>2. Number(k) = img_cnt + (k - Len(open)) /\ Number(k)' = (img_cnt + 1) + (k - (Len(open) + 1))
    BY <1>1, <2>1 DEF Number
  <2> QED
    BY <1>1, <2>2
<1> QED
  BY <1>1, <1>2, <1>3, <1>4

\* ... nor does the end of another one.
LEMMA JsEndedNumber ==
  ASSUME JsTypeOK, JsCountInv, NEW k \in DOMAIN open, JsGone(k), NEW j \in 1..Len(queue) - 1,
         NEW i, i = IF j < k THEN j ELSE j + 1
  PROVE  /\ i \in 1..Len(queue) /\ i # k /\ queue'[j] = queue[i] /\ Number(j)' = Number(i)
         /\ j <= Len(open') <=> i <= Len(open)
         /\ j <= Len(open') => open'[j] = open[i]
<1>1. /\ server = "accept" /\ k \in 1..Len(open) /\ k \in 1..Len(queue)
      /\ Len(queue) \in Nat /\ Len(open) \in Nat /\ Len(open) <= Len(queue)
      /\ \A n \in 1..Len(queue) - 1 : queue'[n] = IF n < k THEN queue[n] ELSE queue[n + 1]
      /\ Len(open') = Len(open) - 1
      /\ \A n \in 1..Len(open) - 1 : open'[n] = IF n < k THEN open[n] ELSE open[n + 1]
      /\ img_cnt' = img_cnt
  BY JsEnded DEF serverVars
<1>2. img_cnt \in Nat
  BY LeftIs DEF JsTypeOK, TypeOK, MaxFiles
<1>3. i \in 1..Len(queue) /\ i # k /\ (j <= Len(open) - 1 <=> i <= Len(open))
  BY <1>1
<1>4. queue'[j] = queue[i]
  BY <1>1
<1>5. ASSUME j <= Len(open') PROVE open'[j] = open[i]
  <2>1. j \in 1..Len(open) - 1
    BY <1>1, <1>5
  <2> QED
    BY <1>1, <2>1
<1>6. Number(j)' = Number(i)
  <2>1. CASE j <= Len(open')
    <3>1. i <= Len(open)
      BY <1>1, <1>3, <2>1
    <3> QED
      BY <1>5, <2>1, <3>1 DEF Number
  <2>2. CASE ~(j <= Len(open'))
    <3>1. ~(i <= Len(open)) /\ i = j + 1
      BY <1>1, <1>3, <2>2
    <3>2. Number(j)' = img_cnt + (j - (Len(open) - 1)) /\ Number(i) = img_cnt + ((j + 1) - Len(open))
      BY <1>1, <2>2, <3>1 DEF Number
    <3> QED
      BY <1>1, <1>2, <3>2
  <2> QED
    BY <2>1, <2>2
<1> QED
  BY <1>1, <1>3, <1>4, <1>5, <1>6

LEMMA JsCountStep == JsInv /\ [JsNext]_jsVars => JsCountInv'
<1> SUFFICES ASSUME JsInv, [JsNext]_jsVars PROVE JsCountInv'
  OBVIOUS
<1>0. JsTypeOK /\ JsTypeOK' /\ JsCountInv /\ JsFilesInv /\ TypeOK /\ (link = "up" => queue # <<>>)
  BY JsTypeStep DEF JsInv, JsTypeOK, JsCountInv
<1>01. JsLeft \in Nat /\ JsLeft' \in Nat /\ JsLeft' <= JsLeft /\ (JsConnect => JsLeft' + 1 <= JsLeft)
  BY JsLeftStep
<1>02. /\ MaxFiles \in Nat /\ MaxFiles' = MaxFiles /\ Len(made) \in Nat /\ Len(queue) \in Nat
       /\ img_cnt \in Nat /\ Len(open) \in Nat
  <2>1. MaxFiles' = MaxFiles /\ img_cnt \in 0..MaxFiles
    BY <1>0 DEF TypeOK, MaxFiles
  <2>2. made \in Seq(Seq(Part)) /\ queue \in Seq(Connection) /\ open \in Seq(Nat)
    BY <1>0 DEF TypeOK, JsTypeOK
  <2> QED
    BY <1>0, <2>1, <2>2, LeftIs, LenProperties
<1>03. /\ server # "down" => Len(made) = img_cnt + (Len(queue) - Len(open))
       /\ Len(open) <= Len(queue) /\ Len(made) + JsLeft <= MaxFiles /\ img_cnt <= Len(made)
  BY <1>0 DEF JsCountInv
<1>04. ASSUME Len(made') = Len(made) PROVE Len(made') + JsLeft' <= MaxFiles'
  BY <1>01, <1>02, <1>03, <1>04
<1> DEFINE Same == /\ UNCHANGED <<made, queue, server, img_cnt, link, open>>
                   /\ pc' \in {"open", "send"} <=> pc \in {"open", "send"}
<1>1. ASSUME Same PROVE JsCountInv'
  <2>1. Len(made') + JsLeft' <= MaxFiles'
    BY <1>04, <1>1
  <2>2. Number(Len(queue))' = Number(Len(queue))
    BY <1>1 DEF Number
  <2> QED
    BY <1>0, <1>1, <2>1, <2>2 DEF JsCountInv
<1>2. ASSUME UNCHANGED open, StartRun \/ DirectTake \/ DirectTakeFails \/ DirectOpen \/ SendNowhere(<<cam, 0>>)
      PROVE  Same
  BY <1>2 DEF StartRun, DirectTake, DirectTakeFails, DirectOpen, SendNowhere, serverVars
<1>3. ASSUME UNCHANGED jsVars PROVE Same
  BY <1>3 DEF jsVars, vars, boardVars, serverVars
<1> HIDE DEF Same
<1>4. ASSUME JsConnect PROVE JsCountInv'
  <2>0. [parts |-> <<>>, closed |-> FALSE] \in Connection
    BY DEF Connection
  <2>1. PICK e \in Connection : e = [parts |-> <<>>, closed |-> FALSE] /\ e.closed = FALSE
    BY <2>0
  <2>2. /\ queue' = Append(queue, e) /\ made' = Append(made, <<>>) /\ link' = "up" /\ pc' = "open"
        /\ server' = server /\ img_cnt' = img_cnt /\ server # "down" /\ open' = open
    BY <1>4, <2>1 DEF JsConnect, serverVars
  <2>3. Len(queue') = Len(queue) + 1 /\ queue'[Len(queue) + 1] = e /\ Len(made') = Len(made) + 1
    BY <1>0, <2>1, <2>2, AppendProperties DEF TypeOK
  <2>4. queue' # <<>> /\ ~queue'[Len(queue')].closed
    BY <1>02, <2>1, <2>3, EmptySeq
  <2>5. Number(Len(queue))' = Len(made')
    <3>1. ~(Len(queue') <= Len(open')) /\ Len(queue') - Len(open') = (Len(queue) - Len(open)) + 1
      BY <1>02, <1>03, <2>2, <2>3
    <3>2. Number(Len(queue))' = img_cnt' + (Len(queue') - Len(open'))
      BY <3>1 DEF Number
    <3> QED
      BY <1>02, <1>03, <2>2, <2>3, <3>1, <3>2
  <2>6. Len(made') = img_cnt' + (Len(queue') - Len(open')) /\ img_cnt' <= Len(made') /\ Len(open') <= Len(queue')
    BY <1>02, <1>03, <2>2, <2>3
  <2>7. Len(made') + JsLeft' <= MaxFiles'
    BY <1>01, <1>02, <1>03, <1>4, <2>3, OneMoreFits
  <2> QED
    BY <1>0, <2>2, <2>4, <2>5, <2>6, <2>7 DEF JsCountInv
<1>5. ASSUME UNCHANGED <<made, server, img_cnt, open>>, Len(queue') = Len(queue), queue' \in Seq(Connection),
             link' = "none", pc' \notin {"open", "send"}
      PROVE  JsCountInv'
  <2>1. queue' = <<>> <=> queue = <<>>
    BY <1>0, <1>5, EmptySeq DEF TypeOK
  <2>2. Len(made') + JsLeft' <= MaxFiles'
    BY <1>04, <1>5
  <2> QED
    BY <1>0, <1>5, <2>1, <2>2 DEF JsCountInv
<1>6. ASSUME UNCHANGED open, ConnectFails \/ ConnectGivesUp \/ DirectOpenFails \/ SendFails(<<cam, 0>>) \/ DirectSent PROVE JsCountInv'
  <2>1. /\ queue' \in Seq(Connection) /\ Len(queue') = Len(queue) /\ link' = "none"
        /\ UNCHANGED <<made, serverVars>> /\ (pc' = "idle" \/ pc' = "take")
    BY <1>0, <1>6, JsClosed
  <2> QED
    BY <1>5, <1>6, <2>1 DEF serverVars
<1>7. ASSUME UNCHANGED open, PowerCut PROVE JsCountInv'
  <2>1. Len(queue') = Len(queue) /\ queue' \in Seq(Connection)
    BY <1>0, <1>7, CutQueue
  <2>2. pc' = "idle" /\ link' = "none" /\ UNCHANGED <<made, server, img_cnt>>
    BY <1>7 DEF PowerCut, serverVars
  <2> QED
    BY <1>5, <1>7, <2>1, <2>2
<1>8. ASSUME UNCHANGED <<server, img_cnt, open, link, pc>>, Len(made') = Len(made), Len(queue') = Len(queue),
             queue' \in Seq(Connection), \A k \in 1..Len(queue) : queue'[k].closed = queue[k].closed
      PROVE  JsCountInv'
  <2>1. queue' = <<>> <=> queue = <<>>
    BY <1>0, <1>8, EmptySeq DEF TypeOK
  <2>2. Len(made') + JsLeft' <= MaxFiles'
    BY <1>04, <1>8
  <2>3. Number(Len(queue))' = Number(Len(queue))
    BY <1>8 DEF Number
  <2>4. link = "up" => ~queue'[Len(queue')].closed
    BY <1>0, <1>8, FirstOfQueue DEF JsCountInv
  <2> QED
    BY <1>0, <1>8, <2>1, <2>2, <2>3, <2>4 DEF JsCountInv
<1>9. ASSUME UNCHANGED open, DirectSend PROVE JsCountInv'
  <2>1. /\ queue' \in Seq(Connection) /\ Len(queue') = Len(queue) /\ Len(made') = Len(made)
        /\ \A k \in 1..Len(queue) : queue'[k].closed = queue[k].closed
        /\ UNCHANGED <<pc, link, serverVars>>
    BY <1>0, <1>9, JsSent
  <2> QED
    BY <1>8, <1>9, <2>1 DEF serverVars
<1>10. ASSUME NEW k \in DOMAIN open, JsData(k) PROVE JsCountInv'
  <2>1. /\ queue' \in Seq(Connection) /\ Len(queue') = Len(queue)
        /\ \A j \in 1..Len(queue) : queue'[j].closed = queue[j].closed
        /\ UNCHANGED <<boardVars, server, img_cnt, open, made>>
    BY <1>0, <1>10, JsBrings
  <2> QED
    BY <1>8, <2>1 DEF boardVars
<1>11. ASSUME JsConnection PROVE JsCountInv'
  <2>1. /\ server = "accept" /\ Len(open) < Len(queue) /\ img_cnt' = img_cnt + 1 /\ img_cnt + 1 <= Len(made)
        /\ open' \in Seq(Nat) /\ Len(open') = Len(open) + 1 /\ open'[Len(open) + 1] = img_cnt
        /\ \A k \in 1..Len(open) : open'[k] = open[k]
        /\ UNCHANGED <<queue, server, made, link, pc>>
    BY <1>0, <1>11, JsTaken DEF boardVars
  <2>2. \A k \in 1..Len(open) : open[k] < img_cnt /\ open[k] \in Nat
    BY <1>0, ElementOfSeq DEF JsCountInv, JsTypeOK
  <2>20. /\ img_cnt' = img_cnt + 1 /\ img_cnt \in Nat /\ Len(open) \in Nat
         /\ Len(open') = Len(open) + 1 /\ open'[Len(open) + 1] = img_cnt
    BY <1>02, <2>1
  <2>21. \A k \in 1..Len(open) : open'[k] = open[k]
    BY <2>1
  <2>22. /\ queue' = queue /\ made' = made /\ Len(open) < Len(queue) /\ img_cnt + 1 <= Len(made)
         /\ Len(made) = img_cnt + (Len(queue) - Len(open))
    BY <1>03, <2>1
  <2>3. \A k \in 1..Len(open') : k \in 1..Len(open) \/ k = Len(open) + 1
    BY <2>20
  <2>4. ASSUME NEW k \in 1..Len(open') PROVE open'[k] < img_cnt'
    <3>1. CASE k \in 1..Len(open)
      BY <2>2, <2>20, <2>21, <3>1
    <3>2. CASE k = Len(open) + 1
      BY <2>20, <3>2
    <3> QED
      BY <2>3, <3>1, <3>2
  <2>5. ASSUME NEW j \in 1..Len(open'), NEW k \in 1..Len(open'), j < k PROVE open'[j] < open'[k]
    <3>1. j \in 1..Len(open)
      BY <1>02, <2>1, <2>5
    <3>2. CASE k \in 1..Len(open)
      BY <1>0, <2>1, <2>5, <3>1, <3>2 DEF JsCountInv
    <3>3. CASE k = Len(open) + 1
      BY <2>1, <2>2, <3>1, <3>3
    <3> QED
      BY <2>3, <3>2, <3>3
  <2>6. link = "up" => Number(Len(queue))' = Number(Len(queue))
    <3>1. ASSUME link = "up" PROVE Len(queue) \in 1..Len(queue)
      BY <1>0, <3>1, FirstOfQueue
    <3>2. ASSUME NEW k \in 1..Len(queue), k = Len(queue) PROVE Number(Len(queue))' = Number(k)'
      BY <2>1, <3>2 DEF Number
    <3> QED
      BY <1>0, <1>11, <3>1, <3>2, JsTakenNumber
  <2>7. /\ Len(made') = img_cnt' + (Len(queue') - Len(open')) /\ img_cnt' <= Len(made')
        /\ Len(open') <= Len(queue')
    <3>1. \A a, b, c, d \in Int : d = a + (b - c) => d = (a + 1) + (b - (c + 1))
      OBVIOUS
    <3>2. Len(queue) \in Int /\ Len(made) \in Int /\ Len(open) \in Int /\ img_cnt \in Int
      BY <1>02
    <3>3. Len(made) = (img_cnt + 1) + (Len(queue) - (Len(open) + 1))
      BY <2>22, <3>1, <3>2
    <3>4. Len(open) + 1 <= Len(queue)
      BY <2>22, <3>2
    <3> QED
      BY <2>20, <2>22, <3>3, <3>4
  <2>8. Len(made') + JsLeft' <= MaxFiles'
    BY <1>04, <2>1
  <2> QED
    BY <1>0, <2>1, <2>4, <2>5, <2>6, <2>7, <2>8 DEF JsCountInv
<1>12. ASSUME NEW k \in DOMAIN open, JsGone(k) PROVE JsCountInv'
  <2>1. /\ server = "accept" /\ k \in 1..Len(open) /\ k \in 1..Len(queue)
        /\ link = "up" => k # Len(queue)
        /\ queue' \in Seq(Connection) /\ Len(queue') = Len(queue) - 1
        /\ open' \in Seq(Nat) /\ Len(open') = Len(open) - 1
        /\ UNCHANGED <<server, img_cnt, made, link, pc>>
    BY <1>0, <1>12, JsEnded DEF boardVars, serverVars
  <2>2. ASSUME NEW j \in 1..Len(open')
        PROVE  LET i == IF j < k THEN j ELSE j + 1
               IN  i \in 1..Len(open) /\ open'[j] = open[i]
    <3>1. j \in 1..Len(queue) - 1 /\ j <= Len(open')
      BY <1>02, <1>03, <2>1, <2>2
    <3>2. PICK i : i = IF j < k THEN j ELSE j + 1
      OBVIOUS
    <3>3. i <= Len(open) /\ i \in 1..Len(queue) /\ open'[j] = open[i]
      BY <1>0, <1>12, <3>1, <3>2, JsEndedNumber
    <3> QED
      BY <1>02, <3>2, <3>3
  <2>3. \A j \in 1..Len(open') : open'[j] < img_cnt'
    BY <1>0, <2>1, <2>2 DEF JsCountInv
  <2>4. ASSUME NEW j \in 1..Len(open'), NEW l \in 1..Len(open'), j < l PROVE open'[j] < open'[l]
    <3>1. PICK a \in 1..Len(open) : a = (IF j < k THEN j ELSE j + 1) /\ open'[j] = open[a]
      BY <2>2
    <3>2. PICK b \in 1..Len(open) : b = (IF l < k THEN l ELSE l + 1) /\ open'[l] = open[b]
      BY <2>2
    <3>3. a < b
      <4>1. \A j0, l0, k0, a0, b0 \in Int :
              /\ j0 < l0
              /\ a0 = (IF j0 < k0 THEN j0 ELSE j0 + 1)
              /\ b0 = (IF l0 < k0 THEN l0 ELSE l0 + 1)
              => a0 < b0
        OBVIOUS
      <4>2. j \in Int /\ l \in Int /\ k \in Int /\ a \in Int /\ b \in Int
        BY <2>1
      <4> QED
        BY <2>4, <3>1, <3>2, <4>1, <4>2
    <3> QED
      BY <1>0, <3>1, <3>2, <3>3 DEF JsCountInv
  <2>5. ASSUME link = "up"
        PROVE queue' # <<>> /\ ~queue'[Len(queue')].closed /\ Number(Len(queue))' = Len(made')
    <3>1. k < Len(queue) /\ ~queue[Len(queue)].closed /\ Number(Len(queue)) = Len(made)
      BY <1>0, <1>02, <2>1, <2>5 DEF JsCountInv
    <3>2. PICK j \in 1..Len(queue) - 1 : j = Len(queue) - 1
      BY <1>02, <2>1, <3>1
    <3>3. PICK i : i = Len(queue)
      OBVIOUS
    <3>4. i = IF j < k THEN j ELSE j + 1
      BY <1>02, <2>1, <3>1, <3>2, <3>3
    <3>5. queue'[j] = queue[i] /\ Number(j)' = Number(i)
      BY <1>0, <1>12, <3>4, JsEndedNumber
    <3>6. Number(Len(queue))' = Number(j)'
      BY <2>1, <3>2 DEF Number
    <3>7. Number(i) = Number(Len(queue))
      BY <3>3
    <3>8. queue' # <<>>
      BY <1>02, <2>1, <3>2, EmptySeq
    <3> QED
      BY <2>1, <3>1, <3>2, <3>3, <3>5, <3>6, <3>7, <3>8
  <2>6. /\ Len(made') = img_cnt' + (Len(queue') - Len(open')) /\ img_cnt' <= Len(made')
        /\ Len(open') <= Len(queue')
    BY <1>02, <1>03, <2>1
  <2>7. Len(made') + JsLeft' <= MaxFiles'
    BY <1>04, <2>1
  <2> QED
    BY <1>0, <2>1, <2>3, <2>4, <2>5, <2>6, <2>7 DEF JsCountInv
<1>13. ASSUME ServerExits, open' = <<>> PROVE JsCountInv'
  <2>1. /\ server' = "down" /\ queue' = <<>> /\ UNCHANGED <<pc, made, img_cnt>>
        /\ link' = IF link = "up" THEN "broken" ELSE link
    BY <1>13 DEF ServerExits
  <2>2. Len(made') + JsLeft' <= MaxFiles'
    BY <1>04, <2>1
  <2>3. Len(open') = 0 /\ Len(queue') = 0 /\ \A k \in 1..Len(open') : FALSE
    BY <1>13, <2>1
  <2>4. link' # "up" /\ (link' # "none" <=> link # "none")
    BY <1>0, <2>1 DEF TypeOK
  <2> QED
    BY <1>0, <2>1, <2>2, <2>3, <2>4 DEF JsCountInv
<1>14. ASSUME ServerStarts, open' = open PROVE JsCountInv'
  <2>1. /\ server = "down" /\ server' = "accept" /\ img_cnt' = 0 /\ made' = <<>>
        /\ UNCHANGED <<pc, link, queue, open>>
    BY <1>14 DEF ServerStarts, boardVars
  <2>2. queue = <<>> /\ link # "up" /\ Len(made') = 0 /\ Len(queue') = 0
    BY <1>0, <2>1 DEF JsCountInv
  <2>3. Len(open') = 0 /\ \A k \in 1..Len(open') : FALSE
    BY <1>02, <1>03, <2>1, <2>2
  <2>4. Len(made') + JsLeft' <= MaxFiles'
    <3>1. 0 + JsLeft' <= MaxFiles
      BY <1>01, <1>02, <1>03, LessStillFits
    <3> QED
      BY <1>02, <2>2, <3>1
  <2> QED
    BY <1>0, <2>1, <2>2, <2>3, <2>4 DEF JsCountInv
<1> QED
  BY <1>1, <1>2, <1>3, <1>4, <1>6, <1>7, <1>9, <1>10, <1>11, <1>12, <1>13, <1>14, JsCases

-----------------------------------------------------------------------------
(* What arrives, and what went in.                                         *)

LEMMA OneMore ==
  ASSUME NEW a \in Int, NEW b \in Int, NEW c \in Int, NEW d \in Int, d = a + (b - c)
  PROVE  a + (b + 1 - c) = d + 1
OBVIOUS

LEMMA JsFlowStep == JsInv /\ [JsNext]_jsVars => JsFlowInv'
<1> SUFFICES ASSUME JsInv, [JsNext]_jsVars PROVE JsFlowInv'
  OBVIOUS
<1>0. JsTypeOK /\ JsCountInv /\ JsFlowInv /\ JsFilesInv /\ TypeOK /\ (link = "up" => queue # <<>>)
  BY DEF JsInv, JsTypeOK, JsCountInv
<1>01. /\ made \in Seq(Seq(Part)) /\ received \in [0..MaxFiles -> Seq(Part)]
       /\ img_cnt \in 0..MaxFiles /\ MaxFiles \in Nat /\ img_cnt \in Nat /\ queue \in Seq(Connection)
       /\ Len(made) \in Nat /\ Len(queue) \in Nat /\ Len(open) \in Nat /\ cuts \in Nat
  BY <1>0, LeftIs, LenProperties DEF TypeOK, JsTypeOK, MaxFiles
<1>02. /\ server # "down" => Len(made) = img_cnt + (Len(queue) - Len(open))
       /\ Len(open) <= Len(queue) /\ img_cnt <= Len(made)
  BY <1>0 DEF JsCountInv
<1>03. ASSUME server # "down"
       PROVE  /\ \A k \in 1..Len(queue) : JsFlows(k)
              /\ \A n \in 0..img_cnt - 1 : JsKept(n)
  BY <1>0, <1>03 DEF JsFlowInv
<1> DEFINE Same == UNCHANGED <<received, queue, server, img_cnt, made, cuts, open>> /\ (link' = "up" => link = "up")
           Goal == /\ \A k \in 1..Len(queue') : JsFlows(k)'
                   /\ \A n \in 0..img_cnt' - 1 : JsKept(n)'
<1>04. (server' # "down" => Goal) => JsFlowInv'
  BY DEF JsFlowInv
<1>1. ASSUME Same, server' # "down" PROVE Goal
  <2>1. ASSUME NEW k \in 1..Len(queue) PROVE JsFlows(k)'
    <3>1. Carried(k)' = Carried(k) /\ Number(k)' = Number(k)
      BY <1>1 DEF Carried, Number
    <3> QED
      BY <1>03, <1>1, <3>1 DEF JsFlows, FlowsTo, Begins
  <2>2. ASSUME NEW n \in 0..img_cnt - 1 PROVE JsKept(n)'
    BY <1>03, <1>1 DEF JsKept, FlowsTo, Begins, Ended
  <2> QED
    BY <1>1, <2>1, <2>2
<1>2. ASSUME UNCHANGED open, StartRun \/ DirectTake \/ DirectTakeFails \/ DirectOpen \/ SendNowhere(<<cam, 0>>)
      PROVE  Same
  BY <1>2 DEF StartRun, DirectTake, DirectTakeFails, DirectOpen, SendNowhere, serverVars
<1>3. ASSUME UNCHANGED jsVars PROVE Same
  BY <1>3 DEF jsVars, vars, boardVars, serverVars
<1> HIDE DEF Same
<1>4. ASSUME UNCHANGED <<received, server, img_cnt, open>>, server # "down", cuts' = 0 => cuts = 0,
             \A n \in 1..img_cnt : Ended(n - 1) => made'[n] = made[n]
      PROVE  \A n \in 0..img_cnt' - 1 : JsKept(n)'
  <2>1. ASSUME NEW n \in 0..img_cnt - 1, Ended(n) PROVE FlowsTo(received[n], made'[n + 1], cuts' = 0)
    <3>1. n + 1 \in 1..img_cnt /\ (n + 1) - 1 = n
      BY <1>01
    <3>2. made'[n + 1] = made[n + 1]
      BY <1>4, <2>1, <3>1
    <3>3. FlowsTo(received[n], made[n + 1], cuts = 0)
      BY <1>03, <1>4, <2>1 DEF JsKept
    <3> QED
      BY <1>4, <3>2, <3>3 DEF FlowsTo
  <2> QED
    BY <1>4, <2>1 DEF JsKept, Ended
<1>5. ASSUME JsConnect PROVE Goal
  <2>1. /\ queue' = Append(queue, [parts |-> <<>>, closed |-> FALSE]) /\ made' = Append(made, <<>>)
        /\ UNCHANGED <<received, server, img_cnt, cuts, open>> /\ server # "down"
    BY <1>5 DEF JsConnect, serverVars
  <2>2. [parts |-> <<>>, closed |-> FALSE] \in Connection /\ <<>> \in Seq(Part)
    BY DEF Connection
  <2>3. /\ Len(made') = Len(made) + 1 /\ made'[Len(made) + 1] = <<>>
        /\ \A i \in 1..Len(made) : made'[i] = made[i]
        /\ Len(queue') = Len(queue) + 1 /\ queue'[Len(queue) + 1].parts = <<>>
        /\ \A i \in 1..Len(queue) : queue'[i] = queue[i]
    BY <1>01, <2>1, <2>2, AppendProperties
  <2>4. ASSUME NEW k \in 1..Len(queue) PROVE JsFlows(k)'
    <3>1. Number(k) \in 1..Len(made)
      BY <1>0, <2>1, NumberIs
    <3>2. Carried(k)' = Carried(k) /\ Number(k)' = Number(k) /\ k # Len(queue')
      BY <1>01, <2>1, <2>3 DEF Carried, Number
    <3>3. made'[Number(k)'] = made[Number(k)]
      BY <2>3, <3>1, <3>2
    <3> QED
      BY <1>03, <2>1, <3>2, <3>3 DEF JsFlows, FlowsTo
  <2>5. ASSUME NEW k \in 1..Len(queue'), k = Len(queue) + 1 PROVE JsFlows(k)'
    <3>1. ~(k <= Len(open'))
      BY <1>01, <1>02, <2>1, <2>5
    <3>2. Carried(k)' = <<>>
      BY <2>3, <2>5, <3>1 DEF Carried
    <3>3. Number(k)' = Len(made) + 1
      <4>1. Number(k)' = img_cnt + (Len(queue) + 1 - Len(open))
        BY <2>1, <2>5, <3>1 DEF Number
      <4> QED
        <5>1. Len(made) = img_cnt + (Len(queue) - Len(open))
          BY <1>02, <2>1
        <5>2. Len(made) \in Int /\ Len(queue) \in Int /\ Len(open) \in Int /\ img_cnt \in Int
          BY <1>01
        <5> DEFINE a == Len(made)
                   b == Len(queue)
                   c == Len(open)
        <5> HIDE DEF a, b, c
        <5>3. a = img_cnt + (b - c) /\ a \in Int /\ b \in Int /\ c \in Int
          BY <5>1, <5>2 DEF a, b, c
        <5>4. img_cnt + (b + 1 - c) = a + 1
          BY <5>2, <5>3, OneMore
        <5> QED
          BY <4>1, <5>4 DEF a, b, c
    <3>4. made'[Number(k)'] = <<>>
      BY <2>3, <3>3
    <3> QED
      BY <3>2, <3>4, EmptySeq DEF JsFlows, FlowsTo, Begins
  <2>6. \A n \in 0..img_cnt' - 1 : JsKept(n)'
    <3>1. \A n \in 1..img_cnt : made'[n] = made[n]
      <4>1. \A n \in 1..img_cnt : n \in 1..Len(made)
        BY <1>01, <1>02
      <4> QED
        BY <2>3, <4>1
    <3> QED
      BY <1>4, <2>1, <3>1
  <2>7. \A k \in 1..Len(queue') : k \in 1..Len(queue) \/ k = Len(queue) + 1
    <3>1. Len(queue') = Len(queue) + 1 /\ Len(queue) \in Nat
      BY <1>01, <2>3
    <3> QED
      BY <3>1
  <2>8. ASSUME NEW k \in 1..Len(queue') PROVE JsFlows(k)'
    BY <2>4, <2>5, <2>7
  <2> QED
    BY <2>6, <2>8
<1>6. ASSUME UNCHANGED open, ConnectFails \/ ConnectGivesUp \/ DirectOpenFails \/ SendFails(<<cam, 0>>) \/ DirectSent, server' # "down" PROVE Goal
  <2>1. /\ queue' \in Seq(Connection) /\ Len(queue') = Len(queue) /\ link' = "none"
        /\ \A k \in 1..Len(queue) : queue'[k].parts = queue[k].parts
        /\ UNCHANGED <<received, server, img_cnt, made, cuts>>
    BY <1>0, <1>6, JsClosed DEF serverVars
  <2>2. ASSUME NEW k \in 1..Len(queue) PROVE JsFlows(k)'
    <3>1. Carried(k)' = Carried(k) /\ Number(k)' = Number(k)
      BY <1>6, <2>1 DEF Carried, Number
    <3> QED
      BY <1>03, <1>6, <2>1, <3>1 DEF JsFlows, FlowsTo
  <2> QED
    BY <1>4, <1>6, <2>1, <2>2
<1>7. ASSUME UNCHANGED open, DirectSend PROVE Goal
  <2>1. PICK x \in Part, p \in Seq(Part), m \in Seq(Part) :
           /\ server # "down" /\ link = "up"
           /\ Len(queue) \in 1..Len(queue) /\ Len(made) \in 1..Len(made)
           /\ p = queue[Len(queue)].parts /\ m = made[Len(made)]
           /\ Len(queue') = Len(queue)
           /\ \A k \in 1..Len(queue) : queue'[k].parts = IF k = Len(queue) THEN Append(p, x) ELSE queue[k].parts
           /\ Len(made') = Len(made)
           /\ \A n \in 1..Len(made) : made'[n] = IF n = Len(made) THEN Append(m, x) ELSE made[n]
           /\ UNCHANGED <<link, received, server, img_cnt, cuts>>
    BY <1>0, <1>7, JsSent DEF serverVars
  <2>2. Number(Len(queue)) = Len(made)
    BY <1>0, <2>1 DEF JsCountInv
  <2>3. ASSUME NEW k \in 1..Len(queue), k # Len(queue) PROVE JsFlows(k)'
    <3>1. k < Len(queue)
      BY <1>01, <2>3
    <3>2. Number(k) \in 1..Len(made) /\ Number(k) < Len(made)
      BY <1>0, <2>1, <2>2, <3>1, NumberIs
    <3>3. Carried(k)' = Carried(k) /\ Number(k)' = Number(k)
      BY <1>7, <2>1, <2>3 DEF Carried, Number
    <3>4. made'[Number(k)'] = made[Number(k)]
      BY <1>01, <2>1, <3>2, <3>3
    <3> QED
      BY <1>03, <2>1, <2>3, <3>3, <3>4 DEF JsFlows, FlowsTo
  <2>4. ASSUME NEW k \in 1..Len(queue), k = Len(queue) PROVE JsFlows(k)'
    <3>1. PICK b \in Seq(Part) : b = Carried(k)
      BY <1>0, <2>1, NumberIs
    <3>2. Begins(b, m) /\ Len(b) = Len(m)
      BY <1>03, <2>1, <2>2, <2>4, <3>1 DEF JsFlows, FlowsTo
    <3>3. Carried(k)' = Append(b, x)
      <4>1. CASE k <= Len(open)
        <5>1. PICK r \in Seq(Part) : r = received[open[k]]
          BY <1>0, <2>1, <4>1, NumberIs
        <5>2. b = r \o p /\ Carried(k)' = r \o Append(p, x)
          BY <1>7, <2>1, <2>4, <3>1, <4>1, <5>1 DEF Carried
        <5> QED
          BY <5>2, AppendAtEnd
      <4>2. CASE ~(k <= Len(open))
        BY <1>7, <2>1, <2>4, <3>1, <4>2 DEF Carried
      <4> QED
        BY <4>1, <4>2
    <3>4. Number(k)' = Number(k)
      BY <1>7, <2>1 DEF Number
    <3>5. made'[Number(k)'] = Append(m, x)
      BY <2>1, <2>2, <2>4, <3>4
    <3>6. /\ Len(Append(b, x)) = Len(b) + 1 /\ Append(b, x)[Len(b) + 1] = x
          /\ \A i \in 1..Len(b) : Append(b, x)[i] = b[i]
      BY AppendProperties
    <3>7. /\ Len(Append(m, x)) = Len(m) + 1 /\ Append(m, x)[Len(m) + 1] = x
          /\ \A i \in 1..Len(m) : Append(m, x)[i] = m[i]
      BY AppendProperties
    <3>8. Begins(Append(b, x), Append(m, x)) /\ Len(Append(b, x)) = Len(Append(m, x))
      BY <3>2, <3>6, <3>7, LenProperties DEF Begins
    <3> QED
      BY <3>3, <3>5, <3>8 DEF JsFlows, FlowsTo
  <2>5. ASSUME NEW n \in 1..img_cnt, Ended(n - 1) PROVE made'[n] = made[n]
    <3>1. n - 1 \in 0..img_cnt - 1 /\ (n - 1) + 1 = n
      BY <1>01
    <3>2. n # Len(made)
      BY <1>0, <2>1, <2>5, <3>1, EndedIsOlder
    <3>3. n \in 1..Len(made)
      BY <1>01, <1>02
    <3> QED
      BY <2>1, <3>2, <3>3
  <2> QED
    BY <1>4, <1>7, <2>1, <2>3, <2>4, <2>5
<1>8. ASSUME UNCHANGED open, PowerCut, server' # "down" PROVE Goal
  <2>1. link' = "none" /\ UNCHANGED <<made, server, img_cnt, received>> /\ cuts' = cuts + 1
    BY <1>8 DEF PowerCut, serverVars
  <2>2. /\ queue' \in Seq(Connection) /\ Len(queue') = Len(queue)
        /\ \A k \in 1..Len(queue) : Begins(queue'[k].parts, queue[k].parts)
    BY <1>0, <1>8, CutQueue DEF Begins
  <2>3. ASSUME NEW k \in 1..Len(queue) PROVE JsFlows(k)'
    <3>1. Number(k)' = Number(k) /\ made[Number(k)] \in Seq(Part) /\ Carried(k) \in Seq(Part)
      BY <1>0, <1>8, <2>1, NumberIs DEF Number
    <3>2. PICK b \in Seq(Part), m \in Seq(Part) : b = Carried(k) /\ m = made[Number(k)]
      BY <3>1
    <3>3. Begins(b, m)
      BY <1>03, <1>8, <2>1, <3>2 DEF JsFlows, FlowsTo
    <3>4. queue'[k] \in Connection /\ queue[k] \in Connection
      BY <1>01, <2>2, ElementOfSeq
    <3>5. PICK p \in Seq(Part), q \in Seq(Part) : p = queue'[k].parts /\ q = queue[k].parts
      BY <3>4 DEF Connection
    <3>6. Begins(p, q)
      BY <2>2, <3>5
    <3>7. Carried(k)' \in Seq(Part) /\ Begins(Carried(k)', b)
      <4>1. CASE k <= Len(open)
        <5>1. PICK r \in Seq(Part) : r = received[open[k]]
          BY <1>0, <1>8, <2>1, <4>1, NumberIs
        <5>2. Carried(k)' = r \o p /\ b = r \o q
          BY <1>8, <2>1, <3>2, <3>5, <4>1, <5>1 DEF Carried
        <5> QED
          BY <3>6, <5>2, BeginsAfter
      <4>2. CASE ~(k <= Len(open))
        <5>1. Carried(k)' = p /\ b = q
          BY <1>8, <2>1, <3>2, <3>5, <4>2 DEF Carried
        <5> QED
          BY <3>6, <5>1
      <4> QED
        BY <4>1, <4>2
    <3>8. Begins(Carried(k)', m)
      BY <3>3, <3>7, BeginsTransitive
    <3> QED
      BY <1>01, <2>1, <3>1, <3>2, <3>8 DEF JsFlows, FlowsTo
  <2>4. cuts' = 0 => cuts = 0
    BY <1>01, <2>1
  <2> QED
    BY <1>4, <1>8, <2>1, <2>2, <2>3, <2>4
<1>9. ASSUME JsConnection PROVE Goal
  <2>1. /\ server = "accept" /\ Len(open) < Len(queue) /\ img_cnt' = img_cnt + 1
        /\ Len(open') = Len(open) + 1 /\ open'[Len(open) + 1] = img_cnt
        /\ \A k \in 1..Len(open) : open'[k] = open[k]
        /\ \A n \in 0..MaxFiles : received'[n] = IF n = img_cnt THEN <<>> ELSE received[n]
        /\ UNCHANGED <<queue, server, made, link, cuts>>
    BY <1>0, <1>9, JsTaken DEF boardVars
  <2>2. ASSUME NEW k \in 1..Len(queue) PROVE JsFlows(k)'
    <3>1. Number(k)' = Number(k)
      BY <1>0, <1>9, JsTakenNumber
    <3>2. Carried(k)' = Carried(k)
      <4>1. CASE k <= Len(open)
        <5>0. k \in 1..Len(open) /\ open[k] \in 0..img_cnt - 1 /\ open[k] \in 0..MaxFiles
          BY <1>0, <2>1, <4>1, NumberIs
        <5>1. k \in 1..Len(open) /\ open[k] \in 0..img_cnt - 1 /\ open[k] \in 0..MaxFiles /\ k <= Len(open')
          BY <1>01, <2>1, <5>0
        <5>2. received'[open[k]] = received[open[k]]
          BY <1>01, <2>1, <5>1
        <5> QED
          BY <2>1, <4>1, <5>1, <5>2 DEF Carried
      <4>2. CASE k = Len(open) + 1
        <5>1. ~(k <= Len(open)) /\ k <= Len(open')
          BY <1>01, <2>1, <4>2
        <5>2. Carried(k)' = <<>> \o queue[k].parts
          BY <1>01, <2>1, <4>2, <5>1 DEF Carried
        <5>3. Carried(k) = queue[k].parts /\ queue[k].parts \in Seq(Part)
          BY <1>0, <2>1, <5>1, NumberIs DEF Carried
        <5> QED
          BY <5>2, <5>3, ConcatEmptySeq
      <4>3. CASE k > Len(open) + 1
        <5>1. ~(k <= Len(open)) /\ ~(k <= Len(open'))
          BY <1>01, <2>1, <4>3
        <5> QED
          BY <2>1, <5>1 DEF Carried
      <4>4. k <= Len(open) \/ k = Len(open) + 1 \/ k > Len(open) + 1
        BY <1>01
      <4> QED
        BY <4>1, <4>2, <4>3, <4>4
    <3> QED
      BY <1>03, <2>1, <3>1, <3>2 DEF JsFlows
  <2>3. ASSUME NEW n \in 0..img_cnt' - 1 PROVE JsKept(n)'
    <3>1. CASE n = img_cnt
      <4>1. Len(open) + 1 \in 1..Len(open')
        BY <1>01, <2>1
      <4>2. ~Ended(n)'
        BY <2>1, <3>1, <4>1 DEF Ended
      <4> QED
        BY <4>2 DEF JsKept
    <3>2. CASE n # img_cnt
      <4>1. n \in 0..img_cnt - 1 /\ n \in 0..MaxFiles
        BY <1>01, <2>1, <3>2
      <4>2. Ended(n)' => Ended(n)
        BY <1>01, <2>1 DEF Ended
      <4>3. received'[n] = received[n]
        BY <2>1, <3>2, <4>1
      <4> QED
        BY <1>03, <2>1, <4>1, <4>2, <4>3 DEF JsKept
    <3> QED
      BY <3>1, <3>2
  <2> QED
    BY <2>1, <2>2, <2>3
<1>10. ASSUME NEW k \in DOMAIN open, JsData(k) PROVE Goal
  <2>1. PICK p \in Seq(Part), r \in Seq(Part) :
           /\ server = "accept" /\ k \in 1..Len(open) /\ k \in 1..Len(queue)
           /\ p = queue[k].parts /\ p # <<>> /\ r = received[open[k]]
           /\ open[k] \in 0..MaxFiles /\ Len(queue') = Len(queue)
           /\ \A j \in 1..Len(queue) : queue'[j].parts = IF j = k THEN Tail(p) ELSE queue[j].parts
           /\ \A n \in 0..MaxFiles :
                received'[n] = IF n = open[k] THEN Append(r, Head(p)) ELSE received[n]
           /\ UNCHANGED <<link, server, img_cnt, open, made, cuts>>
    BY <1>0, <1>10, JsBrings DEF boardVars
  <2>2. ASSUME NEW j \in 1..Len(queue) PROVE JsFlows(j)'
    <3>1. Number(j)' = Number(j)
      BY <2>1 DEF Number
    <3>2. Carried(j)' = Carried(j)
      <4>1. CASE j = k
        <5>1. k <= Len(open)
          BY <2>1
        <5>2. Carried(j) = r \o p /\ Carried(j)' = Append(r, Head(p)) \o Tail(p)
          BY <2>1, <4>1, <5>1 DEF Carried
        <5> QED
          BY <2>1, <5>2, MoveFirst
      <4>2. CASE j # k /\ j <= Len(open)
        <5>1. j \in 1..Len(open) /\ open[j] \in 0..MaxFiles
          BY <1>0, <2>1, <4>2, NumberIs
        <5>2. open[j] # open[k]
          <6>1. j < k \/ k < j
            BY <2>1, <4>2
          <6>2. open[j] \in Nat /\ open[k] \in Nat
            BY <1>01, <2>1, <5>1
          <6> QED
            BY <1>0, <2>1, <5>1, <6>1, <6>2 DEF JsCountInv
        <5> QED
          BY <2>1, <4>2, <5>1, <5>2 DEF Carried
      <4>3. CASE j # k /\ ~(j <= Len(open))
        BY <2>1, <4>3 DEF Carried
      <4> QED
        BY <4>1, <4>2, <4>3
    <3> QED
      BY <1>03, <2>1, <3>1, <3>2 DEF JsFlows
  <2>3. ASSUME NEW n \in 0..img_cnt - 1 PROVE JsKept(n)'
    <3>1. Ended(n) => n # open[k]
      BY <2>1 DEF Ended
    <3>2. Ended(n)' = Ended(n) /\ n \in 0..MaxFiles
      BY <1>01, <2>1 DEF Ended
    <3> QED
      BY <1>03, <2>1, <3>1, <3>2 DEF JsKept
  <2> QED
    BY <2>1, <2>2, <2>3
<1>11. ASSUME NEW k \in DOMAIN open, JsGone(k) PROVE Goal
  <2>1. /\ server = "accept" /\ k \in 1..Len(open) /\ k \in 1..Len(queue)
        /\ (cuts = 0 => queue[k].parts = <<>>) /\ (link = "up" => k # Len(queue))
        /\ Len(queue') = Len(queue) - 1 /\ Len(open') = Len(open) - 1
        /\ UNCHANGED <<server, img_cnt, received, made, link, cuts>>
    BY <1>0, <1>11, JsEnded DEF boardVars, serverVars
  <2>2. ASSUME NEW j \in 1..Len(queue') PROVE JsFlows(j)'
    <3>0. j \in 1..Len(queue) - 1
      BY <2>1
    <3>1. PICK i : i = IF j < k THEN j ELSE j + 1
      OBVIOUS
    <3>2. /\ i \in 1..Len(queue) /\ queue'[j] = queue[i] /\ Number(j)' = Number(i)
          /\ j <= Len(open') <=> i <= Len(open)
          /\ j <= Len(open') => open'[j] = open[i]
      BY <1>0, <1>11, <3>0, <3>1, JsEndedNumber
    <3>3. Carried(j)' = Carried(i)
      BY <2>1, <3>2 DEF Carried
    <3>4. j = Len(queue') /\ link' = "up" => i = Len(queue) /\ link = "up"
      BY <1>01, <2>1, <3>0, <3>1
    <3>5. JsFlows(i)
      BY <1>03, <2>1, <3>2
    <3>6. FlowsTo(Carried(i), made[Number(i)], cuts = 0 \/ (j = Len(queue') /\ link' = "up"))
      BY <3>4, <3>5 DEF JsFlows, FlowsTo
    <3> QED
      BY <2>1, <3>2, <3>3, <3>6 DEF JsFlows
  <2>3. ASSUME NEW n \in 0..img_cnt - 1, Ended(n)' PROVE FlowsTo(received[n], made[n + 1], cuts = 0)
    <3>1. CASE n = open[k]
      <4>1. k <= Len(open)
        BY <2>1
      <4>2. /\ Number(k) = n + 1 /\ received[n] \in Seq(Part) /\ queue[k].parts \in Seq(Part)
            /\ made[n + 1] \in Seq(Part)
        BY <1>0, <1>01, <2>1, <3>1, <4>1, NumberIs, ElementOfSeq
      <4>3. Carried(k) = received[n] \o queue[k].parts
        BY <2>1, <3>1, <4>1 DEF Carried
      <4>4. JsFlows(k)
        BY <1>03, <2>1
      <4>5. CASE cuts = 0
        <5>1. Carried(k) = received[n]
          BY <2>1, <4>2, <4>3, <4>5, ConcatEmptySeq
        <5> QED
          BY <4>2, <4>4, <5>1 DEF JsFlows, FlowsTo
      <4>6. CASE cuts # 0
        <5>1. PICK r \in Seq(Part), p \in Seq(Part), m \in Seq(Part) :
                r = received[n] /\ p = queue[k].parts /\ m = made[n + 1]
          BY <4>2
        <5>2. Begins(r \o p, m)
          BY <4>2, <4>3, <4>4, <5>1 DEF JsFlows, FlowsTo
        <5>3. Begins(r, r \o p) /\ r \o p \in Seq(Part)
          BY ConcatProperties, LenProperties DEF Begins
        <5>4. Begins(r, m)
          BY <5>2, <5>3, BeginsTransitive
        <5> QED
          BY <4>6, <5>1, <5>4 DEF FlowsTo
      <4> QED
        BY <4>5, <4>6
    <3>2. CASE n # open[k]
      <4>1. ASSUME NEW i \in 1..Len(open), i # k PROVE open[i] # n
        <5>1. PICK j : j = IF i < k THEN i ELSE i - 1
          OBVIOUS
        <5>2. /\ j \in 1..Len(open) - 1 /\ j \in 1..Len(queue) - 1
              /\ i = IF j < k THEN j ELSE j + 1
          <6>1. \A a, b \in Nat : a <= b =>
                  \A k0, i0 \in 1..a, j0 \in Int :
                    i0 # k0 /\ j0 = (IF i0 < k0 THEN i0 ELSE i0 - 1) =>
                      /\ j0 \in 1..a - 1 /\ j0 \in 1..b - 1
                      /\ i0 = IF j0 < k0 THEN j0 ELSE j0 + 1
            OBVIOUS
          <6>2. Len(open) \in Nat /\ Len(queue) \in Nat /\ Len(open) <= Len(queue) /\ k \in 1..Len(open)
            BY <1>01, <1>02, <2>1
          <6>3. j \in Int
            BY <5>1
          <6> QED
            BY <4>1, <5>1, <6>1, <6>2, <6>3
        <5>3. j \in 1..Len(open') /\ j <= Len(open')
          BY <1>01, <2>1, <5>2
        <5>4. j <= Len(open') => open'[j] = open[i]
          BY <1>0, <1>11, <5>2, JsEndedNumber
        <5> QED
          BY <2>3, <5>3, <5>4 DEF Ended
      <4>2. Ended(n)
        BY <3>2, <4>1 DEF Ended
      <4> QED
        BY <1>03, <2>1, <4>2 DEF JsKept
    <3> QED
      BY <3>1, <3>2
  <2> QED
    BY <2>1, <2>2, <2>3 DEF JsKept
<1>12. ASSUME ServerExits PROVE server' = "down"
  BY <1>12 DEF ServerExits
<1>13. ASSUME ServerStarts PROVE Goal
  <2>1. queue' = <<>> /\ img_cnt' = 0 /\ Len(queue') = 0
    BY <1>0, <1>13 DEF ServerStarts, JsCountInv
  <2>2. (\A k \in 1..Len(queue') : FALSE) /\ (\A n \in 0..img_cnt' - 1 : FALSE)
    BY <2>1
  <2> QED
    BY <2>2
<1> HIDE DEF Goal
<1> QED
  BY <1>04, <1>1, <1>2, <1>3, <1>5, <1>6, <1>7, <1>8, <1>9, <1>10, <1>11, <1>12, <1>13, JsCases

LEMMA JsCleanStep == JsInv /\ [JsNext]_jsVars => CleanInv'
<1> SUFFICES ASSUME JsInv, [JsNext]_jsVars PROVE CleanInv'
  OBVIOUS
<1>0. /\ Len(clean) = Len(made) /\ made \in Seq(Seq(Part)) /\ clean \in Seq(0..MaxRuns)
      /\ run \in 0..MaxRuns /\ 0 \in 0..MaxRuns /\ JsTypeOK /\ JsFilesInv /\ JsCountInv
  BY Constants DEF JsInv, JsTypeOK, CleanInv, TypeOK
<1> USE DEF CleanInv
<1>1. CASE JsConnect
  <2>1. Len(made') = Len(made) + 1
    BY <1>0, <1>1, EmptySeq, AppendProperties DEF JsConnect
  <2>2. Len(clean') = Len(clean) + 1
    BY <1>0, <1>1, AppendProperties DEF JsConnect
  <2> QED
    BY <1>0, <2>1, <2>2
<1>2. CASE DirectSend
  <2>1. Len(made') = Len(made) /\ clean' = clean
    BY <1>0, <1>2, JsSent
  <2> QED
    BY <1>0, <2>1
<1>3. CASE ServerStarts
  BY <1>3 DEF ServerStarts
<1>4. ASSUME UNCHANGED sentVars PROVE CleanInv'
  BY <1>0, <1>4
<1>5. CASE \/ StartRun \/ DirectTake \/ DirectTakeFails \/ DirectOpen \/ SendNowhere(<<cam, 0>>)
           \/ PowerCut \/ JsConnection \/ ServerExits \/ UNCHANGED jsVars
  BY <1>4, <1>5 DEF StartRun, DirectTake, DirectTakeFails, DirectOpen, SendNowhere, PowerCut,
                    JsConnection, ServerExits, jsVars, vars
<1>6. CASE ConnectFails \/ ConnectGivesUp \/ DirectOpenFails \/ SendFails(<<cam, 0>>) \/ DirectSent
  BY <1>4, <1>6 DEF ConnectFails, ConnectGivesUp, DirectOpenFails, SendFails, DirectSent
<1>7. CASE \E k \in DOMAIN open : JsData(k) \/ JsGone(k)
  BY <1>4, <1>7 DEF JsData, JsGone, JsEnd, JsError
<1> QED
  BY <1>1, <1>2, <1>3, <1>5, <1>6, <1>7, JsCases

LEMMA JsMadeStep == JsInv /\ [JsNext]_jsVars => JsMadeInv'
<1> SUFFICES ASSUME JsInv, [JsNext]_jsVars PROVE JsMadeInv'
  OBVIOUS
<1>0. /\ TypeOK /\ JsTypeOK /\ JsCountInv /\ JsMadeInv /\ JsFilesInv /\ CleanInv
      /\ link = "up" => queue # <<>>
  BY DEF JsInv, JsTypeOK, JsCountInv
<1>01. /\ made \in Seq(Seq(Part)) /\ Len(made) \in Nat /\ cuts \in Nat /\ at \in Nat
       /\ cam \in 1..Cameras /\ clean \in Seq(0..MaxRuns) /\ Len(clean) = Len(made)
       /\ run \in 0..MaxRuns /\ 0 \in 0..MaxRuns
  BY <1>0, Constants DEF TypeOK, CleanInv
<1> DEFINE Good(n) == Sound(made[n], clean[n], 0)
           Same    == UNCHANGED <<server, sentVars, cuts>>
<1>02. JsMadeInv = (server # "down" /\ cuts = 0 =>
                      /\ \A n \in 1..Len(made) : (n = Len(made) /\ link = "up") \/ Good(n)
                      /\ link = "up" => Held(0))
  BY DEF JsMadeInv
<1>03. JsMadeInv' = (server' # "down" /\ cuts' = 0 =>
                      /\ \A n \in 1..Len(made') : (n = Len(made') /\ link' = "up") \/ Good(n)'
                      /\ link' = "up" => Held(0)')
  BY DEF JsMadeInv
<1>05. ASSUME NEW n, Same PROVE Good(n)' = Good(n)
  BY <1>05
<1>04. ASSUME link = "up" PROVE Len(made) \in 1..Len(made) /\ server # "down" /\ pc \in {"open", "send"}
  <2>1. server # "down" /\ Number(Len(queue)) = Len(made) /\ pc \in {"open", "send"}
    BY <1>0, <1>04 DEF JsCountInv
  <2>2. Len(queue) \in 1..Len(queue)
    BY <1>0, <1>04, FirstOfQueue
  <2> QED
    BY <1>0, <2>1, <2>2, NumberIs
<1> HIDE DEF Good
<1>1. ASSUME Same, link' = link, Held(0)' = Held(0) PROVE JsMadeInv'
  BY <1>0, <1>02, <1>03, <1>05, <1>1
<1>2. ASSUME Same, link' = link, link # "up" PROVE JsMadeInv'
  BY <1>0, <1>02, <1>03, <1>05, <1>2
<1>3. ASSUME StartRun \/ DirectTake \/ DirectTakeFails \/ SendNowhere(<<cam, 0>>) PROVE JsMadeInv'
  <2>1. Same /\ link' = link
    BY <1>3 DEF StartRun, DirectTake, DirectTakeFails, SendNowhere, serverVars
  <2>2. pc \in {"idle", "take"} \/ link = "broken"
    BY <1>3 DEF StartRun, DirectTake, DirectTakeFails, SendNowhere
  <2>3. link # "up"
    BY <1>04, <2>2
  <2> QED
    BY <1>2, <2>1, <2>3
<1>4. ASSUME JsConnect PROVE JsMadeInv'
  <2>1. /\ server # "down" /\ server' = server /\ cuts' = cuts /\ link' = "up" /\ pc = "connect" /\ pc' = "open"
        /\ made' = Append(made, <<>>) /\ clean' = Append(clean, IF failed THEN 0 ELSE run)
        /\ UNCHANGED <<at, run, failed>>
    BY <1>4 DEF JsConnect, serverVars
  <2>2. link # "up"
    BY <1>04, <2>1
  <2>3. /\ Len(made') = Len(made) + 1 /\ made'[Len(made')] = <<>>
        /\ \A i \in 1..Len(made) : made'[i] = made[i]
    BY <1>01, <2>1, EmptySeq, AppendProperties
  <2>4. /\ clean'[Len(made')] = IF failed THEN 0 ELSE run
        /\ \A i \in 1..Len(made) : clean'[i] = clean[i]
    BY <1>01, <2>1, <2>3, AppendProperties
  <2>5. at = 0
    BY <1>0, <2>1 DEF JsFilesInv
  <2>6. Held(0)'
    <3>1. Len(made'[Len(made')]) = 0 /\ at' = 0
      BY <2>1, <2>3, <2>5, EmptySeq
    <3>2. \A i \in 1..at' : made'[Len(made')][i] = Whole(cam, files[<<cam, 0>>])'[i]
      BY <3>1
    <3>3. clean'[Len(made')] # 0 => clean'[Len(made')] = run' /\ ~failed'
      <4>1. CASE failed
        BY <2>4, <4>1
      <4>2. CASE ~failed
        BY <2>1, <2>4, <4>2
      <4> QED
        BY <4>1, <4>2
    <3> QED
      BY <3>1, <3>2, <3>3 DEF Held
  <2>7. ASSUME NEW n \in 1..Len(made'), cuts = 0 PROVE n = Len(made') \/ Good(n)'
    <3>1. n \in 1..Len(made) \/ n = Len(made')
      BY <1>01, <2>3, <2>7
    <3>2. \A i \in 1..Len(made) : Good(i)
      BY <1>0, <1>02, <2>1, <2>2, <2>7
    <3>3. \A i \in 1..Len(made) : Good(i)' = Good(i)
      BY <2>3, <2>4 DEF Good
    <3> QED
      BY <3>1, <3>2, <3>3
  <2> QED
    BY <1>03, <2>1, <2>6, <2>7
<1>5. ASSUME DirectOpen PROVE JsMadeInv'
  <2>1. Same /\ link' = link /\ at' = 0 /\ pc = "open" /\ UNCHANGED <<cam, files, run, failed>>
    BY <1>5 DEF DirectOpen, serverVars
  <2>2. at' = at
    BY <1>0, <2>1 DEF JsFilesInv
  <2>3. Held(0)' = Held(0)
    BY <2>1, <2>2 DEF Held
  <2> QED
    BY <1>1, <2>1, <2>3
<1>6. ASSUME ConnectFails \/ ConnectGivesUp \/ DirectOpenFails \/ SendFails(<<cam, 0>>) \/ DirectSent PROVE JsMadeInv'
  <2>1. Same /\ link' = "none"
    BY <1>0, <1>6, JsClosed DEF serverVars
  <2>2. ASSUME link = "up", server # "down", cuts = 0, Held(0) PROVE Good(Len(made))
    <3>1. ~ConnectFails /\ ~ConnectGivesUp /\ ~SendFails(<<cam, 0>>)
      BY <1>04, <2>2 DEF ConnectFails, ConnectGivesUp, SendFails
    <3>2. /\ Len(made) \in 1..Len(made) /\ made[Len(made)] \in Seq(Part)
          /\ pc \in {"open", "send"}
          /\ clean[Len(made)] # 0 => clean[Len(made)] = run /\ Fresh(cam, 0)
      <4>1. Len(made) \in 1..Len(made) /\ pc \in {"open", "send"}
        BY <1>04, <2>2
      <4>2. clean[Len(made)] # 0 => clean[Len(made)] = run /\ ~failed
        BY <2>2 DEF Held
      <4> QED
        BY <1>0, <1>01, <4>1, <4>2, ElementOfSeq DEF JsFilesInv
    <3>3. run >= 1 /\ run \in Nat /\ <<cam, 0>> \in Names
      <4>1. run >= 1 /\ run \in Nat
        BY <1>0, <1>01, <3>2 DEF JsFilesInv
      <4> QED
        BY <1>01, <4>1, NamesType
    <3>4. CASE DirectOpenFails
      <4>1. Len(made[Len(made)]) = 0 /\ files[<<cam, 0>>] = NoFile
        BY <1>0, <2>2, <3>4 DEF DirectOpenFails, Held, JsFilesInv
      <4>2. made[Len(made)] = <<>>
        BY <3>2, <4>1, EmptySeq
      <4>3. clean[Len(made)] = 0
        <5>1. WholePicture(run, 0) # NoFile
          BY <3>3, WholeType
        <5> QED
          BY <3>2, <4>1, <5>1 DEF Fresh
      <4> QED
        BY <4>2, <4>3 DEF Good, Sound
    <3>5. CASE DirectSent
      <4>1. /\ pc = "send" /\ ~MoreToSend(<<cam, 0>>) /\ files[<<cam, 0>>] # NoFile
            /\ at <= files[<<cam, 0>>].length
        BY <1>0, <3>5 DEF DirectSent, JsFilesInv
      <4>2. PICK p \in Picture : p = files[<<cam, 0>>] /\ p.turns = 0
        <5>1. files[<<cam, 0>>] \in Picture
          BY <1>0, <1>01, <3>3, <4>1 DEF TypeOK
        <5> QED
          BY <1>0, <1>01, <4>1, <5>1 DEF JsFilesInv
      <4>3. at = p.length
        BY <1>01, <4>1, <4>2, PictureIsSomething DEF MoreToSend
      <4>4. /\ Len(made[Len(made)]) = p.length
            /\ \A i \in 1..p.length : made[Len(made)][i] = Whole(cam, p)[i]
        BY <2>2, <4>2, <4>3 DEF Held
      <4>5. made[Len(made)] = Whole(cam, p)
        BY <1>01, <3>2, <4>4, SentIs
      <4>6. clean[Len(made)] # 0 => p = WholePicture(clean[Len(made)], 0)
        BY <3>2, <4>2 DEF Fresh
      <4> QED
        BY <1>01, <4>2, <4>5, <4>6 DEF Good, Sound
    <3> QED
      BY <1>6, <3>1, <3>4, <3>5
  <2> QED
    BY <1>0, <1>02, <1>03, <1>05, <2>1, <2>2
<1>7. ASSUME DirectSend PROVE JsMadeInv'
  <2>1. PICK x \in Part, p \in Seq(Part), m \in Seq(Part) :
           /\ x = Whole(cam, files[<<cam, 0>>])[at + 1]
           /\ server # "down" /\ link = "up" /\ at' = at + 1
           /\ Len(made) \in 1..Len(made) /\ m = made[Len(made)]
           /\ Len(made') = Len(made)
           /\ \A n \in 1..Len(made) : made'[n] = IF n = Len(made) THEN Append(m, x) ELSE made[n]
           /\ UNCHANGED <<files, run, cam, link, failed, server, clean, cuts>>
    BY <1>0, <1>7, JsSent DEF serverVars
  <2>2. PICK a \in Seq(Part) : a = Append(m, x)
    BY AppendProperties
  <2>3. Len(a) = Len(m) + 1 /\ a[Len(m) + 1] = x /\ \A i \in 1..Len(m) : a[i] = m[i]
    BY <2>2, AppendProperties
  <2>4. ASSUME Held(0) PROVE Held(0)'
    <3>1. /\ Len(m) = at /\ \A i \in 1..at : m[i] = Whole(cam, files[<<cam, 0>>])[i]
          /\ clean[Len(made)] # 0 => clean[Len(made)] = run /\ ~failed
      BY <2>1, <2>4 DEF Held
    <3>2. made'[Len(made')] = a
      BY <2>1, <2>2
    <3>3. Len(a) = at + 1 /\ \A i \in 1..at + 1 : a[i] = Whole(cam, files[<<cam, 0>>])[i]
      <4>1. Len(a) = at + 1 /\ a[at + 1] = x /\ \A i \in 1..at : a[i] = m[i]
        BY <2>3, <3>1
      <4>2. \A i \in 1..at + 1 : i \in 1..at \/ i = at + 1
        BY <1>01
      <4> QED
        BY <2>1, <3>1, <4>1, <4>2
    <3> QED
      BY <2>1, <3>1, <3>2, <3>3 DEF Held
  <2>5. ASSUME cuts = 0, NEW n \in 1..Len(made') PROVE n = Len(made') \/ Good(n)'
    <3>1. CASE n # Len(made)
      <4>1. Good(n) /\ made'[n] = made[n]
        BY <1>0, <1>02, <2>1, <2>5, <3>1
      <4> QED
        BY <2>1, <4>1 DEF Good
    <3> QED
      BY <2>1, <3>1
  <2> QED
    BY <1>0, <1>02, <1>03, <2>1, <2>4, <2>5
<1>8. ASSUME PowerCut PROVE JsMadeInv'
  <2>1. cuts' # 0
    BY <1>01, <1>8 DEF PowerCut
  <2> QED
    BY <1>03, <2>1
<1>9. ASSUME JsConnection \/ (\E k \in DOMAIN open : JsData(k) \/ JsGone(k)) \/ UNCHANGED jsVars
      PROVE  JsMadeInv'
  <2>1. Same /\ UNCHANGED <<link, at, cam, files, run, failed>>
    BY <1>9 DEF JsConnection, JsData, JsGone, JsEnd, JsError, boardVars, serverVars, jsVars, vars
  <2>2. Held(0)' = Held(0)
    BY <2>1 DEF Held
  <2> QED
    BY <1>1, <2>1, <2>2
<1>10. ASSUME ServerExits PROVE JsMadeInv'
  BY <1>03, <1>10 DEF ServerExits
<1>11. ASSUME ServerStarts PROVE JsMadeInv'
  <2>1. made' = <<>> /\ link' # "up" /\ Len(made') = 0
    BY <1>0, <1>11 DEF ServerStarts, boardVars, JsCountInv
  <2>2. \A n \in 1..Len(made') : FALSE
    BY <2>1
  <2> QED
    BY <1>03, <2>1, <2>2
<1> QED
  BY <1>3, <1>4, <1>5, <1>6, <1>7, <1>8, <1>9, <1>10, <1>11, JsCases

LEMMA InitJs == JsInit => JsInv
<1> SUFFICES ASSUME JsInit PROVE JsInv
  OBVIOUS
<1>0. /\ Init /\ open = <<>> /\ Len(open) = 0
  BY DEF JsInit
<1>01. /\ Len(made) = 0 /\ img_cnt = 0 /\ run = 0 /\ queue = <<>> /\ pc = "idle" /\ link = "none"
       /\ server = "accept" /\ at = 0 /\ Len(queue) = 0
  BY <1>0 DEF Init
<1>1. JsTypeOK
  <2>1. TypeOK /\ open \in Seq(Nat)
    BY <1>0, InitPipe, EmptySeq DEF PipeInv
  <2> QED
    BY <1>01, <2>1 DEF JsTypeOK
<1>2. JsFilesInv
  <2>1. \A c \in 1..Cameras : files[<<c, 0>>] = NoFile
    <3>1. 0 \in 0..MaxRuns
      BY Constants
    <3> QED
      BY <1>0, <3>1, NamesType DEF Init
  <2> QED
    BY <1>01, <2>1 DEF JsFilesInv
<1>3. JsCountInv
  <2>1. JsLeft = MaxFiles /\ MaxFiles \in Nat
    <3>1. MaxRuns - run = MaxRuns
      BY <1>01, Constants
    <3>2. JsLeft = Cameras * (MaxRuns - run) /\ MaxFiles \in Nat
      BY <1>01, <1>1, JsLeftIs
    <3> QED
      BY <3>1, <3>2 DEF MaxFiles
  <2>2. \A k \in 1..Len(open) : FALSE
    BY <1>0
  <2> QED
    BY <1>0, <1>01, <2>1, <2>2 DEF JsCountInv
<1>4. JsFlowInv
  <2>1. (\A k \in 1..Len(queue) : FALSE) /\ (\A n \in 0..img_cnt - 1 : FALSE)
    BY <1>01
  <2> QED
    BY <2>1 DEF JsFlowInv
<1>5. JsMadeInv
  <2>1. \A n \in 1..Len(made) : FALSE
    BY <1>01
  <2> QED
    BY <1>01, <2>1 DEF JsMadeInv
<1> QED
  BY <1>0, <1>1, <1>2, <1>3, <1>4, <1>5, InitPipe DEF JsInv, PipeInv

LEMMA NextJs == JsInv /\ [JsNext]_jsVars => JsInv'
  BY JsTypeStep, JsFilesStep, JsCountStep, JsCleanStep, JsFlowStep, JsMadeStep DEF JsInv

\* Each connection has a file of its own: server_jpg.js takes the number when
\* the connection comes, as the sender numbers them, and so the parts of
\* connections that are open side by side never mix. When no power was cut, a
\* file whose connection has ended is empty or all that one file of the board
\* held, and the whole picture of the run that sent it if cameras and writes
\* had worked in that run until then.
THEOREM JsOrderKept == JsSpec => []JsReceivedInOrder
<1>1. JsInv => JsReceivedInOrder
  <2> SUFFICES ASSUME JsInv, server # "down",
                      NEW n \in 0..Len(made) - (Len(queue) - Len(open)) - 1
               PROVE  /\ IsPrefix(received[n], made[n + 1])
                      /\ cuts = 0 /\ (\A k \in DOMAIN open : open[k] # n) =>
                           received[n] = made[n + 1] /\ Sound(received[n], clean[n + 1], 0)
    BY DEF JsReceivedInOrder, Sound
  <2>1. JsTypeOK /\ TypeOK /\ JsCountInv /\ JsFlowInv /\ JsMadeInv
    BY DEF JsInv, JsTypeOK
  <2>2. /\ made \in Seq(Seq(Part)) /\ received \in [0..MaxFiles -> Seq(Part)] /\ open \in Seq(Nat)
        /\ img_cnt \in 0..MaxFiles /\ MaxFiles \in Nat /\ img_cnt \in Nat
        /\ Len(made) \in Nat /\ Len(queue) \in Nat /\ Len(open) \in Nat
    BY <2>1, LeftIs, LenProperties DEF TypeOK, JsTypeOK, MaxFiles
  <2>3. Len(made) = img_cnt + (Len(queue) - Len(open)) /\ Len(open) <= Len(queue) /\ img_cnt <= Len(made)
    BY <2>1 DEF JsCountInv
  <2>4. n \in 0..img_cnt - 1 /\ n \in 0..MaxFiles /\ n + 1 \in 1..Len(made)
    <3>1. \A a, b, c, d \in Int : a = d + (b - c) => a - (b - c) - 1 = d - 1
      OBVIOUS
    <3>2. Len(made) \in Int /\ Len(queue) \in Int /\ Len(open) \in Int /\ img_cnt \in Int
      BY <2>2
    <3>3. n \in 0..img_cnt - 1
      BY <2>3, <3>1, <3>2
    <3>4. img_cnt \in 0..MaxFiles /\ MaxFiles \in Nat /\ img_cnt <= Len(made) /\ Len(made) \in Nat
      BY <2>2, <2>3
    <3> QED
      BY <3>3, <3>4
  <2>5. PICK r \in Seq(Part), t \in Seq(Part) : r = received[n] /\ t = made[n + 1]
    BY <2>2, <2>4, ElementOfSeq
  <2>6. Ended(n) <=> \A k \in DOMAIN open : open[k] # n
    <3>1. DOMAIN open = 1..Len(open)
      BY <2>2
    <3> QED
      BY <3>1 DEF Ended
  <2>7. ASSUME Ended(n)
        PROVE  /\ IsPrefix(r, t)
               /\ cuts = 0 => r = t /\ Sound(t, clean[n + 1], 0)
    <3>1. Begins(r, t) /\ (cuts = 0 => Len(r) = Len(t))
      BY <2>1, <2>4, <2>5, <2>7 DEF JsFlowInv, JsKept, FlowsTo
    <3>2. link = "up" => n + 1 # Len(made)
      BY <2>1, <2>4, <2>7, EndedIsOlder
    <3>3. cuts = 0 => Sound(t, clean[n + 1], 0)
      BY <2>1, <2>4, <2>5, <3>2 DEF JsMadeInv
    <3> QED
      BY <3>1, <3>3, PrefixWhenBegins
  <2>8. ASSUME ~Ended(n) PROVE IsPrefix(r, t)
    <3>1. PICK k \in 1..Len(open) : open[k] = n
      BY <2>8 DEF Ended
    <3>2. k \in 1..Len(queue) /\ k <= Len(open)
      BY <2>2, <2>3
    <3>3. queue[k].parts \in Seq(Part) /\ Number(k) = n + 1
      BY <2>1, <3>1, <3>2, NumberIs
    <3>4. PICK p \in Seq(Part) : p = queue[k].parts
      BY <3>3
    <3>5. Carried(k) = r \o p
      BY <2>5, <3>1, <3>2, <3>4 DEF Carried
    <3>6. Begins(r \o p, t)
      BY <2>1, <2>5, <3>2, <3>3, <3>5 DEF JsFlowInv, JsFlows, FlowsTo
    <3>7. Begins(r, r \o p) /\ r \o p \in Seq(Part)
      BY ConcatProperties, LenProperties DEF Begins
    <3>8. Begins(r, t)
      BY <3>6, <3>7, BeginsTransitive
    <3> QED
      BY <3>8, PrefixWhenBegins
  <2> QED
    BY <2>5, <2>6, <2>7, <2>8
<1> QED
  BY InitJs, NextJs, <1>1, PTL DEF JsSpec

=============================================================================
