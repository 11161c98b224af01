--------------------------- MODULE CaptureProofs ---------------------------
(***************************************************************************)
(* The pictures take_pic saves, for any number of cameras, frames, runs,   *)
(* failing calls and power cuts.                                           *)
(***************************************************************************)
EXTENDS Capture, TLAPS

Loop == {"qbuf", "streamon", "dqbuf"}

\* Only cameras that had their turn, or have it and are past QBUF, hold a
\* queued buffer.
QueueInv ==
  /\ pc = "idle" => cam = 1 /\ queued = {}
  /\ \A c \in queued : c < cam \/ (c = cam /\ pc \in {"streamon", "dqbuf"})
  /\ filled \subseteq queued

\* The frame in the buffer is the one the loop has come to.
FrameInv ==
  /\ pc \in Loop => i < Frames /\ frame[cam] = i + (IF cam \in filled THEN 1 ELSE 0)
  /\ pc = "mmap" => i = 0 /\ frame[cam] = 0
  /\ pc \in {"streamoff", "fopen", "fwrite"} => frame[cam] = Frames

\* What the files hold, of cameras that are through and of the current one.
FileInv ==
  /\ pc # "idle" => run > 0
  /\ \A c \in 1..Cameras :
       c \notin failed /\ run > 0 /\ (pc = "idle" \/ c < cam \/ (c = cam /\ pc = "munmap"))
         => files[c] = [run |-> run, frame |-> Frames]
  /\ pc = "fwrite" => files[cam] = Torn

IInv == TypeOK /\ QueueInv /\ FrameInv /\ FileInv

-----------------------------------------------------------------------------
LEMMA AfterSteps ==
  /\ DOMAIN After = {"open", "querycap", "s_fmt", "reqbufs", "querybuf"}
  /\ \A p \in DOMAIN After : After[p] \in DOMAIN After \cup {"mmap"}
BY DEF After

LEMMA NextCameraType ==
  ASSUME NEW left \in SUBSET (1..Cameras), TypeOK, NextCamera(left)
  PROVE  /\ pc' \in {"open", "idle"} /\ cam' \in 1..Cameras
         /\ mapped' \subseteq 1..Cameras
         /\ streaming' \subseteq streaming /\ queued' \subseteq queued /\ filled' \subseteq filled
<1> USE CaptureAssumption DEF NextCamera, Release, TypeOK
<1>1. CASE cam < Cameras
  <2>1. cam' \in 1..Cameras
    BY <1>1
  <2> QED
    BY <1>1, <2>1
<1>2. CASE ~(cam < Cameras)
  BY <1>2
<1> QED
  BY <1>1, <1>2

LEMMA TypeInit == Init => TypeOK
BY CaptureAssumption, AfterSteps DEF Init, TypeOK, NoPicture

LEMMA TypeStep == IInv /\ [Next]_vars => TypeOK'
<1> SUFFICES ASSUME IInv, [Next]_vars PROVE TypeOK'
  OBVIOUS
<1>0. TypeOK
  BY DEF IInv
<1> USE CaptureAssumption, AfterSteps, <1>0 DEF TypeOK, progVars, driverVars
<1>1. ASSUME Start PROVE TypeOK'
  <2>1. run' \in 0..MaxRuns /\ cam' \in 1..Cameras
    BY <1>1 DEF Start
  <2> QED
    BY <1>1, <2>1 DEF Start
<1>2. ASSUME Prepare PROVE TypeOK'
  <2>1. frame' \in [1..Cameras -> 0..Frames]
    BY <1>2 DEF Prepare
  <2> QED
    BY <1>2, <2>1 DEF Prepare
<1>3. ASSUME Mmap \/ QBuf \/ StreamOn \/ StreamOff PROVE TypeOK'
  BY <1>3 DEF Mmap, QBuf, StreamOn, StreamOff
<1>4. ASSUME DQBuf PROVE TypeOK'
  <2>1. i' \in 0..Frames
    BY <1>4 DEF DQBuf, IInv, FrameInv, Loop
  <2> QED
    BY <1>4, <2>1 DEF DQBuf
<1>5. ASSUME FOpen \/ FWrite PROVE TypeOK'
  <2>1. Torn \in [run : 0..MaxRuns, frame : 0..Frames]
    BY DEF Torn
  <2>2. [run |-> run, frame |-> frame[cam]] \in [run : 0..MaxRuns, frame : 0..Frames]
    OBVIOUS
  <2>3. files' \in [1..Cameras -> [run : 0..MaxRuns, frame : 0..Frames]]
    BY <1>5, <2>1, <2>2 DEF FOpen, FWrite
  <2> QED
    BY <1>5, <2>3 DEF FOpen, FWrite
<1>6. ASSUME DiskFull PROVE TypeOK'
  BY <1>6, SMTT(30) DEF DiskFull
<1>7. ASSUME Munmap PROVE TypeOK'
  BY <1>7, NextCameraType DEF Munmap
<1>8. ASSUME CallFails PROVE TypeOK'
  <2>1. /\ pc' \in {"open", "idle"} /\ cam' \in 1..Cameras /\ mapped' \subseteq 1..Cameras
        /\ streaming' \subseteq streaming /\ queued' \subseteq queued /\ filled' \subseteq filled
    BY <1>8, NextCameraType DEF CallFails
  <2>2. faults' \in 0..MaxFaults /\ failed' \subseteq 1..Cameras
    BY <1>8 DEF CallFails
  <2> QED
    BY <1>8, <2>1, <2>2 DEF CallFails
<1>9. ASSUME PowerCut PROVE TypeOK'
  <2>1. cuts' \in 0..MaxCuts /\ cam' \in 1..Cameras /\ failed' \subseteq 1..Cameras
    BY <1>9 DEF PowerCut
  <2>2. streaming' \subseteq streaming /\ queued' \subseteq queued /\ filled' \subseteq filled
    BY <1>9 DEF PowerCut, Release
  <2> QED
    BY <1>9, <2>1, <2>2 DEF PowerCut
<1>10. ASSUME NEW c \in 1..Cameras, Fill(c) PROVE TypeOK'
  <2>1. frame' \in [1..Cameras -> 0..Frames]
    BY <1>10 DEF Fill
  <2> QED
    BY <1>10, <2>1 DEF Fill
<1>11. ASSUME UNCHANGED vars PROVE TypeOK'
  BY <1>11 DEF vars
<1> QED
  BY <1>1, <1>2, <1>3, <1>4, <1>5, <1>6, <1>7, <1>8, <1>9, <1>10, <1>11 DEF Next, take_picture

-----------------------------------------------------------------------------
LEMMA QueueStep == IInv /\ [Next]_vars => QueueInv'
<1> SUFFICES ASSUME IInv, [Next]_vars PROVE QueueInv'
  OBVIOUS
<1>0. TypeOK /\ QueueInv
  BY DEF IInv
<1> USE CaptureAssumption, AfterSteps, <1>0 DEF TypeOK, QueueInv, progVars, driverVars
<1>1. ASSUME Start PROVE QueueInv'
  BY <1>1 DEF Start
<1>2a. ASSUME Prepare PROVE QueueInv'
  <2>1. pc \notin {"streamon", "dqbuf"} /\ pc' # "idle"
    BY <1>2a DEF Prepare
  <2> QED
    BY <1>2a, <2>1 DEF Prepare
<1>2. ASSUME Mmap \/ QBuf \/ StreamOn PROVE QueueInv'
  BY <1>2 DEF Mmap, QBuf, StreamOn
<1>3. ASSUME DQBuf \/ StreamOff \/ FOpen \/ FWrite \/ DiskFull PROVE QueueInv'
  BY <1>3 DEF DQBuf, StreamOff, FOpen, FWrite, DiskFull
<1>4. ASSUME NEW left \in SUBSET (1..Cameras), NextCamera(left), pc # "idle" PROVE QueueInv'
  <2>1. CASE cam < Cameras
    <3>1. /\ pc' = "open" /\ cam' = cam + 1
          /\ queued' = queued \ ({cam} \ left) /\ filled' = filled \ ({cam} \ left)
      BY <1>4, <2>1 DEF NextCamera, Release
    <3>2. \A c \in queued' : c < cam'
      BY <3>1
    <3> QED
      BY <3>1, <3>2
  <2>2. CASE ~(cam < Cameras)
    BY <1>4, <2>2 DEF NextCamera, Release
  <2> QED
    BY <2>1, <2>2
<1>5. ASSUME Munmap PROVE QueueInv'
  BY <1>5, <1>4 DEF Munmap
<1>6. ASSUME CallFails PROVE QueueInv'
  BY <1>6, <1>4 DEF CallFails
<1>7. ASSUME PowerCut PROVE QueueInv'
  BY <1>7 DEF PowerCut, Release
<1>8. ASSUME NEW c \in 1..Cameras, Fill(c) PROVE QueueInv'
  BY <1>8 DEF Fill
<1>9. ASSUME UNCHANGED vars PROVE QueueInv'
  BY <1>9 DEF vars
<1> QED
  BY <1>1, <1>2a, <1>2, <1>3, <1>5, <1>6, <1>7, <1>8, <1>9 DEF Next, take_picture

LEMMA FrameStep == IInv /\ [Next]_vars => FrameInv'
<1> SUFFICES ASSUME IInv, [Next]_vars PROVE FrameInv'
  OBVIOUS
<1>0. TypeOK /\ QueueInv /\ FrameInv
  BY DEF IInv
<1> USE CaptureAssumption, AfterSteps, <1>0 DEF TypeOK, FrameInv, Loop, progVars, driverVars
<1>1. ASSUME Start PROVE FrameInv'
  BY <1>1 DEF Start
<1>2. ASSUME Prepare PROVE FrameInv'
  <2>1. pc' \in DOMAIN After \cup {"mmap"} /\ i' = 0 /\ frame'[cam'] = 0
    BY <1>2 DEF Prepare
  <2> QED
    BY <2>1
<1>3. ASSUME Mmap PROVE FrameInv'
  BY <1>3 DEF Mmap, QueueInv
<1>4. ASSUME QBuf \/ StreamOn PROVE FrameInv'
  BY <1>4 DEF QBuf, StreamOn
<1>5. ASSUME DQBuf PROVE FrameInv'
  <2>1. cam \notin filled' /\ i' = i + 1 /\ frame'[cam'] = i'
    BY <1>5 DEF DQBuf
  <2>2. CASE LastFrame
    BY <1>5, <2>1, <2>2 DEF DQBuf, LastFrame
  <2>3. CASE ~LastFrame
    BY <1>5, <2>1, <2>3 DEF DQBuf, LastFrame
  <2> QED
    BY <2>2, <2>3
<1>6. ASSUME StreamOff \/ FOpen \/ FWrite \/ DiskFull PROVE FrameInv'
  BY <1>6 DEF StreamOff, FOpen, FWrite, DiskFull
<1>7. ASSUME Munmap \/ CallFails PROVE FrameInv'
  BY <1>7, NextCameraType DEF Munmap, CallFails, NextCamera
<1>8. ASSUME PowerCut PROVE FrameInv'
  BY <1>8 DEF PowerCut
<1>9. ASSUME NEW c \in 1..Cameras, Fill(c) PROVE FrameInv'
  <2>1. CASE c = cam
    <3>1. pc \in {"streamon", "dqbuf"} /\ pc' = pc /\ cam' = cam /\ i' = i
      BY <1>9, <2>1 DEF Fill, QueueInv
    <3>2. frame'[cam] = i + 1 /\ cam \in filled'
      BY <1>9, <2>1, <3>1 DEF Fill
    <3> QED
      BY <3>1, <3>2
  <2>2. CASE c # cam
    BY <1>9, <2>2 DEF Fill
  <2> QED
    BY <2>1, <2>2
<1>10. ASSUME UNCHANGED vars PROVE FrameInv'
  BY <1>10 DEF vars
<1> QED
  BY <1>1, <1>2, <1>3, <1>4, <1>5, <1>6, <1>7, <1>8, <1>9, <1>10 DEF Next, take_picture

LEMMA FileStep == IInv /\ [Next]_vars => FileInv'
<1> SUFFICES ASSUME IInv, [Next]_vars PROVE FileInv'
  OBVIOUS
<1>0. TypeOK /\ QueueInv /\ FrameInv /\ FileInv
  BY DEF IInv
<1> USE CaptureAssumption, AfterSteps, <1>0 DEF TypeOK, FileInv, progVars, driverVars
<1>1. ASSUME Start PROVE FileInv'
  BY <1>1 DEF Start
<1>2. ASSUME Prepare PROVE FileInv'
  BY <1>2 DEF Prepare
<1>3. ASSUME Mmap \/ QBuf \/ StreamOn \/ DQBuf \/ StreamOff PROVE FileInv'
  BY <1>3 DEF Mmap, QBuf, StreamOn, DQBuf, StreamOff
<1>4. ASSUME FOpen PROVE FileInv'
  BY <1>4 DEF FOpen
<1>5. ASSUME FWrite PROVE FileInv'
  <2>0. pc = "fwrite" /\ cam \notin queued /\ frame[cam] = Frames
    BY <1>5 DEF FWrite, QueueInv, FrameInv
  <2>1. files' = [files EXCEPT ![cam] = [run |-> run, frame |-> Frames]]
    BY <1>5, <2>0 DEF FWrite
  <2> QED
    BY <1>5, <2>1 DEF FWrite
<1>6. ASSUME DiskFull PROVE FileInv'
  BY <1>6 DEF DiskFull
<1>7. ASSUME Munmap PROVE FileInv'
  <2>1. CASE cam < Cameras
    BY <1>7, <2>1, SMTT(30) DEF Munmap, NextCamera
  <2>2. CASE ~(cam < Cameras)
    BY <1>7, <2>2 DEF Munmap, NextCamera
  <2> QED
    BY <2>1, <2>2
<1>8. ASSUME CallFails PROVE FileInv'
  <2>1. CASE cam < Cameras
    BY <1>8, <2>1 DEF CallFails, NextCamera
  <2>2. CASE ~(cam < Cameras)
    BY <1>8, <2>2 DEF CallFails, NextCamera
  <2> QED
    BY <2>1, <2>2
<1>9. ASSUME PowerCut PROVE FileInv'
  BY <1>9 DEF PowerCut
<1>10. ASSUME NEW c \in 1..Cameras, Fill(c) PROVE FileInv'
  BY <1>10 DEF Fill
<1>11. ASSUME UNCHANGED vars PROVE FileInv'
  BY <1>11 DEF vars
<1> QED
  BY <1>1, <1>2, <1>3, <1>4, <1>5, <1>6, <1>7, <1>8, <1>9, <1>10, <1>11 DEF Next, take_picture

-----------------------------------------------------------------------------
LEMMA InitInv == Init => IInv
BY TypeInit, CaptureAssumption DEF Init, IInv, QueueInv, FrameInv, FileInv, Loop

LEMMA NextInv == IInv /\ [Next]_vars => IInv'
BY TypeStep, QueueStep, FrameStep, FileStep DEF IInv

LEMMA Always == Spec => []IInv
BY InitInv, NextInv, PTL DEF Spec

\* The variables have their types; the frame counter stays within Frames.
THEOREM TypeCorrect == Spec => []TypeOK
BY Always, PTL DEF IInv

\* A camera that is through, and none of whose calls failed, has the last
\* frame of this run on the disk.
THEOREM PicturesSettled == Spec => []SavesSettledFrame
<1>1. IInv => SavesSettledFrame
  BY DEF IInv, TypeOK, FileInv, SavesSettledFrame, Done
<1> QED
  BY <1>1, Always, PTL

-----------------------------------------------------------------------------
(* The refinement.                                                         *)

Picture == [c \in 1..Cameras |-> IF files[c] = Torn THEN -1 ELSE files[c].run]
Turn    == IF pc = "idle" THEN 0 ELSE cam

LEMMA SamePicture == UNCHANGED files => Picture' = Picture
BY DEF Picture

LEMMA StepRefines == IInv /\ [Next]_vars => [Photos!Next]_(Photos!vars)
<1> SUFFICES ASSUME IInv, [Next]_vars PROVE [Photos!Next]_(Photos!vars)
  OBVIOUS
<1>0. TypeOK /\ QueueInv /\ FrameInv /\ FileInv
  BY DEF IInv
<1> USE CaptureAssumption, AfterSteps, <1>0 DEF TypeOK, progVars, driverVars
<1>a. ASSUME UNCHANGED run, Turn' = Turn, Picture' = Picture PROVE UNCHANGED Photos!vars
  BY <1>a DEF Photos!vars, Picture, Turn
<1>1. ASSUME Start PROVE Photos!Begin
  BY <1>1, SamePicture DEF Start, Photos!Begin, Picture, QueueInv
<1>2. ASSUME Prepare \/ Mmap \/ QBuf \/ StreamOn \/ DQBuf \/ StreamOff \/ DiskFull
      PROVE  UNCHANGED Photos!vars
  <2>1. UNCHANGED <<run, cam, files>> /\ pc # "idle" /\ pc' # "idle"
    BY <1>2 DEF Prepare, Mmap, QBuf, StreamOn, DQBuf, StreamOff, DiskFull
  <2> QED
    BY <2>1, <1>a, SamePicture DEF Turn
<1>3. ASSUME FOpen PROVE Photos!Damage
  <2>1. Picture' = [Picture EXCEPT ![cam] = -1]
    BY <1>3 DEF FOpen, Picture
  <2> QED
    BY <1>3, <2>1 DEF FOpen, Photos!Damage, Picture
<1>4. ASSUME FWrite PROVE Photos!Replace
  <2>0. pc = "fwrite" /\ cam \notin queued /\ frame[cam] = Frames
    BY <1>4 DEF FWrite, QueueInv, FrameInv
  <2>1. files' = [files EXCEPT ![cam] = [run |-> run, frame |-> Frames]]
    BY <1>4, <2>0 DEF FWrite
  <2>2. run # 0 /\ [run |-> run, frame |-> Frames] # Torn
    BY <1>4 DEF FWrite, FileInv, Torn
  <2>3. Picture' = [Picture EXCEPT ![cam] = run]
    BY <2>1, <2>2 DEF Picture
  <2>4. Picture[cam] = -1
    BY <1>4 DEF FWrite, FileInv, Picture
  <2> QED
    BY <1>4, <2>3, <2>4 DEF FWrite, Photos!Replace, Picture
<1>5. ASSUME Munmap \/ CallFails PROVE Photos!Pass
  <2>1. pc # "idle" /\ UNCHANGED <<run, files>>
        /\ IF cam < Cameras THEN pc' = "open" /\ cam' = cam + 1 ELSE pc' = "idle"
    BY <1>5 DEF Munmap, CallFails, NextCamera
  <2>2. cam # 0 /\ Picture' = Picture
    BY <2>1, SamePicture
  <2>3. CASE cam < Cameras
    BY <2>1, <2>2, <2>3 DEF Photos!Pass, Picture
  <2>4. CASE ~(cam < Cameras)
    BY <2>1, <2>2, <2>4 DEF Photos!Pass, Picture
  <2> QED
    BY <2>3, <2>4
<1>6. ASSUME PowerCut PROVE Photos!Stop
  BY <1>6, SamePicture DEF PowerCut, Photos!Stop, Picture
<1>7. ASSUME NEW c \in 1..Cameras, Fill(c) PROVE UNCHANGED Photos!vars
  BY <1>7, <1>a, SamePicture DEF Fill, Turn
<1>8. ASSUME UNCHANGED vars PROVE UNCHANGED Photos!vars
  BY <1>8, <1>a, SamePicture DEF vars, Turn
<1> QED
  BY <1>1, <1>2, <1>3, <1>4, <1>5, <1>6, <1>7, <1>8 DEF Next, take_picture, Photos!Next

\* take_pic implements Photography: a picture is replaced in its camera's
\* turn only, by one of this run or a damaged one.
THEOREM ImplementsPhotos == Spec => ImplementsPhotography
<1>1. ASSUME Init PROVE Photos!Init
  <2>1. Picture = [c \in 1..Cameras |-> 0]
    BY <1>1 DEF Init, Picture, NoPicture, Torn
  <2> QED
    BY <1>1, <2>1 DEF Init, Photos!Init, Picture
<1> QED
  BY <1>1, Always, StepRefines, PTL DEF Spec, ImplementsPhotography, Photos!Spec
=============================================================================
