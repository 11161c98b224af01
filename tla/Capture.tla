------------------------------ MODULE Capture ------------------------------
(***************************************************************************)
(* src/v005/take_pic.c: one call after the other on every camera in turn,  *)
(* and the V4L2 driver that fills the one buffer the program has mapped.   *)
(* A call that fails ends the camera's turn with close, and no munmap; the *)
(* mapping keeps the device open, so the driver goes on as it was until    *)
(* the process ends.                                                       *)
(***************************************************************************)
EXTENDS Integers

CONSTANTS
  Cameras,    \* number of cameras
  Frames,     \* frames that are dequeued for a picture
  MaxRuns,    \* bounds: runs of the program,
  MaxFaults,  \*   calls that fail,
  MaxCuts     \*   power cuts

ASSUME CaptureAssumption ==
  /\ Cameras \in Nat \ {0} /\ Frames \in Nat \ {0}
  /\ MaxRuns \in Nat /\ MaxFaults \in Nat /\ MaxCuts \in Nat

VARIABLES
  \* the program
  run,        \* number of the run
  pc,         \* the call it makes next
  cam,        \* the camera whose turn it is
  i,          \* frames dequeued
  mapped,     \* cameras whose buffer is mapped
  failed,     \* cameras with a call that failed in this run
  \* the driver, for each camera
  streaming,  \* cameras between STREAMON and STREAMOFF
  queued,     \* cameras whose buffer belongs to the driver
  filled,     \* cameras whose queued buffer holds a frame
  frame,      \* the number of the frame in the buffer
  \* the disk
  files,      \* what image<c>.jpg holds: the run and the frame
  faults, cuts

progVars   == <<run, pc, cam, i, mapped, failed>>
driverVars == <<streaming, queued, filled, frame>>
vars == <<progVars, driverVars, files, faults, cuts>>

NoPicture == [run |-> 0, frame |-> 0]
Torn      == [run |-> 0, frame |-> 1]

\* The calls before and after the loop that change nothing here, and what
\* follows them.
After == [open |-> "querycap", querycap |-> "s_fmt", s_fmt |-> "reqbufs",
          reqbufs |-> "querybuf", querybuf |-> "mmap"]

TypeOK ==
  /\ run \in 0..MaxRuns
  /\ pc \in DOMAIN After \cup {"idle", "mmap", "qbuf", "streamon", "dqbuf", "streamoff",
                               "fopen", "fwrite", "munmap"}
  /\ cam \in 1..Cameras /\ i \in 0..Frames
  /\ mapped \subseteq 1..Cameras /\ failed \subseteq 1..Cameras
  /\ streaming \subseteq 1..Cameras /\ queued \subseteq 1..Cameras
  /\ filled \subseteq 1..Cameras
  /\ frame \in [1..Cameras -> 0..Frames]
  /\ files \in [1..Cameras -> [run : 0..MaxRuns, frame : 0..Frames]]
  /\ faults \in 0..MaxFaults /\ cuts \in 0..MaxCuts

Init ==
  /\ run = 0 /\ pc = "idle" /\ cam = 1 /\ i = 0 /\ mapped = {} /\ failed = {}
  /\ streaming = {} /\ queued = {} /\ filled = {}
  /\ frame = [c \in 1..Cameras |-> 0]
  /\ files = [c \in 1..Cameras |-> NoPicture]
  /\ faults = 0 /\ cuts = 0

-----------------------------------------------------------------------------
(* The program.                                                            *)

Start ==
  /\ pc = "idle" /\ run < MaxRuns
  /\ run' = run + 1 /\ pc' = "open" /\ cam' = 1 /\ failed' = {}
  /\ UNCHANGED <<i, mapped, driverVars, files, faults, cuts>>

\* The device is released when it is closed and no longer mapped.
Release(cameras) ==
  /\ streaming' = streaming \ cameras /\ queued' = queued \ cameras
  /\ filled' = filled \ cameras

\* The next camera, or the end of the process, which unmaps and closes
\* everything that is left.
NextCamera(left) ==
  IF cam < Cameras
  THEN /\ pc' = "open" /\ cam' = cam + 1
       /\ mapped' = left /\ Release({cam} \ left)
  ELSE /\ pc' = "idle" /\ cam' = 1 /\ mapped' = {} /\ Release(1..Cameras)

Prepare ==
  /\ pc \in DOMAIN After /\ pc' = After[pc]
  /\ i' = 0 /\ frame' = [frame EXCEPT ![cam] = 0]
  /\ UNCHANGED <<run, cam, mapped, failed, streaming, queued, filled, files, faults, cuts>>

Mmap ==
  /\ pc = "mmap" /\ pc' = "qbuf" /\ mapped' = mapped \cup {cam}
  /\ UNCHANGED <<run, cam, i, failed, driverVars, files, faults, cuts>>

QBuf ==
  /\ pc = "qbuf" /\ pc' = "streamon" /\ queued' = queued \cup {cam}
  /\ UNCHANGED <<run, cam, i, mapped, failed, streaming, filled, frame, files, faults, cuts>>

\* From the second time on it streams already.
StreamOn ==
  /\ pc = "streamon" /\ pc' = "dqbuf" /\ streaming' = streaming \cup {cam}
  /\ UNCHANGED <<run, cam, i, mapped, failed, queued, filled, frame, files, faults, cuts>>

\* Variant: one frame too few is skipped.
LastFrameEarly == i + 1 >= Frames - 1

LastFrame == i + 1 >= Frames

\* Variant: the buffer is queued once, before the loop.
DQBufOnly ==
  /\ pc = "dqbuf" /\ cam \in filled
  /\ i' = i + 1 /\ pc' = IF LastFrame THEN "streamoff" ELSE "streamon"
  /\ queued' = queued \ {cam} /\ filled' = filled \ {cam}
  /\ UNCHANGED <<run, cam, mapped, failed, streaming, frame, files, faults, cuts>>

\* The device is open in blocking mode: it waits for a frame.
DQBuf ==
  /\ pc = "dqbuf" /\ cam \in filled
  /\ i' = i + 1 /\ pc' = IF LastFrame THEN "streamoff" ELSE "qbuf"
  /\ queued' = queued \ {cam} /\ filled' = filled \ {cam}
  /\ UNCHANGED <<run, cam, mapped, failed, streaming, frame, files, faults, cuts>>

StreamOff ==
  /\ pc = "streamoff" /\ pc' = "fopen"
  /\ streaming' = streaming \ {cam} /\ queued' = queued \ {cam} /\ filled' = filled \ {cam}
  /\ UNCHANGED <<run, cam, i, mapped, failed, frame, files, faults, cuts>>

\* Variant: the file is not truncated.
FOpenKeeps ==
  /\ pc = "fopen" /\ pc' = "fwrite"
  /\ UNCHANGED <<run, cam, i, mapped, failed, driverVars, files, faults, cuts>>

FOpen ==
  /\ pc = "fopen" /\ pc' = "fwrite"
  /\ files' = [files EXCEPT ![cam] = Torn]
  /\ UNCHANGED <<run, cam, i, mapped, failed, driverVars, faults, cuts>>

\* fwrite and fclose. A buffer that belongs to the driver may change under
\* it, and when the disk is full nobody notices.
FWrite ==
  /\ pc = "fwrite" /\ pc' = "munmap"
  /\ files' = [files EXCEPT ![cam] = IF cam \in queued THEN Torn
                                     ELSE [run |-> run, frame |-> frame[cam]]]
  /\ UNCHANGED <<run, cam, i, mapped, failed, driverVars, faults, cuts>>

DiskFull ==
  /\ pc = "fwrite" /\ pc' = "munmap" /\ faults < MaxFaults
  /\ faults' = faults + 1 /\ failed' = failed \cup {cam}
  /\ UNCHANGED <<run, cam, i, mapped, driverVars, files, cuts>>

\* munmap and close.
Munmap ==
  /\ pc = "munmap" /\ NextCamera(mapped \ {cam})
  /\ UNCHANGED <<run, i, failed, frame, files, faults, cuts>>

\* open, an ioctl, mmap or fopen fails: close and return. main does not look
\* at the result.
CallFails ==
  /\ pc \notin {"idle", "fwrite", "munmap"} /\ faults < MaxFaults
  /\ faults' = faults + 1 /\ failed' = failed \cup {cam}
  /\ NextCamera(mapped)
  /\ UNCHANGED <<run, i, frame, files, cuts>>

PowerCut ==
  /\ pc # "idle" /\ cuts < MaxCuts /\ cuts' = cuts + 1
  /\ pc' = "idle" /\ cam' = 1 /\ mapped' = {} /\ Release(1..Cameras)
  /\ failed' = 1..Cameras
  /\ UNCHANGED <<run, i, frame, files, faults>>

take_picture ==
  \/ Prepare \/ Mmap \/ QBuf \/ StreamOn \/ DQBuf \/ StreamOff
  \/ FOpen \/ FWrite \/ Munmap

-----------------------------------------------------------------------------
(* The driver.                                                             *)

\* A frame arrives in a buffer that is queued.
Fill(c) ==
  /\ c \in streaming /\ c \in queued /\ c \notin filled
  /\ filled' = filled \cup {c}
  /\ frame' = [frame EXCEPT ![c] = IF @ < Frames THEN @ + 1 ELSE @]
  /\ UNCHANGED <<progVars, streaming, queued, files, faults, cuts>>

Next ==
  \/ Start \/ take_picture \/ CallFails \/ DiskFull \/ PowerCut
  \/ \E c \in 1..Cameras : Fill(c)

\* The program goes on, and a camera that streams delivers frames. (One that
\* is unplugged makes the call fail.)
Spec ==
  /\ Init /\ [][Next]_vars
  /\ WF_vars(take_picture) /\ \A c \in 1..Cameras : WF_vars(Fill(c))

-----------------------------------------------------------------------------
(* Properties.                                                             *)

Done(c) == run > 0 /\ (pc = "idle" \/ c < cam)

\* A camera that is through has its picture of this run on the disk, and it
\* is the last of the frames, when exposure has settled: unless one of its
\* own calls failed. What happens to the other cameras does not matter.
SavesSettledFrame ==
  \A c \in 1..Cameras :
    Done(c) /\ c \notin failed => files[c] = [run |-> run, frame |-> Frames]

\* A run ends: every frame that is waited for has been asked for.
CaptureEnds == pc # "idle" ~> pc = "idle"

Photos == INSTANCE Photography WITH
            Damaged <- -1,
            turn    <- IF pc = "idle" THEN 0 ELSE cam,
            picture <- [c \in 1..Cameras |-> IF files[c] = Torn THEN -1 ELSE files[c].run]

\* The pictures are taken as Photography says: cameras have their turns one
\* after the other, and a picture gives way to a damaged one or to one of
\* this run, never to an older one, whatever fails.
ImplementsPhotography == Photos!Spec
=============================================================================
