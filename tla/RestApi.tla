------------------------------ MODULE RestApi ------------------------------
(***************************************************************************)
(* src/v005/restapi.py: the server on which the phone registers its user   *)
(* and leaves the credentials of the home network, whereupon the board     *)
(* reboots into that network. The server handles one request at a time.    *)
(* Registered users are kept in memory and in a file that is rewritten as  *)
(* a whole; the file and wpa_supplicant.conf survive reboots and power     *)
(* cuts, and a file that is closed is on the disk.                         *)
(*                                                                         *)
(* Requests that change nothing are left out: /status, unknown paths,      *)
(* missing parameters, users that are refused as registered or unknown.    *)
(***************************************************************************)
EXTENDS Integers, FiniteSets

CONSTANTS
  Users,
  Networks,     \* credentials of home networks
  Factory,      \* the wpa_supplicant.conf of the image
  Torn,         \* a configuration that was opened and not yet closed
  MaxCuts,      \* bounds: power cuts,
  MaxFaults,    \*   failing file operations,
  MaxHangups    \*   clients that are gone before their answer

ASSUME RestAssumption ==
  /\ Factory \notin Networks /\ Torn \notin Networks /\ Torn # Factory
  /\ MaxCuts \in Nat /\ MaxFaults \in Nat /\ MaxHangups \in Nat

VARIABLES
  \* the disk
  file,       \* is USERS_FILE absent, complete, or opened and not closed?
  saved,      \* the users in it when it is complete
  wifi,       \* /etc/wpa_supplicant.conf
  \* the server process
  pc,         \* where the handler is
  mem,        \* REGISTERED_USERS
  request,    \* the request in the handler
  \* the board
  rebooting,  \* reboot was called and has not stopped the processes yet
  cuts, faults, hangups,
  \* history
  acked,      \* users told SUCCESS and not deleted or reset since
  cutOff      \* has a request ended in anything but its answer?

disk    == <<file, saved, wifi>>
process == <<pc, mem, request>>
bounds  == <<cuts, faults, hangups>>
vars    == <<disk, process, rebooting, bounds, acked, cutOff>>

Registration == [kind : {"register"}, user : Users, network : Networks]
Deletion     == [kind : {"delete", "reset"}]
NoRequest    == [kind |-> "none"]

TypeOK ==
  /\ file \in {"absent", "complete", "torn"} /\ saved \subseteq Users
  /\ wifi \in Networks \cup {Factory, Torn}
  /\ pc \in {"idle", "openUsers", "dumpUsers", "openWifi", "writeWifi",
             "reply", "reboot", "error", "down", "failed"}
  /\ mem \subseteq Users
  /\ request \in Registration \cup Deletion \cup {NoRequest}
  /\ rebooting \in BOOLEAN
  /\ cuts \in 0..MaxCuts /\ faults \in 0..MaxFaults /\ hangups \in 0..MaxHangups
  /\ acked \subseteq Users
  /\ cutOff \in BOOLEAN

Init ==
  /\ file = "absent" /\ saved = {} /\ wifi = Factory
  /\ pc = "down" /\ mem = {} /\ request = NoRequest
  /\ rebooting = FALSE
  /\ cuts = 0 /\ faults = 0 /\ hangups = 0
  /\ acked = {} /\ cutOff = FALSE

-----------------------------------------------------------------------------
(* Requests.                                                               *)

\* Variant: a users file that does not parse counts as empty.
StartAfresh ==
  /\ pc = "down" /\ pc' = "idle"
  /\ mem' = saved
  /\ UNCHANGED <<disk, request, rebooting, bounds, acked, cutOff>>

\* The module is run anew: load_registered_users, outside of any try.
Start ==
  /\ pc = "down"
  /\ pc'  = IF file = "torn" THEN "failed" ELSE "idle"
  /\ mem' = saved
  /\ UNCHANGED <<disk, request, rebooting, bounds, acked, cutOff>>

\* do_POST, /wifi or /configure, with all three parameters.
Register(u, n) ==
  /\ pc = "idle" /\ u \notin mem
  /\ mem' = mem \cup {u}
  /\ pc' = "openUsers"
  /\ request' = [kind |-> "register", user |-> u, network |-> n]
  /\ UNCHANGED <<disk, rebooting, bounds, acked, cutOff>>

\* Variants: the file is not saved, or the set is not changed.
DeleteInMemory(u) ==
  /\ pc = "idle" /\ u \in mem
  /\ mem' = mem \ {u}
  /\ pc' = "reply" /\ request' = [kind |-> "delete"]
  /\ acked' = acked \ {u}
  /\ UNCHANGED <<disk, rebooting, bounds, cutOff>>

DeleteNothing(u) ==
  /\ pc = "idle" /\ u \in mem
  /\ pc' = "openUsers" /\ request' = [kind |-> "delete"]
  /\ acked' = acked \ {u}
  /\ UNCHANGED <<disk, mem, rebooting, bounds, cutOff>>

do_DELETE(u) ==
  /\ pc = "idle" /\ u \in mem
  /\ mem' = mem \ {u}
  /\ pc' = "openUsers" /\ request' = [kind |-> "delete"]
  /\ acked' = acked \ {u}
  /\ UNCHANGED <<disk, rebooting, bounds, cutOff>>

reset_users ==
  /\ pc = "idle"
  /\ mem' = {}
  /\ pc' = "openUsers" /\ request' = [kind |-> "reset"]
  /\ acked' = {}
  /\ UNCHANGED <<disk, rebooting, bounds, cutOff>>

Registering == request.kind = "register"

-----------------------------------------------------------------------------
(* The rest of a handler.                                                  *)

\* save_registered_users: open truncates, the text is written at the close.
OpenUsers ==
  /\ pc = "openUsers" /\ pc' = "dumpUsers"
  /\ file' = "torn" /\ saved' = {}
  /\ UNCHANGED <<wifi, mem, request, rebooting, bounds, acked, cutOff>>

\* Variant: the network is not saved.
DumpUsersOnly ==
  /\ pc = "dumpUsers" /\ pc' = "reply"
  /\ file' = "complete" /\ saved' = mem
  /\ UNCHANGED <<wifi, mem, request, rebooting, bounds, acked, cutOff>>

DumpUsers ==
  /\ pc = "dumpUsers"
  /\ pc' = IF Registering THEN "openWifi" ELSE "reply"
  /\ file' = "complete" /\ saved' = mem
  /\ UNCHANGED <<wifi, mem, request, rebooting, bounds, acked, cutOff>>

\* save_wifi_config.
OpenWifi ==
  /\ pc = "openWifi" /\ pc' = "writeWifi"
  /\ wifi' = Torn
  /\ UNCHANGED <<file, saved, mem, request, rebooting, bounds, acked, cutOff>>

WriteWifi ==
  /\ pc = "writeWifi" /\ pc' = "reply"
  /\ wifi' = request.network
  /\ UNCHANGED <<file, saved, mem, request, rebooting, bounds, acked, cutOff>>

\* Variant: no reboot after the answer.
ReplyOnly ==
  /\ pc = "reply" /\ pc' = "idle"
  /\ acked' = IF Registering THEN acked \cup {request.user} ELSE acked
  /\ request' = NoRequest
  /\ UNCHANGED <<disk, mem, rebooting, bounds, cutOff>>

\* respond(200, ...).
Reply ==
  /\ pc = "reply"
  /\ pc' = IF Registering THEN "reboot" ELSE "idle"
  /\ acked' = IF Registering THEN acked \cup {request.user} ELSE acked
  /\ request' = IF Registering THEN request ELSE NoRequest
  /\ UNCHANGED <<disk, mem, rebooting, bounds, cutOff>>

\* os.system returns while init is still stopping the processes.
reboot_system ==
  /\ pc = "reboot" /\ pc' = "idle"
  /\ rebooting' = TRUE
  /\ request' = NoRequest
  /\ UNCHANGED <<disk, mem, bounds, acked, cutOff>>

\* A file operation raises; what it has done so far stays.
FileFault ==
  /\ pc \in {"openUsers", "dumpUsers", "openWifi", "writeWifi"}
  /\ faults < MaxFaults /\ faults' = faults + 1
  /\ pc' = "error" /\ cutOff' = TRUE
  /\ UNCHANGED <<disk, mem, request, rebooting, cuts, hangups, acked>>

\* respond(400, ...) or respond(500, ...).
ReplyError ==
  /\ pc = "error" /\ pc' = "idle"
  /\ request' = NoRequest
  /\ UNCHANGED <<disk, mem, rebooting, bounds, acked, cutOff>>

\* The client is gone: respond raises, and so does every respond in the
\* except clauses, up to the server's own handler.
Hangup ==
  /\ pc = "reply"
  /\ hangups < MaxHangups /\ hangups' = hangups + 1
  /\ pc' = "idle" /\ request' = NoRequest /\ cutOff' = TRUE
  /\ UNCHANGED <<disk, mem, rebooting, cuts, faults, acked>>

-----------------------------------------------------------------------------
(* The board.                                                              *)

\* All processes end, whatever the server is doing.
ProcessesEnd ==
  /\ pc' = "down" /\ mem' = {} /\ request' = NoRequest
  /\ rebooting' = FALSE
  /\ cutOff' = (cutOff \/ request # NoRequest)
  /\ UNCHANGED <<disk, acked>>

ShutDown == rebooting /\ ProcessesEnd /\ UNCHANGED bounds

PowerCut ==
  /\ pc # "down" /\ cuts < MaxCuts
  /\ cuts' = cuts + 1
  /\ ProcessesEnd /\ UNCHANGED <<faults, hangups>>

HandlerStep ==
  \/ OpenUsers \/ DumpUsers \/ OpenWifi \/ WriteWifi
  \/ Reply \/ ReplyError \/ reboot_system

Next ==
  \/ Start
  \/ \E u \in Users, n \in Networks : Register(u, n)
  \/ \E u \in Users : do_DELETE(u)
  \/ reset_users
  \/ HandlerStep \/ FileFault \/ Hangup
  \/ ShutDown \/ PowerCut

\* A handler goes on and a reboot happens. Clients owe nothing, and the
\* server is started by the MCU (register 0134), not by the boot.
Spec == Init /\ [][Next]_vars /\ WF_vars(HandlerStep) /\ WF_vars(ShutDown)

-----------------------------------------------------------------------------
(* Properties.                                                             *)

\* What the server answers from memory is what it would load after a
\* restart, unless a file operation has failed: every handler that changes
\* the set has saved it before the next request is read.
MemoryIsOnFile == pc = "idle" /\ faults = 0 => mem = saved

\* A user who was told SUCCESS is in every complete users file from then on,
\* across reboots and power cuts at any point of later requests, as long as
\* no file operation has failed.
AcknowledgedIsOnFile ==
  pc \in {"idle", "down"} /\ file # "torn" /\ faults = 0 => acked \subseteq saved

\* 499 Already Registered is the answer only to users who have been told
\* SUCCESS before, unless some request was cut off by a failing file
\* operation, a lost client or the end of the process.
RefusedWereAcknowledged == pc = "idle" /\ ~cutOff => mem \subseteq acked

\* The board is told to reboot only when the users file and the network
\* configuration of that very registration are complete and the client has
\* its answer.
RebootsConfigured ==
  [][pc = "reboot" /\ rebooting' /\ ~rebooting =>
       /\ wifi = request.network
       /\ file = "complete" /\ request.user \in acked \cap saved]_vars

\* A registration that begins ends with the processes stopped for the
\* reboot, unless it is cut off.
RegistrationReboots == Registering ~> pc = "down" \/ cutOff

\* The comment at load_registered_users: the users are loaded when the
\* server starts.
StartLoadsUsers == pc # "failed"
=============================================================================
