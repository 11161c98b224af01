---------------------------- MODULE AccessPoint ----------------------------
(***************************************************************************)
(* The board while one of the programs of ApPrograms turns it into an      *)
(* access point. The listener of the gateway runs the program whenever the *)
(* MCU reports register 0134 = 1; a gateway that is started anew can run   *)
(* it a second time while the first one still serves. A process that was   *)
(* told to end lives on for a while, commands can fail and are not looked  *)
(* at, and the files survive a power cut half written.                     *)
(***************************************************************************)
EXTENDS Integers, ApPrograms

CONSTANTS
  Instances,   \* processes that run the program: numbers, since they are alike
  Programs,    \* the programs one of which the board has installed
  Overlapping, \* bound: those of which a second instance may be started while
               \* one runs, as long as no mishap of below has happened
  MaxStarts,   \* bounds: starts of the program,
  MaxFaults,   \*   commands that fail,
  MaxKills,    \*   programs that are stopped,
  MaxCuts      \*   power cuts

ASSUME AccessPointAssumption ==
  /\ Instances \subseteq Nat
  /\ Programs \subseteq DOMAIN Script /\ Overlapping \subseteq Programs
  /\ MaxStarts \in Nat /\ MaxFaults \in Nat /\ MaxKills \in Nat /\ MaxCuts \in Nat

VARIABLES
  program,    \* the installed program
  \* the instances
  pos,        \* the command each is at, 0 if it does not run
  pid,        \* the process get_pid has found
  \* the board
  conf,       \* hostapd.conf and dnsmasq.conf
  proc,       \* what the daemons are doing
  using,      \* the configuration each daemon has read
  udhcpc,     \* is there a DHCP client?
  address,    \* the interfaces with SOFTAP_INTERFACE_STATIC_IP
  ip_forward,
  rules,      \* how often each rule is in its table
  serving,    \* instances whose server has the port
  \* history and bounds; the first two begin anew with an instance that is
  \* started when no other one runs
  disturbed,  \* has something failed, been stopped or died late?
  shared,     \* have two instances run at the same time?
  starts, faults, kills, cuts

instVars  == <<pos, pid>>
boardVars == <<conf, proc, using, udhcpc, address, ip_forward, rules, serving>>
history   == <<disturbed, shared>>
bounds    == <<starts, faults, kills, cuts>>
vars      == <<program, instVars, boardVars, history, bounds>>

\* "other" is a complete file that some other program has left.
Contents == {"absent", "torn", "other", "made"}

TypeOK ==
  /\ program \in Programs
  /\ pos \in [Instances -> 0..Len(Script[program])]
  /\ pid \in [Instances -> Daemons \cup {"none", "gone"}]
  /\ conf \in [Daemons -> Contents] /\ using \in [Daemons -> Contents]
  /\ proc \in [Daemons -> {"none", "runs", "dying"}]
  /\ udhcpc \in BOOLEAN /\ ip_forward \in BOOLEAN
  /\ address \subseteq {"wlan0", "wlan1"}
  /\ rules \in [Rules -> Nat]
  /\ serving \subseteq Instances
  /\ disturbed \in BOOLEAN /\ shared \in BOOLEAN
  /\ starts \in 0..MaxStarts /\ faults \in 0..MaxFaults
  /\ kills \in 0..MaxKills /\ cuts \in 0..MaxCuts

\* The board has booted: a DHCP client, and perhaps a dnsmasq of the image.
Booted(boot) ==
  /\ pos' = [i \in Instances |-> 0] /\ pid' = [i \in Instances |-> "none"]
  /\ proc' = [d \in Daemons |-> IF d = "dnsmasq" THEN boot ELSE "none"]
  /\ using' = [d \in Daemons |-> "other"]
  /\ udhcpc' = TRUE /\ address' = {} /\ ip_forward' = FALSE
  /\ rules' = [r \in Rules |-> 0] /\ serving' = {}
  /\ disturbed' = FALSE /\ shared' = FALSE

Init ==
  /\ program \in Programs
  /\ pos = [i \in Instances |-> 0] /\ pid = [i \in Instances |-> "none"]
  /\ conf \in [Daemons -> {"absent", "other"}]
  /\ \E boot \in {"none", "runs"} :
       proc = [d \in Daemons |-> IF d = "dnsmasq" THEN boot ELSE "none"]
  /\ using = [d \in Daemons |-> "other"]
  /\ udhcpc = TRUE /\ address = {} /\ ip_forward = FALSE
  /\ rules = [r \in Rules |-> 0] /\ serving = {}
  /\ disturbed = FALSE /\ shared = FALSE
  /\ starts = 0 /\ faults = 0 /\ kills = 0 /\ cuts = 0

-----------------------------------------------------------------------------
(* The commands.                                                           *)

At(i, what) == pos[i] > 0 /\ Script[program][pos[i]][1] = what
Of(i)       == Script[program][pos[i]][2]

\* Variant: main does not return.
AdvanceOn(i) == pos' = [pos EXCEPT ![i] = @ + 1]

\* The next command, or the return of main.
Advance(i) == pos' = [pos EXCEPT ![i] = IF @ < Len(Script[program]) THEN @ + 1 ELSE 0]

Start(i) ==
  /\ pos[i] = 0 /\ starts < MaxStarts
  /\ \A j \in Instances : j < i => pos[j] # 0
  /\ pos' = [pos EXCEPT ![i] = 1] /\ pid' = [pid EXCEPT ![i] = "none"]
  /\ starts' = starts + 1
  /\ IF \A j \in Instances : pos[j] = 0
     THEN disturbed' = FALSE /\ shared' = FALSE
     ELSE /\ program \in Overlapping /\ faults + kills + cuts = 0
          /\ shared' = TRUE /\ UNCHANGED disturbed
  /\ UNCHANGED <<program, boardVars, faults, kills, cuts>>

OpenConf(i) ==
  /\ At(i, "open") /\ conf' = [conf EXCEPT ![Of(i)] = "torn"]
  /\ Advance(i)
  /\ UNCHANGED <<program, pid, proc, using, udhcpc, address, ip_forward, rules, serving, history, bounds>>

WriteConf(i) ==
  /\ At(i, "write") /\ conf' = [conf EXCEPT ![Of(i)] = "made"]
  /\ Advance(i)
  /\ UNCHANGED <<program, pid, proc, using, udhcpc, address, ip_forward, rules, serving, history, bounds>>

\* SIGTERM for a process that runs.
Signal(d) == proc' = [proc EXCEPT ![d] = IF @ = "runs" THEN "dying" ELSE @]

killall(i) ==
  /\ At(i, "killall")
  /\ IF Of(i) \in Daemons THEN Signal(Of(i)) /\ UNCHANGED udhcpc
                          ELSE udhcpc' = FALSE /\ UNCHANGED proc
  /\ Advance(i)
  /\ UNCHANGED <<program, pid, conf, using, address, ip_forward, rules, serving, history, bounds>>

\* pidof also finds a process that is about to die.
get_pid(i) ==
  /\ At(i, "pidof")
  /\ pid' = [pid EXCEPT ![i] = IF proc[Of(i)] # "none" THEN Of(i) ELSE "none"]
  /\ Advance(i)
  /\ UNCHANGED <<program, boardVars, history, bounds>>

\* The pid may be that of a process which is gone, and another one may have
\* been started since.
KillPid(i) ==
  /\ At(i, "kill")
  /\ IF pid[i] = Of(i) THEN Signal(Of(i)) ELSE UNCHANGED proc
  /\ Advance(i)
  /\ UNCHANGED <<program, pid, conf, using, udhcpc, address, ip_forward, rules, serving, history, bounds>>

\* A signalled process ends.
Reap(d) ==
  /\ proc[d] = "dying" /\ proc' = [proc EXCEPT ![d] = "none"]
  /\ pid' = [i \in Instances |-> IF pid[i] = d THEN "gone" ELSE pid[i]]
  /\ UNCHANGED <<program, pos, conf, using, udhcpc, address, ip_forward, rules, serving, history, bounds>>

\* A daemon reads its configuration and takes its port (dnsmasq) or its
\* control socket (hostapd). When an older one still has it, or the file is
\* missing, the new one ends at once. An empty file is a configuration for
\* dnsmasq and none for hostapd, which is started in the background, and
\* is taken to be this far when the next command begins.
StartDaemon(i) ==
  LET d == Script[program][pos[i]][1] IN
  /\ At(i, "dnsmasq") \/ At(i, "hostapd")
  /\ IF /\ proc[d] = "none" /\ conf[d] # "absent"
        /\ d = "hostapd" => conf[d] # "torn"
     THEN /\ proc' = [proc EXCEPT ![d] = "runs"]
          /\ using' = [using EXCEPT ![d] = conf[d]]
     ELSE UNCHANGED <<proc, using>>
  /\ disturbed' = (disturbed \/ proc[d] = "dying")
  /\ Advance(i)
  /\ UNCHANGED <<program, pid, conf, udhcpc, address, ip_forward, rules, serving, shared, bounds>>

ifconfig(i) ==
  /\ At(i, "up") \/ At(i, "address")
  /\ address' = IF At(i, "address") THEN address \cup {Of(i)} ELSE address
  /\ Advance(i)
  /\ UNCHANGED <<program, pid, conf, proc, using, udhcpc, ip_forward, rules, serving, history, bounds>>

Forward(i) ==
  /\ At(i, "ip_forward") /\ ip_forward' = TRUE
  /\ Advance(i)
  /\ UNCHANGED <<program, pid, conf, proc, using, udhcpc, address, rules, serving, history, bounds>>

iptables(i) ==
  /\ \/ At(i, "flush") /\ rules' = [r \in Rules |-> IF Table(r) = Of(i) THEN 0 ELSE rules[r]]
     \/ At(i, "rule") /\ rules' = [rules EXCEPT ![Of(i)] = @ + 1]
  /\ Advance(i)
  /\ UNCHANGED <<program, pid, conf, proc, using, udhcpc, address, ip_forward, serving, history, bounds>>

\* The server stays in the foreground. It needs the port for itself, except
\* for softap_webserver2, which sets SO_REUSEPORT.
StartServer(i) ==
  /\ At(i, "server") /\ i \notin serving
  /\ IF serving = {} \/ Of(i) = "itself"
     THEN serving' = serving \cup {i} /\ UNCHANGED pos
     ELSE Advance(i) /\ UNCHANGED serving
  /\ UNCHANGED <<program, pid, conf, proc, using, udhcpc, address, ip_forward, rules, history, bounds>>

\* The server ends by itself, the program returns.
ServerEnds(i) ==
  /\ i \in serving /\ serving' = serving \ {i}
  /\ Advance(i)
  /\ UNCHANGED <<program, pid, conf, proc, using, udhcpc, address, ip_forward, rules, history, bounds>>

\* fopen, or the command, fails, and nobody looks at the result.
CommandFails(i) ==
  /\ pos[i] > 0 /\ i \notin serving /\ faults < MaxFaults /\ ~shared
  /\ faults' = faults + 1 /\ disturbed' = TRUE
  /\ Advance(i)
  /\ UNCHANGED <<program, pid, boardVars, shared, starts, kills, cuts>>

\* The program is stopped, and the server with it; the daemons stay.
Interrupt(i) ==
  /\ pos[i] > 0 /\ kills < MaxKills
  /\ kills' = kills + 1 /\ disturbed' = TRUE
  /\ pos' = [pos EXCEPT ![i] = 0] /\ serving' = serving \ {i}
  /\ UNCHANGED <<program, pid, conf, proc, using, udhcpc, address, ip_forward, rules, shared, starts, faults, cuts>>

\* The files stay as they are, everything else begins anew.
PowerCut ==
  /\ cuts < MaxCuts /\ cuts' = cuts + 1
  /\ \E boot \in {"none", "runs"} : Booted(boot)
  /\ UNCHANGED <<program, conf, starts, faults, kills>>

Step(i) ==
  \/ OpenConf(i) \/ WriteConf(i) \/ killall(i) \/ get_pid(i) \/ KillPid(i)
  \/ StartDaemon(i) \/ ifconfig(i) \/ Forward(i) \/ iptables(i) \/ StartServer(i)

Next ==
  \/ \E i \in Instances :
       Start(i) \/ Step(i) \/ ServerEnds(i) \/ CommandFails(i) \/ Interrupt(i)
  \/ \E d \in Daemons : Reap(d)
  \/ PowerCut

\* Commands return and signalled processes end. Servers need not end, and
\* nobody has to start the program.
Fairness ==
  /\ \A i \in Instances : WF_vars(Step(i))
  /\ \A d \in Daemons : WF_vars(Reap(d))

Spec == Init /\ [][Next]_vars /\ Fairness

-----------------------------------------------------------------------------
(* Properties.                                                             *)

\* Phones find the network, get an address in it and reach the uplink.
\* Nothing ends hostapd: one that was started when its file could not be
\* written keeps the network's old name until the board is booted.
PhonesCanConnect ==
  /\ \A d \in Daemons : proc[d] = "runs"
  /\ using["dnsmasq"] = "made" /\ (faults = 0 => using["hostapd"] = "made")
  /\ address # {} /\ ip_forward /\ ~udhcpc
  /\ \A r \in Rules : rules[r] > 0

Settled == \A i \in Instances : pos[i] = 0 \/ i \in serving

\* Whatever ran and failed before, whatever a power cut has left in the
\* files, and even when a second instance kills and starts the daemons,
\* empties the files and flushes the rules of the first one at any point:
\* once nobody is setting anything up and a server waits for phones, the
\* access point is complete. The exceptions are a command that failed, a
\* program that was stopped, and a dnsmasq that outlived the start of its
\* successor, since the first of the instances was started.
ServerHasAccessPoint ==
  serving # {} /\ Settled /\ ~disturbed => PhonesCanConnect

\* Starting the program again and again does not pile up rules; only two
\* instances at the same time can (both flush, then both append).
RulesOnce ==
  Settled /\ ~shared /\ ~disturbed => \A r \in Rules : rules[r] <= 1

\* A start brings up the access point, also that of the program that ends
\* without a server, unless something fails or the board loses its power.
StartBringsAccessPoint ==
  \A i \in Instances, n \in 0..MaxCuts :
    pos[i] > 0 /\ cuts = n ~> PhonesCanConnect \/ disturbed \/ cuts > n
=============================================================================
