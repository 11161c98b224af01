------------------------- MODULE AccessPointProofs -------------------------
(***************************************************************************)
(* Proofs about AccessPoint, for any number of instances that start the    *)
(* program, any of the programs and any bound on mishaps. The programs are *)
(* one list of commands (Common), so that the invariant can speak of       *)
(* numbered commands: whatever a command has to bring about holds, or some *)
(* instance has yet to get past that command (DoneInv).                    *)
(***************************************************************************)
EXTENDS AccessPoint, TLAPS

-----------------------------------------------------------------------------
(* The commands of the programs.                                           *)

\* The commands up to the server, which are the same in all programs.
Common(s, lan) ==
  /\ s[1] = <<"killall", "dnsmasq">> /\ s[2] = <<"killall", "udhcpc">>
  /\ s[3] = <<"open", "hostapd">>    /\ s[4] = <<"write", "hostapd">>
  /\ s[5] = <<"killall", "dnsmasq">> /\ s[6] = <<"up", lan>>
  /\ s[7] = <<"address", lan>>       /\ s[8] = <<"address", lan>>
  /\ s[9] = <<"open", "dnsmasq">>    /\ s[10] = <<"write", "dnsmasq">>
  /\ s[11] = <<"pidof", "dnsmasq">>  /\ s[12] = <<"kill", "dnsmasq">>
  /\ s[13] = <<"dnsmasq", lan>>      /\ s[14] = <<"hostapd", lan>>
  /\ s[15] = <<"up", "wlan0">>       /\ s[16] = <<"address", lan>>
  /\ s[17] = <<"ip_forward", "1">>
  /\ s[18] = <<"flush", "filter">>   /\ s[19] = <<"flush", "nat">>
  /\ s[20] = <<"rule", <<"filter", "established">>>>
  /\ s[21] = <<"rule", <<"filter", "forward">>>>
  /\ s[22] = <<"rule", <<"nat", "masquerade">>>>
  /\ s[23] = <<"rule", <<"nat", "dns">>>>

\* The lists that the programs are composed of, command by command.
LEMMA SetupCommands ==
  ASSUME NEW lan, NEW s, s = Setup(wlan_accesspoint_start(lan), iftables_usb0_to_eth0(lan))
  PROVE  Len(s) = 23 /\ Common(s, lan)
  BY DEF Common, Setup, wlan_accesspoint_start, iftables_usb0_to_eth0, KillByPid,
         create_hostapd_file, creat_dnsmasq_file

LEMMA ServeCommands ==
  ASSUME NEW lan, NEW server, NEW s,
         s = Setup(wlan_accesspoint_start(lan), iftables_usb0_to_eth0(lan)) \o Serve(server)
  PROVE  Len(s) = 24 /\ Common(s, lan) /\ s[24][1] = "server"
  BY DEF Common, Setup, wlan_accesspoint_start, iftables_usb0_to_eth0, KillByPid,
         create_hostapd_file, creat_dnsmasq_file, Serve

\* Every program runs these commands; all but one then start a server.
LEMMA Commands ==
  ASSUME NEW p \in DOMAIN Script
  PROVE  \E lan \in {"wlan0", "wlan1"} :
           /\ Common(Script[p], lan)
           /\ \/ Len(Script[p]) = 23
              \/ Len(Script[p]) = 24 /\ Script[p][24][1] = "server"
<1>1. /\ Len(softap_restapi) = 24 /\ Common(softap_restapi, "wlan1")
      /\ softap_restapi[24][1] = "server"
  BY ServeCommands DEF softap_restapi
<1>2. /\ Len(softap) = 24 /\ Common(softap, "wlan1")
      /\ softap[24][1] = "server"
  BY ServeCommands DEF softap, softap_accesspoint, softap_sharing
<1>3. Len(softap_rockchip_hj) = 23 /\ Common(softap_rockchip_hj, "wlan1")
  BY SetupCommands DEF softap_rockchip_hj, hj_accesspoint, hj_sharing
<1>4. /\ Len(softap_webserver2) = 24 /\ Common(softap_webserver2, "wlan1")
      /\ softap_webserver2[24][1] = "server"
  BY ServeCommands DEF softap_webserver2, webserver2_accesspoint, webserver2_sharing
<1>5. /\ Len(softap_webserver2_v001) = 24 /\ Common(softap_webserver2_v001, "wlan0")
      /\ softap_webserver2_v001[24][1] = "server"
  BY ServeCommands DEF softap_webserver2_v001, v001_accesspoint, v001_sharing
<1> QED
  BY <1>1, <1>2, <1>3, <1>4, <1>5 DEF Script

-----------------------------------------------------------------------------
(* The inductive invariant.                                                *)

\* Where a rule and the flush of its table are in every program.
RuleAt(r) ==
  CASE r = <<"filter", "established">> -> 20
    [] r = <<"filter", "forward">>     -> 21
    [] r = <<"nat", "masquerade">>     -> 22
    [] r = <<"nat", "dns">>            -> 23
FlushAt(r) == IF Table(r) = "filter" THEN 18 ELSE 19

\* Somebody has yet to get past command c.
Before(c) == \E i \in Instances : pos[i] \in 1..c

Active == \E i \in Instances : pos[i] # 0

\* A server is at the last command.
ServeInv == \A i \in serving : pos[i] = 24

\* Nobody tells hostapd to end; whoever got past its file has left it with
\* nothing but what the program writes, unless fopen failed.
HostapdInv ==
  /\ proc["hostapd"] # "dying"
  /\ faults = 0 =>
       /\ \A i \in Instances : pos[i] > 3 => conf["hostapd"] \in {"torn", "made"}
       /\ proc["hostapd"] = "runs" => using["hostapd"] = "made"

\* What the commands have brought about. A second instance undoes some of it,
\* and then has the command that does it again still before it.
DoneInv ==
  Active /\ ~disturbed =>
    /\ ~udhcpc \/ Before(2)
    /\ conf["hostapd"] = "made" \/ Before(4)
    /\ address # {} \/ Before(7)
    /\ conf["dnsmasq"] = "made" \/ Before(10)
    /\ (proc["dnsmasq"] = "runs" /\ using["dnsmasq"] = "made") \/ Before(13)
    /\ proc["hostapd"] = "runs" \/ Before(14)
    /\ ip_forward \/ Before(17)
    /\ \A r \in Rules : rules[r] > 0 \/ Before(RuleAt(r))

\* A dnsmasq with another configuration than the program's will be told to
\* end before anyone starts its successor.
StaleInv ==
  Active /\ ~disturbed /\ proc["dnsmasq"] = "runs" /\ using["dnsmasq"] # "made" =>
    Before(11) \/ \E i \in Instances : pos[i] = 12 /\ pid[i] = "dnsmasq"

\* As long as no two instances have met, only one runs; its rules are flushed
\* before it appends them.
RulesInv ==
  ~shared =>
    /\ \A i, j \in Instances : pos[i] # 0 /\ pos[j] # 0 => i = j
    /\ ~disturbed => \A r \in Rules :
         /\ rules[r] <= 1 \/ Before(FlushAt(r))
         /\ (\E i \in Instances : pos[i] \in FlushAt(r) + 1..RuleAt(r)) => rules[r] = 0

SafeInv == ServeInv /\ HostapdInv /\ DoneInv /\ StaleInv /\ RulesInv
IInv    == TypeOK /\ SafeInv

-----------------------------------------------------------------------------
(* Which command is which.                                                 *)

\* The command an instance is at, by its number.
LEMMA Where ==
  ASSUME TypeOK, NEW i \in Instances
  PROVE  /\ pos[i] \in 0..24
         /\ pos[i] > 0 => pos[i] <= Len(Script[program]) /\ Len(Script[program]) \in {23, 24}
         /\ At(i, "open")       => \/ pos[i] = 3 /\ Of(i) = "hostapd"
                                   \/ pos[i] = 9 /\ Of(i) = "dnsmasq"
         /\ At(i, "write")      => \/ pos[i] = 4 /\ Of(i) = "hostapd"
                                   \/ pos[i] = 10 /\ Of(i) = "dnsmasq"
         /\ At(i, "killall")    => \/ pos[i] \in {1, 5} /\ Of(i) = "dnsmasq"
                                   \/ pos[i] = 2 /\ Of(i) = "udhcpc"
         /\ At(i, "pidof")      => pos[i] = 11 /\ Of(i) = "dnsmasq"
         /\ At(i, "kill")       => pos[i] = 12 /\ Of(i) = "dnsmasq"
         /\ At(i, "dnsmasq")    => pos[i] = 13 /\ Script[program][pos[i]][1] = "dnsmasq"
         /\ At(i, "hostapd")    => pos[i] = 14 /\ Script[program][pos[i]][1] = "hostapd"
         /\ At(i, "up")         => pos[i] \in {6, 15}
         /\ At(i, "address")    => pos[i] \in {7, 8, 16} /\ Of(i) \in {"wlan0", "wlan1"}
         /\ At(i, "ip_forward") => pos[i] = 17
         /\ At(i, "flush")      => \/ pos[i] = 18 /\ Of(i) = "filter"
                                   \/ pos[i] = 19 /\ Of(i) = "nat"
         /\ At(i, "rule")       => Of(i) \in Rules /\ pos[i] = RuleAt(Of(i))
         /\ At(i, "server")     => pos[i] = 24
         /\ pos[i] = 7 => At(i, "address")
<1> DEFINE s == Script[program]
<1>1. program \in DOMAIN Script
  BY AccessPointAssumption DEF TypeOK
<1>2. PICK lan \in {"wlan0", "wlan1"} :
        Common(s, lan) /\ (Len(s) = 23 \/ (Len(s) = 24 /\ s[24][1] = "server"))
  BY <1>1, Commands
<1>3. /\ pos[i] \in 0..24 /\ pos[i] <= Len(s) /\ Len(s) \in {23, 24}
      /\ pos[i] = 24 => Len(s) = 24
  <2> DEFINE n == Len(s)
             k == pos[i]
  <2>1. k \in 0..n
    BY DEF TypeOK
  <2>2. n = 23 \/ n = 24
    BY <1>2
  <2> HIDE DEF n, k
  <2>3. k \in 0..24 /\ k <= n /\ n \in {23, 24} /\ (k = 24 => n = 24)
    BY <2>1, <2>2
  <2> QED
    BY <2>3 DEF n, k
<1> HIDE DEF s
<1>5. /\ RuleAt(<<"filter", "established">>) = 20 /\ RuleAt(<<"filter", "forward">>) = 21
      /\ RuleAt(<<"nat", "masquerade">>) = 22 /\ RuleAt(<<"nat", "dns">>) = 23
  BY DEF RuleAt
<1> DEFINE c == s[pos[i]]
<1>10. CASE pos[i] = 0
  BY <1>10 DEF At
<1>11. CASE pos[i] = 1
  <2>1. s[pos[i]] = <<"killall", "dnsmasq">>
    BY <1>2, <1>11 DEF Common
  <2> QED
    BY <1>3, <1>11, <2>1 DEF At, Of, s
<1>12. CASE pos[i] = 2
  <2>1. s[pos[i]] = <<"killall", "udhcpc">>
    BY <1>2, <1>12 DEF Common
  <2> QED
    BY <1>3, <1>12, <2>1 DEF At, Of, s
<1>13. CASE pos[i] = 3
  <2>1. s[pos[i]] = <<"open", "hostapd">>
    BY <1>2, <1>13 DEF Common
  <2> QED
    BY <1>3, <1>13, <2>1 DEF At, Of, s
<1>14. CASE pos[i] = 4
  <2>1. s[pos[i]] = <<"write", "hostapd">>
    BY <1>2, <1>14 DEF Common
  <2> QED
    BY <1>3, <1>14, <2>1 DEF At, Of, s
<1>15. CASE pos[i] = 5
  <2>1. s[pos[i]] = <<"killall", "dnsmasq">>
    BY <1>2, <1>15 DEF Common
  <2> QED
    BY <1>3, <1>15, <2>1 DEF At, Of, s
<1>16. CASE pos[i] = 6
  <2>1. s[pos[i]] = <<"up", lan>>
    BY <1>2, <1>16 DEF Common
  <2> QED
    BY <1>3, <1>16, <2>1 DEF At, Of, s
<1>17. CASE pos[i] = 7
  <2>1. s[pos[i]] = <<"address", lan>>
    BY <1>2, <1>17 DEF Common
  <2> QED
    BY <1>3, <1>17, <2>1 DEF At, Of, s
<1>18. CASE pos[i] = 8
  <2>1. s[pos[i]] = <<"address", lan>>
    BY <1>2, <1>18 DEF Common
  <2> QED
    BY <1>3, <1>18, <2>1 DEF At, Of, s
<1>19. CASE pos[i] = 9
  <2>1. s[pos[i]] = <<"open", "dnsmasq">>
    BY <1>2, <1>19 DEF Common
  <2> QED
    BY <1>3, <1>19, <2>1 DEF At, Of, s
<1>20. CASE pos[i] = 10
  <2>1. s[pos[i]] = <<"write", "dnsmasq">>
    BY <1>2, <1>20 DEF Common
  <2> QED
    BY <1>3, <1>20, <2>1 DEF At, Of, s
<1>21. CASE pos[i] = 11
  <2>1. s[pos[i]] = <<"pidof", "dnsmasq">>
    BY <1>2, <1>21 DEF Common
  <2> QED
    BY <1>3, <1>21, <2>1 DEF At, Of, s
<1>22. CASE pos[i] = 12
  <2>1. s[pos[i]] = <<"kill", "dnsmasq">>
    BY <1>2, <1>22 DEF Common
  <2> QED
    BY <1>3, <1>22, <2>1 DEF At, Of, s
<1>23. CASE pos[i] = 13
  <2>1. s[pos[i]] = <<"dnsmasq", lan>>
    BY <1>2, <1>23 DEF Common
  <2> QED
    BY <1>3, <1>23, <2>1 DEF At, Of, s
<1>24. CASE pos[i] = 14
  <2>1. s[pos[i]] = <<"hostapd", lan>>
    BY <1>2, <1>24 DEF Common
  <2> QED
    BY <1>3, <1>24, <2>1 DEF At, Of, s
<1>25. CASE pos[i] = 15
  <2>1. s[pos[i]] = <<"up", "wlan0">>
    BY <1>2, <1>25 DEF Common
  <2> QED
    BY <1>3, <1>25, <2>1 DEF At, Of, s
<1>26. CASE pos[i] = 16
  <2>1. s[pos[i]] = <<"address", lan>>
    BY <1>2, <1>26 DEF Common
  <2> QED
    BY <1>3, <1>26, <2>1 DEF At, Of, s
<1>27. CASE pos[i] = 17
  <2>1. s[pos[i]] = <<"ip_forward", "1">>
    BY <1>2, <1>27 DEF Common
  <2> QED
    BY <1>3, <1>27, <2>1 DEF At, Of, s
<1>28. CASE pos[i] = 18
  <2>1. s[pos[i]] = <<"flush", "filter">>
    BY <1>2, <1>28 DEF Common
  <2> QED
    BY <1>3, <1>28, <2>1 DEF At, Of, s
<1>29. CASE pos[i] = 19
  <2>1. s[pos[i]] = <<"flush", "nat">>
    BY <1>2, <1>29 DEF Common
  <2> QED
    BY <1>3, <1>29, <2>1 DEF At, Of, s
<1>30. CASE pos[i] = 20
  <2>1. s[pos[i]] = <<"rule", <<"filter", "established">>>>
    BY <1>2, <1>30 DEF Common
  <2> QED
    BY <1>3, <1>30, <2>1, <1>5 DEF At, Of, s, Rules
<1>31. CASE pos[i] = 21
  <2>1. s[pos[i]] = <<"rule", <<"filter", "forward">>>>
    BY <1>2, <1>31 DEF Common
  <2> QED
    BY <1>3, <1>31, <2>1, <1>5 DEF At, Of, s, Rules
<1>32. CASE pos[i] = 22
  <2>1. s[pos[i]] = <<"rule", <<"nat", "masquerade">>>>
    BY <1>2, <1>32 DEF Common
  <2> QED
    BY <1>3, <1>32, <2>1, <1>5 DEF At, Of, s, Rules
<1>33. CASE pos[i] = 23
  <2>1. s[pos[i]] = <<"rule", <<"nat", "dns">>>>
    BY <1>2, <1>33 DEF Common
  <2> QED
    BY <1>3, <1>33, <2>1, <1>5 DEF At, Of, s, Rules
<1>34. CASE pos[i] = 24
  <2>1. s[pos[i]][1] = "server"
    <3>1. Len(s) = 24
      BY <1>3, <1>34
    <3>2. s[24][1] = "server"
      BY <1>2, <3>1
    <3> QED
      BY <1>34, <3>2
  <2> QED
    BY <1>3, <1>34, <2>1 DEF At, Of, s
<1>50. \/ pos[i] = 0 \/ pos[i] = 1 \/ pos[i] = 2 \/ pos[i] = 3 \/ pos[i] = 4 \/ pos[i] = 5
       \/ pos[i] = 6 \/ pos[i] = 7 \/ pos[i] = 8 \/ pos[i] = 9 \/ pos[i] = 10 \/ pos[i] = 11
       \/ pos[i] = 12 \/ pos[i] = 13 \/ pos[i] = 14 \/ pos[i] = 15 \/ pos[i] = 16 \/ pos[i] = 17
       \/ pos[i] = 18 \/ pos[i] = 19 \/ pos[i] = 20 \/ pos[i] = 21 \/ pos[i] = 22 \/ pos[i] = 23
       \/ pos[i] = 24
  BY <1>3
<1> QED
  BY <1>10, <1>11, <1>12, <1>13, <1>14, <1>15, <1>16, <1>17, <1>18, <1>19, <1>20, <1>21,
     <1>22, <1>23, <1>24, <1>25, <1>26, <1>27, <1>28, <1>29, <1>30, <1>31, <1>32,
      <1>33, <1>34, <1>50

-----------------------------------------------------------------------------
(* A step of a program, told by the number of the command.                 *)

\* What a step of instance i, at the command with the number pos[i], does.
Moves(i, n) ==
  /\ pos' = [pos EXCEPT ![i] = n]
  /\ \/ pos[i] \in 1..22 /\ n = pos[i] + 1
     \/ pos[i] \in 23..24 /\ n \in {0, 24}

\* Advance goes to the next of them, or returns.
LEMMA AdvanceMoves ==
  ASSUME TypeOK, NEW i \in Instances, pos[i] # 0, Advance(i)
  PROVE  \E n \in 0..24 : Moves(i, n)
<1>1. /\ pos[i] \in 1..24 /\ pos[i] <= Len(Script[program])
      /\ Len(Script[program]) = 23 \/ Len(Script[program]) = 24
  BY Where, SMTT(30)
<1> DEFINE len == Len(Script[program])
           n == IF pos[i] < len THEN pos[i] + 1 ELSE 0
<1>2. pos' = [pos EXCEPT ![i] = n]
  BY DEF Advance, TypeOK
<1>3. /\ n \in 0..24
      /\ (pos[i] \in 1..22 /\ n = pos[i] + 1) \/ (pos[i] \in 23..24 /\ n \in {0, 24})
  <2> DEFINE k == pos[i]
             m == IF k < len THEN k + 1 ELSE 0
  <2>1. (len = 23 \/ len = 24) /\ k \in 1..24 /\ k <= len
    BY <1>1
  <2> HIDE DEF len, k
  <2>2. m \in 0..24 /\ ((k \in 1..22 /\ m = k + 1) \/ (k \in 23..24 /\ m \in {0, 24}))
    <3>1. CASE k < len
      BY <2>1, <3>1
    <3>2. CASE ~(k < len)
      BY <2>1, <3>2
    <3> QED
      BY <3>1, <3>2
  <2> QED
    BY <2>2 DEF k
<1> HIDE DEF n
<1> QED
  BY <1>2, <1>3 DEF Moves

\* What it does to the rest of the board.
NetEffect(i) ==
  /\ udhcpc' => udhcpc /\ pos[i] # 2
  /\ address # {} \/ pos[i] = 7 => address' # {}
  /\ ip_forward \/ pos[i] = 17 => ip_forward'

Written(old, open, write, k) == IF k = open THEN "torn" ELSE IF k = write THEN "made" ELSE old

ConfEffect(i) ==
  /\ conf'["hostapd"] = Written(conf["hostapd"], 3, 4, pos[i])
  /\ conf'["dnsmasq"] = Written(conf["dnsmasq"], 9, 10, pos[i])

RulesEffect(i) ==
  \A r \in Rules : rules'[r] = IF pos[i] = FlushAt(r) THEN 0
                               ELSE IF pos[i] = RuleAt(r) THEN rules[r] + 1 ELSE rules[r]

HostapdEffect(i) ==
  LET up == /\ pos[i] = 14 /\ proc["hostapd"] = "none"
            /\ conf["hostapd"] \notin {"absent", "torn"}
  IN  /\ proc'["hostapd"]  = IF up THEN "runs" ELSE proc["hostapd"]
      /\ using'["hostapd"] = IF up THEN conf["hostapd"] ELSE using["hostapd"]

DnsmasqEffect(i) ==
  LET up   == pos[i] = 13 /\ proc["dnsmasq"] = "none" /\ conf["dnsmasq"] # "absent"
      down == /\ pos[i] \in {1, 5} \/ (pos[i] = 12 /\ pid[i] = "dnsmasq")
              /\ proc["dnsmasq"] = "runs"
  IN  /\ proc'["dnsmasq"]  = IF down THEN "dying" ELSE IF up THEN "runs" ELSE proc["dnsmasq"]
      /\ using'["dnsmasq"] = IF up THEN conf["dnsmasq"] ELSE using["dnsmasq"]
      /\ \A j \in Instances : pid'[j] = IF j = i /\ pos[i] = 11
                                        THEN IF proc["dnsmasq"] # "none" THEN "dnsmasq" ELSE "none"
                                        ELSE pid[j]

OtherEffect(i) ==
  /\ ~disturbed' => /\ ~disturbed
                    /\ pos[i] = 13 => proc["dnsmasq"] # "dying"
  /\ pos[i] = 24 => i \notin serving
  /\ \A j \in serving' : j \in serving \/ (j = i /\ pos[i] = 24 /\ pos' = pos)
  /\ UNCHANGED <<program, shared, starts, faults, kills, cuts>>

Effect(i) ==
  /\ \E n \in 0..24 : Moves(i, n)
  /\ NetEffect(i) /\ ConfEffect(i) /\ RulesEffect(i)
  /\ HostapdEffect(i) /\ DnsmasqEffect(i) /\ OtherEffect(i)

\* All of the actions of Step do no more than that.
LEMMA StepEffect ==
  ASSUME TypeOK, NEW i \in Instances, Step(i)
  PROVE  pos[i] # 0 /\ Effect(i)
<1> USE DEF boardVars, history, bounds
<1>0. /\ \A r \in Rules : FlushAt(r) \in {18, 19} /\ RuleAt(r) \in {20, 21, 22, 23}
      /\ Daemons = {"dnsmasq", "hostapd"}
  BY DEF Rules, FlushAt, RuleAt, Table, Daemons
<1>12. /\ conf \in [Daemons -> Contents] /\ using \in [Daemons -> Contents]
      /\ proc \in [Daemons -> {"none", "runs", "dying"}]
      /\ pid \in [Instances -> Daemons \cup {"none", "gone"}]
  BY DEF TypeOK
<1>1. CASE OpenConf(i)
  <2>1. (pos[i] = 3 /\ Of(i) = "hostapd") \/ (pos[i] = 9 /\ Of(i) = "dnsmasq")
    BY <1>1, Where DEF OpenConf
  <2>2. pos[i] # 0 /\ \E n \in 0..24 : Moves(i, n)
    BY <1>1, <2>1, AdvanceMoves DEF OpenConf
  <2>3. NetEffect(i)
    BY <1>0, <1>12, <1>1, <2>1 DEF OpenConf, NetEffect
  <2>4. ConfEffect(i)
    BY <1>0, <1>12, <1>1, <2>1 DEF OpenConf, ConfEffect, Written
  <2>5. RulesEffect(i)
    BY <1>0, <1>12, <1>1, <2>1 DEF OpenConf, RulesEffect
  <2>6. HostapdEffect(i)
    BY <1>0, <1>12, <1>1, <2>1 DEF OpenConf, HostapdEffect
  <2>7. DnsmasqEffect(i)
    BY <1>0, <1>12, <1>1, <2>1 DEF OpenConf, DnsmasqEffect
  <2>8. OtherEffect(i)
    BY <1>0, <1>12, <1>1, <2>1 DEF OpenConf, OtherEffect
  <2> QED
    BY <2>2, <2>3, <2>4, <2>5, <2>6, <2>7, <2>8 DEF Effect
<1>2. CASE WriteConf(i)
  <2>1. (pos[i] = 4 /\ Of(i) = "hostapd") \/ (pos[i] = 10 /\ Of(i) = "dnsmasq")
    BY <1>2, Where DEF WriteConf
  <2>2. pos[i] # 0 /\ \E n \in 0..24 : Moves(i, n)
    BY <1>2, <2>1, AdvanceMoves DEF WriteConf
  <2>3. NetEffect(i)
    BY <1>0, <1>12, <1>2, <2>1 DEF WriteConf, NetEffect
  <2>4. ConfEffect(i)
    BY <1>0, <1>12, <1>2, <2>1 DEF WriteConf, ConfEffect, Written
  <2>5. RulesEffect(i)
    BY <1>0, <1>12, <1>2, <2>1 DEF WriteConf, RulesEffect
  <2>6. HostapdEffect(i)
    BY <1>0, <1>12, <1>2, <2>1 DEF WriteConf, HostapdEffect
  <2>7. DnsmasqEffect(i)
    BY <1>0, <1>12, <1>2, <2>1 DEF WriteConf, DnsmasqEffect
  <2>8. OtherEffect(i)
    BY <1>0, <1>12, <1>2, <2>1 DEF WriteConf, OtherEffect
  <2> QED
    BY <2>2, <2>3, <2>4, <2>5, <2>6, <2>7, <2>8 DEF Effect
<1>3. CASE killall(i)
  <2>1. (pos[i] \in {1, 5} /\ Of(i) = "dnsmasq") \/ (pos[i] = 2 /\ Of(i) = "udhcpc")
    BY <1>3, Where DEF killall
  <2>2. pos[i] # 0 /\ \E n \in 0..24 : Moves(i, n)
    BY <1>3, <2>1, AdvanceMoves DEF killall
  <2>3. NetEffect(i)
    BY <1>0, <1>12, <1>3, <2>1 DEF killall, NetEffect, Signal
  <2>4. ConfEffect(i)
    BY <1>0, <1>12, <1>3, <2>1 DEF killall, ConfEffect, Signal, Written
  <2>5. RulesEffect(i)
    BY <1>0, <1>12, <1>3, <2>1 DEF killall, RulesEffect, Signal
  <2>6. HostapdEffect(i)
    BY <1>0, <1>12, <1>3, <2>1 DEF killall, HostapdEffect, Signal
  <2>7. DnsmasqEffect(i)
    BY <1>0, <1>12, <1>3, <2>1 DEF killall, DnsmasqEffect, Signal
  <2>8. OtherEffect(i)
    BY <1>0, <1>12, <1>3, <2>1 DEF killall, OtherEffect, Signal
  <2> QED
    BY <2>2, <2>3, <2>4, <2>5, <2>6, <2>7, <2>8 DEF Effect
<1>4. CASE get_pid(i)
  <2>1. pos[i] = 11 /\ Of(i) = "dnsmasq"
    BY <1>4, Where DEF get_pid
  <2>2. pos[i] # 0 /\ \E n \in 0..24 : Moves(i, n)
    BY <1>4, <2>1, AdvanceMoves DEF get_pid
  <2>3. NetEffect(i)
    BY <1>0, <1>12, <1>4, <2>1 DEF get_pid, NetEffect
  <2>4. ConfEffect(i)
    BY <1>0, <1>12, <1>4, <2>1 DEF get_pid, ConfEffect, Written
  <2>5. RulesEffect(i)
    BY <1>0, <1>12, <1>4, <2>1 DEF get_pid, RulesEffect
  <2>6. HostapdEffect(i)
    BY <1>0, <1>12, <1>4, <2>1 DEF get_pid, HostapdEffect
  <2>7. DnsmasqEffect(i)
    BY <1>0, <1>12, <1>4, <2>1 DEF get_pid, DnsmasqEffect
  <2>8. OtherEffect(i)
    BY <1>0, <1>12, <1>4, <2>1 DEF get_pid, OtherEffect
  <2> QED
    BY <2>2, <2>3, <2>4, <2>5, <2>6, <2>7, <2>8 DEF Effect
<1>5. CASE KillPid(i)
  <2>1. pos[i] = 12 /\ Of(i) = "dnsmasq"
    BY <1>5, Where DEF KillPid
  <2>2. pos[i] # 0 /\ \E n \in 0..24 : Moves(i, n)
    BY <1>5, <2>1, AdvanceMoves DEF KillPid
  <2>3. NetEffect(i)
    BY <1>0, <1>12, <1>5, <2>1 DEF KillPid, NetEffect, Signal
  <2>4. ConfEffect(i)
    BY <1>0, <1>12, <1>5, <2>1 DEF KillPid, ConfEffect, Signal, Written
  <2>5. RulesEffect(i)
    BY <1>0, <1>12, <1>5, <2>1 DEF KillPid, RulesEffect, Signal
  <2>6. HostapdEffect(i)
    BY <1>0, <1>12, <1>5, <2>1 DEF KillPid, HostapdEffect, Signal
  <2>7. DnsmasqEffect(i)
    BY <1>0, <1>12, <1>5, <2>1 DEF KillPid, DnsmasqEffect, Signal
  <2>8. OtherEffect(i)
    BY <1>0, <1>12, <1>5, <2>1 DEF KillPid, OtherEffect, Signal
  <2> QED
    BY <2>2, <2>3, <2>4, <2>5, <2>6, <2>7, <2>8 DEF Effect
<1>6. CASE StartDaemon(i)
  <2>1. \/ pos[i] = 13 /\ Script[program][pos[i]][1] = "dnsmasq"
        \/ pos[i] = 14 /\ Script[program][pos[i]][1] = "hostapd"
    BY <1>6, Where DEF StartDaemon
  <2>2. pos[i] # 0 /\ \E n \in 0..24 : Moves(i, n)
    BY <1>6, <2>1, AdvanceMoves DEF StartDaemon
  <2>3. NetEffect(i)
    BY <1>0, <1>12, <1>6, <2>1 DEF StartDaemon, NetEffect
  <2>4. ConfEffect(i)
    BY <1>0, <1>12, <1>6, <2>1 DEF StartDaemon, ConfEffect, Written
  <2>5. RulesEffect(i)
    BY <1>0, <1>12, <1>6, <2>1 DEF StartDaemon, RulesEffect
  <2>6. HostapdEffect(i)
    BY <1>0, <1>12, <1>6, <2>1 DEF StartDaemon, HostapdEffect
  <2>7. DnsmasqEffect(i)
    BY <1>0, <1>12, <1>6, <2>1 DEF StartDaemon, DnsmasqEffect
  <2>8. OtherEffect(i)
    <3>1. disturbed' = (disturbed \/ proc[Script[program][pos[i]][1]] = "dying")
      BY <1>6 DEF StartDaemon
    <3>2. ~disturbed' => ~disturbed /\ (pos[i] = 13 => proc["dnsmasq"] # "dying")
      <4> DEFINE was  == disturbed
                 dies == proc[Script[program][pos[i]][1]] = "dying"
      <4>1. was \in BOOLEAN /\ dies \in BOOLEAN /\ disturbed' = (was \/ dies)
        BY <3>1 DEF TypeOK
      <4>2. pos[i] = 13 => dies = (proc["dnsmasq"] = "dying")
        BY <2>1
      <4> HIDE DEF was, dies
      <4>3. ~disturbed' => ~was /\ ~dies
        BY <4>1
      <4>4. pos[i] = 13 /\ ~dies => proc["dnsmasq"] # "dying"
        BY <4>2, Zenon
      <4> QED
        BY <4>3, <4>4 DEF was
    <3>3. UNCHANGED <<program, serving, shared, starts, faults, kills, cuts>>
      BY <1>6 DEF StartDaemon
    <3> QED
      BY <2>1, <3>2, <3>3 DEF OtherEffect
  <2> QED
    BY <2>2, <2>3, <2>4, <2>5, <2>6, <2>7, <2>8 DEF Effect
<1>7. CASE ifconfig(i)
  <2>1. pos[i] \in {6, 7, 8, 15, 16} /\ (pos[i] = 7 => At(i, "address"))
    BY <1>7, Where DEF ifconfig
  <2>2. pos[i] # 0 /\ \E n \in 0..24 : Moves(i, n)
    BY <1>7, <2>1, AdvanceMoves DEF ifconfig
  <2>3. NetEffect(i)
    BY <1>0, <1>12, <1>7, <2>1 DEF ifconfig, NetEffect
  <2>4. ConfEffect(i)
    BY <1>0, <1>12, <1>7, <2>1 DEF ifconfig, ConfEffect, Written
  <2>5. RulesEffect(i)
    BY <1>0, <1>12, <1>7, <2>1 DEF ifconfig, RulesEffect
  <2>6. HostapdEffect(i)
    BY <1>0, <1>12, <1>7, <2>1 DEF ifconfig, HostapdEffect
  <2>7. DnsmasqEffect(i)
    BY <1>0, <1>12, <1>7, <2>1 DEF ifconfig, DnsmasqEffect
  <2>8. OtherEffect(i)
    BY <1>0, <1>12, <1>7, <2>1 DEF ifconfig, OtherEffect
  <2> QED
    BY <2>2, <2>3, <2>4, <2>5, <2>6, <2>7, <2>8 DEF Effect
<1>8. CASE Forward(i)
  <2>1. pos[i] = 17
    BY <1>8, Where DEF Forward
  <2>2. pos[i] # 0 /\ \E n \in 0..24 : Moves(i, n)
    BY <1>8, <2>1, AdvanceMoves DEF Forward
  <2>3. NetEffect(i)
    BY <1>0, <1>12, <1>8, <2>1 DEF Forward, NetEffect
  <2>4. ConfEffect(i)
    BY <1>0, <1>12, <1>8, <2>1 DEF Forward, ConfEffect, Written
  <2>5. RulesEffect(i)
    BY <1>0, <1>12, <1>8, <2>1 DEF Forward, RulesEffect
  <2>6. HostapdEffect(i)
    BY <1>0, <1>12, <1>8, <2>1 DEF Forward, HostapdEffect
  <2>7. DnsmasqEffect(i)
    BY <1>0, <1>12, <1>8, <2>1 DEF Forward, DnsmasqEffect
  <2>8. OtherEffect(i)
    BY <1>0, <1>12, <1>8, <2>1 DEF Forward, OtherEffect
  <2> QED
    BY <2>2, <2>3, <2>4, <2>5, <2>6, <2>7, <2>8 DEF Effect
<1>9. CASE iptables(i) /\ At(i, "flush")
  <2>1. (pos[i] = 18 /\ Of(i) = "filter") \/ (pos[i] = 19 /\ Of(i) = "nat")
    BY <1>9, Where
  <2>2. pos[i] # 0 /\ \E n \in 0..24 : Moves(i, n)
    BY <1>9, <2>1, AdvanceMoves DEF iptables
  <2>3. \A r \in Rules : rules'[r] = IF Table(r) = Of(i) THEN 0 ELSE rules[r]
    BY <1>9 DEF iptables, At
  <2>4. \A r \in Rules : Table(r) \in {"filter", "nat"}
    BY DEF Rules, Table
  <2>5. \A r \in Rules : Table(r) = Of(i) <=> pos[i] = FlushAt(r)
    BY <2>1, <2>4 DEF FlushAt
  <2>6. RulesEffect(i)
    BY <1>0, <2>1, <2>3, <2>5 DEF RulesEffect
  <2>7. NetEffect(i) /\ ConfEffect(i) /\ HostapdEffect(i) /\ DnsmasqEffect(i) /\ OtherEffect(i)
    BY <1>9, <2>1 DEF iptables, NetEffect, ConfEffect, Written, HostapdEffect,
                      DnsmasqEffect, OtherEffect
  <2> QED
    BY <2>2, <2>6, <2>7 DEF Effect
<1>10. CASE iptables(i) /\ At(i, "rule")
  <2>1. Of(i) \in Rules /\ pos[i] = RuleAt(Of(i))
    BY <1>10, Where
  <2>2. pos[i] \in {20, 21, 22, 23}
    BY <1>0, <2>1
  <2>3. pos[i] # 0 /\ \E n \in 0..24 : Moves(i, n)
    BY <1>10, <2>2, AdvanceMoves DEF iptables
  <2>4. rules' = [rules EXCEPT ![Of(i)] = @ + 1]
    BY <1>10 DEF iptables, At
  <2>5. \A r \in Rules : RuleAt(r) = RuleAt(Of(i)) <=> r = Of(i)
    BY <2>1 DEF Rules, RuleAt
  <2>6. RulesEffect(i)
    BY <1>0, <2>1, <2>2, <2>4, <2>5 DEF TypeOK, RulesEffect
  <2>7. NetEffect(i) /\ ConfEffect(i) /\ HostapdEffect(i) /\ DnsmasqEffect(i) /\ OtherEffect(i)
    BY <1>10, <2>2 DEF iptables, NetEffect, ConfEffect, Written, HostapdEffect,
                       DnsmasqEffect, OtherEffect
  <2> QED
    BY <2>3, <2>6, <2>7 DEF Effect
<1>11. CASE StartServer(i)
  <2>1. pos[i] = 24
    BY <1>11, Where DEF StartServer
  <2>2. \E n \in 0..24 : Moves(i, n)
    <3>1. CASE Advance(i)
      BY <2>1, <3>1, AdvanceMoves
    <3>2. CASE UNCHANGED pos
      <4>1. pos' = [pos EXCEPT ![i] = 24]
        BY <2>1, <3>2 DEF TypeOK
      <4> QED
        BY <2>1, <4>1 DEF Moves
    <3> QED
      BY <1>11, <3>1, <3>2 DEF StartServer
  <2>3. NetEffect(i) /\ ConfEffect(i) /\ HostapdEffect(i) /\ DnsmasqEffect(i)
    BY <1>11, <2>1 DEF StartServer, NetEffect, ConfEffect, Written, HostapdEffect, DnsmasqEffect
  <2>4. OtherEffect(i)
    BY <1>11, <2>1 DEF StartServer, OtherEffect
  <2>5. RulesEffect(i)
    BY <1>0, <1>11, <2>1 DEF StartServer, RulesEffect
  <2> QED
    BY <2>1, <2>2, <2>3, <2>4, <2>5 DEF Effect
<1> QED
  BY <1>1, <1>2, <1>3, <1>4, <1>5, <1>6, <1>7, <1>8, <1>9, <1>10, <1>11 DEF Step, iptables

-----------------------------------------------------------------------------
(* Who has yet to get past a command.                                      *)

\* Somebody has yet to get past c, unless the step was c itself.
LEMMA BeforeKept ==
  ASSUME TypeOK, NEW i \in Instances, NEW n \in 0..24, Moves(i, n),
         NEW c \in 1..23, Before(c), pos[i] # c
  PROVE  Before(c)'
<1>1. PICK j \in Instances : pos[j] \in 1..c
  BY DEF Before
<1>2. pos' = [pos EXCEPT ![i] = n] /\ DOMAIN pos = Instances
  BY DEF Moves, TypeOK
<1>3. CASE j # i
  BY <1>1, <1>2, <1>3 DEF Before
<1>4. CASE j = i
  <2> DEFINE k == pos[i]
  <2>1. k \in 1..c /\ k # c /\ ((k \in 1..22 /\ n = k + 1) \/ k \in 23..24)
    BY <1>1, <1>4 DEF Moves
  <2> HIDE DEF k
  <2>2. n \in 1..c
    BY <2>1
  <2>3. pos'[i] = n
    BY <1>2
  <2> QED
    BY <2>2, <2>3 DEF Before
<1> QED
  BY <1>3, <1>4

\* An instance that came to c or to a command before it has yet to get past c.
LEMMA BeforeOwn ==
  ASSUME TypeOK, NEW i \in Instances, NEW n \in 0..24, Moves(i, n),
         NEW c \in 1..23, n \in 1..c
  PROVE  Before(c)'
  BY DEF TypeOK, Moves, Before

\* Who is before a command is before all that follow.
LEMMA BeforeLater ==
  ASSUME NEW b \in 1..23, NEW c \in 1..23, b <= c
  PROVE  /\ Before(b) => Before(c)
         /\ Before(b)' => Before(c)'
<1>1. \A k : k \in 1..b => k \in 1..c
  OBVIOUS
<1> QED
  BY <1>1 DEF Before

\* The places of flushes and rules.
LEMMA Places ==
  /\ \A r \in Rules : FlushAt(r) \in {18, 19} /\ RuleAt(r) \in {20, 21, 22, 23}
  /\ Daemons = {"dnsmasq", "hostapd"}
  BY DEF Rules, FlushAt, RuleAt, Table, Daemons

-----------------------------------------------------------------------------
(* A step of a program keeps each part of the invariant.                   *)

\* Written before hostapd is started, and only one server at its place.
LEMMA StepKeepsServeHostapd ==
  ASSUME TypeOK, ServeInv, HostapdInv, NEW i \in Instances, pos[i] # 0, Effect(i)
  PROVE  ServeInv' /\ HostapdInv'
<1>1. PICK n \in 0..24 : Moves(i, n)
  BY DEF Effect
<1>2. pos' = [pos EXCEPT ![i] = n] /\ DOMAIN pos = Instances
  BY <1>1 DEF Moves, TypeOK
<1>3. ServeInv'
  <2> SUFFICES ASSUME NEW j \in serving'
               PROVE  pos'[j] = 24
    BY DEF ServeInv
  <2>1. CASE j \in serving
    <3>1. pos[j] = 24 /\ j # i /\ j \in Instances
      BY <2>1 DEF ServeInv, Effect, OtherEffect, TypeOK
    <3> QED
      BY <1>2, <3>1
  <2>2. CASE j = i /\ pos[i] = 24 /\ pos' = pos
    BY <2>2
  <2> QED
    BY <2>1, <2>2 DEF Effect, OtherEffect
<1>4. HostapdInv'
  <2>1. proc'["hostapd"] # "dying"
    BY DEF HostapdInv, Effect, HostapdEffect
  <2>2. ASSUME faults' = 0, NEW j \in Instances, pos'[j] > 3
        PROVE  conf'["hostapd"] \in {"torn", "made"}
    <3>1. CASE pos[i] \in {3, 4}
      BY <3>1 DEF Effect, ConfEffect, Written
    <3>2. CASE pos[i] \notin {3, 4}
      <4> DEFINE k == pos[i]
      <4>1. j = i => n > 3
        BY <1>2, <2>2
      <4>2. j = i => k > 3
        <5>1. k \notin {3, 4} /\ ((k \in 1..22 /\ n = k + 1) \/ k \in 23..24)
          BY <1>1, <3>2 DEF Moves
        <5> HIDE DEF k
        <5> QED
          BY <4>1, <5>1
      <4>3. j # i => pos[j] > 3
        BY <1>2, <2>2
      <4>4. faults = 0 /\ conf'["hostapd"] = conf["hostapd"]
        BY <2>2, <3>2 DEF Effect, ConfEffect, Written, OtherEffect
      <4> QED
        BY <4>2, <4>3, <4>4 DEF HostapdInv
    <3> QED
      BY <3>1, <3>2
  <2>3. faults' = 0 /\ proc'["hostapd"] = "runs" => using'["hostapd"] = "made"
    <3>1. faults' = faults
      BY DEF Effect, OtherEffect
    <3>2. CASE pos[i] = 14
      <4>1. faults = 0 => conf["hostapd"] \in {"torn", "made"}
        BY <3>2 DEF HostapdInv
      <4> QED
        BY <3>1, <3>2, <4>1 DEF HostapdInv, Effect, HostapdEffect
    <3>3. CASE pos[i] # 14
      BY <3>1, <3>3 DEF HostapdInv, Effect, HostapdEffect
    <3> QED
      BY <3>2, <3>3
  <2> QED
    BY <2>1, <2>2, <2>3 DEF HostapdInv
<1> QED
  BY <1>3, <1>4

\* The start of dnsmasq is the hard one: an old one may still run, or the file
\* may have been emptied by another instance.
LEMMA StepKeepsDone ==
  ASSUME TypeOK, DoneInv, StaleInv, HostapdInv, NEW i \in Instances, pos[i] # 0, Effect(i)
  PROVE  DoneInv'
<1> SUFFICES ASSUME ~disturbed'
             PROVE  /\ ~udhcpc' \/ Before(2)'
                    /\ conf'["hostapd"] = "made" \/ Before(4)'
                    /\ address' # {} \/ Before(7)'
                    /\ conf'["dnsmasq"] = "made" \/ Before(10)'
                    /\ (proc'["dnsmasq"] = "runs" /\ using'["dnsmasq"] = "made") \/ Before(13)'
                    /\ proc'["hostapd"] = "runs" \/ Before(14)'
                    /\ ip_forward' \/ Before(17)'
                    /\ \A r \in Rules : rules'[r] > 0 \/ Before(RuleAt(r))'
  BY DEF DoneInv
<1>1. PICK n \in 0..24 : Moves(i, n)
  BY DEF Effect
<1>2. Active /\ ~disturbed
  BY DEF Active, Effect, OtherEffect
<1>3. /\ ~udhcpc \/ Before(2)
      /\ conf["hostapd"] = "made" \/ Before(4)
      /\ address # {} \/ Before(7)
      /\ conf["dnsmasq"] = "made" \/ Before(10)
      /\ (proc["dnsmasq"] = "runs" /\ using["dnsmasq"] = "made") \/ Before(13)
      /\ proc["hostapd"] = "runs" \/ Before(14)
      /\ ip_forward \/ Before(17)
      /\ \A r \in Rules : rules[r] > 0 \/ Before(RuleAt(r))
  BY <1>2 DEF DoneInv
<1>4. \A c \in 1..23 : Before(c) /\ pos[i] # c => Before(c)'
  BY <1>1, BeforeKept
<1>5. \A c \in 1..23 : n \in 1..c => Before(c)'
  BY <1>1, BeforeOwn
<1>6. pos[i] \in 1..22 => n = pos[i] + 1
  BY <1>1 DEF Moves
<1>7. ~udhcpc' \/ Before(2)'
  BY <1>3, <1>4 DEF Effect, NetEffect
<1>8. conf'["hostapd"] = "made" \/ Before(4)'
  <2>1. CASE pos[i] = 3
    BY <2>1, <1>5, <1>6
  <2>2. CASE pos[i] = 4
    BY <2>2 DEF Effect, ConfEffect, Written
  <2>3. CASE pos[i] \notin {3, 4}
    BY <2>3, <1>3, <1>4 DEF Effect, ConfEffect, Written
  <2> QED
    BY <2>1, <2>2, <2>3
<1>9. address' # {} \/ Before(7)'
  BY <1>3, <1>4 DEF Effect, NetEffect
<1>10. conf'["dnsmasq"] = "made" \/ Before(10)'
  <2>1. CASE pos[i] = 9
    BY <2>1, <1>5, <1>6
  <2>2. CASE pos[i] = 10
    BY <2>2 DEF Effect, ConfEffect, Written
  <2>3. CASE pos[i] \notin {9, 10}
    BY <2>3, <1>3, <1>4 DEF Effect, ConfEffect, Written
  <2> QED
    BY <2>1, <2>2, <2>3
<1>11. (proc'["dnsmasq"] = "runs" /\ using'["dnsmasq"] = "made") \/ Before(13)'
  <2>1. CASE pos[i] \in {1, 5, 12}
    BY <2>1, <1>5, <1>6
  <2>2. CASE pos[i] = 13
    <3> SUFFICES ASSUME ~Before(13)'
                 PROVE  proc'["dnsmasq"] = "runs" /\ using'["dnsmasq"] = "made"
      OBVIOUS
    <3>1. ~Before(10) /\ ~Before(11)
      <4>1. Before(10)' => Before(13)'
        BY BeforeLater
      <4>2. Before(11)' => Before(13)'
        BY BeforeLater
      <4> QED
        BY <2>2, <1>4, <4>1, <4>2
    <3>2. ~\E j \in Instances : pos[j] = 12 /\ pid[j] = "dnsmasq"
      <4> SUFFICES ASSUME NEW j \in Instances, pos[j] = 12
                   PROVE  FALSE
        OBVIOUS
      <4>1. pos'[j] = 12
        BY <1>1, <2>2 DEF Moves, TypeOK
      <4> QED
        BY <4>1 DEF Before
    <3>3. proc["dnsmasq"] \in {"none", "runs"}
      BY <2>2, Places DEF TypeOK, Effect, OtherEffect
    <3>4. CASE proc["dnsmasq"] = "none"
      <4>1. conf["dnsmasq"] = "made"
        BY <1>3, <3>1
      <4> QED
        BY <2>2, <3>4, <4>1 DEF Effect, DnsmasqEffect
    <3>5. CASE proc["dnsmasq"] = "runs"
      <4>1. using["dnsmasq"] = "made"
        BY <1>2, <3>1, <3>2, <3>5 DEF StaleInv
      <4> QED
        BY <2>2, <3>5, <4>1 DEF Effect, DnsmasqEffect
    <3> QED
      BY <3>3, <3>4, <3>5
  <2>3. CASE pos[i] \notin {1, 5, 12, 13}
    BY <2>3, <1>3, <1>4 DEF Effect, DnsmasqEffect
  <2> QED
    BY <2>1, <2>2, <2>3
<1>12. proc'["hostapd"] = "runs" \/ Before(14)'
  <2>1. CASE pos[i] = 14
    <3>1. CASE Before(4)
      <4>1. Before(4)'
        BY <2>1, <3>1, <1>4
      <4> QED
        BY <4>1, BeforeLater
    <3>2. CASE ~Before(4)
      <4>1. conf["hostapd"] = "made" /\ proc["hostapd"] \in {"none", "runs"}
        BY <3>2, <1>3, Places DEF TypeOK, HostapdInv
      <4> QED
        BY <2>1, <4>1 DEF Effect, HostapdEffect
    <3> QED
      BY <3>1, <3>2
  <2>2. CASE pos[i] # 14
    BY <2>2, <1>3, <1>4 DEF Effect, HostapdEffect
  <2> QED
    BY <2>1, <2>2
<1>13. ip_forward' \/ Before(17)'
  BY <1>3, <1>4 DEF Effect, NetEffect
<1>14. ASSUME NEW r \in Rules
       PROVE  rules'[r] > 0 \/ Before(RuleAt(r))'
  <2>1. FlushAt(r) \in {18, 19} /\ RuleAt(r) \in {20, 21, 22, 23} /\ rules[r] \in Nat
    BY Places DEF TypeOK
  <2>2. rules'[r] = IF pos[i] = FlushAt(r) THEN 0
                    ELSE IF pos[i] = RuleAt(r) THEN rules[r] + 1 ELSE rules[r]
    BY DEF Effect, RulesEffect
  <2> DEFINE c == RuleAt(r)
  <2>3. c \in 1..23
    BY <2>1
  <2>4. /\ rules[r] > 0 \/ Before(c)
        /\ Before(c) /\ pos[i] # c => Before(c)'
        /\ n \in 1..c => Before(c)'
    BY <2>3, <1>3, <1>4, <1>5
  <2>5. CASE pos[i] = FlushAt(r)
    <3>1. n \in 1..c
      BY <2>1, <2>5, <1>6
    <3> QED
      BY <2>4, <3>1
  <2>6. CASE pos[i] = c
    BY <2>1, <2>2, <2>6
  <2>7. CASE pos[i] # FlushAt(r) /\ pos[i] # c
    BY <2>2, <2>4, <2>7
  <2> QED
    BY <2>5, <2>6, <2>7
<1> QED
  BY <1>7, <1>8, <1>9, <1>10, <1>11, <1>12, <1>13, <1>14

\* The pid that is read at 11 is that of the dnsmasq that runs.
LEMMA StepKeepsStale ==
  ASSUME TypeOK, DoneInv, StaleInv, NEW i \in Instances, pos[i] # 0, Effect(i)
  PROVE  StaleInv'
<1> SUFFICES ASSUME ~disturbed', proc'["dnsmasq"] = "runs", using'["dnsmasq"] # "made"
             PROVE  Before(11)' \/ \E j \in Instances : pos'[j] = 12 /\ pid'[j] = "dnsmasq"
  BY DEF StaleInv
<1>1. PICK n \in 0..24 : Moves(i, n)
  BY DEF Effect
<1>2. Active /\ ~disturbed
  BY DEF Active, Effect, OtherEffect
<1>3. pos' = [pos EXCEPT ![i] = n] /\ DOMAIN pos = Instances
  BY <1>1 DEF Moves, TypeOK
<1>4. CASE pos[i] = 13 /\ proc["dnsmasq"] = "none"
  <2>1. using'["dnsmasq"] = conf["dnsmasq"]
    BY <1>4 DEF Effect, DnsmasqEffect
  <2>2. Before(10)
    BY <1>2, <2>1 DEF DoneInv
  <2>3. Before(10)'
    BY <1>1, <1>4, <2>2, BeforeKept
  <2> QED
    BY <2>3, BeforeLater
<1>5. CASE ~(pos[i] = 13 /\ proc["dnsmasq"] = "none")
  <2>1. /\ proc["dnsmasq"] = "runs" /\ using["dnsmasq"] # "made"
        /\ ~(pos[i] = 12 /\ pid[i] = "dnsmasq")
    BY <1>5 DEF Effect, DnsmasqEffect
  <2>2. Before(11) \/ \E j \in Instances : pos[j] = 12 /\ pid[j] = "dnsmasq"
    BY <1>2, <2>1 DEF StaleInv
  <2>3. CASE Before(11) /\ pos[i] # 11
    BY <1>1, <2>3, BeforeKept
  <2>4. CASE pos[i] = 11
    <3>1. pid'[i] = "dnsmasq"
      BY <2>1, <2>4 DEF Effect, DnsmasqEffect
    <3>2. pos'[i] = 12
      BY <1>1, <1>3, <2>4 DEF Moves
    <3> QED
      BY <3>1, <3>2
  <2>5. ASSUME NEW j \in Instances, pos[j] = 12, pid[j] = "dnsmasq"
        PROVE  \E k \in Instances : pos'[k] = 12 /\ pid'[k] = "dnsmasq"
    <3>1. j # i
      BY <2>1, <2>5
    <3>2. pos'[j] = 12 /\ pid'[j] = "dnsmasq"
      BY <1>3, <2>5, <3>1 DEF Effect, DnsmasqEffect
    <3> QED
      BY <3>2
  <2> QED
    BY <2>2, <2>3, <2>4, <2>5
<1> QED
  BY <1>4, <1>5

\* Flushed at 18 or 19, appended once from 20 to 23.
LEMMA StepKeepsRules ==
  ASSUME TypeOK, RulesInv, NEW i \in Instances, pos[i] # 0, Effect(i)
  PROVE  RulesInv'
<1> SUFFICES ASSUME ~shared'
             PROVE  /\ \A j, k \in Instances : pos'[j] # 0 /\ pos'[k] # 0 => j = k
                    /\ ~disturbed' => \A r \in Rules :
                         /\ rules'[r] <= 1 \/ Before(FlushAt(r))'
                         /\ (\E j \in Instances : pos'[j] \in FlushAt(r) + 1..RuleAt(r)) => rules'[r] = 0
  BY DEF RulesInv
<1>1. PICK n \in 0..24 : Moves(i, n)
  BY DEF Effect
<1>2. pos' = [pos EXCEPT ![i] = n] /\ DOMAIN pos = Instances
  BY <1>1 DEF Moves, TypeOK
<1>3. ~shared
  BY DEF Effect, OtherEffect
<1>4. \A j \in Instances : pos'[j] # 0 => j = i
  BY <1>2, <1>3 DEF RulesInv
<1>5. ASSUME ~disturbed', NEW r \in Rules
      PROVE  /\ rules'[r] <= 1 \/ Before(FlushAt(r))'
             /\ (\E j \in Instances : pos'[j] \in FlushAt(r) + 1..RuleAt(r)) => rules'[r] = 0
  <2> DEFINE f == FlushAt(r)
             c == RuleAt(r)
             k == pos[i]
  <2>1. f \in {18, 19} /\ c \in {20, 21, 22, 23} /\ rules[r] \in Nat
    BY Places DEF TypeOK
  <2>2. rules'[r] = IF k = f THEN 0 ELSE IF k = c THEN rules[r] + 1 ELSE rules[r]
    BY DEF Effect, RulesEffect
  <2>3. ~disturbed
    BY <1>5 DEF Effect, OtherEffect
  <2>4. rules[r] <= 1 \/ Before(f)
    BY <1>3, <2>3 DEF RulesInv
  <2>5. k \in f + 1..c => rules[r] = 0
    BY <1>3, <2>3 DEF RulesInv
  <2>6. Before(f) /\ k # f => Before(f)'
    <3>1. f \in 1..23
      BY <2>1
    <3> QED
      BY <1>1, <3>1, BeforeKept
  <2>7. (k \in 1..22 /\ n = k + 1) \/ (k \in 23..24 /\ n \in {0, 24})
    BY <1>1 DEF Moves
  <2>8. pos'[i] = n
    BY <1>2
  <2> HIDE DEF f, c, k
  <2>9. rules'[r] <= 1 \/ Before(f)'
    <3>1. CASE k = f
      BY <2>2, <3>1
    <3>2. CASE k = c
      BY <2>1, <2>2, <2>5, <3>2
    <3>3. CASE k # f /\ k # c
      BY <2>2, <2>4, <2>6, <3>3
    <3> QED
      BY <3>1, <3>2, <3>3
  <2>10. ASSUME NEW j \in Instances, pos'[j] \in f + 1..c
         PROVE  rules'[r] = 0
    <3>1. j = i
      BY <1>4, <2>1, <2>10
    <3>2. n \in f + 1..c
      BY <2>8, <2>10, <3>1
    <3>3. k = f \/ (k \in f + 1..c /\ k # c)
      BY <2>1, <2>7, <3>2
    <3> QED
      BY <2>1, <2>2, <2>5, <3>3
  <2> QED
    BY <2>9, <2>10 DEF f, c
<1> QED
  BY <1>4, <1>5

-----------------------------------------------------------------------------
(* So do the other actions.                                                *)

\* Everything is before an instance that has just been started.
LEMMA StartKeeps ==
  ASSUME TypeOK, SafeInv, NEW i \in Instances, Start(i)
  PROVE  SafeInv'
<1> USE DEF boardVars
<1>1. /\ pos[i] = 0 /\ pos' = [pos EXCEPT ![i] = 1] /\ DOMAIN pos = Instances
      /\ \A j \in Instances : j # i => pos'[j] = pos[j]
      /\ pos'[i] = 1
  BY DEF Start, TypeOK
<1>2. \A c \in 1..23 : Before(c)'
  BY <1>1 DEF Before
<1>3. ServeInv'
  BY <1>1 DEF Start, SafeInv, ServeInv, TypeOK
<1>4. HostapdInv'
  BY <1>1 DEF Start, SafeInv, HostapdInv
<1>5. DoneInv'
  <2>1. \A r \in Rules : Before(RuleAt(r))'
    <3>1. \A r \in Rules : RuleAt(r) \in 1..23
      BY Places
    <3> QED
      BY <1>2, <3>1
  <2> QED
    BY <1>2, <2>1 DEF DoneInv
<1>6. StaleInv'
  BY <1>2 DEF StaleInv
<1>7. RulesInv'
  <2>1. CASE \A j \in Instances : pos[j] = 0
    <3>1. \A j \in Instances : pos'[j] # 0 => j = i /\ pos'[j] = 1
      BY <1>1, <2>1
    <3>2. ASSUME NEW r \in Rules
          PROVE  /\ Before(FlushAt(r))'
                 /\ ~\E j \in Instances : pos'[j] \in FlushAt(r) + 1..RuleAt(r)
      <4> DEFINE f == FlushAt(r)
                 c == RuleAt(r)
      <4>1. f \in {18, 19} /\ c \in {20, 21, 22, 23}
        BY Places
      <4> HIDE DEF f, c
      <4>2. Before(f)'
        BY <1>2, <4>1
      <4>3. ASSUME NEW j \in Instances, pos'[j] \in f + 1..c
            PROVE  FALSE
        <5>1. pos'[j] = 0 \/ pos'[j] = 1
          BY <3>1
        <5> QED
          BY <4>1, <4>3, <5>1
      <4> QED
        BY <4>2, <4>3 DEF f, c
    <3> QED
      BY <3>1, <3>2 DEF RulesInv
  <2>2. CASE ~\A j \in Instances : pos[j] = 0
    BY <2>2 DEF Start, RulesInv
  <2> QED
    BY <2>1, <2>2
<1> QED
  BY <1>3, <1>4, <1>5, <1>6, <1>7 DEF SafeInv

\* A server is past all commands.
LEMMA ServerEndsKeeps ==
  ASSUME TypeOK, SafeInv, NEW i \in Instances, ServerEnds(i)
  PROVE  SafeInv'
<1> USE DEF history, bounds
<1>1. pos[i] = 24 /\ \A j \in serving : j \in Instances /\ pos[j] = 24
  BY DEF ServerEnds, SafeInv, ServeInv, TypeOK
<1>2. PICK n \in 0..24 : Moves(i, n)
  BY <1>1, AdvanceMoves DEF ServerEnds
<1>3. pos' = [pos EXCEPT ![i] = n] /\ DOMAIN pos = Instances /\ n \in {0, 24}
  BY <1>1, <1>2 DEF Moves, TypeOK
<1>4. /\ \A j \in Instances : j # i => pos'[j] = pos[j]
      /\ pos'[i] = n
  BY <1>3
<1>5. \A c \in 1..23 : Before(c) => Before(c)'
  BY <1>1, <1>2, BeforeKept
<1>6. Active
  BY <1>1 DEF Active
<1>7. ServeInv'
  BY <1>1, <1>4 DEF ServerEnds, ServeInv
<1>8. HostapdInv'
  <2>1. \A j \in Instances : pos'[j] > 3 => pos[j] > 3
    BY <1>1, <1>4
  <2> QED
    BY <2>1 DEF ServerEnds, SafeInv, HostapdInv
<1>9. DoneInv'
  <2> SUFFICES ASSUME ~disturbed'
               PROVE  DoneInv'
    BY DEF DoneInv
  <2>1. \A r \in Rules : Before(RuleAt(r)) => Before(RuleAt(r))'
    <3>1. \A r \in Rules : RuleAt(r) \in 1..23
      BY Places
    <3> QED
      BY <1>5, <3>1
  <2>2. \A r \in Rules : rules[r] > 0 \/ Before(RuleAt(r))
    BY <1>6 DEF ServerEnds, SafeInv, DoneInv
  <2>3. \A r \in Rules : rules'[r] > 0 \/ Before(RuleAt(r))'
    BY <2>1, <2>2 DEF ServerEnds
  <2> QED
    BY <1>5, <1>6, <2>3 DEF ServerEnds, SafeInv, DoneInv
<1>10. StaleInv'
  <2>1. \A j \in Instances : pos[j] = 12 => pos'[j] = 12
    BY <1>1, <1>4
  <2> QED
    BY <1>5, <1>6, <2>1 DEF ServerEnds, SafeInv, StaleInv
<1>11. RulesInv'
  <2> SUFFICES ASSUME ~shared'
               PROVE  /\ \A j, k \in Instances : pos'[j] # 0 /\ pos'[k] # 0 => j = k
                      /\ ~disturbed' => \A r \in Rules :
                           /\ rules'[r] <= 1 \/ Before(FlushAt(r))'
                           /\ (\E j \in Instances : pos'[j] \in FlushAt(r) + 1..RuleAt(r)) => rules'[r] = 0
    BY DEF RulesInv
  <2>1. ~shared
    BY DEF ServerEnds
  <2>2. \A j \in Instances : pos'[j] # 0 => pos[j] # 0
    BY <1>1, <1>4
  <2>3. ASSUME ~disturbed', NEW r \in Rules
        PROVE  /\ rules'[r] <= 1 \/ Before(FlushAt(r))'
               /\ (\E j \in Instances : pos'[j] \in FlushAt(r) + 1..RuleAt(r)) => rules'[r] = 0
    <3> DEFINE f == FlushAt(r)
               c == RuleAt(r)
    <3>1. f \in {18, 19} /\ c \in {20, 21, 22, 23}
      BY Places
    <3>2. rules[r] <= 1 \/ Before(f)
      BY <2>1, <2>3 DEF ServerEnds, SafeInv, RulesInv
    <3>3. \A j \in Instances : pos[j] \in f + 1..c => rules[r] = 0
      BY <2>1, <2>3 DEF ServerEnds, SafeInv, RulesInv
    <3> HIDE DEF f, c
    <3>4. Before(f) => Before(f)'
      BY <1>5, <3>1
    <3>5. \A j \in Instances : pos'[j] \in f + 1..c => pos[j] \in f + 1..c
      <4> SUFFICES ASSUME NEW j \in Instances, pos'[j] \in f + 1..c
                   PROVE  j # i
        BY <1>4
      <4>1. n \notin f + 1..c
        BY <1>3, <3>1
      <4> QED
        BY <1>4, <4>1
    <3>6. rules' = rules
      BY DEF ServerEnds
    <3> QED
      BY <3>2, <3>3, <3>4, <3>5, <3>6 DEF f, c
  <2> QED
    BY <2>1, <2>2, <2>3 DEF SafeInv, RulesInv
<1> QED
  BY <1>7, <1>8, <1>9, <1>10, <1>11 DEF SafeInv

\* A failed command sets disturbed and counts a fault.
LEMMA CommandFailsKeeps ==
  ASSUME TypeOK, SafeInv, NEW i \in Instances, CommandFails(i)
  PROVE  SafeInv'
<1> USE DEF boardVars
<1>1. PICK n \in 0..24 : Moves(i, n)
  <2>1. pos[i] > 0 /\ pos[i] \in 0..24
    BY Where DEF CommandFails
  <2>2. pos[i] # 0
    BY <2>1
  <2> QED
    BY <2>2, AdvanceMoves DEF CommandFails
<1>2. /\ \A j \in Instances : j # i => pos'[j] = pos[j]
      /\ pos[i] # 0
  BY <1>1, Where DEF Moves, TypeOK, CommandFails
<1>3. disturbed' /\ faults' # 0
  BY AccessPointAssumption DEF CommandFails, TypeOK
<1>4. ServeInv'
  BY <1>2 DEF CommandFails, SafeInv, ServeInv, TypeOK
<1>5. HostapdInv'
  BY <1>3 DEF CommandFails, SafeInv, HostapdInv
<1>6. DoneInv' /\ StaleInv'
  BY <1>3 DEF DoneInv, StaleInv
<1>7. RulesInv'
  BY <1>2, <1>3 DEF CommandFails, SafeInv, RulesInv
<1> QED
  BY <1>4, <1>5, <1>6, <1>7 DEF SafeInv

\* A stopped program sets disturbed.
LEMMA InterruptKeeps ==
  ASSUME TypeOK, SafeInv, NEW i \in Instances, Interrupt(i)
  PROVE  SafeInv'
<1>1. /\ \A j \in Instances : j # i => pos'[j] = pos[j]
      /\ pos'[i] = 0 /\ pos[i] # 0
  BY DEF Interrupt, TypeOK
<1>2. disturbed'
  BY DEF Interrupt
<1>3. ServeInv'
  BY <1>1 DEF Interrupt, SafeInv, ServeInv, TypeOK
<1>4. HostapdInv'
  BY <1>1 DEF Interrupt, SafeInv, HostapdInv
<1>5. DoneInv' /\ StaleInv'
  BY <1>2 DEF DoneInv, StaleInv
<1>6. RulesInv'
  BY <1>1, <1>2 DEF Interrupt, SafeInv, RulesInv
<1> QED
  BY <1>3, <1>4, <1>5, <1>6 DEF SafeInv

\* Only a dnsmasq can end, and one that is about to is none that runs.
LEMMA ReapKeeps ==
  ASSUME TypeOK, SafeInv, NEW d \in Daemons, Reap(d)
  PROVE  SafeInv'
<1> USE DEF history, bounds
<1>1. d = "dnsmasq"
  BY Places DEF Reap, SafeInv, HostapdInv
<1>2. /\ proc["dnsmasq"] = "dying" /\ proc'["dnsmasq"] = "none"
      /\ proc'["hostapd"] = proc["hostapd"]
  BY <1>1, Places DEF Reap, TypeOK
<1>3. /\ UNCHANGED <<pos, conf, using, udhcpc, address, ip_forward, rules, serving,
                     disturbed, shared, faults>>
      /\ \A c \in 1..23 : Before(c)' <=> Before(c)
      /\ Active' <=> Active
  BY DEF Reap, Before, Active
<1>4. ServeInv' /\ HostapdInv'
  BY <1>2, <1>3 DEF SafeInv, ServeInv, HostapdInv
<1>5. DoneInv'
  <2>1. \A r \in Rules : RuleAt(r)' = RuleAt(r) /\ RuleAt(r) \in 1..23
    BY Places
  <2> QED
    BY <1>2, <1>3, <2>1 DEF SafeInv, DoneInv
<1>6. StaleInv'
  BY <1>2 DEF StaleInv
<1>7. RulesInv'
  <2>1. \A r \in Rules : FlushAt(r) \in 1..23
    BY Places
  <2> QED
    BY <1>3, <2>1 DEF SafeInv, RulesInv
<1> QED
  BY <1>4, <1>5, <1>6, <1>7 DEF SafeInv

\* After a power cut no program runs.
LEMMA PowerCutKeeps ==
  ASSUME TypeOK, SafeInv, PowerCut
  PROVE  SafeInv'
<1>1. PICK boot \in {"none", "runs"} : Booted(boot)
  BY DEF PowerCut
<1>2. \A i \in Instances : pos'[i] = 0
  BY <1>1 DEF Booted
<1>3. proc'["hostapd"] = "none"
  BY <1>1, Places DEF Booted
<1>4. ServeInv' /\ HostapdInv'
  BY <1>1, <1>2, <1>3 DEF Booted, ServeInv, HostapdInv
<1>5. DoneInv' /\ StaleInv'
  BY <1>2 DEF DoneInv, StaleInv, Active
<1>6. RulesInv'
  <2>1. \A r \in Rules : /\ FlushAt(r) \in {18, 19} /\ RuleAt(r) \in {20, 21, 22, 23}
                         /\ rules'[r] = 0
    BY <1>1, Places DEF Booted
  <2> QED
    BY <1>2, <2>1 DEF RulesInv
<1> QED
  BY <1>4, <1>5, <1>6 DEF SafeInv

\* At first no program runs.
LEMMA InitSafe ==
  ASSUME Init
  PROVE  SafeInv
<1>1. \A i \in Instances : pos[i] = 0
  BY DEF Init
<1>2. proc["hostapd"] = "none"
  BY Places DEF Init
<1>3. ServeInv /\ HostapdInv
  BY <1>1, <1>2 DEF Init, ServeInv, HostapdInv
<1>4. DoneInv /\ StaleInv
  BY <1>1 DEF DoneInv, StaleInv, Active
<1>5. RulesInv
  <2>1. \A r \in Rules : /\ FlushAt(r) \in {18, 19} /\ RuleAt(r) \in {20, 21, 22, 23}
                         /\ rules[r] = 0
    BY Places DEF Init
  <2> QED
    BY <1>1, <2>1 DEF RulesInv
<1> QED
  BY <1>3, <1>4, <1>5 DEF SafeInv

\* Nor does a step of something else matter.
LEMMA StutterKeeps ==
  ASSUME SafeInv, UNCHANGED vars
  PROVE  SafeInv'
<1>1. UNCHANGED <<pos, pid, conf, proc, using, udhcpc, address, ip_forward, rules,
                  serving, disturbed, shared, faults>>
  BY DEF vars, instVars, boardVars, history, bounds
<1>2. ServeInv' /\ HostapdInv'
  BY <1>1 DEF SafeInv, ServeInv, HostapdInv
<1>3. DoneInv'
  BY <1>1 DEF SafeInv, DoneInv, Active, Before
<1>4. StaleInv'
  BY <1>1 DEF SafeInv, StaleInv, Active, Before
<1>5. RulesInv'
  BY <1>1 DEF SafeInv, RulesInv, Before
<1> QED
  BY <1>2, <1>3, <1>4, <1>5 DEF SafeInv

-----------------------------------------------------------------------------
(* Types.                                                                  *)

\* An instance stays within its list of commands.
LEMMA AdvanceType ==
  ASSUME TypeOK, NEW i \in Instances, Advance(i), program' = program
  PROVE  pos' \in [Instances -> 0..Len(Script[program'])]
<1> DEFINE len == Len(Script[program])
           k == pos[i]
           m == IF k < len THEN k + 1 ELSE 0
<1>1. len \in {23, 24} /\ k \in 0..24
  <2>1. program \in DOMAIN Script
    BY AccessPointAssumption DEF TypeOK
  <2> QED
    BY <2>1, Where, Commands
<1>2. pos \in [Instances -> 0..len] /\ pos' = [pos EXCEPT ![i] = m]
  BY DEF TypeOK, Advance
<1> HIDE DEF len, k
<1>3. m \in 0..len
  BY <1>1
<1> HIDE DEF m
<1>4. pos' \in [Instances -> 0..len]
  BY <1>2, <1>3
<1> QED
  BY <1>4 DEF len

\* The initial values have their types.
LEMMA TypeInit == Init => TypeOK
<1>1. /\ Programs \subseteq DOMAIN Script
      /\ MaxStarts \in Nat /\ MaxFaults \in Nat /\ MaxKills \in Nat /\ MaxCuts \in Nat
  BY AccessPointAssumption
<1> SUFFICES ASSUME Init
             PROVE  TypeOK
  OBVIOUS
<1>2. Len(Script[program]) \in {23, 24}
  BY <1>1, Commands DEF Init
<1>3. pos \in [Instances -> 0..Len(Script[program])]
  <2> DEFINE len == Len(Script[program])
  <2>1. len \in {23, 24}
    BY <1>2
  <2> HIDE DEF len
  <2>2. 0 \in 0..len
    BY <2>1
  <2>3. pos \in [Instances -> 0..len]
    BY <2>2 DEF Init
  <2> QED
    BY <2>3 DEF len
<1>4. /\ conf \in [Daemons -> Contents] /\ using \in [Daemons -> Contents]
      /\ proc \in [Daemons -> {"none", "runs", "dying"}]
  <2>1. conf \in [Daemons -> Contents]
    BY DEF Init, Contents
  <2>2. using \in [Daemons -> Contents]
    BY DEF Init, Contents
  <2>3. proc \in [Daemons -> {"none", "runs", "dying"}]
    BY DEF Init
  <2> QED
    BY <2>1, <2>2, <2>3
<1>5. pid \in [Instances -> Daemons \cup {"none", "gone"}] /\ rules \in [Rules -> Nat]
  BY DEF Init
<1>6. /\ starts \in 0..MaxStarts /\ faults \in 0..MaxFaults
      /\ kills \in 0..MaxKills /\ cuts \in 0..MaxCuts
  BY <1>1 DEF Init
<1>7. /\ address \subseteq {"wlan0", "wlan1"} /\ serving \subseteq Instances
      /\ udhcpc \in BOOLEAN /\ ip_forward \in BOOLEAN
      /\ disturbed \in BOOLEAN /\ shared \in BOOLEAN
      /\ program \in Programs
  BY DEF Init
<1> QED
  BY <1>3, <1>4, <1>5, <1>6, <1>7 DEF TypeOK

\* Every action keeps the types; they are inductive by themselves.
LEMMA TypeNext == TypeOK /\ [Next]_vars => TypeOK'
<1> SUFFICES ASSUME TypeOK, [Next]_vars
             PROVE  TypeOK'
  OBVIOUS
<1> USE DEF boardVars, history, bounds
<1>0. /\ Programs \subseteq DOMAIN Script /\ MaxStarts \in Nat /\ MaxFaults \in Nat
      /\ MaxKills \in Nat /\ MaxCuts \in Nat
  BY AccessPointAssumption
<1>1. ASSUME NEW i \in Instances, Start(i)
      PROVE  TypeOK'
  <2> DEFINE len == Len(Script[program])
  <2>1. len \in {23, 24}
    BY <1>0, Commands DEF TypeOK
  <2>2. pos \in [Instances -> 0..len] /\ pos' = [pos EXCEPT ![i] = 1] /\ program' = program
    BY <1>1 DEF TypeOK, Start
  <2> HIDE DEF len
  <2>3. pos' \in [Instances -> 0..len]
    BY <2>1, <2>2
  <2>4. pos' \in [Instances -> 0..Len(Script[program'])]
    BY <2>2, <2>3 DEF len
  <2>5. disturbed' \in BOOLEAN /\ shared' \in BOOLEAN
    BY <1>1 DEF Start, TypeOK
  <2>6. /\ starts' \in 0..MaxStarts /\ faults' \in 0..MaxFaults
        /\ kills' \in 0..MaxKills /\ cuts' \in 0..MaxCuts
    BY <1>0, <1>1 DEF Start, TypeOK
  <2>7. pid' \in [Instances -> Daemons \cup {"none", "gone"}]
    BY <1>1 DEF Start, TypeOK
  <2> QED
    BY <1>1, <2>4, <2>5, <2>6, <2>7 DEF Start, TypeOK
<1>2. ASSUME NEW i \in Instances, Step(i)
      PROVE  TypeOK'
  <2>1. pos[i] # 0 /\ Effect(i)
    BY <1>2, StepEffect
  <2>2. UNCHANGED <<program, shared, starts, faults, kills, cuts>>
    BY <2>1 DEF Effect, OtherEffect
  <2>3. pos' \in [Instances -> 0..Len(Script[program'])]
    <3>1. Advance(i) \/ UNCHANGED pos
      BY <1>2 DEF Step, OpenConf, WriteConf, killall, get_pid, KillPid, StartDaemon, ifconfig,
                  Forward, iptables, StartServer
    <3>2. CASE Advance(i)
      BY <2>1, <2>2, <3>2, AdvanceType
    <3>3. CASE UNCHANGED pos
      BY <2>2, <3>3 DEF TypeOK
    <3> QED
      BY <3>1, <3>2, <3>3
  <2>4. conf' \in [Daemons -> Contents]
    BY <1>2 DEF TypeOK, Contents, Step, OpenConf, WriteConf, killall, get_pid, KillPid,
                StartDaemon,
                ifconfig, Forward, iptables, StartServer
  <2>5. proc' \in [Daemons -> {"none", "runs", "dying"}]
    <3>1. CASE killall(i) \/ KillPid(i)
      BY <3>1 DEF TypeOK, killall, KillPid, Signal
    <3>2. CASE StartDaemon(i)
      BY <3>2 DEF TypeOK, StartDaemon
    <3>3. CASE UNCHANGED proc
      BY <3>3 DEF TypeOK
    <3> QED
      BY <1>2, <3>1, <3>2, <3>3 DEF Step, OpenConf, WriteConf, get_pid, ifconfig, Forward,
                                    iptables, StartServer
  <2>6. using' \in [Daemons -> Contents]
    <3>1. CASE StartDaemon(i)
      <4>1. Script[program][pos[i]][1] \in Daemons
        BY <3>1, Where, Places DEF StartDaemon
      <4>2. conf[Script[program][pos[i]][1]] \in Contents
        BY <4>1 DEF TypeOK
      <4> QED
        BY <3>1, <4>2 DEF TypeOK, StartDaemon
    <3>2. CASE UNCHANGED using
      BY <3>2 DEF TypeOK
    <3> QED
      BY <1>2, <3>1, <3>2 DEF Step, OpenConf, WriteConf, killall, get_pid, KillPid, ifconfig,
                              Forward, iptables, StartServer
  <2>7. pid' \in [Instances -> Daemons \cup {"none", "gone"}]
    <3>1. CASE get_pid(i)
      <4>1. Of(i) \in Daemons
        BY <3>1, Where, Places DEF get_pid
      <4> QED
        BY <3>1, <4>1 DEF get_pid, TypeOK
    <3>2. CASE UNCHANGED pid
      BY <3>2 DEF TypeOK
    <3> QED
      BY <1>2, <3>1, <3>2 DEF Step, OpenConf, WriteConf, killall, KillPid, StartDaemon,
                              ifconfig,
                              Forward, iptables, StartServer
  <2>8. udhcpc' \in BOOLEAN /\ ip_forward' \in BOOLEAN
    BY <1>2 DEF TypeOK, Step, OpenConf, WriteConf, killall, get_pid, KillPid, StartDaemon,
                ifconfig, Forward, iptables, StartServer
  <2>9. address' \subseteq {"wlan0", "wlan1"}
    <3>1. CASE ifconfig(i)
      BY <3>1, Where DEF ifconfig, TypeOK
    <3>2. CASE UNCHANGED address
      BY <3>2 DEF TypeOK
    <3> QED
      BY <1>2, <3>1, <3>2 DEF Step, OpenConf, WriteConf, killall, get_pid, KillPid, StartDaemon,
                              Forward, iptables, StartServer
  <2>10. rules' \in [Rules -> Nat]
    <3>1. CASE iptables(i) /\ At(i, "flush")
      <4>1. rules' = [r \in Rules |-> IF Table(r) = Of(i) THEN 0 ELSE rules[r]]
        BY <3>1 DEF iptables, At
      <4>2. rules \in [Rules -> Nat]
        BY DEF TypeOK
      <4> QED
        BY <4>1, <4>2
    <3>2. CASE iptables(i) /\ At(i, "rule")
      <4>1. Of(i) \in Rules
        BY <3>2, Where
      <4>2. rules' = [rules EXCEPT ![Of(i)] = @ + 1]
        BY <3>2 DEF iptables, At
      <4>3. rules \in [Rules -> Nat]
        BY DEF TypeOK
      <4> QED
        BY <4>1, <4>2, <4>3
    <3>3. CASE UNCHANGED rules
      BY <3>3 DEF TypeOK
    <3> QED
      BY <1>2, <3>1, <3>2, <3>3 DEF Step, iptables, OpenConf, WriteConf, killall, get_pid, KillPid, StartDaemon,
                              ifconfig, Forward, StartServer
  <2>11. serving' \subseteq Instances
    <3>1. CASE StartServer(i)
      BY <3>1 DEF StartServer, TypeOK
    <3>2. CASE UNCHANGED serving
      BY <3>2 DEF TypeOK
    <3> QED
      BY <1>2, <3>1, <3>2 DEF Step, OpenConf, WriteConf, killall, get_pid, KillPid, StartDaemon,
                              ifconfig, Forward, iptables
  <2>12. disturbed' \in BOOLEAN
    <3>1. CASE StartDaemon(i)
      <4> DEFINE dies == proc[Script[program][pos[i]][1]] = "dying"
      <4>1. disturbed' = (disturbed \/ dies)
        BY <3>1 DEF StartDaemon
      <4> HIDE DEF dies
      <4> QED
        BY <4>1
    <3>2. CASE UNCHANGED disturbed
      BY <3>2 DEF TypeOK
    <3> QED
      BY <1>2, <3>1, <3>2 DEF Step, OpenConf, WriteConf, killall, get_pid, KillPid,
                              ifconfig, Forward, iptables, StartServer
  <2> QED
    BY <2>2, <2>3, <2>4, <2>5, <2>6, <2>7, <2>8, <2>9, <2>10, <2>11, <2>12 DEF TypeOK
<1>3. ASSUME NEW i \in Instances, ServerEnds(i) \/ CommandFails(i)
      PROVE  TypeOK'
  <2>1. Advance(i) /\ program' = program
    BY <1>3 DEF ServerEnds, CommandFails
  <2>2. pos' \in [Instances -> 0..Len(Script[program'])]
    BY <2>1, AdvanceType
  <2>3. CASE ServerEnds(i)
    <3>1. serving' \subseteq Instances
      BY <2>3 DEF ServerEnds, TypeOK
    <3> QED
      BY <2>2, <2>3, <3>1 DEF ServerEnds, TypeOK
  <2>4. CASE CommandFails(i)
    <3>1. faults' \in 0..MaxFaults
      BY <1>0, <2>4 DEF CommandFails, TypeOK
    <3>2. disturbed' \in BOOLEAN
      BY <2>4 DEF CommandFails
    <3> QED
      BY <2>2, <2>4, <3>1, <3>2 DEF CommandFails, TypeOK
  <2> QED
    BY <1>3, <2>3, <2>4
<1>4. ASSUME NEW i \in Instances, Interrupt(i)
      PROVE  TypeOK'
  <2> DEFINE len == Len(Script[program])
  <2>1. len \in {23, 24}
    BY <1>0, Commands DEF TypeOK
  <2>2. pos \in [Instances -> 0..len] /\ pos' = [pos EXCEPT ![i] = 0] /\ program' = program
    BY <1>4 DEF TypeOK, Interrupt
  <2> HIDE DEF len
  <2>3. pos' \in [Instances -> 0..len]
    BY <2>1, <2>2
  <2>4. pos' \in [Instances -> 0..Len(Script[program'])]
    BY <2>2, <2>3 DEF len
  <2>5. kills' \in 0..MaxKills /\ disturbed' \in BOOLEAN /\ serving' \subseteq Instances
    BY <1>0, <1>4 DEF Interrupt, TypeOK
  <2> QED
    BY <1>4, <2>4, <2>5 DEF Interrupt, TypeOK
<1>5. ASSUME NEW d \in Daemons, Reap(d)
      PROVE  TypeOK'
  <2>1. proc' \in [Daemons -> {"none", "runs", "dying"}]
    BY <1>5 DEF Reap, TypeOK
  <2>2. pid' \in [Instances -> Daemons \cup {"none", "gone"}]
    BY <1>5 DEF Reap, TypeOK
  <2> QED
    BY <1>5, <2>1, <2>2 DEF Reap, TypeOK
<1>6. CASE PowerCut
  <2>1. PICK boot \in {"none", "runs"} : Booted(boot)
    BY <1>6 DEF PowerCut
  <2> DEFINE len == Len(Script[program])
  <2>2. len \in {23, 24} /\ program' = program
    BY <1>0, <1>6, Commands DEF TypeOK, PowerCut
  <2>3. pos' = [i \in Instances |-> 0]
    BY <2>1 DEF Booted
  <2> HIDE DEF len
  <2>4. pos' \in [Instances -> 0..len]
    BY <2>2, <2>3
  <2>5. pos' \in [Instances -> 0..Len(Script[program'])]
    BY <2>2, <2>4 DEF len
  <2>6. using' \in [Daemons -> Contents] /\ proc' \in [Daemons -> {"none", "runs", "dying"}]
    BY <2>1 DEF Booted, Contents
  <2>7. pid' \in [Instances -> Daemons \cup {"none", "gone"}] /\ rules' \in [Rules -> Nat]
    BY <2>1 DEF Booted
  <2>8. /\ address' \subseteq {"wlan0", "wlan1"} /\ serving' \subseteq Instances
        /\ udhcpc' \in BOOLEAN /\ ip_forward' \in BOOLEAN
        /\ disturbed' \in BOOLEAN /\ shared' \in BOOLEAN
    BY <2>1 DEF Booted
  <2>9. cuts' \in 0..MaxCuts
    BY <1>0, <1>6 DEF PowerCut, TypeOK
  <2> QED
    BY <1>6, <2>5, <2>6, <2>7, <2>8, <2>9 DEF PowerCut, TypeOK
<1>7. CASE UNCHANGED vars
  BY <1>7 DEF vars, instVars, TypeOK
<1> QED
  BY <1>1, <1>2, <1>3, <1>4, <1>5, <1>6, <1>7 DEF Next

-----------------------------------------------------------------------------
(* The theorems.                                                           *)

\* All parts together, for a step of a program.
LEMMA StepKeeps ==
  ASSUME TypeOK, SafeInv, NEW i \in Instances, Step(i)
  PROVE  SafeInv'
<1>1. pos[i] # 0 /\ Effect(i)
  BY StepEffect
<1>2. ServeInv' /\ HostapdInv'
  BY <1>1, StepKeepsServeHostapd DEF SafeInv
<1>3. DoneInv'
  BY <1>1, StepKeepsDone DEF SafeInv
<1>4. StaleInv'
  BY <1>1, StepKeepsStale DEF SafeInv
<1>5. RulesInv'
  BY <1>1, StepKeepsRules DEF SafeInv
<1> QED
  BY <1>2, <1>3, <1>4, <1>5 DEF SafeInv

\* The invariant is inductive.
LEMMA InvNext == IInv /\ [Next]_vars => IInv'
<1> SUFFICES ASSUME TypeOK, SafeInv, [Next]_vars
             PROVE  IInv'
  BY DEF IInv
<1>1. TypeOK'
  BY TypeNext
<1>2. SafeInv'
  <2>1. ASSUME NEW i \in Instances,
               Start(i) \/ Step(i) \/ ServerEnds(i) \/ CommandFails(i) \/ Interrupt(i)
        PROVE  SafeInv'
    BY <2>1, StartKeeps, StepKeeps, ServerEndsKeeps, CommandFailsKeeps, InterruptKeeps
  <2>2. ASSUME NEW d \in Daemons, Reap(d)
        PROVE  SafeInv'
    BY <2>2, ReapKeeps
  <2>3. CASE PowerCut
    BY <2>3, PowerCutKeeps
  <2>4. CASE UNCHANGED vars
    BY <2>4, StutterKeeps
  <2> QED
    BY <2>1, <2>2, <2>3, <2>4 DEF Next
<1> QED
  BY <1>1, <1>2 DEF IInv

\* It holds in every reachable state.
LEMMA InvSpec == Spec => []IInv
<1>1. Init => IInv
  BY TypeInit, InitSafe DEF IInv
<1> QED
  BY <1>1, InvNext, PTL DEF Spec

\* The variables of the board keep their types, and no instance runs past the
\* end of its list of commands (the program of main in the softap sources).
THEOREM TypeCorrect == Spec => []TypeOK
<1>1. IInv => TypeOK
  BY DEF IInv
<1> QED
  BY <1>1, InvSpec, PTL

\* When nobody is setting anything up, nobody is before any command.
LEMMA SettledBefore ==
  ASSUME IInv, Settled, NEW c \in 1..23
  PROVE  ~Before(c)
<1>1. \A i \in Instances : pos[i] = 0 \/ pos[i] = 24
  BY DEF IInv, SafeInv, ServeInv, Settled
<1> QED
  BY <1>1 DEF Before

\* Once a server waits for phones and nobody is setting anything up, the access
\* point is complete: both daemons run with the files the program wrote, the
\* address, forwarding and all rules are there and the DHCP client is gone.
\* However many instances killed the daemons, emptied the files and flushed the
\* rules of each other, and in whatever order (wlan_accesspoint_start and
\* iftables_usb0_to_eth0).
THEOREM AccessPointComplete == Spec => []ServerHasAccessPoint
<1>1. ASSUME IInv, serving # {}, Settled, ~disturbed
      PROVE  PhonesCanConnect
  <2>1. Active
    BY <1>1 DEF IInv, TypeOK, SafeInv, ServeInv, Active
  <2>2. \A c \in 1..23 : ~Before(c)
    BY <1>1, SettledBefore
  <2>3. /\ ~udhcpc /\ address # {} /\ ip_forward
        /\ proc["dnsmasq"] = "runs" /\ using["dnsmasq"] = "made" /\ proc["hostapd"] = "runs"
    BY <1>1, <2>1, <2>2 DEF IInv, SafeInv, DoneInv
  <2>4. \A r \in Rules : rules[r] > 0
    <3>1. \A r \in Rules : RuleAt(r) \in 1..23
      BY Places
    <3> QED
      BY <1>1, <2>1, <2>2, <3>1 DEF IInv, SafeInv, DoneInv
  <2>5. faults = 0 => using["hostapd"] = "made"
    BY <1>1, <2>3 DEF IInv, SafeInv, HostapdInv
  <2> QED
    BY <2>3, <2>4, <2>5, Places DEF PhonesCanConnect
<1>2. IInv => ServerHasAccessPoint
  BY <1>1 DEF ServerHasAccessPoint
<1> QED
  BY <1>2, InvSpec, PTL

\* Instances that follow each other leave every rule of iftables_usb0_to_eth0
\* in its table once.
THEOREM NoRuleTwice == Spec => []RulesOnce
<1>1. ASSUME IInv, Settled, ~shared, ~disturbed, NEW r \in Rules
      PROVE  rules[r] <= 1
  <2>1. FlushAt(r) \in 1..23
    BY Places
  <2>2. ~Before(FlushAt(r))
    BY <1>1, <2>1, SettledBefore
  <2> QED
    BY <1>1, <2>2 DEF IInv, SafeInv, RulesInv
<1>2. IInv => RulesOnce
  BY <1>1 DEF RulesOnce
<1> QED
  BY <1>2, InvSpec, PTL
=============================================================================
