----------------------------- MODULE ApPrograms -----------------------------
(***************************************************************************)
(* The programs that turn the board into an access point, as data: each of *)
(* their functions is the sequence of the commands it runs, in order. The  *)
(* functions are those of src/v005/softap_restapi.c; the other programs    *)
(* have the same ones and differ in the name of the network, the interface *)
(* and the server they run at the end. AccessPoint executes the sequences. *)
(*                                                                         *)
(* A command is a pair of what is done and to what. console_run ignores    *)
(* the exit status, so a sequence goes on after a command that failed.     *)
(* --delete-chain is left out: it deletes chains nobody has made.          *)
(***************************************************************************)
EXTENDS Sequences

Daemons == {"dnsmasq", "hostapd"}

\* A rule is a table and what the rule does there.
Rules == {<<"filter", "established">>, <<"filter", "forward">>,
          <<"nat", "masquerade">>, <<"nat", "dns">>}

Table(rule) == rule[1]

-----------------------------------------------------------------------------
(* The functions.                                                          *)

\* Variant: the file is not written.
hostapd_file_left_empty == <<<<"open", "hostapd">>>>

\* fopen empties a file, fclose has written it.
create_hostapd_file == <<<<"open", "hostapd">>, <<"write", "hostapd">>>>

creat_dnsmasq_file == <<<<"open", "dnsmasq">>, <<"write", "dnsmasq">>>>

\* if ((pid = get_pid(name)) != 0) kill pid
KillByPid(name) == <<<<"pidof", name>>, <<"kill", name>>>>

\* Variant: no pid is looked up between killall and the start.
accesspoint_start_without_pid(softap_name) ==
  create_hostapd_file
  \o <<<<"up", softap_name>>, <<"address", softap_name>>>>
  \o creat_dnsmasq_file
  \o <<<<"dnsmasq", softap_name>>, <<"hostapd", softap_name>>>>

wlan_accesspoint_start(softap_name) ==
  create_hostapd_file
  \o <<<<"killall", "dnsmasq">>, <<"up", softap_name>>,
       <<"address", softap_name>>, <<"address", softap_name>>>>
  \o creat_dnsmasq_file
  \o KillByPid("dnsmasq")
  \o <<<<"dnsmasq", softap_name>>, <<"hostapd", softap_name>>>>

\* Variants: the old rules stay, or only the first table is flushed.
iftables_without_flush(lan) ==
  <<<<"up", "wlan0">>, <<"address", lan>>, <<"ip_forward", "1">>,
    <<"flush", "filter">>,
    <<"rule", <<"filter", "established">>>>, <<"rule", <<"filter", "forward">>>>,
    <<"rule", <<"nat", "masquerade">>>>, <<"rule", <<"nat", "dns">>>>>>

iftables_usb0_to_eth0(lan) ==
  <<<<"up", "wlan0">>, <<"address", lan>>, <<"ip_forward", "1">>,
    <<"flush", "filter">>, <<"flush", "nat">>,
    <<"rule", <<"filter", "established">>>>, <<"rule", <<"filter", "forward">>>>,
    <<"rule", <<"nat", "masquerade">>>>, <<"rule", <<"nat", "dns">>>>>>

-----------------------------------------------------------------------------
(* The programs. Each has its own copy of the functions, with its own      *)
(* interfaces, and a main that ends with its own server.                   *)

Setup(accesspoint, sharing) ==
  <<<<"killall", "dnsmasq">>, <<"killall", "udhcpc">>>> \o accesspoint \o sharing

Serve(server) == <<<<"server", server>>>>

softap_restapi ==
  Setup(wlan_accesspoint_start("wlan1"), iftables_usb0_to_eth0("wlan1"))
  \o Serve("restapi.py")

softap_accesspoint == wlan_accesspoint_start("wlan1")
softap_sharing     == iftables_usb0_to_eth0("wlan1")
softap             == Setup(softap_accesspoint, softap_sharing)
                      \o Serve("http_server_wpa_reboot.py")

\* This one returns when the access point is there.
hj_accesspoint     == wlan_accesspoint_start("wlan1")
hj_sharing         == iftables_usb0_to_eth0("wlan1")
softap_rockchip_hj == Setup(hj_accesspoint, hj_sharing)

\* The web server is part of the program.
webserver2_accesspoint == wlan_accesspoint_start("wlan1")
webserver2_sharing     == iftables_usb0_to_eth0("wlan1")
softap_webserver2      == Setup(webserver2_accesspoint, webserver2_sharing)
                          \o Serve("itself")

\* In v001 the access point is on the interface of the uplink.
v001_accesspoint       == wlan_accesspoint_start("wlan0")
v001_sharing           == iftables_usb0_to_eth0("wlan0")
softap_webserver2_v001 == Setup(v001_accesspoint, v001_sharing) \o Serve("itself")

Script == [softap_restapi         |-> softap_restapi,
           softap                 |-> softap,
           softap_rockchip_hj     |-> softap_rockchip_hj,
           softap_webserver2      |-> softap_webserver2,
           softap_webserver2_v001 |-> softap_webserver2_v001]
=============================================================================
