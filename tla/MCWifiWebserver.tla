-------------------------- MODULE MCWifiWebserver --------------------------
(* Instances of WifiWebserver: networks "home" and "work", a wrong one,    *)
(* and what phones ask.                                                    *)
EXTENDS WifiWebserver

WordsMC == {"home", "work", "pw1", "pw2", "ssid", "password"}

NetworksMC == {<<"home", "pw1">>}

Ask(kind, ssid, password) == [kind |-> kind, ssid |-> ssid, password |-> password]

\* Among them networks that are called as a field is, a name of two tokens,
\* an empty name, and a password that is the name of a field.
RequestsMC ==
  {Ask("index", <<>>, <<>>), Ask("other", <<>>, <<>>),
   Ask("save", <<"home">>, <<"pw1">>), Ask("save", <<"work">>, <<"pw2">>),
   Ask("save", <<"password">>, <<"pw2">>), Ask("save", <<"ssid">>, <<"pw1">>),
   Ask("save", <<"home", "work">>, <<"pw1">>), Ask("save", <<>>, <<"pw1">>),
   Ask("save", <<"home">>, <<"password">>)}
=============================================================================
