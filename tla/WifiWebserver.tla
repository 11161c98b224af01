--------------------------- MODULE WifiWebserver ---------------------------
(***************************************************************************)
(* The web server of src/v002/softap_webserver: one process that opens a   *)
(* hotspot, serves one connection after the other, and on POST /save gives *)
(* up the hotspot and tries to join the network the phone has named. When  *)
(* that fails it opens the hotspot again. softap_webserver2.c has the same *)
(* functions, but its main starts hostapd (see AccessPoint) where that of  *)
(* softap_webserver.c asks NetworkManager for a hotspot.                   *)
(*                                                                         *)
(* A request body is the sequence of its tokens, what strtok finds between *)
(* the characters , { } " and :. What a phone types is a sequence of       *)
(* tokens, too: a name with a colon in it has two, an empty one has none,  *)
(* and any of them may be the name of a field.                             *)
(***************************************************************************)
EXTENDS Integers, SequencesExt, FiniteSetsExt

CONSTANTS
  Clients,     \* connections
  Words,       \* tokens that phones type
  Requests,    \* what they ask: records of kind, ssid and password
  Networks,    \* pairs of name and password that can be joined
  NmHotspot,   \* does NetworkManager own the hotspot? (softap_webserver.c)
  SplitBody,   \* may a body arrive later than its header?
  MaxFaults,   \* bounds: commands and calls that fail,
  MaxHangups   \*   clients that give up

None == "none"

ASSUME WebserverAssumption ==
  /\ None \notin Words /\ None \notin Clients
  /\ NmHotspot \in BOOLEAN /\ SplitBody \in BOOLEAN
  /\ MaxFaults \in Nat /\ MaxHangups \in Nat
  /\ \A r \in Requests : /\ r.kind \in {"index", "save", "other"}
                         /\ r.ssid \in Seq(Words) /\ r.password \in Seq(Words)

VARIABLES
  pc,        \* what the server does next
  air,       \* what the WiFi device is: off, a hotspot, or in a network
  buffer,    \* main's buffer: the request line and the tokens of the body
  hand,      \* the connection being served
  target,    \* ssid and password
  queue,     \* connections that wait for accept, in order
  state,     \* of each connection
  asked,     \* what each client asks
  arrived,   \* how much of that has arrived
  reply,     \* the status each client was sent
  faults, hangups

serverVars == <<buffer, hand, target>>
clientVars == <<queue, state, asked, arrived>>
bounds     == <<faults, hangups>>
vars       == <<pc, air, serverVars, clientVars, reply, bounds>>

\* What strtok can find.
Tokens == Words \cup {"ssid", "password"}

\* The steps of start_softap_mode and of start_station_mode.
HotspotSteps == {"hotspot", "modify", "up"}
StationSteps == {"radio_off", "radio_on", "rescan", "connect"}

TypeOK ==
  /\ pc \in HotspotSteps \cup StationSteps
            \cup {"socket", "accept", "read", "dispatch", "header", "lines",
                  "refuse", "not_found", "down", "close", "exit"}
  /\ air \in {None, "hotspot", "ready", "station"}
  /\ buffer.line \in {None, "index", "save", "other"} /\ buffer.body \in Seq(Tokens)
  /\ hand \in Clients \cup {None}
  /\ target \in (Tokens \cup {None}) \X (Tokens \cup {None})
  /\ queue \in Seq(Clients)
  /\ state \in [Clients -> {"new", "open", "gone", "reset", "closed"}]
  /\ asked \in [Clients -> Requests]
  /\ arrived \in [Clients -> {None, "header", "all"}]
  /\ reply \in [Clients -> {None, "200", "400", "404"}]
  /\ faults \in 0..MaxFaults /\ hangups \in 0..MaxHangups

NmcliStart   == pc = "hotspot" /\ air = None
HostapdStart == pc = "socket"  /\ air = "ready"

Init ==
  /\ IF NmHotspot THEN NmcliStart ELSE HostapdStart
  /\ buffer = [line |-> None, body |-> <<>>] /\ hand = None /\ target = <<None, None>>
  /\ queue = <<>> /\ state = [c \in Clients |-> "new"]
  /\ asked \in [Clients -> Requests] /\ arrived = [c \in Clients |-> None]
  /\ reply = [c \in Clients |-> None]
  /\ faults = 0 /\ hangups = 0

-----------------------------------------------------------------------------
(* The phones. A server that still works on another request has a queue    *)
(* longer than the number of clients here, so nobody is turned away.       *)

Listening == pc # "exit" /\ (pc = "accept" \/ hand # None)
OnAir     == air \in {"hotspot", "ready"}

Connect(c) ==
  /\ state[c] = "new" /\ Listening /\ OnAir
  /\ state' = [state EXCEPT ![c] = "open"] /\ queue' = Append(queue, c)
  /\ UNCHANGED <<pc, air, serverVars, asked, arrived, reply, bounds>>

\* The request arrives; the body of a POST may come in a segment of its own.
Deliver(c) ==
  /\ state[c] = "open" /\ arrived[c] # "all" /\ OnAir
  /\ \E part \in {"header", "all"} :
       /\ part = "header" => SplitBody /\ asked[c].kind = "save" /\ arrived[c] = None
       /\ arrived' = [arrived EXCEPT ![c] = part]
  /\ UNCHANGED <<pc, air, serverVars, queue, state, asked, reply, bounds>>

\* The client closes the connection, or resets it.
Hangup(c) ==
  /\ state[c] = "open" /\ hangups < MaxHangups
  /\ hangups' = hangups + 1
  /\ \E end \in {"gone", "reset"} : state' = [state EXCEPT ![c] = end]
  /\ UNCHANGED <<pc, air, serverVars, queue, asked, arrived, reply, faults>>

-----------------------------------------------------------------------------
(* The WiFi device, by nmcli.                                              *)

\* start_softap_mode. It returns to main, or to the connection in hand.
start_softap_mode ==
  /\ \/ pc = "hotspot" /\ pc' = "modify" /\ air' = "hotspot"
     \/ pc = "modify" /\ pc' = "up" /\ UNCHANGED air
     \/ pc = "up" /\ pc' = (IF hand = None THEN "socket" ELSE "close") /\ air' = "ready"
  /\ UNCHANGED <<serverVars, clientVars, reply, bounds>>

\* Only a hotspot of NetworkManager's own can be taken down.
stop_softap_mode ==
  /\ pc = "down"
  /\ IF NmHotspot /\ OnAir THEN pc' = "radio_off" /\ air' = None
                           ELSE pc' = "exit" /\ UNCHANGED air
  /\ UNCHANGED <<serverVars, clientVars, reply, bounds>>

\* The results of all but the last command are ignored.
start_station_mode ==
  /\ \/ pc = "radio_off" /\ pc' = "radio_on"
     \/ pc = "radio_on" /\ pc' = "rescan"
     \/ pc = "rescan" /\ pc' = "connect"
  /\ UNCHANGED <<air, serverVars, clientVars, reply, bounds>>

\* Variant: the program goes on without a hotspot.
GoOnAfterAll == pc' = "close" /\ UNCHANGED air

\* The network cannot be joined, and the hotspot comes back.
JoinFails == pc' = "hotspot" /\ UNCHANGED air

\* The last command of start_station_mode, and what handle_post_request
\* makes of its result: when it has joined, the program is done.
connect ==
  /\ pc = "connect"
  /\ IF target \in Networks THEN pc' = "exit" /\ air' = "station" ELSE JoinFails
  /\ UNCHANGED <<serverVars, clientVars, reply, bounds>>

Fault == faults < MaxFaults /\ faults' = faults + 1

\* A command fails although it need not.
CommandFails ==
  /\ pc \in HotspotSteps \cup {"socket", "down", "connect"} /\ Fault
  /\ IF pc = "connect" THEN JoinFails ELSE pc' = "exit" /\ UNCHANGED air
  /\ UNCHANGED <<serverVars, clientVars, reply, hangups>>

-----------------------------------------------------------------------------
(* The server.                                                             *)

Socket ==
  /\ pc = "socket" /\ pc' = "accept"
  /\ UNCHANGED <<air, serverVars, clientVars, reply, bounds>>

Accept ==
  /\ pc = "accept" /\ queue # <<>> /\ pc' = "read"
  /\ hand' = Head(queue) /\ queue' = Tail(queue)
  /\ UNCHANGED <<air, buffer, target, state, asked, arrived, reply, bounds>>

AcceptFails ==
  /\ pc = "accept" /\ pc' = "exit" /\ Fault
  /\ UNCHANGED <<air, serverVars, clientVars, reply, hangups>>

\* The page sends both fields, whatever was typed.
Body(request) == (<<"ssid">> \o request.ssid) \o (<<"password">> \o request.password)

\* Variant: buffer[valread] = '\0' is missing.
FillOver(c) ==
  [line |-> asked[c].kind,
   body |-> IF arrived[c] = "all" THEN Body(asked[c]) ELSE buffer.body]

Fill(c) ==
  [line |-> asked[c].kind,
   body |-> IF arrived[c] = "all" THEN Body(asked[c]) ELSE <<>>]

\* One read, of what has arrived by now. It waits for ever for a client that
\* stays and sends nothing, returns 0 for one that has closed, and fails for
\* one that has reset.
Read ==
  /\ pc = "read"
  /\ \/ /\ state[hand] = "reset"
        /\ pc' = "close" /\ UNCHANGED buffer
     \/ /\ state[hand] = "gone" /\ arrived[hand] = None
        /\ pc' = "dispatch" /\ buffer' = [line |-> None, body |-> <<>>]
     \/ /\ state[hand] \in {"open", "gone"} /\ arrived[hand] # None
        /\ pc' = "dispatch" /\ buffer' = Fill(hand)
  /\ UNCHANGED <<air, hand, target, clientVars, reply, bounds>>

\* Where the values of a key stand: behind every token that is the key. The
\* loop looks at values again, as if they were keys.
ValuesOf(key) == {i + 1 : i \in {j \in DOMAIN buffer.body : buffer.body[j] = key}}

Value(key) == IF ValuesOf(key) = {} THEN None ELSE buffer.body[Max(ValuesOf(key))]

\* A key that is the last token has no value, and strdup(NULL) ends the
\* program.
handle_post_request ==
  IF Len(buffer.body) + 1 \in ValuesOf("ssid") \cup ValuesOf("password")
  THEN pc' = "exit" /\ UNCHANGED target
  ELSE IF Value("ssid") # None /\ Value("password") # None
       THEN pc' = "down" /\ target' = <<Value("ssid"), Value("password")>>
       ELSE pc' = "refuse" /\ UNCHANGED target

Dispatch ==
  /\ pc = "dispatch"
  /\ CASE buffer.line = "index" -> pc' = "header" /\ UNCHANGED target
       [] buffer.line = "save"  -> handle_post_request
       [] OTHER                 -> pc' = "not_found" /\ UNCHANGED target
  /\ UNCHANGED <<air, buffer, hand, clientVars, reply, bounds>>

\* A send to a client that has closed makes it reset the connection; a send
\* on a connection that was reset may end the program with SIGPIPE.
Send(at, status, next) ==
  /\ pc = at
  /\ \/ state[hand] # "reset" /\ pc' = next
     \/ state[hand] = "reset" /\ pc' \in {next, "exit"}
  /\ state' = [state EXCEPT ![hand] = IF @ = "gone" THEN "reset" ELSE @]
  /\ reply' = [reply EXCEPT ![hand] = IF state[hand] = "open" THEN status ELSE @]
  /\ UNCHANGED <<air, serverVars, queue, asked, arrived, bounds>>

\* serve_html sends the header, and then the file line by line.
serve_html == Send("header", "200", "lines") \/ Send("lines", "200", "close")

\* index.html cannot be opened.
HtmlMissing ==
  /\ pc = "header" /\ pc' = "exit" /\ Fault
  /\ UNCHANGED <<air, serverVars, clientVars, reply, hangups>>

Refuse   == Send("refuse", "400", "close")

NotFound == Send("not_found", "404", "close")

\* Variant: the connection is not closed.
CloseKeepsClient ==
  /\ pc = "close" /\ pc' = "accept" /\ hand' = None
  /\ UNCHANGED <<air, buffer, target, clientVars, reply, bounds>>

Close ==
  /\ pc = "close" /\ pc' = "accept"
  /\ state' = [state EXCEPT ![hand] = "closed"] /\ hand' = None
  /\ UNCHANGED <<air, buffer, target, queue, asked, arrived, reply, bounds>>

Server ==
  \/ start_softap_mode \/ stop_softap_mode \/ start_station_mode \/ connect
  \/ Socket \/ Accept \/ Read \/ Dispatch
  \/ serve_html \/ Refuse \/ NotFound \/ Close

Next ==
  \/ Server \/ CommandFails \/ AcceptFails \/ HtmlMissing
  \/ \E c \in Clients : Connect(c) \/ Deliver(c) \/ Hangup(c)

\* The server goes on. Nobody has to connect, and no client that has has to
\* send anything.
Fairness == WF_vars(Server)

Spec == Init /\ [][Next]_vars /\ Fairness

-----------------------------------------------------------------------------
(* Properties.                                                             *)

\* Whenever the server waits for the next phone its hotspot is there with
\* the address phones look for, however many networks could not be joined.
WaitsReachable == pc = "accept" => air = "ready"

\* The key of a value that is empty, or a value that is taken for a key, has
\* no token behind it: strdup(NULL) ends the program.
EndsInKey(request) ==
  \/ request.password = <<>>
  \/ Last(request.password) \in {"ssid", "password"}

\* The board is in a network or offers one: while the server waits it does,
\* and a program that has ended has joined one, unless a command failed, a
\* client hung up, or what the client in hand typed ends in a key.
NeverStranded ==
  /\ WaitsReachable
  /\ pc = "exit" /\ faults = 0 /\ hangups = 0 =>
       air = "station" \/ (hand # None /\ EndsInKey(asked[hand]))

\* What the board joins comes from the request that is being served and from
\* no earlier one, whatever was typed. It is the name and the password, when
\* they are a token each and the name is not "ssid": a name may be
\* "password", and of any password that is a field name the program ends.
ConnectsAsTyped ==
  pc \in {"down"} \cup StationSteps =>
    LET request == asked[hand]
    IN  /\ target[1] \in ToSet(Body(request)) /\ target[2] \in ToSet(Body(request))
        /\ Len(request.ssid) = 1 /\ Len(request.password) = 1 /\ request.ssid # <<"ssid">> =>
             <<target[1]>> = request.ssid /\ <<target[2]>> = request.password

\* Every client that stays is served in the end, behind other clients and
\* their failing networks, unless the program ends. One thing makes the
\* server wait for ever: a client that has connected, stays and sends
\* nothing, and then nobody is served.
EveryRequestServed ==
  \/ \E d \in Clients : <>[](pc = "read" /\ hand = d /\ state[d] = "open" /\ arrived[d] = None)
  \/ \A c \in Clients : state[c] = "open" ~> state[c] = "closed" \/ pc = "exit"
=============================================================================
