------------------------ MODULE WifiWebserverProofs ------------------------
(***************************************************************************)
(* The web server of softap_webserver.c, for any phones, requests,         *)
(* networks and bounds.                                                    *)
(***************************************************************************)
EXTENDS WifiWebserver, FiniteSetTheorems, SequenceTheorems, WellFoundedInduction, TLAPS

Serving == {"read", "dispatch", "header", "lines", "refuse", "not_found", "down", "close"}

\* Where the server is, whom it serves and what the device is doing.
ServingInv ==
  /\ pc \in {"socket", "accept"} => hand = None
  /\ pc \in Serving \cup StationSteps => hand \in Clients
  /\ pc \in Serving \cup {"socket", "accept"} => air = "ready"
  /\ air = "station" => pc = "exit"

\* The buffer holds what the client in hand has asked, or no body.
BufferInv ==
  pc = "dispatch" => buffer.body \in {<<>>, Body(asked[hand])}

\* What NeverStranded says of the end.
EndsJoined ==
  pc = "exit" /\ faults = 0 /\ hangups = 0 =>
    air = "station" \/ (hand # None /\ EndsInKey(asked[hand]))

\* Without hangups no connection breaks under a reply.
ExitInv ==
  /\ hangups = 0 => \A c \in Clients : state[c] \notin {"gone", "reset"}
  /\ NmHotspot => EndsJoined

IInv == TypeOK /\ ServingInv /\ BufferInv /\ ConnectsAsTyped /\ ExitInv

-----------------------------------------------------------------------------
(* Request bodies.                                                         *)

LEMMA RequestType ==
  ASSUME NEW r \in Requests
  PROVE  r.kind \in {"index", "save", "other"} /\ r.ssid \in Seq(Words) /\ r.password \in Seq(Words)
BY WebserverAssumption

LEMMA OneInSeq == ASSUME NEW S, NEW x \in S PROVE <<x>> \in Seq(S)
OBVIOUS

LEMMA BodyParts ==
  ASSUME NEW r \in Requests
  PROVE  /\ <<"ssid">> \o r.ssid \in Seq(Tokens) /\ <<"password">> \o r.password \in Seq(Tokens)
         /\ r.password \in Seq(Tokens)
<1>1. r.ssid \in Seq(Tokens) /\ r.password \in Seq(Tokens)
  BY RequestType DEF Tokens
<1>2. <<"ssid">> \in Seq(Tokens) /\ <<"password">> \in Seq(Tokens)
  BY OneInSeq DEF Tokens
<1> QED
  BY <1>1, <1>2, ConcatProperties

LEMMA BodyType == ASSUME NEW r \in Requests PROVE Body(r) \in Seq(Tokens)
BY BodyParts, ConcatProperties DEF Body

LEMMA NoValueOf ==
  ASSUME NEW key, \A k \in DOMAIN buffer.body : buffer.body[k] # key
  PROVE  ValuesOf(key) = {} /\ Value(key) = None
BY DEF ValuesOf, Value

LEMMA MaxOfOne == ASSUME NEW n \in Nat PROVE Max({n}) = n
BY DEF Max

LEMMA OneAndOne == ASSUME NEW a, NEW b PROVE <<a>> \o <<b>> = <<a, b>>
<1>1. <<a>> \in Seq({a, b}) /\ <<b>> \in Seq({a, b}) /\ <<a, b>> \in Seq({a, b})
  OBVIOUS
<1>2. /\ <<a>> \o <<b>> \in Seq({a, b}) /\ Len(<<a>> \o <<b>>) = 2
      /\ (<<a>> \o <<b>>)[1] = a /\ (<<a>> \o <<b>>)[2] = b
  BY <1>1, ConcatProperties
<1>3. \A i \in 1..2 : (<<a>> \o <<b>>)[i] = <<a, b>>[i]
  BY <1>2
<1> QED
  BY <1>1, <1>2, <1>3, SeqEqual

LEMMA TwoAndTwo ==
  ASSUME NEW a, NEW b, NEW c, NEW d PROVE <<a, b>> \o <<c, d>> = <<a, b, c, d>>
<1> DEFINE S == {a, b, c, d}
           whole == <<a, b>> \o <<c, d>>
<1>1. <<a, b>> \in Seq(S) /\ <<c, d>> \in Seq(S) /\ <<a, b, c, d>> \in Seq(S)
  OBVIOUS
<1>2. /\ whole \in Seq(S) /\ Len(whole) = 4
      /\ whole[1] = a /\ whole[2] = b /\ whole[3] = c /\ whole[4] = d
  BY <1>1, ConcatProperties
<1>3. \A i \in 1..4 : whole[i] = <<a, b, c, d>>[i]
  BY <1>2
<1> QED
  BY <1>1, <1>2, <1>3, SeqEqual

\* The last token of a body is a key only if the request ends in one.
LEMMA KeyAtEnd ==
  ASSUME NEW r \in Requests, Body(r)[Len(Body(r))] \in {"ssid", "password"}
  PROVE  EndsInKey(r)
<1> DEFINE front == <<"ssid">> \o r.ssid
           back  == <<"password">> \o r.password
<1>1. front \in Seq(Tokens) /\ back \in Seq(Tokens) /\ r.password \in Seq(Tokens)
  BY BodyParts
<1>2. SUFFICES ASSUME r.password # <<>> PROVE Last(r.password) \in {"ssid", "password"}
  BY DEF EndsInKey
<1>3. Len(r.password) \in Nat \ {0} /\ Len(front) \in Nat
  BY <1>1, <1>2, EmptySeq, LenProperties
<1>4. Len(back) = 1 + Len(r.password) /\ back[Len(back)] = r.password[Len(r.password)]
  <2>1. <<"password">> \in Seq(Tokens) /\ Len(<<"password">>) = 1
    BY OneInSeq DEF Tokens
  <2> QED
    BY <1>1, <1>3, <2>1, ConcatProperties
<1>5. Len(Body(r)) = Len(front) + Len(back) /\ Body(r)[Len(Body(r))] = back[Len(back)]
  <2> HIDE DEF front, back
  <2>1. Body(r) = front \o back
    BY DEF Body, front, back
  <2>2. Len(back) \in Nat \ {0}
    BY <1>3, <1>4
  <2> QED
    BY <1>1, <1>3, <2>1, <2>2, ConcatProperties
<1> QED
  BY <1>4, <1>5 DEF Last

LEMMA Largest ==
  ASSUME NEW n \in Nat, NEW T, T \subseteq 1..n, T # {}
  PROVE  \E x \in T : \A y \in T : x >= y
<1> DEFINE Above(x) == (x + 1)..n
           A == {Above(x) : x \in T}
<1>1. IsFiniteSet(1..n)
  BY FS_Interval
<1>2. IsWellFoundedOn(StrictSubsetOrdering(1..n), FiniteSubsetsOf(1..n))
  BY FS_StrictSubsetOrderingWellFounded
<1>3. A \subseteq FiniteSubsetsOf(1..n) /\ A # {}
  <2>1. ASSUME NEW x \in T PROVE Above(x) \in SUBSET (1..n) /\ IsFiniteSet(Above(x))
    BY <1>1, FS_Subset
  <2> QED
    BY <2>1 DEF FiniteSubsetsOf
<1>4. \E x \in T : \A y \in T : ~(<<Above(y), Above(x)>> \in StrictSubsetOrdering(1..n))
  <2>1. \E a \in A : \A b \in A : ~(<<b, a>> \in StrictSubsetOrdering(1..n))
    <3> HIDE DEF A
    <3> QED
      BY <1>2, <1>3, WFMin
  <2> QED
    BY <2>1
<1>5. ASSUME NEW x \in T, NEW y \in T, x < y
      PROVE <<Above(y), Above(x)>> \in StrictSubsetOrdering(1..n)
  <2>1. Above(y) \in SUBSET (1..n) /\ Above(x) \in SUBSET (1..n)
    OBVIOUS
  <2>2. y \in Above(x) /\ y \notin Above(y) /\ Above(y) \subseteq Above(x)
    BY <1>5
  <2> QED
    BY <2>1, <2>2 DEF StrictSubsetOrdering
<1>6. PICK x \in T : \A y \in T : ~(<<Above(y), Above(x)>> \in StrictSubsetOrdering(1..n))
  BY <1>4
<1>7. \A y \in T : ~(x < y)
  BY <1>5, <1>6
<1>8. \A y \in T : y \in Int
  OBVIOUS
<1> QED
  BY <1>7, <1>8

\* A value is one of the tokens that were sent.
LEMMA ValueIsSent ==
  ASSUME buffer.body \in Seq(Tokens), NEW key,
         Len(buffer.body) + 1 \notin ValuesOf(key), Value(key) # None
  PROVE  Value(key) \in ToSet(buffer.body)
<1>1. Len(buffer.body) \in Nat /\ DOMAIN buffer.body = 1..Len(buffer.body)
  BY LenProperties
<1>2. ValuesOf(key) # {} /\ Value(key) = buffer.body[Max(ValuesOf(key))]
  BY DEF Value
<1>3. ValuesOf(key) \subseteq 1..Len(buffer.body)
  BY <1>1 DEF ValuesOf
<1>4. Max(ValuesOf(key)) \in ValuesOf(key)
  BY <1>1, <1>2, <1>3, Largest DEF Max
<1> QED
  BY <1>1, <1>2, <1>3, <1>4 DEF ToSet

\* strtok finds a name and a password that are one token each.
LEMMA TypedValues ==
  ASSUME NEW s, NEW p, buffer.body = <<"ssid", s, "password", p>>, s # "ssid",
         5 \notin ValuesOf("ssid") \cup ValuesOf("password")
  PROVE  Value("ssid") = s /\ Value("password") = p
<1>1. /\ DOMAIN buffer.body = {1, 2, 3, 4}
      /\ buffer.body[1] = "ssid" /\ buffer.body[2] = s
      /\ buffer.body[3] = "password" /\ buffer.body[4] = p
  OBVIOUS
<1>2. p # "ssid" /\ p # "password"
  BY <1>1 DEF ValuesOf
<1>3. ValuesOf("ssid") = {2} /\ Max({2}) = 2
  BY <1>1, <1>2, MaxOfOne DEF ValuesOf
<1>4. CASE s = "password"
  <2>1. ValuesOf("password") = {3, 4}
    BY <1>1, <1>2, <1>4 DEF ValuesOf
  <2>2. Max({3, 4}) = 4
    BY DEF Max
  <2> QED
    BY <1>1, <1>3, <2>1, <2>2 DEF Value
<1>5. CASE s # "password"
  <2>1. ValuesOf("password") = {4} /\ Max({4}) = 4
    BY <1>1, <1>2, <1>5, MaxOfOne DEF ValuesOf
  <2> QED
    BY <1>1, <1>3, <2>1 DEF Value
<1> QED
  BY <1>4, <1>5

LEMMA TypedBody ==
  ASSUME NEW r \in Requests, Len(r.ssid) = 1, Len(r.password) = 1
  PROVE  /\ r.ssid = <<r.ssid[1]>> /\ r.password = <<r.password[1]>>
         /\ Body(r) = <<"ssid", r.ssid[1], "password", r.password[1]>>
<1>1. r.ssid = <<r.ssid[1]>> /\ r.password = <<r.password[1]>>
  BY RequestType
<1>2. /\ <<"ssid">> \o <<r.ssid[1]>> = <<"ssid", r.ssid[1]>>
      /\ <<"password">> \o <<r.password[1]>> = <<"password", r.password[1]>>
  BY OneAndOne
<1>3. <<"ssid", r.ssid[1]>> \o <<"password", r.password[1]>>
        = <<"ssid", r.ssid[1], "password", r.password[1]>>
  BY TwoAndTwo
<1> QED
  BY <1>1, <1>2, <1>3 DEF Body

-----------------------------------------------------------------------------
(* The invariant.                                                          *)

\* What ConnectsAsTyped says of the pair that is joined for a request.
AsTyped(pair, request) ==
  /\ pair[1] \in ToSet(Body(request)) /\ pair[2] \in ToSet(Body(request))
  /\ Len(request.ssid) = 1 /\ Len(request.password) = 1 /\ request.ssid # <<"ssid">> =>
       <<pair[1]>> = request.ssid /\ <<pair[2]>> = request.password

LEMMA TypedIs ==
  ConnectsAsTyped <=> (pc \in {"down"} \cup StationSteps => AsTyped(target, asked[hand]))
BY DEF ConnectsAsTyped, AsTyped

LEMMA PostCases ==
  ASSUME NEW r \in Requests, buffer.body = Body(r), handle_post_request
  PROVE  \/ pc' = "refuse" /\ UNCHANGED target
         \/ pc' = "exit" /\ UNCHANGED target /\ EndsInKey(r)
         \/ pc' = "down" /\ AsTyped(target', r) /\ target' \in Tokens \X Tokens
<1>0. buffer.body \in Seq(Tokens) /\ Len(buffer.body) \in Nat
      /\ DOMAIN buffer.body = 1..Len(buffer.body)
  BY BodyType, LenProperties
<1>1. CASE Len(buffer.body) + 1 \in ValuesOf("ssid") \cup ValuesOf("password")
  <2>1. buffer.body[Len(buffer.body)] \in {"ssid", "password"}
    BY <1>0, <1>1 DEF ValuesOf
  <2> QED
    BY <1>1, <2>1, KeyAtEnd DEF handle_post_request
<1>2. CASE /\ Len(buffer.body) + 1 \notin ValuesOf("ssid") \cup ValuesOf("password")
           /\ Value("ssid") # None /\ Value("password") # None
  <2>1. pc' = "down" /\ target' = <<Value("ssid"), Value("password")>>
    BY <1>2 DEF handle_post_request
  <2>2. Value("ssid") \in ToSet(Body(r)) /\ Value("password") \in ToSet(Body(r))
    BY <1>0, <1>2, ValueIsSent
  <2>3. ToSet(Body(r)) \subseteq Tokens
    BY BodyType DEF ToSet
  <2>4. ASSUME Len(r.ssid) = 1, Len(r.password) = 1, r.ssid # <<"ssid">>
        PROVE  <<Value("ssid")>> = r.ssid /\ <<Value("password")>> = r.password
    <3>1. /\ r.ssid = <<r.ssid[1]>> /\ r.password = <<r.password[1]>>
          /\ Body(r) = <<"ssid", r.ssid[1], "password", r.password[1]>>
      BY <2>4, TypedBody
    <3>2. r.ssid[1] # "ssid" /\ Len(buffer.body) + 1 = 5
      BY <2>4, <3>1
    <3>3. Value("ssid") = r.ssid[1] /\ Value("password") = r.password[1]
      BY <1>2, <3>1, <3>2, TypedValues
    <3> QED
      BY <3>1, <3>3
  <2> QED
    BY <2>1, <2>2, <2>3, <2>4 DEF AsTyped
<1>3. CASE /\ Len(buffer.body) + 1 \notin ValuesOf("ssid") \cup ValuesOf("password")
           /\ ~(Value("ssid") # None /\ Value("password") # None)
  BY <1>3 DEF handle_post_request
<1> QED
  BY <1>1, <1>2, <1>3

LEMMA DispatchCases ==
  ASSUME IInv, Dispatch
  PROVE  /\ hand \in Clients /\ asked[hand] \in Requests
         /\ \/ pc' \in {"header", "not_found", "refuse"} /\ UNCHANGED target
            \/ pc' = "exit" /\ UNCHANGED target /\ EndsInKey(asked[hand])
            \/ /\ pc' = "down"
               /\ AsTyped(target', asked[hand]) /\ target' \in Tokens \X Tokens
<1>0. pc = "dispatch" /\ TypeOK /\ ServingInv /\ BufferInv
  BY DEF IInv, Dispatch
<1>1. hand \in Clients /\ asked[hand] \in Requests
  BY <1>0 DEF ServingInv, Serving, TypeOK
<1>2. CASE buffer.line # "save"
  BY <1>0, <1>1, <1>2 DEF Dispatch
<1>3. CASE buffer.line = "save"
  <2>1. handle_post_request
    BY <1>0, <1>3 DEF Dispatch
  <2>2. CASE buffer.body = <<>>
    <3>1. ValuesOf("ssid") = {} /\ ValuesOf("password") = {} /\ Value("ssid") = None
      BY <2>2, NoValueOf
    <3> QED
      BY <1>1, <1>3, <2>1, <2>2, <3>1 DEF handle_post_request
  <2>3. CASE buffer.body = Body(asked[hand])
    BY <1>1, <2>1, <2>3, PostCases
  <2> QED
    BY <1>0, <2>2, <2>3 DEF BufferInv
<1> QED
  BY <1>2, <1>3

LEMMA TypeStep == IInv /\ [Next]_vars => TypeOK'
<1> SUFFICES ASSUME IInv, [Next]_vars PROVE TypeOK'
  OBVIOUS
<1>0. TypeOK /\ ServingInv
  BY DEF IInv
<1> USE <1>0, WebserverAssumption DEF TypeOK, HotspotSteps, StationSteps, serverVars, clientVars, bounds
<1>1. ASSUME start_softap_mode PROVE TypeOK'
  BY <1>1 DEF start_softap_mode
<1>2. ASSUME stop_softap_mode PROVE TypeOK'
  BY <1>2 DEF stop_softap_mode
<1>3. ASSUME start_station_mode PROVE TypeOK'
  BY <1>3 DEF start_station_mode
<1>4. ASSUME connect PROVE TypeOK'
  BY <1>4 DEF connect, JoinFails
<1>5. ASSUME Socket PROVE TypeOK'
  BY <1>5 DEF Socket
<1>6. ASSUME Accept PROVE TypeOK'
  <2>1. hand' \in Clients /\ queue' \in Seq(Clients)
    BY <1>6, HeadTailProperties DEF Accept
  <2> QED
    BY <1>6, <2>1 DEF Accept
<1>7. ASSUME Read PROVE TypeOK'
  <2>1. hand \in Clients /\ asked[hand] \in Requests
    BY <1>7 DEF Read, Serving, IInv, TypeOK, ServingInv
  <2>2. Body(asked[hand]) \in Seq(Tokens) /\ asked[hand].kind \in {"index", "save", "other"}
    BY <2>1, BodyType, RequestType
  <2>3. <<>> \in Seq(Tokens)
    OBVIOUS
  <2>4. buffer'.line \in {None, "index", "save", "other"} /\ buffer'.body \in Seq(Tokens)
    <3>1. CASE UNCHANGED buffer
      BY <3>1
    <3>2. CASE buffer' = [line |-> None, body |-> <<>>]
      BY <2>3, <3>2
    <3>3. CASE buffer' = Fill(hand)
      BY <2>2, <2>3, <3>3 DEF Fill
    <3> QED
      BY <1>7, <3>1, <3>2, <3>3 DEF Read
  <2> QED
    BY <1>7, <2>4 DEF Read
<1>8. ASSUME Dispatch PROVE TypeOK'
  <2>1. target' \in (Tokens \cup {None}) \X (Tokens \cup {None})
    BY <1>8, DispatchCases DEF Tokens
  <2>2. pc' \in {"header", "not_found", "refuse", "down", "exit"}
    BY <1>8, DispatchCases
  <2> QED
    BY <1>8, <2>1, <2>2 DEF Dispatch
<1>9. ASSUME serve_html PROVE TypeOK'
  BY <1>9 DEF serve_html, Send, Serving, ServingInv
<1>10. ASSUME Refuse PROVE TypeOK'
  BY <1>10 DEF Refuse, Send, Serving, ServingInv
<1>11. ASSUME NotFound PROVE TypeOK'
  BY <1>11 DEF NotFound, Send, Serving, ServingInv
<1>12. ASSUME Close PROVE TypeOK'
  BY <1>12 DEF Close
<1>13. ASSUME CommandFails PROVE TypeOK'
  <2>1. faults' \in 0..MaxFaults /\ pc' \in {"exit", "hotspot"} /\ UNCHANGED air
    BY <1>13 DEF CommandFails, Fault, JoinFails
  <2> QED
    BY <1>13, <2>1 DEF CommandFails
<1>14. ASSUME NEW c \in Clients, Connect(c) PROVE TypeOK'
  <2>1. queue' \in Seq(Clients)
    BY <1>14, AppendProperties DEF Connect
  <2> QED
    BY <1>14, <2>1 DEF Connect
<1>15. ASSUME NEW c \in Clients, Deliver(c) PROVE TypeOK'
  BY <1>15 DEF Deliver
<1>16. ASSUME NEW c \in Clients, Hangup(c) PROVE TypeOK'
  <2>1. hangups' \in 0..MaxHangups
    BY <1>16 DEF Hangup
  <2> QED
    BY <1>16, <2>1 DEF Hangup
<1>17. ASSUME UNCHANGED vars PROVE TypeOK'
  BY <1>17 DEF vars
<1>18. ASSUME AcceptFails PROVE TypeOK'
  BY <1>18 DEF AcceptFails, Fault
<1>19. ASSUME HtmlMissing PROVE TypeOK'
  BY <1>19 DEF HtmlMissing, Fault
<1> QED
  BY <1>1, <1>2, <1>3, <1>4, <1>5, <1>6, <1>7, <1>8, <1>9,
     <1>10, <1>11, <1>12, <1>13, <1>14, <1>15, <1>16, <1>17, <1>18, <1>19 DEF Next, Server

LEMMA ServingStep == IInv /\ [Next]_vars => ServingInv'
<1> SUFFICES ASSUME IInv, [Next]_vars PROVE ServingInv'
  OBVIOUS
<1>0. TypeOK /\ ServingInv
  BY DEF IInv
<1> USE <1>0, WebserverAssumption DEF ServingInv, Serving, HotspotSteps, StationSteps, TypeOK, OnAir, serverVars, clientVars, bounds
<1>1. ASSUME start_softap_mode PROVE ServingInv'
  BY <1>1 DEF start_softap_mode
<1>2. ASSUME stop_softap_mode PROVE ServingInv'
  <2>1. air = "ready" /\ hand \in Clients /\ UNCHANGED hand
    BY <1>2 DEF stop_softap_mode
  <2>2. (pc' = "radio_off" /\ air' = None) \/ (pc' = "exit" /\ UNCHANGED air)
    BY <1>2 DEF stop_softap_mode
  <2> QED
    BY <2>1, <2>2 DEF None
<1>3. ASSUME start_station_mode PROVE ServingInv'
  BY <1>3 DEF start_station_mode
<1>4. ASSUME connect PROVE ServingInv'
  BY <1>4 DEF connect, JoinFails
<1>5. ASSUME Socket PROVE ServingInv'
  BY <1>5 DEF Socket
<1>6. ASSUME Accept PROVE ServingInv'
  <2>1. hand' \in Clients
    BY <1>6, HeadTailProperties DEF Accept, TypeOK
  <2> QED
    BY <1>6, <2>1 DEF Accept
<1>7. ASSUME Read PROVE ServingInv'
  BY <1>7 DEF Read
<1>8. ASSUME Dispatch PROVE ServingInv'
  BY <1>8, DispatchCases DEF Dispatch
<1>9. ASSUME serve_html PROVE ServingInv'
  BY <1>9 DEF serve_html, Send
<1>10. ASSUME Refuse PROVE ServingInv'
  BY <1>10 DEF Refuse, Send
<1>11. ASSUME NotFound PROVE ServingInv'
  BY <1>11 DEF NotFound, Send
<1>12. ASSUME Close PROVE ServingInv'
  BY <1>12 DEF Close
<1>13. ASSUME CommandFails PROVE ServingInv'
  BY <1>13 DEF CommandFails, Fault, JoinFails
<1>14. ASSUME NEW c \in Clients, Connect(c) PROVE ServingInv'
  BY <1>14 DEF Connect
<1>15. ASSUME NEW c \in Clients, Deliver(c) PROVE ServingInv'
  BY <1>15 DEF Deliver
<1>16. ASSUME NEW c \in Clients, Hangup(c) PROVE ServingInv'
  BY <1>16 DEF Hangup
<1>17. ASSUME UNCHANGED vars PROVE ServingInv'
  BY <1>17 DEF vars
<1>18. ASSUME AcceptFails PROVE ServingInv'
  BY <1>18 DEF AcceptFails, Fault
<1>19. ASSUME HtmlMissing PROVE ServingInv'
  BY <1>19 DEF HtmlMissing, Fault
<1> QED
  BY <1>1, <1>2, <1>3, <1>4, <1>5, <1>6, <1>7, <1>8, <1>9,
     <1>10, <1>11, <1>12, <1>13, <1>14, <1>15, <1>16, <1>17, <1>18, <1>19 DEF Next, Server

LEMMA BufferStep == IInv /\ [Next]_vars => BufferInv'
<1> SUFFICES ASSUME IInv, [Next]_vars PROVE BufferInv'
  OBVIOUS
<1>0. TypeOK /\ ServingInv /\ BufferInv
  BY DEF IInv
<1> USE <1>0, WebserverAssumption DEF BufferInv, serverVars, clientVars, bounds
<1>1. ASSUME start_softap_mode PROVE BufferInv'
  BY <1>1 DEF start_softap_mode
<1>2. ASSUME stop_softap_mode PROVE BufferInv'
  BY <1>2 DEF stop_softap_mode
<1>3. ASSUME start_station_mode PROVE BufferInv'
  BY <1>3 DEF start_station_mode
<1>4. ASSUME connect PROVE BufferInv'
  BY <1>4 DEF connect, JoinFails
<1>5. ASSUME Socket PROVE BufferInv'
  BY <1>5 DEF Socket
<1>6. ASSUME Accept PROVE BufferInv'
  BY <1>6 DEF Accept
<1>7. ASSUME Read PROVE BufferInv'
  <2>1. UNCHANGED <<hand, asked>>
    BY <1>7 DEF Read
  <2>2. CASE pc' = "dispatch" /\ buffer' = [line |-> None, body |-> <<>>]
    BY <2>1, <2>2
  <2>3. CASE buffer' = Fill(hand)
    BY <2>1, <2>3 DEF Fill
  <2> QED
    BY <1>7, <2>2, <2>3 DEF Read
<1>8. ASSUME Dispatch PROVE BufferInv'
  BY <1>8, DispatchCases DEF Dispatch
<1>9. ASSUME serve_html PROVE BufferInv'
  BY <1>9 DEF serve_html, Send
<1>10. ASSUME Refuse PROVE BufferInv'
  BY <1>10 DEF Refuse, Send
<1>11. ASSUME NotFound PROVE BufferInv'
  BY <1>11 DEF NotFound, Send
<1>12. ASSUME Close PROVE BufferInv'
  BY <1>12 DEF Close
<1>13. ASSUME CommandFails PROVE BufferInv'
  BY <1>13 DEF CommandFails, Fault, JoinFails
<1>14. ASSUME NEW c \in Clients, Connect(c) PROVE BufferInv'
  BY <1>14 DEF Connect
<1>15. ASSUME NEW c \in Clients, Deliver(c) PROVE BufferInv'
  BY <1>15 DEF Deliver
<1>16. ASSUME NEW c \in Clients, Hangup(c) PROVE BufferInv'
  BY <1>16 DEF Hangup
<1>17. ASSUME UNCHANGED vars PROVE BufferInv'
  BY <1>17 DEF vars
<1>18. ASSUME AcceptFails PROVE BufferInv'
  BY <1>18 DEF AcceptFails, Fault
<1>19. ASSUME HtmlMissing PROVE BufferInv'
  BY <1>19 DEF HtmlMissing, Fault
<1> QED
  BY <1>1, <1>2, <1>3, <1>4, <1>5, <1>6, <1>7, <1>8, <1>9,
     <1>10, <1>11, <1>12, <1>13, <1>14, <1>15, <1>16, <1>17, <1>18, <1>19 DEF Next, Server

LEMMA TargetStep == IInv /\ [Next]_vars => ConnectsAsTyped'
<1> SUFFICES ASSUME IInv, [Next]_vars PROVE ConnectsAsTyped'
  OBVIOUS
<1>0. TypeOK /\ ServingInv /\ ConnectsAsTyped
  BY DEF IInv
<1> USE <1>0, WebserverAssumption DEF ConnectsAsTyped, StationSteps, serverVars, clientVars, bounds
<1>1. ASSUME start_softap_mode PROVE ConnectsAsTyped'
  BY <1>1 DEF start_softap_mode
<1>2. ASSUME stop_softap_mode PROVE ConnectsAsTyped'
  BY <1>2 DEF stop_softap_mode
<1>3. ASSUME start_station_mode PROVE ConnectsAsTyped'
  BY <1>3 DEF start_station_mode
<1>4. ASSUME connect PROVE ConnectsAsTyped'
  BY <1>4 DEF connect, JoinFails
<1>5. ASSUME Socket PROVE ConnectsAsTyped'
  BY <1>5 DEF Socket
<1>6. ASSUME Accept PROVE ConnectsAsTyped'
  BY <1>6 DEF Accept
<1>7. ASSUME Read PROVE ConnectsAsTyped'
  BY <1>7 DEF Read
<1>8. ASSUME Dispatch PROVE ConnectsAsTyped'
  <2>1. UNCHANGED <<hand, asked>>
    BY <1>8 DEF Dispatch
  <2>2. pc' = "down" => AsTyped(target', asked[hand])
    BY <1>8, DispatchCases
  <2>3. pc' \notin StationSteps
    BY <1>8, DispatchCases DEF StationSteps
  <2> QED
    BY <2>1, <2>2, <2>3 DEF AsTyped
<1>9. ASSUME serve_html PROVE ConnectsAsTyped'
  BY <1>9 DEF serve_html, Send
<1>10. ASSUME Refuse PROVE ConnectsAsTyped'
  BY <1>10 DEF Refuse, Send
<1>11. ASSUME NotFound PROVE ConnectsAsTyped'
  BY <1>11 DEF NotFound, Send
<1>12. ASSUME Close PROVE ConnectsAsTyped'
  BY <1>12 DEF Close
<1>13. ASSUME CommandFails PROVE ConnectsAsTyped'
  BY <1>13 DEF CommandFails, Fault, JoinFails
<1>14. ASSUME NEW c \in Clients, Connect(c) PROVE ConnectsAsTyped'
  BY <1>14 DEF Connect
<1>15. ASSUME NEW c \in Clients, Deliver(c) PROVE ConnectsAsTyped'
  BY <1>15 DEF Deliver
<1>16. ASSUME NEW c \in Clients, Hangup(c) PROVE ConnectsAsTyped'
  BY <1>16 DEF Hangup
<1>17. ASSUME UNCHANGED vars PROVE ConnectsAsTyped'
  BY <1>17 DEF vars
<1>18. ASSUME AcceptFails PROVE ConnectsAsTyped'
  BY <1>18 DEF AcceptFails, Fault
<1>19. ASSUME HtmlMissing PROVE ConnectsAsTyped'
  BY <1>19 DEF HtmlMissing, Fault
<1> QED
  BY <1>1, <1>2, <1>3, <1>4, <1>5, <1>6, <1>7, <1>8, <1>9,
     <1>10, <1>11, <1>12, <1>13, <1>14, <1>15, <1>16, <1>17, <1>18, <1>19 DEF Next, Server

LEMMA ExitStep == IInv /\ [Next]_vars => ExitInv'
<1> SUFFICES ASSUME IInv, [Next]_vars PROVE ExitInv'
  OBVIOUS
<1>0. TypeOK /\ ServingInv /\ ExitInv
  BY DEF IInv
<1> USE <1>0, WebserverAssumption DEF ExitInv, EndsJoined, Serving, TypeOK, ServingInv, serverVars, clientVars, bounds
<1>1. ASSUME start_softap_mode PROVE ExitInv'
  BY <1>1 DEF start_softap_mode
<1>2. ASSUME stop_softap_mode PROVE ExitInv'
  <2>1. NmHotspot => pc' # "exit"
    BY <1>2 DEF stop_softap_mode, OnAir
  <2> QED
    BY <1>2, <2>1 DEF stop_softap_mode
<1>3. ASSUME start_station_mode PROVE ExitInv'
  BY <1>3 DEF start_station_mode
<1>4. ASSUME connect PROVE ExitInv'
  BY <1>4 DEF connect, JoinFails
<1>5. ASSUME Socket PROVE ExitInv'
  BY <1>5 DEF Socket
<1>6. ASSUME Accept PROVE ExitInv'
  BY <1>6 DEF Accept
<1>7. ASSUME Read PROVE ExitInv'
  BY <1>7 DEF Read
<1>8. ASSUME Dispatch PROVE ExitInv'
  <2>1. UNCHANGED <<hand, asked, faults, hangups, state, air>> /\ pc # "exit"
    BY <1>8 DEF Dispatch
  <2>2. pc' = "exit" => hand # None /\ EndsInKey(asked[hand])
    BY <1>8, DispatchCases
  <2> QED
    BY <2>1, <2>2
<1>9. ASSUME serve_html PROVE ExitInv'
  BY <1>9 DEF serve_html, Send
<1>10. ASSUME Refuse PROVE ExitInv'
  BY <1>10 DEF Refuse, Send
<1>11. ASSUME NotFound PROVE ExitInv'
  BY <1>11 DEF NotFound, Send
<1>12. ASSUME Close PROVE ExitInv'
  BY <1>12 DEF Close
<1>13. ASSUME CommandFails PROVE ExitInv'
  BY <1>13 DEF CommandFails, Fault, JoinFails
<1>14. ASSUME NEW c \in Clients, Connect(c) PROVE ExitInv'
  BY <1>14 DEF Connect
<1>15. ASSUME NEW c \in Clients, Deliver(c) PROVE ExitInv'
  BY <1>15 DEF Deliver
<1>16. ASSUME NEW c \in Clients, Hangup(c) PROVE ExitInv'
  BY <1>16 DEF Hangup
<1>17. ASSUME UNCHANGED vars PROVE ExitInv'
  BY <1>17 DEF vars
<1>18. ASSUME AcceptFails PROVE ExitInv'
  BY <1>18 DEF AcceptFails, Fault
<1>19. ASSUME HtmlMissing PROVE ExitInv'
  BY <1>19 DEF HtmlMissing, Fault
<1> QED
  BY <1>1, <1>2, <1>3, <1>4, <1>5, <1>6, <1>7, <1>8, <1>9,
     <1>10, <1>11, <1>12, <1>13, <1>14, <1>15, <1>16, <1>17, <1>18, <1>19 DEF Next, Server

LEMMA InitInv == Init => IInv
<1> SUFFICES ASSUME Init PROVE IInv
  OBVIOUS
<1>1. TypeOK
  BY WebserverAssumption DEF Init, TypeOK, NmcliStart, HostapdStart, HotspotSteps
<1>2. ServingInv /\ BufferInv /\ ConnectsAsTyped
  BY DEF Init, NmcliStart, HostapdStart, ServingInv, BufferInv, ConnectsAsTyped, Serving, StationSteps, None
<1>3. ExitInv
  BY DEF Init, NmcliStart, HostapdStart, ExitInv, EndsJoined, None
<1> QED
  BY <1>1, <1>2, <1>3 DEF IInv

LEMMA NextInv == IInv /\ [Next]_vars => IInv'
BY TypeStep, ServingStep, BufferStep, TargetStep, ExitStep DEF IInv

LEMMA Always == Spec => []IInv
<1> QED
  BY InitInv, NextInv, PTL DEF Spec

-----------------------------------------------------------------------------
\* The variables have their types: the server is at one of its steps, the
\* request it serves is one of a client, and target holds what was typed.
THEOREM TypeCorrect == Spec => []TypeOK
<1>1. IInv => TypeOK
  BY DEF IInv
<1> QED
  BY Always, <1>1, PTL

\* Whenever the server waits, its hotspot is there with its address.
THEOREM ServerReachable == Spec => []WaitsReachable
<1>1. IInv => WaitsReachable
  BY DEF IInv, ServingInv, WaitsReachable
<1> QED
  BY Always, <1>1, PTL

\* The board joins what the phone in hand has typed, when that is a token
\* each, and in any case nothing of an earlier request.
THEOREM JoinsAsTyped == Spec => []ConnectsAsTyped
<1>1. IInv => ConnectsAsTyped
  BY DEF IInv
<1> QED
  BY Always, <1>1, PTL

\* With a hotspot of NetworkManager's own the server waits with its hotspot
\* there, and the program ends in a network, unless a command failed, a
\* client hung up, or strdup(NULL) ended it on a request that ends in a key.
THEOREM NotStranded == NmHotspot /\ Spec => []NeverStranded
<1>1. NmHotspot /\ IInv => NeverStranded
  BY DEF IInv, ExitInv, ServingInv, NeverStranded, WaitsReachable, EndsJoined
<1> SUFFICES ASSUME NmHotspot PROVE Spec => []NeverStranded
  OBVIOUS
<1> QED
  BY Always, <1>1, PTL
=============================================================================
