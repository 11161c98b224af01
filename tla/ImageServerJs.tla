--------------------------- MODULE ImageServerJs ---------------------------
(***************************************************************************)
(* src/v002/pic_sender/server_jpg.js instead of server_jpg.c, with the     *)
(* sender of DirectSender. The event loop takes up every connection at     *)
(* once, gives it the next number and serves all of them side by side.     *)
(* server is "accept" while the process runs; open[k] is the number of the *)
(* file that the k-th connection of queue is written to.                   *)
(***************************************************************************)
EXTENDS DirectSender

VARIABLE
  open   \* the files of the connections that have been taken up

jsVars == <<vars, open>>

JsInit == Init /\ open = <<>>

\* Variant: the number goes up when the connection ends.
JsConnectionUncounted ==
  /\ server = "accept" /\ Len(open) < Len(queue)
  /\ open' = Append(open, img_cnt)
  /\ received' = [received EXCEPT ![img_cnt] = <<>>]
  /\ UNCHANGED <<boardVars, queue, server, img_cnt, sentVars, faults, exits, cuts>>

\* Variant: one connection after the other.
JsConnectionAlone ==
  /\ server = "accept" /\ open = <<>> /\ Len(open) < Len(queue)
  /\ open' = Append(open, img_cnt) /\ img_cnt' = img_cnt + 1
  /\ received' = [received EXCEPT ![img_cnt] = <<>>]
  /\ UNCHANGED <<boardVars, queue, server, sentVars, faults, exits, cuts>>

\* net.createServer's callback.
JsConnection ==
  /\ server = "accept" /\ Len(open) < Len(queue)
  /\ open' = Append(open, img_cnt) /\ img_cnt' = img_cnt + 1
  /\ received' = [received EXCEPT ![img_cnt] = <<>>]
  /\ UNCHANGED <<boardVars, queue, server, sentVars, faults, exits, cuts>>

\* socket.on('data')
JsData(k) ==
  /\ server = "accept" /\ queue[k].parts # <<>>
  /\ received' = [received EXCEPT ![open[k]] = Append(@, Head(queue[k].parts))]
  /\ queue' = [queue EXCEPT ![k].parts = Tail(@)]
  /\ UNCHANGED <<boardVars, server, img_cnt, open, sentVars, faults, exits, cuts>>

\* socket.on('end'): a connection whose board is gone has none.
JsEnd(k) ==
  /\ server = "accept" /\ queue[k].parts = <<>> /\ queue[k].closed
  /\ queue' = RemoveAt(queue, k) /\ open' = RemoveAt(open, k)
  /\ UNCHANGED <<boardVars, serverVars, sentVars, faults, exits, cuts>>

\* socket.on('error'): the connection of a board that is gone is reset, when
\* something on the way notices that.
JsError(k) ==
  /\ server = "accept" /\ cuts > 0
  /\ ~queue[k].closed /\ ~(link = "up" /\ k = Len(queue))
  /\ queue' = RemoveAt(queue, k) /\ open' = RemoveAt(open, k)
  /\ UNCHANGED <<boardVars, serverVars, sentVars, faults, exits, cuts>>

\* The sender's connect. It waits only for connections that have not been
\* taken up.
JsConnect ==
  /\ pc = "connect" /\ server # "down" /\ Len(queue) - Len(open) <= Backlog
  /\ pc' = "open" /\ link' = "up"
  /\ queue' = Append(queue, [parts |-> <<>>, closed |-> FALSE])
  /\ made' = Append(made, <<>>)
  /\ clean' = Append(clean, IF failed THEN 0 ELSE run)
  /\ UNCHANGED <<files, run, cam, todo, at, failed, serverVars, open, faults, exits, cuts>>

JsSender ==
  \/ JsConnect
  \/ (DirectTake \/ DirectTakeFails \/ Transfer) /\ UNCHANGED open

JsServe(k) == JsData(k) \/ JsEnd(k)

JsStep == JsConnection \/ \E k \in DOMAIN open : JsServe(k)

JsNext ==
  \/ JsSender
  \/ (StartRun \/ ConnectGivesUp \/ PowerCut) /\ UNCHANGED open
  \/ JsStep \/ \E k \in DOMAIN open : JsError(k)
  \/ ServerExits /\ open' = <<>>
  \/ ServerStarts /\ UNCHANGED open

\* The event loop starves no connection.
JsSpec ==
  /\ JsInit /\ [][JsNext]_jsVars
  /\ WF_jsVars(JsSender) /\ WF_jsVars(JsConnection)
  /\ \A k \in 1..Cameras * MaxRuns : WF_jsVars(k \in DOMAIN open /\ JsServe(k))

-----------------------------------------------------------------------------

\* However many connections are open at the same time, file n holds what
\* connection n has brought, from the moment it was taken up until it ended;
\* then it is empty or all that one file of the board held, a picture as it
\* was taken; and a whole one of the run that sent it, if cameras and writes
\* had worked in that run until then.
JsReceivedInOrder ==
  server # "down" =>
    \A n \in 0..Len(made) - (Len(queue) - Len(open)) - 1 :
      /\ IsPrefix(received[n], made[n + 1])
      /\ cuts = 0 /\ (\A k \in DOMAIN open : open[k] # n) =>
           /\ received[n] = made[n + 1]
           /\ received[n] # <<>> =>
                \E c \in 1..Cameras, p \in Picture : p.turns = 0 /\ received[n] = Whole(c, p)
           /\ clean[n + 1] # 0 =>
                \E c \in 1..Cameras : received[n] = Whole(c, WholePicture(clean[n + 1], 0))

\* A run ends, even behind a connection whose board has lost its power:
\* nobody waits for it, as the C server does (RunEnds).
JsRunEnds == pc # "idle" ~> pc = "idle"
=============================================================================
