---------------------------- MODULE MCUartRetry ----------------------------
(* Small instances of UartRetry. *)
EXTENDS UartRetry

F(id, value) == [id |-> id, value |-> value]

\* The light report of Seiral.txt and its change, each with the register
\* behind it.
MCReports == {<<F(125, 0), F(126, 0)>>, <<F(125, 1), F(126, 0)>>}

\* The conditions of the theorem about QuietMeansCurrent.
ASSUME SplitsShow /\ QuantityShows

MCTable == 125 :> "led" @@ 126 :> "light"
MCFiles == "led" :> "alarms" @@ "light" :> "alarms"
=============================================================================
