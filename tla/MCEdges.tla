------------------------------- MODULE MCEdges ------------------------------
(* Instances for TLC of the components at the edges of the process, to the *)
(* broker's data and to the operator: one run explores each of them on its *)
(* own, the others staying where they start.                               *)
EXTENDS IbSnapshots, Feed, Uptime, Console, Telegram

VARIABLE focus    \* the component that moves

vars == <<focus, snapVars, feedVars, uptimeVars, consoleVars, telegramVars>>

Init ==
  /\ focus \in {"snapshots", "feed", "uptime", "console", "telegram"}
  /\ SnapInit /\ FeedInit /\ UptimeInit /\ ConsoleInit /\ TelegramInit
  /\ focus # "feed" => role = "api"
  /\ focus # "console" => truth["roster"].target = "SIM"

Next ==
  \/ focus = "snapshots" /\ SnapNext
     /\ UNCHANGED <<focus, feedVars, uptimeVars, consoleVars, telegramVars>>
  \/ focus = "feed" /\ FeedNext
     /\ UNCHANGED <<focus, snapVars, uptimeVars, consoleVars, telegramVars>>
  \/ focus = "uptime" /\ UptimeNext
     /\ UNCHANGED <<focus, snapVars, feedVars, consoleVars, telegramVars>>
  \/ focus = "console" /\ ConsoleNext
     /\ UNCHANGED <<focus, snapVars, feedVars, uptimeVars, telegramVars>>
  \/ focus = "telegram" /\ TelegramNext
     /\ UNCHANGED <<focus, snapVars, feedVars, uptimeVars, consoleVars>>

Spec == Init /\ [][Next]_vars /\ FeedFair /\ UptimeFair /\ ConsoleFair /\ TelegramFair

\* Every variable of the five keeps its type.
TypesOK == SnapTypeOK /\ FeedTypeOK /\ UptimeTypeOK /\ ConsoleTypeOK
           /\ TelegramTypeOK
=============================================================================
