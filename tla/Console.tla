------------------------------ MODULE Console -------------------------------
(***************************************************************************)
(* The dashboard (apps/web) and what it edits: a strategy's mode and       *)
(* target behind the promotion gate (apps/api/src/promotion, dashboard),   *)
(* the kill switch, the pending proposals and the filter of the LLM log.   *)
(* The browser polls, is pushed to, and shows whatever answer came last,   *)
(* to a poll or to an edit.  Edits of other browsers run beside its own.   *)
(* One panel is looked at in a behaviour.                                  *)
(***************************************************************************)
EXTENDS Naturals, FiniteSets

CONSTANTS
  Modes,             \* the modes chosen from
  MinTrades,         \* PROMOTION_MIN_CLOSED_TRADES
  OwnEdits,          \* edits of this browser
  OtherEdits,        \* edits of others
  Proposals,
  MaxFlips,          \* bound on switch flips and queries
  MaxInflight        \* bound on the different answers on their way at once

VARIABLES
  screen,       \* the panel looked at, "none" before
  closedTrades, \* rung -> trades closed there
  edits,        \* edit -> what it asks and how far its handler is
  promoted,     \* history: edits that raised the target
  truth,        \* panel -> what the api holds
  shown,        \* panel -> what the browser shows
  inflight,     \* panel -> answers to polls on their way
  dialog,       \* the AUTO confirmation is open
  busy,         \* controls wait for an edit
  flips,        \* switch flips and queries so far
  crossed,      \* history: a query was sent while another was loading
  failed        \* the log shows the error of its last load

consoleVars == <<screen, closedTrades, edits, promoted, truth, shown, inflight, dialog, busy, flips,
                 crossed, failed>>

apiVars     == <<closedTrades, edits, promoted, truth>>
browserVars == <<shown, inflight, dialog, busy>>

Targets == {"SIM", "PAPER", "LIVE"}
Panels  == {"roster", "switch", "approvals", "log"}
Edits   == OwnEdits \union OtherEdits

ASSUME ConsoleAssumption ==
  /\ {"WATCH", "AUTO"} \subseteq Modes /\ "same" \notin Modes
  /\ MinTrades \in Nat \ {0} /\ MaxFlips \in Nat /\ MaxInflight \in Nat \ {0}
  /\ OwnEdits \intersect OtherEdits = {}

Row(mode, target) == [mode |-> mode, target |-> target]

Edit(pc, mode, target, note) ==
  [pc |-> pc, mode |-> mode, target |-> target, note |-> note,
   before |-> Row("WATCH", "SIM"), raced |-> "no"]

Fresh == Edit("unsent", "same", "same", "")

AtFirst(target) == [p \in Panels |-> CASE p = "roster" -> Row("WATCH", target)
                                       [] p = "switch" -> "off"
                                       [] p = "approvals" -> Proposals
                                       [] p = "log" -> 0]

ConsoleInit ==
  /\ screen = "none"
  /\ closedTrades = [t \in Targets |-> 0]
  /\ edits = [e \in Edits |-> Fresh]
  /\ promoted = {}
  /\ \E target \in {"SIM", "PAPER"} : truth = AtFirst(target) /\ shown = truth
  /\ inflight = [p \in Panels |-> {}]
  /\ dialog = "closed" /\ busy = "no"
  /\ flips = 0 /\ crossed = "no" /\ failed = "no"

Open(p) ==
  /\ screen = "none"
  /\ screen' = p
  /\ UNCHANGED <<apiVars, browserVars, flips, crossed, failed>>

-----------------------------------------------------------------------------
(* The promotion gate and setStrategy                                      *)

Rung(target) == CASE target = "SIM" -> 0 [] target = "PAPER" -> 1 [] target = "LIVE" -> 2

\* classifyTargetChange; the server and the browser both compare rungs.
IsPromotion(from, to) == Rung(to) > Rung(from)

\* Mutant: the trades are counted at the rung promoted to.
GateCountsAhead(from, to, note) ==
  IsPromotion(from, to) => to # "LIVE" /\ note = "reviewed" /\ closedTrades[to] >= MinTrades

\* evaluatePromotionGate.
GateAllows(from, to, note) ==
  IsPromotion(from, to) => to # "LIVE" /\ note = "reviewed" /\ closedTrades[from] >= MinTrades

\* The controller refuses a body with neither mode nor target.
Send(e, mode, target, note) ==
  /\ edits[e].pc = "unsent"
  /\ <<mode, target>> # <<"same", "same">>
  /\ edits' = [edits EXCEPT ![e] = Edit("read", mode, target, note)]

\* Mutant: the answer is made of the change alone.
BecomesChange(e, field) == edits[e][field]

Becomes(e, field) == IF edits[e][field] = "same" THEN edits[e].before[field] ELSE edits[e][field]

ReadStrategy(e) ==
  LET before == truth["roster"]
  IN /\ edits[e].pc = "read"
     /\ edits' = [edits EXCEPT ![e].before = before,
          ![e].pc = IF edits[e].target \in {"same", before.target} THEN "write" ELSE "gate"]
     /\ UNCHANGED <<closedTrades, promoted, truth>>

\* A refusal is audited and answered with 422.
Gate(e) ==
  /\ edits[e].pc = "gate"
  /\ edits' = [edits EXCEPT ![e].pc =
       IF GateAllows(edits[e].before.target, edits[e].target, edits[e].note) THEN "write" ELSE "refused"]
  /\ UNCHANGED <<closedTrades, promoted, truth>>

\* The update sets the fields asked for, whatever the row holds by now.
WriteStrategy(e) ==
  LET row == truth["roster"]
      new == Row(IF edits[e].mode = "same" THEN row.mode ELSE edits[e].mode,
                 IF edits[e].target = "same" THEN row.target ELSE edits[e].target)
  IN /\ edits[e].pc = "write"
     /\ truth' = [truth EXCEPT !["roster"] = new]
     /\ promoted' = IF IsPromotion(row.target, new.target) THEN promoted \union {e} ELSE promoted
     /\ edits' = [f \in Edits |->
          CASE f = e -> [edits[f] EXCEPT !.pc = "written"]
            [] f # e /\ edits[f].pc \in {"gate", "write"} -> [edits[f] EXCEPT !.raced = "yes"]
            [] OTHER -> edits[f]]
     /\ UNCHANGED closedTrades

\* A position closes, at the target its strategy has.
TradeCloses(t) ==
  /\ screen = "roster" /\ t = truth["roster"].target
  /\ closedTrades[t] < MinTrades
  /\ closedTrades' = [closedTrades EXCEPT ![t] = @ + 1]
  /\ UNCHANGED <<screen, edits, promoted, truth, browserVars, flips, crossed, failed>>

HandlerStep(e) ==
  /\ ReadStrategy(e) \/ Gate(e) \/ WriteStrategy(e)
  /\ UNCHANGED <<screen, browserVars, flips, crossed, failed>>

\* Another browser, or a script, may ask for anything.
EditElsewhere(e) ==
  /\ screen = "roster"
  /\ \E mode \in Modes \union {"same"}, target \in Targets \union {"same"} :
       \E note \in IF target = "same" THEN {""} ELSE {"", "reviewed"} : Send(e, mode, target, note)
  /\ UNCHANGED <<screen, closedTrades, promoted, truth, browserVars, flips, crossed, failed>>

-----------------------------------------------------------------------------
(* The strategy controls                                                   *)

\* AUTO opens the dialog instead; what else was chosen is sent at once.
SelectMode(e, mode) ==
  /\ screen = "roster" /\ busy = "no" /\ mode # shown["roster"].mode
  /\ \/ mode = "AUTO" /\ dialog' = "open" /\ UNCHANGED <<edits, busy>>
     \/ mode # "AUTO" /\ Send(e, mode, "same", "") /\ busy' = "yes" /\ UNCHANGED dialog
  /\ UNCHANGED <<screen, closedTrades, promoted, truth, shown, inflight, flips, crossed, failed>>

AnswerDialog(e) ==
  /\ dialog = "open" /\ busy = "no"
  /\ dialog' = "closed"
  /\ \/ Send(e, "AUTO", "same", "") /\ busy' = "yes"
     \/ UNCHANGED <<edits, busy>>
  /\ UNCHANGED <<screen, closedTrades, promoted, truth, shown, inflight, flips, crossed, failed>>

\* A promotion, from the target shown, asks for a note first; without one nothing is sent.
ChangeTarget(e, target) ==
  /\ screen = "roster" /\ busy = "no" /\ target # shown["roster"].target
  /\ Send(e, "same", target, IF IsPromotion(shown["roster"].target, target) THEN "reviewed" ELSE "")
  /\ busy' = "yes"
  /\ UNCHANGED <<screen, closedTrades, promoted, truth, shown, inflight, dialog, flips, crossed, failed>>

\* The answer is what the handler read, with the change; it is shown as it is.
AnswerEdit(e) ==
  /\ edits[e].pc \in {"written", "refused"}
  /\ edits' = [edits EXCEPT ![e].pc = "answered"]
  /\ \/ e \in OwnEdits /\ busy' = "no"
     \/ e \in OtherEdits /\ UNCHANGED busy
  /\ shown' = IF e \in OwnEdits /\ edits[e].pc = "written"
                THEN [shown EXCEPT !["roster"] = Row(Becomes(e, "mode"), Becomes(e, "target"))]
                ELSE shown
  /\ UNCHANGED <<screen, closedTrades, promoted, truth, inflight, dialog, flips, crossed, failed>>

-----------------------------------------------------------------------------
(* Polls and pushes                                                        *)

\* Mutant: the roster follows the pushes alone.
PollIfPushed(p) ==
  /\ p = screen /\ p # "log"
  /\ p = "roster" => \E e \in Edits : edits[e].pc = "written"
  /\ inflight' = [inflight EXCEPT ![p] = @ \union {truth[p]}]
  /\ UNCHANGED <<screen, apiVars, shown, dialog, busy, flips, crossed, failed>>

\* A timer, a push or the window's focus; the api reads what it holds by then.
Poll(p) ==
  /\ p = screen /\ p # "log" /\ Cardinality(inflight[p]) < MaxInflight
  /\ inflight' = [inflight EXCEPT ![p] = @ \union {truth[p]}]
  /\ UNCHANGED <<screen, apiVars, shown, dialog, busy, flips, crossed, failed>>

\* Answers arrive in any order, and the last to arrive is shown.
Arrive(p) ==
  \E v \in inflight[p] :
    /\ inflight' = [inflight EXCEPT ![p] = @ \ {v}]
    /\ shown' = [shown EXCEPT ![p] = v]
    /\ UNCHANGED <<screen, apiVars, dialog, busy, flips, crossed, failed>>

\* A poll that fails is dropped; the next one follows.  A load of the log that fails is not
\* made again: the page stays, beside the error.
PollFails(p) ==
  \E v \in inflight[p] :
    /\ inflight' = [inflight EXCEPT ![p] = @ \ {v}]
    /\ failed' = IF p = "log" THEN "yes" ELSE failed
    /\ UNCHANGED <<screen, apiVars, shown, dialog, busy, flips, crossed>>

-----------------------------------------------------------------------------
(* The other panels                                                        *)

\* Trip or re-arm, here or elsewhere; here the answer is shown.
FlipSwitch ==
  LET new == IF truth["switch"] = "on" THEN "off" ELSE "on"
  IN /\ screen = "switch" /\ flips < MaxFlips
     /\ flips' = flips + 1
     /\ truth' = [truth EXCEPT !["switch"] = new]
     /\ \/ shown["switch"] = truth["switch"]
           /\ inflight' = [inflight EXCEPT !["switch"] = @ \union {new}]
        \/ UNCHANGED inflight
     /\ UNCHANGED <<screen, closedTrades, edits, promoted, shown, dialog, busy, crossed, failed>>

\* A proposal is decided or expires; the row decided here is dropped at once.
Decide(x) ==
  /\ screen = "approvals" /\ x \in truth["approvals"]
  /\ truth' = [truth EXCEPT !["approvals"] = @ \ {x}]
  /\ \/ shown' = [shown EXCEPT !["approvals"] = @ \ {x}]
     \/ UNCHANGED shown
  /\ UNCHANGED <<screen, closedTrades, edits, promoted, inflight, dialog, busy, flips, crossed, failed>>

\* setFilter loads at once, also while an earlier query is loading; goto waits.  The error
\* is cleared.
Filter ==
  /\ screen = "log" /\ flips < MaxFlips
  /\ flips' = flips + 1
  /\ truth' = [truth EXCEPT !["log"] = flips']
  /\ inflight' = [inflight EXCEPT !["log"] = @ \union {flips'}]
  /\ crossed' = IF inflight["log"] = {} THEN crossed ELSE "yes"
  /\ failed' = "no"
  /\ UNCHANGED <<screen, closedTrades, edits, promoted, shown, dialog, busy>>

ConsoleNext ==
  \/ \E p \in Panels : Open(p) \/ Poll(p) \/ Arrive(p) \/ PollFails(p)
  \/ \E e \in Edits : HandlerStep(e) \/ AnswerEdit(e)
  \/ \E e \in OtherEdits : EditElsewhere(e)
  \/ \E e \in OwnEdits :
       \/ AnswerDialog(e)
       \/ \E mode \in Modes : SelectMode(e, mode)
       \/ \E target \in Targets : ChangeTarget(e, target)
  \/ \E t \in Targets : TradeCloses(t)
  \/ \E x \in Proposals : Decide(x)
  \/ FlipSwitch \/ Filter

\* Polls keep being made, and not all of them fail.
ConsoleFair ==
  WF_consoleVars(\E p \in Panels : Poll(p)) /\ SF_consoleVars(\E p \in Panels : Arrive(p))

ConsoleSpec == ConsoleInit /\ [][ConsoleNext]_consoleVars /\ ConsoleFair

-----------------------------------------------------------------------------
(* Correctness                                                             *)

\* Every variable keeps its type.
ConsoleTypeOK ==
  /\ screen \in Panels \union {"none"}
  /\ closedTrades \in [Targets -> 0..MinTrades] /\ flips \in 0..MaxFlips
  /\ \A e \in Edits :
       /\ edits[e].pc \in {"unsent", "read", "gate", "write", "written", "refused", "answered"}
       /\ edits[e].mode \in Modes \union {"same"} /\ edits[e].target \in Targets \union {"same"}
       /\ edits[e].note \in {"", "reviewed"} /\ edits[e].raced \in {"yes", "no"}
  /\ \A r \in {truth["roster"], shown["roster"]} \union inflight["roster"] :
       r \in [mode : Modes, target : Targets]
  /\ \A v \in {truth["switch"], shown["switch"]} \union inflight["switch"] : v \in {"on", "off"}
  /\ promoted \subseteq Edits /\ {busy, crossed, failed} \subseteq {"yes", "no"} /\ dialog \in {"open", "closed"}

\* A strategy climbs a rung only with a note and enough trades closed on the rung it
\* leaves, and never to LIVE.  The first is not promised of an edit that another edit's
\* write overtook between its read and its own: the row is not read again.
PromotionIsEarned ==
  /\ \A e \in promoted :
       \/ edits[e].raced = "yes"
       \/ edits[e].note = "reviewed" /\ closedTrades[edits[e].before.target] >= MinTrades
  /\ truth["roster"].target # "LIVE"

\* What the dashboard shows settles on what the api holds: however answers to polls and
\* edits overtake each other, pushes are missed and edits come from elsewhere.  The log
\* is not polled: its page is that of its filter unless loads overlapped or the last one
\* failed, which the page says.
ConsoleSettles ==
  <>[](/\ \A p \in Panels \ {"log"} : shown[p] = truth[p]
       /\ crossed = "no" /\ failed = "no" => shown["log"] = truth["log"])
=============================================================================
