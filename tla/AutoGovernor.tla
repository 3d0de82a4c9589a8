--------------------------- MODULE AutoGovernor ----------------------------
(***************************************************************************)
(* The AUTO-mode governor (packages/core/src/auto-governor.ts) and the     *)
(* code that drives it: executeAuto admits and counts entries, from the    *)
(* queue worker's scan and from dev triggers beside it; the worker's       *)
(* monitor drains the trades that closed and feeds their results back.     *)
(* The counters live in the process; a restart forgets them, and the       *)
(* simulator's trades with them.                                           *)
(***************************************************************************)
EXTENDS Naturals, Sequences, FiniteSets

CONSTANTS
  AutoStrategies,
  Worker,           \* the queue worker
  Requests,         \* dev triggers
  MaxTradesPerDay, MaxConsecutiveLosses,
  LastDay,          \* bound on the clock, in UTC days
  MaxEntries,       \* bound on the entries admitted
  Disturbances,     \* of "approval", "mode", "throw", "restart": what occurs
  MaxDisturbances,
  None

VARIABLES
  today,       \* the UTC day
  autoMode,    \* strategies.mode
  state,       \* the governor's counters, None before the first touch
  open,        \* trades open on the simulator, by the day they were entered
  closed,      \* its closed-trade buffer, in closing order
  turns,       \* process -> where it waits and what it has read
  admitted,    \* history: entries admitted, what MaxEntries bounds
  entered,     \* history: <<strategy, day>> -> entries placed for it
  rolled,      \* history: times the count of that day was thrown away
  uncounted,   \* history: entries placed for it and never counted
  recent,      \* history: the last MaxConsecutiveLosses results recorded
  cooled,      \* history: strategies that were seen to lose that often in a row
  bled,        \* history: strategies an entry was admitted for after that
  disturbances \* disturbances left

historyVars  == <<admitted, entered, rolled, uncounted, recent, cooled, bled>>
governorVars == <<today, autoMode, state, open, closed, turns, historyVars, disturbances>>

Days       == 0..LastDay
Procs      == {Worker} \union Requests
ModeValues == {"OFF", "WATCH", "APPROVE", "AUTO"}
Accounts   == AutoStrategies \X Days

\* What the governor counts of a strategy.
CounterShapes ==
  [day : Days, tradesToday : Nat, consecutiveLosses : Nat, demoted : {"no", "yes"}]

ASSUME GovernorAssumption ==
  /\ Worker \notin Requests
  /\ MaxTradesPerDay \in Nat \ {0} /\ MaxConsecutiveLosses \in Nat \ {0}
  /\ LastDay \in Nat /\ MaxEntries \in Nat /\ MaxDisturbances \in Nat
  /\ None \notin AutoStrategies /\ None \notin CounterShapes /\ IsFiniteSet(Requests)

Disturb(what) == what \in Disturbances /\ disturbances > 0 /\ disturbances' = disturbances - 1

Turn(pc, strategy, now, todo) == [pc |-> pc, strategy |-> strategy, now |-> now, todo |-> todo]

Idle == Turn("idle", None, 0, <<>>)

GovernorInit ==
  /\ today = 0
  /\ autoMode \in [AutoStrategies -> {"AUTO"}]
  /\ state = [s \in AutoStrategies |-> None]
  /\ open = [a \in Accounts |-> 0]
  /\ closed = [s \in AutoStrategies |-> <<>>]
  /\ turns = [x \in Procs |-> Idle]
  /\ admitted = 0
  /\ entered = [a \in Accounts |-> 0]
  /\ rolled = [a \in Accounts |-> 0]
  /\ uncounted = [a \in Accounts |-> 0]
  /\ recent = [s \in AutoStrategies |-> <<>>]
  /\ cooled = {}
  /\ bled = {}
  /\ disturbances = MaxDisturbances

Awaits(x, pc)   == turns[x].pc = pc
TurnTo(x, st)   == turns' = [turns EXCEPT ![x] = st]
TurnGoes(x, pc) == TurnTo(x, [turns[x] EXCEPT !.pc = pc])

-----------------------------------------------------------------------------
(* The governor                                                            *)

Counters(day, trades, losses, demoted) ==
  [day |-> day, tradesToday |-> trades, consecutiveLosses |-> losses, demoted |-> demoted]

\* stateFor: created on first touch, rolled over when now falls in another day,
\* be it an earlier one.
StateFor(s, now) ==
  CASE state[s] = None -> Counters(now, 0, 0, "no")
    [] state[s] # None /\ state[s].day # now ->
         Counters(now, 0, state[s].consecutiveLosses, state[s].demoted)
    [] OTHER -> state[s]

\* The history of dropped counts stops at the bound on entries, which no
\* overshoot can exceed.
Dropped(a) == IF rolled[a] < MaxEntries THEN rolled[a] + 1 ELSE rolled[a]

\* The count of a day is dropped when the counter moves to another one.
Touch(s, new) ==
  /\ state' = [state EXCEPT ![s] = new]
  /\ rolled' = IF state[s] # None /\ state[s].day # new.day
                 THEN [rolled EXCEPT ![<<s, state[s].day>>] = Dropped(<<s, state[s].day>>)]
                 ELSE rolled

\* Mutant: the cap is compared with <=.
AdmitsOneMore(st) == st.demoted = "no" /\ st.tradesToday <= MaxTradesPerDay

Admits(st) == st.demoted = "no" /\ st.tradesToday < MaxTradesPerDay

Losses(st, result) == IF result = "loss" THEN st.consecutiveLosses + 1 ELSE 0

\* Mutant: the demotion follows the streak instead of outlasting it.
FollowsStreak(st, result) ==
  Counters(st.day, st.tradesToday, Losses(st, result),
           IF Losses(st, result) >= MaxConsecutiveLosses THEN "yes" ELSE "no")

AfterResult(st, result) ==
  Counters(st.day, st.tradesToday, Losses(st, result),
           IF Losses(st, result) >= MaxConsecutiveLosses THEN "yes" ELSE st.demoted)

-----------------------------------------------------------------------------
(* executeAuto                                                             *)

\* A scan, or a dev trigger, reads the mode and the clock once.
StartEntries(x, s) ==
  /\ Awaits(x, "idle")
  /\ autoMode[s] = "AUTO"
  /\ TurnTo(x, Turn("signal", s, today, <<>>))
  /\ UNCHANGED <<today, autoMode, state, open, closed, historyVars, disturbances>>

\* A scan goes on to its next signal, a trigger has only one.
NextSignal(x) == IF x = Worker THEN [turns[x] EXCEPT !.pc = "signal"] ELSE Idle

AdmitEntry(x) ==
  LET s  == turns[x].strategy
      st == StateFor(s, turns[x].now)
  IN /\ Awaits(x, "signal")
     /\ Touch(s, st)
     /\ \/ /\ Admits(st)
           /\ admitted < MaxEntries /\ admitted' = admitted + 1
           /\ TurnGoes(x, "place")
           /\ bled' = bled \union ({s} \intersect cooled)
        \/ /\ ~Admits(st)
           /\ TurnTo(x, NextSignal(x))
           /\ UNCHANGED <<admitted, bled>>
     /\ UNCHANGED <<today, autoMode, open, closed, entered, uncounted, recent, cooled, disturbances>>

\* The row is persisted, then the bracket placed.
PlaceEntry(x) ==
  LET s == turns[x].strategy
  IN /\ Awaits(x, "place")
     /\ open' = [open EXCEPT ![<<s, turns[x].now>>] = @ + 1]
     /\ entered' = [entered EXCEPT ![<<s, turns[x].now>>] = @ + 1]
     /\ TurnGoes(x, "count")
     /\ UNCHANGED <<today, autoMode, state, closed, admitted, rolled, uncounted, recent, cooled, bled, disturbances>>

\* The row is marked and audited first; then the entry is counted.
RecordEntry(x) ==
  LET s  == turns[x].strategy
      st == StateFor(s, turns[x].now)
  IN /\ Awaits(x, "count")
     /\ Touch(s, Counters(st.day, st.tradesToday + 1, st.consecutiveLosses, st.demoted))
     /\ TurnTo(x, NextSignal(x))
     /\ UNCHANGED <<today, autoMode, open, closed, admitted, entered, uncounted, recent, cooled, bled, disturbances>>

EndScan ==
  /\ Awaits(Worker, "signal")
  /\ TurnTo(Worker, Idle)
  /\ UNCHANGED <<today, autoMode, state, open, closed, historyVars, disturbances>>

-----------------------------------------------------------------------------
(* reconcileAutoResults                                                    *)

\* The buffer is drained in one go, in any mode, and may be empty.
DrainClosedTrades(s) ==
  /\ Awaits(Worker, "idle")
  /\ closed' = [closed EXCEPT ![s] = <<>>]
  /\ TurnTo(Worker, Turn("result", s, 0, closed[s]))
  /\ UNCHANGED <<today, autoMode, state, open, historyVars, disturbances>>

AllLost == [i \in 1..MaxConsecutiveLosses |-> "loss"]

LastResults(rs) ==
  IF Len(rs) > MaxConsecutiveLosses THEN Tail(rs) ELSE rs

\* One result; the loss that completes the streak goes on to the demotion.
RecordResult ==
  LET s     == turns[Worker].strategy
      trade == Head(turns[Worker].todo)
      st    == StateFor(s, trade.closedAt)
      new   == AfterResult(st, trade.result)
  IN /\ Awaits(Worker, "result") /\ turns[Worker].todo # <<>>
     /\ Touch(s, new)
     /\ recent' = [recent EXCEPT ![s] = LastResults(Append(@, trade.result))]
     /\ cooled' = IF recent'[s] = AllLost THEN cooled \union {s} ELSE cooled
     /\ TurnTo(Worker, Turn(IF new.demoted = "yes" /\ st.demoted = "no" THEN "demote" ELSE "result",
                            s, 0, Tail(turns[Worker].todo)))
     /\ UNCHANGED <<today, autoMode, open, closed, admitted, entered, uncounted, bled, disturbances>>

\* The update is guarded on AUTO: it does not touch what the operator chose.
Demote ==
  LET s == turns[Worker].strategy
  IN /\ Awaits(Worker, "demote")
     /\ autoMode' = [autoMode EXCEPT ![s] = IF @ = "AUTO" THEN "APPROVE" ELSE @]
     /\ TurnGoes(Worker, "result")
     /\ UNCHANGED <<today, state, open, closed, historyVars, disturbances>>

EndReconcile ==
  /\ Awaits(Worker, "result") /\ turns[Worker].todo = <<>>
  /\ TurnTo(Worker, Idle)
  /\ UNCHANGED <<today, autoMode, state, open, closed, historyVars, disturbances>>

-----------------------------------------------------------------------------
(* The rest of the system                                                  *)

\* A trade closes on a bar; closedAt is the bar's time, and the bar may be of an
\* earlier day than the drain that finds the trade.
TradeCloses(s, result, entry, day) ==
  /\ open[<<s, entry>>] > 0
  /\ entry <= day /\ day <= today
  /\ open' = [open EXCEPT ![<<s, entry>>] = @ - 1]
  /\ closed' = [closed EXCEPT ![s] = Append(@, [result |-> result, closedAt |-> day])]
  /\ UNCHANGED <<today, autoMode, state, turns, historyVars, disturbances>>

Midnight ==
  /\ today < LastDay
  /\ today' = today + 1
  /\ UNCHANGED <<autoMode, state, open, closed, turns, historyVars, disturbances>>

OperatorSets(s, m) ==
  /\ Disturb("mode")
  /\ m # autoMode[s]
  /\ autoMode' = [autoMode EXCEPT ![s] = m]
  /\ UNCHANGED <<today, state, open, closed, turns, historyVars>>

\* An approved proposal opens a trade without asking the governor; its result
\* counts all the same.
ApprovedEntry(s) ==
  /\ Disturb("approval")
  /\ open' = [open EXCEPT ![<<s, today>>] = @ + 1]
  /\ UNCHANGED <<today, autoMode, state, closed, turns, historyVars>>

\* An await throws and the job's turn ends there: the entry placed is not
\* counted, the trades drained and not yet recorded are lost.
AwaitThrows(x) ==
  /\ Disturb("throw")
  /\ turns[x].pc \in {"place", "count", "demote"}
  /\ uncounted' = IF Awaits(x, "count")
                    THEN [uncounted EXCEPT ![<<turns[x].strategy, turns[x].now>>] = @ + 1]
                    ELSE uncounted
  /\ TurnTo(x, Idle)
  /\ UNCHANGED <<today, autoMode, state, open, closed, admitted, entered, rolled, recent, cooled, bled>>

Restart ==
  /\ Disturb("restart")
  /\ turns' = [x \in Procs |-> Idle]
  /\ state' = [s \in AutoStrategies |-> None]
  /\ open' = [a \in Accounts |-> 0]
  /\ closed' = [s \in AutoStrategies |-> <<>>]
  /\ recent' = [s \in AutoStrategies |-> <<>>]
  /\ cooled' = {}
  /\ bled' = {}
  /\ rolled' = [a \in Accounts |->
       IF state[a[1]] # None /\ state[a[1]].day = a[2] THEN Dropped(a) ELSE rolled[a]]
  /\ uncounted' = [a \in Accounts |->
       uncounted[a]
         + Cardinality({x \in Procs : Awaits(x, "count") /\ a = <<turns[x].strategy, turns[x].now>>})]
  /\ UNCHANGED <<today, autoMode, admitted, entered>>

EntryStep(x) ==
  (\E s \in AutoStrategies : StartEntries(x, s)) \/ AdmitEntry(x) \/ PlaceEntry(x) \/ RecordEntry(x)

MonitorStep ==
  (\E s \in AutoStrategies : DrainClosedTrades(s)) \/ RecordResult \/ Demote \/ EndReconcile

Environment ==
  \/ \E s \in AutoStrategies :
       \/ \E result \in {"loss", "gain"}, entry \in Days, day \in Days :
            TradeCloses(s, result, entry, day)
       \/ ApprovedEntry(s)
       \/ \E m \in ModeValues : OperatorSets(s, m)
  \/ \E x \in Procs : AwaitThrows(x)
  \/ Midnight \/ Restart

GovernorNext == (\E x \in Procs : EntryStep(x)) \/ EndScan \/ MonitorStep \/ Environment

GovernorSpec == GovernorInit /\ [][GovernorNext]_governorVars

-----------------------------------------------------------------------------
(* Correctness                                                             *)

\* Every variable keeps its type.
GovernorTypeOK ==
  /\ today \in Days
  /\ autoMode \in [AutoStrategies -> ModeValues]
  /\ state \in [AutoStrategies -> CounterShapes \union {None}]
  /\ {open, entered, rolled, uncounted} \subseteq [Accounts -> Nat]
  /\ \A x \in Procs : turns[x].pc \in {"idle", "signal", "place", "count", "result", "demote"}
  /\ bled \subseteq AutoStrategies /\ cooled \subseteq AutoStrategies
  /\ admitted \in Nat /\ disturbances \in Nat

\* Once the process has seen the losing streak, no entry is admitted any more,
\* whatever the mode says: a scan that began in AUTO, a dev trigger, a demotion
\* the database did not take, an operator who sets AUTO again.
CooldownHolds == bled = {}

\* Entries of one day exceed the daily cap only by what the code does not count:
\* each time the day's count is dropped (a restart, a touch with another day's
\* time) another cap's worth, entries whose record threw, and one entry of each
\* other process that was admitted beside the last.
OvershootAccounted ==
  \A a \in Accounts :
    entered[a] <= (MaxTradesPerDay + Cardinality(Requests)) * (1 + rolled[a]) + uncounted[a]

\* The header of auto-governor.ts: at most maxTradesPerDay auto entries per
\* strategy and UTC day.  The result of a trade that closed the day before
\* drops the count of today.
DailyCapHolds == \A a \in Accounts : entered[a] <= MaxTradesPerDay
============================================================================
