---------------------------- MODULE ControlProofs ---------------------------
(***************************************************************************)
(* Theorems about the controls: about KillSwitch for any number of         *)
(* handlers and strategies, and about AutoGovernor for any caps, days and  *)
(* triggers beside the worker.  A trip in force blocks every check that    *)
(* begins under it; once the process has seen the losing streak no entry   *)
(* is admitted any more; and the entries of a day exceed its cap by no     *)
(* more than the dropped counts, the uncounted entries and those in        *)
(* flight.                                                                 *)
(***************************************************************************)
EXTENDS KillSwitch, AutoGovernor, FiniteSetTheorems, TLAPS

-----------------------------------------------------------------------------
(* The kill switch                                                         *)

Handler == [pc : Pcs, value : Flags, targets : SUBSET Strategies,
            answer : Answers]

\* What a trip in force rests on: both stores say so and nobody carries a value
\* from before it.  A check that began under it has not been let through.
ForceInv ==
  /\ safe => row = "on" /\ cache # "off" /\ \A h \in Handlers : ~PendingOff(h)
  /\ \A h \in since : safe /\ procs[h].answer # "allowed"

LEMMA RestingType == Resting \in Handler
BY DEF Resting, Handler, Pcs, Flags, Answers

LEMMA BecomeType ==
  ASSUME TypeOK, NEW h \in Handlers, NEW st \in Handler, Become(h, st)
  PROVE  /\ procs' \in [Handlers -> Handler]
         /\ procs'[h] = st
         /\ \A k \in Handlers \ {h} : procs'[k] = procs[k]
BY DEF TypeOK, Become, Handler

\* What a handler's step makes of it: the value it carries is its old one or the
\* row's, and it comes to write "off" only from a row that says so.
LEMMA HandlerStep ==
  ASSUME TypeOK, NEW h \in Handlers, ReadStep(h) \/ TripStep(h) \/ RearmStep(h)
  PROVE  \E st \in Handler :
           /\ Become(h, st)
           /\ st.pc \in {"fill", "fill for check"} => st.value = row /\ ReadRow(h)
           /\ st.pc = "rearm cache" => RearmRow(h)
           /\ st.answer = "allowed" => \/ procs[h].answer = "allowed"
                                       \/ GetCached(h) /\ cache = "off"
                                       \/ Fill(h) /\ At(h, "fill for check") /\ procs[h].value = "off"
<1> USE RestingType DEF Resting
<1>1. procs[h] \in Handler
  BY DEF TypeOK, Handler
<1>2. CASE GetCached(h)
  <2>1. CASE cache # Miss /\ Answer(h, cache)
    <3>1. [Resting EXCEPT !.answer = IF cache = "on" THEN "blocked" ELSE "allowed"] \in Handler
      BY DEF Handler, Answers
    <3> QED
      BY <1>2, <2>1, <3>1 DEF Answer, TypeOK, Flags
  <2>2. CASE Become(h, [Resting EXCEPT !.pc = "read for check"])
    <3>1. [Resting EXCEPT !.pc = "read for check"] \in Handler
      BY DEF Handler, Pcs
    <3> QED
      BY <2>2, <3>1
  <2> QED
    BY <1>2, <2>1, <2>2 DEF GetCached
<1>3. CASE ReadRow(h)
  <2>1. /\ [Resting EXCEPT !.pc = "fill", !.value = row] \in Handler
        /\ [Resting EXCEPT !.pc = "fill for check", !.value = row] \in Handler
    BY DEF Handler, Pcs, TypeOK
  <2>2. CASE Become(h, [Resting EXCEPT !.pc = "fill", !.value = row])
    BY <1>3, <2>1, <2>2
  <2>3. CASE Become(h, [Resting EXCEPT !.pc = "fill for check", !.value = row])
    BY <1>3, <2>1, <2>3
  <2> QED
    BY <1>3, <2>2, <2>3 DEF ReadRow
<1>4. CASE ReadFails(h)
  <2>1. [Resting EXCEPT !.answer = "blocked"] \in Handler
    BY DEF Handler, Answers
  <2> QED
    BY <1>4, <2>1 DEF ReadFails, Answer
<1>5. CASE Fill(h)
  <2>1. CASE Become(h, Resting)
    BY <2>1
  <2>2. CASE At(h, "fill for check") /\ Answer(h, procs[h].value)
    <3>1. [Resting EXCEPT !.answer = IF procs[h].value = "on" THEN "blocked" ELSE "allowed"]
            \in Handler
      BY DEF Handler, Answers
    <3>2. procs[h].value \in {"on", "off"}
      BY <1>1 DEF Handler, Flags
    <3> QED
      BY <1>5, <2>2, <3>1, <3>2 DEF Answer
  <2> QED
    BY <1>5, <2>1, <2>2 DEF Fill
<1>6. CASE TripRow(h) \/ RearmRow(h)
  <2>1. /\ [Resting EXCEPT !.pc = "trip cache"] \in Handler
        /\ [Resting EXCEPT !.pc = "rearm cache"] \in Handler
    BY DEF Handler, Pcs
  <2> QED
    BY <1>6, <2>1 DEF TripRow, RearmRow
<1>7. CASE TripCache(h)
  <2>1. [procs[h] EXCEPT !.pc = "select"] \in Handler
    BY <1>1 DEF Handler, Pcs
  <2> QED
    BY <1>1, <1>7, <2>1 DEF TripCache, Goto, Handler
<1>8. CASE SelectTargets(h)
  <2> DEFINE targets == {s \in Strategies : mode[s] \in Ordering}
  <2>1. [procs[h] EXCEPT !.pc = "demote", !.targets = targets] \in Handler
    BY <1>1 DEF Handler, Pcs
  <2> QED
    BY <1>1, <1>8, <2>1 DEF SelectTargets, Handler
<1>9. CASE DemoteTargets(h) \/ DbThrows(h) \/ RearmCache(h)
  BY <1>9 DEF DemoteTargets, DbThrows, RearmCache
<1> QED
  BY <1>2, <1>3, <1>4, <1>5, <1>6, <1>7, <1>8, <1>9 DEF ReadStep, TripStep, RearmStep

LEMMA TypeInit == Init => TypeOK
<1> SUFFICES ASSUME Init PROVE TypeOK
  OBVIOUS
<1>1. procs \in [Handlers -> Handler]
  BY RestingType DEF Init
<1> QED
  BY <1>1, KillSwitchAssumption DEF Init, TypeOK, Handler, Flags

LEMMA TypeStep == TypeOK /\ [Next]_vars => TypeOK'
<1> SUFFICES ASSUME TypeOK, [Next]_vars PROVE TypeOK'
  OBVIOUS
<1>1. ASSUME NEW h \in Handlers, ReadStep(h) \/ TripStep(h) \/ RearmStep(h) PROVE TypeOK'
  <2>1. procs' \in [Handlers -> Handler] /\ procs[h] \in Handler
    BY <1>1, HandlerStep, BecomeType DEF TypeOK, Handler
  <2>2. /\ row' \in Flags
        /\ cache' \in Flags \union {Miss}
        /\ left' \in Nat
    BY <1>1, <2>1 DEF ReadStep, TripStep, RearmStep, GetCached, ReadRow, ReadFails, Fill, TripRow,
       TripCache, SelectTargets, DemoteTargets, DbThrows, RearmRow, RearmCache, WriteCache,
       Flags, TypeOK, Handler
  <2>3. mode' \in [Strategies -> AllModes] /\ quiet' \in SUBSET Strategies
    BY <1>1, <2>1 DEF ReadStep, TripStep, RearmStep, GetCached, ReadRow, ReadFails, Fill, TripRow,
       TripCache, SelectTargets, DemoteTargets, DbThrows, RearmRow, RearmCache,
       AllModes, TypeOK, Handler
  <2>4. since' \in SUBSET Handlers
    BY <1>1 DEF ReadStep, TripStep, RearmStep, GetCached, ReadRow, ReadFails, Fill, TripRow,
       TripCache, SelectTargets, DemoteTargets, DbThrows, RearmRow, RearmCache, TypeOK
  <2>5. safe' \in BOOLEAN
    BY <1>1 DEF ReadStep, TripStep, RearmStep, GetCached, ReadRow, ReadFails, Fill, TripRow,
       TripCache, SelectTargets, DemoteTargets, DbThrows, RearmRow, RearmCache, TypeOK
  <2> QED
    BY <2>1, <2>2, <2>3, <2>4, <2>5 DEF TypeOK, Handler
<1>2. ASSUME NEW s \in Strategies, GovernorDemotes(s) \/ \E m \in AllModes : SetMode(s, m)
      PROVE  TypeOK'
  BY <1>2 DEF GovernorDemotes, SetMode, TypeOK, AllModes
<1>3. CASE Crash
  BY <1>3, RestingType DEF Crash, TypeOK, Handler
<1>4. CASE UNCHANGED vars
  BY <1>4 DEF vars, TypeOK
<1> QED
  BY <1>1, <1>2, <1>3, <1>4 DEF Next

\* Every variable keeps its type.
THEOREM TypeCorrect == Spec => []TypeOK
BY TypeInit, TypeStep, PTL DEF Spec

LEMMA ForceInit == Init => ForceInv
<1> SUFFICES ASSUME Init PROVE ForceInv
  OBVIOUS
<1>1. safe => row = "on" /\ cache # "off"
  BY KillSwitchAssumption DEF Init, Flags
<1>2. \A h \in Handlers : ~PendingOff(h)
  BY DEF Init, Resting, PendingOff, At
<1> QED
  BY <1>1, <1>2 DEF ForceInv, Init

LEMMA ForceStep == TypeOK /\ ForceInv /\ [Next]_vars => ForceInv'
<1> SUFFICES ASSUME TypeOK, ForceInv, [Next]_vars PROVE ForceInv'
  OBVIOUS
<1>1. ASSUME NEW h \in Handlers, ReadStep(h) \/ TripStep(h) \/ RearmStep(h) PROVE ForceInv'
  <2>1. PICK st \in Handler :
           /\ Become(h, st)
           /\ st.pc \in {"fill", "fill for check"} => st.value = row /\ ReadRow(h)
           /\ st.pc = "rearm cache" => RearmRow(h)
           /\ st.answer = "allowed" => \/ procs[h].answer = "allowed"
                                       \/ GetCached(h) /\ cache = "off"
                                       \/ Fill(h) /\ At(h, "fill for check") /\ procs[h].value = "off"
    BY <1>1, HandlerStep
  <2>2. procs'[h] = st /\ \A k \in Handlers \ {h} : procs'[k] = procs[k]
    BY <2>1, BecomeType
  <2>3. CASE RearmRow(h)
    BY <2>3 DEF RearmRow, ForceInv
  <2>4. ASSUME ~RearmRow(h) PROVE ForceInv'
    <3>1. row' = row \/ row' = "on"
      BY <1>1, <2>4 DEF ReadStep, TripStep, RearmStep, GetCached, ReadRow, ReadFails, Fill, TripRow,
         TripCache, SelectTargets, DemoteTargets, DbThrows, RearmCache
    <3>2. safe' => safe \/ (TripCache(h) /\ TripInForce)
      BY <1>1, <2>4 DEF ReadStep, TripStep, RearmStep, GetCached, ReadRow, ReadFails, Fill, TripRow,
         TripCache, SelectTargets, DemoteTargets, DbThrows, RearmCache
    <3>3. safe => safe'
      BY <1>1, <2>4 DEF ReadStep, TripStep, RearmStep, GetCached, ReadRow, ReadFails, Fill, TripRow,
         TripCache, SelectTargets, DemoteTargets, DbThrows, RearmCache
    <3>4. safe => procs[h].pc # "rearm cache" /\ (At(h, "fill") \/ At(h, "fill for check")
                                                    => procs[h].value # "off")
      BY DEF ForceInv, PendingOff, At
    <3>5. safe => cache' # "off"
      <4>1. procs[h] \in Handler
        BY DEF TypeOK, Handler
      <4> QED
        BY <1>1, <2>4, <3>4, <4>1 DEF ReadStep, TripStep, RearmStep, GetCached, ReadRow, ReadFails,
           Fill, TripRow, TripCache, SelectTargets, DemoteTargets, DbThrows, RearmCache, WriteCache,
           At, ForceInv, Handler, Flags
    <3>6. ASSUME safe' PROVE row' = "on" /\ cache' # "off"
      BY <3>1, <3>2, <3>5, <3>6 DEF ForceInv, TripInForce, TripCache
    <3>7. ASSUME safe', NEW k \in Handlers PROVE ~PendingOff(k)'
      <4>1. CASE k = h
        <5>1. ReadRow(h) => row = "on"
          BY <3>2, <3>7 DEF ForceInv, TripInForce
        <5> QED
          BY <2>1, <2>2, <2>4, <4>1, <5>1 DEF PendingOff, At
      <4>2. CASE k # h
        BY <2>2, <3>2, <3>7, <4>2 DEF PendingOff, At, ForceInv, TripInForce
      <4> QED
        BY <4>1, <4>2
    <3>8. ASSUME NEW k \in since' PROVE safe' /\ procs'[k].answer # "allowed"
      <4>1. k \in Handlers /\ (k \in since \/ (k = h /\ GetCached(h) /\ safe))
        BY <1>1, <2>4, <3>8 DEF ReadStep, TripStep, RearmStep, GetCached, ReadRow, ReadFails, Fill,
           TripRow, TripCache, SelectTargets, DemoteTargets, DbThrows, RearmCache, TypeOK
      <4>2. safe
        BY <4>1 DEF ForceInv
      <4>3. CASE k # h
        BY <2>2, <4>1, <4>3, <3>3, <4>2 DEF ForceInv
      <4>4. CASE k = h /\ k \in since
        BY <2>1, <2>2, <3>3, <3>4, <4>2, <4>4 DEF ForceInv
      <4>5. CASE k = h /\ GetCached(h)
        <5>1. st.answer # "allowed"
          BY <2>1, <2>2, <4>2, <4>5 DEF GetCached, ForceInv, Answer, Become, Resting, TypeOK, Flags
        <5> QED
          BY <2>2, <3>3, <4>2, <4>5, <5>1
      <4> QED
        BY <4>1, <4>3, <4>4, <4>5
    <3> QED
      BY <3>6, <3>7, <3>8 DEF ForceInv
  <2> QED
    BY <2>3, <2>4
<1>2. ASSUME NEW s \in Strategies, GovernorDemotes(s) \/ \E m \in AllModes : SetMode(s, m)
      PROVE  ForceInv'
  <2>1. UNCHANGED <<row, cache, procs, since, safe>>
    BY <1>2 DEF GovernorDemotes, SetMode
  <2> QED
    BY <2>1 DEF ForceInv, PendingOff, At
<1>3. CASE Crash
  <2>1. \A h \in Handlers : procs'[h].pc = "idle" /\ procs'[h].answer = "none"
    BY <1>3 DEF Crash, Resting
  <2>2. \A h \in Handlers : ~PendingOff(h)'
    BY <2>1 DEF PendingOff, At
  <2>3. /\ safe' = safe /\ row' = row /\ cache' = cache
        /\ since' = since /\ since \subseteq Handlers
    BY <1>3 DEF Crash, TypeOK
  <2> QED
    BY <1>3, <2>1, <2>2, <2>3 DEF Crash, ForceInv, TypeOK
<1>4. CASE UNCHANGED vars
  BY <1>4 DEF vars, ForceInv, PendingOff, At
<1> QED
  BY <1>1, <1>2, <1>3, <1>4 DEF Next

\* A check that begins under a trip in force never lets an order through.
THEOREM ForceHolds == Spec => []TripBlocksChecks
<1>1. ForceInv => TripBlocksChecks
  BY DEF ForceInv, TripBlocksChecks
<1> QED
  BY <1>1, TypeInit, TypeStep, ForceInit, ForceStep, PTL DEF Spec

LEMMA DemotedStep == TypeOK /\ TripDemotes /\ [Next]_vars => TripDemotes'
<1> SUFFICES ASSUME TypeOK, TripDemotes, [Next]_vars PROVE TripDemotes'
  OBVIOUS
<1>1. ASSUME NEW h \in Handlers, SelectTargets(h) \/ DemoteTargets(h) PROVE TripDemotes'
  BY <1>1 DEF SelectTargets, DemoteTargets, TripDemotes, TypeOK, Ordering
<1>2. ASSUME NEW s \in Strategies, GovernorDemotes(s) \/ \E m \in AllModes : SetMode(s, m)
      PROVE  TripDemotes'
  BY <1>2 DEF GovernorDemotes, SetMode, TripDemotes, TypeOK, Ordering
<1>3. ASSUME UNCHANGED <<mode, quiet>> PROVE TripDemotes'
  BY <1>3 DEF TripDemotes
<1> QED
  BY <1>1, <1>2, <1>3 DEF Next, ReadStep, GetCached, ReadRow, ReadFails, Fill, TripStep, TripRow,
     TripCache, DbThrows, RearmStep, RearmRow, RearmCache, Crash, vars

\* A strategy a trip demoted stays unable to order until the operator sets it.
THEOREM DemotionLasts == Spec => []TripDemotes
<1>1. Init => TripDemotes
  BY DEF Init, TripDemotes
<1> QED
  BY <1>1, TypeInit, TypeStep, DemotedStep, PTL DEF Spec

-----------------------------------------------------------------------------
(* The auto governor                                                       *)

-----------------------------------------------------------------------------
(* Types                                                                   *)

Results == {"loss", "gain"}
Trades  == [result : Results, closedAt : Days]

TurnShapes ==
  [pc : {"idle", "signal", "place", "count", "result", "demote"},
   strategy : AutoStrategies \union {None}, now : Days, todo : Seq(Trades)]

AccountsTyped ==
  /\ open \in [Accounts -> Nat] /\ entered \in [Accounts -> Nat]
  /\ rolled \in [Accounts -> Nat] /\ uncounted \in [Accounts -> Nat]

ProcessTyped ==
  /\ today \in Days /\ disturbances \in Nat /\ admitted \in Nat
  /\ autoMode \in [AutoStrategies -> ModeValues]
  /\ state \in [AutoStrategies -> CounterShapes \union {None}]
  /\ turns \in [Procs -> TurnShapes]
  /\ \A x \in Procs : turns[x].pc # "idle" => turns[x].strategy \in AutoStrategies
  /\ closed \in [AutoStrategies -> Seq(Trades)]
  /\ recent \in [AutoStrategies -> Seq(Results)]
  /\ bled \subseteq AutoStrategies /\ cooled \subseteq AutoStrategies

GTyped == AccountsTyped /\ ProcessTyped

LEMMA TypedIsTypeOK == GTyped => GovernorTypeOK
  BY DEF GTyped, AccountsTyped, ProcessTyped, GovernorTypeOK, TurnShapes

LEMMA IdleShape == Idle \in TurnShapes /\ Idle.pc = "idle"
  BY GovernorAssumption DEF Idle, Turn, TurnShapes, Days

LEMMA TurnShape ==
  ASSUME NEW pc \in {"idle", "signal", "place", "count", "result", "demote"}, NEW s \in AutoStrategies,
         NEW now \in Days, NEW todo \in Seq(Trades)
  PROVE  Turn(pc, s, now, todo) \in TurnShapes /\ Turn(pc, s, now, todo).strategy = s
         /\ Turn(pc, s, now, todo).pc = pc /\ Turn(pc, s, now, todo).todo = todo
  BY DEF Turn, TurnShapes

LEMMA GovernorTypeInit == GovernorInit => GTyped
<1> SUFFICES ASSUME GovernorInit PROVE GTyped
  OBVIOUS
<1>1. AccountsTyped
  BY DEF GovernorInit, AccountsTyped
<1>2. turns \in [Procs -> TurnShapes] /\ \A x \in Procs : turns[x].pc = "idle"
  BY IdleShape DEF GovernorInit
<1>3. 0 \in Days /\ MaxDisturbances \in Nat
  BY GovernorAssumption DEF Days
<1> QED BY <1>1, <1>2, <1>3 DEF GovernorInit, GTyped, ProcessTyped, ModeValues

\* The turn of one process leaves those of the others.
LEMMA OneTurn ==
  ASSUME ProcessTyped, NEW x \in Procs, NEW st \in TurnShapes,
         st.pc # "idle" => st.strategy \in AutoStrategies, TurnTo(x, st)
  PROVE  /\ turns' \in [Procs -> TurnShapes] /\ turns'[x] = st
         /\ \A y \in Procs : turns'[y].pc # "idle" => turns'[y].strategy \in AutoStrategies
  BY DEF ProcessTyped, TurnTo

LEMMA TurnGoesOn ==
  ASSUME ProcessTyped, NEW x \in Procs, turns[x].pc # "idle",
         NEW pc \in {"signal", "place", "count", "result", "demote"}
  PROVE  /\ [turns[x] EXCEPT !.pc = pc] \in TurnShapes
         /\ [turns[x] EXCEPT !.pc = pc].strategy \in AutoStrategies
<1>1. turns[x] \in TurnShapes /\ turns[x].strategy \in AutoStrategies
  BY DEF ProcessTyped
<1>2. PICK p, s, n, t : turns[x] = [pc |-> p, strategy |-> s, now |-> n, todo |-> t]
  BY <1>1 DEF TurnShapes
<1>3. [turns[x] EXCEPT !.pc = pc] = [pc |-> pc, strategy |-> s, now |-> n, todo |-> t]
  BY <1>2
<1> QED BY <1>1, <1>2, <1>3 DEF TurnShapes

LEMMA GoesOnTyped ==
  ASSUME ProcessTyped, NEW x \in Procs, turns[x].pc # "idle",
         NEW pc \in {"signal", "place", "count", "result", "demote"}, TurnGoes(x, pc)
  PROVE  /\ turns' \in [Procs -> TurnShapes]
         /\ \A y \in Procs : turns'[y].pc # "idle" => turns'[y].strategy \in AutoStrategies
  BY TurnGoesOn, OneTurn DEF TurnGoes

LEMMA IdleTyped ==
  ASSUME ProcessTyped, NEW x \in Procs, TurnTo(x, Idle)
  PROVE  /\ turns' \in [Procs -> TurnShapes]
         /\ \A y \in Procs : turns'[y].pc # "idle" => turns'[y].strategy \in AutoStrategies
  BY IdleShape, OneTurn

LEMMA NextSignalTyped ==
  ASSUME ProcessTyped, NEW x \in Procs, turns[x].pc # "idle", TurnTo(x, NextSignal(x))
  PROVE  /\ turns' \in [Procs -> TurnShapes]
         /\ \A y \in Procs : turns'[y].pc # "idle" => turns'[y].strategy \in AutoStrategies
<1>1. NextSignal(x) \in TurnShapes /\ (NextSignal(x).pc # "idle" => NextSignal(x).strategy \in AutoStrategies)
  BY IdleShape, TurnGoesOn DEF NextSignal
<1> QED BY <1>1, OneTurn

\* stateFor keeps the losses and the demotion, whatever the day.
LEMMA StateForTyped ==
  ASSUME ProcessTyped, NEW s \in AutoStrategies, NEW now \in Days
  PROVE  /\ StateFor(s, now) \in CounterShapes
         /\ state[s] = None => StateFor(s, now).consecutiveLosses = 0 /\ StateFor(s, now).demoted = "no"
         /\ state[s] # None => /\ StateFor(s, now).consecutiveLosses = state[s].consecutiveLosses
                               /\ StateFor(s, now).demoted = state[s].demoted
<1>1. CASE state[s] = None
  BY <1>1 DEF StateFor, Counters, CounterShapes
<1>2. CASE state[s] # None
  <2>1. state[s] \in CounterShapes
    BY <1>2 DEF ProcessTyped
  <2> QED BY <1>2, <2>1 DEF StateFor, Counters, CounterShapes
<1> QED BY <1>1, <1>2

LEMMA TouchTyped ==
  ASSUME GTyped, NEW s \in AutoStrategies, NEW new \in CounterShapes, Touch(s, new)
  PROVE  /\ state' \in [AutoStrategies -> CounterShapes \union {None}]
         /\ state'[s] = new /\ \A r \in AutoStrategies : r # s => state'[r] = state[r]
         /\ rolled' \in [Accounts -> Nat]
<1>1. /\ state' \in [AutoStrategies -> CounterShapes \union {None}]
      /\ state'[s] = new /\ \A r \in AutoStrategies : r # s => state'[r] = state[r]
  BY DEF Touch, GTyped, ProcessTyped
<1>2. rolled' \in [Accounts -> Nat]
  <2>1. CASE state[s] # None /\ rolled' = [rolled EXCEPT ![<<s, state[s].day>>] = Dropped(<<s, state[s].day>>)]
    <3>1. <<s, state[s].day>> \in Accounts
      BY <2>1 DEF GTyped, ProcessTyped, CounterShapes, Accounts
    <3>2. rolled[<<s, state[s].day>>] \in Nat /\ rolled \in [Accounts -> Nat]
      BY <3>1 DEF GTyped, AccountsTyped
    <3>3. Dropped(<<s, state[s].day>>) \in Nat
      BY <3>2 DEF Dropped
    <3> QED BY <2>1, <3>2, <3>3
  <2>2. CASE rolled' = rolled
    BY <2>2 DEF GTyped, AccountsTyped
  <2> QED BY <2>1, <2>2 DEF Touch
<1> QED BY <1>1, <1>2

LEMMA AfterResultTyped ==
  ASSUME NEW st \in CounterShapes, NEW result \in Results
  PROVE  /\ AfterResult(st, result) \in CounterShapes
         /\ AfterResult(st, result).consecutiveLosses = Losses(st, result)
         /\ Losses(st, result) >= MaxConsecutiveLosses => AfterResult(st, result).demoted = "yes"
         /\ st.demoted = "yes" => AfterResult(st, result).demoted = "yes"
<1>1. Losses(st, result) \in Nat
  BY DEF Losses, CounterShapes
<1> QED BY <1>1 DEF AfterResult, Counters, CounterShapes

\* One more, or one less of a positive count, is a count.
LEMMA OneCount ==
  ASSUME NEW f \in [Accounts -> Nat], NEW a \in Accounts
  PROVE  /\ [f EXCEPT ![a] = @ + 1] \in [Accounts -> Nat]
         /\ f[a] > 0 => [f EXCEPT ![a] = @ - 1] \in [Accounts -> Nat]
<1>1. f[a] \in Nat /\ f[a] + 1 \in Nat /\ (f[a] > 0 => f[a] - 1 \in Nat)
  OBVIOUS
<1> QED BY <1>1

-----------------------------------------------------------------------------
(* The losing streak                                                       *)

\* c counts at least the losses a sequence of results ends with.
Trails(r, c) ==
  \A k \in 1..Len(r) : (\A i \in (Len(r) - k + 1)..Len(r) : r[i] = "loss") => c >= k

LEMMA TrailAppend ==
  ASSUME NEW r \in Seq(Results), NEW c \in Nat, Trails(r, c), NEW result \in Results
  PROVE  Trails(Append(r, result), IF result = "loss" THEN c + 1 ELSE 0)
<1> DEFINE q == Append(r, result)
<1>1. Len(r) \in Nat /\ Len(q) = Len(r) + 1 /\ q[Len(q)] = result
      /\ \A i \in 1..Len(r) : q[i] = r[i]
  OBVIOUS
<1> SUFFICES ASSUME NEW k \in 1..Len(q), \A i \in (Len(q) - k + 1)..Len(q) : q[i] = "loss"
             PROVE  (IF result = "loss" THEN c + 1 ELSE 0) >= k
  BY DEF Trails
<1> HIDE DEF q
<1>2. result = "loss"
  BY <1>1
<1>3. CASE k = 1
  BY <1>2, <1>3
<1>4. CASE k # 1
  <2>1. k - 1 \in 1..Len(r)
    BY <1>1, <1>4
  <2>2. \A i \in (Len(r) - (k - 1) + 1)..Len(r) : r[i] = "loss"
    <3> TAKE i \in (Len(r) - (k - 1) + 1)..Len(r)
    <3>1. i \in 1..Len(r) /\ i \in (Len(q) - k + 1)..Len(q)
      BY <1>1, <2>1
    <3> QED BY <1>1, <3>1
  <2>3. c >= k - 1
    BY <2>1, <2>2 DEF Trails
  <2> QED BY <1>2, <2>3
<1> QED BY <1>3, <1>4

LEMMA TrailTail ==
  ASSUME NEW q \in Seq(Results), q # <<>>, NEW c \in Nat, Trails(q, c)
  PROVE  Trails(Tail(q), c)
<1> DEFINE r == Tail(q)
<1>1. Len(q) \in Nat /\ Len(r) = Len(q) - 1 /\ Len(r) \in Nat /\ \A i \in 1..Len(r) : r[i] = q[i + 1]
  OBVIOUS
<1> SUFFICES ASSUME NEW k \in 1..Len(r), \A i \in (Len(r) - k + 1)..Len(r) : r[i] = "loss"
             PROVE  c >= k
  BY DEF Trails
<1> HIDE DEF r
<1>2. k \in 1..Len(q)
  BY <1>1
<1>3. \A i \in (Len(q) - k + 1)..Len(q) : q[i] = "loss"
  <2> TAKE i \in (Len(q) - k + 1)..Len(q)
  <2>1. i - 1 \in (Len(r) - k + 1)..Len(r) /\ i - 1 \in 1..Len(r) /\ (i - 1) + 1 = i
    BY <1>1
  <2> QED BY <1>1, <2>1
<1> QED BY <1>2, <1>3 DEF Trails

LEMMA LastResultsTrail ==
  ASSUME NEW q \in Seq(Results), NEW c \in Nat, Trails(q, c)
  PROVE  LastResults(q) \in Seq(Results) /\ Trails(LastResults(q), c)
<1>1. CASE Len(q) > MaxConsecutiveLosses
  <2>1. q # <<>>
    BY <1>1, GovernorAssumption
  <2>2. Tail(q) \in Seq(Results)
    BY <2>1
  <2> QED BY <1>1, <2>1, <2>2, TrailTail DEF LastResults
<1>2. CASE ~(Len(q) > MaxConsecutiveLosses)
  BY <1>2 DEF LastResults
<1> QED BY <1>1, <1>2

LEMMA AllLostTrail ==
  ASSUME NEW c, Trails(AllLost, c)
  PROVE  c >= MaxConsecutiveLosses
<1>1. MaxConsecutiveLosses \in Nat /\ MaxConsecutiveLosses \in 1..MaxConsecutiveLosses
  BY GovernorAssumption
<1>2. Len(AllLost) = MaxConsecutiveLosses
  BY <1>1 DEF AllLost
<1>3. \A i \in (Len(AllLost) - MaxConsecutiveLosses + 1)..Len(AllLost) : AllLost[i] = "loss"
  BY <1>1, <1>2 DEF AllLost
<1> QED BY <1>1, <1>2, <1>3 DEF Trails

-----------------------------------------------------------------------------
(* Type steps, the actions one by one                                      *)

LEMMA EntriesTyped ==
  ASSUME GTyped, NEW x \in Procs, EntryStep(x)
  PROVE  GTyped'
<1>1. ASSUME NEW s \in AutoStrategies, StartEntries(x, s) PROVE GTyped'
  <2>1. /\ Turn("signal", s, today, <<>>) \in TurnShapes /\ Turn("signal", s, today, <<>>).strategy \in AutoStrategies
        /\ TurnTo(x, Turn("signal", s, today, <<>>))
    <3>1. today \in Days /\ <<>> \in Seq(Trades)
      BY DEF GTyped, ProcessTyped
    <3>2. TurnTo(x, Turn("signal", s, today, <<>>))
      BY <1>1 DEF StartEntries
    <3> QED BY <3>1, <3>2 DEF Turn, TurnShapes
  <2>2. /\ turns' \in [Procs -> TurnShapes]
        /\ \A y \in Procs : turns'[y].pc # "idle" => turns'[y].strategy \in AutoStrategies
    BY <2>1, OneTurn DEF GTyped
  <2> QED BY <1>1, <2>2 DEF StartEntries, historyVars, GTyped, AccountsTyped, ProcessTyped
<1> DEFINE s == turns[x].strategy
           now == turns[x].now
<1>2. turns[x].pc # "idle" => s \in AutoStrategies /\ now \in Days /\ <<s, now>> \in Accounts
  BY DEF GTyped, ProcessTyped, TurnShapes, Accounts
<1> HIDE DEF s, now
<1>3. CASE AdmitEntry(x)
  <2>1. /\ turns[x].pc = "signal" /\ Touch(s, StateFor(s, now))
        /\ TurnGoes(x, "place") \/ TurnTo(x, NextSignal(x))
        /\ bled' = bled \union ({s} \intersect cooled) \/ bled' = bled
        /\ admitted' = admitted \/ admitted' = admitted + 1
        /\ UNCHANGED <<today, autoMode, open, closed, entered, uncounted, recent, cooled, disturbances>>
    BY <1>3 DEF AdmitEntry, Awaits, s, now
  <2>2. StateFor(s, now) \in CounterShapes /\ s \in AutoStrategies
    BY <1>2, <2>1, StateForTyped DEF GTyped
  <2>3. state' \in [AutoStrategies -> CounterShapes \union {None}] /\ rolled' \in [Accounts -> Nat]
    BY <2>1, <2>2, TouchTyped
  <2>4. /\ turns' \in [Procs -> TurnShapes]
        /\ \A y \in Procs : turns'[y].pc # "idle" => turns'[y].strategy \in AutoStrategies
    BY <2>1, GoesOnTyped, NextSignalTyped DEF GTyped
  <2> QED BY <2>1, <2>3, <2>4 DEF GTyped, AccountsTyped, ProcessTyped
<1>4. CASE PlaceEntry(x)
  <2>1. /\ turns[x].pc = "place" /\ TurnGoes(x, "count")
        /\ open' = [open EXCEPT ![<<s, now>>] = @ + 1] /\ entered' = [entered EXCEPT ![<<s, now>>] = @ + 1]
        /\ UNCHANGED <<today, autoMode, state, closed, admitted, rolled, uncounted, recent, cooled, bled, disturbances>>
    BY <1>4 DEF PlaceEntry, Awaits, s, now
  <2>2. open' \in [Accounts -> Nat] /\ entered' \in [Accounts -> Nat]
    BY <1>2, <2>1, OneCount DEF GTyped, AccountsTyped
  <2>3. /\ turns' \in [Procs -> TurnShapes]
        /\ \A y \in Procs : turns'[y].pc # "idle" => turns'[y].strategy \in AutoStrategies
    BY <2>1, GoesOnTyped DEF GTyped
  <2> QED BY <2>1, <2>2, <2>3 DEF GTyped, AccountsTyped, ProcessTyped
<1>5. CASE RecordEntry(x)
  <2> DEFINE st == StateFor(s, now)
             new == Counters(st.day, st.tradesToday + 1, st.consecutiveLosses, st.demoted)
  <2>1. /\ turns[x].pc = "count" /\ Touch(s, new) /\ TurnTo(x, NextSignal(x))
        /\ UNCHANGED <<today, autoMode, open, closed, admitted, entered, uncounted, recent, cooled, bled, disturbances>>
    BY <1>5 DEF RecordEntry, Awaits, s, now
  <2>2. st \in CounterShapes /\ s \in AutoStrategies
    BY <1>2, <2>1, StateForTyped DEF GTyped
  <2>3. new \in CounterShapes
    <3> HIDE DEF st
    <3> QED BY <2>2 DEF Counters, CounterShapes
  <2> HIDE DEF new
  <2>4. state' \in [AutoStrategies -> CounterShapes \union {None}] /\ rolled' \in [Accounts -> Nat]
    BY <2>1, <2>2, <2>3, TouchTyped
  <2>5. /\ turns' \in [Procs -> TurnShapes]
        /\ \A y \in Procs : turns'[y].pc # "idle" => turns'[y].strategy \in AutoStrategies
    BY <2>1, NextSignalTyped DEF GTyped
  <2> QED BY <2>1, <2>4, <2>5 DEF GTyped, AccountsTyped, ProcessTyped
<1> QED BY <1>1, <1>3, <1>4, <1>5 DEF EntryStep

LEMMA WorkerStepsTyped ==
  ASSUME GTyped, EndScan \/ Demote \/ EndReconcile \/ \E s \in AutoStrategies : DrainClosedTrades(s)
  PROVE  GTyped'
<1> Worker \in Procs
  BY DEF Procs
<1>1. CASE EndScan \/ EndReconcile
  <2>1. /\ turns' \in [Procs -> TurnShapes]
        /\ \A y \in Procs : turns'[y].pc # "idle" => turns'[y].strategy \in AutoStrategies
    BY <1>1, IdleTyped DEF EndScan, EndReconcile, GTyped
  <2> QED BY <1>1, <2>1 DEF EndScan, EndReconcile, historyVars, GTyped, AccountsTyped, ProcessTyped
<1>2. CASE Demote
  <2>1. /\ turns' \in [Procs -> TurnShapes]
        /\ \A y \in Procs : turns'[y].pc # "idle" => turns'[y].strategy \in AutoStrategies
    BY <1>2, GoesOnTyped DEF Demote, Awaits, GTyped
  <2>2. autoMode' \in [AutoStrategies -> ModeValues]
    BY <1>2 DEF Demote, GTyped, ProcessTyped, ModeValues
  <2> QED BY <1>2, <2>1, <2>2 DEF Demote, historyVars, GTyped, AccountsTyped, ProcessTyped
<1>3. ASSUME NEW s \in AutoStrategies, DrainClosedTrades(s) PROVE GTyped'
  <2> DEFINE st == Turn("result", s, 0, closed[s])
  <2>1. closed[s] \in Seq(Trades) /\ 0 \in Days
    BY GovernorAssumption DEF GTyped, ProcessTyped, Days
  <2>2. st \in TurnShapes /\ st.strategy \in AutoStrategies /\ TurnTo(Worker, st)
    BY <1>3, <2>1, TurnShape DEF DrainClosedTrades
  <2> HIDE DEF st
  <2>3. /\ turns' \in [Procs -> TurnShapes]
        /\ \A y \in Procs : turns'[y].pc # "idle" => turns'[y].strategy \in AutoStrategies
    BY <2>2, OneTurn DEF GTyped
  <2>4. closed' \in [AutoStrategies -> Seq(Trades)]
    BY <1>3 DEF DrainClosedTrades, GTyped, ProcessTyped
  <2> QED BY <1>3, <2>3, <2>4 DEF DrainClosedTrades, historyVars, GTyped, AccountsTyped, ProcessTyped
<1> QED BY <1>1, <1>2, <1>3

\* What recording a result does to the strategy it is of.
LEMMA RecordTyped ==
  ASSUME GTyped, RecordResult
  PROVE  /\ GTyped'
         /\ UNCHANGED bled
         /\ \E s \in AutoStrategies, result \in Results, st \in CounterShapes :
              /\ state[s] = None => st.consecutiveLosses = 0 /\ st.demoted = "no"
              /\ state[s] # None => /\ st.consecutiveLosses = state[s].consecutiveLosses
                                    /\ st.demoted = state[s].demoted
              /\ state'[s] = AfterResult(st, result)
              /\ recent'[s] = LastResults(Append(recent[s], result))
              /\ cooled' = IF recent'[s] = AllLost THEN cooled \union {s} ELSE cooled
              /\ \A r \in AutoStrategies : r # s => state'[r] = state[r] /\ recent'[r] = recent[r]
<1> Worker \in Procs
  BY DEF Procs
<1> DEFINE s == turns[Worker].strategy
           todo == turns[Worker].todo
           result == Head(todo).result
           st == StateFor(s, Head(todo).closedAt)
           new == AfterResult(st, result)
           pc == IF new.demoted = "yes" /\ st.demoted = "no" THEN "demote" ELSE "result"
<1>1. /\ turns[Worker].pc = "result" /\ todo # <<>>
      /\ Touch(s, new)
      /\ recent' = [recent EXCEPT ![s] = LastResults(Append(@, result))]
      /\ cooled' = IF recent'[s] = AllLost THEN cooled \union {s} ELSE cooled
      /\ TurnTo(Worker, Turn(pc, s, 0, Tail(todo)))
      /\ UNCHANGED <<today, autoMode, open, closed, admitted, entered, uncounted, bled, disturbances>>
  BY DEF RecordResult, Awaits
<1>2. s \in AutoStrategies /\ todo \in Seq(Trades)
  BY <1>1 DEF GTyped, ProcessTyped, TurnShapes
<1> HIDE DEF todo, s
<1>3. Head(todo) \in Trades /\ Tail(todo) \in Seq(Trades)
  BY <1>1, <1>2
<1>4. result \in Results /\ Head(todo).closedAt \in Days
  BY <1>3 DEF Trades
<1> HIDE DEF result
<1>5. /\ st \in CounterShapes
      /\ state[s] = None => st.consecutiveLosses = 0 /\ st.demoted = "no"
      /\ state[s] # None => /\ st.consecutiveLosses = state[s].consecutiveLosses
                            /\ st.demoted = state[s].demoted
  BY <1>2, <1>4, StateForTyped DEF GTyped
<1> HIDE DEF st
<1>6. new \in CounterShapes
  BY <1>4, <1>5, AfterResultTyped
<1> HIDE DEF new
<1>7. /\ state' \in [AutoStrategies -> CounterShapes \union {None}]
      /\ state'[s] = new /\ \A r \in AutoStrategies : r # s => state'[r] = state[r]
      /\ rolled' \in [Accounts -> Nat]
  BY <1>1, <1>2, <1>6, TouchTyped
<1>8. pc \in {"idle", "signal", "place", "count", "result", "demote"} /\ 0 \in Days
  BY GovernorAssumption DEF Days
<1> HIDE DEF pc
<1>9. /\ turns' \in [Procs -> TurnShapes]
      /\ \A y \in Procs : turns'[y].pc # "idle" => turns'[y].strategy \in AutoStrategies
  <2>1. Turn(pc, s, 0, Tail(todo)) \in TurnShapes /\ Turn(pc, s, 0, Tail(todo)).strategy \in AutoStrategies
    BY <1>2, <1>3, <1>8 DEF Turn, TurnShapes
  <2> QED BY <1>1, <2>1, OneTurn DEF GTyped
<1>10. /\ recent' \in [AutoStrategies -> Seq(Results)]
       /\ recent'[s] = LastResults(Append(recent[s], result))
       /\ \A r \in AutoStrategies : r # s => recent'[r] = recent[r]
  <2>1. recent[s] \in Seq(Results)
    BY <1>2 DEF GTyped, ProcessTyped
  <2>2. Append(recent[s], result) \in Seq(Results) /\ Append(recent[s], result) # <<>>
    BY <1>4, <2>1
  <2>3. LastResults(Append(recent[s], result)) \in Seq(Results)
    BY <2>2 DEF LastResults
  <2> QED BY <1>1, <1>2, <2>3 DEF GTyped, ProcessTyped
<1>11. cooled' \subseteq AutoStrategies
  BY <1>1, <1>2 DEF GTyped, ProcessTyped
<1>12. GTyped'
  BY <1>1, <1>7, <1>9, <1>10, <1>11 DEF GTyped, AccountsTyped, ProcessTyped
<1>13. UNCHANGED bled
  BY <1>1
<1> QED BY <1>1, <1>2, <1>4, <1>5, <1>7, <1>10, <1>12, <1>13 DEF new

LEMMA EnvironmentTyped ==
  ASSUME GTyped, Environment
  PROVE  GTyped'
<1>1. ASSUME NEW s \in AutoStrategies, NEW result \in Results, NEW entry \in Days, NEW day \in Days,
             TradeCloses(s, result, entry, day)
      PROVE  GTyped'
  <2>1. <<s, entry>> \in Accounts
    BY DEF Accounts
  <2>2. open' \in [Accounts -> Nat]
    BY <1>1, <2>1, OneCount DEF TradeCloses, GTyped, AccountsTyped
  <2>3. [result |-> result, closedAt |-> day] \in Trades
    BY DEF Trades
  <2>4. closed' \in [AutoStrategies -> Seq(Trades)]
    BY <1>1, <2>3 DEF TradeCloses, GTyped, ProcessTyped
  <2> QED BY <1>1, <2>2, <2>4 DEF TradeCloses, historyVars, GTyped, AccountsTyped, ProcessTyped
<1>2. ASSUME NEW s \in AutoStrategies, ApprovedEntry(s) PROVE GTyped'
  <2>1. <<s, today>> \in Accounts
    BY DEF Accounts, GTyped, ProcessTyped
  <2>2. open' \in [Accounts -> Nat]
    BY <1>2, <2>1, OneCount DEF ApprovedEntry, GTyped, AccountsTyped
  <2>3. disturbances' \in Nat
    BY <1>2 DEF ApprovedEntry, Disturb, GTyped, ProcessTyped
  <2> QED BY <1>2, <2>2, <2>3 DEF ApprovedEntry, historyVars, GTyped, AccountsTyped, ProcessTyped
<1>3. ASSUME NEW s \in AutoStrategies, NEW m \in ModeValues, OperatorSets(s, m) PROVE GTyped'
  <2>1. disturbances' \in Nat /\ autoMode' \in [AutoStrategies -> ModeValues]
    BY <1>3 DEF OperatorSets, Disturb, GTyped, ProcessTyped
  <2> QED BY <1>3, <2>1 DEF OperatorSets, historyVars, GTyped, AccountsTyped, ProcessTyped
<1>4. ASSUME NEW x \in Procs, AwaitThrows(x) PROVE GTyped'
  <2>1. turns[x].pc # "idle" /\ TurnTo(x, Idle)
    BY <1>4 DEF AwaitThrows
  <2>2. <<turns[x].strategy, turns[x].now>> \in Accounts
    BY <2>1 DEF GTyped, ProcessTyped, TurnShapes, Accounts
  <2>3. uncounted' \in [Accounts -> Nat]
    BY <1>4, <2>2, OneCount DEF AwaitThrows, GTyped, AccountsTyped
  <2>4. /\ turns' \in [Procs -> TurnShapes]
        /\ \A y \in Procs : turns'[y].pc # "idle" => turns'[y].strategy \in AutoStrategies
    BY <2>1, IdleTyped DEF GTyped
  <2>5. disturbances' \in Nat
    BY <1>4 DEF AwaitThrows, Disturb, GTyped, ProcessTyped
  <2> QED BY <1>4, <2>3, <2>4, <2>5 DEF AwaitThrows, GTyped, AccountsTyped, ProcessTyped
<1>5. CASE Midnight
  <2>1. today' \in Days
    BY <1>5, GovernorAssumption DEF Midnight, GTyped, ProcessTyped, Days
  <2> QED BY <1>5, <2>1 DEF Midnight, historyVars, GTyped, AccountsTyped, ProcessTyped
<1>6. CASE Restart
  <2>1. /\ turns' = [x \in Procs |-> Idle] /\ state' = [s \in AutoStrategies |-> None]
        /\ open' = [a \in Accounts |-> 0] /\ closed' = [s \in AutoStrategies |-> <<>>]
        /\ recent' = [s \in AutoStrategies |-> <<>>] /\ cooled' = {} /\ bled' = {}
        /\ UNCHANGED <<today, autoMode, admitted, entered>>
    BY <1>6 DEF Restart
  <2>2. turns' \in [Procs -> TurnShapes] /\ \A x \in Procs : turns'[x].pc = "idle"
    BY <2>1, IdleShape
  <2>3. rolled' \in [Accounts -> Nat]
    BY <1>6 DEF Restart, Dropped, GTyped, AccountsTyped
  <2>4. IsFiniteSet(Procs)
    BY GovernorAssumption, FS_AddElement DEF Procs
  <2> DEFINE W(a) == Cardinality({x \in Procs : Awaits(x, "count") /\ a = <<turns[x].strategy, turns[x].now>>})
  <2>5. \A a \in Accounts : W(a) \in Nat
    BY <2>4, FS_Subset, FS_CardinalityType
  <2>6. uncounted' \in [Accounts -> Nat]
    <3>1. uncounted' = [a \in Accounts |-> uncounted[a] + W(a)]
      BY <1>6 DEF Restart
    <3> HIDE DEF W
    <3>2. \A a \in Accounts : uncounted[a] + W(a) \in Nat
      BY <2>5 DEF GTyped, AccountsTyped
    <3> QED BY <3>1, <3>2
  <2>7. disturbances' \in Nat
    BY <1>6 DEF Restart, Disturb, GTyped, ProcessTyped
  <2> QED BY <2>1, <2>2, <2>3, <2>6, <2>7 DEF GTyped, AccountsTyped, ProcessTyped
<1> QED BY <1>1, <1>2, <1>3, <1>4, <1>5, <1>6 DEF Environment, Results

LEMMA GovernorTypeStep == GTyped /\ [GovernorNext]_governorVars => GTyped'
<1> SUFFICES ASSUME GTyped, [GovernorNext]_governorVars PROVE GTyped'
  OBVIOUS
<1>1. CASE UNCHANGED governorVars
  BY <1>1 DEF governorVars, historyVars, GTyped, AccountsTyped, ProcessTyped
<1> QED BY <1>1, EntriesTyped, WorkerStepsTyped, RecordTyped, EnvironmentTyped DEF GovernorNext, MonitorStep

\* Every variable of the governor keeps its type.
THEOREM GovernorTyped == GovernorSpec => []GovernorTypeOK
<1> QED BY GovernorTypeInit, GovernorTypeStep, TypedIsTypeOK, PTL DEF GovernorSpec

-----------------------------------------------------------------------------
(* The cooldown                                                            *)

\* The counter of a strategy is at least its losing streak, and a streak that was seen
\* at its length has demoted it.
Streaks ==
  \A s \in AutoStrategies :
    /\ state[s] = None => recent[s] = <<>> /\ s \notin cooled
    /\ state[s] # None => Trails(recent[s], state[s].consecutiveLosses)
    /\ s \in cooled => state[s].demoted = "yes"

GInv == GTyped /\ Streaks /\ CooldownHolds

LEMMA StreaksInit == GovernorInit => GInv
  BY GovernorTypeInit DEF GovernorInit, GInv, Streaks, CooldownHolds

LEMMA StreaksKept ==
  ASSUME Streaks, UNCHANGED <<state, recent, cooled>>
  PROVE  Streaks'
  BY DEF Streaks

\* A touch that keeps what stateFor keeps.
LEMMA TouchKeeps ==
  ASSUME GInv, NEW s \in AutoStrategies, NEW now \in Days, NEW new \in CounterShapes, Touch(s, new),
         new.consecutiveLosses = StateFor(s, now).consecutiveLosses,
         new.demoted = StateFor(s, now).demoted, UNCHANGED <<recent, cooled>>
  PROVE  Streaks'
<1>1. state'[s] = new /\ new # None /\ \A r \in AutoStrategies : r # s => state'[r] = state[r]
  BY TouchTyped, GovernorAssumption DEF GInv
<1>2. Trails(<<>>, new.consecutiveLosses)
  BY DEF Trails
<1>3. /\ state[s] = None => recent[s] = <<>> /\ s \notin cooled
      /\ state[s] # None => /\ Trails(recent[s], state[s].consecutiveLosses)
                            /\ new.consecutiveLosses = state[s].consecutiveLosses
                            /\ new.demoted = state[s].demoted
      /\ s \in cooled => state[s].demoted = "yes"
  BY StateForTyped DEF GInv, GTyped, Streaks
<1>4. Trails(recent'[s], state'[s].consecutiveLosses) /\ (s \in cooled' => state'[s].demoted = "yes")
  BY <1>1, <1>2, <1>3
<1> QED BY <1>1, <1>4 DEF GInv, Streaks

\* A strategy in its cooldown is not admitted.
LEMMA AdmitHolds ==
  ASSUME GInv, NEW x \in Procs, AdmitEntry(x)
  PROVE  Streaks' /\ CooldownHolds'
<1> DEFINE s == turns[x].strategy
           now == turns[x].now
<1>1. /\ turns[x].pc = "signal" /\ Touch(s, StateFor(s, now)) /\ UNCHANGED <<recent, cooled>>
      /\ \/ bled' = bled \union ({s} \intersect cooled) /\ Admits(StateFor(s, now))
         \/ bled' = bled
  BY DEF AdmitEntry, Awaits
<1>2. s \in AutoStrategies /\ now \in Days
  BY <1>1 DEF GInv, GTyped, ProcessTyped, TurnShapes
<1> HIDE DEF s, now
<1>3. StateFor(s, now) \in CounterShapes
  BY <1>2, StateForTyped DEF GInv, GTyped
<1>4. Streaks'
  BY <1>1, <1>2, <1>3, TouchKeeps
<1>5. s \in cooled => ~Admits(StateFor(s, now))
  BY <1>2, StateForTyped DEF GInv, GTyped, Streaks, Admits
<1> QED BY <1>1, <1>4, <1>5 DEF GInv, CooldownHolds

LEMMA CountHolds ==
  ASSUME GInv, NEW x \in Procs, RecordEntry(x)
  PROVE  Streaks' /\ CooldownHolds'
<1> DEFINE s == turns[x].strategy
           now == turns[x].now
           st == StateFor(s, now)
           new == Counters(st.day, st.tradesToday + 1, st.consecutiveLosses, st.demoted)
<1>1. turns[x].pc = "count" /\ Touch(s, new) /\ UNCHANGED <<recent, cooled, bled>>
  BY DEF RecordEntry, Awaits
<1>2. s \in AutoStrategies /\ now \in Days
  BY <1>1 DEF GInv, GTyped, ProcessTyped, TurnShapes
<1> HIDE DEF s, now
<1>3. st \in CounterShapes
  BY <1>2, StateForTyped DEF GInv, GTyped
<1>4. new \in CounterShapes /\ new.consecutiveLosses = st.consecutiveLosses /\ new.demoted = st.demoted
  <2> HIDE DEF st
  <2> QED BY <1>3 DEF Counters, CounterShapes
<1> HIDE DEF new
<1>5. Streaks'
  BY <1>1, <1>2, <1>4, TouchKeeps
<1> QED BY <1>1, <1>5 DEF GInv, CooldownHolds

\* The result that completes the streak demotes.
LEMMA ResultHolds ==
  ASSUME GInv, RecordResult
  PROVE  Streaks' /\ CooldownHolds'
<1>1. PICK s \in AutoStrategies, result \in Results, st \in CounterShapes :
        /\ state[s] = None => st.consecutiveLosses = 0 /\ st.demoted = "no"
        /\ state[s] # None => /\ st.consecutiveLosses = state[s].consecutiveLosses
                              /\ st.demoted = state[s].demoted
        /\ state'[s] = AfterResult(st, result)
        /\ recent'[s] = LastResults(Append(recent[s], result))
        /\ cooled' = IF recent'[s] = AllLost THEN cooled \union {s} ELSE cooled
        /\ \A r \in AutoStrategies : r # s => state'[r] = state[r] /\ recent'[r] = recent[r]
  BY RecordTyped DEF GInv
<1> DEFINE losses == Losses(st, result)
<1>2. recent[s] \in Seq(Results) /\ st.consecutiveLosses \in Nat
  BY DEF GInv, GTyped, ProcessTyped, CounterShapes
<1>3. Trails(recent[s], st.consecutiveLosses)
  <2>1. CASE state[s] = None
    BY <2>1 DEF GInv, Streaks, Trails
  <2>2. CASE state[s] # None
    BY <1>1, <2>2 DEF GInv, Streaks
  <2> QED BY <2>1, <2>2
<1>4. losses \in Nat /\ Trails(Append(recent[s], result), losses)
  BY <1>2, <1>3, TrailAppend DEF Losses
<1>5. Append(recent[s], result) \in Seq(Results)
  BY <1>2
<1>6. Trails(recent'[s], losses)
  BY <1>1, <1>4, <1>5, LastResultsTrail
<1>7. /\ state'[s] # None /\ state'[s].consecutiveLosses = losses
      /\ losses >= MaxConsecutiveLosses => state'[s].demoted = "yes"
      /\ st.demoted = "yes" => state'[s].demoted = "yes"
  BY <1>1, AfterResultTyped, GovernorAssumption
<1>8. recent'[s] = AllLost => state'[s].demoted = "yes"
  BY <1>6, <1>7, AllLostTrail
<1>9. s \in cooled => state'[s].demoted = "yes"
  BY <1>1, <1>7 DEF GInv, Streaks
<1> HIDE DEF losses
<1>10. Streaks'
  <2> SUFFICES ASSUME NEW r \in AutoStrategies
               PROVE  /\ state'[r] = None => recent'[r] = <<>> /\ r \notin cooled'
                      /\ state'[r] # None => Trails(recent'[r], state'[r].consecutiveLosses)
                      /\ r \in cooled' => state'[r].demoted = "yes"
    BY DEF Streaks
  <2>1. CASE r = s
    BY <1>1, <1>6, <1>7, <1>8, <1>9, <2>1
  <2>2. CASE r # s
    BY <1>1, <2>2 DEF GInv, Streaks
  <2> QED BY <2>1, <2>2
<1> QED BY <1>10, RecordTyped DEF GInv, CooldownHolds

LEMMA StreaksStep == GInv /\ [GovernorNext]_governorVars => GInv'
<1> SUFFICES ASSUME GInv, [GovernorNext]_governorVars PROVE Streaks' /\ CooldownHolds'
  BY GovernorTypeStep DEF GInv
<1>1. ASSUME NEW x \in Procs, EntryStep(x) PROVE Streaks' /\ CooldownHolds'
  <2>1. CASE (\E s \in AutoStrategies : StartEntries(x, s)) \/ PlaceEntry(x)
    <3>1. UNCHANGED <<state, recent, cooled, bled>>
      BY <2>1 DEF StartEntries, PlaceEntry, historyVars
    <3> QED BY <3>1, StreaksKept DEF GInv, CooldownHolds
  <2> QED BY <1>1, <2>1, AdmitHolds, CountHolds DEF EntryStep
<1>2. CASE RecordResult
  BY <1>2, ResultHolds
<1>3. CASE EndScan \/ Demote \/ EndReconcile \/ \E s \in AutoStrategies : DrainClosedTrades(s)
  <2>1. UNCHANGED <<state, recent, cooled, bled>>
    BY <1>3 DEF EndScan, Demote, EndReconcile, DrainClosedTrades, historyVars
  <2> QED BY <2>1, StreaksKept DEF GInv, CooldownHolds
<1>4. CASE Restart
  <2>1. state' = [s \in AutoStrategies |-> None] /\ recent' = [s \in AutoStrategies |-> <<>>]
        /\ cooled' = {} /\ bled' = {}
    BY <1>4 DEF Restart
  <2> QED BY <2>1 DEF Streaks, CooldownHolds
<1>5. CASE Environment /\ ~Restart
  <2>1. UNCHANGED <<state, recent, cooled, bled>>
    BY <1>5 DEF Environment, TradeCloses, ApprovedEntry, OperatorSets, AwaitThrows, Midnight, historyVars
  <2> QED BY <2>1, StreaksKept DEF GInv, CooldownHolds
<1>6. CASE UNCHANGED governorVars
  BY <1>6, StreaksKept DEF governorVars, historyVars, GInv, CooldownHolds
<1> QED BY <1>1, <1>2, <1>3, <1>4, <1>5, <1>6 DEF GovernorNext, MonitorStep

\* Once the process has seen the losing streak, it admits no entry of that strategy any
\* more, whatever the mode says: for any length of the streak and any number of triggers.
THEOREM CooldownLasts == GovernorSpec => []CooldownHolds
<1>1. GInv => CooldownHolds
  BY DEF GInv
<1> QED BY <1>1, StreaksInit, StreaksStep, PTL DEF GovernorSpec

-----------------------------------------------------------------------------
(* The overshoot of the daily cap                                          *)

Cap == MaxTradesPerDay + Cardinality(Requests)

\* The processes an entry of the account is under way in, and those that placed it.
InFlight(a) == {x \in Procs : turns[x].pc \in {"place", "count"} /\ <<turns[x].strategy, turns[x].now>> = a}
Placing(a)  == {x \in Procs : turns[x].pc = "place" /\ <<turns[x].strategy, turns[x].now>> = a}
Placed(a)   == {x \in Procs : turns[x].pc = "count" /\ <<turns[x].strategy, turns[x].now>> = a}

\* What the counter holds of the account: nothing while it counts another day.
Counted(a) == IF state[a[1]] # None /\ state[a[1]].day = a[2] THEN state[a[1]].tradesToday ELSE 0

\* Between two drops no more is counted, placed or admitted than the cap and one entry of
\* each other process.
PerCount(a) == Counted(a) + Cardinality(InFlight(a)) <= Cap

\* What was placed is in the counts dropped, in the counter, still to be counted or lost.
Accounted(a) ==
  rolled[a] < MaxEntries =>
    entered[a] <= Cap * rolled[a] + Counted(a) + Cardinality(Placed(a)) + uncounted[a]

\* The drops are no longer told apart once there are as many as entries.
Bounded(a) == entered[a] + Cardinality(Placing(a)) <= admitted

AccountInv(a) == PerCount(a) /\ Accounted(a) /\ Bounded(a)

OInv == admitted <= MaxEntries /\ \A a \in Accounts : AccountInv(a)

LEMMA ProcsFinite ==
  /\ IsFiniteSet(Procs) /\ IsFiniteSet(Requests)
  /\ Cardinality(Requests) \in Nat /\ Cardinality(Procs) = Cardinality(Requests) + 1
  /\ Cap \in Nat /\ Cap >= Cardinality(Procs)
<1>1. IsFiniteSet(Requests) /\ Worker \notin Requests /\ MaxTradesPerDay \in Nat \ {0}
  BY GovernorAssumption
<1>2. Procs = Requests \union {Worker}
  BY DEF Procs
<1>3. IsFiniteSet(Procs) /\ Cardinality(Procs) = Cardinality(Requests) + 1
  BY <1>1, <1>2, FS_AddElement
<1>4. Cardinality(Requests) \in Nat
  BY <1>1, FS_CardinalityType
<1> QED BY <1>1, <1>3, <1>4 DEF Cap

\* Any set of processes is counted by a natural number no greater than theirs.
LEMMA ProcSets ==
  ASSUME NEW S \in SUBSET Procs
  PROVE  IsFiniteSet(S) /\ Cardinality(S) \in Nat /\ Cardinality(S) <= Cardinality(Procs)
  BY ProcsFinite, FS_Subset, FS_CardinalityType

LEMMA ProcAdds ==
  ASSUME NEW S \in SUBSET Procs, NEW x \in Procs, x \notin S
  PROVE  /\ Cardinality(S \union {x}) = Cardinality(S) + 1
         /\ Cardinality(S) < Cardinality(Procs)
<1>1. Cardinality(S \union {x}) = Cardinality(S) + 1
  BY ProcSets, FS_AddElement
<1>2. S \union {x} \in SUBSET Procs
  OBVIOUS
<1> QED BY <1>1, <1>2, ProcSets

LEMMA ProcDrops ==
  ASSUME NEW S \in SUBSET Procs, NEW x \in S
  PROVE  Cardinality(S \ {x}) = Cardinality(S) - 1 /\ Cardinality(S) \in Nat \ {0}
<1>1. S \ {x} \in SUBSET Procs /\ x \notin S \ {x} /\ (S \ {x}) \union {x} = S /\ x \in Procs
  OBVIOUS
<1>2. Cardinality(S) = Cardinality(S \ {x}) + 1
  BY <1>1, ProcAdds
<1>3. Cardinality(S \ {x}) \in Nat
  BY <1>1, ProcSets
<1> QED BY <1>2, <1>3

\* The numbers the invariant is about.
LEMMA AccountNumbers ==
  ASSUME GTyped, NEW a \in Accounts
  PROVE  /\ Counted(a) \in Nat /\ entered[a] \in Nat /\ rolled[a] \in Nat /\ uncounted[a] \in Nat
         /\ admitted \in Nat
         /\ Cardinality(InFlight(a)) \in Nat /\ Cardinality(Placing(a)) \in Nat
         /\ Cardinality(Placed(a)) \in Nat /\ Cardinality(Placed(a)) <= Cardinality(InFlight(a))
<1>1. Counted(a) \in Nat
  BY DEF GTyped, ProcessTyped, Counted, CounterShapes, Accounts
<1>2. /\ InFlight(a) \in SUBSET Procs /\ Placing(a) \in SUBSET Procs /\ Placed(a) \in SUBSET Procs
      /\ Placed(a) \subseteq InFlight(a)
  BY DEF InFlight, Placing, Placed
<1>3. Cardinality(Placed(a)) <= Cardinality(InFlight(a))
  BY <1>2, ProcSets, FS_Subset
<1>4. Cardinality(InFlight(a)) \in Nat /\ Cardinality(Placing(a)) \in Nat /\ Cardinality(Placed(a)) \in Nat
  BY <1>2, ProcSets
<1> QED BY <1>1, <1>3, <1>4 DEF GTyped, AccountsTyped, ProcessTyped

\* A full count is what the next drop adds.
LEMMA OneMoreCap == \A r \in Nat : Cap * (r + 1) = Cap * r + Cap /\ Cap * r \in Nat /\ Cap * 0 = 0
  BY ProcsFinite

LEMMA OvershootFromInv == GTyped /\ OInv => OvershootAccounted
<1> SUFFICES ASSUME GTyped, OInv, NEW a \in Accounts
             PROVE  entered[a] <= Cap * (1 + rolled[a]) + uncounted[a]
  BY DEF OvershootAccounted, Cap
<1>1. /\ Counted(a) \in Nat /\ entered[a] \in Nat /\ rolled[a] \in Nat /\ uncounted[a] \in Nat
      /\ admitted \in Nat
      /\ Cardinality(InFlight(a)) \in Nat /\ Cardinality(Placing(a)) \in Nat
      /\ Cardinality(Placed(a)) \in Nat /\ Cardinality(Placed(a)) <= Cardinality(InFlight(a))
  BY AccountNumbers
<1>2. Cap \in Nat /\ Cap >= 1 /\ MaxEntries \in Nat
  BY ProcsFinite, GovernorAssumption
<1>3. CASE rolled[a] < MaxEntries
  <2>1. entered[a] <= Cap * rolled[a] + Counted(a) + Cardinality(Placed(a)) + uncounted[a]
    BY <1>3 DEF OInv, AccountInv, Accounted
  <2>2. Counted(a) + Cardinality(InFlight(a)) <= Cap
    BY DEF OInv, AccountInv, PerCount
  <2>3. Cap * (rolled[a] + 1) = Cap * rolled[a] + Cap /\ Cap * rolled[a] \in Nat
    BY <1>1, OneMoreCap
  <2>4. 1 + rolled[a] = rolled[a] + 1
    BY <1>1
  <2> QED BY <1>1, <1>2, <2>1, <2>2, <2>3, <2>4
<1>4. CASE rolled[a] >= MaxEntries
  <2>1. entered[a] <= MaxEntries
    BY <1>1, <1>2 DEF OInv, AccountInv, Bounded
  <2>2. \A r \in Nat : Cap * (1 + r) >= r
    BY <1>2
  <2> QED BY <1>1, <1>2, <1>4, <2>1, <2>2
<1> QED BY <1>1, <1>2, <1>3, <1>4

LEMMA OvershootInit == GovernorInit => OInv
<1> SUFFICES ASSUME GovernorInit PROVE OInv
  OBVIOUS
<1>1. /\ \A x \in Procs : turns[x].pc = "idle"
      /\ \A s \in AutoStrategies : state[s] = None
      /\ \A a \in Accounts : entered[a] = 0 /\ rolled[a] = 0 /\ uncounted[a] = 0
      /\ admitted = 0
  BY IdleShape DEF GovernorInit
<1>2. \A a \in Accounts : /\ InFlight(a) = {} /\ Placing(a) = {} /\ Placed(a) = {}
                          /\ Counted(a) = 0
  BY <1>1 DEF InFlight, Placing, Placed, Counted, Accounts
<1>3. Cardinality({}) = 0
  BY FS_EmptySet
<1>4. Cap \in Nat /\ MaxEntries \in Nat /\ Cap * 0 = 0
  BY ProcsFinite, GovernorAssumption
<1>5. ASSUME NEW a \in Accounts PROVE AccountInv(a)
  <2>1. /\ Cardinality(InFlight(a)) = 0 /\ Cardinality(Placing(a)) = 0 /\ Cardinality(Placed(a)) = 0
        /\ entered[a] = 0 /\ rolled[a] = 0 /\ uncounted[a] = 0 /\ Counted(a) = 0 /\ admitted = 0
    BY <1>1, <1>2, <1>3
  <2>2. PerCount(a)
    BY <1>4, <2>1 DEF PerCount
  <2>3. Cap * rolled[a] = 0
    BY <1>4, <2>1
  <2>4. Accounted(a)
    BY <2>1, <2>3 DEF Accounted
  <2>5. Bounded(a)
    BY <2>1 DEF Bounded
  <2> QED BY <2>2, <2>4, <2>5 DEF AccountInv
<1> QED BY <1>1, <1>4, <1>5 DEF OInv

\* A turn that does not enter, or leaves for, an entry keeps every set of processes.
LEMMA SetsKept ==
  ASSUME GTyped, NEW x \in Procs, NEW st \in TurnShapes, TurnTo(x, st),
         turns[x].pc \notin {"place", "count"}, st.pc \notin {"place", "count"}, NEW a \in Accounts
  PROVE  InFlight(a)' = InFlight(a) /\ Placing(a)' = Placing(a) /\ Placed(a)' = Placed(a)
<1>1. turns' = [turns EXCEPT ![x] = st] /\ turns \in [Procs -> TurnShapes]
  BY DEF TurnTo, GTyped, ProcessTyped
<1>2. turns'[x] = st /\ \A y \in Procs : y # x => turns'[y] = turns[y]
  BY <1>1
<1> QED BY <1>2 DEF InFlight, Placing, Placed

\* The other accounts do not see an entry's turn.
LEMMA OthersSets ==
  ASSUME GTyped, NEW x \in Procs, NEW st \in TurnShapes, TurnTo(x, st), NEW a \in Accounts,
         turns[x].pc \in {"place", "count"} => <<turns[x].strategy, turns[x].now>> # a,
         st.pc \in {"place", "count"} => <<st.strategy, st.now>> # a
  PROVE  InFlight(a)' = InFlight(a) /\ Placing(a)' = Placing(a) /\ Placed(a)' = Placed(a)
<1>1. turns' = [turns EXCEPT ![x] = st] /\ turns \in [Procs -> TurnShapes]
  BY DEF TurnTo, GTyped, ProcessTyped
<1>2. turns'[x] = st /\ \A y \in Procs : y # x => turns'[y] = turns[y]
  BY <1>1
<1> QED BY <1>2 DEF InFlight, Placing, Placed

\* How many an entry's own turn leaves in its account.
LEMMA OwnSets ==
  ASSUME GTyped, NEW x \in Procs, NEW st \in TurnShapes, TurnTo(x, st), NEW a \in Accounts,
         <<turns[x].strategy, turns[x].now>> = a,
         st.pc \in {"place", "count"} => <<st.strategy, st.now>> = a
  PROVE  /\ turns[x].pc = "signal" /\ st.pc = "place" =>
              /\ Cardinality(InFlight(a)') = Cardinality(InFlight(a)) + 1
              /\ Cardinality(InFlight(a)) < Cardinality(Procs)
              /\ Cardinality(Placing(a)') = Cardinality(Placing(a)) + 1
              /\ Placed(a)' = Placed(a)
         /\ turns[x].pc = "place" /\ st.pc = "count" =>
              /\ InFlight(a)' = InFlight(a)
              /\ Cardinality(Placing(a)') = Cardinality(Placing(a)) - 1
              /\ Cardinality(Placed(a)') = Cardinality(Placed(a)) + 1
         /\ turns[x].pc = "place" /\ st.pc \notin {"place", "count"} =>
              /\ Cardinality(InFlight(a)') = Cardinality(InFlight(a)) - 1
              /\ Cardinality(Placing(a)') = Cardinality(Placing(a)) - 1
              /\ Placed(a)' = Placed(a)
         /\ turns[x].pc = "count" /\ st.pc \notin {"place", "count"} =>
              /\ Cardinality(InFlight(a)') = Cardinality(InFlight(a)) - 1
              /\ Placing(a)' = Placing(a)
              /\ Cardinality(Placed(a)') = Cardinality(Placed(a)) - 1
<1>1. turns' = [turns EXCEPT ![x] = st] /\ turns \in [Procs -> TurnShapes]
  BY DEF TurnTo, GTyped, ProcessTyped
<1>2. turns'[x] = st /\ \A y \in Procs : y # x => turns'[y] = turns[y]
  BY <1>1
<1>3. InFlight(a) \in SUBSET Procs /\ Placing(a) \in SUBSET Procs /\ Placed(a) \in SUBSET Procs
  BY DEF InFlight, Placing, Placed
<1>4. CASE turns[x].pc = "signal" /\ st.pc = "place"
  <2>1. /\ InFlight(a)' = InFlight(a) \union {x} /\ x \notin InFlight(a)
        /\ Placing(a)' = Placing(a) \union {x} /\ x \notin Placing(a)
        /\ Placed(a)' = Placed(a)
    BY <1>2, <1>4 DEF InFlight, Placing, Placed
  <2> QED BY <1>3, <1>4, <2>1, ProcAdds
<1>5. CASE turns[x].pc = "place" /\ st.pc = "count"
  <2>1. /\ InFlight(a)' = InFlight(a)
        /\ Placing(a)' = Placing(a) \ {x} /\ x \in Placing(a)
        /\ Placed(a)' = Placed(a) \union {x} /\ x \notin Placed(a)
    BY <1>2, <1>5 DEF InFlight, Placing, Placed
  <2> QED BY <1>3, <1>5, <2>1, ProcAdds, ProcDrops
<1>6. CASE turns[x].pc = "place" /\ st.pc \notin {"place", "count"}
  <2>1. /\ InFlight(a)' = InFlight(a) \ {x} /\ x \in InFlight(a)
        /\ Placing(a)' = Placing(a) \ {x} /\ x \in Placing(a)
        /\ Placed(a)' = Placed(a)
    BY <1>2, <1>6 DEF InFlight, Placing, Placed
  <2> QED BY <1>3, <1>6, <2>1, ProcDrops
<1>7. CASE turns[x].pc = "count" /\ st.pc \notin {"place", "count"}
  <2>1. /\ InFlight(a)' = InFlight(a) \ {x} /\ x \in InFlight(a)
        /\ Placing(a)' = Placing(a)
        /\ Placed(a)' = Placed(a) \ {x} /\ x \in Placed(a)
    BY <1>2, <1>7 DEF InFlight, Placing, Placed
  <2> QED BY <1>3, <1>7, <2>1, ProcDrops
<1> QED BY <1>4, <1>5, <1>6, <1>7

\* stateFor of a moment counts what was counted of its day.
LEMMA StateForCounts ==
  ASSUME GTyped, NEW s \in AutoStrategies, NEW now \in Days
  PROVE  StateFor(s, now).day = now /\ StateFor(s, now).tradesToday = Counted(<<s, now>>)
  BY DEF StateFor, Counters, Counted, GTyped, ProcessTyped

\* A touch drops the count of the day it leaves and keeps those of the other accounts.
LEMMA TouchCounts ==
  ASSUME GTyped, NEW s \in AutoStrategies, NEW new \in CounterShapes, Touch(s, new), NEW a \in Accounts
  PROVE  /\ a = <<s, new.day>> => Counted(a)' = new.tradesToday /\ rolled'[a] = rolled[a]
         /\ a # <<s, new.day>> => \/ Counted(a)' = Counted(a) /\ rolled'[a] = rolled[a]
                                  \/ Counted(a)' = 0 /\ rolled'[a] = Dropped(a)
<1>1. /\ state'[s] = new /\ \A r \in AutoStrategies : r # s => state'[r] = state[r]
  BY TouchTyped
<1>2. a = <<a[1], a[2]>> /\ a[1] \in AutoStrategies /\ a[2] \in Days
  BY DEF Accounts
<1>3. new # None
  BY GovernorAssumption
<1>4. rolled'[a] = IF state[s] # None /\ state[s].day # new.day /\ a = <<s, state[s].day>>
                     THEN Dropped(a) ELSE rolled[a]
  <2>1. rolled \in [Accounts -> Nat]
    BY DEF GTyped, AccountsTyped
  <2> QED BY <2>1 DEF Touch
<1>5. CASE a[1] # s
  BY <1>1, <1>2, <1>4, <1>5 DEF Counted
<1>6. CASE a[1] = s /\ a[2] = new.day
  BY <1>1, <1>2, <1>3, <1>4, <1>6 DEF Counted
<1>7. CASE a[1] = s /\ a[2] # new.day
  <2>1. Counted(a)' = 0
    BY <1>1, <1>7 DEF Counted
  <2>2. CASE state[s] # None /\ state[s].day = a[2]
    BY <1>2, <1>4, <1>7, <2>1, <2>2
  <2>3. CASE ~(state[s] # None /\ state[s].day = a[2])
    BY <1>2, <1>4, <1>7, <2>1, <2>3 DEF Counted
  <2> QED BY <2>2, <2>3
<1> QED BY <1>2, <1>5, <1>6, <1>7

\* An account whose count is kept or dropped, and that nobody enters for, keeps its bounds.
LEMMA DropKeeps ==
  ASSUME GTyped, NEW a \in Accounts, AccountInv(a),
         \/ Counted(a)' = Counted(a) /\ rolled'[a] = rolled[a]
         \/ Counted(a)' = 0 /\ rolled'[a] = Dropped(a),
         InFlight(a)' = InFlight(a), Placing(a)' = Placing(a), Placed(a)' = Placed(a),
         entered'[a] = entered[a], uncounted'[a] = uncounted[a],
         admitted' = admitted \/ admitted' = admitted + 1
  PROVE  AccountInv(a)'
<1>1. /\ Counted(a) \in Nat /\ entered[a] \in Nat /\ rolled[a] \in Nat /\ uncounted[a] \in Nat
      /\ admitted \in Nat
      /\ Cardinality(InFlight(a)) \in Nat /\ Cardinality(Placing(a)) \in Nat
      /\ Cardinality(Placed(a)) \in Nat /\ Cardinality(Placed(a)) <= Cardinality(InFlight(a))
  BY AccountNumbers
<1>2. Cap \in Nat /\ MaxEntries \in Nat
  BY ProcsFinite, GovernorAssumption
<1>3. PerCount(a)'
  BY <1>1, <1>2 DEF AccountInv, PerCount, Cap
<1>4. Bounded(a)'
  BY <1>1 DEF AccountInv, Bounded
<1>5. Accounted(a)'
  <2>1. CASE Counted(a)' = Counted(a) /\ rolled'[a] = rolled[a]
    BY <2>1 DEF AccountInv, Accounted, Cap
  <2>2. CASE Counted(a)' = 0 /\ rolled'[a] = Dropped(a)
    <3> SUFFICES ASSUME rolled'[a] < MaxEntries
                 PROVE  entered[a] <= Cap * rolled'[a] + 0 + Cardinality(Placed(a)) + uncounted[a]
      BY <2>2 DEF Accounted, Cap
    <3>1. rolled[a] < MaxEntries /\ rolled'[a] = rolled[a] + 1
      BY <1>1, <1>2, <2>2 DEF Dropped
    <3>2. entered[a] <= Cap * rolled[a] + Counted(a) + Cardinality(Placed(a)) + uncounted[a]
      BY <3>1 DEF AccountInv, Accounted
    <3>3. Counted(a) <= Cap
      BY <1>1, <1>2 DEF AccountInv, PerCount
    <3>4. Cap * rolled'[a] = Cap * rolled[a] + Cap /\ Cap * rolled[a] \in Nat
      BY <1>1, <3>1, OneMoreCap
    <3> QED BY <1>1, <1>2, <3>2, <3>3, <3>4
  <2> QED BY <2>1, <2>2
<1> QED BY <1>3, <1>4, <1>5 DEF AccountInv

\* A step that turns no entry and touches no counter keeps every account.
LEMMA IdleSteps ==
  ASSUME GTyped, OInv,
         \A a \in Accounts : InFlight(a)' = InFlight(a) /\ Placing(a)' = Placing(a) /\ Placed(a)' = Placed(a),
         UNCHANGED <<state, admitted, entered, rolled, uncounted>>
  PROVE  OInv'
<1>1. ASSUME NEW a \in Accounts PROVE AccountInv(a)'
  <2>1. Counted(a)' = Counted(a) /\ rolled'[a] = rolled[a] /\ AccountInv(a)
    BY DEF Counted, OInv
  <2> QED BY <2>1, DropKeeps
<1> QED BY <1>1 DEF OInv

LEMMA AdmitAccounted ==
  ASSUME GTyped, OInv, NEW x \in Procs, AdmitEntry(x)
  PROVE  OInv'
<1> DEFINE s   == turns[x].strategy
           now == turns[x].now
           st  == StateFor(s, now)
<1> PICK b \in Accounts : b = <<s, now>>
  BY DEF AdmitEntry, Awaits, GTyped, ProcessTyped, TurnShapes, Accounts
<1>1. turns[x].pc = "signal" /\ s \in AutoStrategies /\ now \in Days
  BY DEF AdmitEntry, Awaits, GTyped, ProcessTyped, TurnShapes
<1>2. st \in CounterShapes /\ st.day = now /\ st.tradesToday = Counted(b)
  BY <1>1, StateForTyped, StateForCounts DEF GTyped
<1>3. Touch(s, st) /\ UNCHANGED <<entered, uncounted>>
  BY DEF AdmitEntry
<1>4. \/ /\ Admits(st) /\ admitted < MaxEntries /\ admitted' = admitted + 1
         /\ TurnGoes(x, "place")
      \/ TurnTo(x, NextSignal(x)) /\ admitted' = admitted
  BY DEF AdmitEntry
<1> HIDE DEF st
<1>5. \A a \in Accounts :
        /\ a = b => Counted(a)' = st.tradesToday /\ rolled'[a] = rolled[a]
        /\ a # b => \/ Counted(a)' = Counted(a) /\ rolled'[a] = rolled[a]
                    \/ Counted(a)' = 0 /\ rolled'[a] = Dropped(a)
  BY <1>1, <1>2, <1>3, TouchCounts
<1>6. \A a \in Accounts : entered'[a] = entered[a] /\ uncounted'[a] = uncounted[a]
  BY <1>3
<1> HIDE DEF s, now
<1>7. CASE TurnTo(x, NextSignal(x)) /\ admitted' = admitted
  <2>1. NextSignal(x) \in TurnShapes /\ NextSignal(x).pc \in {"idle", "signal"}
    <3>1. turns[x] \in TurnShapes /\ turns[x].pc # "idle"
      BY <1>1 DEF GTyped, ProcessTyped
    <3>2. [turns[x] EXCEPT !.pc = "signal"].pc = "signal"
      BY <3>1 DEF TurnShapes
    <3> QED BY <3>1, <3>2, IdleShape, TurnGoesOn DEF NextSignal, GTyped
  <2>2. \A a \in Accounts : InFlight(a)' = InFlight(a) /\ Placing(a)' = Placing(a) /\ Placed(a)' = Placed(a)
    BY <1>1, <1>7, <2>1, SetsKept
  <2>3. ASSUME NEW a \in Accounts PROVE AccountInv(a)'
    <3>1. \/ Counted(a)' = Counted(a) /\ rolled'[a] = rolled[a]
          \/ Counted(a)' = 0 /\ rolled'[a] = Dropped(a)
      BY <1>2, <1>5
    <3> QED BY <1>6, <1>7, <2>2, <3>1, DropKeeps DEF OInv
  <2> QED BY <1>7, <2>3 DEF OInv
<1>8. CASE Admits(st) /\ admitted < MaxEntries /\ admitted' = admitted + 1 /\ TurnGoes(x, "place")
  <2> DEFINE to == [turns[x] EXCEPT !.pc = "place"]
  <2>1. to \in TurnShapes /\ TurnTo(x, to) /\ to.pc = "place" /\ <<to.strategy, to.now>> = b
    <3>1. turns[x] \in TurnShapes /\ turns[x].pc # "idle"
      BY <1>1 DEF GTyped, ProcessTyped
    <3>2. to.pc = "place" /\ to.strategy = turns[x].strategy /\ to.now = turns[x].now
      BY <3>1 DEF TurnShapes
    <3> QED BY <1>8, <3>1, <3>2, TurnGoesOn DEF TurnGoes, GTyped, s, now
  <2> HIDE DEF to
  <2>2. ASSUME NEW a \in Accounts, a # b PROVE AccountInv(a)'
    <3>1. InFlight(a)' = InFlight(a) /\ Placing(a)' = Placing(a) /\ Placed(a)' = Placed(a)
      BY <1>1, <2>1, <2>2, OthersSets
    <3> QED BY <1>5, <1>6, <1>8, <2>2, <3>1, DropKeeps DEF OInv
  <2>3. AccountInv(b)'
    <3>1. /\ Cardinality(InFlight(b)') = Cardinality(InFlight(b)) + 1
          /\ Cardinality(InFlight(b)) < Cardinality(Procs)
          /\ Cardinality(Placing(b)') = Cardinality(Placing(b)) + 1
          /\ Placed(b)' = Placed(b)
      BY <1>1, <2>1, OwnSets DEF s, now
    <3>2. Counted(b)' = Counted(b) /\ rolled'[b] = rolled[b] /\ Counted(b) < MaxTradesPerDay
      BY <1>1, <1>2, <1>5, <1>8 DEF Admits
    <3>3. /\ Counted(b) \in Nat /\ entered[b] \in Nat /\ admitted \in Nat
          /\ Cardinality(InFlight(b)) \in Nat /\ Cardinality(Placing(b)) \in Nat
      BY <1>1, AccountNumbers
    <3>4. Cardinality(Procs) = Cardinality(Requests) + 1 /\ Cardinality(Requests) \in Nat
          /\ MaxTradesPerDay \in Nat
      BY ProcsFinite, GovernorAssumption
    <3>5. PerCount(b)'
      BY <3>1, <3>2, <3>3, <3>4 DEF PerCount, Cap
    <3>6. Bounded(b)'
      BY <1>1, <1>6, <1>8, <3>1, <3>3 DEF OInv, AccountInv, Bounded
    <3>7. Accounted(b)'
      BY <1>1, <1>6, <3>1, <3>2 DEF OInv, AccountInv, Accounted, Cap
    <3> QED BY <3>5, <3>6, <3>7 DEF AccountInv
  <2>4. admitted' <= MaxEntries
    <3>1. admitted \in Nat /\ MaxEntries \in Nat
      BY GovernorAssumption DEF GTyped, ProcessTyped
    <3>2. admitted' = admitted + 1 /\ admitted < MaxEntries
      BY <1>8
    <3> QED BY <3>1, <3>2
  <2> QED BY <2>2, <2>3, <2>4 DEF OInv
<1> QED BY <1>4, <1>7, <1>8

LEMMA PlaceAccounted ==
  ASSUME GTyped, OInv, NEW x \in Procs, PlaceEntry(x)
  PROVE  OInv'
<1> PICK b \in Accounts : b = <<turns[x].strategy, turns[x].now>>
  BY DEF PlaceEntry, Awaits, GTyped, ProcessTyped, TurnShapes, Accounts
<1> DEFINE to == [turns[x] EXCEPT !.pc = "count"]
<1>1. turns[x] \in TurnShapes /\ turns[x].pc = "place"
  BY DEF PlaceEntry, Awaits, GTyped, ProcessTyped, TurnShapes
<1>2. /\ entered' = [entered EXCEPT ![b] = @ + 1] /\ TurnTo(x, to)
      /\ UNCHANGED <<state, admitted, rolled, uncounted>>
  BY DEF PlaceEntry, TurnGoes
<1>3. to \in TurnShapes /\ to.pc = "count" /\ <<to.strategy, to.now>> = b
  <2>1. to.pc = "count" /\ to.strategy = turns[x].strategy /\ to.now = turns[x].now
    BY <1>1 DEF TurnShapes
  <2> QED BY <1>1, <2>1, TurnGoesOn DEF GTyped
<1> HIDE DEF to
<1>4. /\ \A a \in Accounts : a # b => entered'[a] = entered[a]
      /\ entered'[b] = entered[b] + 1
      /\ \A a \in Accounts : Counted(a)' = Counted(a) /\ rolled'[a] = rolled[a] /\ uncounted'[a] = uncounted[a]
  BY <1>1, <1>2 DEF Counted, GTyped, AccountsTyped
<1>5. ASSUME NEW a \in Accounts, a # b PROVE AccountInv(a)'
  <2>1. InFlight(a)' = InFlight(a) /\ Placing(a)' = Placing(a) /\ Placed(a)' = Placed(a)
    BY <1>1, <1>2, <1>3, <1>5, OthersSets
  <2> QED BY <1>2, <1>4, <1>5, <2>1, DropKeeps DEF OInv
<1>6. AccountInv(b)'
  <2>1. /\ InFlight(b)' = InFlight(b)
        /\ Cardinality(Placing(b)') = Cardinality(Placing(b)) - 1
        /\ Cardinality(Placed(b)') = Cardinality(Placed(b)) + 1
    BY <1>1, <1>2, <1>3, OwnSets
  <2>2. /\ Counted(b) \in Nat /\ entered[b] \in Nat /\ rolled[b] \in Nat /\ uncounted[b] \in Nat
        /\ admitted \in Nat /\ Cap * rolled[b] \in Nat
        /\ Cardinality(Placing(b)) \in Nat /\ Cardinality(Placed(b)) \in Nat
    BY <1>1, AccountNumbers, OneMoreCap
  <2>3. PerCount(b)'
    BY <1>1, <1>4, <2>1 DEF OInv, AccountInv, PerCount, Cap
  <2>4. Bounded(b)'
    BY <1>1, <1>2, <1>4, <2>1, <2>2 DEF OInv, AccountInv, Bounded
  <2>5. Accounted(b)'
    <3>1. rolled[b] < MaxEntries =>
            entered[b] <= Cap * rolled[b] + Counted(b) + Cardinality(Placed(b)) + uncounted[b]
      BY <1>1 DEF OInv, AccountInv, Accounted
    <3>2. rolled[b] < MaxEntries =>
            entered'[b] <= Cap * rolled[b] + Counted(b) + Cardinality(Placed(b)') + uncounted[b]
      BY <1>4, <2>1, <2>2, <3>1
    <3> QED BY <1>1, <1>4, <3>2 DEF Accounted, Cap
  <2> QED BY <2>3, <2>4, <2>5 DEF AccountInv
<1> QED BY <1>2, <1>5, <1>6 DEF OInv

LEMMA RecordAccounted ==
  ASSUME GTyped, OInv, NEW x \in Procs, RecordEntry(x)
  PROVE  OInv'
<1> DEFINE s   == turns[x].strategy
           now == turns[x].now
           st  == StateFor(s, now)
           new == Counters(st.day, st.tradesToday + 1, st.consecutiveLosses, st.demoted)
<1> PICK b \in Accounts : b = <<s, now>>
  BY DEF RecordEntry, Awaits, GTyped, ProcessTyped, TurnShapes, Accounts
<1>1. turns[x] \in TurnShapes /\ turns[x].pc = "count" /\ s \in AutoStrategies /\ now \in Days
  BY DEF RecordEntry, Awaits, GTyped, ProcessTyped, TurnShapes
<1>2. st \in CounterShapes /\ st.day = now /\ st.tradesToday = Counted(b)
  BY <1>1, StateForTyped, StateForCounts DEF GTyped
<1>3. Touch(s, new) /\ TurnTo(x, NextSignal(x)) /\ UNCHANGED <<admitted, entered, uncounted>>
  BY DEF RecordEntry
<1> HIDE DEF st
<1>4. new \in CounterShapes /\ new.day = now /\ new.tradesToday = Counted(b) + 1
  BY <1>2 DEF Counters, CounterShapes
<1> HIDE DEF new
<1>5. \A a \in Accounts :
        /\ a = b => Counted(a)' = Counted(b) + 1 /\ rolled'[a] = rolled[a]
        /\ a # b => \/ Counted(a)' = Counted(a) /\ rolled'[a] = rolled[a]
                    \/ Counted(a)' = 0 /\ rolled'[a] = Dropped(a)
  BY <1>1, <1>3, <1>4, TouchCounts
<1>6. \A a \in Accounts : entered'[a] = entered[a] /\ uncounted'[a] = uncounted[a]
  BY <1>3
<1>7. NextSignal(x) \in TurnShapes /\ NextSignal(x).pc \in {"idle", "signal"}
  <2>1. [turns[x] EXCEPT !.pc = "signal"].pc = "signal"
    BY <1>1 DEF TurnShapes
  <2> QED BY <1>1, <2>1, IdleShape, TurnGoesOn DEF NextSignal, GTyped
<1> HIDE DEF s, now
<1>8. ASSUME NEW a \in Accounts, a # b PROVE AccountInv(a)'
  <2>1. InFlight(a)' = InFlight(a) /\ Placing(a)' = Placing(a) /\ Placed(a)' = Placed(a)
    BY <1>1, <1>3, <1>7, <1>8, OthersSets DEF s, now
  <2> QED BY <1>3, <1>5, <1>6, <1>8, <2>1, DropKeeps DEF OInv
<1>9. AccountInv(b)'
  <2>1. /\ Cardinality(InFlight(b)') = Cardinality(InFlight(b)) - 1
        /\ Placing(b)' = Placing(b)
        /\ Cardinality(Placed(b)') = Cardinality(Placed(b)) - 1
    BY <1>1, <1>3, <1>7, OwnSets DEF s, now
  <2>2. /\ Counted(b) \in Nat /\ entered[b] \in Nat /\ rolled[b] \in Nat /\ uncounted[b] \in Nat
        /\ admitted \in Nat /\ Cap * rolled[b] \in Nat /\ Cap \in Nat
        /\ Cardinality(InFlight(b)) \in Nat /\ Cardinality(Placed(b)) \in Nat
    BY <1>1, AccountNumbers, OneMoreCap, ProcsFinite
  <2>3. Counted(b)' = Counted(b) + 1 /\ rolled'[b] = rolled[b]
    BY <1>1, <1>5
  <2>4. PerCount(b)'
    <3>1. Counted(b) + Cardinality(InFlight(b)) <= Cap
      BY <1>1 DEF OInv, AccountInv, PerCount
    <3>2. Counted(b)' + Cardinality(InFlight(b)') <= Cap
      BY <2>1, <2>2, <2>3, <3>1
    <3> QED BY <3>2 DEF PerCount, Cap
  <2>5. Bounded(b)'
    BY <1>1, <1>3, <1>6, <2>1 DEF OInv, AccountInv, Bounded
  <2>6. Accounted(b)'
    <3>1. rolled[b] < MaxEntries =>
            entered[b] <= Cap * rolled[b] + Counted(b) + Cardinality(Placed(b)) + uncounted[b]
      BY <1>1 DEF OInv, AccountInv, Accounted
    <3>2. rolled[b] < MaxEntries =>
            entered[b] <= Cap * rolled[b] + Counted(b)' + Cardinality(Placed(b)') + uncounted[b]
      BY <2>1, <2>2, <2>3, <3>1
    <3> QED BY <1>1, <1>6, <2>3, <3>2 DEF Accounted, Cap
  <2> QED BY <2>4, <2>5, <2>6 DEF AccountInv
<1> QED BY <1>3, <1>8, <1>9 DEF OInv

LEMMA ResultAccounted ==
  ASSUME GTyped, OInv, RecordResult
  PROVE  OInv'
<1> DEFINE s     == turns[Worker].strategy
           trade == Head(turns[Worker].todo)
           st    == StateFor(s, trade.closedAt)
           new   == AfterResult(st, trade.result)
           to    == Turn(IF new.demoted = "yes" /\ st.demoted = "no" THEN "demote" ELSE "result",
                         s, 0, Tail(turns[Worker].todo))
<1>1. /\ Worker \in Procs /\ turns[Worker].pc = "result" /\ s \in AutoStrategies
      /\ trade \in Trades /\ Tail(turns[Worker].todo) \in Seq(Trades)
  <2>1. Worker \in Procs /\ turns[Worker].todo \in Seq(Trades) /\ turns[Worker].todo # <<>>
    BY DEF RecordResult, Procs, GTyped, ProcessTyped, TurnShapes
  <2>2. turns[Worker].pc = "result" /\ s \in AutoStrategies
    BY <2>1 DEF RecordResult, Awaits, GTyped, ProcessTyped
  <2> QED BY <2>1, <2>2
<1>2. Touch(s, new) /\ TurnTo(Worker, to) /\ UNCHANGED <<admitted, entered, uncounted>>
  BY DEF RecordResult
<1>3. trade.closedAt \in Days /\ trade.result \in Results
  BY <1>1 DEF Trades
<1> HIDE DEF trade
<1>4. st \in CounterShapes /\ st.day = trade.closedAt /\ st.tradesToday = Counted(<<s, trade.closedAt>>)
  BY <1>1, <1>3, StateForTyped, StateForCounts DEF GTyped
<1> HIDE DEF st
<1>5. new \in CounterShapes /\ new.day = trade.closedAt /\ new.tradesToday = Counted(<<s, trade.closedAt>>)
  BY <1>3, <1>4, AfterResultTyped DEF AfterResult, Counters
<1> HIDE DEF new
<1>6. to \in TurnShapes /\ to.pc \notin {"place", "count"}
  <2>1. 0 \in Days
    BY GovernorAssumption DEF Days
  <2>2. PICK pc \in {"demote", "result"} : to = Turn(pc, s, 0, Tail(turns[Worker].todo))
    OBVIOUS
  <2>3. s \in AutoStrategies /\ Tail(turns[Worker].todo) \in Seq(Trades)
    BY <1>1
  <2> HIDE DEF to, s
  <2>4. to \in TurnShapes
    BY <2>1, <2>2, <2>3, TurnShape
  <2>5. to.pc = pc
    BY <2>2 DEF Turn
  <2> QED BY <2>4, <2>5
<1> HIDE DEF to, s
<1>7. ASSUME NEW a \in Accounts PROVE AccountInv(a)'
  <2>1. \/ Counted(a)' = Counted(a) /\ rolled'[a] = rolled[a]
        \/ Counted(a)' = 0 /\ rolled'[a] = Dropped(a)
    BY <1>1, <1>2, <1>5, TouchCounts
  <2>2. InFlight(a)' = InFlight(a) /\ Placing(a)' = Placing(a) /\ Placed(a)' = Placed(a)
    BY <1>1, <1>2, <1>6, SetsKept
  <2> QED BY <1>2, <2>1, <2>2, DropKeeps DEF OInv
<1> QED BY <1>2, <1>7 DEF OInv

LEMMA ThrowAccounted ==
  ASSUME GTyped, OInv, NEW x \in Procs, AwaitThrows(x)
  PROVE  OInv'
<1>1. turns[x].pc \in {"place", "count", "demote"} /\ TurnTo(x, Idle)
      /\ UNCHANGED <<state, admitted, entered, rolled>>
  BY DEF AwaitThrows
<1>2. turns[x].pc # "count" => UNCHANGED uncounted
  BY DEF AwaitThrows, Awaits
<1>3. CASE turns[x].pc = "demote"
  <2>1. \A a \in Accounts : InFlight(a)' = InFlight(a) /\ Placing(a)' = Placing(a) /\ Placed(a)' = Placed(a)
    BY <1>1, <1>3, IdleShape, SetsKept
  <2> QED BY <1>1, <1>2, <1>3, <2>1, IdleSteps
<1>4. CASE turns[x].pc \in {"place", "count"}
  <2> PICK b \in Accounts : b = <<turns[x].strategy, turns[x].now>>
    BY <1>4 DEF GTyped, ProcessTyped, TurnShapes, Accounts
  <2>1. /\ \A a \in Accounts : a # b => uncounted'[a] = uncounted[a]
        /\ uncounted'[b] = IF turns[x].pc = "count" THEN uncounted[b] + 1 ELSE uncounted[b]
        /\ \A a \in Accounts : Counted(a)' = Counted(a) /\ rolled'[a] = rolled[a] /\ entered'[a] = entered[a]
    BY <1>1 DEF AwaitThrows, Awaits, Counted, GTyped, AccountsTyped
  <2>2. ASSUME NEW a \in Accounts, a # b PROVE AccountInv(a)'
    <3>1. InFlight(a)' = InFlight(a) /\ Placing(a)' = Placing(a) /\ Placed(a)' = Placed(a)
      BY <1>1, <2>2, IdleShape, OthersSets
    <3> QED BY <1>1, <2>1, <2>2, <3>1, DropKeeps DEF OInv
  <2>3. AccountInv(b)'
    <3>1. /\ Counted(b) \in Nat /\ entered[b] \in Nat /\ rolled[b] \in Nat /\ uncounted[b] \in Nat
          /\ admitted \in Nat /\ Cap * rolled[b] \in Nat /\ Cap \in Nat
          /\ Cardinality(InFlight(b)) \in Nat /\ Cardinality(Placing(b)) \in Nat
          /\ Cardinality(Placed(b)) \in Nat
      BY AccountNumbers, OneMoreCap, ProcsFinite
    <3>2. /\ Cardinality(InFlight(b)') = Cardinality(InFlight(b)) - 1
          /\ turns[x].pc = "place" => Cardinality(Placing(b)') = Cardinality(Placing(b)) - 1 /\ Placed(b)' = Placed(b)
          /\ turns[x].pc = "count" => Placing(b)' = Placing(b) /\ Cardinality(Placed(b)') = Cardinality(Placed(b)) - 1
      BY <1>1, <1>4, IdleShape, OwnSets
    <3>3. /\ Counted(b) + Cardinality(InFlight(b)) <= Cap
          /\ rolled[b] < MaxEntries =>
               entered[b] <= Cap * rolled[b] + Counted(b) + Cardinality(Placed(b)) + uncounted[b]
          /\ entered[b] + Cardinality(Placing(b)) <= admitted
      BY DEF OInv, AccountInv, PerCount, Accounted, Bounded
    <3>4. Counted(b) + Cardinality(InFlight(b)') <= Cap
      BY <3>1, <3>2, <3>3
    <3>5. entered[b] + Cardinality(Placing(b)') <= admitted
      BY <1>4, <3>1, <3>2, <3>3
    <3>6. rolled[b] < MaxEntries =>
            entered[b] <= Cap * rolled[b] + Counted(b) + Cardinality(Placed(b)') + uncounted'[b]
      BY <1>4, <2>1, <3>1, <3>2, <3>3
    <3>7. PerCount(b)'
      BY <2>1, <3>4 DEF PerCount, Cap
    <3>8. Bounded(b)'
      BY <1>1, <2>1, <3>5 DEF Bounded
    <3>9. Accounted(b)'
      BY <2>1, <3>6 DEF Accounted, Cap
    <3> QED BY <3>7, <3>8, <3>9 DEF AccountInv
  <2> QED BY <1>1, <2>2, <2>3 DEF OInv
<1> QED BY <1>1, <1>3, <1>4

LEMMA RestartAccounted ==
  ASSUME GTyped, OInv, Restart
  PROVE  OInv'
<1>1. \A x \in Procs : turns'[x].pc = "idle"
  BY IdleShape DEF Restart
<1>2. \A s \in AutoStrategies : state'[s] = None
  BY DEF Restart
<1>3. UNCHANGED <<admitted, entered>>
  BY DEF Restart
<1>4. ASSUME NEW a \in Accounts PROVE AccountInv(a)'
  <2>1. InFlight(a)' = {} /\ Placing(a)' = {} /\ Placed(a)' = {} /\ Counted(a)' = 0
    BY <1>1, <1>2 DEF InFlight, Placing, Placed, Counted, Accounts
  <2>2. Cardinality({}) = 0
    BY FS_EmptySet
  <2>3. /\ rolled'[a] = IF state[a[1]] # None /\ state[a[1]].day = a[2] THEN Dropped(a) ELSE rolled[a]
        /\ uncounted'[a] = uncounted[a] + Cardinality(Placed(a))
    <3>1. {x \in Procs : Awaits(x, "count") /\ a = <<turns[x].strategy, turns[x].now>>} = Placed(a)
      BY DEF Awaits, Placed
    <3> QED BY <3>1 DEF Restart
  <2>4. /\ Counted(a) \in Nat /\ entered[a] \in Nat /\ rolled[a] \in Nat /\ uncounted[a] \in Nat
        /\ admitted \in Nat /\ Cap * rolled[a] \in Nat /\ Cap \in Nat /\ MaxEntries \in Nat
        /\ Cardinality(InFlight(a)) \in Nat /\ Cardinality(Placing(a)) \in Nat
        /\ Cardinality(Placed(a)) \in Nat
    BY AccountNumbers, OneMoreCap, ProcsFinite, GovernorAssumption
  <2>5. /\ Counted(a) + Cardinality(InFlight(a)) <= Cap
        /\ rolled[a] < MaxEntries =>
             entered[a] <= Cap * rolled[a] + Counted(a) + Cardinality(Placed(a)) + uncounted[a]
        /\ entered[a] + Cardinality(Placing(a)) <= admitted
    BY DEF OInv, AccountInv, PerCount, Accounted, Bounded
  <2>6. PerCount(a)'
    BY <2>1, <2>2, <2>4 DEF PerCount, Cap
  <2>7. Bounded(a)'
    <3>1. entered[a] + 0 <= admitted
      BY <2>4, <2>5
    <3> QED BY <1>3, <2>1, <2>2, <3>1 DEF Bounded
  <2>8. Accounted(a)'
    <3> SUFFICES ASSUME rolled'[a] < MaxEntries
                 PROVE  entered[a] <= Cap * rolled'[a] + uncounted'[a]
      <4>1. entered[a] <= Cap * rolled'[a] + uncounted'[a] =>
              entered[a] <= Cap * rolled'[a] + 0 + 0 + uncounted'[a]
        <5>1. rolled'[a] \in Nat
          BY <2>3, <2>4 DEF Dropped
        <5>2. Cap * rolled'[a] \in Nat
          BY <5>1, OneMoreCap
        <5>3. uncounted'[a] \in Nat
          BY <2>3, <2>4
        <5> QED BY <5>2, <5>3
      <4> QED BY <1>3, <2>1, <2>2, <4>1 DEF Accounted, Cap
    <3>1. CASE state[a[1]] # None /\ state[a[1]].day = a[2]
      <4>1. rolled[a] < MaxEntries /\ rolled'[a] = rolled[a] + 1
        BY <2>3, <2>4, <3>1 DEF Dropped
      <4>2. Cap * rolled'[a] = Cap * rolled[a] + Cap
        BY <2>4, <4>1, OneMoreCap
      <4> QED BY <2>3, <2>4, <2>5, <4>1, <4>2
    <3>2. CASE ~(state[a[1]] # None /\ state[a[1]].day = a[2])
      <4>1. Counted(a) = 0 /\ rolled'[a] = rolled[a]
        BY <2>3, <3>2 DEF Counted
      <4> QED BY <2>3, <2>4, <2>5, <4>1
    <3> QED BY <3>1, <3>2
  <2> QED BY <2>6, <2>7, <2>8 DEF AccountInv
<1> QED BY <1>3, <1>4 DEF OInv

LEMMA OvershootStep == GTyped /\ OInv /\ [GovernorNext]_governorVars => OInv'
<1> SUFFICES ASSUME GTyped, OInv, [GovernorNext]_governorVars PROVE OInv'
  OBVIOUS
<1>1. ASSUME NEW x \in Procs, NEW st \in TurnShapes, TurnTo(x, st),
             turns[x].pc \notin {"place", "count"}, st.pc \notin {"place", "count"},
             UNCHANGED <<state, admitted, entered, rolled, uncounted>>
      PROVE  OInv'
  BY <1>1, SetsKept, IdleSteps
<1>2. ASSUME UNCHANGED <<turns, state, admitted, entered, rolled, uncounted>>
      PROVE  OInv'
  <2>1. \A a \in Accounts : InFlight(a)' = InFlight(a) /\ Placing(a)' = Placing(a) /\ Placed(a)' = Placed(a)
    BY <1>2 DEF InFlight, Placing, Placed
  <2> QED BY <1>2, <2>1, IdleSteps
<1>3. ASSUME NEW x \in Procs, EntryStep(x) PROVE OInv'
  <2>1. ASSUME NEW s \in AutoStrategies, StartEntries(x, s) PROVE OInv'
    <3>1. today \in Days /\ <<>> \in Seq(Trades)
      BY DEF GTyped, ProcessTyped
    <3>2. Turn("signal", s, today, <<>>) \in TurnShapes /\ Turn("signal", s, today, <<>>).pc = "signal"
      BY <3>1 DEF Turn, TurnShapes
    <3> QED BY <1>1, <2>1, <3>2 DEF StartEntries, Awaits, historyVars
  <2> QED BY <1>3, <2>1, AdmitAccounted, PlaceAccounted, RecordAccounted DEF EntryStep
<1>4. Worker \in Procs
  BY DEF Procs
<1>5. CASE EndScan \/ EndReconcile
  BY <1>1, <1>4, <1>5, IdleShape DEF EndScan, EndReconcile, Awaits, historyVars
<1>6. ASSUME NEW s \in AutoStrategies, DrainClosedTrades(s) PROVE OInv'
  <2>1. closed[s] \in Seq(Trades) /\ 0 \in Days
    BY GovernorAssumption DEF GTyped, ProcessTyped, Days
  <2>2. Turn("result", s, 0, closed[s]) \in TurnShapes /\ Turn("result", s, 0, closed[s]).pc = "result"
    BY <2>1, TurnShape
  <2> QED BY <1>1, <1>4, <1>6, <2>2 DEF DrainClosedTrades, Awaits, historyVars
<1>7. CASE Demote
  <2>1. turns[Worker] \in TurnShapes /\ turns[Worker].pc = "demote"
    BY <1>4, <1>7 DEF Demote, Awaits, GTyped, ProcessTyped
  <2>2. [turns[Worker] EXCEPT !.pc = "result"] \in TurnShapes
        /\ [turns[Worker] EXCEPT !.pc = "result"].pc = "result"
    BY <1>4, <2>1, TurnGoesOn DEF GTyped, TurnShapes
  <2> QED BY <1>1, <1>4, <1>7, <2>1, <2>2 DEF Demote, TurnGoes, historyVars
<1>8. CASE Environment
  <2>1. ASSUME NEW x \in Procs, AwaitThrows(x) PROVE OInv'
    BY <2>1, ThrowAccounted
  <2>2. CASE Midnight \/ \E s \in AutoStrategies :
               \/ \E result \in {"loss", "gain"}, entry \in Days, day \in Days :
                    TradeCloses(s, result, entry, day)
               \/ ApprovedEntry(s)
               \/ \E m \in ModeValues : OperatorSets(s, m)
    BY <1>2, <2>2 DEF Midnight, TradeCloses, ApprovedEntry, OperatorSets, historyVars
  <2> QED BY <1>8, <2>1, <2>2, RestartAccounted DEF Environment
<1>9. CASE UNCHANGED governorVars
  BY <1>2, <1>9 DEF governorVars, historyVars
<1> QED BY <1>3, <1>5, <1>6, <1>7, <1>8, <1>9, ResultAccounted DEF GovernorNext, MonitorStep

\* The entries of a day exceed the daily cap only by a cap's worth for each time its count
\* was dropped, by the entries never counted and by one entry of each other process: for any
\* caps, triggers, days and restarts.
THEOREM OvershootBounded == GovernorSpec => []OvershootAccounted
<1> QED BY GovernorTypeInit, GovernorTypeStep, OvershootInit, OvershootStep, OvershootFromInv, PTL DEF GovernorSpec
=============================================================================
