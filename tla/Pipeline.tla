------------------------------ MODULE Pipeline -----------------------------
(***************************************************************************)
(* The trade pipeline (apps/api/src/pipeline): one queue worker runs the   *)
(* scan, monitor and expiry jobs one after the other; REST and Telegram    *)
(* requests run beside it and interleave with it, and with each other, at  *)
(* every await.  A process is a record that says where it waits and what   *)
(* it has read so far; one action is what runs between two awaits.         *)
(*                                                                         *)
(* The execution port is the simulator's rung, reduced to bracket states   *)
(* (module Simulator has its cash).  The governor, the analyst and the     *)
(* crowding filter are a choice: they let an entry pass or drop it.        *)
(***************************************************************************)
EXTENDS RiskManager

CONSTANTS
  Strategies, Tickers,
  Drafts,         \* the drafts a scan or the dev trigger can produce
  Proposals,      \* ids of the rows that may be stored
  Brackets,       \* ids of the brackets the port may hand out
  Worker,         \* the queue worker
  Requests,       \* concurrent HTTP and Telegram handlers
  Jobs,           \* of "scan", "monitor", "expiry", "trigger": what is started
  Modes,          \* the modes the operator sets
  Quoted,         \* the port has a mark: a market entry fills when placed
  Slips,          \* adverse slippage of a fill against the draft's entry
  Equity,
  Disturbances,   \* of "trip", "rearm", "mode", "exit", "fault", "restart": what occurs
  MaxDisturbances,
  None

VARIABLES
  mode,       \* strategies.mode
  kill,       \* the kill-switch row: "off", "tripped" (demotion to come), "on"
  rows,       \* the proposals table
  elapsed,    \* proposals whose expiry is in the past
  brackets,   \* the port's brackets
  index,      \* InMemoryBracketIndex: <<strategy, ticker>> -> bracket or None
  closed,     \* the port's closed-trade buffer, not drained yet
  audit,      \* audit_log: <<proposal, action>>
  procs,      \* process -> where it waits and what it has read
  late,       \* history: process -> brackets it placed unasked since the trip
  left        \* disturbances the environment may still cause

vars == <<mode, kill, rows, elapsed, brackets, index, closed, audit, procs, late, left>>

Procs    == {Worker} \union Requests
Keys     == Strategies \X Tickers
KeyOf(x) == <<x.strategy, x.ticker>>
AllModes == {"OFF", "WATCH", "APPROVE", "AUTO"}
Live     == {"pending", "open"}
Active   == kill # "off"

ASSUME PipelineAssumption ==
  /\ DOMAIN Params = Strategies
  /\ Drafts \subseteq [strategy : Strategies, ticker : Tickers,
                       side : {"long", "short"}, entry : Nat, stop : Nat]
  /\ Worker \notin Requests
  /\ Modes \subseteq AllModes
  /\ Quoted \in BOOLEAN
  /\ Slips \subseteq Nat /\ Slips # {}
  /\ Equity \in Nat \ {0}
  /\ MaxDisturbances \in Nat
  /\ None \notin Proposals \union Brackets /\ None \notin Drafts /\ None \notin Strategies

NoRow     == [status |-> "none", draft |-> None, qty |-> 0, sized |-> 0, by |-> "nobody"]
NoBracket == [st |-> "none", p |-> None, draft |-> None, qty |-> 0, placed |-> 0,
              by |-> "nobody", entry |-> 0, stop |-> 0]
Idle      == [pc |-> "idle", mode |-> "OFF", draft |-> None, seen |-> {}, p |-> None,
              qty |-> 0, by |-> "nobody", todo |-> {}, strategy |-> None]

Stored == {p \in Proposals : rows[p].status # "none"}
Free   == {b \in Brackets : brackets[b].st = "none"}

\* The port's view of an open bracket, as getPositions returns it.
PositionOf(b) ==
  [bracket |-> b, strategy |-> brackets[b].draft.strategy,
   ticker |-> brackets[b].draft.ticker, side |-> brackets[b].draft.side,
   qty |-> brackets[b].qty, entry |-> brackets[b].entry, stop |-> brackets[b].stop]

OpenPositions == {PositionOf(b) : b \in {c \in Brackets : brackets[c].st = "open"}}

Init ==
  /\ mode \in [Strategies -> Modes]
  /\ kill = "off"
  /\ rows = [p \in Proposals |-> NoRow]
  /\ elapsed = {}
  /\ brackets = [b \in Brackets |-> NoBracket]
  /\ index = [k \in Keys |-> None]
  /\ closed = {}
  /\ audit = {}
  /\ procs = [x \in Procs |-> Idle]
  /\ late = [x \in Procs |-> {}]
  /\ left = MaxDisturbances

-----------------------------------------------------------------------------
(* How a process moves.                                                    *)

At(x, pc)     == procs[x].pc = pc
Become(x, st) == procs' = [procs EXCEPT ![x] = st]

\* A signal is dealt with: a scan takes its next signal under the runtime it
\* read at the start, a dev trigger has only one and answers.
SignalDone(x) ==
  IF x = Worker
    THEN [Idle EXCEPT !.pc = "scan", !.strategy = procs[x].strategy, !.mode = procs[x].mode]
    ELSE Idle

-----------------------------------------------------------------------------
(* Scan and dev trigger: signal -> risk -> mode gate -> order.             *)

\* runScan and injectSyntheticProposal read the runtime; OFF ends it there.
StartScan(x, s) ==
  /\ (IF x = Worker THEN "scan" ELSE "trigger") \in Jobs
  /\ At(x, "idle")
  /\ mode[s] # "OFF"
  /\ Become(x, [Idle EXCEPT !.pc = "scan", !.strategy = s, !.mode = mode[s]])
  /\ UNCHANGED <<mode, kill, rows, elapsed, brackets, index, closed, audit, late, left>>

EndScan ==
  /\ At(Worker, "scan")
  /\ Become(Worker, Idle)
  /\ UNCHANGED <<mode, kill, rows, elapsed, brackets, index, closed, audit, late, left>>

\* A signal the analyst and the crowding filter let through becomes a draft (the
\* dev trigger's is always long); the open positions are read first, the kill switch after another await.
ReadPositions(x, d) ==
  /\ At(x, "scan")
  /\ d.strategy = procs[x].strategy
  /\ x # Worker => d.side = "long"
  /\ Become(x, [procs[x] EXCEPT !.pc = "risk", !.draft = d, !.seen = OpenPositions])
  /\ UNCHANGED <<mode, kill, rows, elapsed, brackets, index, closed, audit, late, left>>

\* Evaluate and gateByMode run without an await in between.  AUTO may be
\* capped by the governor, WATCH only journals; a throw ends the scan.
Gate(x, killed) ==
  LET d       == procs[x].draft
      verdict == Verdict(d, Equity, procs[x].seen, killed)
  IN /\ At(x, "risk")
     /\ \/ /\ verdict = "throws"
           /\ Become(x, Idle)
        \/ /\ verdict # "throws"
           /\ verdict = "approved" => procs[x].mode # "APPROVE"
           /\ Become(x, SignalDone(x))
        \/ /\ verdict = "approved"
           /\ procs[x].mode \in {"APPROVE", "AUTO"}
           /\ Become(x, [procs[x] EXCEPT !.pc = "persist", !.seen = {}, !.by = "auto",
                                         !.qty = SizeFor(d, Equity)])
     /\ UNCHANGED <<mode, kill, rows, elapsed, brackets, index, closed, audit, late, left>>

\* Mutant: the gate does not look at the switch.
GateUnswitched(x)  == Gate(x, FALSE)
RiskAndModeGate(x) == Gate(x, Active)

\* The insert; an APPROVE proposal is then left to the user, AUTO goes on.
PersistProposal(x) ==
  LET p == CHOOSE q \in Proposals : rows[q].status = "none"
  IN /\ At(x, "persist")
     /\ Stored # Proposals
     /\ rows' = [rows EXCEPT ![p] = [status |-> "pending", draft |-> procs[x].draft,
                                     qty |-> procs[x].qty, sized |-> procs[x].qty,
                                     by |-> "nobody"]]
     /\ Become(x, IF procs[x].mode = "AUTO"
                    THEN [procs[x] EXCEPT !.pc = "place", !.p = p]
                    ELSE SignalDone(x))
     /\ UNCHANGED <<mode, kill, elapsed, brackets, index, closed, audit, late, left>>

\* Mutant: the entry is not recorded.
RecordNothing(k, b) == index' = index
RecordBracket(k, b) == index' = [index EXCEPT ![k] = b]

\* placeBracketAndRecord up to its second await: the port takes the bracket
\* and the index entry of the key is overwritten.
PlaceBracket(x) ==
  LET d == procs[x].draft
      b == CHOOSE c \in Brackets : c \in Free
  IN /\ At(x, "place")
     /\ Free # {}
     /\ \E slip \in Slips :
          brackets' = [brackets EXCEPT ![b] =
            [st |-> IF Quoted THEN "open" ELSE "pending", p |-> procs[x].p, draft |-> d,
             qty |-> procs[x].qty, placed |-> procs[x].qty, by |-> procs[x].by,
             entry |-> IF d.side = "long" THEN d.entry + slip ELSE d.entry - slip,
             stop |-> d.stop]]
     /\ RecordBracket(KeyOf(d), b)
     /\ late' = IF Active /\ procs[x].by = "auto"
                  THEN [late EXCEPT ![x] = @ \union {b}] ELSE late
     /\ Become(x, [procs[x] EXCEPT !.pc = "mark"])
     /\ UNCHANGED <<mode, kill, rows, elapsed, closed, audit, left>>

\* Mutant: the update is not guarded on the status.
DecideRowUnguarded(p, st, by, qty) ==
  rows' = [rows EXCEPT ![p].status = st, ![p].by = by, ![p].qty = qty]

\* An update WHERE status = 'pending': matching no row is not an error.
DecideRow(p, st, by, qty) ==
  rows' = IF rows[p].status = "pending"
            THEN [rows EXCEPT ![p].status = st, ![p].by = by, ![p].qty = qty]
            ELSE rows

\* Mutant: the proposed size is recorded, not the approved one.
MarkProposedQty(x) ==
  /\ At(x, "mark")
  /\ DecideRow(procs[x].p, "executed", procs[x].by, rows[procs[x].p].qty)
  /\ Become(x, [procs[x] EXCEPT !.pc = "audit"])
  /\ UNCHANGED <<mode, kill, elapsed, brackets, index, closed, audit, late, left>>

MarkExecuted(x) ==
  /\ At(x, "mark")
  /\ DecideRow(procs[x].p, "executed", procs[x].by, procs[x].qty)
  /\ Become(x, [procs[x] EXCEPT !.pc = "audit"])
  /\ UNCHANGED <<mode, kill, elapsed, brackets, index, closed, audit, late, left>>

AuditExecution(x) ==
  /\ At(x, "audit")
  /\ audit' = audit \union
       {<<procs[x].p, IF procs[x].by = "user" THEN "approve_execute" ELSE "auto_execute">>}
  /\ Become(x, IF procs[x].by = "user" THEN Idle ELSE SignalDone(x))
  /\ UNCHANGED <<mode, kill, rows, elapsed, brackets, index, closed, late, left>>

-----------------------------------------------------------------------------
(* The user's decision on a proposal (decideProposal).                     *)

\* The row is read once; anything but pending ends the request.  An approved
\* quantity may only be lower.  Neither the switch nor the expiry is looked at.
Approve(x, p, qty) ==
  /\ At(x, "idle")
  /\ rows[p].status = "pending"
  /\ qty > 0 /\ qty <= rows[p].qty
  /\ Become(x, [Idle EXCEPT !.pc = "place", !.p = p, !.draft = rows[p].draft,
                            !.qty = qty, !.by = "user"])
  /\ UNCHANGED <<mode, kill, rows, elapsed, brackets, index, closed, audit, late, left>>

Reject(x, p) ==
  /\ At(x, "idle")
  /\ rows[p].status = "pending"
  /\ Become(x, [Idle EXCEPT !.pc = "reject", !.p = p])
  /\ UNCHANGED <<mode, kill, rows, elapsed, brackets, index, closed, audit, late, left>>

RejectRow(x) ==
  /\ At(x, "reject")
  /\ DecideRow(procs[x].p, "rejected", "user", rows[procs[x].p].qty)
  /\ Become(x, [procs[x] EXCEPT !.pc = "auditReject"])
  /\ UNCHANGED <<mode, kill, elapsed, brackets, index, closed, audit, late, left>>

AuditRejection(x) ==
  /\ At(x, "auditReject")
  /\ audit' = audit \union {<<procs[x].p, "reject">>}
  /\ Become(x, Idle)
  /\ UNCHANGED <<mode, kill, rows, elapsed, brackets, index, closed, late, left>>

-----------------------------------------------------------------------------
(* The expiry sweep (sweepExpiredProposals).                               *)

\* Mutant: the comparison with now is the wrong way round.
ExpirableInverted == {p \in Proposals : rows[p].status = "pending" /\ p \notin elapsed}
Expirable == {p \in Proposals : rows[p].status = "pending" /\ p \in elapsed}

StartSweep ==
  /\ "expiry" \in Jobs
  /\ At(Worker, "idle")
  /\ Expirable # {}
  /\ Become(Worker, [Idle EXCEPT !.pc = "sweep", !.todo = Expirable])
  /\ UNCHANGED <<mode, kill, rows, elapsed, brackets, index, closed, audit, late, left>>

\* Mutant: the update is forgotten.
ExpireOnlyInAudit(p) ==
  /\ At(Worker, "sweep")
  /\ p \in procs[Worker].todo
  /\ Become(Worker, [procs[Worker] EXCEPT !.pc = "auditExpiry", !.p = p, !.todo = @ \ {p}])
  /\ UNCHANGED <<mode, kill, rows, elapsed, brackets, index, closed, audit, late, left>>

ExpireRow(p) ==
  /\ At(Worker, "sweep")
  /\ p \in procs[Worker].todo
  /\ DecideRow(p, "expired", "nobody", rows[p].qty)
  /\ Become(Worker, [procs[Worker] EXCEPT !.pc = "auditExpiry", !.p = p, !.todo = @ \ {p}])
  /\ UNCHANGED <<mode, kill, elapsed, brackets, index, closed, audit, late, left>>

AuditExpiry ==
  /\ At(Worker, "auditExpiry")
  /\ audit' = audit \union {<<procs[Worker].p, "expire">>}
  /\ Become(Worker, IF procs[Worker].todo = {} THEN Idle
                      ELSE [procs[Worker] EXCEPT !.pc = "sweep", !.p = None])
  /\ UNCHANGED <<mode, kill, rows, elapsed, brackets, index, closed, late, left>>

-----------------------------------------------------------------------------
(* The position monitor (reconcileAutoResults, then monitorPositions).     *)

ClosedOf(s) == {b \in closed : brackets[b].draft.strategy = s}

StartMonitor(s) ==
  /\ "monitor" \in Jobs
  /\ At(Worker, "idle")
  /\ Become(Worker, [Idle EXCEPT !.pc = "reconcile", !.strategy = s, !.todo = ClosedOf(s)])
  /\ closed' = closed \ ClosedOf(s)
  /\ UNCHANGED <<mode, kill, rows, elapsed, brackets, index, audit, late, left>>

\* The index entry of the trade's key goes, whatever it points to by now; the
\* governor may answer with a demotion, which is guarded on the mode being AUTO.
ReconcileTrade(b) ==
  LET key == KeyOf(brackets[b].draft)
      s   == key[1]
  IN /\ At(Worker, "reconcile")
     /\ b \in procs[Worker].todo
     /\ index' = [index EXCEPT ![key] = None]
     /\ mode' \in {mode, [mode EXCEPT ![s] = IF @ = "AUTO" THEN "APPROVE" ELSE @]}
     /\ Become(Worker, [procs[Worker] EXCEPT !.todo = @ \ {b}])
     /\ UNCHANGED <<kill, rows, elapsed, brackets, closed, audit, late, left>>

ReadOwnPositions ==
  /\ At(Worker, "reconcile")
  /\ procs[Worker].todo = {}
  /\ Become(Worker, [procs[Worker] EXCEPT !.pc = "manage",
       !.seen = {pos \in OpenPositions : pos.strategy = procs[Worker].strategy}])
  /\ UNCHANGED <<mode, kill, rows, elapsed, brackets, index, closed, audit, late, left>>

\* Done with one position, or with the job when it was the last.
Managed(pos) ==
  Become(Worker, IF procs[Worker].seen = {pos} THEN Idle
                   ELSE [procs[Worker] EXCEPT !.seen = @ \ {pos}])

\* manage returned null, or an action for a position the index does not know.
LeavePosition(pos) ==
  /\ Managed(pos)
  /\ UNCHANGED <<mode, kill, rows, elapsed, brackets, index, closed, audit, late, left>>

\* cancelBracket on the bracket the index names, which need not be the
\* position's own; a bracket that is over already is left as it is.
ClosePosition(pos) ==
  LET b == index[KeyOf(pos)]
  IN /\ b # None
     /\ brackets' = [brackets EXCEPT ![b].st =
          IF @ = "open" THEN "closed" ELSE IF @ = "pending" THEN "cancelled" ELSE @]
     /\ closed' = IF brackets[b].st = "open" THEN closed \union {b} ELSE closed
     /\ index' = [index EXCEPT ![KeyOf(pos)] = None]
     /\ Managed(pos)
     /\ UNCHANGED <<mode, kill, rows, elapsed, audit, late, left>>

\* modifyBracket to the shares that remain; a bracket that is over, or already
\* no larger than that, throws and ends this strategy's turn.
ScaleOut(pos, remaining) ==
  LET b == index[KeyOf(pos)]
  IN /\ b # None
     /\ IF brackets[b].st \in Live /\ remaining < brackets[b].qty
          THEN brackets' = [brackets EXCEPT ![b].qty = remaining] /\ Managed(pos)
          ELSE brackets' = brackets /\ Become(Worker, Idle)
     /\ UNCHANGED <<mode, kill, rows, elapsed, index, closed, audit, late, left>>

\* A strategy moves a stop to break even, never further from the market.
MoveStop(pos) ==
  LET b == index[KeyOf(pos)]
  IN /\ b # None
     /\ IF brackets[b].st \in Live
          THEN brackets' = [brackets EXCEPT ![b].stop = pos.entry] /\ Managed(pos)
          ELSE brackets' = brackets /\ Become(Worker, Idle)
     /\ UNCHANGED <<mode, kill, rows, elapsed, index, closed, audit, late, left>>

ManagePosition(pos) ==
  /\ At(Worker, "manage")
  /\ pos \in procs[Worker].seen
  /\ \/ LeavePosition(pos)
     \/ ClosePosition(pos)
     \/ \E n \in 1..(pos.qty - 1) : ScaleOut(pos, n)
     \/ MoveStop(pos)

EndMonitor ==
  /\ At(Worker, "manage")
  /\ procs[Worker].seen = {}
  /\ Become(Worker, Idle)
  /\ UNCHANGED <<mode, kill, rows, elapsed, brackets, index, closed, audit, late, left>>

-----------------------------------------------------------------------------
(* The market, the clock, the operator, and what goes wrong.               *)

Disturb(kind) ==
  /\ kind \in Disturbances
  /\ left > 0
  /\ left' = left - 1

FillEntry(b) ==
  /\ brackets[b].st = "pending"
  /\ brackets' = [brackets EXCEPT ![b].st = "open"]
  /\ UNCHANGED <<mode, kill, rows, elapsed, index, closed, audit, procs, late, left>>

\* A bar reaches the stop or the target leg.
ExitLegFills(b) ==
  /\ Disturb("exit")
  /\ brackets[b].st = "open"
  /\ brackets' = [brackets EXCEPT ![b].st = "closed"]
  /\ closed' = closed \union {b}
  /\ UNCHANGED <<mode, kill, rows, elapsed, index, audit, procs, late>>

ExpiryPasses(p) ==
  /\ p \in Stored \ elapsed
  /\ elapsed' = elapsed \union {p}
  /\ UNCHANGED <<mode, kill, rows, brackets, index, closed, audit, procs, late, left>>

\* The dashboard sets any mode at any time.
SetMode(s, m) ==
  /\ Disturb("mode")
  /\ m # mode[s]
  /\ mode' = [mode EXCEPT ![s] = m]
  /\ UNCHANGED <<kill, rows, elapsed, brackets, index, closed, audit, procs, late>>

\* The trip first writes the row, then (another await) demotes the strategies.
Trip ==
  /\ Disturb("trip")
  /\ ~Active
  /\ kill' = "tripped"
  /\ late' = [x \in Procs |-> {}]
  /\ UNCHANGED <<mode, rows, elapsed, brackets, index, closed, audit, procs>>

DemoteAllToWatch ==
  /\ kill = "tripped"
  /\ kill' = "on"
  /\ mode' = [s \in Strategies |-> IF mode[s] \in {"AUTO", "APPROVE"} THEN "WATCH" ELSE mode[s]]
  /\ UNCHANGED <<rows, elapsed, brackets, index, closed, audit, procs, late, left>>

Rearm ==
  /\ Disturb("rearm")
  /\ kill = "on"
  /\ kill' = "off"
  /\ UNCHANGED <<mode, rows, elapsed, brackets, index, closed, audit, procs, late>>

\* What a process awaits throws (database, port or broker): the request is
\* answered with an error, the job ends for this strategy.
AwaitThrows(x) ==
  /\ Disturb("fault")
  /\ ~At(x, "idle")
  /\ Become(x, Idle)
  /\ UNCHANGED <<mode, kill, rows, elapsed, brackets, index, closed, audit, late>>

\* Bound: no id is left to store or place with; the process ends as if the
\* await had thrown.
OutOfIds(x) ==
  /\ (At(x, "persist") /\ Stored = Proposals) \/ (At(x, "place") /\ Free = {})
  /\ Become(x, Idle)
  /\ UNCHANGED <<mode, kill, rows, elapsed, brackets, index, closed, audit, late, left>>

\* The tables survive; handlers (a trip's demotion too), the index and the
\* simulator's book do not.
Restart ==
  /\ Disturb("restart")
  /\ procs' = [x \in Procs |-> Idle]
  /\ index' = [k \in Keys |-> None]
  /\ closed' = {}
  /\ brackets' = [b \in Brackets |->
       [brackets[b] EXCEPT !.st = IF @ = "none" THEN @ ELSE "lost"]]
  /\ kill' = IF kill = "tripped" THEN "on" ELSE kill
  /\ UNCHANGED <<mode, rows, elapsed, audit, late>>

-----------------------------------------------------------------------------

ScanStep(x) ==
  \/ \E s \in Strategies : StartScan(x, s)
  \/ \E d \in Drafts : ReadPositions(x, d)
  \/ RiskAndModeGate(x)
  \/ PersistProposal(x)

OrderStep(x) == PlaceBracket(x) \/ MarkExecuted(x) \/ AuditExecution(x)

DecisionStep(x) ==
  \/ \E p \in Proposals : Reject(x, p) \/ \E q \in 0..(rows[p].qty + 1) : Approve(x, p, q)
  \/ RejectRow(x)
  \/ AuditRejection(x)

SweepStep == StartSweep \/ AuditExpiry \/ \E p \in Proposals : ExpireRow(p)

MonitorStep ==
  \/ \E s \in Strategies : StartMonitor(s)
  \/ \E b \in Brackets : ReconcileTrade(b)
  \/ ReadOwnPositions
  \/ \E pos \in procs[Worker].seen : ManagePosition(pos)
  \/ EndMonitor

Environment ==
  \/ \E b \in Brackets : FillEntry(b) \/ ExitLegFills(b)
  \/ \E p \in Proposals : ExpiryPasses(p)
  \/ \E s \in Strategies, m \in Modes : SetMode(s, m)
  \/ Trip \/ DemoteAllToWatch \/ Rearm
  \/ \E x \in Procs : AwaitThrows(x) \/ OutOfIds(x)
  \/ Restart

Next ==
  \/ \E x \in Procs : ScanStep(x) \/ OrderStep(x)
  \/ \E x \in Requests : DecisionStep(x)
  \/ EndScan \/ SweepStep \/ MonitorStep
  \/ Environment

Spec == Init /\ [][Next]_vars

\* The queue hands the worker every repeatable job again and again, and a job
\* runs to its end: a scan has finitely many signals.
Fairness ==
  /\ SF_vars(StartSweep) /\ SF_vars(EndScan)
  /\ WF_vars(SweepStep)
  /\ WF_vars(RiskAndModeGate(Worker)) /\ WF_vars(PersistProposal(Worker))
  /\ WF_vars(OrderStep(Worker)) /\ WF_vars(OutOfIds(Worker))
  /\ WF_vars(MonitorStep /\ ~At(Worker, "idle"))

FairSpec == Spec /\ Fairness

-----------------------------------------------------------------------------
(* Properties.                                                             *)

Draft == [strategy : Strategies, ticker : Tickers, side : {"long", "short"},
          entry : Nat, stop : Nat]
Deciders == {"nobody", "user", "auto"}
Row == [status : {"none", "pending", "executed", "rejected", "expired"},
        draft : Draft \union {None}, qty : Nat, sized : Nat, by : Deciders]
Bracket == [st : {"none", "pending", "open", "closed", "cancelled", "lost"},
            p : Proposals \union {None}, draft : Draft \union {None}, qty : Nat,
            placed : Nat, by : Deciders, entry : Int, stop : Int]
Position == [bracket : Brackets, strategy : Strategies, ticker : Tickers,
             side : {"long", "short"}, qty : Nat, entry : Int, stop : Int]
Proc == [pc : {"idle", "scan", "risk", "persist", "place", "mark", "audit", "reject",
               "auditReject", "sweep", "auditExpiry", "reconcile", "manage"},
         mode : AllModes, draft : Draft \union {None}, seen : SUBSET Position,
         p : Proposals \union {None}, qty : Nat, by : Deciders,
         todo : SUBSET (Proposals \union Brackets), strategy : Strategies \union {None}]

\* Every variable has the type the pipeline's tables and records give it.
TypeOK ==
  /\ mode \in [Strategies -> AllModes]
  /\ kill \in {"off", "tripped", "on"}
  /\ rows \in [Proposals -> Row]
  /\ elapsed \subseteq Proposals
  /\ brackets \in [Brackets -> Bracket]
  /\ index \in [Keys -> Brackets \union {None}]
  /\ closed \subseteq Brackets
  /\ audit \subseteq Proposals \X {"auto_execute", "approve_execute", "reject", "expire"}
  /\ procs \in [Procs -> Proc]
  /\ late \in [Procs -> SUBSET Brackets]
  /\ left \in Nat

\* The guarded updates of the repository make every proposal's life one of the
\* abstract specification's, whatever requests, sweep and worker interleave.
Lifecycle == INSTANCE ProposalLifecycle WITH
  status    <- [p \in Proposals |-> rows[p].status],
  decidedBy <- [p \in Proposals |-> rows[p].by]
LifecycleSpec == Lifecycle!Spec

\* A proposal recorded as executed stands for an order that was really placed,
\* of the recorded size and by the recorded decider (placeBracketAndRecord
\* orders before it marks; two deciders may race).
ExecutedIsBacked ==
  \A p \in Proposals : rows[p].status = "executed" =>
    \E b \in Brackets : /\ brackets[b].p = p
                        /\ brackets[b].placed = rows[p].qty
                        /\ brackets[b].by = rows[p].by

\* No order is larger than what the risk manager sized for its proposal, not
\* even when several decisions on stale reads of the row overlap.
SizeOnlyReduced ==
  \A b \in Brackets : brackets[b].p # None =>
    /\ brackets[b].placed <= rows[brackets[b].p].sized
    /\ brackets[b].qty <= brackets[b].placed

\* The audit trail never runs ahead of the table: a proposal some decision was
\* audited for is not open to another one.
AuditedIsDecided ==
  \A e \in audit : rows[e[1]].status \in {"executed", "rejected", "expired"}

\* After a trip each process can still place at most the one unasked order
\* whose risk check it had behind it: no later signal of a running scan slips
\* through on what the scan read earlier.
StragglersBounded ==
  \A x \in Procs : \A b, c \in late[x] : b = c

\* A proposal past its expiry does not stay pending.
OverdueIsSettled ==
  \A p \in Proposals :
    rows[p].status = "pending" /\ p \in elapsed ~> rows[p].status # "pending"

\* The exits of a position can reach its bracket from the first entry on: the
\* index loses an open bracket of an undisturbed worker only when an earlier
\* trade of the same key closed (see ExitsProtectOpenPositions for that case).
FirstEntryIsManaged ==
  \A b \in Brackets : brackets[b].st = "open" =>
    \/ index[KeyOf(brackets[b].draft)] = b
    \/ \E c \in Brackets : /\ brackets[c].st = "closed"
                           /\ KeyOf(brackets[c].draft) = KeyOf(brackets[b].draft)

\* The book of an AUTO-only worker stays inside the global caps across
\* strategies, whatever their own configuration says.
BookWithinCaps ==
  /\ Cardinality(OpenPositions) <= GlobalLimits.total
  /\ \A s \in Strategies :
       Cardinality(OfStrategy(s, OpenPositions)) <= GlobalLimits.perStrategy
  /\ \A t \in Tickers :
       Cardinality(OfTicker(t, OpenPositions)) <= GlobalLimits.perTicker

\* Open risk stays within the cap but for the slippage of the entry that came
\* last: the gate sums the open book at its fill prices, the draft at its own.
OpenRiskBounded ==
  OpenPositions = {} \/ \E pos \in OpenPositions :
    RoundPct(OpenRisk(OpenPositions) - pos.qty * Max(Slips), Equity)
      <= 10000 * GlobalLimits.openRiskPct

-----------------------------------------------------------------------------
(* What the repository says of the program and the program does not do.    *)

\* "a double-tap can't double-execute" (pipeline.service.ts): one proposal is
\* never ordered twice.
NoDoubleExecution ==
  \A b, c \in Brackets : brackets[b].p # None /\ brackets[b].p = brackets[c].p => b = c

\* The tripped switch "blocks all new orders" (README.md): once the trip is
\* complete no bracket is placed.
KillSwitchBlocksAll ==
  [][kill = "on" => \A b \in Brackets :
       brackets[b].st = "none" => brackets'[b].st = "none"]_vars

\* "exits always protect open positions" (pipeline.service.ts): the monitor can
\* find the bracket of every open position.
ExitsProtectOpenPositions ==
  \A b \in Brackets : brackets[b].st = "open" => index[KeyOf(brackets[b].draft)] = b
============================================================================
