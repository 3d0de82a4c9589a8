--------------------------- MODULE PipelineProofs --------------------------
(***************************************************************************)
(* What TLAPS proves of the trade pipeline for any number of strategies,   *)
(* proposals, brackets and concurrent handlers; and, of a worker that      *)
(* nobody orders beside, that the book stays inside the caps, its open     *)
(* risk included, and that the exits of a position find its bracket.       *)
(***************************************************************************)
EXTENDS Pipeline, Sums, FiniteSetTheorems, TLAPS

\* What a process carries once it is past a given await, and what a stored row
\* and a placed bracket refer to: the types alone do not say it, and every later
\* step relies on it.
OrderPcs == {"risk", "persist", "place", "mark", "audit"}
TakenPcs == {"persist", "place", "mark", "audit"}
RowPcs   == {"place", "mark", "audit", "reject", "auditReject", "auditExpiry"}

GoodRow == {r \in Row : /\ r.status # "none" => r.draft \in Drafts
                        /\ r.status \in {"none", "pending"} => r.by = "nobody" /\ r.qty = r.sized}
GoodBracket == {k \in Bracket : IF k.st = "none" THEN k.p = None
                                 ELSE k.draft \in Drafts /\ k.p \in Proposals}
GoodProc == {st \in Proc : /\ st.pc \in OrderPcs => st.draft \in Drafts
                           /\ st.pc \in TakenPcs => st.by \in {"user", "auto"}
                           /\ st.pc \in RowPcs => st.p \in Proposals}

TypeInv ==
  /\ TypeOK
  /\ rows \in [Proposals -> GoodRow]
  /\ brackets \in [Brackets -> GoodBracket]
  /\ procs \in [Procs -> GoodProc]

LEMMA DraftsTyped == Drafts \subseteq Draft
  BY PipelineAssumption DEF Draft

\* An approved draft has a whole number of shares.
LEMMA SizeIsNat ==
  ASSUME NEW d \in Drafts, NEW seen, NEW killed,
         Verdict(d, Equity, seen, killed) = "approved"
  PROVE  SizeFor(d, Equity) \in Nat
<1>1. d \in Draft
  BY DraftsTyped
<1>2. StopDistance(d) \in Nat
  BY <1>1 DEF StopDistance, Draft
<1>3. StopDistance(d) # 0
  BY DEF Verdict
<1>4. Limits(d.strategy).perTradePct \in Nat
  BY <1>1, LimitsAssumption, PipelineAssumption DEF Limits, LimitFields, Draft
<1>5. Equity * Limits(d.strategy).perTradePct \in Nat
  BY <1>4, PipelineAssumption
<1>6. 100 * StopDistance(d) \in Nat \ {0}
  BY <1>2, <1>3
<1> QED
  BY <1>5, <1>6 DEF SizeFor

LEMMA PositionsTyped ==
  ASSUME TypeInv
  PROVE  OpenPositions \subseteq Position
<1> SUFFICES ASSUME NEW b \in Brackets, brackets[b].st = "open"
             PROVE  PositionOf(b) \in Position
  BY DEF OpenPositions
<1>1. brackets[b].draft \in Draft /\ brackets[b] \in Bracket
  BY DraftsTyped DEF TypeInv, GoodBracket
<1> QED
  BY <1>1 DEF PositionOf, Position, Draft, Bracket

LEMMA IdleGood == Idle \in GoodProc
<1>1. Idle \in Proc
  BY DEF Idle, Proc, AllModes, Deciders
<1> QED
  BY <1>1 DEF Idle, GoodProc, OrderPcs, TakenPcs, RowPcs

LEMMA SignalDoneGood ==
  ASSUME TypeInv, NEW x \in Procs
  PROVE  SignalDone(x) \in GoodProc
<1>1. procs[x].strategy \in Strategies \union {None} /\ procs[x].mode \in AllModes
  BY DEF TypeInv, GoodProc, Proc
<1>2. SignalDone(x) \in Proc
  BY <1>1, IdleGood DEF SignalDone, Idle, Proc, GoodProc
<1> QED
  BY <1>2, IdleGood DEF SignalDone, Idle, GoodProc, OrderPcs, TakenPcs, RowPcs

LEMMA BecomeGood ==
  ASSUME TypeInv, NEW x \in Procs, NEW st \in GoodProc, Become(x, st)
  PROVE  procs' \in [Procs -> GoodProc] /\ procs' \in [Procs -> Proc]
BY DEF TypeInv, Become, GoodProc

LEMMA TypeInit == Init => TypeInv
<1> SUFFICES ASSUME Init PROVE TypeInv
  OBVIOUS
<1>1. NoRow \in GoodRow
  BY DEF NoRow, GoodRow, Row, Deciders
<1>2. NoBracket \in GoodBracket
  BY DEF NoBracket, GoodBracket, Bracket, Deciders
<1>3. mode \in [Strategies -> AllModes]
  BY PipelineAssumption DEF Init
<1>4. rows \in [Proposals -> Row] /\ rows \in [Proposals -> GoodRow]
  BY <1>1 DEF Init, GoodRow
<1>5. brackets \in [Brackets -> Bracket] /\ brackets \in [Brackets -> GoodBracket]
  BY <1>2 DEF Init, GoodBracket
<1>6. procs \in [Procs -> Proc] /\ procs \in [Procs -> GoodProc]
  BY IdleGood DEF Init, GoodProc
<1> QED
  BY <1>3, <1>4, <1>5, <1>6, PipelineAssumption DEF Init, TypeInv, TypeOK

-----------------------------------------------------------------------------
(* TypeInv is inductive: one lemma per group of Next's disjuncts.          *)

LEMMA TypeScan ==
  ASSUME TypeInv, NEW x \in Procs, ScanStep(x)
  PROVE  TypeInv'
<1>1. procs[x] \in GoodProc /\ procs[x] \in Proc
  BY DEF TypeInv, GoodProc
<1>2. ASSUME NEW s \in Strategies, StartScan(x, s) PROVE TypeInv'
  <2> DEFINE st == [Idle EXCEPT !.pc = "scan", !.strategy = s, !.mode = mode[s]]
  <2>1. mode[s] \in AllModes
    BY DEF TypeInv, TypeOK
  <2>2. st \in Proc
    BY <2>1, IdleGood DEF Idle, Proc, GoodProc
  <2>3. st \in GoodProc
    BY <2>2, IdleGood DEF Idle, GoodProc, OrderPcs, TakenPcs, RowPcs
  <2>4. Become(x, st)
    BY <1>2 DEF StartScan
  <2> HIDE DEF st
  <2> QED
    BY <1>2, <2>3, <2>4, BecomeGood DEF StartScan, TypeInv, TypeOK
<1>3. ASSUME NEW d \in Drafts, ReadPositions(x, d) PROVE TypeInv'
  <2> DEFINE st == [procs[x] EXCEPT !.pc = "risk", !.draft = d, !.seen = OpenPositions]
  <2>1. d \in Draft
    BY DraftsTyped
  <2>2. st \in Proc
    BY <1>1, <2>1, PositionsTyped DEF Proc
  <2>3. st \in GoodProc
    BY <1>1, <2>2 DEF Proc, GoodProc, OrderPcs, TakenPcs, RowPcs
  <2>4. Become(x, st)
    BY <1>3 DEF ReadPositions
  <2> HIDE DEF st
  <2> QED
    BY <1>3, <2>3, <2>4, BecomeGood DEF ReadPositions, TypeInv, TypeOK
<1>4. CASE RiskAndModeGate(x)
  <2> DEFINE d  == procs[x].draft
             st == [procs[x] EXCEPT !.pc = "persist", !.seen = {}, !.by = "auto",
                                    !.qty = SizeFor(d, Equity)]
  <2>1. d \in Drafts
    BY <1>1, <1>4 DEF RiskAndModeGate, Gate, At, GoodProc, OrderPcs
  <2>2. ASSUME Verdict(d, Equity, procs[x].seen, Active) = "approved"
        PROVE  st \in GoodProc
    <3>1. SizeFor(d, Equity) \in Nat
      BY <2>1, <2>2, SizeIsNat
    <3>2. st \in Proc
      BY <1>1, <3>1 DEF Proc, Deciders
    <3> QED
      BY <1>1, <2>1, <3>2 DEF Proc, GoodProc, OrderPcs, TakenPcs, RowPcs
  <2> HIDE DEF st
  <2>3. PICK t \in GoodProc : Become(x, t)
    BY <1>4, <2>2, IdleGood, SignalDoneGood DEF RiskAndModeGate, Gate, st
  <2> QED
    BY <1>4, <2>3, BecomeGood DEF RiskAndModeGate, Gate, TypeInv, TypeOK
<1>5. CASE PersistProposal(x)
  <2> DEFINE p  == CHOOSE q \in Proposals : rows[q].status = "none"
             r  == [status |-> "pending", draft |-> procs[x].draft, qty |-> procs[x].qty,
                    sized |-> procs[x].qty, by |-> "nobody"]
             st == [procs[x] EXCEPT !.pc = "place", !.p = p]
  <2>1. p \in Proposals
    BY <1>5 DEF PersistProposal, Stored
  <2>2. procs[x].draft \in Drafts /\ procs[x].by \in {"user", "auto"}
    BY <1>1, <1>5 DEF PersistProposal, At, GoodProc, OrderPcs, TakenPcs
  <2>3. r \in GoodRow /\ r \in Row
    BY <1>1, <2>2, DraftsTyped DEF GoodRow, Row, Proc, Deciders
  <2>4. st \in Proc
    BY <1>1, <2>1 DEF Proc
  <2>5. st \in GoodProc
    BY <1>1, <2>1, <2>2, <2>4 DEF Proc, GoodProc, OrderPcs, TakenPcs, RowPcs
  <2>6. rows' = [rows EXCEPT ![p] = r]
    BY <1>5 DEF PersistProposal
  <2>7. Become(x, st) \/ Become(x, SignalDone(x))
    BY <1>5 DEF PersistProposal
  <2> HIDE DEF p, r, st
  <2>8. rows' \in [Proposals -> Row] /\ rows' \in [Proposals -> GoodRow]
    BY <2>1, <2>3, <2>6 DEF TypeInv, TypeOK
  <2>a. procs' \in [Procs -> GoodProc] /\ procs' \in [Procs -> Proc]
    BY <2>5, <2>7, BecomeGood, SignalDoneGood
  <2> QED
    BY <1>5, <2>8, <2>a DEF PersistProposal, TypeInv, TypeOK
<1> QED
  BY <1>2, <1>3, <1>4, <1>5 DEF ScanStep

\* A guarded decision keeps the rows well formed.
LEMMA DecideRowGood ==
  ASSUME TypeInv, NEW p \in Proposals, NEW qty \in Nat, NEW by \in Deciders,
         NEW st \in {"executed", "rejected", "expired"}, DecideRow(p, st, by, qty)
  PROVE  rows' \in [Proposals -> Row] /\ rows' \in [Proposals -> GoodRow]
<1> DEFINE r == [rows[p] EXCEPT !.status = st, !.by = by, !.qty = qty]
<1>1. rows[p] \in GoodRow /\ rows[p] \in Row
  BY DEF TypeInv, GoodRow
<1>2. r \in Row
  BY <1>1 DEF Row
<1>3. rows[p].status = "pending" => r \in GoodRow
  BY <1>1, <1>2 DEF Row, GoodRow
<1>4. rows' = IF rows[p].status = "pending" THEN [rows EXCEPT ![p] = r] ELSE rows
  BY DEF DecideRow, TypeInv, TypeOK
<1> HIDE DEF r
<1> QED
  BY <1>2, <1>3, <1>4 DEF TypeInv, TypeOK

LEMMA TypeOrder ==
  ASSUME TypeInv, NEW x \in Procs, OrderStep(x)
  PROVE  TypeInv'
<1>1. procs[x] \in GoodProc /\ procs[x] \in Proc
  BY DEF TypeInv, GoodProc
<1>2. CASE PlaceBracket(x)
  <2> DEFINE d  == procs[x].draft
             b  == CHOOSE c \in Brackets : c \in Free
             k(slip) == [st |-> IF Quoted THEN "open" ELSE "pending", p |-> procs[x].p,
                         draft |-> d, qty |-> procs[x].qty, placed |-> procs[x].qty,
                         by |-> procs[x].by,
                         entry |-> IF d.side = "long" THEN d.entry + slip ELSE d.entry - slip,
                         stop |-> d.stop]
             st == [procs[x] EXCEPT !.pc = "mark"]
  <2>1. b \in Brackets
    BY <1>2 DEF PlaceBracket, Free
  <2>2. /\ d \in Drafts /\ d \in Draft
        /\ procs[x].p \in Proposals /\ procs[x].by \in {"user", "auto"}
    BY <1>1, <1>2, DraftsTyped DEF PlaceBracket, At, GoodProc, OrderPcs, TakenPcs, RowPcs
  <2>3. ASSUME NEW slip \in Slips PROVE k(slip) \in GoodBracket /\ k(slip) \in Bracket
    <3>1. slip \in Int
      BY PipelineAssumption
    <3>2. k(slip).entry \in Int /\ k(slip).stop \in Int
      BY <2>2, <3>1 DEF Draft
    <3>3. k(slip) \in Bracket
      BY <1>1, <2>2, <3>2 DEF Proc, Bracket
    <3> QED
      BY <2>2, <3>3 DEF GoodBracket
  <2>4. st \in Proc
    BY <1>1 DEF Proc
  <2>5. st \in GoodProc
    BY <1>1, <2>2, <2>4 DEF Proc, GoodProc
  <2>6. PICK slip \in Slips : brackets' = [brackets EXCEPT ![b] = k(slip)]
    BY <1>2 DEF PlaceBracket
  <2>7. Become(x, st)
    BY <1>2 DEF PlaceBracket
  <2>8. index' \in [Keys -> Brackets \union {None}]
    BY <1>2, <2>1 DEF PlaceBracket, RecordBracket, TypeInv, TypeOK
  <2>a. late' \in [Procs -> SUBSET Brackets]
    BY <1>2, <2>1 DEF PlaceBracket, TypeInv, TypeOK
  <2> HIDE DEF b, k, st
  <2>10. brackets' \in [Brackets -> Bracket] /\ brackets' \in [Brackets -> GoodBracket]
    BY <2>1, <2>3, <2>6 DEF TypeInv, TypeOK
  <2> QED
    BY <1>2, <2>5, <2>7, <2>8, <2>a, <2>10, BecomeGood DEF PlaceBracket, TypeInv, TypeOK
<1>3. CASE MarkExecuted(x)
  <2> DEFINE st == [procs[x] EXCEPT !.pc = "audit"]
  <2>1. /\ procs[x].p \in Proposals /\ procs[x].draft \in Drafts
        /\ procs[x].by \in {"user", "auto"}
    BY <1>1, <1>3 DEF MarkExecuted, At, GoodProc, OrderPcs, TakenPcs, RowPcs
  <2>2. st \in Proc
    BY <1>1 DEF Proc
  <2>3. st \in GoodProc
    BY <1>1, <2>1, <2>2 DEF Proc, GoodProc
  <2>4. rows' \in [Proposals -> Row] /\ rows' \in [Proposals -> GoodRow]
    BY <1>1, <1>3, <2>1, DecideRowGood DEF MarkExecuted, Proc
  <2>5. Become(x, st)
    BY <1>3 DEF MarkExecuted
  <2> HIDE DEF st
  <2> QED
    BY <1>3, <2>3, <2>4, <2>5, BecomeGood DEF MarkExecuted, TypeInv, TypeOK
<1>4. CASE AuditExecution(x)
  <2>1. procs[x].p \in Proposals
    BY <1>1, <1>4 DEF AuditExecution, At, GoodProc, RowPcs
  <2>2. audit' \subseteq Proposals \X {"auto_execute", "approve_execute", "reject", "expire"}
    BY <1>4, <2>1 DEF AuditExecution, TypeInv, TypeOK
  <2>3. PICK st \in GoodProc : Become(x, st)
    BY <1>4, IdleGood, SignalDoneGood DEF AuditExecution
  <2> QED
    BY <1>4, <2>2, <2>3, BecomeGood DEF AuditExecution, TypeInv, TypeOK
<1> QED
  BY <1>2, <1>3, <1>4 DEF OrderStep

LEMMA TypeDecision ==
  ASSUME TypeInv, NEW x \in Procs, DecisionStep(x)
  PROVE  TypeInv'
<1>1. procs[x] \in GoodProc /\ procs[x] \in Proc
  BY DEF TypeInv, GoodProc
<1>2. ASSUME NEW p \in Proposals, Reject(x, p) PROVE TypeInv'
  <2> DEFINE st == [Idle EXCEPT !.pc = "reject", !.p = p]
  <2>1. st \in Proc
    BY IdleGood DEF Idle, Proc, GoodProc
  <2>2. st \in GoodProc
    BY <2>1 DEF Idle, GoodProc, OrderPcs, TakenPcs
  <2>3. Become(x, st)
    BY <1>2 DEF Reject
  <2> HIDE DEF st
  <2> QED
    BY <1>2, <2>2, <2>3, BecomeGood DEF Reject, TypeInv, TypeOK
<1>3. ASSUME NEW p \in Proposals, NEW q \in 0..(rows[p].qty + 1), Approve(x, p, q) PROVE TypeInv'
  <2> DEFINE st == [Idle EXCEPT !.pc = "place", !.p = p, !.draft = rows[p].draft,
                                !.qty = q, !.by = "user"]
  <2>1. rows[p].draft \in Drafts /\ rows[p].draft \in Draft
    BY <1>3, DraftsTyped DEF Approve, TypeInv, GoodRow
  <2>2. q \in Nat
    BY DEF TypeInv, GoodRow, Row
  <2>3. st \in Proc
    BY <2>1, <2>2, IdleGood DEF Idle, Proc, GoodProc, Deciders
  <2>4. st \in GoodProc
    BY <2>1, <2>3 DEF Idle, GoodProc
  <2>5. Become(x, st)
    BY <1>3 DEF Approve
  <2> HIDE DEF st
  <2> QED
    BY <1>3, <2>4, <2>5, BecomeGood DEF Approve, TypeInv, TypeOK
<1>4. CASE RejectRow(x)
  <2> DEFINE st == [procs[x] EXCEPT !.pc = "auditReject"]
             p  == procs[x].p
  <2>1. p \in Proposals
    BY <1>1, <1>4 DEF RejectRow, At, GoodProc, RowPcs
  <2>2. st \in Proc
    BY <1>1 DEF Proc
  <2>3. st \in GoodProc
    BY <1>1, <2>1, <2>2 DEF Proc, GoodProc, OrderPcs, TakenPcs
  <2>4. rows[p].qty \in Nat /\ "user" \in Deciders
    BY <2>1 DEF TypeInv, GoodRow, Row, Deciders
  <2>5. rows' \in [Proposals -> Row] /\ rows' \in [Proposals -> GoodRow]
    BY <1>4, <2>1, <2>4, DecideRowGood DEF RejectRow
  <2>6. Become(x, st)
    BY <1>4 DEF RejectRow
  <2> HIDE DEF st
  <2> QED
    BY <1>4, <2>3, <2>5, <2>6, BecomeGood DEF RejectRow, TypeInv, TypeOK
<1>5. CASE AuditRejection(x)
  <2>1. procs[x].p \in Proposals
    BY <1>1, <1>5 DEF AuditRejection, At, GoodProc, RowPcs
  <2>2. audit' \subseteq Proposals \X {"auto_execute", "approve_execute", "reject", "expire"}
    BY <1>5, <2>1 DEF AuditRejection, TypeInv, TypeOK
  <2> QED
    BY <1>5, <2>2, IdleGood, BecomeGood DEF AuditRejection, TypeInv, TypeOK
<1> QED
  BY <1>2, <1>3, <1>4, <1>5 DEF DecisionStep

LEMMA TypeSweep ==
  ASSUME TypeInv, SweepStep
  PROVE  TypeInv'
<1> DEFINE w == procs[Worker]
<1>1. Worker \in Procs /\ w \in GoodProc /\ w \in Proc
  BY DEF TypeInv, GoodProc, Procs
<1>2. CASE StartSweep
  <2> DEFINE st == [Idle EXCEPT !.pc = "sweep", !.todo = Expirable]
  <2>1. st \in Proc
    BY IdleGood DEF Idle, Proc, GoodProc, Expirable
  <2>2. st \in GoodProc
    BY <2>1 DEF Idle, GoodProc, OrderPcs, TakenPcs, RowPcs
  <2>3. Become(Worker, st)
    BY <1>2 DEF StartSweep
  <2> HIDE DEF st
  <2> QED
    BY <1>1, <1>2, <2>2, <2>3, BecomeGood DEF StartSweep, TypeInv, TypeOK
<1>3. ASSUME NEW p \in Proposals, ExpireRow(p) PROVE TypeInv'
  <2> DEFINE st == [w EXCEPT !.pc = "auditExpiry", !.p = p, !.todo = @ \ {p}]
  <2>1. st \in Proc
    BY <1>1 DEF Proc
  <2>2. st \in GoodProc
    BY <1>1, <2>1 DEF Proc, GoodProc, OrderPcs, TakenPcs
  <2>3. rows[p].qty \in Nat /\ "nobody" \in Deciders
    BY DEF TypeInv, GoodRow, Row, Deciders
  <2>4. rows' \in [Proposals -> Row] /\ rows' \in [Proposals -> GoodRow]
    BY <1>3, <2>3, DecideRowGood DEF ExpireRow
  <2>5. Become(Worker, st)
    BY <1>3 DEF ExpireRow
  <2> HIDE DEF st
  <2> QED
    BY <1>1, <1>3, <2>2, <2>4, <2>5, BecomeGood DEF ExpireRow, TypeInv, TypeOK
<1>4. CASE AuditExpiry
  <2> DEFINE st == [w EXCEPT !.pc = "sweep", !.p = None]
  <2>1. w.p \in Proposals
    BY <1>1, <1>4 DEF AuditExpiry, At, GoodProc, RowPcs
  <2>2. audit' \subseteq Proposals \X {"auto_execute", "approve_execute", "reject", "expire"}
    BY <1>4, <2>1 DEF AuditExpiry, TypeInv, TypeOK
  <2>3. st \in Proc
    BY <1>1 DEF Proc
  <2>4. st \in GoodProc
    BY <1>1, <2>3 DEF Proc, GoodProc, OrderPcs, TakenPcs, RowPcs
  <2>5. Become(Worker, Idle) \/ Become(Worker, st)
    BY <1>4 DEF AuditExpiry
  <2> HIDE DEF st
  <2> QED
    BY <1>1, <1>4, <2>2, <2>4, <2>5, IdleGood, BecomeGood DEF AuditExpiry, TypeInv, TypeOK
<1> QED
  BY <1>2, <1>3, <1>4 DEF SweepStep

LEMMA TypeManage ==
  ASSUME TypeInv, NEW pos \in procs[Worker].seen, ManagePosition(pos)
  PROVE  TypeInv'
<1> DEFINE w == procs[Worker]
           b == index[KeyOf(pos)]
<1>1. Worker \in Procs /\ w \in GoodProc /\ w \in Proc
  BY DEF TypeInv, GoodProc, Procs
<1>2. pos \in Position /\ KeyOf(pos) \in Keys
  BY <1>1 DEF Proc, Position, KeyOf, Keys
<1>3. b # None => b \in Brackets
  BY <1>2 DEF TypeInv, TypeOK
<1>4. ASSUME Managed(pos) \/ Become(Worker, Idle)
      PROVE  procs' \in [Procs -> GoodProc] /\ procs' \in [Procs -> Proc]
  <2> DEFINE st == [w EXCEPT !.seen = @ \ {pos}]
  <2>1. st \in Proc
    BY <1>1 DEF Proc
  <2>2. st \in GoodProc
    BY <1>1, <2>1 DEF Proc, GoodProc
  <2>3. Become(Worker, Idle) \/ Become(Worker, st)
    BY <1>4 DEF Managed
  <2> HIDE DEF st
  <2> QED
    BY <1>1, <2>2, <2>3, IdleGood, BecomeGood
<1>5. b # None => brackets[b] \in Bracket /\ brackets[b] \in GoodBracket
  BY <1>3 DEF TypeInv, TypeOK
<1> HIDE DEF w, b
<1>6. CASE LeavePosition(pos)
  BY <1>4, <1>6 DEF LeavePosition, TypeInv, TypeOK
<1>7. CASE ClosePosition(pos)
  <2> DEFINE k == [brackets[b] EXCEPT !.st = IF @ = "open" THEN "closed"
                                              ELSE IF @ = "pending" THEN "cancelled" ELSE @]
  <2>1. b # None
    BY <1>7 DEF ClosePosition, b
  <2>2. k \in Bracket
    BY <1>5, <2>1 DEF Bracket
  <2>3. k \in GoodBracket
    BY <1>5, <2>1, <2>2 DEF Bracket, GoodBracket
  <2>4. brackets' = [brackets EXCEPT ![b] = k]
    BY <1>3, <1>7, <2>1 DEF ClosePosition, TypeInv, TypeOK, b
  <2>5. closed' \subseteq Brackets
    BY <1>3, <1>7, <2>1 DEF ClosePosition, TypeInv, TypeOK, b
  <2>6. index' \in [Keys -> Brackets \union {None}]
    BY <1>7 DEF ClosePosition, TypeInv, TypeOK
  <2> HIDE DEF k
  <2>7. brackets' \in [Brackets -> Bracket] /\ brackets' \in [Brackets -> GoodBracket]
    BY <1>3, <2>1, <2>2, <2>3, <2>4 DEF TypeInv, TypeOK
  <2> QED
    BY <1>4, <1>7, <2>5, <2>6, <2>7 DEF ClosePosition, TypeInv, TypeOK
<1>8. ASSUME NEW n \in 1..(pos.qty - 1), ScaleOut(pos, n) PROVE TypeInv'
  <2> DEFINE k == [brackets[b] EXCEPT !.qty = n]
  <2>1. b # None
    BY <1>8 DEF ScaleOut, b
  <2>2. n \in Nat
    BY <1>2 DEF Position
  <2>3. k \in Bracket
    BY <1>5, <2>1, <2>2 DEF Bracket
  <2>4. k \in GoodBracket
    BY <1>5, <2>1, <2>3 DEF Bracket, GoodBracket
  <2>5. brackets' = brackets \/ brackets' = [brackets EXCEPT ![b] = k]
    BY <1>3, <1>8, <2>1 DEF ScaleOut, TypeInv, TypeOK, b
  <2> HIDE DEF k
  <2>6. brackets' \in [Brackets -> Bracket] /\ brackets' \in [Brackets -> GoodBracket]
    BY <1>3, <2>1, <2>3, <2>4, <2>5 DEF TypeInv, TypeOK
  <2> QED
    BY <1>4, <1>8, <2>6 DEF ScaleOut, TypeInv, TypeOK
<1>9. CASE MoveStop(pos)
  <2> DEFINE k == [brackets[b] EXCEPT !.stop = pos.entry]
  <2>1. b # None
    BY <1>9 DEF MoveStop, b
  <2>2. k \in Bracket
    BY <1>2, <1>5, <2>1 DEF Bracket, Position
  <2>3. k \in GoodBracket
    BY <1>5, <2>1, <2>2 DEF Bracket, GoodBracket
  <2>4. brackets' = brackets \/ brackets' = [brackets EXCEPT ![b] = k]
    BY <1>3, <1>9, <2>1 DEF MoveStop, TypeInv, TypeOK, b
  <2> HIDE DEF k
  <2>5. brackets' \in [Brackets -> Bracket] /\ brackets' \in [Brackets -> GoodBracket]
    BY <1>3, <2>1, <2>2, <2>3, <2>4 DEF TypeInv, TypeOK
  <2> QED
    BY <1>4, <1>9, <2>5 DEF MoveStop, TypeInv, TypeOK
<1> QED
  BY <1>6, <1>7, <1>8, <1>9 DEF ManagePosition

LEMMA TypeMonitor ==
  ASSUME TypeInv, MonitorStep
  PROVE  TypeInv'
<1> DEFINE w == procs[Worker]
<1>1. Worker \in Procs /\ w \in GoodProc /\ w \in Proc
  BY DEF TypeInv, GoodProc, Procs
<1>2. ASSUME NEW s \in Strategies, StartMonitor(s) PROVE TypeInv'
  <2> DEFINE st == [Idle EXCEPT !.pc = "reconcile", !.strategy = s, !.todo = ClosedOf(s)]
  <2>1. ClosedOf(s) \subseteq Brackets
    BY DEF ClosedOf, TypeInv, TypeOK
  <2>2. st \in Proc
    BY <2>1, IdleGood DEF Idle, Proc, GoodProc
  <2>3. st \in GoodProc
    BY <2>2 DEF Idle, GoodProc, OrderPcs, TakenPcs, RowPcs
  <2>4. Become(Worker, st) /\ closed' \subseteq Brackets
    BY <1>2 DEF StartMonitor, TypeInv, TypeOK
  <2> HIDE DEF st
  <2> QED
    BY <1>1, <1>2, <2>3, <2>4, BecomeGood DEF StartMonitor, TypeInv, TypeOK
<1>3. ASSUME NEW b \in Brackets, ReconcileTrade(b) PROVE TypeInv'
  <2> DEFINE st == [w EXCEPT !.todo = @ \ {b}]
  <2>1. st \in Proc
    BY <1>1 DEF Proc
  <2>2. st \in GoodProc
    BY <1>1, <2>1 DEF Proc, GoodProc
  <2>3. Become(Worker, st)
    BY <1>3 DEF ReconcileTrade
  <2>4. index' \in [Keys -> Brackets \union {None}]
    BY <1>3 DEF ReconcileTrade, TypeInv, TypeOK
  <2>5. mode' \in [Strategies -> AllModes]
    BY <1>3 DEF ReconcileTrade, TypeInv, TypeOK, AllModes
  <2> HIDE DEF st
  <2> QED
    BY <1>1, <1>3, <2>2, <2>3, <2>4, <2>5, BecomeGood DEF ReconcileTrade, TypeInv, TypeOK
<1>4. CASE ReadOwnPositions
  <2> DEFINE seen == {pos \in OpenPositions : pos.strategy = w.strategy}
             st   == [w EXCEPT !.pc = "manage", !.seen = seen]
  <2>1. seen \subseteq Position
    BY PositionsTyped
  <2> HIDE DEF seen
  <2>2. st \in Proc
    BY <1>1, <2>1 DEF Proc
  <2>3. st \in GoodProc
    BY <1>1, <2>2 DEF Proc, GoodProc, OrderPcs, TakenPcs, RowPcs
  <2>4. Become(Worker, st)
    BY <1>4 DEF ReadOwnPositions, seen
  <2> HIDE DEF st
  <2> QED
    BY <1>1, <1>4, <2>3, <2>4, BecomeGood DEF ReadOwnPositions, TypeInv, TypeOK
<1>5. CASE EndMonitor
  BY <1>1, <1>5, IdleGood, BecomeGood DEF EndMonitor, TypeInv, TypeOK
<1> QED
  BY <1>2, <1>3, <1>4, <1>5, TypeManage DEF MonitorStep

LEMMA TypeEnvironment ==
  ASSUME TypeInv, Environment
  PROVE  TypeInv'
<1>1. ASSUME NEW b \in Brackets, NEW st \in {"open", "closed"}, brackets[b].st # "none",
             brackets' = [brackets EXCEPT ![b].st = st]
      PROVE  brackets' \in [Brackets -> Bracket] /\ brackets' \in [Brackets -> GoodBracket]
  <2> DEFINE k == [brackets[b] EXCEPT !.st = st]
  <2>1. brackets[b] \in GoodBracket /\ brackets[b] \in Bracket
    BY DEF TypeInv, TypeOK
  <2>2. k \in Bracket
    BY <2>1 DEF Bracket
  <2>3. k \in GoodBracket
    BY <1>1, <2>1, <2>2 DEF Bracket, GoodBracket
  <2>4. brackets' = [brackets EXCEPT ![b] = k]
    BY <1>1 DEF TypeInv, TypeOK
  <2> HIDE DEF k
  <2> QED
    BY <2>2, <2>3, <2>4 DEF TypeInv, TypeOK
<1>2. ASSUME NEW b \in Brackets, FillEntry(b) PROVE TypeInv'
  BY <1>1, <1>2 DEF FillEntry, TypeInv, TypeOK
<1>3. ASSUME NEW b \in Brackets, ExitLegFills(b) PROVE TypeInv'
  <2>1. brackets' \in [Brackets -> Bracket] /\ brackets' \in [Brackets -> GoodBracket]
    BY <1>1, <1>3 DEF ExitLegFills
  <2>2. closed' \subseteq Brackets /\ left' \in Nat
    BY <1>3 DEF ExitLegFills, Disturb, TypeInv, TypeOK
  <2> QED
    BY <1>3, <2>1, <2>2 DEF ExitLegFills, TypeInv, TypeOK
<1>4. ASSUME NEW p \in Proposals, ExpiryPasses(p) PROVE TypeInv'
  BY <1>4 DEF ExpiryPasses, TypeInv, TypeOK
<1>5. ASSUME NEW s \in Strategies, NEW m \in Modes, SetMode(s, m) PROVE TypeInv'
  <2>1. m \in AllModes
    BY PipelineAssumption
  <2> QED
    BY <1>5, <2>1 DEF SetMode, Disturb, TypeInv, TypeOK
<1>6. CASE Trip
  BY <1>6 DEF Trip, Disturb, TypeInv, TypeOK
<1>7. CASE DemoteAllToWatch
  <2>1. mode' \in [Strategies -> AllModes]
    BY <1>7 DEF DemoteAllToWatch, TypeInv, TypeOK, AllModes
  <2> QED
    BY <1>7, <2>1 DEF DemoteAllToWatch, TypeInv, TypeOK
<1>8. CASE Rearm
  BY <1>8 DEF Rearm, Disturb, TypeInv, TypeOK
<1>9. ASSUME NEW x \in Procs, AwaitThrows(x) PROVE TypeInv'
  BY <1>9, IdleGood, BecomeGood DEF AwaitThrows, Disturb, TypeInv, TypeOK
<1>10. ASSUME NEW x \in Procs, OutOfIds(x) PROVE TypeInv'
  BY <1>10, IdleGood, BecomeGood DEF OutOfIds, TypeInv, TypeOK
<1>11. CASE Restart
  <2>1. procs' \in [Procs -> GoodProc] /\ procs' \in [Procs -> Proc]
    BY <1>11, IdleGood DEF Restart, GoodProc
  <2>2. ASSUME NEW b \in Brackets
        PROVE  [brackets[b] EXCEPT !.st = IF @ = "none" THEN @ ELSE "lost"] \in GoodBracket
    BY DEF TypeInv, GoodBracket, Bracket
  <2>3. brackets' \in [Brackets -> Bracket] /\ brackets' \in [Brackets -> GoodBracket]
    BY <1>11, <2>2 DEF Restart, GoodBracket
  <2> QED
    BY <1>11, <2>1, <2>3 DEF Restart, Disturb, TypeInv, TypeOK
<1> QED
  BY <1>2, <1>3, <1>4, <1>5, <1>6, <1>7, <1>8, <1>9, <1>10, <1>11 DEF Environment

LEMMA TypeStep == TypeInv /\ [Next]_vars => TypeInv'
<1> SUFFICES ASSUME TypeInv, [Next]_vars PROVE TypeInv'
  OBVIOUS
<1>1. CASE EndScan
  <2>1. Worker \in Procs
    BY DEF Procs
  <2> QED
    BY <1>1, <2>1, IdleGood, BecomeGood DEF EndScan, TypeInv, TypeOK
<1>2. CASE UNCHANGED vars
  BY <1>2 DEF vars, TypeInv, TypeOK
<1> QED
  BY <1>1, <1>2, TypeScan, TypeOrder, TypeDecision, TypeSweep, TypeMonitor, TypeEnvironment
     DEF Next, Procs

\* Every variable keeps its type, and every process knows the row and the draft
\* its next await needs, whatever requests, jobs and disturbances interleave.
THEOREM TypeCorrect == Spec => []TypeOK
<1>1. Spec => []TypeInv
  BY TypeInit, TypeStep, PTL DEF Spec
<1>2. TypeInv => TypeOK
  BY DEF TypeInv
<1> QED
  BY <1>1, <1>2, PTL

-----------------------------------------------------------------------------
(* How the rows move: the pipeline implements the proposal lifecycle.      *)

CreateRow(p) ==
  /\ rows[p].status = "none"
  /\ \E r \in Row : /\ r.status = "pending" /\ r.by = "nobody" /\ r.qty = r.sized
                    /\ rows' = [rows EXCEPT ![p] = r]

SettleRow(p) ==
  /\ rows[p].status = "pending"
  /\ \E o \in Lifecycle!Outcomes, r \in Row :
       /\ r.status = o[1] /\ r.by = o[2] /\ r.sized = rows[p].sized
       /\ rows' = [rows EXCEPT ![p] = r]

RowMove == \/ rows' = rows
           \/ \E p \in Proposals : CreateRow(p) \/ SettleRow(p)

LEMMA DecideRowSettles ==
  ASSUME TypeInv, NEW p \in Proposals, NEW qty \in Nat, NEW by, NEW st,
         <<st, by>> \in Lifecycle!Outcomes, DecideRow(p, st, by, qty)
  PROVE  rows' = rows \/ SettleRow(p)
<1> DEFINE r == [rows[p] EXCEPT !.status = st, !.by = by, !.qty = qty]
<1>1. rows[p] \in Row
  BY DEF TypeInv, TypeOK
<1>2. /\ st \in {"executed", "rejected", "expired"} /\ by \in Deciders
  BY DEF Lifecycle!Outcomes, Deciders
<1>3. r \in Row /\ r.status = st /\ r.by = by /\ r.sized = rows[p].sized
  BY <1>1, <1>2 DEF Row
<1>4. rows' = IF rows[p].status = "pending" THEN [rows EXCEPT ![p] = r] ELSE rows
  BY DEF DecideRow, TypeInv, TypeOK
<1> HIDE DEF r
<1>5. <<st, by>>[1] = st /\ <<st, by>>[2] = by
  OBVIOUS
<1> QED
  BY <1>3, <1>4, <1>5 DEF SettleRow

\* The only ways a step touches the proposals table.
LEMMA RowsMove ==
  ASSUME TypeInv, [Next]_vars
  PROVE  RowMove
<1>1. ASSUME NEW x \in Procs, PersistProposal(x) PROVE RowMove
  <2> DEFINE p == CHOOSE q \in Proposals : rows[q].status = "none"
             r == [status |-> "pending", draft |-> procs[x].draft, qty |-> procs[x].qty,
                   sized |-> procs[x].qty, by |-> "nobody"]
  <2>1. p \in Proposals /\ rows[p].status = "none"
    BY <1>1 DEF PersistProposal, Stored
  <2>2. procs[x] \in Proc
    BY DEF TypeInv, TypeOK
  <2>3. r \in Row
    BY <2>2 DEF Row, Proc, Deciders
  <2>4. rows' = [rows EXCEPT ![p] = r]
    BY <1>1 DEF PersistProposal
  <2>5. r.status = "pending" /\ r.by = "nobody" /\ r.qty = r.sized
    OBVIOUS
  <2> HIDE DEF p, r
  <2> QED
    BY <2>1, <2>3, <2>4, <2>5 DEF RowMove, CreateRow
<1>2. ASSUME NEW x \in Procs, MarkExecuted(x) PROVE RowMove
  <2>1. procs[x] \in GoodProc
    BY DEF TypeInv
  <2>2. /\ procs[x].p \in Proposals /\ procs[x].qty \in Nat
        /\ procs[x].by \in {"user", "auto"}
    BY <1>2, <2>1 DEF MarkExecuted, At, GoodProc, Proc, TakenPcs, RowPcs
  <2>3. <<"executed", procs[x].by>> \in Lifecycle!Outcomes
    BY <2>2 DEF Lifecycle!Outcomes
  <2> QED
    BY <1>2, <2>2, <2>3, DecideRowSettles DEF MarkExecuted, RowMove
<1>3. ASSUME NEW x \in Requests, RejectRow(x) PROVE RowMove
  <2>1. procs[x].p \in Proposals
    BY <1>3 DEF RejectRow, At, TypeInv, GoodProc, RowPcs, Procs
  <2>2. rows[procs[x].p].qty \in Nat
    BY <2>1 DEF TypeInv, TypeOK, Row
  <2>3. <<"rejected", "user">> \in Lifecycle!Outcomes
    BY DEF Lifecycle!Outcomes
  <2> QED
    BY <1>3, <2>1, <2>2, <2>3, DecideRowSettles DEF RejectRow, RowMove
<1>4. ASSUME NEW p \in Proposals, ExpireRow(p) PROVE RowMove
  <2>1. rows[p].qty \in Nat
    BY DEF TypeInv, TypeOK, Row
  <2>2. <<"expired", "nobody">> \in Lifecycle!Outcomes
    BY DEF Lifecycle!Outcomes
  <2> QED
    BY <1>4, <2>1, <2>2, DecideRowSettles DEF ExpireRow, RowMove
<1>5. ASSUME NEW x \in Procs, ScanStep(x) PROVE RowMove
  BY <1>1, <1>5 DEF ScanStep, StartScan, ReadPositions, RiskAndModeGate, Gate, RowMove
<1>6. ASSUME NEW x \in Procs, OrderStep(x) PROVE RowMove
  BY <1>2, <1>6 DEF OrderStep, PlaceBracket, AuditExecution, RowMove
<1>7. ASSUME NEW x \in Requests, DecisionStep(x) PROVE RowMove
  BY <1>3, <1>7 DEF DecisionStep, Approve, Reject, AuditRejection, RowMove
<1>8. CASE SweepStep
  BY <1>4, <1>8 DEF SweepStep, StartSweep, AuditExpiry, RowMove
<1>9. CASE MonitorStep
  BY <1>9 DEF MonitorStep, StartMonitor, ReconcileTrade, ReadOwnPositions, ManagePosition,
     LeavePosition, ClosePosition, ScaleOut, MoveStop, EndMonitor, RowMove
<1>10. CASE Environment
  BY <1>10 DEF Environment, FillEntry, ExitLegFills, ExpiryPasses, SetMode, Trip,
     DemoteAllToWatch, Rearm, AwaitThrows, OutOfIds, Restart, RowMove
<1>11. CASE EndScan \/ UNCHANGED vars
  BY <1>11 DEF EndScan, vars, RowMove
<1> QED
  BY <1>5, <1>6, <1>7, <1>8, <1>9, <1>10, <1>11 DEF Next

\* The pipeline implements the proposal lifecycle: a proposal is decided once,
\* by one decider, although requests, sweep and worker decide on stale reads.
THEOREM LifecycleRefined == Spec => LifecycleSpec
<1>1. Init => Lifecycle!Init
  BY DEF Init, NoRow, Lifecycle!Init
<1>2. TypeInv /\ [Next]_vars => [Lifecycle!Next]_Lifecycle!vars
  <2> SUFFICES ASSUME TypeInv, [Next]_vars
               PROVE  Lifecycle!Next \/ UNCHANGED Lifecycle!vars
    OBVIOUS
  <2>1. rows \in [Proposals -> Row]
    BY DEF TypeInv, TypeOK
  <2>2. CASE rows' = rows
    BY <2>2 DEF Lifecycle!vars
  <2> DEFINE status    == [q \in Proposals |-> rows[q].status]
             decidedBy == [q \in Proposals |-> rows[q].by]
  <2>3. ASSUME NEW p \in Proposals, NEW r \in Row, rows' = [rows EXCEPT ![p] = r]
        PROVE  /\ status' = [status EXCEPT ![p] = r.status]
               /\ decidedBy' = [decidedBy EXCEPT ![p] = r.by]
    BY <2>1, <2>3
  <2>4. ASSUME NEW p \in Proposals, CreateRow(p) PROVE Lifecycle!Create(p)
    <3>1. PICK r \in Row : /\ r.status = "pending" /\ r.by = "nobody"
                           /\ rows' = [rows EXCEPT ![p] = r]
      BY <2>4 DEF CreateRow
    <3>2. status' = [status EXCEPT ![p] = "pending"] /\ decidedBy' = [decidedBy EXCEPT ![p] = "nobody"]
      BY <2>3, <3>1
    <3>3. rows[p].by = "nobody"
      BY <2>4 DEF CreateRow, TypeInv, GoodRow
    <3>4. decidedBy' = decidedBy
      BY <3>2, <3>3
    <3> QED
      BY <2>4, <3>2, <3>4 DEF CreateRow, Lifecycle!Create
  <2>5. ASSUME NEW p \in Proposals, SettleRow(p)
        PROVE  \E o \in Lifecycle!Outcomes : Lifecycle!Decide(p, o)
    <3>1. PICK o \in Lifecycle!Outcomes, r \in Row :
            r.status = o[1] /\ r.by = o[2] /\ rows' = [rows EXCEPT ![p] = r]
      BY <2>5 DEF SettleRow
    <3>2. status' = [status EXCEPT ![p] = o[1]] /\ decidedBy' = [decidedBy EXCEPT ![p] = o[2]]
      BY <2>3, <3>1
    <3>3. Lifecycle!Decide(p, o)
      BY <2>5, <3>2 DEF SettleRow, Lifecycle!Decide
    <3> QED
      BY <3>3
  <2> QED
    BY <2>2, <2>4, <2>5, RowsMove DEF RowMove, Lifecycle!Next
<1>3. Spec => []TypeInv
  BY TypeInit, TypeStep, PTL DEF Spec
<1> QED
  BY <1>1, <1>2, <1>3, PTL DEF Spec, LifecycleSpec, Lifecycle!Spec

-----------------------------------------------------------------------------
(* How the orders relate to the rows.                                      *)

Decided == {"executed", "rejected", "expired"}
AuditPcs == {"audit", "auditReject", "auditExpiry"}
SweepPcs == {"sweep", "auditExpiry"}

Backs(b, p, qty, by) ==
  brackets[b].p = p /\ brackets[b].placed = qty /\ brackets[b].by = by

\* What a process that waits in the middle of a decision knows of the tables.
ProcInv(x) ==
  LET st == procs[x]
  IN /\ st.pc \in RowPcs => rows[st.p].status # "none"
     /\ st.pc \in SweepPcs => \A p \in st.todo \intersect Proposals : rows[p].status # "none"
     /\ st.pc = "place" => st.qty <= rows[st.p].sized
     /\ st.pc = "mark" => \E b \in Brackets : Backs(b, st.p, st.qty, st.by)
     /\ st.pc \in AuditPcs => rows[st.p].status \in Decided

BracketInv(b) ==
  LET k == brackets[b]
  IN k.p # None => /\ rows[k.p].status # "none"
                   /\ k.placed <= rows[k.p].sized
                   /\ k.qty <= k.placed

OrderInv ==
  /\ \A x \in Procs : ProcInv(x)
  /\ \A b \in Brackets : BracketInv(b)
  /\ ExecutedIsBacked
  /\ AuditedIsDecided

\* A bracket is what it was, but for its state, its stop and fewer shares.
KeepsBracket(b) ==
  /\ brackets'[b].p = brackets[b].p
  /\ brackets'[b].placed = brackets[b].placed
  /\ brackets'[b].by = brackets[b].by
  /\ brackets'[b].qty <= brackets[b].qty

\* A free bracket now carries the order of the process that placed it.
NewBracket(b, x) ==
  /\ brackets[b].p = None
  /\ At(x, "place")
  /\ brackets'[b].p = procs[x].p
  /\ brackets'[b].placed = procs[x].qty
  /\ brackets'[b].qty = procs[x].qty
  /\ brackets'[b].by = procs[x].by
  /\ procs'[x].pc = "mark" /\ procs'[x].p = procs[x].p
  /\ procs'[x].qty = procs[x].qty /\ procs'[x].by = procs[x].by

BracketMove ==
  \A b \in Brackets : KeepsBracket(b) \/ \E x \in Procs : NewBracket(b, x)

LEMMA PlacementMoves ==
  ASSUME TypeInv, NEW x \in Procs, PlaceBracket(x)
  PROVE  /\ \A b \in Brackets : KeepsBracket(b) \/ NewBracket(b, x)
         /\ \E b \in Brackets : NewBracket(b, x)
<1> DEFINE new == CHOOSE c \in Brackets : c \in Free
<1>1. new \in Brackets /\ brackets[new].st = "none"
  BY DEF PlaceBracket, Free
<1>2. brackets[new].p = None
  BY <1>1 DEF TypeInv, GoodBracket
<1>3. PICK slip \in Slips : brackets' = [brackets EXCEPT ![new] =
        [st |-> IF Quoted THEN "open" ELSE "pending", p |-> procs[x].p,
         draft |-> procs[x].draft, qty |-> procs[x].qty, placed |-> procs[x].qty,
         by |-> procs[x].by,
         entry |-> IF procs[x].draft.side = "long" THEN procs[x].draft.entry + slip
                                                   ELSE procs[x].draft.entry - slip,
         stop |-> procs[x].draft.stop]]
  BY DEF PlaceBracket
<1>4. /\ procs' = [procs EXCEPT ![x] = [procs[x] EXCEPT !.pc = "mark"]]
      /\ At(x, "place")
  BY DEF PlaceBracket, Become
<1> HIDE DEF new
<1>5. brackets \in [Brackets -> Bracket] /\ procs \in [Procs -> Proc]
  BY DEF TypeInv, TypeOK
<1>6. /\ procs'[x].pc = "mark" /\ procs'[x].p = procs[x].p
      /\ procs'[x].qty = procs[x].qty /\ procs'[x].by = procs[x].by
  BY <1>4, <1>5 DEF Proc
<1>7. NewBracket(new, x)
  BY <1>1, <1>2, <1>3, <1>4, <1>5, <1>6 DEF NewBracket
<1>8. ASSUME NEW b \in Brackets, b # new PROVE KeepsBracket(b)
  BY <1>3, <1>5, <1>8 DEF KeepsBracket, Bracket
<1> QED
  BY <1>1, <1>7, <1>8

LEMMA ManageMoves ==
  ASSUME TypeInv, NEW pos \in procs[Worker].seen, ManagePosition(pos)
  PROVE  \A b \in Brackets : KeepsBracket(b)
<1> SUFFICES ASSUME NEW b \in Brackets PROVE KeepsBracket(b)
  OBVIOUS
<1>1. brackets \in [Brackets -> Bracket] /\ brackets[b] \in Bracket
  BY DEF TypeInv, TypeOK
<1>2. CASE LeavePosition(pos)
  BY <1>1, <1>2 DEF LeavePosition, KeepsBracket, Bracket
<1>3. CASE ClosePosition(pos)
  BY <1>1, <1>3 DEF ClosePosition, KeepsBracket, Bracket
<1>4. ASSUME NEW n \in 1..(pos.qty - 1), ScaleOut(pos, n) PROVE KeepsBracket(b)
  <2>1. pos.qty \in Nat
    BY DEF TypeInv, TypeOK, Procs, Proc, Position
  <2> QED
    BY <1>1, <1>4, <2>1 DEF ScaleOut, KeepsBracket, Bracket
<1>5. CASE MoveStop(pos)
  BY <1>1, <1>5 DEF MoveStop, KeepsBracket, Bracket
<1> QED
  BY <1>2, <1>3, <1>4, <1>5 DEF ManagePosition

\* The only ways a step touches the brackets.
LEMMA BracketsMove ==
  ASSUME TypeInv, [Next]_vars
  PROVE  BracketMove
<1>1. brackets \in [Brackets -> Bracket]
  BY DEF TypeInv, TypeOK
<1>2. ASSUME brackets' = brackets PROVE BracketMove
  BY <1>1, <1>2 DEF BracketMove, KeepsBracket, Bracket
<1>3. ASSUME NEW x \in Procs, ScanStep(x) PROVE BracketMove
  BY <1>2, <1>3 DEF ScanStep, StartScan, ReadPositions, RiskAndModeGate, Gate, PersistProposal
<1>4. ASSUME NEW x \in Procs, OrderStep(x) PROVE BracketMove
  BY <1>2, <1>4, PlacementMoves DEF OrderStep, MarkExecuted, AuditExecution, BracketMove
<1>5. ASSUME NEW x \in Requests, DecisionStep(x) PROVE BracketMove
  BY <1>2, <1>5 DEF DecisionStep, Approve, Reject, RejectRow, AuditRejection
<1>6. CASE SweepStep
  BY <1>2, <1>6 DEF SweepStep, StartSweep, ExpireRow, AuditExpiry
<1>7. CASE MonitorStep
  BY <1>2, <1>7, ManageMoves
     DEF MonitorStep, StartMonitor, ReconcileTrade, ReadOwnPositions, EndMonitor, BracketMove
<1>8. CASE Environment
  <2>1. ASSUME NEW b \in Brackets, FillEntry(b) \/ ExitLegFills(b) PROVE BracketMove
    BY <1>1, <2>1 DEF FillEntry, ExitLegFills, BracketMove, KeepsBracket, Bracket
  <2>2. CASE Restart
    BY <1>1, <2>2 DEF Restart, BracketMove, KeepsBracket, Bracket
  <2> QED
    BY <1>2, <1>8, <2>1, <2>2 DEF Environment, ExpiryPasses, SetMode, Trip, DemoteAllToWatch,
       Rearm, AwaitThrows, OutOfIds
<1>9. CASE EndScan \/ UNCHANGED vars
  BY <1>2, <1>9 DEF EndScan, vars
<1> QED
  BY <1>3, <1>4, <1>5, <1>6, <1>7, <1>8, <1>9 DEF Next

\* What is stored stays stored at the size the risk manager gave it, what is
\* decided stays as it is, and an order keeps backing what it backed.
LEMMA Monotone ==
  ASSUME TypeInv, [Next]_vars
  PROVE  /\ \A p \in Proposals : rows[p].status # "none" =>
              rows'[p].status # "none" /\ rows'[p].sized = rows[p].sized
         /\ \A p \in Proposals : rows[p].status \in Decided => rows'[p] = rows[p]
         /\ \A b \in Brackets : brackets[b].p # None =>
              \A p, qty, by : Backs(b, p, qty, by) => Backs(b, p, qty, by)'
<1>1. rows \in [Proposals -> Row]
  BY DEF TypeInv, TypeOK
<1>2. ASSUME NEW p \in Proposals, NEW q \in Proposals, CreateRow(q)
      PROVE  rows'[p] = rows[p] \/ rows[p].status = "none"
  BY <1>1, <1>2 DEF CreateRow
<1>3. ASSUME NEW p \in Proposals, NEW q \in Proposals, SettleRow(q)
      PROVE  \/ rows'[p] = rows[p]
             \/ /\ rows[p].status = "pending"
                /\ rows'[p].status # "none" /\ rows'[p].sized = rows[p].sized
  <2>1. PICK o \in Lifecycle!Outcomes, r \in Row :
          r.status = o[1] /\ r.sized = rows[q].sized /\ rows' = [rows EXCEPT ![q] = r]
    BY <1>3 DEF SettleRow
  <2>2. r.status # "none"
    BY <2>1 DEF Lifecycle!Outcomes
  <2> QED
    BY <1>1, <1>3, <2>1, <2>2 DEF SettleRow
<1>4. \A p \in Proposals : \/ rows'[p] = rows[p]
                           \/ rows[p].status = "none"
                           \/ /\ rows[p].status = "pending"
                              /\ rows'[p].status # "none" /\ rows'[p].sized = rows[p].sized
  BY <1>2, <1>3, RowsMove DEF RowMove
<1>5. \A b \in Brackets : brackets[b].p # None => KeepsBracket(b)
  BY BracketsMove DEF BracketMove, NewBracket
<1> QED
  BY <1>4, <1>5 DEF Decided, KeepsBracket, Backs

\* A guarded decision leaves the row decided, by it or by an earlier one.
LEMMA DecideRowDecides ==
  ASSUME TypeInv, NEW p \in Proposals, NEW qty, NEW by, NEW st \in Decided,
         rows[p].status # "none", DecideRow(p, st, by, qty)
  PROVE  rows'[p].status \in Decided
<1>1. rows \in [Proposals -> Row] /\ rows[p] \in Row
  BY DEF TypeInv, TypeOK
<1> QED
  BY <1>1 DEF DecideRow, Row, Decided

LEMMA ProcInvStep ==
  ASSUME TypeInv, OrderInv, [Next]_vars, NEW y \in Procs
  PROVE  ProcInv(y)'
<1>1. procs[y] \in GoodProc /\ ProcInv(y) /\ procs \in [Procs -> Proc]
  BY DEF TypeInv, TypeOK, OrderInv
<1>2. ASSUME procs'[y] = procs[y] PROVE ProcInv(y)'
  <2>1. ASSUME procs[y].pc \in RowPcs PROVE procs[y].p \in Proposals
    BY <1>1, <2>1 DEF GoodProc
  <2>2. \A b \in Brackets : procs[y].pc = "mark" /\ Backs(b, procs[y].p, procs[y].qty, procs[y].by)
          => brackets[b].p # None
    BY <2>1, PipelineAssumption DEF Backs, RowPcs
  <2> QED
    BY <1>1, <1>2, <2>1, <2>2, Monotone DEF ProcInv, RowPcs, AuditPcs, SweepPcs, Backs
<1>3. ASSUME procs'[y].pc \notin RowPcs \union {"sweep"} PROVE ProcInv(y)'
  BY <1>3 DEF ProcInv, RowPcs, AuditPcs, SweepPcs
<1>4. ASSUME NEW x \in Procs, NEW st, Become(x, st), y # x PROVE ProcInv(y)'
  BY <1>1, <1>2, <1>4 DEF Become
<1>5. ASSUME NEW st, Become(y, st) PROVE procs'[y] = st
  BY <1>1, <1>5 DEF Become
<1>6. Idle.pc \notin RowPcs \union {"sweep"} /\ SignalDone(y).pc \notin RowPcs \union {"sweep"}
  BY DEF Idle, SignalDone, RowPcs
<1>7. ASSUME NEW x \in Procs, ScanStep(x) PROVE ProcInv(y)'
  <2>1. CASE y # x
    BY <1>4, <1>7, <2>1 DEF ScanStep, StartScan, ReadPositions, RiskAndModeGate, Gate,
       PersistProposal
  <2>2. ASSUME NEW s \in Strategies, StartScan(y, s) PROVE ProcInv(y)'
    BY <1>3, <1>5, <2>2 DEF StartScan, Idle, RowPcs
  <2>3. ASSUME NEW d \in Drafts, ReadPositions(y, d) PROVE ProcInv(y)'
    BY <1>1, <1>3, <1>5, <2>3 DEF ReadPositions, RowPcs, Proc
  <2>4. CASE RiskAndModeGate(y)
    <3>1. [procs[y] EXCEPT !.pc = "persist", !.seen = {}, !.by = "auto",
                           !.qty = SizeFor(procs[y].draft, Equity)].pc \notin RowPcs \union {"sweep"}
      BY <1>1 DEF Proc, RowPcs
    <3> QED
      BY <1>3, <1>5, <1>6, <2>4, <3>1 DEF RiskAndModeGate, Gate
  <2>5. CASE PersistProposal(y)
    <3> DEFINE p == CHOOSE q \in Proposals : rows[q].status = "none"
    <3>1. p \in Proposals
      BY <2>5 DEF PersistProposal, Stored
    <3>2. rows'[p].status = "pending" /\ rows'[p].sized = procs[y].qty
      BY <2>5, <3>1 DEF PersistProposal, TypeInv, TypeOK
    <3>3. \/ procs'[y] = [procs[y] EXCEPT !.pc = "place", !.p = p]
          \/ procs'[y] = SignalDone(y)
      BY <1>5, <2>5 DEF PersistProposal
    <3> HIDE DEF p
    <3>4. CASE procs'[y] = [procs[y] EXCEPT !.pc = "place", !.p = p]
      <4>1. procs'[y].pc = "place" /\ procs'[y].p = p /\ procs'[y].qty = procs[y].qty
        BY <1>1, <3>4 DEF Proc
      <4>2. procs[y].qty \in Nat
        BY <1>1 DEF Proc
      <4> QED
        BY <3>2, <4>1, <4>2 DEF ProcInv, AuditPcs, SweepPcs
    <3> QED
      BY <1>3, <1>6, <3>3, <3>4
  <2> QED
    BY <1>7, <2>1, <2>2, <2>3, <2>4, <2>5 DEF ScanStep
<1>8. ASSUME NEW x \in Procs, OrderStep(x) PROVE ProcInv(y)'
  <2>1. CASE y # x
    BY <1>4, <1>8, <2>1 DEF OrderStep, PlaceBracket, MarkExecuted, AuditExecution
  <2>2. CASE PlaceBracket(y)
    <3>1. PICK b \in Brackets : NewBracket(b, y)
      BY <2>2, PlacementMoves
    <3>2. procs[y].pc = "place" /\ procs[y].p \in Proposals
      BY <1>1, <2>2 DEF PlaceBracket, At, GoodProc, RowPcs
    <3>3. rows' = rows
      BY <2>2 DEF PlaceBracket
    <3> QED
      BY <1>1, <3>1, <3>2, <3>3 DEF NewBracket, ProcInv, Backs, RowPcs, AuditPcs, SweepPcs
  <2>3. CASE MarkExecuted(y)
    <3>1. procs[y].p \in Proposals /\ rows[procs[y].p].status # "none"
      BY <1>1, <2>3 DEF MarkExecuted, At, GoodProc, ProcInv, RowPcs
    <3>2. rows'[procs[y].p].status \in Decided
      BY <2>3, <3>1, DecideRowDecides DEF MarkExecuted, Decided
    <3>3. procs'[y].pc = "audit" /\ procs'[y].p = procs[y].p
      BY <1>1, <1>5, <2>3 DEF MarkExecuted, Proc
    <3> QED
      BY <3>2, <3>3 DEF ProcInv, Decided, SweepPcs
  <2>4. CASE AuditExecution(y)
    BY <1>3, <1>5, <1>6, <2>4 DEF AuditExecution
  <2> QED
    BY <1>8, <2>1, <2>2, <2>3, <2>4 DEF OrderStep
<1>9. ASSUME NEW x \in Requests, DecisionStep(x) PROVE ProcInv(y)'
  <2>1. CASE y # x
    BY <1>4, <1>9, <2>1 DEF DecisionStep, Approve, Reject, RejectRow, AuditRejection, Procs
  <2>2. ASSUME NEW p \in Proposals, Reject(y, p) PROVE ProcInv(y)'
    BY <1>5, <2>2 DEF Reject, Idle, ProcInv, AuditPcs, SweepPcs
  <2>3. ASSUME NEW p \in Proposals, NEW q \in 0..(rows[p].qty + 1), Approve(y, p, q)
        PROVE  ProcInv(y)'
    <3>1. rows[p].status = "pending" /\ q <= rows[p].sized
      BY <2>3 DEF Approve, TypeInv, GoodRow
    <3>2. procs'[y].pc = "place" /\ procs'[y].p = p /\ procs'[y].qty = q
      BY <1>5, <2>3 DEF Approve, Idle
    <3>3. rows' = rows
      BY <2>3 DEF Approve
    <3> QED
      BY <3>1, <3>2, <3>3 DEF ProcInv, AuditPcs, SweepPcs
  <2>4. CASE RejectRow(y)
    <3>1. procs[y].p \in Proposals /\ rows[procs[y].p].status # "none"
      BY <1>1, <2>4 DEF RejectRow, At, GoodProc, ProcInv, RowPcs
    <3>2. rows'[procs[y].p].status \in Decided
      BY <2>4, <3>1, DecideRowDecides DEF RejectRow, Decided
    <3>3. procs'[y].pc = "auditReject" /\ procs'[y].p = procs[y].p
      BY <1>1, <1>5, <2>4 DEF RejectRow, Proc
    <3> QED
      BY <3>2, <3>3 DEF ProcInv, Decided, SweepPcs
  <2>5. CASE AuditRejection(y)
    BY <1>3, <1>5, <1>6, <2>5 DEF AuditRejection
  <2> QED
    BY <1>9, <2>1, <2>2, <2>3, <2>4, <2>5 DEF DecisionStep
<1>10. CASE SweepStep
  <2>1. Worker \in Procs
    BY DEF Procs
  <2>2. CASE y # Worker
    BY <1>4, <1>10, <2>1, <2>2 DEF SweepStep, StartSweep, ExpireRow, AuditExpiry
  <2>3. ASSUME y = Worker, StartSweep PROVE ProcInv(y)'
    <3>1. procs'[y].pc = "sweep" /\ procs'[y].todo = Expirable /\ rows' = rows
      BY <1>5, <2>3 DEF StartSweep, Idle
    <3> QED
      BY <3>1 DEF ProcInv, RowPcs, AuditPcs, SweepPcs, Expirable
  <2>4. ASSUME y = Worker, NEW p \in Proposals, ExpireRow(p) PROVE ProcInv(y)'
    <3>1. procs[y].pc = "sweep" /\ p \in procs[y].todo
      BY <2>4 DEF ExpireRow, At
    <3>2. \A q \in procs[y].todo \intersect Proposals : rows[q].status # "none"
      BY <1>1, <3>1 DEF ProcInv, SweepPcs
    <3>3. rows'[p].status \in Decided
      BY <2>4, <3>1, <3>2, DecideRowDecides DEF ExpireRow, Decided
    <3>4. /\ procs'[y].pc = "auditExpiry" /\ procs'[y].p = p
          /\ procs'[y].todo = procs[y].todo \ {p}
      BY <1>1, <1>5, <2>4 DEF ExpireRow, Proc
    <3> QED
      BY <3>2, <3>3, <3>4, Monotone DEF ProcInv, Decided, AuditPcs
  <2>5. ASSUME y = Worker, AuditExpiry PROVE ProcInv(y)'
    <3>1. CASE procs'[y] = Idle
      BY <1>3, <1>6, <3>1
    <3>2. CASE procs'[y] = [procs[y] EXCEPT !.pc = "sweep", !.p = None]
      <4>1. procs'[y].pc = "sweep" /\ procs'[y].todo = procs[y].todo
        BY <1>1, <3>2 DEF Proc
      <4>2. procs[y].pc = "auditExpiry" /\ rows' = rows
        BY <2>5 DEF AuditExpiry, At
      <4> QED
        BY <1>1, <4>1, <4>2 DEF ProcInv, RowPcs, AuditPcs, SweepPcs
    <3> QED
      BY <1>5, <2>5, <3>1, <3>2 DEF AuditExpiry
  <2> QED
    BY <1>10, <2>2, <2>3, <2>4, <2>5 DEF SweepStep
<1>11. CASE MonitorStep
  <2>1. Worker \in Procs
    BY DEF Procs
  <2>2. CASE y # Worker
    BY <1>4, <1>11, <2>1, <2>2 DEF MonitorStep, StartMonitor, ReconcileTrade, ReadOwnPositions,
       ManagePosition, LeavePosition, ClosePosition, ScaleOut, MoveStop, Managed, EndMonitor
  <2>3. ASSUME y = Worker, NEW s \in Strategies, StartMonitor(s) PROVE ProcInv(y)'
    BY <1>3, <1>5, <2>3 DEF StartMonitor, Idle, RowPcs
  <2>4. ASSUME y = Worker, NEW b \in Brackets, ReconcileTrade(b) PROVE ProcInv(y)'
    <3>1. procs'[y].pc = "reconcile"
      BY <1>1, <1>5, <2>4 DEF ReconcileTrade, At, Proc
    <3> QED
      BY <1>3, <3>1 DEF RowPcs
  <2>5. ASSUME y = Worker, ReadOwnPositions PROVE ProcInv(y)'
    <3>1. procs'[y].pc = "manage"
      BY <1>1, <1>5, <2>5 DEF ReadOwnPositions, Proc
    <3> QED
      BY <1>3, <3>1 DEF RowPcs
  <2>6. ASSUME y = Worker, NEW pos \in procs[Worker].seen, ManagePosition(pos) PROVE ProcInv(y)'
    <3>1. \/ procs'[y] = Idle
          \/ procs'[y] = [procs[y] EXCEPT !.seen = @ \ {pos}]
      BY <1>5, <2>6 DEF ManagePosition, LeavePosition, ClosePosition, ScaleOut, MoveStop, Managed
    <3>2. procs[y].pc = "manage"
      BY <2>6 DEF ManagePosition, At
    <3>3. procs'[y].pc \notin RowPcs \union {"sweep"}
      BY <1>1, <1>6, <3>1, <3>2 DEF Proc, RowPcs
    <3> QED
      BY <1>3, <3>3
  <2>7. ASSUME y = Worker, EndMonitor PROVE ProcInv(y)'
    BY <1>3, <1>5, <1>6, <2>7 DEF EndMonitor
  <2> QED
    BY <1>11, <2>2, <2>3, <2>4, <2>5, <2>6, <2>7 DEF MonitorStep
<1>12. CASE Environment
  <2>1. procs'[y] = procs[y] \/ procs'[y] = Idle
    BY <1>1, <1>12 DEF Environment, FillEntry, ExitLegFills, ExpiryPasses, SetMode, Trip,
       DemoteAllToWatch, Rearm, AwaitThrows, OutOfIds, Restart, Become
  <2> QED
    BY <1>2, <1>3, <1>6, <2>1
<1>13. CASE EndScan \/ UNCHANGED vars
  <2>1. procs'[y] = procs[y] \/ procs'[y] = Idle
    BY <1>1, <1>13 DEF EndScan, vars, Become
  <2> QED
    BY <1>2, <1>3, <1>6, <2>1
<1> QED
  BY <1>7, <1>8, <1>9, <1>10, <1>11, <1>12, <1>13 DEF Next

LEMMA BracketInvStep ==
  ASSUME TypeInv, OrderInv, [Next]_vars, NEW b \in Brackets
  PROVE  BracketInv(b)'
<1>1. brackets[b] \in GoodBracket /\ brackets[b] \in Bracket /\ BracketInv(b)
  BY DEF TypeInv, TypeOK, OrderInv
<1>2. CASE KeepsBracket(b)
  <2>1. SUFFICES ASSUME brackets[b].p # None
                 PROVE  BracketInv(b)'
    BY <1>2 DEF KeepsBracket, BracketInv
  <2>2. brackets[b].p \in Proposals
    BY <1>1, <2>1 DEF GoodBracket, Bracket
  <2>3. /\ rows'[brackets[b].p].status # "none"
        /\ rows'[brackets[b].p].sized = rows[brackets[b].p].sized
    BY <1>1, <2>1, <2>2, Monotone DEF BracketInv
  <2>4. rows[brackets[b].p].sized \in Nat /\ brackets[b].qty \in Nat /\ brackets[b].placed \in Nat
    BY <1>1, <2>2 DEF TypeInv, TypeOK, Row, Bracket
  <2>5. brackets'[b].qty \in Nat
    BY TypeStep DEF TypeInv, TypeOK, Bracket
  <2> QED
    BY <1>1, <1>2, <2>1, <2>3, <2>4, <2>5 DEF KeepsBracket, BracketInv
<1>3. ASSUME NEW x \in Procs, NewBracket(b, x) PROVE BracketInv(b)'
  <2>1. procs[x] \in GoodProc /\ ProcInv(x) /\ procs[x].pc = "place"
    BY <1>3 DEF TypeInv, OrderInv, NewBracket, At
  <2>2. procs[x].p \in Proposals /\ procs[x].qty \in Nat
    BY <2>1 DEF GoodProc, Proc, RowPcs
  <2>3. rows[procs[x].p].status # "none" /\ procs[x].qty <= rows[procs[x].p].sized
    BY <2>1 DEF ProcInv, RowPcs
  <2>4. /\ rows'[procs[x].p].status # "none"
        /\ rows'[procs[x].p].sized = rows[procs[x].p].sized
    BY <2>2, <2>3, Monotone
  <2> QED
    BY <1>3, <2>2, <2>3, <2>4 DEF NewBracket, BracketInv
<1> QED
  BY <1>2, <1>3, BracketsMove DEF BracketMove

\* The only action that executes a row finds the order its process placed.
LEMMA BackedStep ==
  ASSUME TypeInv, OrderInv, [Next]_vars
  PROVE  ExecutedIsBacked'
<1> SUFFICES ASSUME NEW p \in Proposals, rows'[p].status = "executed"
             PROVE  \E b \in Brackets : /\ brackets'[b].p = p
                                        /\ brackets'[b].placed = rows'[p].qty
                                        /\ brackets'[b].by = rows'[p].by
  BY DEF ExecutedIsBacked
<1>1. \A b \in Brackets : brackets[b].p \in Proposals => KeepsBracket(b)
  BY BracketsMove, PipelineAssumption DEF BracketMove, NewBracket
<1>2. CASE rows'[p] = rows[p]
  BY <1>1, <1>2 DEF OrderInv, ExecutedIsBacked, KeepsBracket
<1>3. ASSUME NEW x \in Procs, MarkExecuted(x), rows'[p] # rows[p]
      PROVE  \E b \in Brackets : /\ brackets'[b].p = p
                                 /\ brackets'[b].placed = rows'[p].qty
                                 /\ brackets'[b].by = rows'[p].by
  <2>1. procs[x] \in GoodProc /\ ProcInv(x) /\ procs[x].pc = "mark"
    BY <1>3 DEF MarkExecuted, At, TypeInv, OrderInv
  <2>2. PICK b \in Brackets : Backs(b, procs[x].p, procs[x].qty, procs[x].by)
    BY <2>1 DEF ProcInv
  <2>3. rows \in [Proposals -> Row] /\ rows[p] \in Row
    BY DEF TypeInv, TypeOK
  <2>4. procs[x].p = p /\ rows[p].status = "pending"
    BY <1>3, <2>3 DEF MarkExecuted, DecideRow
  <2>5. rows'[p].qty = procs[x].qty /\ rows'[p].by = procs[x].by
    BY <1>3, <2>3, <2>4 DEF MarkExecuted, DecideRow, Row
  <2> QED
    BY <1>1, <2>2, <2>4, <2>5 DEF Backs, KeepsBracket
<1>4. ASSUME \A x \in Procs : ~MarkExecuted(x) PROVE rows'[p] = rows[p]
  <2>1. rows \in [Proposals -> Row]
    BY DEF TypeInv, TypeOK
  <2>2. ASSUME NEW x \in Procs, ScanStep(x) PROVE rows'[p] = rows[p]
    <3>1. CASE PersistProposal(x)
      <4> DEFINE q == CHOOSE r \in Proposals : rows[r].status = "none"
      <4>1. q \in Proposals
        BY <3>1 DEF PersistProposal, Stored
      <4>2. p # q => rows'[p] = rows[p]
        BY <2>1, <3>1 DEF PersistProposal
      <4>3. rows'[q].status = "pending"
        BY <2>1, <3>1, <4>1 DEF PersistProposal
      <4> QED
        BY <4>2, <4>3
    <3> QED
      BY <2>2, <3>1 DEF ScanStep, StartScan, ReadPositions, RiskAndModeGate, Gate
  <2>3. ASSUME NEW x \in Procs, OrderStep(x) PROVE rows'[p] = rows[p]
    BY <1>4, <2>3 DEF OrderStep, PlaceBracket, AuditExecution
  <2> DEFINE Other(q, st) == \E by, qty : DecideRow(q, st, by, qty)
  <2>a. ASSUME NEW q, NEW st, st # "executed", Other(q, st) PROVE rows'[p] = rows[p]
    <3>1. PICK by, qty : DecideRow(q, st, by, qty)
      BY <2>a
    <3>2. CASE q # p
      BY <2>1, <3>1, <3>2 DEF DecideRow
    <3>3. CASE q = p
      BY <2>1, <2>a, <3>1, <3>3 DEF DecideRow, Row
    <3> QED
      BY <3>2, <3>3
  <2>4. ASSUME NEW x \in Requests, DecisionStep(x) PROVE rows'[p] = rows[p]
    BY <2>4, <2>a DEF DecisionStep, Approve, Reject, AuditRejection, RejectRow
  <2>5. CASE SweepStep
    BY <2>5, <2>a DEF SweepStep, StartSweep, AuditExpiry, ExpireRow
  <2>6. CASE MonitorStep
    BY <2>6 DEF MonitorStep, StartMonitor, ReconcileTrade, ReadOwnPositions, ManagePosition,
       LeavePosition, ClosePosition, ScaleOut, MoveStop, EndMonitor
  <2>7. CASE Environment
    BY <2>7 DEF Environment, FillEntry, ExitLegFills, ExpiryPasses, SetMode, Trip,
       DemoteAllToWatch, Rearm, AwaitThrows, OutOfIds, Restart
  <2>8. CASE EndScan \/ UNCHANGED vars
    BY <2>8 DEF EndScan, vars
  <2> QED
    BY <2>2, <2>3, <2>4, <2>5, <2>6, <2>7, <2>8 DEF Next
<1> QED
  BY <1>2, <1>3, <1>4

\* An entry is written to the audit log only by a process that saw its row
\* decided, and a decided row stays decided.
LEMMA AuditedStep ==
  ASSUME TypeInv, OrderInv, [Next]_vars
  PROVE  AuditedIsDecided'
<1>1. ASSUME NEW x \in Procs, AuditExecution(x) \/ AuditRejection(x) \/ (x = Worker /\ AuditExpiry)
      PROVE  \A e \in audit' \ audit : rows[e[1]].status \in Decided /\ e[1] \in Proposals
  <2>1. procs[x].pc \in AuditPcs /\ procs[x] \in GoodProc /\ ProcInv(x)
    BY <1>1 DEF AuditExecution, AuditRejection, AuditExpiry, At, AuditPcs, TypeInv, OrderInv
  <2>2. \A e \in audit' \ audit : e[1] = procs[x].p
    BY <1>1 DEF AuditExecution, AuditRejection, AuditExpiry
  <2> QED
    BY <2>1, <2>2 DEF ProcInv, GoodProc, AuditPcs, RowPcs
<1>2. \/ audit' = audit
      \/ \E x \in Procs : AuditExecution(x) \/ AuditRejection(x) \/ (x = Worker /\ AuditExpiry)
  <2>1. Worker \in Procs /\ Requests \subseteq Procs
    BY DEF Procs
  <2>2. ASSUME NEW x \in Procs, ScanStep(x) PROVE audit' = audit
    BY <2>2 DEF ScanStep, StartScan, ReadPositions, RiskAndModeGate, Gate, PersistProposal
  <2>3. ASSUME NEW x \in Procs, OrderStep(x) PROVE audit' = audit \/ AuditExecution(x)
    BY <2>3 DEF OrderStep, PlaceBracket, MarkExecuted
  <2>4. ASSUME NEW x \in Requests, DecisionStep(x) PROVE audit' = audit \/ AuditRejection(x)
    BY <2>4 DEF DecisionStep, Approve, Reject, RejectRow
  <2>5. CASE SweepStep
    BY <2>1, <2>5 DEF SweepStep, StartSweep, ExpireRow
  <2>6. CASE MonitorStep
    BY <2>6 DEF MonitorStep, StartMonitor, ReconcileTrade, ReadOwnPositions, ManagePosition,
       LeavePosition, ClosePosition, ScaleOut, MoveStop, EndMonitor
  <2>7. CASE Environment
    BY <2>7 DEF Environment, FillEntry, ExitLegFills, ExpiryPasses, SetMode, Trip,
       DemoteAllToWatch, Rearm, AwaitThrows, OutOfIds, Restart
  <2>8. CASE EndScan \/ UNCHANGED vars
    BY <2>8 DEF EndScan, vars
  <2> QED
    BY <2>1, <2>2, <2>3, <2>4, <2>5, <2>6, <2>7, <2>8 DEF Next
<1>3. \A e \in audit' : e[1] \in Proposals /\ rows[e[1]].status \in Decided
  BY <1>1, <1>2 DEF OrderInv, AuditedIsDecided, Decided, TypeInv, TypeOK
<1> QED
  BY <1>3, Monotone DEF AuditedIsDecided, Decided

LEMMA OrderInvInvariant == Spec => [](TypeInv /\ OrderInv)
<1>1. Init => TypeInv /\ OrderInv
  <2> SUFFICES ASSUME Init PROVE TypeInv /\ OrderInv
    OBVIOUS
  <2>1. \A x \in Procs : ProcInv(x)
    BY DEF Init, Idle, ProcInv, RowPcs, AuditPcs, SweepPcs
  <2>2. \A b \in Brackets : BracketInv(b)
    BY DEF Init, NoBracket, BracketInv
  <2>3. ExecutedIsBacked /\ AuditedIsDecided
    BY DEF Init, NoRow, ExecutedIsBacked, AuditedIsDecided
  <2> QED
    BY <2>1, <2>2, <2>3, TypeInit DEF OrderInv
<1>2. TypeInv /\ OrderInv /\ [Next]_vars => (TypeInv /\ OrderInv)'
  BY TypeStep, ProcInvStep, BracketInvStep, BackedStep, AuditedStep DEF OrderInv
<1> QED
  BY <1>1, <1>2, PTL DEF Spec

\* A row recorded as executed stands for an order of that size by that decider.
THEOREM ExecutedBacked == Spec => []ExecutedIsBacked
<1>1. OrderInv => ExecutedIsBacked
  BY DEF OrderInv
<1> QED
  BY <1>1, OrderInvInvariant, PTL

\* No order is ever larger than what the risk manager sized for its proposal.
THEOREM SizeBounded == Spec => []SizeOnlyReduced
<1>1. TypeInv /\ OrderInv => SizeOnlyReduced
  BY DEF OrderInv, BracketInv, SizeOnlyReduced
<1> QED
  BY <1>1, OrderInvInvariant, PTL

\* The audit trail never runs ahead of the proposals table.
THEOREM AuditSound == Spec => []AuditedIsDecided
<1>1. OrderInv => AuditedIsDecided
  BY DEF OrderInv
<1> QED
  BY <1>1, OrderInvInvariant, PTL

-----------------------------------------------------------------------------
(* The kill switch: what may still slip through after a trip.              *)

\* x is past its risk check with an order nobody asked for.
Entering(x) == procs[x].pc \in {"persist", "place"} /\ procs[x].by = "auto"

\* A process that placed since the trip has no second order on its way.
StragglerInv ==
  /\ StragglersBounded
  /\ \A x \in Procs : Active /\ late[x] # {} => ~Entering(x)

\* With the switch on, no process comes to have an order on its way.
LEMMA NoNewEntry ==
  ASSUME TypeInv, [Next]_vars, Active, NEW y \in Procs, Entering(y)'
  PROVE  Entering(y)
<1>1. procs \in [Procs -> Proc] /\ procs[y] \in Proc
  BY DEF TypeInv, TypeOK
<1>2. procs'[y] = procs[y] => Entering(y)
  BY DEF Entering
<1>3. procs'[y].pc \in {"persist", "place"} /\ procs'[y].by = "auto"
  BY DEF Entering
<1>4. procs'[y] # Idle /\ procs'[y] # SignalDone(y)
  <2>1. Idle.pc = "idle" /\ SignalDone(y).pc \in {"idle", "scan"}
    BY DEF Idle, SignalDone
  <2> QED
    BY <1>3, <2>1
<1>5. ASSUME NEW st, Become(y, st) PROVE procs'[y] = st
  BY <1>1, <1>5 DEF Become
<1>e. ASSUME NEW x \in Procs, NEW st, Become(x, st), y # x PROVE Entering(y)
  BY <1>1, <1>2, <1>e DEF Become
<1>6. ASSUME NEW x \in Procs, ScanStep(x) PROVE Entering(y)
  <2>1. CASE y # x
    BY <1>e, <1>6, <2>1 DEF ScanStep, StartScan, ReadPositions, RiskAndModeGate, Gate,
       PersistProposal
  <2>2. ASSUME NEW s \in Strategies, StartScan(y, s) PROVE FALSE
    BY <1>3, <1>5, <2>2 DEF StartScan, Idle
  <2>3. ASSUME NEW d \in Drafts, ReadPositions(y, d) PROVE FALSE
    BY <1>1, <1>3, <1>5, <2>3 DEF ReadPositions, Proc
  <2>4. CASE RiskAndModeGate(y)
    <3>1. Verdict(procs[y].draft, Equity, procs[y].seen, Active) = "kill_switch_active"
      BY DEF Verdict
    <3> QED
      BY <1>4, <1>5, <2>4, <3>1 DEF RiskAndModeGate, Gate
  <2>5. CASE PersistProposal(y)
    <3> DEFINE p == CHOOSE q \in Proposals : rows[q].status = "none"
    <3>1. procs'[y] = [procs[y] EXCEPT !.pc = "place", !.p = p]
      BY <1>4, <1>5, <2>5 DEF PersistProposal
    <3> HIDE DEF p
    <3>2. procs[y].by = "auto" /\ procs[y].pc = "persist"
      BY <1>1, <1>3, <2>5, <3>1 DEF PersistProposal, At, Proc
    <3> QED
      BY <3>2 DEF Entering
  <2> QED
    BY <1>6, <2>1, <2>2, <2>3, <2>4, <2>5 DEF ScanStep
<1>7. ASSUME NEW x \in Procs, OrderStep(x) PROVE Entering(y)
  <2>1. CASE y # x
    BY <1>e, <1>7, <2>1 DEF OrderStep, PlaceBracket, MarkExecuted, AuditExecution
  <2>2. CASE PlaceBracket(y)
    BY <1>1, <1>3, <1>5, <2>2 DEF PlaceBracket, Proc
  <2>3. CASE MarkExecuted(y)
    BY <1>1, <1>3, <1>5, <2>3 DEF MarkExecuted, Proc
  <2>4. CASE AuditExecution(y)
    BY <1>4, <1>5, <2>4 DEF AuditExecution
  <2> QED
    BY <1>7, <2>1, <2>2, <2>3, <2>4 DEF OrderStep
<1>8. ASSUME NEW x \in Requests, DecisionStep(x) PROVE Entering(y)
  <2>1. x \in Procs
    BY DEF Procs
  <2>2. CASE y # x
    BY <1>e, <1>8, <2>1, <2>2 DEF DecisionStep, Approve, Reject, RejectRow, AuditRejection
  <2>3. ASSUME NEW p \in Proposals, Reject(y, p) PROVE FALSE
    BY <1>3, <1>5, <2>3 DEF Reject, Idle
  <2>4. ASSUME NEW p \in Proposals, NEW q, Approve(y, p, q) PROVE FALSE
    BY <1>3, <1>5, <2>4 DEF Approve, Idle
  <2>5. ASSUME RejectRow(y) PROVE FALSE
    BY <1>1, <1>3, <1>5, <2>5 DEF RejectRow, Proc
  <2>6. ASSUME AuditRejection(y) PROVE FALSE
    BY <1>4, <1>5, <2>6 DEF AuditRejection
  <2> QED
    BY <1>8, <2>2, <2>3, <2>4, <2>5, <2>6 DEF DecisionStep
<1>9. CASE SweepStep
  <2>1. Worker \in Procs
    BY DEF Procs
  <2>2. CASE y # Worker
    BY <1>e, <1>9, <2>1, <2>2 DEF SweepStep, StartSweep, ExpireRow, AuditExpiry
  <2>3. ASSUME y = Worker, StartSweep PROVE FALSE
    BY <1>3, <1>5, <2>3 DEF StartSweep, Idle
  <2>4. ASSUME y = Worker, NEW p \in Proposals, ExpireRow(p) PROVE FALSE
    BY <1>1, <1>3, <1>5, <2>4 DEF ExpireRow, Proc
  <2>5. ASSUME y = Worker, AuditExpiry PROVE FALSE
    BY <1>1, <1>3, <1>4, <1>5, <2>5 DEF AuditExpiry, Proc
  <2> QED
    BY <1>9, <2>2, <2>3, <2>4, <2>5 DEF SweepStep
<1>10. CASE MonitorStep
  <2>1. Worker \in Procs
    BY DEF Procs
  <2>2. CASE y # Worker
    BY <1>e, <1>10, <2>1, <2>2 DEF MonitorStep, StartMonitor, ReconcileTrade,
       ReadOwnPositions, ManagePosition, LeavePosition, ClosePosition, ScaleOut, MoveStop,
       Managed, EndMonitor
  <2>3. ASSUME y = Worker, NEW s \in Strategies, StartMonitor(s) PROVE FALSE
    BY <1>3, <1>5, <2>3 DEF StartMonitor, Idle
  <2>4. ASSUME y = Worker, NEW b \in Brackets, ReconcileTrade(b) PROVE FALSE
    BY <1>1, <1>3, <1>5, <2>4 DEF ReconcileTrade, At, Proc
  <2>5. ASSUME y = Worker, ReadOwnPositions PROVE FALSE
    BY <1>1, <1>3, <1>5, <2>5 DEF ReadOwnPositions, Proc
  <2>6. ASSUME y = Worker, NEW pos \in procs[Worker].seen, ManagePosition(pos) PROVE FALSE
    <3>1. procs'[y] = [procs[y] EXCEPT !.seen = @ \ {pos}]
      BY <1>4, <1>5, <2>6 DEF ManagePosition, LeavePosition, ClosePosition, ScaleOut, MoveStop,
         Managed
    <3>2. procs[y].pc = "manage"
      BY <2>6 DEF ManagePosition, At
    <3> QED
      BY <1>1, <1>3, <3>1, <3>2 DEF Proc
  <2>7. ASSUME y = Worker, EndMonitor PROVE FALSE
    BY <1>4, <1>5, <2>7 DEF EndMonitor
  <2> QED
    BY <1>10, <2>2, <2>3, <2>4, <2>5, <2>6, <2>7 DEF MonitorStep
<1>11. CASE Environment
  <2>1. procs'[y] = procs[y] \/ procs'[y] = Idle
    BY <1>1, <1>11 DEF Environment, FillEntry, ExitLegFills, ExpiryPasses, SetMode, Trip,
       DemoteAllToWatch, Rearm, AwaitThrows, OutOfIds, Restart, Become
  <2> QED
    BY <1>2, <1>4, <2>1
<1>12. CASE EndScan \/ UNCHANGED vars
  <2>1. procs'[y] = procs[y] \/ procs'[y] = Idle
    BY <1>1, <1>12 DEF EndScan, vars, Become
  <2> QED
    BY <1>2, <1>4, <2>1
<1> QED
  BY <1>6, <1>7, <1>8, <1>9, <1>10, <1>11, <1>12 DEF Next

\* The history grows only by a placement under the switch, which uses up the
\* one entry the process had on its way; a trip starts it anew.
LEMMA StragglerStep ==
  ASSUME TypeInv, StragglerInv, [Next]_vars, NEW y \in Procs
  PROVE  /\ \A b, c \in late'[y] : b = c
         /\ Active' /\ late'[y] # {} => ~Entering(y)'
<1>1. late \in [Procs -> SUBSET Brackets] /\ procs \in [Procs -> Proc] /\ procs[y] \in Proc
  BY DEF TypeInv, TypeOK
<1>2. CASE late' = late /\ (Active' => Active)
  BY <1>2, NoNewEntry DEF StragglerInv, StragglersBounded
<1>3. ASSUME NEW x \in Procs, PlaceBracket(x)
      PROVE  /\ \A b, c \in late'[y] : b = c
             /\ Active' /\ late'[y] # {} => ~Entering(y)'
  <2>1. Active' = Active
    BY <1>3 DEF PlaceBracket, Active
  <2>2. CASE y # x
    <3>1. late'[y] = late[y]
      BY <1>1, <1>3, <2>2 DEF PlaceBracket
    <3> QED
      BY <2>1, <3>1, NoNewEntry DEF StragglerInv, StragglersBounded
  <2>3. CASE y = x
    <3> DEFINE new == CHOOSE c \in Brackets : c \in Free
    <3>1. procs'[y].pc = "mark"
      BY <1>1, <1>3, <2>3 DEF PlaceBracket, Become, Proc
    <3>2. ~Entering(y)'
      BY <3>1 DEF Entering
    <3>3. late' = IF Active /\ procs[y].by = "auto"
                    THEN [late EXCEPT ![y] = @ \union {new}] ELSE late
      BY <1>3, <2>3 DEF PlaceBracket
    <3> HIDE DEF new
    <3>4. procs[y].pc = "place"
      BY <1>3, <2>3 DEF PlaceBracket, At
    <3>5. CASE Active /\ procs[y].by = "auto"
      <4>1. late[y] = {}
        BY <3>4, <3>5 DEF StragglerInv, Entering
      <4>2. late'[y] = {new}
        BY <1>1, <3>3, <3>5, <4>1
      <4> QED
        BY <3>2, <4>2
    <3>6. CASE ~(Active /\ procs[y].by = "auto")
      BY <3>2, <3>3, <3>6 DEF StragglerInv, StragglersBounded
    <3> QED
      BY <3>5, <3>6
  <2> QED
    BY <2>2, <2>3
<1>4. CASE Trip
  BY <1>4 DEF Trip
<1>5. ASSUME NEW x \in Procs, ScanStep(x) PROVE late' = late /\ Active' = Active
  BY <1>5 DEF ScanStep, StartScan, ReadPositions, RiskAndModeGate, Gate, PersistProposal, Active
<1>6. ASSUME NEW x \in Procs, MarkExecuted(x) \/ AuditExecution(x)
      PROVE  late' = late /\ Active' = Active
  BY <1>6 DEF MarkExecuted, AuditExecution, Active
<1>7. ASSUME NEW x \in Requests, DecisionStep(x) PROVE late' = late /\ Active' = Active
  BY <1>7 DEF DecisionStep, Approve, Reject, RejectRow, AuditRejection, Active
<1>8. ASSUME SweepStep PROVE late' = late /\ Active' = Active
  BY <1>8 DEF SweepStep, StartSweep, ExpireRow, AuditExpiry, Active
<1>9. ASSUME MonitorStep PROVE late' = late /\ Active' = Active
  BY <1>9 DEF MonitorStep, StartMonitor, ReconcileTrade, ReadOwnPositions, ManagePosition,
     LeavePosition, ClosePosition, ScaleOut, MoveStop, EndMonitor, Active
<1>10. ASSUME Environment, ~Trip PROVE late' = late /\ (Active' => Active)
  BY <1>10 DEF Environment, FillEntry, ExitLegFills, ExpiryPasses, SetMode, DemoteAllToWatch,
     Rearm, AwaitThrows, OutOfIds, Restart, Active
<1>11. ASSUME EndScan \/ UNCHANGED vars PROVE late' = late /\ Active' = Active
  BY <1>11 DEF EndScan, vars, Active
<1> QED
  BY <1>2, <1>3, <1>4, <1>5, <1>6, <1>7, <1>8, <1>9, <1>10, <1>11 DEF Next, OrderStep

\* After a trip each process places at most the one unasked order whose risk
\* check it had behind it.
THEOREM StragglersLimited == Spec => []StragglersBounded
<1>1. Init => StragglerInv
  BY DEF Init, StragglerInv, StragglersBounded
<1>2. TypeInv /\ StragglerInv /\ [Next]_vars => StragglerInv'
  BY StragglerStep DEF StragglerInv, StragglersBounded
<1>3. Spec => []TypeInv
  BY TypeInit, TypeStep, PTL DEF Spec
<1>4. StragglerInv => StragglersBounded
  BY DEF StragglerInv
<1> QED
  BY <1>1, <1>2, <1>3, <1>4, PTL DEF Spec

-----------------------------------------------------------------------------
(* The book a worker builds alone: nobody else orders or decides, and the  *)
(* port has a mark, so an entry fills when it is placed.                   *)

OpenIds       == {b \in Brackets : brackets[b].st = "open"}
OnStrategy(s) == {b \in OpenIds : brackets[b].draft.strategy = s}
OnTicker(t)   == {b \in OpenIds : brackets[b].draft.ticker = t}

\* The caps, and place for one more bracket under them, counted in brackets.
Capped ==
  /\ Cardinality(OpenIds) <= GlobalLimits.total
  /\ \A s \in Strategies : Cardinality(OnStrategy(s)) <= GlobalLimits.perStrategy
  /\ \A t \in Tickers : Cardinality(OnTicker(t)) <= GlobalLimits.perTicker

Room(d) ==
  /\ Cardinality(OpenIds) < GlobalLimits.total
  /\ Cardinality(OnStrategy(d.strategy)) < GlobalLimits.perStrategy
  /\ Cardinality(OnTicker(d.ticker)) < GlobalLimits.perTicker

\* What the worker read before its risk check is still all there is, and past the check
\* there is room for the draft until it is placed.
WorkerRoom ==
  /\ At(Worker, "risk") => OpenPositions \subseteq procs[Worker].seen /\ IsFiniteSet(procs[Worker].seen)
  /\ At(Worker, "persist") \/ At(Worker, "place") =>
       \A d \in Drafts : procs[Worker].draft = d => Room(d)

NonePending == \A b \in Brackets : brackets[b].st # "pending"

BookInv == IsFiniteSet(OpenIds) /\ Capped /\ WorkerRoom /\ NonePending

\* A step that places nothing opens nothing and moves no position to another key.
Shrinks ==
  \A b \in Brackets : /\ brackets'[b].st = "open" =>
                           brackets[b].st = "open" /\ brackets'[b].draft = brackets[b].draft
                      /\ brackets'[b].st # "pending"

\* Of what stays open nothing changes.
Frozen == \A b \in Brackets : brackets'[b].st = "open" => brackets'[b] = brackets[b]

LEMMA CapTypes ==
  /\ GlobalLimits.total \in Nat /\ GlobalLimits.perStrategy \in Nat /\ GlobalLimits.perTicker \in Nat
  /\ \A s \in Strategies : /\ Limits(s).total \in Nat /\ Limits(s).total <= GlobalLimits.total
                           /\ Limits(s).perStrategy \in Nat
                           /\ Limits(s).perStrategy <= GlobalLimits.perStrategy
                           /\ Limits(s).perTicker \in Nat /\ Limits(s).perTicker <= GlobalLimits.perTicker
<1>1. GlobalLimits \in [LimitFields -> Nat] /\ \A s \in Strategies : Params[s] \in [LimitFields -> Nat]
  BY LimitsAssumption, PipelineAssumption
<1>2. \A s \in Strategies, f \in LimitFields :
        Limits(s)[f] \in Nat /\ Limits(s)[f] <= GlobalLimits[f]
  BY <1>1 DEF Limits
<1>3. {"total", "perStrategy", "perTicker"} \subseteq LimitFields
  BY DEF LimitFields
<1> QED BY <1>1, <1>2, <1>3

\* As many positions as brackets.
LEMMA SameCount ==
  ASSUME NEW S \in SUBSET Brackets, IsFiniteSet(S)
  PROVE  /\ IsFiniteSet({PositionOf(b) : b \in S})
         /\ Cardinality({PositionOf(b) : b \in S}) = Cardinality(S)
<1> DEFINE P == {PositionOf(b) : b \in S}
           f == [b \in S |-> PositionOf(b)]
<1>1. \A b \in S : PositionOf(b).bracket = b
  BY DEF PositionOf
<1>2. f \in Injection(S, P)
  BY <1>1 DEF Injection, IsInjective
<1>3. f \in Surjection(S, P)
  BY DEF Surjection
<1>4. ExistsBijection(S, P)
  BY <1>2, <1>3 DEF ExistsBijection, Bijection
<1> QED BY <1>4, FS_Bijection

LEMMA Counts ==
  ASSUME IsFiniteSet(OpenIds)
  PROVE  /\ IsFiniteSet(OpenPositions) /\ Cardinality(OpenPositions) = Cardinality(OpenIds)
         /\ \A s : /\ IsFiniteSet(OnStrategy(s))
                   /\ Cardinality(OfStrategy(s, OpenPositions)) = Cardinality(OnStrategy(s))
         /\ \A t : /\ IsFiniteSet(OnTicker(t))
                   /\ Cardinality(OfTicker(t, OpenPositions)) = Cardinality(OnTicker(t))
<1>1. OpenPositions = {PositionOf(b) : b \in OpenIds} /\ OpenIds \subseteq Brackets
  BY DEF OpenPositions, OpenIds
<1>2. ASSUME NEW s PROVE /\ IsFiniteSet(OnStrategy(s))
                         /\ Cardinality(OfStrategy(s, OpenPositions)) = Cardinality(OnStrategy(s))
  <2>1. OnStrategy(s) \subseteq OpenIds
    BY DEF OnStrategy
  <2>2. OfStrategy(s, OpenPositions) = {PositionOf(b) : b \in OnStrategy(s)}
    BY <1>1 DEF OfStrategy, OnStrategy, PositionOf
  <2> QED BY <1>1, <2>1, <2>2, FS_Subset, SameCount
<1>3. ASSUME NEW t PROVE /\ IsFiniteSet(OnTicker(t))
                         /\ Cardinality(OfTicker(t, OpenPositions)) = Cardinality(OnTicker(t))
  <2>1. OnTicker(t) \subseteq OpenIds
    BY DEF OnTicker
  <2>2. OfTicker(t, OpenPositions) = {PositionOf(b) : b \in OnTicker(t)}
    BY <1>1 DEF OfTicker, OnTicker, PositionOf
  <2> QED BY <1>1, <2>1, <2>2, FS_Subset, SameCount
<1> QED BY <1>1, <1>2, <1>3, SameCount

\* The caps and the room under them outlast a step that opens nothing.
LEMMA CapsShrink ==
  ASSUME IsFiniteSet(OpenIds), Shrinks
  PROVE  /\ IsFiniteSet(OpenIds)' /\ NonePending'
         /\ Capped => Capped'
         /\ \A d : Room(d) => Room(d)'
<1>1. /\ OpenIds' \subseteq OpenIds
      /\ \A s : OnStrategy(s)' \subseteq OnStrategy(s)
      /\ \A t : OnTicker(t)' \subseteq OnTicker(t)
  BY DEF Shrinks, OpenIds, OnStrategy, OnTicker
<1>2. IsFiniteSet(OpenIds') /\ Cardinality(OpenIds') <= Cardinality(OpenIds)
      /\ Cardinality(OpenIds) \in Nat /\ Cardinality(OpenIds') \in Nat
  BY <1>1, FS_Subset, FS_CardinalityType
<1>3. ASSUME NEW s
      PROVE  /\ Cardinality(OnStrategy(s)') <= Cardinality(OnStrategy(s))
             /\ Cardinality(OnStrategy(s)) \in Nat /\ Cardinality(OnStrategy(s)') \in Nat
  BY <1>1, Counts, FS_Subset, FS_CardinalityType
<1>4. ASSUME NEW t
      PROVE  /\ Cardinality(OnTicker(t)') <= Cardinality(OnTicker(t))
             /\ Cardinality(OnTicker(t)) \in Nat /\ Cardinality(OnTicker(t)') \in Nat
  BY <1>1, Counts, FS_Subset, FS_CardinalityType
<1>5. NonePending'
  BY DEF Shrinks, NonePending
<1>6. Capped => Capped'
  BY <1>2, <1>3, <1>4, CapTypes DEF Capped
<1>7. ASSUME NEW d, Room(d) PROVE Room(d)'
  BY <1>2, <1>3, <1>4, <1>7, CapTypes DEF Room
<1> QED BY <1>2, <1>5, <1>6, <1>7

\* The gate finds room: it counts every position there is, under limits that are at most
\* the global ones.
LEMMA ApprovedHasRoom ==
  ASSUME TypeInv, IsFiniteSet(OpenIds), NEW d \in Drafts, NEW seen, NEW killed,
         OpenPositions \subseteq seen, IsFiniteSet(seen),
         Verdict(d, Equity, seen, killed) = "approved"
  PROVE  Room(d)
<1>1. d.strategy \in Strategies
  BY DraftsTyped DEF Draft
<1>2. /\ ~(Cardinality(seen) >= Limits(d.strategy).total)
      /\ ~(Cardinality(OfStrategy(d.strategy, seen)) >= Limits(d.strategy).perStrategy)
      /\ ~(Cardinality(OfTicker(d.ticker, seen)) >= Limits(d.strategy).perTicker)
  BY DEF Verdict
<1>3. /\ OfStrategy(d.strategy, seen) \subseteq seen /\ OfTicker(d.ticker, seen) \subseteq seen
      /\ OfStrategy(d.strategy, OpenPositions) \subseteq OfStrategy(d.strategy, seen)
      /\ OfTicker(d.ticker, OpenPositions) \subseteq OfTicker(d.ticker, seen)
  BY DEF OfStrategy, OfTicker
<1>4. IsFiniteSet(OfStrategy(d.strategy, seen)) /\ IsFiniteSet(OfTicker(d.ticker, seen))
  BY <1>3, FS_Subset
<1>5. /\ Cardinality(OpenPositions) <= Cardinality(seen)
      /\ Cardinality(OfStrategy(d.strategy, OpenPositions)) <= Cardinality(OfStrategy(d.strategy, seen))
      /\ Cardinality(OfTicker(d.ticker, OpenPositions)) <= Cardinality(OfTicker(d.ticker, seen))
  BY <1>3, <1>4, FS_Subset
<1>6. /\ Cardinality(seen) \in Nat /\ Cardinality(OfStrategy(d.strategy, seen)) \in Nat
      /\ Cardinality(OfTicker(d.ticker, seen)) \in Nat
  BY <1>4, FS_CardinalityType
<1>7. /\ Cardinality(OpenIds) \in Nat /\ Cardinality(OnStrategy(d.strategy)) \in Nat
      /\ Cardinality(OnTicker(d.ticker)) \in Nat
  BY Counts, FS_CardinalityType
<1>8. /\ Cardinality(OpenPositions) = Cardinality(OpenIds)
      /\ Cardinality(OfStrategy(d.strategy, OpenPositions)) = Cardinality(OnStrategy(d.strategy))
      /\ Cardinality(OfTicker(d.ticker, OpenPositions)) = Cardinality(OnTicker(d.ticker))
  BY Counts
<1> QED BY <1>1, <1>2, <1>5, <1>6, <1>7, <1>8, CapTypes DEF Room

LEMMA ManageShrinks ==
  ASSUME TypeInv, NonePending, NEW pos \in procs[Worker].seen, ManagePosition(pos)
  PROVE  Shrinks
<1> SUFFICES ASSUME NEW b \in Brackets
             PROVE  /\ brackets'[b].st = "open" =>
                         brackets[b].st = "open" /\ brackets'[b].draft = brackets[b].draft
                    /\ brackets'[b].st # "pending"
  BY DEF Shrinks
<1>1. brackets \in [Brackets -> Bracket] /\ brackets[b] \in Bracket /\ brackets[b].st # "pending"
  BY DEF TypeInv, TypeOK, NonePending
<1>2. CASE LeavePosition(pos)
  BY <1>1, <1>2 DEF LeavePosition
<1>3. CASE ClosePosition(pos)
  BY <1>1, <1>3 DEF ClosePosition, Bracket
<1>4. ASSUME NEW n \in 1..(pos.qty - 1), ScaleOut(pos, n)
      PROVE  /\ brackets'[b].st = brackets[b].st /\ brackets'[b].draft = brackets[b].draft
  BY <1>1, <1>4 DEF ScaleOut, Bracket
<1>5. CASE MoveStop(pos)
  BY <1>1, <1>5 DEF MoveStop, Bracket
<1> QED BY <1>1, <1>2, <1>3, <1>4, <1>5 DEF ManagePosition

LEMMA StepShrinks ==
  ASSUME TypeInv, NonePending, Requests = {}, [Next]_vars, ~PlaceBracket(Worker)
  PROVE  Shrinks
<1>1. brackets \in [Brackets -> Bracket]
  BY DEF TypeInv, TypeOK
<1>2. ASSUME brackets' = brackets PROVE Shrinks
  BY <1>2 DEF Shrinks, NonePending
<1>3. ASSUME NEW x \in Procs, ScanStep(x) PROVE Shrinks
  BY <1>2, <1>3 DEF ScanStep, StartScan, ReadPositions, RiskAndModeGate, Gate, PersistProposal
<1>4. ASSUME NEW x \in Procs, OrderStep(x) PROVE Shrinks
  <2>1. x = Worker
    BY DEF Procs
  <2> QED BY <1>2, <1>4, <2>1 DEF OrderStep, MarkExecuted, AuditExecution
<1>5. CASE SweepStep
  BY <1>2, <1>5 DEF SweepStep, StartSweep, ExpireRow, AuditExpiry
<1>6. CASE MonitorStep
  BY <1>2, <1>6, ManageShrinks
     DEF MonitorStep, StartMonitor, ReconcileTrade, ReadOwnPositions, EndMonitor
<1>7. CASE Environment
  <2>1. ASSUME NEW b \in Brackets, FillEntry(b) PROVE FALSE
    BY <2>1 DEF FillEntry, NonePending
  <2>2. ASSUME NEW b \in Brackets, ExitLegFills(b) PROVE Shrinks
    BY <1>1, <2>2 DEF ExitLegFills, Shrinks, NonePending, Bracket
  <2>3. CASE Restart
    BY <1>1, <2>3 DEF Restart, Shrinks, NonePending, Bracket
  <2> QED
    BY <1>2, <1>7, <2>1, <2>2, <2>3 DEF Environment, ExpiryPasses, SetMode, Trip, DemoteAllToWatch,
       Rearm, AwaitThrows, OutOfIds
<1>8. CASE EndScan \/ UNCHANGED vars
  BY <1>2, <1>8 DEF EndScan, vars
<1> QED
  BY <1>3, <1>4, <1>5, <1>6, <1>7, <1>8 DEF Next

\* What a worker has read, or was let through with, dates from its last step; nothing that
\* goes on beside it changes a position that stays open.
LEMMA WorkerWaits ==
  ASSUME TypeInv, NonePending, Requests = {}, [Next]_vars,
         procs'[Worker].pc \in {"risk", "persist", "place"}
  PROVE  \/ procs'[Worker] = procs[Worker] /\ Frozen
         \/ \E d \in Drafts : ReadPositions(Worker, d)
         \/ RiskAndModeGate(Worker) \/ PersistProposal(Worker)
<1>1. /\ procs \in [Procs -> Proc] /\ Worker \in Procs /\ procs[Worker] \in Proc
      /\ brackets \in [Brackets -> Bracket]
  BY DEF TypeInv, TypeOK, Procs
<1>2. procs'[Worker] # Idle
  BY DEF Idle
<1>3. ASSUME NEW st, Become(Worker, st) PROVE procs'[Worker] = st
  BY <1>1, <1>3 DEF Become
<1>4. ASSUME NEW x \in Procs, ScanStep(x)
      PROVE  (\E d \in Drafts : ReadPositions(Worker, d)) \/ RiskAndModeGate(Worker) \/ PersistProposal(Worker)
  <2>1. x = Worker
    BY DEF Procs
  <2>2. ASSUME NEW s \in Strategies, StartScan(Worker, s) PROVE FALSE
    BY <1>3, <2>2 DEF StartScan, Idle
  <2> QED BY <1>4, <2>1, <2>2 DEF ScanStep
<1>5. ASSUME NEW x \in Procs, OrderStep(x) PROVE FALSE
  <2>1. x = Worker
    BY DEF Procs
  <2>2. ~PlaceBracket(Worker) /\ ~MarkExecuted(Worker)
    BY <1>1, <1>3 DEF PlaceBracket, MarkExecuted, Proc
  <2>3. ~AuditExecution(Worker)
    <3>1. SignalDone(Worker).pc = "scan"
      BY DEF SignalDone, Idle
    <3> QED BY <1>2, <1>3, <3>1 DEF AuditExecution
  <2> QED BY <1>5, <2>1, <2>2, <2>3 DEF OrderStep
<1>6. CASE SweepStep
  <2>1. ~StartSweep
    BY <1>3 DEF StartSweep, Idle
  <2>2. ASSUME NEW p \in Proposals, ExpireRow(p) PROVE FALSE
    BY <1>1, <1>3, <2>2 DEF ExpireRow, Proc
  <2>3. ~AuditExpiry
    BY <1>1, <1>2, <1>3 DEF AuditExpiry, Proc
  <2> QED BY <1>6, <2>1, <2>2, <2>3 DEF SweepStep
<1>7. CASE MonitorStep
  <2>1. ASSUME NEW s \in Strategies, StartMonitor(s) PROVE FALSE
    BY <1>3, <2>1 DEF StartMonitor, Idle
  <2>2. ASSUME NEW b \in Brackets, ReconcileTrade(b) PROVE FALSE
    BY <1>1, <1>3, <2>2 DEF ReconcileTrade, At, Proc
  <2>3. ~ReadOwnPositions
    BY <1>1, <1>3 DEF ReadOwnPositions, Proc
  <2>4. ASSUME NEW pos \in procs[Worker].seen, ManagePosition(pos) PROVE FALSE
    <3>1. procs'[Worker] = [procs[Worker] EXCEPT !.seen = @ \ {pos}]
      BY <1>2, <1>3, <2>4 DEF ManagePosition, LeavePosition, ClosePosition, ScaleOut, MoveStop, Managed
    <3>2. procs[Worker].pc = "manage"
      BY <2>4 DEF ManagePosition, At
    <3> QED BY <1>1, <3>1, <3>2 DEF Proc
  <2>5. ~EndMonitor
    BY <1>2, <1>3 DEF EndMonitor
  <2> QED BY <1>7, <2>1, <2>2, <2>3, <2>4, <2>5 DEF MonitorStep
<1>8. CASE Environment
  <2>1. procs'[Worker] = procs[Worker]
    BY <1>1, <1>2, <1>8 DEF Environment, FillEntry, ExitLegFills, ExpiryPasses, SetMode, Trip,
       DemoteAllToWatch, Rearm, AwaitThrows, OutOfIds, Restart, Become, Procs
  <2>2. ASSUME brackets' = brackets PROVE Frozen
    BY <2>2 DEF Frozen
  <2>3. ASSUME NEW b \in Brackets, FillEntry(b) PROVE FALSE
    BY <2>3 DEF FillEntry, NonePending
  <2>4. ASSUME NEW b \in Brackets, ExitLegFills(b) PROVE Frozen
    BY <1>1, <2>4 DEF ExitLegFills, Frozen, Bracket
  <2>5. ~Restart
    BY <1>1, <1>2 DEF Restart
  <2> QED
    BY <1>8, <2>1, <2>2, <2>3, <2>4, <2>5 DEF Environment, ExpiryPasses, SetMode, Trip,
       DemoteAllToWatch, Rearm, AwaitThrows, OutOfIds
<1>9. CASE EndScan
  BY <1>2, <1>3, <1>9 DEF EndScan
<1>10. CASE UNCHANGED vars
  BY <1>10 DEF vars, Frozen
<1> QED
  BY <1>4, <1>5, <1>6, <1>7, <1>8, <1>9, <1>10 DEF Next

LEMMA PlacedInRoom ==
  ASSUME TypeInv, BookInv, Quoted, PlaceBracket(Worker)
  PROVE  BookInv'
<1> DEFINE new == CHOOSE c \in Brackets : c \in Free
           d   == procs[Worker].draft
<1>1. new \in Brackets /\ brackets[new].st = "none"
  BY DEF PlaceBracket, Free
<1>2. PICK k : k.st = "open" /\ k.draft = d /\ brackets' = [brackets EXCEPT ![new] = k]
  <2>1. PICK slip \in Slips : brackets' = [brackets EXCEPT ![new] =
          [st |-> "open", p |-> procs[Worker].p, draft |-> d, qty |-> procs[Worker].qty,
           placed |-> procs[Worker].qty, by |-> procs[Worker].by,
           entry |-> IF d.side = "long" THEN d.entry + slip ELSE d.entry - slip, stop |-> d.stop]]
    BY DEF PlaceBracket
  <2> DEFINE k == [st |-> "open", p |-> procs[Worker].p, draft |-> d, qty |-> procs[Worker].qty,
                   placed |-> procs[Worker].qty, by |-> procs[Worker].by,
                   entry |-> IF d.side = "long" THEN d.entry + slip ELSE d.entry - slip, stop |-> d.stop]
  <2>2. k.st = "open" /\ k.draft = d /\ brackets' = [brackets EXCEPT ![new] = k]
    BY <2>1
  <2> QED BY <2>2
<1>3. /\ brackets \in [Brackets -> Bracket] /\ procs \in [Procs -> Proc] /\ Worker \in Procs
      /\ procs[Worker] \in Proc
  BY DEF TypeInv, TypeOK, Procs
<1>4. procs'[Worker] = [procs[Worker] EXCEPT !.pc = "mark"] /\ Room(d)
  <2>1. d \in Drafts
    BY DEF PlaceBracket, At, TypeInv, GoodProc, OrderPcs, Procs
  <2> QED BY <1>3, <2>1 DEF PlaceBracket, Become, BookInv, WorkerRoom
<1> HIDE DEF new, d
<1>5. /\ OpenIds' = OpenIds \union {new} /\ new \notin OpenIds
      /\ \A s : OnStrategy(s)' = IF s = d.strategy THEN OnStrategy(s) \union {new} ELSE OnStrategy(s)
      /\ \A t : OnTicker(t)' = IF t = d.ticker THEN OnTicker(t) \union {new} ELSE OnTicker(t)
  BY <1>1, <1>2, <1>3 DEF OpenIds, OnStrategy, OnTicker
<1>6. IsFiniteSet(OpenIds') /\ Cardinality(OpenIds') = Cardinality(OpenIds) + 1
      /\ Cardinality(OpenIds) \in Nat
  BY <1>5, FS_AddElement, FS_CardinalityType DEF BookInv
<1>7. ASSUME NEW s \in Strategies PROVE Cardinality(OnStrategy(s)') <= GlobalLimits.perStrategy
  <2>1. IsFiniteSet(OnStrategy(s)) /\ Cardinality(OnStrategy(s)) \in Nat /\ new \notin OnStrategy(s)
    BY <1>5, Counts, FS_CardinalityType DEF BookInv, OnStrategy
  <2>2. Cardinality(OnStrategy(s) \union {new}) = Cardinality(OnStrategy(s)) + 1
    BY <2>1, FS_AddElement
  <2>3. CASE s = d.strategy
    <3>1. OnStrategy(s)' = OnStrategy(s) \union {new} /\ Cardinality(OnStrategy(s)) < GlobalLimits.perStrategy
      BY <1>4, <1>5, <2>3 DEF Room
    <3> QED BY <2>1, <2>2, <3>1, CapTypes
  <2>4. CASE s # d.strategy
    <3>1. OnStrategy(s)' = OnStrategy(s)
      BY <1>5, <2>4
    <3> QED BY <3>1 DEF BookInv, Capped
  <2> QED BY <2>3, <2>4
<1>8. ASSUME NEW t \in Tickers PROVE Cardinality(OnTicker(t)') <= GlobalLimits.perTicker
  <2>1. IsFiniteSet(OnTicker(t)) /\ Cardinality(OnTicker(t)) \in Nat /\ new \notin OnTicker(t)
    BY <1>5, Counts, FS_CardinalityType DEF BookInv, OnTicker
  <2>2. Cardinality(OnTicker(t) \union {new}) = Cardinality(OnTicker(t)) + 1
    BY <2>1, FS_AddElement
  <2>3. CASE t = d.ticker
    <3>1. OnTicker(t)' = OnTicker(t) \union {new} /\ Cardinality(OnTicker(t)) < GlobalLimits.perTicker
      BY <1>4, <1>5, <2>3 DEF Room
    <3> QED BY <2>1, <2>2, <3>1, CapTypes
  <2>4. CASE t # d.ticker
    <3>1. OnTicker(t)' = OnTicker(t)
      BY <1>5, <2>4
    <3> QED BY <3>1 DEF BookInv, Capped
  <2> QED BY <2>3, <2>4
<1>9. Capped'
  BY <1>4, <1>6, <1>7, <1>8, CapTypes DEF Capped, Room
<1>10. WorkerRoom'
  BY <1>3, <1>4 DEF WorkerRoom, At, Proc
<1>11. NonePending'
  BY <1>2, <1>3 DEF BookInv, NonePending
<1> QED BY <1>6, <1>9, <1>10, <1>11 DEF BookInv

LEMMA BookStep ==
  ASSUME TypeInv, BookInv, Requests = {}, Quoted, [Next]_vars
  PROVE  BookInv'
<1>1. CASE PlaceBracket(Worker)
  BY <1>1, PlacedInRoom
<1>2. CASE ~PlaceBracket(Worker)
  <2> DEFINE w == procs[Worker]
  <2>1. Shrinks /\ IsFiniteSet(OpenIds)
    BY <1>2, StepShrinks DEF BookInv
  <2>2. IsFiniteSet(OpenIds)' /\ NonePending' /\ Capped' /\ \A d : Room(d) => Room(d)'
    BY <2>1, CapsShrink DEF BookInv
  <2> SUFFICES WorkerRoom'
    BY <2>2 DEF BookInv
  <2>3. /\ procs \in [Procs -> GoodProc] /\ Worker \in Procs /\ w \in GoodProc /\ w \in Proc
    BY DEF TypeInv, GoodProc, Procs
  <2>4. ASSUME NEW st, Become(Worker, st) PROVE procs'[Worker] = st
    BY <2>3, <2>4 DEF Become
  <2>5. CASE procs'[Worker] = w /\ Frozen
    <3>1. OpenPositions' \subseteq OpenPositions
      BY <2>1, <2>5 DEF Frozen, Shrinks, OpenPositions, PositionOf
    <3> QED BY <2>2, <2>5, <3>1 DEF BookInv, WorkerRoom, At
  <2>6. ASSUME NEW d \in Drafts, ReadPositions(Worker, d) PROVE WorkerRoom'
    <3>1. procs'[Worker] = [w EXCEPT !.pc = "risk", !.draft = d, !.seen = OpenPositions]
      BY <2>4, <2>6 DEF ReadPositions
    <3>2. procs'[Worker].pc = "risk" /\ procs'[Worker].seen = OpenPositions
      BY <2>3, <3>1 DEF Proc
    <3>3. OpenPositions' = OpenPositions
      BY <2>6 DEF ReadPositions, OpenPositions, PositionOf
    <3> QED BY <2>1, <3>2, <3>3, Counts DEF WorkerRoom, At
  <2>7. CASE RiskAndModeGate(Worker)
    <3>1. CASE Verdict(w.draft, Equity, w.seen, Active) = "approved"
               /\ Become(Worker, [w EXCEPT !.pc = "persist", !.seen = {}, !.by = "auto",
                                           !.qty = SizeFor(w.draft, Equity)])
      <4>1. w.pc = "risk" /\ w.draft \in Drafts
        BY <2>3, <2>7 DEF RiskAndModeGate, Gate, At, GoodProc, OrderPcs
      <4>2. Room(w.draft)
        BY <2>1, <3>1, <4>1, ApprovedHasRoom DEF BookInv, WorkerRoom, At
      <4>3. procs'[Worker].pc = "persist" /\ procs'[Worker].draft = w.draft
        BY <2>3, <2>4, <3>1 DEF Proc
      <4> QED BY <2>2, <4>2, <4>3 DEF WorkerRoom, At
    <3>2. CASE Become(Worker, Idle) \/ Become(Worker, SignalDone(Worker))
      <4>1. procs'[Worker].pc \in {"idle", "scan"}
        <5>1. Idle.pc = "idle" /\ SignalDone(Worker).pc = "scan"
          BY DEF Idle, SignalDone
        <5> QED BY <2>4, <3>2, <5>1
      <4> QED BY <4>1 DEF WorkerRoom, At
    <3> QED BY <2>7, <3>1, <3>2 DEF RiskAndModeGate, Gate
  <2>8. CASE PersistProposal(Worker)
    <3> DEFINE p == CHOOSE q \in Proposals : rows[q].status = "none"
    <3>1. w.pc = "persist" /\ (procs'[Worker] = [w EXCEPT !.pc = "place", !.p = p]
                                \/ procs'[Worker] = SignalDone(Worker))
      BY <2>4, <2>8 DEF PersistProposal, At
    <3> HIDE DEF p
    <3>2. \/ procs'[Worker].pc = "place" /\ procs'[Worker].draft = w.draft
          \/ procs'[Worker].pc \in {"idle", "scan"}
      BY <2>3, <3>1 DEF Proc, SignalDone, Idle
    <3> QED BY <2>2, <3>1, <3>2 DEF BookInv, WorkerRoom, At
  <2>9. CASE procs'[Worker].pc \notin {"risk", "persist", "place"}
    BY <2>9 DEF WorkerRoom, At
  <2> QED BY <2>5, <2>6, <2>7, <2>8, <2>9, WorkerWaits DEF BookInv
<1> QED BY <1>1, <1>2

LEMMA BookBegins == Init => BookInv
<1> SUFFICES ASSUME Init PROVE BookInv
  OBVIOUS
<1>1. \A b \in Brackets : brackets[b].st = "none"
  BY DEF Init, NoBracket
<1>2. OpenIds = {} /\ \A s : OnStrategy(s) = {} /\ OnTicker(s) = {}
  BY <1>1 DEF OpenIds, OnStrategy, OnTicker
<1>3. procs[Worker].pc = "idle"
  BY DEF Init, Procs, Idle
<1>4. IsFiniteSet(OpenIds) /\ Capped
  BY <1>2, CapTypes, FS_EmptySet DEF Capped
<1>5. WorkerRoom /\ NonePending
  BY <1>1, <1>3 DEF WorkerRoom, At, NonePending
<1> QED BY <1>4, <1>5 DEF BookInv

\* A worker that nobody orders beside, at a port that fills entries when they are placed,
\* keeps the book inside the global caps, whatever the strategies' own rows say: its scan
\* counts every position there is, and nothing opens another before it places.
THEOREM CapsHold ==
  ASSUME Requests = {}, Quoted
  PROVE  Spec => []BookWithinCaps
<1>1. BookInv => BookWithinCaps
  BY Counts DEF BookInv, Capped, BookWithinCaps
<1>2. TypeInv /\ BookInv /\ [Next]_vars => BookInv'
  BY BookStep
<1> QED BY <1>1, <1>2, BookBegins, TypeInit, TypeStep, PTL DEF Spec

-----------------------------------------------------------------------------
(* The index that the exits of a position go by                            *)

\* It names brackets of their key that are open or were, as the closed trades and those a
\* reconciliation still goes through were.
WasOpened(b) == brackets[b].st \in {"open", "closed"}

IndexInv ==
  /\ \A k \in Keys : index[k] # None => WasOpened(index[k]) /\ KeyOf(brackets[index[k]].draft) = k
  /\ \A b \in closed : brackets[b].st = "closed"
  /\ At(Worker, "reconcile") => \A b \in procs[Worker].todo : b \in Brackets /\ brackets[b].st = "closed"

FirstInv == IndexInv /\ FirstEntryIsManaged

\* What was opened stays so, what is closed stays closed.
KeepsOpened ==
  \A b \in Brackets : /\ WasOpened(b) => WasOpened(b)' /\ brackets'[b].draft = brackets[b].draft
                      /\ brackets[b].st = "closed" => brackets'[b].st = "closed"

LEMMA BracketKeys ==
  ASSUME TypeInv
  PROVE  /\ index \in [Keys -> Brackets \union {None}] /\ closed \subseteq Brackets
         /\ \A b \in Brackets : brackets[b].st # "none" => KeyOf(brackets[b].draft) \in Keys
         /\ brackets \in [Brackets -> Bracket]
         /\ None \notin Brackets
<1>1. \A d \in Drafts : KeyOf(d) \in Keys
  BY DraftsTyped DEF KeyOf, Keys, Draft
<1> QED BY <1>1, PipelineAssumption DEF TypeInv, TypeOK, GoodBracket

\* Steps that leave the index alone, and open nothing.
LEMMA IndexKept ==
  ASSUME TypeInv, FirstInv, Shrinks, KeepsOpened, index' = index
  PROVE  /\ FirstEntryIsManaged'
         /\ \A k \in Keys : index'[k] # None =>
              brackets'[index'[k]].st \in {"open", "closed"} /\ KeyOf(brackets'[index'[k]].draft) = k
<1>1. ASSUME NEW b \in Brackets, brackets'[b].st = "open"
      PROVE  \/ index'[KeyOf(brackets'[b].draft)] = b
             \/ \E c \in Brackets : /\ brackets'[c].st = "closed"
                                    /\ KeyOf(brackets'[c].draft) = KeyOf(brackets'[b].draft)
  <2>1. brackets[b].st = "open" /\ brackets'[b].draft = brackets[b].draft
    BY <1>1 DEF Shrinks
  <2>2. CASE index[KeyOf(brackets[b].draft)] = b
    BY <2>1, <2>2
  <2>3. CASE index[KeyOf(brackets[b].draft)] # b
    <3>1. PICK c \in Brackets : /\ brackets[c].st = "closed"
                                /\ KeyOf(brackets[c].draft) = KeyOf(brackets[b].draft)
      BY <2>1, <2>3 DEF FirstInv, FirstEntryIsManaged
    <3>2. brackets'[c].st = "closed" /\ brackets'[c].draft = brackets[c].draft
      BY <3>1 DEF KeepsOpened, WasOpened
    <3>3. KeyOf(brackets'[c].draft) = KeyOf(brackets'[b].draft)
      BY <2>1, <3>1, <3>2 DEF KeyOf
    <3> QED BY <3>1, <3>2, <3>3
  <2> QED BY <2>2, <2>3
<1>2. ASSUME NEW k \in Keys, index'[k] # None
      PROVE  brackets'[index'[k]].st \in {"open", "closed"} /\ KeyOf(brackets'[index'[k]].draft) = k
  <2>1. PICK b \in Brackets : index[k] = b /\ index'[k] = b
    BY <1>2, BracketKeys
  <2>2. WasOpened(b) /\ KeyOf(brackets[b].draft) = k
    BY <1>2, <2>1 DEF FirstInv, IndexInv
  <2>3. WasOpened(b)' /\ KeyOf(brackets'[b].draft) = k
    BY <2>2 DEF KeepsOpened
  <2> QED BY <2>1, <2>3 DEF WasOpened
<1> QED BY <1>1, <1>2 DEF FirstEntryIsManaged

LEMMA ReconcileWaits ==
  ASSUME TypeInv, Requests = {}, [Next]_vars, procs'[Worker].pc = "reconcile"
  PROVE  \/ procs'[Worker] = procs[Worker]
         \/ \E s \in Strategies : StartMonitor(s)
         \/ \E b \in Brackets : ReconcileTrade(b)
<1>1. procs \in [Procs -> Proc] /\ Worker \in Procs /\ procs[Worker] \in Proc
  BY DEF TypeInv, TypeOK, Procs
<1>2. procs'[Worker] # Idle /\ procs'[Worker] # SignalDone(Worker)
  <2>1. Idle.pc = "idle" /\ SignalDone(Worker).pc = "scan"
    BY DEF Idle, SignalDone
  <2> QED BY <2>1
<1>3. ASSUME NEW st, Become(Worker, st) PROVE procs'[Worker] = st
  BY <1>1, <1>3 DEF Become
<1>4. ASSUME NEW x \in Procs, ScanStep(x) PROVE FALSE
  <2>1. x = Worker
    BY DEF Procs
  <2>2. ASSUME NEW s \in Strategies, StartScan(Worker, s) PROVE FALSE
    BY <1>3, <2>2 DEF StartScan, Idle
  <2>3. ASSUME NEW d \in Drafts, ReadPositions(Worker, d) PROVE FALSE
    BY <1>1, <1>3, <2>3 DEF ReadPositions, Proc
  <2>4. ~RiskAndModeGate(Worker)
    BY <1>1, <1>2, <1>3 DEF RiskAndModeGate, Gate, Proc
  <2>5. ~PersistProposal(Worker)
    BY <1>1, <1>2, <1>3 DEF PersistProposal, Proc
  <2> QED BY <1>4, <2>1, <2>2, <2>3, <2>4, <2>5 DEF ScanStep
<1>5. ASSUME NEW x \in Procs, OrderStep(x) PROVE FALSE
  <2>1. x = Worker
    BY DEF Procs
  <2>2. ~PlaceBracket(Worker) /\ ~MarkExecuted(Worker)
    BY <1>1, <1>3 DEF PlaceBracket, MarkExecuted, Proc
  <2>3. ~AuditExecution(Worker)
    BY <1>2, <1>3 DEF AuditExecution
  <2> QED BY <1>5, <2>1, <2>2, <2>3 DEF OrderStep
<1>6. CASE SweepStep
  <2>1. ~StartSweep
    BY <1>3 DEF StartSweep, Idle
  <2>2. ASSUME NEW p \in Proposals, ExpireRow(p) PROVE FALSE
    BY <1>1, <1>3, <2>2 DEF ExpireRow, Proc
  <2>3. ~AuditExpiry
    BY <1>1, <1>2, <1>3 DEF AuditExpiry, Proc
  <2> QED BY <1>6, <2>1, <2>2, <2>3 DEF SweepStep
<1>7. CASE MonitorStep
  <2>1. ~ReadOwnPositions
    BY <1>1, <1>3 DEF ReadOwnPositions, Proc
  <2>2. ASSUME NEW pos \in procs[Worker].seen, ManagePosition(pos) PROVE FALSE
    <3>1. procs'[Worker] = [procs[Worker] EXCEPT !.seen = @ \ {pos}]
      BY <1>2, <1>3, <2>2 DEF ManagePosition, LeavePosition, ClosePosition, ScaleOut, MoveStop, Managed
    <3>2. procs[Worker].pc = "manage"
      BY <2>2 DEF ManagePosition, At
    <3> QED BY <1>1, <3>1, <3>2 DEF Proc
  <2>3. ~EndMonitor
    BY <1>2, <1>3 DEF EndMonitor
  <2> QED BY <1>7, <2>1, <2>2, <2>3 DEF MonitorStep
<1>8. CASE Environment
  BY <1>1, <1>2, <1>8 DEF Environment, FillEntry, ExitLegFills, ExpiryPasses, SetMode, Trip,
     DemoteAllToWatch, Rearm, AwaitThrows, OutOfIds, Restart, Become, Procs
<1>9. CASE EndScan
  BY <1>2, <1>3, <1>9 DEF EndScan
<1>10. CASE UNCHANGED vars
  BY <1>10 DEF vars
<1> QED
  BY <1>4, <1>5, <1>6, <1>7, <1>8, <1>9, <1>10 DEF Next

LEMMA ManageKeepsOpened ==
  ASSUME TypeInv, NEW pos \in procs[Worker].seen, ManagePosition(pos)
  PROVE  KeepsOpened
<1> SUFFICES ASSUME NEW b \in Brackets
             PROVE  /\ WasOpened(b) => WasOpened(b)' /\ brackets'[b].draft = brackets[b].draft
                    /\ brackets[b].st = "closed" => brackets'[b].st = "closed"
  BY DEF KeepsOpened
<1>1. brackets \in [Brackets -> Bracket] /\ brackets[b] \in Bracket
  BY DEF TypeInv, TypeOK
<1>2. CASE LeavePosition(pos)
  BY <1>1, <1>2 DEF LeavePosition, WasOpened
<1>3. CASE ClosePosition(pos)
  BY <1>1, <1>3 DEF ClosePosition, WasOpened, Bracket
<1>4. ASSUME NEW n \in 1..(pos.qty - 1), ScaleOut(pos, n)
      PROVE  /\ brackets'[b].st = brackets[b].st /\ brackets'[b].draft = brackets[b].draft
  BY <1>1, <1>4 DEF ScaleOut, Bracket
<1>5. CASE MoveStop(pos)
  BY <1>1, <1>5 DEF MoveStop, WasOpened, Bracket
<1> QED BY <1>2, <1>3, <1>4, <1>5 DEF ManagePosition, WasOpened

LEMMA StepKeepsOpened ==
  ASSUME TypeInv, Requests = {}, [Next]_vars, ~Restart
  PROVE  KeepsOpened
<1>1. brackets \in [Brackets -> Bracket]
  BY DEF TypeInv, TypeOK
<1>2. ASSUME brackets' = brackets PROVE KeepsOpened
  BY <1>2 DEF KeepsOpened, WasOpened
<1>3. ASSUME NEW x \in Procs, ScanStep(x) PROVE KeepsOpened
  BY <1>2, <1>3 DEF ScanStep, StartScan, ReadPositions, RiskAndModeGate, Gate, PersistProposal
<1>4. ASSUME NEW x \in Procs, OrderStep(x) PROVE KeepsOpened
  <2>1. CASE PlaceBracket(x)
    <3> DEFINE new == CHOOSE c \in Brackets : c \in Free
    <3>1. new \in Brackets /\ brackets[new].st = "none"
      BY <2>1 DEF PlaceBracket, Free
    <3>2. \A b \in Brackets \ {new} : brackets'[b] = brackets[b]
      BY <1>1, <2>1 DEF PlaceBracket
    <3> HIDE DEF new
    <3> QED BY <3>1, <3>2 DEF KeepsOpened, WasOpened
  <2> QED BY <1>2, <1>4, <2>1 DEF OrderStep, MarkExecuted, AuditExecution
<1>5. CASE SweepStep
  BY <1>2, <1>5 DEF SweepStep, StartSweep, ExpireRow, AuditExpiry
<1>6. CASE MonitorStep
  BY <1>2, <1>6, ManageKeepsOpened
     DEF MonitorStep, StartMonitor, ReconcileTrade, ReadOwnPositions, EndMonitor
<1>7. CASE Environment
  <2>1. ASSUME NEW b \in Brackets, FillEntry(b) \/ ExitLegFills(b) PROVE KeepsOpened
    BY <1>1, <2>1 DEF FillEntry, ExitLegFills, KeepsOpened, WasOpened, Bracket
  <2> QED
    BY <1>2, <1>7, <2>1 DEF Environment, ExpiryPasses, SetMode, Trip, DemoteAllToWatch,
       Rearm, AwaitThrows, OutOfIds
<1>8. CASE EndScan \/ UNCHANGED vars
  BY <1>2, <1>8 DEF EndScan, vars
<1> QED
  BY <1>3, <1>4, <1>5, <1>6, <1>7, <1>8 DEF Next

\* What a step makes of the index and of the closed trades.
LEMMA IndexMoves ==
  ASSUME TypeInv, Requests = {}, [Next]_vars, ~Restart
  PROVE  /\ \/ index' = index
            \/ PlaceBracket(Worker)
            \/ \E b \in Brackets : ReconcileTrade(b)
            \/ \E pos \in procs[Worker].seen : At(Worker, "manage") /\ ClosePosition(pos)
         /\ \A b \in closed' : b \in closed \/ brackets'[b].st = "closed"
<1>1. brackets \in [Brackets -> Bracket] /\ closed \subseteq Brackets
  BY DEF TypeInv, TypeOK
<1> DEFINE Moved ==
      /\ \/ index' = index
         \/ PlaceBracket(Worker)
         \/ \E b \in Brackets : ReconcileTrade(b)
         \/ \E pos \in procs[Worker].seen : At(Worker, "manage") /\ ClosePosition(pos)
      /\ \A b \in closed' : b \in closed \/ brackets'[b].st = "closed"
<1>2. ASSUME index' = index, closed' \subseteq closed PROVE Moved
  BY <1>2
<1> SUFFICES Moved
  OBVIOUS
<1> HIDE DEF Moved
<1>3. ASSUME NEW x \in Procs, ScanStep(x) PROVE Moved
  BY <1>2, <1>3 DEF ScanStep, StartScan, ReadPositions, RiskAndModeGate, Gate, PersistProposal
<1>4. ASSUME NEW x \in Procs, OrderStep(x) PROVE Moved
  <2>1. x = Worker
    BY DEF Procs
  <2>2. CASE PlaceBracket(Worker)
    BY <2>2 DEF PlaceBracket, Moved
  <2> QED BY <1>2, <1>4, <2>1, <2>2 DEF OrderStep, MarkExecuted, AuditExecution
<1>5. CASE SweepStep
  BY <1>2, <1>5 DEF SweepStep, StartSweep, ExpireRow, AuditExpiry
<1>6. CASE MonitorStep
  <2>1. ASSUME NEW b \in Brackets, ReconcileTrade(b) PROVE Moved
    BY <2>1 DEF ReconcileTrade, Moved
  <2>2. ASSUME NEW pos \in procs[Worker].seen, ManagePosition(pos) PROVE Moved
    <3>1. pos \in Position /\ KeyOf(pos) \in Keys
      BY DEF TypeInv, TypeOK, Procs, Proc, Position, KeyOf, Keys
    <3>2. index[KeyOf(pos)] # None => index[KeyOf(pos)] \in Brackets
      BY <3>1 DEF TypeInv, TypeOK
    <3>3. CASE ClosePosition(pos)
      BY <1>1, <2>2, <3>2, <3>3 DEF ManagePosition, ClosePosition, Moved, Bracket
    <3> QED BY <1>2, <2>2, <3>3 DEF ManagePosition, LeavePosition, ScaleOut, MoveStop
  <2>3. ASSUME NEW s \in Strategies, StartMonitor(s) PROVE Moved
    BY <1>2, <2>3 DEF StartMonitor
  <2> QED BY <1>2, <1>6, <2>1, <2>2, <2>3 DEF MonitorStep, ReadOwnPositions, EndMonitor
<1>7. CASE Environment
  <2>1. ASSUME NEW b \in Brackets, FillEntry(b) PROVE Moved
    BY <1>2, <2>1 DEF FillEntry
  <2>2. ASSUME NEW b \in Brackets, ExitLegFills(b) PROVE Moved
    BY <1>1, <2>2 DEF ExitLegFills, Moved, Bracket
  <2> QED
    BY <1>2, <1>7, <2>1, <2>2 DEF Environment, ExpiryPasses, SetMode, Trip, DemoteAllToWatch,
       Rearm, AwaitThrows, OutOfIds
<1>8. CASE EndScan \/ UNCHANGED vars
  BY <1>2, <1>8 DEF EndScan, vars
<1> QED
  BY <1>3, <1>4, <1>5, <1>6, <1>7, <1>8 DEF Next

\* The trades a reconciliation goes through have closed.
LEMMA TodoClosed ==
  ASSUME TypeInv, FirstInv, Requests = {}, [Next]_vars, KeepsOpened
  PROVE  At(Worker, "reconcile")' =>
           \A b \in procs'[Worker].todo : b \in Brackets /\ brackets'[b].st = "closed"
<1> SUFFICES ASSUME At(Worker, "reconcile")', NEW b \in procs'[Worker].todo
             PROVE  b \in Brackets /\ brackets'[b].st = "closed"
  OBVIOUS
<1>1. procs \in [Procs -> Proc] /\ Worker \in Procs /\ procs[Worker] \in Proc
  BY DEF TypeInv, TypeOK, Procs
<1>2. CASE procs'[Worker] = procs[Worker]
  BY <1>2 DEF At, FirstInv, IndexInv, KeepsOpened
<1>3. ASSUME NEW s \in Strategies, StartMonitor(s) PROVE b \in Brackets /\ brackets'[b].st = "closed"
  <2>1. procs'[Worker] = [Idle EXCEPT !.pc = "reconcile", !.strategy = s, !.todo = ClosedOf(s)]
    BY <1>1, <1>3 DEF StartMonitor, Become
  <2>3. procs'[Worker].todo = ClosedOf(s)
    BY <2>1 DEF Idle
  <2>2. b \in closed
    BY <2>3 DEF ClosedOf
  <2> QED BY <1>3, <2>2, BracketKeys DEF StartMonitor, FirstInv, IndexInv
<1>4. ASSUME NEW c \in Brackets, ReconcileTrade(c) PROVE b \in Brackets /\ brackets'[b].st = "closed"
  <2>1. procs'[Worker] = [procs[Worker] EXCEPT !.todo = @ \ {c}] /\ At(Worker, "reconcile")
    BY <1>1, <1>4 DEF ReconcileTrade, Become
  <2>2. b \in procs[Worker].todo
    BY <1>1, <2>1 DEF Proc
  <2> QED BY <2>1, <2>2 DEF FirstInv, IndexInv, KeepsOpened
<1> QED BY <1>2, <1>3, <1>4, ReconcileWaits DEF At

\* A key that gets a bracket had none open: one position a ticker.
LEMMA KeyWasFree ==
  ASSUME TypeInv, BookInv, GlobalLimits.perTicker = 1, PlaceBracket(Worker), NEW b \in Brackets,
         brackets[b].st = "open"
  PROVE  KeyOf(brackets[b].draft) # KeyOf(procs[Worker].draft)
<1> DEFINE d == procs[Worker].draft
<1>1. d \in Drafts
  BY DEF PlaceBracket, At, TypeInv, GoodProc, OrderPcs, Procs
<1>2. Room(d)
  BY <1>1 DEF PlaceBracket, BookInv, WorkerRoom
<1>3. IsFiniteSet(OnTicker(d.ticker)) /\ Cardinality(OnTicker(d.ticker)) \in Nat
      /\ Cardinality(OnTicker(d.ticker)) < 1
  BY <1>2, Counts, FS_CardinalityType DEF BookInv, Room
<1>4. OnTicker(d.ticker) = {}
  BY <1>3, FS_EmptySet
<1> QED BY <1>4 DEF OnTicker, OpenIds, KeyOf

LEMMA FirstPlaced ==
  ASSUME TypeInv, TypeInv', BookInv, FirstInv, Quoted, GlobalLimits.perTicker = 1, PlaceBracket(Worker)
  PROVE  /\ FirstEntryIsManaged'
         /\ \A k \in Keys : index'[k] # None =>
              brackets'[index'[k]].st \in {"open", "closed"} /\ KeyOf(brackets'[index'[k]].draft) = k
<1> DEFINE new == CHOOSE c \in Brackets : c \in Free
           d   == procs[Worker].draft
<1>1. new \in Brackets /\ brackets[new].st = "none" /\ d \in Drafts
  BY DEF PlaceBracket, Free, At, TypeInv, GoodProc, OrderPcs, Procs
<1>2. /\ brackets'[new].st = "open" /\ brackets'[new].draft = d
      /\ \A b \in Brackets \ {new} : brackets'[b] = brackets[b]
  BY <1>1, BracketKeys DEF PlaceBracket
<1>3. index' = [index EXCEPT ![KeyOf(d)] = new] /\ KeyOf(d) \in Keys
  BY <1>1, DraftsTyped DEF PlaceBracket, RecordBracket, KeyOf, Keys, Draft
<1> HIDE DEF new, d
<1>4. ASSUME NEW b \in Brackets, brackets'[b].st = "open"
      PROVE  \/ index'[KeyOf(brackets'[b].draft)] = b
             \/ \E c \in Brackets : /\ brackets'[c].st = "closed"
                                    /\ KeyOf(brackets'[c].draft) = KeyOf(brackets'[b].draft)
  <2>1. CASE b = new
    <3>1. KeyOf(brackets'[b].draft) = KeyOf(d)
      BY <1>2, <2>1 DEF KeyOf
    <3> QED BY <1>3, <2>1, <3>1, BracketKeys
  <2>2. CASE b # new
    <3>1. brackets'[b] = brackets[b] /\ KeyOf(brackets[b].draft) # KeyOf(d) /\ KeyOf(brackets[b].draft) \in Keys
      BY <1>2, <1>4, <2>2, KeyWasFree, BracketKeys DEF d
    <3>2. KeyOf(brackets'[b].draft) = KeyOf(brackets[b].draft) /\ brackets[b].st = "open"
      BY <1>4, <3>1 DEF KeyOf
    <3>3. index'[KeyOf(brackets[b].draft)] = index[KeyOf(brackets[b].draft)]
      BY <1>3, <3>1, BracketKeys
    <3>4. CASE index[KeyOf(brackets[b].draft)] # b
      <4>1. PICK c \in Brackets : brackets[c].st = "closed" /\ KeyOf(brackets[c].draft) = KeyOf(brackets[b].draft)
        BY <3>2, <3>4 DEF FirstInv, FirstEntryIsManaged
      <4>2. brackets'[c] = brackets[c]
        BY <1>1, <1>2, <4>1
      <4>3. KeyOf(brackets'[c].draft) = KeyOf(brackets'[b].draft)
        BY <3>2, <4>1, <4>2 DEF KeyOf
      <4> QED BY <4>1, <4>2, <4>3
    <3> QED BY <3>2, <3>3, <3>4
  <2> QED BY <2>1, <2>2
<1>5. ASSUME NEW k \in Keys, index'[k] # None
      PROVE  brackets'[index'[k]].st \in {"open", "closed"} /\ KeyOf(brackets'[index'[k]].draft) = k
  <2>1. CASE k = KeyOf(d)
    <3>1. index'[k] = new
      BY <1>3, <2>1, BracketKeys
    <3> QED BY <1>2, <2>1, <3>1 DEF KeyOf
  <2>2. CASE k # KeyOf(d)
    <3>1. PICK b \in Brackets : index[k] = b /\ index'[k] = b
      BY <1>3, <1>5, <2>2, BracketKeys
    <3>2. WasOpened(b) /\ KeyOf(brackets[b].draft) = k
      BY <1>5, <3>1 DEF FirstInv, IndexInv
    <3>3. brackets'[b] = brackets[b]
      BY <1>1, <1>2, <3>2 DEF WasOpened
    <3> QED BY <3>1, <3>2, <3>3 DEF WasOpened, KeyOf
  <2> QED BY <2>1, <2>2
<1> QED BY <1>4, <1>5 DEF FirstEntryIsManaged

\* An entry of the index that goes, goes with a bracket of its key that has closed.
LEMMA EntryGoes ==
  ASSUME TypeInv, FirstInv, Shrinks, KeepsOpened, NEW key \in Keys, index' = [index EXCEPT ![key] = None],
         \/ index[key] = None
         \/ \E c \in Brackets : brackets'[c].st = "closed" /\ KeyOf(brackets'[c].draft) = key
  PROVE  /\ FirstEntryIsManaged'
         /\ \A k \in Keys : index'[k] # None =>
              brackets'[index'[k]].st \in {"open", "closed"} /\ KeyOf(brackets'[index'[k]].draft) = k
<1>1. ASSUME NEW b \in Brackets, brackets'[b].st = "open"
      PROVE  \/ index'[KeyOf(brackets'[b].draft)] = b
             \/ \E c \in Brackets : /\ brackets'[c].st = "closed"
                                    /\ KeyOf(brackets'[c].draft) = KeyOf(brackets'[b].draft)
  <2>1. brackets[b].st = "open" /\ brackets'[b].draft = brackets[b].draft
    BY <1>1 DEF Shrinks
  <2>2. KeyOf(brackets'[b].draft) = KeyOf(brackets[b].draft) /\ KeyOf(brackets[b].draft) \in Keys
    BY <2>1, BracketKeys DEF KeyOf
  <2>3. CASE index[KeyOf(brackets[b].draft)] # b
    <3>1. PICK c \in Brackets : /\ brackets[c].st = "closed"
                                /\ KeyOf(brackets[c].draft) = KeyOf(brackets[b].draft)
      BY <2>1, <2>3 DEF FirstInv, FirstEntryIsManaged
    <3>2. brackets'[c].st = "closed" /\ brackets'[c].draft = brackets[c].draft
      BY <3>1 DEF KeepsOpened, WasOpened
    <3>3. KeyOf(brackets'[c].draft) = KeyOf(brackets'[b].draft)
      BY <2>1, <3>1, <3>2 DEF KeyOf
    <3> QED BY <3>2, <3>3
  <2>4. CASE index[KeyOf(brackets[b].draft)] = b
    <3>1. CASE KeyOf(brackets[b].draft) = key
      BY <2>2, <2>4, <3>1, BracketKeys
    <3>2. CASE KeyOf(brackets[b].draft) # key
      BY <2>2, <2>4, <3>2, BracketKeys
    <3> QED BY <3>1, <3>2
  <2> QED BY <2>3, <2>4
<1>2. ASSUME NEW k \in Keys, index'[k] # None
      PROVE  brackets'[index'[k]].st \in {"open", "closed"} /\ KeyOf(brackets'[index'[k]].draft) = k
  <2>1. PICK b \in Brackets : index[k] = b /\ index'[k] = b
    BY <1>2, BracketKeys
  <2>2. WasOpened(b) /\ KeyOf(brackets[b].draft) = k
    BY <1>2, <2>1 DEF FirstInv, IndexInv
  <2>3. WasOpened(b)' /\ KeyOf(brackets'[b].draft) = k
    BY <2>2 DEF KeepsOpened
  <2> QED BY <2>1, <2>3 DEF WasOpened
<1> QED BY <1>1, <1>2 DEF FirstEntryIsManaged

LEMMA FirstStep ==
  ASSUME TypeInv, TypeInv', BookInv, FirstInv, Requests = {}, Quoted, GlobalLimits.perTicker = 1, [Next]_vars
  PROVE  FirstInv'
<1> DEFINE Kept == /\ FirstEntryIsManaged'
                   /\ \A k \in Keys : index'[k] # None =>
                        /\ brackets'[index'[k]].st \in {"open", "closed"}
                        /\ KeyOf(brackets'[index'[k]].draft) = k
<1>1. CASE Restart
  <2>1. /\ \A b \in Brackets : brackets'[b].st # "open"
        /\ \A k \in Keys : index'[k] = None
        /\ closed' = {} /\ procs'[Worker] = Idle
    BY <1>1, BracketKeys DEF Restart, Bracket, Procs
  <2>2. FirstEntryIsManaged'
    BY <2>1 DEF FirstEntryIsManaged
  <2>3. IndexInv'
    BY <2>1 DEF IndexInv, At, Idle
  <2> QED BY <2>2, <2>3 DEF FirstInv
<1>2. CASE ~Restart
  <2>1. KeepsOpened
    BY <1>2, StepKeepsOpened
  <2>2. \A b \in closed' : brackets'[b].st = "closed"
    BY <1>2, <2>1, IndexMoves, BracketKeys DEF FirstInv, IndexInv, KeepsOpened
  <2>3. At(Worker, "reconcile")' => \A b \in procs'[Worker].todo : b \in Brackets /\ brackets'[b].st = "closed"
    BY <2>1, TodoClosed
  <2>4. Kept
    <3>1. CASE PlaceBracket(Worker)
      BY <3>1, FirstPlaced
    <3>2. CASE ~PlaceBracket(Worker)
      <4>1. Shrinks
        BY <3>2, StepShrinks DEF BookInv
      <4>2. CASE index' = index
        BY <2>1, <4>1, <4>2, IndexKept
      <4>3. ASSUME NEW b \in Brackets, ReconcileTrade(b) PROVE Kept
        <5>1. brackets[b].st = "closed" /\ brackets' = brackets
          BY <4>3 DEF ReconcileTrade, FirstInv, IndexInv
        <5>2. KeyOf(brackets[b].draft) \in Keys /\ index' = [index EXCEPT ![KeyOf(brackets[b].draft)] = None]
          BY <4>3, <5>1, BracketKeys DEF ReconcileTrade
        <5>3. brackets'[b].st = "closed" /\ KeyOf(brackets'[b].draft) = KeyOf(brackets[b].draft)
          BY <5>1
        <5> QED BY <2>1, <4>1, <5>2, <5>3, EntryGoes
      <4>4. ASSUME NEW pos \in procs[Worker].seen, ClosePosition(pos) PROVE Kept
        <5> DEFINE key == KeyOf(pos)
                   b   == index[key]
        <5>1. key \in Keys
          BY DEF TypeInv, TypeOK, Procs, Proc, Position, KeyOf, Keys
        <5>2. b \in Brackets /\ index' = [index EXCEPT ![key] = None]
          BY <4>4, <5>1, BracketKeys DEF ClosePosition
        <5>3. WasOpened(b) /\ KeyOf(brackets[b].draft) = key
          BY <4>4, <5>1, <5>2, BracketKeys DEF FirstInv, IndexInv
        <5>4. brackets'[b].st = "closed" /\ brackets'[b].draft = brackets[b].draft
          BY <4>4, <5>2, <5>3, BracketKeys DEF ClosePosition, WasOpened, Bracket
        <5> HIDE DEF key, b
        <5>5. KeyOf(brackets'[b].draft) = key
          BY <5>3, <5>4 DEF KeyOf
        <5> QED BY <2>1, <4>1, <5>1, <5>2, <5>4, <5>5, EntryGoes
      <4> QED BY <1>2, <3>2, <4>2, <4>3, <4>4, IndexMoves
    <3> QED BY <3>1, <3>2
  <2>5. IndexInv'
    BY <2>2, <2>3, <2>4 DEF IndexInv, WasOpened
  <2> QED BY <2>4, <2>5 DEF FirstInv
<1> QED BY <1>1, <1>2

LEMMA FirstInit == Init => FirstInv
<1> SUFFICES ASSUME Init PROVE FirstInv
  OBVIOUS
<1>1. /\ \A b \in Brackets : brackets[b].st = "none"
      /\ \A k \in Keys : index[k] = None
      /\ closed = {} /\ procs[Worker] = Idle
  BY DEF Init, NoBracket, Procs
<1> QED BY <1>1 DEF FirstInv, IndexInv, FirstEntryIsManaged, At, Idle

\* Of a worker that nobody orders beside, under the code's cap of one position a ticker, the
\* exits of an open position can find its bracket in the index, unless an earlier trade of
\* the same strategy and ticker has closed.
THEOREM FirstEntryManaged ==
  ASSUME Requests = {}, Quoted, GlobalLimits.perTicker = 1
  PROVE  Spec => []FirstEntryIsManaged
<1>2. TypeInv /\ BookInv /\ [Next]_vars => BookInv'
  BY BookStep
<1>3. TypeInv /\ TypeInv' /\ BookInv /\ FirstInv /\ [Next]_vars => FirstInv'
  BY FirstStep
<1>4. FirstInv => FirstEntryIsManaged
  BY DEF FirstInv
<1> QED BY <1>2, <1>3, <1>4, FirstInit, BookBegins, TypeInit, TypeStep, PTL DEF Spec

-----------------------------------------------------------------------------
(* The open risk of the book a worker builds alone                         *)

\* A risk the gate lets through under the global cap.
Fits(risk) == RoundPct(risk, Equity) <= 10000 * GlobalLimits.openRiskPct

LEMMA QuotientGrows ==
  ASSUME NEW x \in Int, NEW y \in Int, x <= y, NEW d \in Nat \ {0}
  PROVE  x \div d <= y \div d
<1> DEFINE a == x \div d
           b == y \div d
<1>1. a \in Int /\ b \in Int /\ d * a <= x /\ x < d * a + d /\ d * b <= y /\ y < d * b + d
  OBVIOUS
<1> HIDE DEF a, b
<1> SUFFICES ASSUME a >= b + 1 PROVE FALSE
  BY <1>1 DEF a, b
<1>2. d * a >= d * (b + 1)
  BY <1>1
<1>3. d * (b + 1) = d * b + d
  BY <1>1
<1> QED BY <1>1, <1>2, <1>3

\* What is less risk than what fits, fits.
LEMMA LessFits ==
  ASSUME NEW x \in Int, NEW y \in Int, x <= y, Fits(y)
  PROVE  Fits(x)
<1>1. Equity \in Nat \ {0} /\ 2 * Equity \in Nat \ {0}
  BY PipelineAssumption
<1> DEFINE p == 2000000 * x + Equity
           q == 2000000 * y + Equity
<1>2. p \in Int /\ q \in Int /\ p <= q
  BY <1>1
<1>3. RoundPct(x, Equity) = p \div (2 * Equity) /\ RoundPct(y, Equity) = q \div (2 * Equity)
  BY DEF RoundPct
<1> HIDE DEF p, q
<1>4. RoundPct(x, Equity) <= RoundPct(y, Equity)
  BY <1>1, <1>2, <1>3, QuotientGrows
<1>5. /\ RoundPct(x, Equity) \in Int /\ RoundPct(y, Equity) \in Int
      /\ GlobalLimits.openRiskPct \in Nat
  BY <1>1, <1>2, <1>3, LimitsAssumption DEF LimitFields
<1> QED BY <1>4, <1>5 DEF Fits

\* The largest slippage there is.
LEMMA MostSlip ==
  ASSUME IsFiniteSet(Slips)
  PROVE  Max(Slips) \in Nat /\ \A s \in Slips : s <= Max(Slips)
<1> DEFINE Bad == {T \in SUBSET Slips : T # {} /\ ~\E m \in T : \A s \in T : s <= m}
<1>1. Bad = {}
  <2> SUFFICES ASSUME Bad # {} PROVE FALSE
    OBVIOUS
  <2>0. Bad \in SUBSET SUBSET Slips
    OBVIOUS
  <2>1. PICK T \in Bad : \A U \in Bad : U \subseteq T => U = T
    <3> HIDE DEF Bad
    <3> QED BY <2>0, SmallestSet
  <2>2. PICK x \in T : TRUE
    BY <2>1
  <2>3. T \subseteq Slips /\ \A s \in T : s \in Nat
    BY <2>1, PipelineAssumption
  <2> DEFINE U == T \ {x}
  <2>4. U \notin Bad /\ U \in SUBSET Slips
    BY <2>1, <2>2, <2>3
  <2>5. CASE U = {}
    <3>1. \A s \in T : s <= x
      BY <2>3, <2>5
    <3> QED BY <2>1, <2>2, <3>1
  <2>6. CASE U # {}
    <3>1. PICK m \in U : \A s \in U : s <= m
      BY <2>4, <2>6
    <3>2. CASE m <= x
      <4>1. \A s \in T : s <= x
        BY <2>2, <2>3, <3>1, <3>2
      <4> QED BY <2>1, <2>2, <4>1
    <3>3. CASE ~(m <= x)
      <4>1. \A s \in T : s <= m
        BY <2>2, <2>3, <3>1, <3>3
      <4> QED BY <2>1, <3>1, <4>1
    <3> QED BY <3>2, <3>3
  <2> QED BY <2>5, <2>6
<1>2. Slips # {} /\ Slips \subseteq Nat
  BY PipelineAssumption
<1>3. \E m \in Slips : \A s \in Slips : m >= s
  BY <1>1, <1>2
<1>4. Max(Slips) \in Slips /\ \A s \in Slips : Max(Slips) >= s
  BY <1>3 DEF Max
<1> QED BY <1>2, <1>4

LEMMA RiskOfOne ==
  ASSUME NEW pos \in Position
  PROVE  StopDistance(pos) \in Nat /\ pos.qty \in Nat /\ PositionRisk(pos) \in Nat
<1>1. pos.qty \in Nat /\ pos.entry \in Int /\ pos.stop \in Int
  BY DEF Position
<1>2. StopDistance(pos) \in Nat
  BY <1>1 DEF StopDistance
<1> QED BY <1>1, <1>2 DEF PositionRisk

LEMMA RiskWithin ==
  ASSUME NEW P, P \subseteq Position, IsFiniteSet(P), NEW Q, Q \subseteq P
  PROVE  OpenRisk(P) \in Nat /\ OpenRisk(Q) \in Nat /\ OpenRisk(Q) <= OpenRisk(P)
<1> DEFINE f == [pos \in P |-> PositionRisk(pos)]
           g == [pos \in Q |-> PositionRisk(pos)]
<1>1. \A pos \in P : f[pos] \in Nat
  BY RiskOfOne
<1>2. \A pos \in Q : g[pos] = f[pos]
  OBVIOUS
<1>3. OpenRisk(P) = SumFunctionOnSet(f, P) /\ OpenRisk(Q) = SumFunctionOnSet(g, Q)
  BY DEF OpenRisk
<1> HIDE DEF f, g
<1>4. IsFiniteSet(Q)
  BY FS_Subset
<1>5. SumFunctionOnSet(g, Q) = SumFunctionOnSet(f, Q)
  BY <1>2, <1>4, SumSame
<1>6. SumFunctionOnSet(f, Q) <= SumFunctionOnSet(f, P)
  BY <1>1, SumWithin
<1>7. SumFunctionOnSet(f, {}) <= SumFunctionOnSet(f, Q)
  BY <1>1, <1>4, SumWithin
<1>8. SumFunctionOnSet(f, P) \in Int /\ SumFunctionOnSet(f, Q) \in Int
  <2>1. \A pos \in P : f[pos] \in Int
    BY <1>1
  <2>2. \A pos \in Q : f[pos] \in Int
    BY <2>1
  <2> QED BY <1>4, <2>1, <2>2, SumInt
<1>9. SumFunctionOnSet(f, {}) = 0
  BY SumOfNone
<1> QED BY <1>3, <1>5, <1>6, <1>7, <1>8, <1>9

LEMMA RiskSplits ==
  ASSUME NEW P, P \subseteq Position, IsFiniteSet(P), NEW a \in P
  PROVE  OpenRisk(P) = PositionRisk(a) + OpenRisk(P \ {a})
<1> DEFINE f == [pos \in P |-> PositionRisk(pos)]
           Q == P \ {a}
           g == [pos \in Q |-> PositionRisk(pos)]
<1>1. \A pos \in P : f[pos] \in Int
  BY RiskOfOne
<1>2. f[a] = PositionRisk(a) /\ \A pos \in Q : g[pos] = f[pos]
  OBVIOUS
<1>3. OpenRisk(P) = SumFunctionOnSet(f, P) /\ OpenRisk(Q) = SumFunctionOnSet(g, Q)
  BY DEF OpenRisk
<1>4. IsFiniteSet(Q)
  BY FS_Subset
<1> HIDE DEF f, g
<1>5. SumFunctionOnSet(f, P) = f[a] + SumFunctionOnSet(f, Q)
  BY <1>1, SumRemoves
<1> HIDE DEF Q
<1>6. SumFunctionOnSet(g, Q) = SumFunctionOnSet(f, Q)
  BY <1>2, <1>4, SumSame
<1> QED BY <1>2, <1>3, <1>5, <1>6 DEF Q

\* The risk is within the cap, or would be without one position and is but for that one's
\* slippage.
Slipped(P) ==
  \/ Fits(OpenRisk(P))
  \/ \E pos \in P : Fits(OpenRisk(P \ {pos})) /\ Fits(OpenRisk(P) - pos.qty * Max(Slips))

LEMMA SlippedWithin ==
  ASSUME IsFiniteSet(Slips), NEW P, P \subseteq Position, IsFiniteSet(P), Slipped(P),
         NEW Q, Q \subseteq P
  PROVE  Slipped(Q)
<1>1. OpenRisk(P) \in Nat /\ OpenRisk(Q) \in Nat /\ OpenRisk(Q) <= OpenRisk(P)
  BY RiskWithin
<1>2. CASE Fits(OpenRisk(P))
  <2>1. Fits(OpenRisk(Q))
    BY <1>1, <1>2, LessFits
  <2> QED BY <2>1 DEF Slipped
<1>3. ASSUME NEW pos \in P, Fits(OpenRisk(P \ {pos})), Fits(OpenRisk(P) - pos.qty * Max(Slips))
      PROVE  Slipped(Q)
  <2> DEFINE R == P \ {pos}
  <2>1. R \subseteq Position /\ IsFiniteSet(R) /\ Fits(OpenRisk(R))
    BY <1>3, FS_Subset
  <2>2. CASE pos \notin Q
    <3>1. Q \subseteq R
      BY <2>2
    <3> HIDE DEF R
    <3>2. OpenRisk(R) \in Nat /\ OpenRisk(Q) <= OpenRisk(R)
      BY <2>1, <3>1, RiskWithin
    <3>3. Fits(OpenRisk(Q))
      BY <1>1, <2>1, <3>2, LessFits
    <3> QED BY <3>3 DEF Slipped
  <2>3. CASE pos \in Q
    <3>1. Q \ {pos} \subseteq R
      OBVIOUS
    <3> HIDE DEF R
    <3>2. OpenRisk(R) \in Nat /\ OpenRisk(Q \ {pos}) \in Nat /\ OpenRisk(Q \ {pos}) <= OpenRisk(R)
      BY <2>1, <3>1, RiskWithin
    <3>3. Fits(OpenRisk(Q \ {pos}))
      BY <2>1, <3>2, LessFits
    <3> DEFINE m == pos.qty * Max(Slips)
    <3>4. m \in Int
      BY MostSlip, RiskOfOne
    <3> HIDE DEF m
    <3>5. OpenRisk(P) - m \in Int /\ OpenRisk(Q) - m \in Int /\ OpenRisk(Q) - m <= OpenRisk(P) - m
      BY <1>1, <3>4
    <3>6. Fits(OpenRisk(Q) - m)
      BY <1>3, <3>5, LessFits DEF m
    <3> QED BY <2>3, <3>3, <3>6 DEF Slipped, m
  <2> QED BY <2>2, <2>3
<1> QED BY <1>2, <1>3 DEF Slipped

\* A position that shrinks, or whose stop comes to its entry, leaves it so.
LEMMA SlippedReplaced ==
  ASSUME IsFiniteSet(Slips), NEW P, P \subseteq Position, IsFiniteSet(P), Slipped(P),
         NEW a \in P, NEW b \in Position, b \notin P \ {a}, b.qty <= a.qty,
         StopDistance(b) = StopDistance(a) \/ StopDistance(b) = 0
  PROVE  Slipped((P \ {a}) \union {b})
<1> DEFINE R == P \ {a}
           Q == R \union {b}
<1>1. /\ R \subseteq Position /\ IsFiniteSet(R) /\ Q \subseteq Position /\ IsFiniteSet(Q)
      /\ b \in Q /\ Q \ {b} = R
  BY FS_Subset, FS_AddElement
<1>2. OpenRisk(P) = PositionRisk(a) + OpenRisk(R)
  BY RiskSplits
<1>3. OpenRisk(Q) = PositionRisk(b) + OpenRisk(R)
  <2> HIDE DEF Q
  <2>1. OpenRisk(Q) = PositionRisk(b) + OpenRisk(Q \ {b})
    BY <1>1, RiskSplits
  <2> QED BY <1>1, <2>1
<1>4. OpenRisk(P) \in Nat /\ OpenRisk(R) \in Nat /\ OpenRisk(Q) \in Nat
  <2> HIDE DEF Q
  <2>1. OpenRisk(Q) \in Nat
    BY <1>1, RiskWithin
  <2>2. OpenRisk(P) \in Nat /\ OpenRisk(R) \in Nat
    BY RiskWithin
  <2> QED BY <2>1, <2>2
<1> DEFINE n == a.qty
           m == b.qty
           d == StopDistance(a)
           e == StopDistance(b)
           s == Max(Slips)
<1>5. n \in Nat /\ m \in Nat /\ d \in Nat /\ e \in Nat /\ s \in Nat /\ m <= n /\ (e = d \/ e = 0)
  BY RiskOfOne, MostSlip
<1>6. PositionRisk(a) = n * d /\ PositionRisk(b) = m * e
  BY DEF PositionRisk
<1> SUFFICES Slipped(Q)
  OBVIOUS
<1> HIDE DEF R, Q, n, m, d, e, s
<1>7. m * e <= n * d
  <2>1. m * d <= n * d /\ m * 0 = 0 /\ 0 <= n * d
    BY <1>5
  <2> QED BY <1>5, <2>1
<1>8. OpenRisk(Q) <= OpenRisk(P) /\ n * d \in Nat /\ m * e \in Nat
  BY <1>2, <1>3, <1>4, <1>5, <1>6, <1>7
<1>9. CASE Fits(OpenRisk(P))
  <2>1. Fits(OpenRisk(Q))
    BY <1>4, <1>8, <1>9, LessFits
  <2> QED BY <2>1 DEF Slipped
<1>10. CASE Fits(OpenRisk(R)) /\ Fits(OpenRisk(P) - n * s)
  <2>1. \/ OpenRisk(Q) - m * s <= OpenRisk(R)
        \/ OpenRisk(Q) - m * s <= OpenRisk(P) - n * s
    <3>1. n * s \in Nat /\ m * s \in Nat
      BY <1>5
    <3>2. CASE e = 0
      <4>1. m * e = 0
        BY <1>5, <3>2
      <4> QED BY <1>3, <1>4, <1>6, <3>1, <4>1
    <3>3. CASE e = d /\ d <= s
      <4>1. m * d <= m * s
        BY <1>5, <3>3
      <4> QED BY <1>3, <1>4, <1>5, <1>6, <1>8, <3>1, <3>3, <4>1
    <3>4. CASE e = d /\ d > s
      <4> DEFINE k == d - s
      <4>1. k \in Nat /\ m * k <= n * k
        BY <1>5, <3>4
      <4>2. m * k = m * d - m * s /\ n * k = n * d - n * s
        BY <1>5
      <4> HIDE DEF k
      <4> QED BY <1>2, <1>3, <1>4, <1>5, <1>6, <1>8, <3>1, <3>4, <4>1, <4>2
    <3> QED BY <1>5, <3>2, <3>3, <3>4
  <2>2. n * s \in Nat /\ m * s \in Nat
    BY <1>5
  <2>3. Fits(OpenRisk(Q) - m * s)
    <3>1. /\ OpenRisk(Q) - m * s \in Int /\ OpenRisk(P) - n * s \in Int /\ OpenRisk(R) \in Int
      BY <1>4, <2>2
    <3> QED BY <1>10, <2>1, <3>1, LessFits
  <2> QED BY <1>1, <1>10, <2>3 DEF Slipped, m, s
<1>11. ASSUME NEW pos \in R, Fits(OpenRisk(P \ {pos})), Fits(OpenRisk(P) - pos.qty * Max(Slips))
       PROVE  Slipped(Q)
  <2>1. pos \in P /\ pos \in Q /\ pos \in Position
    BY DEF R, Q
  <2>2. OpenRisk(P) = PositionRisk(pos) + OpenRisk(P \ {pos}) /\ OpenRisk(P \ {pos}) \in Nat
    BY <2>1, RiskSplits, RiskWithin
  <2>3. OpenRisk(Q) = PositionRisk(pos) + OpenRisk(Q \ {pos}) /\ OpenRisk(Q \ {pos}) \in Nat
    BY <1>1, <2>1, RiskSplits, RiskWithin
  <2>4. PositionRisk(pos) \in Nat
    BY <2>1, RiskOfOne
  <2>5. Fits(OpenRisk(Q \ {pos}))
    <3>1. OpenRisk(Q \ {pos}) <= OpenRisk(P \ {pos})
      BY <1>4, <1>8, <2>2, <2>3, <2>4
    <3> QED BY <1>11, <2>2, <2>3, <3>1, LessFits
  <2> DEFINE k == pos.qty * Max(Slips)
  <2>6. k \in Int
    BY <2>1, MostSlip, RiskOfOne
  <2> HIDE DEF k
  <2>7. OpenRisk(Q) - k \in Int /\ OpenRisk(P) - k \in Int /\ OpenRisk(Q) - k <= OpenRisk(P) - k
    BY <1>4, <1>8, <2>6
  <2>8. Fits(OpenRisk(Q) - k)
    BY <1>11, <2>7, LessFits DEF k
  <2> QED BY <2>1, <2>5, <2>8 DEF Slipped, k
<1> QED BY <1>9, <1>10, <1>11 DEF Slipped, R, n, s

\* So does an entry that fits at its draft's price.
LEMMA SlippedAdded ==
  ASSUME IsFiniteSet(Slips), NEW P, P \subseteq Position, IsFiniteSet(P),
         NEW a \in Position, a \notin P, NEW dist \in Nat, NEW slip \in Slips,
         StopDistance(a) <= dist + slip, Fits(OpenRisk(P) + a.qty * dist)
  PROVE  Slipped(P \union {a})
<1> DEFINE Q == P \union {a}
           n == a.qty
           d == StopDistance(a)
           s == Max(Slips)
<1>1. Q \subseteq Position /\ IsFiniteSet(Q) /\ a \in Q /\ Q \ {a} = P
  BY FS_AddElement
<1>2. OpenRisk(P) \in Nat
  BY RiskWithin
<1>3. n \in Nat /\ d \in Nat /\ s \in Nat /\ d <= dist + s
  BY RiskOfOne, MostSlip, PipelineAssumption
<1>4. PositionRisk(a) = n * d
  BY DEF PositionRisk
<1> SUFFICES Slipped(Q)
  OBVIOUS
<1> HIDE DEF Q, n, d, s
<1>5. OpenRisk(Q) = n * d + OpenRisk(P)
  BY <1>1, <1>4, RiskSplits
<1>6. n * d <= n * (dist + s)
  BY <1>3
<1>7. n * (dist + s) = n * dist + n * s /\ n * dist \in Nat /\ n * s \in Nat /\ n * d \in Nat
  BY <1>3
<1>8. /\ OpenRisk(Q) - n * s <= OpenRisk(P) + n * dist /\ OpenRisk(P) <= OpenRisk(P) + n * dist
      /\ OpenRisk(Q) - n * s \in Int /\ OpenRisk(P) + n * dist \in Int
  BY <1>2, <1>5, <1>6, <1>7
<1>9. Fits(OpenRisk(Q) - n * s) /\ Fits(OpenRisk(P))
  BY <1>2, <1>8, LessFits DEF n
<1> QED BY <1>1, <1>9 DEF Slipped, n, s

\* Past the gate the draft fits beside what is open.
RiskRoom ==
  At(Worker, "persist") \/ At(Worker, "place") =>
    \A d \in Drafts : procs[Worker].draft = d =>
      Fits(OpenRisk(OpenPositions) + procs[Worker].qty * StopDistance(d))

\* What is open in the ticker of a position the monitor read was filled at that position's
\* entry: it is that position.
EntriesKnown ==
  At(Worker, "manage") =>
    \A pos \in procs[Worker].seen, b \in OpenIds :
      brackets[b].draft.ticker = pos.ticker => brackets[b].entry = pos.entry

RiskInv == Slipped(OpenPositions) /\ RiskRoom /\ EntriesKnown

\* What the monitor may make of an open bracket.
Lessened(b) ==
  /\ \A c \in Brackets \ {b} : brackets'[c] = brackets[c]
  /\ brackets'[b].st = "open" /\ brackets'[b].draft = brackets[b].draft
  /\ brackets'[b].entry = brackets[b].entry /\ brackets'[b].qty <= brackets[b].qty
  /\ brackets'[b].stop = brackets[b].stop \/ brackets'[b].stop = brackets[b].entry

LEMMA ManageLessens ==
  ASSUME TypeInv, NonePending, IndexInv, EntriesKnown, NEW pos \in procs[Worker].seen,
         ManagePosition(pos)
  PROVE  Frozen \/ \E b \in OpenIds : Lessened(b)
<1>1. brackets \in [Brackets -> Bracket] /\ At(Worker, "manage")
  BY BracketKeys DEF ManagePosition
<1>2. pos \in Position /\ KeyOf(pos) \in Keys
  BY DEF TypeInv, TypeOK, Procs, Proc, Position, KeyOf, Keys
<1> DEFINE b == index[KeyOf(pos)]
<1>3. b # None => b \in Brackets /\ KeyOf(brackets[b].draft) = KeyOf(pos) /\ brackets[b].st # "pending"
  BY <1>2, BracketKeys DEF IndexInv, NonePending
<1>4. CASE LeavePosition(pos)
  BY <1>4 DEF LeavePosition, Frozen
<1>5. CASE ClosePosition(pos)
  BY <1>1, <1>3, <1>5 DEF ClosePosition, Frozen, Bracket
<1>6. ASSUME NEW n \in 1..(pos.qty - 1), ScaleOut(pos, n) PROVE Frozen \/ (b \in OpenIds /\ Lessened(b))
  <2>1. CASE brackets' = brackets
    BY <2>1 DEF Frozen
  <2>2. CASE brackets' # brackets
    <3>1. b # None /\ brackets[b].st \in Live /\ n < brackets[b].qty
          /\ brackets' = [brackets EXCEPT ![b].qty = n]
      BY <1>6, <2>2 DEF ScaleOut
    <3>2. b \in Brackets /\ brackets[b].st = "open" /\ brackets[b] \in Bracket
      BY <1>1, <1>3, <3>1 DEF Live
    <3> HIDE DEF b
    <3>3. brackets[b].qty \in Nat /\ pos.qty \in Nat /\ n \in Int
      BY <1>2, <3>2 DEF Bracket, Position
    <3>4. brackets'[b] = [brackets[b] EXCEPT !.qty = n] /\ \A c \in Brackets \ {b} : brackets'[c] = brackets[c]
      BY <1>1, <3>1, <3>2
    <3>5. /\ brackets'[b].st = brackets[b].st /\ brackets'[b].draft = brackets[b].draft
          /\ brackets'[b].entry = brackets[b].entry /\ brackets'[b].qty = n
          /\ brackets'[b].stop = brackets[b].stop
      BY <3>2, <3>4 DEF Bracket
    <3> QED BY <3>1, <3>2, <3>3, <3>4, <3>5 DEF Lessened, OpenIds
  <2> QED BY <2>1, <2>2
<1>7. ASSUME MoveStop(pos) PROVE Frozen \/ (b \in OpenIds /\ Lessened(b))
  <2>1. CASE brackets' = brackets
    BY <2>1 DEF Frozen
  <2>2. CASE brackets' # brackets
    <3>1. b # None /\ brackets[b].st \in Live /\ brackets' = [brackets EXCEPT ![b].stop = pos.entry]
      BY <1>7, <2>2 DEF MoveStop
    <3>2. b \in Brackets /\ brackets[b].st = "open" /\ brackets[b] \in Bracket
          /\ brackets[b].draft.ticker = pos.ticker
      BY <1>1, <1>3, <3>1 DEF Live, KeyOf
    <3>3. b \in OpenIds /\ brackets[b].entry = pos.entry
      BY <1>1, <3>2 DEF EntriesKnown, OpenIds
    <3> HIDE DEF b
    <3>4. brackets'[b] = [brackets[b] EXCEPT !.stop = pos.entry]
          /\ \A c \in Brackets \ {b} : brackets'[c] = brackets[c]
      BY <1>1, <3>1, <3>2
    <3>5. /\ brackets'[b].st = brackets[b].st /\ brackets'[b].draft = brackets[b].draft
          /\ brackets'[b].entry = brackets[b].entry /\ brackets'[b].qty = brackets[b].qty
          /\ brackets'[b].stop = pos.entry /\ brackets[b].qty \in Nat
      BY <3>2, <3>4 DEF Bracket
    <3> QED BY <3>2, <3>3, <3>4, <3>5 DEF Lessened
  <2> QED BY <2>1, <2>2
<1> QED BY <1>4, <1>5, <1>6, <1>7 DEF ManagePosition

LEMMA StepLessens ==
  ASSUME TypeInv, NonePending, IndexInv, EntriesKnown, Requests = {}, [Next]_vars, ~PlaceBracket(Worker)
  PROVE  Frozen \/ \E b \in OpenIds : Lessened(b)
<1> DEFINE Done == Frozen \/ \E b \in OpenIds : Lessened(b)
<1>1. brackets \in [Brackets -> Bracket]
  BY BracketKeys
<1>2. ASSUME brackets' = brackets PROVE Done
  BY <1>2 DEF Frozen
<1> SUFFICES Done
  OBVIOUS
<1>3. CASE MonitorStep
  <2>1. ASSUME NEW pos \in procs[Worker].seen, ManagePosition(pos) PROVE Done
    BY <2>1, ManageLessens
  <2> HIDE DEF Done
  <2> QED BY <1>2, <1>3, <2>1 DEF MonitorStep, StartMonitor, ReconcileTrade, ReadOwnPositions, EndMonitor
<1>4. ASSUME NEW b \in Brackets, ExitLegFills(b) PROVE Done
  BY <1>1, <1>4 DEF ExitLegFills, Frozen, Bracket
<1>5. CASE Restart
  BY <1>1, <1>5 DEF Restart, Frozen, Bracket
<1>6. ASSUME NEW b \in Brackets, FillEntry(b) PROVE FALSE
  BY <1>6 DEF FillEntry, NonePending
<1> HIDE DEF Done
<1>7. CASE Environment
  BY <1>2, <1>4, <1>5, <1>6, <1>7 DEF Environment, ExpiryPasses, SetMode, Trip, DemoteAllToWatch,
     Rearm, AwaitThrows, OutOfIds
<1>8. ASSUME NEW x \in Procs, ScanStep(x) PROVE Done
  BY <1>2, <1>8 DEF ScanStep, StartScan, ReadPositions, RiskAndModeGate, Gate, PersistProposal
<1>9. ASSUME NEW x \in Procs, OrderStep(x) PROVE Done
  <2>1. x = Worker
    BY DEF Procs
  <2> QED BY <1>2, <1>9, <2>1 DEF OrderStep, MarkExecuted, AuditExecution
<1>10. CASE SweepStep
  BY <1>2, <1>10 DEF SweepStep, StartSweep, ExpireRow, AuditExpiry
<1>11. CASE EndScan \/ UNCHANGED vars
  BY <1>2, <1>11 DEF EndScan, vars
<1> QED BY <1>3, <1>7, <1>8, <1>9, <1>10, <1>11 DEF Next

\* Where nothing is opened the book goes on as Slipped says.
LEMMA SlippedKept ==
  ASSUME TypeInv, TypeInv', IsFiniteSet(Slips), IsFiniteSet(OpenIds), Shrinks, Slipped(OpenPositions),
         Frozen \/ \E b \in OpenIds : Lessened(b)
  PROVE  Slipped(OpenPositions')
<1>1. OpenPositions \subseteq Position /\ IsFiniteSet(OpenPositions)
  BY PositionsTyped, Counts
<1>2. CASE Frozen
  <2>1. OpenPositions' \subseteq OpenPositions
    BY <1>2 DEF Frozen, Shrinks, OpenPositions, PositionOf
  <2> QED BY <1>1, <2>1, SlippedWithin
<1>3. ASSUME NEW b \in OpenIds, Lessened(b) PROVE Slipped(OpenPositions')
  <2> DEFINE a == PositionOf(b)
             c == [bracket |-> b, strategy |-> brackets'[b].draft.strategy,
                   ticker |-> brackets'[b].draft.ticker, side |-> brackets'[b].draft.side,
                   qty |-> brackets'[b].qty, entry |-> brackets'[b].entry, stop |-> brackets'[b].stop]
  <2>1. b \in Brackets /\ brackets[b].st = "open" /\ brackets[b] \in Bracket /\ brackets'[b] \in Bracket
        /\ brackets[b].draft \in Drafts
    BY <1>3 DEF OpenIds, TypeInv, TypeOK, GoodBracket
  <2>2. a \in OpenPositions /\ a.bracket = b /\ a.qty = brackets[b].qty /\ a.entry = brackets[b].entry
        /\ a.stop = brackets[b].stop
    BY <2>1 DEF OpenPositions, PositionOf
  <2>3. c.bracket = b /\ c.qty = brackets'[b].qty /\ c.entry = brackets'[b].entry /\ c.stop = brackets'[b].stop
    OBVIOUS
  <2>4. c \in Position
    <3>1. brackets'[b].draft \in Draft
      BY <1>3, <2>1, DraftsTyped DEF Lessened
    <3> QED BY <2>1, <3>1 DEF Position, Draft, Bracket
  <2>5. \A p \in OpenPositions : p = a \/ p.bracket # b
    BY DEF OpenPositions, PositionOf
  <2>6. OpenPositions' = (OpenPositions \ {a}) \union {c}
    <3>1. /\ brackets'[b].st = "open" /\ \A i \in Brackets \ {b} : brackets'[i] = brackets[i]
      BY <1>3 DEF Lessened
    <3>2. OpenPositions' = {[bracket |-> i, strategy |-> brackets'[i].draft.strategy,
              ticker |-> brackets'[i].draft.ticker, side |-> brackets'[i].draft.side,
              qty |-> brackets'[i].qty, entry |-> brackets'[i].entry, stop |-> brackets'[i].stop] :
                i \in {j \in Brackets : brackets'[j].st = "open"}}
      BY DEF OpenPositions, PositionOf
    <3>3. OpenPositions = {[bracket |-> i, strategy |-> brackets[i].draft.strategy,
              ticker |-> brackets[i].draft.ticker, side |-> brackets[i].draft.side,
              qty |-> brackets[i].qty, entry |-> brackets[i].entry, stop |-> brackets[i].stop] :
                i \in {j \in Brackets : brackets[j].st = "open"}}
      BY DEF OpenPositions, PositionOf
    <3>4. ASSUME NEW p \in OpenPositions' PROVE p \in (OpenPositions \ {a}) \union {c}
      <4>1. PICK i \in Brackets : brackets'[i].st = "open" /\
              p = [bracket |-> i, strategy |-> brackets'[i].draft.strategy,
              ticker |-> brackets'[i].draft.ticker, side |-> brackets'[i].draft.side,
              qty |-> brackets'[i].qty, entry |-> brackets'[i].entry, stop |-> brackets'[i].stop]
        BY <3>2
      <4>2. CASE i = b
        BY <4>1, <4>2
      <4>3. CASE i # b
        <5>1. p \in OpenPositions /\ p.bracket = i
          BY <3>1, <3>3, <4>1, <4>3
        <5> HIDE DEF a
        <5> QED BY <2>2, <4>3, <5>1
      <4> QED BY <4>2, <4>3
    <3>5. ASSUME NEW p \in OpenPositions, p # a PROVE p \in OpenPositions'
      <4>1. PICK i \in Brackets : brackets[i].st = "open" /\
              p = [bracket |-> i, strategy |-> brackets[i].draft.strategy,
              ticker |-> brackets[i].draft.ticker, side |-> brackets[i].draft.side,
              qty |-> brackets[i].qty, entry |-> brackets[i].entry, stop |-> brackets[i].stop]
        BY <3>3
      <4>2. p.bracket = i
        BY <4>1
      <4>3. i # b
        BY <2>5, <3>5, <4>2
      <4> QED BY <3>1, <3>2, <4>1, <4>3
    <3>6. c \in OpenPositions'
      BY <2>1, <3>1, <3>2
    <3> HIDE DEF a, c
    <3> QED BY <3>4, <3>5, <3>6
  <2> HIDE DEF a, c
  <2>7. c.qty <= a.qty /\ (StopDistance(c) = StopDistance(a) \/ StopDistance(c) = 0)
    <3>1. c.entry = a.entry /\ c.qty <= a.qty /\ (c.stop = a.stop \/ c.stop = c.entry) /\ c.entry \in Int
      BY <1>3, <2>1, <2>2, <2>3 DEF Lessened, Bracket
    <3> QED BY <3>1 DEF StopDistance
  <2>8. c \notin OpenPositions \ {a}
    BY <2>3, <2>5
  <2> QED BY <1>1, <2>2, <2>4, <2>6, <2>7, <2>8, SlippedReplaced
<1> QED BY <1>2, <1>3

\* A fill is at most its slippage further from the stop than the draft.
LEMMA SlippedPlaced ==
  ASSUME TypeInv, TypeInv', BookInv, RiskInv, IsFiniteSet(Slips), Quoted, PlaceBracket(Worker)
  PROVE  Slipped(OpenPositions')
<1> DEFINE new == CHOOSE c \in Brackets : c \in Free
           d   == procs[Worker].draft
           n   == procs[Worker].qty
<1>1. new \in Brackets /\ brackets[new].st = "none" /\ d \in Drafts
  BY DEF PlaceBracket, Free, At, TypeInv, GoodProc, OrderPcs, Procs
<1>2. PICK slip \in Slips :
        /\ brackets'[new].st = "open" /\ brackets'[new].draft = d /\ brackets'[new].qty = n
        /\ brackets'[new].entry = (IF d.side = "long" THEN d.entry + slip ELSE d.entry - slip)
        /\ brackets'[new].stop = d.stop
        /\ \A b \in Brackets \ {new} : brackets'[b] = brackets[b]
  BY <1>1, BracketKeys DEF PlaceBracket
<1>3. Fits(OpenRisk(OpenPositions) + n * StopDistance(d))
  BY <1>1 DEF PlaceBracket, RiskInv, RiskRoom
<1>4. brackets'[new] \in Bracket /\ d \in Draft
  BY <1>1, DraftsTyped DEF TypeInv, TypeOK
<1> HIDE DEF new, d, n
<1> DEFINE a == [bracket |-> new, strategy |-> brackets'[new].draft.strategy,
                 ticker |-> brackets'[new].draft.ticker, side |-> brackets'[new].draft.side,
                 qty |-> brackets'[new].qty, entry |-> brackets'[new].entry, stop |-> brackets'[new].stop]
<1>5. a \in Position
  BY <1>1, <1>2, <1>4 DEF Position, Draft, Bracket
<1>6. a.bracket = new /\ a.qty = n /\ a.stop = d.stop
      /\ a.entry = (IF d.side = "long" THEN d.entry + slip ELSE d.entry - slip)
  BY <1>2
<1>7. OpenPositions' = OpenPositions \union {a} /\ a \notin OpenPositions
  <2>1. OpenPositions' = {[bracket |-> i, strategy |-> brackets'[i].draft.strategy,
            ticker |-> brackets'[i].draft.ticker, side |-> brackets'[i].draft.side,
            qty |-> brackets'[i].qty, entry |-> brackets'[i].entry, stop |-> brackets'[i].stop] :
              i \in {j \in Brackets : brackets'[j].st = "open"}}
    BY DEF OpenPositions, PositionOf
  <2>2. OpenPositions = {[bracket |-> i, strategy |-> brackets[i].draft.strategy,
            ticker |-> brackets[i].draft.ticker, side |-> brackets[i].draft.side,
            qty |-> brackets[i].qty, entry |-> brackets[i].entry, stop |-> brackets[i].stop] :
              i \in {j \in Brackets : brackets[j].st = "open"}}
    BY DEF OpenPositions, PositionOf
  <2>3. ASSUME NEW p \in OpenPositions' PROVE p \in OpenPositions \union {a}
    <3>1. PICK i \in Brackets : brackets'[i].st = "open" /\
            p = [bracket |-> i, strategy |-> brackets'[i].draft.strategy,
            ticker |-> brackets'[i].draft.ticker, side |-> brackets'[i].draft.side,
            qty |-> brackets'[i].qty, entry |-> brackets'[i].entry, stop |-> brackets'[i].stop]
      BY <2>1
    <3>2. CASE i = new
      BY <3>1, <3>2
    <3>3. CASE i # new
      <4>1. brackets'[i] = brackets[i]
        BY <1>2, <3>1, <3>3
      <4> QED BY <2>2, <3>1, <4>1
    <3> QED BY <3>2, <3>3
  <2>4. ASSUME NEW p \in OpenPositions PROVE p \in OpenPositions' /\ p.bracket # new
    <3>1. PICK i \in Brackets : brackets[i].st = "open" /\
            p = [bracket |-> i, strategy |-> brackets[i].draft.strategy,
            ticker |-> brackets[i].draft.ticker, side |-> brackets[i].draft.side,
            qty |-> brackets[i].qty, entry |-> brackets[i].entry, stop |-> brackets[i].stop]
      BY <2>2
    <3>2. i # new /\ brackets'[i] = brackets[i]
      BY <1>1, <1>2, <3>1
    <3> QED BY <2>1, <3>1, <3>2
  <2>5. a \in OpenPositions'
    BY <1>1, <1>2, <2>1
  <2> HIDE DEF a
  <2> QED BY <1>6, <2>3, <2>4, <2>5
<1> HIDE DEF a
<1>8. StopDistance(d) \in Nat /\ StopDistance(a) <= StopDistance(d) + slip
  <2>1. d.entry \in Nat /\ d.stop \in Nat /\ slip \in Nat
    BY <1>4, PipelineAssumption DEF Draft
  <2> QED BY <1>6, <2>1 DEF StopDistance
<1>9. OpenPositions \subseteq Position /\ IsFiniteSet(OpenPositions)
  BY PositionsTyped, Counts DEF BookInv
<1> QED BY <1>3, <1>5, <1>6, <1>7, <1>8, <1>9, SlippedAdded

LEMMA ApprovedFits ==
  ASSUME TypeInv, NEW d \in Drafts, NEW seen, seen \subseteq Position, NEW killed,
         OpenPositions \subseteq seen, IsFiniteSet(seen),
         Verdict(d, Equity, seen, killed) = "approved"
  PROVE  Fits(OpenRisk(OpenPositions) + SizeFor(d, Equity) * StopDistance(d))
<1> DEFINE n == SizeFor(d, Equity)
           k == n * StopDistance(d)
<1>1. ~TooMuchRisk(d, n, Equity, seen)
  BY DEF Verdict
<1>2. n \in Nat
  BY SizeIsNat
<1>3. d \in Draft
  BY DraftsTyped
<1>4. StopDistance(d) \in Nat
  BY <1>3 DEF StopDistance, Draft
<1>5. k \in Nat
  BY <1>2, <1>4
<1>6. OpenRisk(seen) \in Nat /\ OpenRisk(OpenPositions) \in Nat /\ OpenRisk(OpenPositions) <= OpenRisk(seen)
  BY RiskWithin
<1>7. Limits(d.strategy).openRiskPct \in Nat /\ GlobalLimits.openRiskPct \in Nat
      /\ Limits(d.strategy).openRiskPct <= GlobalLimits.openRiskPct
  <2>1. GlobalLimits \in [LimitFields -> Nat] /\ Params[d.strategy] \in [LimitFields -> Nat]
    BY <1>3, LimitsAssumption, PipelineAssumption DEF Draft
  <2> QED BY <2>1 DEF Limits, LimitFields
<1>8. Fits(OpenRisk(seen) + k)
  <2> DEFINE r == RoundPct(OpenRisk(seen) + k, Equity)
  <2>1. ~(r > 10000 * Limits(d.strategy).openRiskPct)
    BY <1>1 DEF TooMuchRisk
  <2>2. r \in Int
    <3>1. 2000000 * (OpenRisk(seen) + k) + Equity \in Int /\ 2 * Equity \in Nat \ {0}
      BY <1>5, <1>6, PipelineAssumption
    <3> QED BY <3>1 DEF RoundPct
  <2> HIDE DEF r, k
  <2>3. r <= 10000 * GlobalLimits.openRiskPct
    BY <1>7, <2>1, <2>2
  <2> QED BY <2>3 DEF Fits, r
<1> HIDE DEF k
<1>9. OpenRisk(OpenPositions) + k <= OpenRisk(seen) + k
  BY <1>5, <1>6
<1>10. Fits(OpenRisk(OpenPositions) + k)
  BY <1>5, <1>6, <1>8, <1>9, LessFits
<1> QED BY <1>10 DEF k

LEMMA RoomStep ==
  ASSUME TypeInv, BookInv, RiskInv, Requests = {}, Quoted, [Next]_vars
  PROVE  RiskRoom'
<1> DEFINE w == procs[Worker]
<1>1. /\ procs \in [Procs -> GoodProc] /\ Worker \in Procs /\ w \in GoodProc /\ w \in Proc
      /\ IsFiniteSet(OpenIds) /\ NonePending
  BY DEF TypeInv, GoodProc, Procs, BookInv
<1>2. ASSUME NEW st, Become(Worker, st) PROVE procs'[Worker] = st
  BY <1>1, <1>2 DEF Become
<1>3. OpenPositions \subseteq Position /\ IsFiniteSet(OpenPositions)
  BY <1>1, PositionsTyped, Counts
<1>4. CASE procs'[Worker] = w /\ Frozen
  <2> SUFFICES ASSUME w.pc \in {"persist", "place"}, NEW d \in Drafts, w.draft = d
               PROVE  Fits(OpenRisk(OpenPositions') + w.qty * StopDistance(d))
    BY <1>4 DEF RiskRoom, At
  <2>1. Fits(OpenRisk(OpenPositions) + w.qty * StopDistance(d))
    BY DEF RiskInv, RiskRoom, At
  <2>2. ~PlaceBracket(Worker)
    <3>1. ASSUME PlaceBracket(Worker) PROVE procs'[Worker].pc = "mark"
      BY <1>1, <1>2, <3>1 DEF PlaceBracket, Proc
    <3> QED BY <1>4, <3>1
  <2>3. OpenPositions' \subseteq OpenPositions
    BY <1>1, <1>4, <2>2, StepShrinks DEF Frozen, Shrinks, OpenPositions, PositionOf
  <2>4. OpenRisk(OpenPositions) \in Nat /\ OpenRisk(OpenPositions') \in Nat
        /\ OpenRisk(OpenPositions') <= OpenRisk(OpenPositions)
    BY <1>3, <2>3, RiskWithin
  <2> DEFINE k == w.qty * StopDistance(d)
  <2>5. k \in Nat
    <3>1. w.qty \in Nat /\ d.entry \in Nat /\ d.stop \in Nat
      BY <1>1, DraftsTyped DEF Proc, Draft
    <3> QED BY <3>1 DEF StopDistance
  <2> HIDE DEF k
  <2>6. /\ OpenRisk(OpenPositions') + k <= OpenRisk(OpenPositions) + k
        /\ OpenRisk(OpenPositions') + k \in Int /\ OpenRisk(OpenPositions) + k \in Int
    BY <2>4, <2>5
  <2>7. Fits(OpenRisk(OpenPositions') + k)
    BY <2>1, <2>6, LessFits DEF k
  <2> QED BY <2>7 DEF k
<1>5. CASE RiskAndModeGate(Worker)
  <2>1. CASE Verdict(w.draft, Equity, w.seen, Active) = "approved"
             /\ Become(Worker, [w EXCEPT !.pc = "persist", !.seen = {}, !.by = "auto",
                                         !.qty = SizeFor(w.draft, Equity)])
    <3>1. w.pc = "risk" /\ w.draft \in Drafts /\ w.seen \subseteq Position
      BY <1>1, <1>5 DEF RiskAndModeGate, Gate, At, GoodProc, OrderPcs, Proc
    <3>2. OpenPositions \subseteq w.seen /\ IsFiniteSet(w.seen)
      BY <3>1 DEF BookInv, WorkerRoom, At
    <3>3. Fits(OpenRisk(OpenPositions) + SizeFor(w.draft, Equity) * StopDistance(w.draft))
      BY <2>1, <3>1, <3>2, ApprovedFits
    <3>4. procs'[Worker].draft = w.draft /\ procs'[Worker].qty = SizeFor(w.draft, Equity)
      BY <1>1, <1>2, <2>1 DEF Proc
    <3>5. OpenPositions' = OpenPositions
      BY <1>5 DEF RiskAndModeGate, Gate, OpenPositions, PositionOf
    <3> QED BY <3>3, <3>4, <3>5 DEF RiskRoom
  <2>2. CASE Become(Worker, Idle) \/ Become(Worker, SignalDone(Worker))
    <3>1. procs'[Worker].pc \in {"idle", "scan"}
      <4>1. Idle.pc = "idle" /\ SignalDone(Worker).pc = "scan"
        BY DEF Idle, SignalDone
      <4> QED BY <1>2, <2>2, <4>1
    <3> QED BY <3>1 DEF RiskRoom, At
  <2> QED BY <1>5, <2>1, <2>2 DEF RiskAndModeGate, Gate
<1>6. CASE PersistProposal(Worker)
  <2> DEFINE p == CHOOSE q \in Proposals : rows[q].status = "none"
  <2>1. w.pc = "persist" /\ (procs'[Worker] = [w EXCEPT !.pc = "place", !.p = p]
                              \/ procs'[Worker] = SignalDone(Worker))
    BY <1>2, <1>6 DEF PersistProposal, At
  <2> HIDE DEF p
  <2>2. \/ procs'[Worker].draft = w.draft /\ procs'[Worker].qty = w.qty
        \/ procs'[Worker].pc \in {"idle", "scan"}
    BY <1>1, <2>1 DEF Proc, SignalDone, Idle
  <2>3. OpenPositions' = OpenPositions
    BY <1>6 DEF PersistProposal, OpenPositions, PositionOf
  <2> QED BY <2>1, <2>2, <2>3 DEF RiskInv, RiskRoom, At
<1>7. ASSUME NEW d \in Drafts, ReadPositions(Worker, d) PROVE RiskRoom'
  <2>1. procs'[Worker].pc = "risk"
    BY <1>1, <1>2, <1>7 DEF ReadPositions, Proc
  <2> QED BY <2>1 DEF RiskRoom, At
<1>8. CASE procs'[Worker].pc \notin {"risk", "persist", "place"}
  BY <1>8 DEF RiskRoom, At
<1> QED BY <1>1, <1>4, <1>5, <1>6, <1>7, <1>8, WorkerWaits

\* What the monitor has read dates from its last step.
LEMMA ManageWaits ==
  ASSUME TypeInv, Requests = {}, [Next]_vars, procs'[Worker].pc = "manage"
  PROVE  \/ procs'[Worker] = procs[Worker]
         \/ ReadOwnPositions
         \/ At(Worker, "manage") /\ procs'[Worker].seen \subseteq procs[Worker].seen
<1>1. procs \in [Procs -> Proc] /\ Worker \in Procs /\ procs[Worker] \in Proc
  BY DEF TypeInv, TypeOK, Procs
<1>2. procs'[Worker] # Idle /\ procs'[Worker] # SignalDone(Worker)
  <2>1. Idle.pc = "idle" /\ SignalDone(Worker).pc = "scan"
    BY DEF Idle, SignalDone
  <2> QED BY <2>1
<1>3. ASSUME NEW st, Become(Worker, st) PROVE procs'[Worker] = st
  BY <1>1, <1>3 DEF Become
<1>4. ASSUME NEW x \in Procs, ScanStep(x) PROVE FALSE
  <2>1. x = Worker
    BY DEF Procs
  <2>2. ASSUME NEW s \in Strategies, StartScan(Worker, s) PROVE FALSE
    BY <1>3, <2>2 DEF StartScan, Idle
  <2>3. ASSUME NEW d \in Drafts, ReadPositions(Worker, d) PROVE FALSE
    BY <1>1, <1>3, <2>3 DEF ReadPositions, Proc
  <2>4. ~RiskAndModeGate(Worker)
    BY <1>1, <1>2, <1>3 DEF RiskAndModeGate, Gate, Proc
  <2>5. ~PersistProposal(Worker)
    BY <1>1, <1>2, <1>3 DEF PersistProposal, Proc
  <2> QED BY <1>4, <2>1, <2>2, <2>3, <2>4, <2>5 DEF ScanStep
<1>5. ASSUME NEW x \in Procs, OrderStep(x) PROVE FALSE
  <2>1. x = Worker
    BY DEF Procs
  <2>2. ~PlaceBracket(Worker) /\ ~MarkExecuted(Worker)
    BY <1>1, <1>3 DEF PlaceBracket, MarkExecuted, Proc
  <2>3. ~AuditExecution(Worker)
    BY <1>2, <1>3 DEF AuditExecution
  <2> QED BY <1>5, <2>1, <2>2, <2>3 DEF OrderStep
<1>6. CASE SweepStep
  <2>1. ~StartSweep
    BY <1>3 DEF StartSweep, Idle
  <2>2. ASSUME NEW p \in Proposals, ExpireRow(p) PROVE FALSE
    BY <1>1, <1>3, <2>2 DEF ExpireRow, Proc
  <2>3. ~AuditExpiry
    BY <1>1, <1>2, <1>3 DEF AuditExpiry, Proc
  <2> QED BY <1>6, <2>1, <2>2, <2>3 DEF SweepStep
<1>7. CASE MonitorStep
  <2>1. ASSUME NEW s \in Strategies, StartMonitor(s) PROVE FALSE
    BY <1>3, <2>1 DEF StartMonitor, Idle
  <2>2. ASSUME NEW b \in Brackets, ReconcileTrade(b) PROVE FALSE
    BY <1>1, <1>3, <2>2 DEF ReconcileTrade, At, Proc
  <2>3. ASSUME NEW pos \in procs[Worker].seen, ManagePosition(pos)
        PROVE  At(Worker, "manage") /\ procs'[Worker].seen \subseteq procs[Worker].seen
    <3>1. procs'[Worker] = [procs[Worker] EXCEPT !.seen = @ \ {pos}]
      BY <1>2, <1>3, <2>3 DEF ManagePosition, LeavePosition, ClosePosition, ScaleOut, MoveStop, Managed
    <3> QED BY <1>1, <2>3, <3>1 DEF ManagePosition, Proc
  <2>4. ~EndMonitor
    BY <1>2, <1>3 DEF EndMonitor
  <2> QED BY <1>7, <2>1, <2>2, <2>3, <2>4 DEF MonitorStep
<1>8. CASE Environment
  BY <1>1, <1>2, <1>8 DEF Environment, FillEntry, ExitLegFills, ExpiryPasses, SetMode, Trip,
     DemoteAllToWatch, Rearm, AwaitThrows, OutOfIds, Restart, Become, Procs
<1>9. CASE EndScan
  BY <1>2, <1>3, <1>9 DEF EndScan
<1>10. CASE UNCHANGED vars
  BY <1>10 DEF vars
<1> QED
  BY <1>4, <1>5, <1>6, <1>7, <1>8, <1>9, <1>10 DEF Next

LEMMA OneMember ==
  ASSUME NEW S, IsFiniteSet(S), Cardinality(S) <= 1, NEW x \in S, NEW y \in S
  PROVE  x = y
<1> SUFFICES ASSUME x # y PROVE FALSE
  OBVIOUS
<1>1. IsFiniteSet({x, y}) /\ Cardinality({x, y}) <= Cardinality(S)
  <2>1. {x, y} \in SUBSET S
    OBVIOUS
  <2> QED BY <2>1, FS_Subset
<1>2. Cardinality({x}) = 1 /\ IsFiniteSet({x}) /\ y \notin {x}
  BY FS_Singleton
<1>3. Cardinality({x} \union {y}) = 1 + 1
  BY <1>2, FS_AddElement
<1>4. {x} \union {y} = {x, y}
  OBVIOUS
<1>5. Cardinality(S) \in Nat /\ Cardinality({x, y}) = 1 + 1
  BY <1>3, <1>4, FS_CardinalityType
<1> QED BY <1>1, <1>5

LEMMA EntriesStep ==
  ASSUME TypeInv, BookInv, FirstInv, RiskInv, Requests = {}, Quoted, GlobalLimits.perTicker = 1,
         [Next]_vars
  PROVE  EntriesKnown'
<1> SUFFICES ASSUME procs'[Worker].pc = "manage", NEW pos \in procs'[Worker].seen, NEW b \in Brackets,
                    brackets'[b].st = "open", brackets'[b].draft.ticker = pos.ticker
             PROVE  brackets'[b].entry = pos.entry
  BY DEF EntriesKnown, At, OpenIds
<1>1. procs \in [Procs -> Proc] /\ Worker \in Procs /\ procs[Worker] \in Proc
  BY DEF TypeInv, TypeOK, Procs
<1>2. ~PlaceBracket(Worker)
  <2>1. ASSUME PlaceBracket(Worker) PROVE procs'[Worker].pc = "mark"
    BY <1>1, <2>1 DEF PlaceBracket, Become, Proc
  <2> QED BY <2>1
<1>3. brackets[b].st = "open" /\ brackets'[b].draft = brackets[b].draft
  BY <1>2, StepShrinks DEF BookInv, Shrinks
<1>4. Frozen \/ \E c \in OpenIds : Lessened(c)
  BY <1>2, StepLessens DEF BookInv, FirstInv, RiskInv
<1>5. brackets'[b].entry = brackets[b].entry
  BY <1>4 DEF Frozen, Lessened
<1>6. CASE At(Worker, "manage") /\ procs'[Worker].seen \subseteq procs[Worker].seen
  BY <1>3, <1>5, <1>6 DEF RiskInv, EntriesKnown, OpenIds
<1>7. CASE procs'[Worker] = procs[Worker]
  BY <1>6, <1>7 DEF At
<1>8. CASE ReadOwnPositions
  <2>1. procs'[Worker].seen = {p \in OpenPositions : p.strategy = procs[Worker].strategy}
    BY <1>1, <1>8 DEF ReadOwnPositions, Become, Proc
  <2>2. PICK c \in Brackets : brackets[c].st = "open" /\ pos = PositionOf(c)
    BY <2>1 DEF OpenPositions
  <2>3. pos.ticker = brackets[c].draft.ticker /\ pos.entry = brackets[c].entry
    BY <2>2 DEF PositionOf
  <2> DEFINE T == OnTicker(pos.ticker)
  <2>4. b \in T /\ c \in T
    BY <1>3, <2>2, <2>3 DEF OnTicker, OpenIds
  <2>5. IsFiniteSet(T) /\ Cardinality(T) <= 1
    <3>1. pos.ticker \in Tickers
      BY <2>2, <2>3, DraftsTyped DEF TypeInv, GoodBracket, Draft
    <3> QED BY <3>1, Counts DEF BookInv, Capped
  <2> HIDE DEF T
  <2>6. b = c
    BY <2>4, <2>5, OneMember
  <2> QED BY <1>5, <2>3, <2>6
<1> QED BY <1>6, <1>7, <1>8, ManageWaits

LEMMA RiskStep ==
  ASSUME TypeInv, TypeInv', BookInv, FirstInv, RiskInv, Requests = {}, Quoted,
         GlobalLimits.perTicker = 1, IsFiniteSet(Slips), [Next]_vars
  PROVE  RiskInv'
<1>1. RiskRoom' /\ EntriesKnown'
  BY RoomStep, EntriesStep
<1>2. Slipped(OpenPositions')
  <2>1. CASE PlaceBracket(Worker)
    BY <2>1, SlippedPlaced
  <2>2. CASE ~PlaceBracket(Worker)
    <3>1. Shrinks /\ (Frozen \/ \E b \in OpenIds : Lessened(b))
      BY <2>2, StepShrinks, StepLessens DEF BookInv, FirstInv, RiskInv
    <3> QED BY <3>1, SlippedKept DEF BookInv, RiskInv
  <2> QED BY <2>1, <2>2
<1>3. Slipped(OpenPositions)'
  BY <1>2 DEF Slipped, Fits
<1> QED BY <1>1, <1>3 DEF RiskInv

\* A worker that nobody orders beside keeps the open risk within the global cap but for the
\* slippage of its last entry, though the monitor scales out, moves stops and closes as it
\* likes: the gate adds the draft to every position there is, and under the code's cap of one
\* position a ticker the stop the monitor moves is that of the position it looked at.
THEOREM OpenRiskHeld ==
  ASSUME Requests = {}, Quoted, GlobalLimits.perTicker = 1, IsFiniteSet(Slips)
  PROVE  Spec => []OpenRiskBounded
<1>1. Init => FirstInv /\ RiskInv
  <2> SUFFICES ASSUME Init PROVE FirstInv /\ RiskInv
    OBVIOUS
  <2>1. FirstInv
    BY FirstInit
  <2>2. OpenPositions = {} /\ procs[Worker] = Idle
    BY DEF Init, NoBracket, OpenPositions, Procs
  <2>3. OpenRisk(OpenPositions) = 0
    BY <2>2, SumOfNone DEF OpenRisk
  <2>4. Fits(0)
    <3>1. Equity \in Nat \ {0} /\ GlobalLimits.openRiskPct \in Nat
      BY PipelineAssumption, LimitsAssumption DEF LimitFields
    <3>2. (2000000 * 0 + Equity) \div (2 * Equity) = 0
      BY <3>1
    <3> QED BY <3>1, <3>2 DEF Fits, RoundPct
  <2>5. RiskInv
    BY <2>2, <2>3, <2>4 DEF RiskInv, Slipped, RiskRoom, EntriesKnown, At, Idle
  <2> QED BY <2>1, <2>5
<1>2. TypeInv /\ BookInv /\ [Next]_vars => BookInv'
  BY BookStep
<1>3. TypeInv /\ TypeInv' /\ BookInv /\ FirstInv /\ [Next]_vars => FirstInv'
  BY FirstStep
<1>4. TypeInv /\ TypeInv' /\ BookInv /\ FirstInv /\ RiskInv /\ [Next]_vars => RiskInv'
  BY RiskStep
<1>5. TypeInv /\ BookInv /\ RiskInv => OpenRiskBounded
  <2> SUFFICES ASSUME TypeInv, BookInv, RiskInv, OpenPositions # {}
               PROVE  \E pos \in OpenPositions : Fits(OpenRisk(OpenPositions) - pos.qty * Max(Slips))
    BY DEF OpenRiskBounded, Fits
  <2>1. CASE Fits(OpenRisk(OpenPositions))
    <3>1. PICK pos \in OpenPositions : TRUE
      OBVIOUS
    <3>2. pos \in Position /\ OpenRisk(OpenPositions) \in Nat
      BY PositionsTyped, Counts, RiskWithin DEF BookInv
    <3> DEFINE k == pos.qty * Max(Slips)
    <3>3. k \in Nat
      BY <3>2, MostSlip, RiskOfOne
    <3> HIDE DEF k
    <3>4. Fits(OpenRisk(OpenPositions) - k)
      BY <2>1, <3>2, <3>3, LessFits
    <3> QED BY <3>4 DEF k
  <2> QED BY <2>1 DEF RiskInv, Slipped
<1> QED BY <1>1, <1>2, <1>3, <1>4, <1>5, BookBegins, TypeInit, TypeStep, PTL DEF Spec
============================================================================
