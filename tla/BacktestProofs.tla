----------------------------- MODULE BacktestProofs -----------------------------
(***************************************************************************)
(* Proofs about Backtest, for every history of candles, any variants and   *)
(* whatever is written while they run: a comparison keeps its types, each  *)
(* saved report adds up, and two reports of one parameter over the same    *)
(* candles are the same.  The portfolio, the scan and the performance are  *)
(* folds; that a fold keeps what its steps keep is shown once for the      *)
(* function FoldLeft is defined by, and carried over to each of them.      *)
(* Last, that the book, the plug-ins, the screening and the replay keep    *)
(* their types beside each other.                                          *)
(***************************************************************************)
EXTENDS SignalProofs, PipelineProofs, MCBook

-----------------------------------------------------------------------------
(* What a fold computes                                                    *)

\* The largest of some indices.
LEMMA LargestIn ==
  ASSUME NEW n \in Nat, NEW s \in SUBSET (1..n), s # {}
  PROVE  Max(s) \in s /\ Max(s) \in 1..n /\ \A i \in s : i <= Max(s)
<1>1. s \subseteq Nat /\ \A x \in s : x <= n
  OBVIOUS
<1>2. Max(s) \in s /\ \A i \in s : i <= Max(s)
  BY <1>1, GreatestOf
<1> QED BY <1>2

LEMMA IndicesFinite ==
  ASSUME NEW n \in Nat, NEW s \in SUBSET (1..n)
  PROVE  IsFiniteSet(s)
<1>1. IsFiniteSet(1..n)
  BY FS_Interval
<1> QED BY <1>1, FS_Subset

Recursion(it, n, g, base) ==
  [s \in SUBSET (1..n) |-> IF s = {} THEN base ELSE g[<<Max(s), it[s \ {Max(s)}]>>]]

\* Each step takes what is of the type of the steps before it to what is of its own.
StepsKeep(n, g, base, Typ) ==
  /\ base \in Typ[{}]
  /\ \A s \in SUBSET (1..n) : s # {} =>
       \A v \in Typ[s \ {Max(s)}] : g[<<Max(s), v>>] \in Typ[s]

Solution(it, n, g, base, Typ) ==
  it = Recursion(it, n, g, base) /\ \A s \in SUBSET (1..n) : it[s] \in Typ[s]

\* The recursion behind a fold over n steps, each a value of g, has a solution, and it is
\* of the type the steps keep.
LEMMA FoldExists ==
  ASSUME NEW n \in Nat, NEW g, NEW base, NEW Typ, StepsKeep(n, g, base, Typ)
  PROVE  \E it : Solution(it, n, g, base, Typ)
<1> USE DEF StepsKeep
<1> DEFINE Solves(it, k) ==
             /\ it = [s \in SUBSET (1..k) |-> it[s]]
             /\ \A s \in SUBSET (1..k) :
                  /\ it[s] = IF s = {} THEN base ELSE g[<<Max(s), it[s \ {Max(s)}]>>]
                  /\ it[s] \in Typ[s]
           Unsolved == {k \in 0..n : ~\E it : Solves(it, k)}
<1>1. Unsolved = {}
  <2> SUFFICES ASSUME Unsolved # {} PROVE FALSE
    OBVIOUS
  <2>1. PICK k \in Unsolved : \A j \in Unsolved : k <= j
    <3>1. Unsolved \subseteq Nat
      OBVIOUS
    <3> HIDE DEF Unsolved
    <3> QED BY <3>1, LeastOf
  <2>2. k \in 0..n /\ ~\E it : Solves(it, k)
    OBVIOUS
  <2>3. k # 0
    <3> SUFFICES ASSUME k = 0 PROVE FALSE
      OBVIOUS
    <3> DEFINE it == [s \in SUBSET (1..0) |-> base]
    <3>1. SUBSET (1..0) = {{}}
      OBVIOUS
    <3>2. Solves(it, 0)
      BY <3>1
    <3> HIDE DEF it, Solves
    <3> QED BY <2>2, <3>2
  <2>4. k - 1 \in 0..n /\ k \in 1..n
    BY <2>2, <2>3
  <2>5. PICK old : Solves(old, k - 1)
    <3>1. k - 1 \notin Unsolved
      <4>1. k \in Int /\ k - 1 \in Int /\ ~(k <= k - 1)
        BY <2>2
      <4> HIDE DEF Unsolved
      <4> QED BY <2>1, <4>1
    <3> HIDE DEF Solves
    <3> QED BY <2>4, <3>1
  <2> DEFINE it == [s \in SUBSET (1..k) |-> IF k \in s THEN g[<<k, old[s \ {k}]>>] ELSE old[s]]
  <2>6. ASSUME NEW s \in SUBSET (1..k)
        PROVE  /\ it[s] = IF s = {} THEN base ELSE g[<<Max(s), it[s \ {Max(s)}]>>]
               /\ it[s] \in Typ[s]
    <3>1. CASE k \in s
      <4>1. Max(s) = k
        <5>1. k \in Nat /\ s # {} /\ \A i \in s : i <= k
          BY <2>4, <3>1
        <5>2. Max(s) \in s /\ k <= Max(s) /\ Max(s) \in 1..k
          BY <3>1, <5>1, LargestIn
        <5> QED BY <5>1, <5>2
      <4>2. s \ {k} \in SUBSET (1..(k - 1)) /\ s \ {k} \in SUBSET (1..k) /\ s \in SUBSET (1..n)
        BY <2>4
      <4>3. it[s \ {k}] = old[s \ {k}] /\ it[s] = g[<<k, old[s \ {k}]>>]
        BY <3>1, <4>2
      <4>4. old[s \ {k}] \in Typ[s \ {k}]
        BY <2>5, <4>2
      <4>5. g[<<k, old[s \ {k}]>>] \in Typ[s]
        BY <3>1, <4>1, <4>2, <4>4
      <4> QED BY <3>1, <4>1, <4>3, <4>5
    <3>2. CASE k \notin s
      <4>1. s \in SUBSET (1..(k - 1)) /\ s \ {Max(s)} \in SUBSET (1..k)
        BY <2>4, <3>2
      <4>2. it[s] = old[s] /\ it[s \ {Max(s)}] = old[s \ {Max(s)}]
        BY <3>2, <4>1
      <4> QED BY <2>5, <4>1, <4>2
    <3> QED BY <3>1, <3>2
  <2>7. it = [s \in SUBSET (1..k) |-> it[s]]
    OBVIOUS
  <2>8. Solves(it, k)
    <3> HIDE DEF it
    <3> QED BY <2>6, <2>7
  <2> HIDE DEF Solves, it
  <2> QED BY <2>2, <2>8
<1>2. PICK it : Solves(it, n)
  <2>1. n \in 0..n
    OBVIOUS
  <2>2. n \notin Unsolved
    BY <1>1
  <2> HIDE DEF Solves
  <2> QED BY <2>1, <2>2
<1>3. [s \in SUBSET (1..n) |-> it[s]] = Recursion(it, n, g, base)
  BY <1>2 DEF Recursion
<1>4. it = Recursion(it, n, g, base)
  BY <1>2, <1>3
<1> QED BY <1>2, <1>4 DEF Solution

\* What every step keeps holds of the whole.
LEMMA FoldKeeps ==
  ASSUME NEW n \in Nat, NEW it, NEW Typ, it[{}] \in Typ[{}],
         \A s \in SUBSET (1..n) : s # {} /\ it[s \ {Max(s)}] \in Typ[s \ {Max(s)}] => it[s] \in Typ[s]
  PROVE  it[1..n] \in Typ[1..n]
<1> DEFINE D   == 1..n
           Bad == {s \in SUBSET D : it[s] \notin Typ[s]}
<1>1. Bad = {}
  <2> SUFFICES ASSUME Bad # {} PROVE FALSE
    OBVIOUS
  <2>1. PICK T \in Bad : \A U \in Bad : U \subseteq T => U = T
    <3>1. Bad \in SUBSET SUBSET D /\ IsFiniteSet(D)
      BY FS_Interval
    <3> HIDE DEF Bad, D
    <3> QED BY <3>1, SmallestSet
  <2>2. T \in SUBSET D /\ T # {} /\ it[T] \notin Typ[T]
    OBVIOUS
  <2>3. PICK m \in T : m = Max(T)
    BY <2>2, LargestIn
  <2>4. T \ {m} \in SUBSET D /\ T \ {m} \subseteq T /\ T \ {m} # T
    BY <2>2
  <2>5. T \ {m} \notin Bad
    <3> HIDE DEF Bad
    <3> QED BY <2>1, <2>4
  <2> QED BY <2>2, <2>3, <2>4, <2>5
<1>2. D \in SUBSET D
  OBVIOUS
<1> QED BY <1>1, <1>2

-----------------------------------------------------------------------------
(* The portfolio                                                           *)

Many == Len(Gappers)

LEMMA GappersAre ==
  /\ Many \in Nat /\ DOMAIN Gappers = 1..Many
  /\ \A i \in 1..Many : Gappers[i] \in Screened
BY BacktestAssumption DEF Many, Screened

Trades == [pnl : Int, closedAt : Nat]

\* How many orders were executed, and positions closed.
Orders(kinds)   == Cardinality({i \in DOMAIN kinds : kinds[i] = "executed"})
Exits(positions) == Cardinality({i \in DOMAIN positions : positions[i].status = "closed"})

Sims == [marks : [Screened -> Nat], brackets : Seq(Positions), closed : Seq(Trades)]

\* A portfolio of n orders; each that is closed is a trade.
Folios(n) == {f \in Sims : Len(f.brackets) = n /\ Len(f.closed) = Exits(f.brackets)}

\* What a run has come to: each order it executed is in its portfolio.
Runs == {r \in [sim : Sims, kinds : Seq(Outcomes)] : r.sim \in Folios(Orders(r.kinds))}

LEMMA FolioIs ==
  ASSUME NEW n \in Nat, NEW f \in Folios(n)
  PROVE  /\ f \in Sims /\ f \in [marks : [Screened -> Nat], brackets : Seq(Positions), closed : Seq(Trades)]
         /\ Len(f.brackets) = n /\ DOMAIN f.brackets = 1..n
         /\ Len(f.closed) = Exits(f.brackets)
         /\ \A i \in 1..n : f.brackets[i] \in Positions
BY DEF Folios, Sims

LEMMA PositionIs ==
  ASSUME NEW p \in Positions
  PROVE  /\ p.stop \in Nat /\ p.target \in Nat /\ p.entry \in Nat
         /\ \A e \in Nat : [p EXCEPT !.status = "open", !.entry = e] \in Positions
         /\ [p EXCEPT !.status = "closed"] \in Positions
BY DEF Positions

LEMMA EnteredKeeps ==
  ASSUME NEW n \in Nat, NEW f \in Folios(n), NEW i \in 1..n, NEW t \in Screened
  PROVE  Entered(f, i, t) \in Folios(n)
<1> DEFINE b == [f.brackets EXCEPT ![i] = [f.brackets[i] EXCEPT !.status = "open", !.entry = f.marks[t]]]
<1>1. SUFFICES ASSUME f.brackets[i].status = "pending"
               PROVE  [f EXCEPT !.brackets = b] \in Folios(n)
  <2>1. Entered(f, i, t) = f \/ (f.brackets[i].status = "pending" /\ Entered(f, i, t) = [f EXCEPT !.brackets = b])
    BY FolioIs DEF Entered
  <2> QED BY <1>1, <2>1
<1>2. b \in Seq(Positions) /\ Len(b) = n
  <2>1. f.marks[t] \in Nat /\ f.brackets[i] \in Positions
    BY FolioIs
  <2>2. [f.brackets[i] EXCEPT !.status = "open", !.entry = f.marks[t]] \in Positions
    BY <2>1, PositionIs
  <2> QED BY <2>2, FolioIs, ExceptSeq
<1>3. {k \in DOMAIN b : b[k].status = "closed"} = {k \in DOMAIN f.brackets : f.brackets[k].status = "closed"}
  BY <1>1, FolioIs
<1>4. Exits(b) = Exits(f.brackets)
  BY <1>3 DEF Exits
<1> HIDE DEF b
<1> QED BY <1>2, <1>4, FolioIs DEF Folios, Sims

LEMMA ClosedKeeps ==
  ASSUME NEW n \in Nat, NEW f \in Folios(n), NEW i \in 1..n, f.brackets[i].status # "closed",
         NEW price \in Nat, NEW at \in Nat
  PROVE  Closed(f, i, price, at) \in Folios(n)
<1> DEFINE b  == [f.brackets EXCEPT ![i] = [f.brackets[i] EXCEPT !.status = "closed"]]
           cl == Append(f.closed, [pnl |-> price - f.brackets[i].entry, closedAt |-> at])
           was == {k \in DOMAIN f.brackets : f.brackets[k].status = "closed"}
<1>1. Closed(f, i, price, at) = [f EXCEPT !.brackets = b, !.closed = cl]
  BY FolioIs DEF Closed
<1>2. b \in Seq(Positions) /\ Len(b) = n
  <2>1. [f.brackets[i] EXCEPT !.status = "closed"] \in Positions
    BY FolioIs, PositionIs
  <2> QED BY <2>1, FolioIs, ExceptSeq
<1>3. cl \in Seq(Trades) /\ Len(cl) = Len(f.closed) + 1
  <2>1. price - f.brackets[i].entry \in Int
    <3>1. f.brackets[i].entry \in Nat
      BY FolioIs, PositionIs
    <3> QED BY <3>1
  <2> QED BY <2>1, FolioIs DEF Trades
<1>4. {k \in DOMAIN b : b[k].status = "closed"} = was \union {i} /\ i \notin was
  <2>1. f.brackets \in Seq(Positions) /\ DOMAIN f.brackets = 1..n /\ i \in 1..n
    BY FolioIs
  <2>2. f.brackets[i] \in Positions
    BY <2>1
  <2>3. [f.brackets[i] EXCEPT !.status = "closed"].status = "closed"
    BY <2>2 DEF Positions
  <2>4. DOMAIN b = 1..n /\ b[i].status = "closed" /\ \A k \in 1..n : k # i => b[k] = f.brackets[k]
    BY <2>1, <2>3
  <2> HIDE DEF b
  <2> QED BY <2>1, <2>4
<1>5. IsFiniteSet(was)
  <2>1. was \in SUBSET (1..n)
    BY FolioIs
  <2> HIDE DEF was
  <2> QED BY <2>1, IndicesFinite
<1>6. Exits(b) = Exits(f.brackets) + 1
  <2> HIDE DEF b, was
  <2>1. Cardinality(was \union {i}) = Cardinality(was) + 1
    BY <1>4, <1>5, FS_AddElement
  <2> QED BY <1>4, <2>1 DEF Exits, was
<1> HIDE DEF b, cl
<1> QED BY <1>1, <1>2, <1>3, <1>6, FolioIs DEF Folios, Sims

\* What an exit leaves at is a price.
LEMMA ExitPriced ==
  ASSUME NEW p \in Positions, NEW bar \in Candles, ExitPrice(p, bar) # {}
  PROVE  Max(ExitPrice(p, bar)) \in Nat
<1>1. p.stop \in Nat /\ p.target \in Nat /\ 100 * bar.open \in Nat
  BY DEF Positions, Candles
<1>2. Min({p.stop, 100 * bar.open}) \in Nat
  <2>1. {p.stop, 100 * bar.open} \subseteq Nat /\ {p.stop, 100 * bar.open} # {}
    BY <1>1
  <2>2. Min({p.stop, 100 * bar.open}) \in {p.stop, 100 * bar.open}
    BY <2>1, LeastOf
  <2> QED BY <2>1, <2>2
<1>3. PICK x \in Nat : ExitPrice(p, bar) = {x}
  BY <1>1, <1>2 DEF ExitPrice
<1>4. Max({x}) \in {x}
  <2>1. {x} \subseteq Nat /\ {x} # {} /\ \A y \in {x} : y <= x
    OBVIOUS
  <2> QED BY <2>1, GreatestOf
<1> QED BY <1>3, <1>4

LEMMA ExitedKeeps ==
  ASSUME NEW n \in Nat, NEW f \in Folios(n), NEW i \in 1..n, NEW t, NEW bar \in Candles
  PROVE  Exited(f, i, t, bar) \in Folios(n)
<1>1. f.brackets[i] \in Positions
  BY FolioIs
<1>2. CASE f.brackets[i].status = "open" /\ ExitPrice(f.brackets[i], bar) # {}
  <2>1. Max(ExitPrice(f.brackets[i], bar)) \in Nat /\ bar.at \in Nat
    BY <1>1, <1>2, ExitPriced DEF Candles
  <2>2. Closed(f, i, Max(ExitPrice(f.brackets[i], bar)), bar.at) \in Folios(n)
    BY <1>2, <2>1, ClosedKeeps
  <2> QED BY <2>2 DEF Exited
<1>3. CASE ~(f.brackets[i].status = "open" /\ ExitPrice(f.brackets[i], bar) # {})
  BY <1>3 DEF Exited
<1> QED BY <1>2, <1>3

LEMMA FlattenedKeeps ==
  ASSUME NEW n \in Nat, NEW f \in Folios(n), NEW t \in Screened, NEW at \in Nat
  PROVE  Flattened(f, t, at) \in Folios(n)
<1> DEFINE last == Max({0} \union {i \in DOMAIN f.brackets : f.brackets[i].ticker = t})
<1>1. CASE last \in OpenOn(f, t)
  <2>1. last \in 1..n /\ f.brackets[last].status # "closed"
    BY <1>1, FolioIs DEF OpenOn
  <2>2. f.marks[t] \in Nat
    BY FolioIs
  <2>3. Closed(f, last, f.marks[t], at) \in Folios(n)
    BY <2>1, <2>2, ClosedKeeps
  <2> QED BY <2>3 DEF Flattened
<1>2. CASE last \notin OpenOn(f, t)
  BY <1>2 DEF Flattened
<1> QED BY <1>1, <1>2

LEMMA PlacedAdds ==
  ASSUME NEW n \in Nat, NEW f \in Folios(n), NEW t \in Screened, NEW plan,
         plan.stop \in Nat, plan.target \in Nat
  PROVE  Placed(f, t, plan) \in Folios(n + 1)
<1> DEFINE p == [ticker |-> t, stop |-> plan.stop, target |-> plan.target, entry |-> f.marks[t],
                 status |-> IF f.marks[t] = 0 THEN "pending" ELSE "open"]
           b == Append(f.brackets, p)
<1>1. p \in Positions /\ p.status # "closed"
  BY FolioIs DEF Positions
<1>2. Placed(f, t, plan) = [f EXCEPT !.brackets = b]
  BY DEF Placed
<1> HIDE DEF p
<1>3. b \in Seq(Positions) /\ Len(b) = n + 1 /\ DOMAIN b = 1..(n + 1)
  BY <1>1, FolioIs
<1>4. b[n + 1] = p /\ \A k \in 1..n : b[k] = f.brackets[k]
  BY <1>1, FolioIs
<1>5. {k \in DOMAIN b : b[k].status = "closed"} = {k \in DOMAIN f.brackets : f.brackets[k].status = "closed"}
  <2> HIDE DEF b
  <2>1. \A k \in 1..(n + 1) : b[k].status = "closed" <=> k \in 1..n /\ f.brackets[k].status = "closed"
    BY <1>1, <1>4
  <2> QED BY <1>3, <2>1, FolioIs
<1>6. Exits(b) = Exits(f.brackets)
  BY <1>5 DEF Exits
<1> HIDE DEF b
<1> QED BY <1>2, <1>3, <1>6, FolioIs DEF Folios, Sims

-----------------------------------------------------------------------------
(* The folds are what their recursions say                                 *)

EachSolved(sim, t, bar) ==
  CHOOSE it : it = [s \in SUBSET DOMAIN sim.brackets |->
    IF s = {} THEN [sim EXCEPT !.marks[t] = 100 * bar.close]
    ELSE LET x == Max(s)
             i == [j \in DOMAIN sim.brackets |-> j][x]
         IN Exited(Entered(it[s \ {x}], i, t), i, t, bar)]

LEMMA FedIs ==
  ASSUME NEW sim, NEW t, NEW bar
  PROVE  Fed(sim, t, bar) = EachSolved(sim, t, bar)[DOMAIN sim.brackets]
BY Zenon DEF Fed, EachSolved, FoldLeftDomain, FoldLeft, MapThenFoldSet

FeedSolved(sim, bars) ==
  CHOOSE it : it = [s \in SUBSET DOMAIN Gappers |->
                      IF s = {} THEN sim ELSE FedOn(it[s \ {Max(s)}], Gappers[Max(s)], bars)]

LEMMA FeedIs ==
  ASSUME NEW sim, NEW bars
  PROVE  FedAll(sim, bars) = FeedSolved(sim, bars)[DOMAIN Gappers]
BY Zenon DEF FedAll, FeedSolved, FoldLeft, MapThenFoldSet

FlattenSolved(sim, at) ==
  CHOOSE it : it = [s \in SUBSET DOMAIN Gappers |->
                      IF s = {} THEN sim ELSE Flattened(it[s \ {Max(s)}], Gappers[Max(s)], at)]

LEMMA FlattenIs ==
  ASSUME NEW sim, NEW at
  PROVE  FlattenedAll(sim, at) = FlattenSolved(sim, at)[DOMAIN Gappers]
BY Zenon DEF FlattenedAll, FlattenSolved, FoldLeft, MapThenFoldSet

ScanSolved(store, run, at, wait) ==
  CHOOSE it : it = [s \in SUBSET DOMAIN Gappers |->
                      IF s = {} THEN run ELSE Processed(store, it[s \ {Max(s)}], Gappers[Max(s)], at, wait)]

LEMMA ScanIs ==
  ASSUME NEW store, NEW run, NEW at, NEW wait
  PROVE  Scanned(store, run, at, wait) = ScanSolved(store, run, at, wait)[DOMAIN Gappers]
BY Zenon DEF Scanned, ScanSolved, FoldLeft, MapThenFoldSet

CountSolved(trades) ==
  CHOOSE it : it = [s \in SUBSET DOMAIN trades |->
                      IF s = {} THEN NoTrades ELSE Counted(it[s \ {Max(s)}], trades[Max(s)])]

LEMMA PerformanceIs ==
  ASSUME NEW trades
  PROVE  Performance(trades) = CountSolved(trades)[DOMAIN trades]
BY Zenon DEF Performance, CountSolved, FoldLeft, MapThenFoldSet

-----------------------------------------------------------------------------
(* What the folds keep                                                     *)

LEMMA FedKeepsStep ==
  ASSUME NEW n \in Nat, NEW f \in Folios(n), NEW i \in 1..n, NEW t \in Screened, NEW bar \in Candles
  PROVE  Exited(Entered(f, i, t), i, t, bar) \in Folios(n)
BY EnteredKeeps, ExitedKeeps

LEMMA FedKeeps ==
  ASSUME NEW n \in Nat, NEW f \in Folios(n), NEW t \in Screened, NEW bar \in Candles
  PROVE  Fed(f, t, bar) \in Folios(n)
<1> DEFINE Typ == [s \in SUBSET (1..n) |-> Folios(n)]
           g   == [p \in (1..n) \X Folios(n) |-> Exited(Entered(p[2], p[1], t), p[1], t, bar)]
           Rhs(it) == [s \in SUBSET (1..n) |->
                         IF s = {} THEN [f EXCEPT !.marks[t] = 100 * bar.close] ELSE Exited(Entered(it[s \ {Max(s)}], Max(s), t), Max(s), t, bar)]
<1>1. \A s \in SUBSET (1..n) : s # {} => Max(s) \in 1..n /\ s \ {Max(s)} \in SUBSET (1..n)
  BY LargestIn
<1>2. ASSUME NEW s \in SUBSET (1..n), s # {}, NEW v \in Typ[s \ {Max(s)}]
      PROVE  Exited(Entered(v, Max(s), t), Max(s), t, bar) \in Typ[s] /\ v \in Folios(n)
  <2>1. Max(s) \in 1..n /\ v \in Folios(n)
    BY <1>1, <1>2
  <2>2. Exited(Entered(v, Max(s), t), Max(s), t, bar) \in Folios(n)
    BY <2>1, FedKeepsStep
  <2> QED BY <2>1, <2>2
<1>3. \E it : it = Rhs(it)
  <2>1. [f EXCEPT !.marks[t] = 100 * bar.close] \in Typ[{}]
    <3>1. 100 * bar.close \in Nat
      BY DEF Candles
    <3>2. [f EXCEPT !.marks[t] = 100 * bar.close] \in Folios(n)
      BY <3>1, FolioIs DEF Folios, Sims
    <3> QED BY <3>2
  <2>2. ASSUME NEW s \in SUBSET (1..n), s # {}, NEW v \in Typ[s \ {Max(s)}]
        PROVE  g[<<Max(s), v>>] = Exited(Entered(v, Max(s), t), Max(s), t, bar) /\ g[<<Max(s), v>>] \in Typ[s]
    <3> HIDE DEF Typ
    <3> QED BY <1>1, <1>2, <2>2
  <2> HIDE DEF g, Typ
  <2>3. StepsKeep(n, g, [f EXCEPT !.marks[t] = 100 * bar.close], Typ)
    BY <2>1, <2>2 DEF StepsKeep
  <2>4. PICK it : Solution(it, n, g, [f EXCEPT !.marks[t] = 100 * bar.close], Typ)
    BY <2>3, FoldExists
  <2>5. Recursion(it, n, g, [f EXCEPT !.marks[t] = 100 * bar.close]) = Rhs(it)
    BY <1>1, <2>2, <2>4 DEF Recursion, Solution
  <2> QED BY <2>4, <2>5 DEF Solution
<1> DEFINE it == EachSolved(f, t, bar)
<1>4. it = Rhs(it)
  <2> DEFINE Each(h) == [s \in SUBSET DOMAIN f.brackets |->
                         IF s = {} THEN [f EXCEPT !.marks[t] = 100 * bar.close]
                         ELSE LET x == Max(s)
                                  i == [j \in DOMAIN f.brackets |-> j][x]
                              IN Exited(Entered(h[s \ {x}], i, t), i, t, bar)]
  <2>1. ASSUME NEW h PROVE Each(h) = Rhs(h)
    BY FolioIs, <1>1
  <2>2. \E h : h = Each(h)
    <3> HIDE DEF Each, Rhs
    <3> QED BY <1>3, <2>1
  <2>3. it = Each(it)
    BY <2>2 DEF EachSolved
  <2> HIDE DEF Each, Rhs, it
  <2> QED BY <2>1, <2>3
<1> HIDE DEF it
<1>5. it[{}] \in Typ[{}]
  <2>1. Rhs(it)[{}] = [f EXCEPT !.marks[t] = 100 * bar.close]
    OBVIOUS
  <2>2. [f EXCEPT !.marks[t] = 100 * bar.close] \in Typ[{}]
    <3>1. 100 * bar.close \in Nat
      BY DEF Candles
    <3>2. [f EXCEPT !.marks[t] = 100 * bar.close] \in Folios(n)
      BY <3>1, FolioIs DEF Folios, Sims
    <3> QED BY <3>2
  <2> QED BY <1>4, <2>1, <2>2
<1>6. ASSUME NEW s \in SUBSET (1..n), s # {}, it[s \ {Max(s)}] \in Typ[s \ {Max(s)}]
      PROVE  it[s] \in Typ[s]
  <2>1. Rhs(it)[s] = Exited(Entered(it[s \ {Max(s)}], Max(s), t), Max(s), t, bar)
    BY <1>6
  <2>2. Rhs(it)[s] \in Typ[s]
    <3> HIDE DEF Typ
    <3> QED BY <1>2, <1>6, <2>1
  <2> QED BY <1>4, <2>2
<1>7. it[1..n] \in Typ[1..n]
  <2> HIDE DEF Typ
  <2> QED BY <1>5, <1>6, FoldKeeps
<1>8. it[1..n] \in Folios(n)
  BY <1>7
<1> QED BY <1>8, FedIs, FolioIs DEF it

LEMMA FedOnKeeps ==
  ASSUME NEW n \in Nat, NEW f \in Folios(n), NEW t \in Screened,
         NEW bars \in [Screened -> SUBSET Candles]
  PROVE  FedOn(f, t, bars) \in Folios(n)
<1>1. CASE bars[t] = {}
  BY <1>1 DEF FedOn
<1>2. CASE bars[t] # {}
  <2>1. PICK bar \in Candles : bar = CHOOSE b \in bars[t] : TRUE
    BY <1>2
  <2>2. FedOn(f, t, bars) = Fed(f, t, bar)
    BY <1>2, <2>1 DEF FedOn
  <2> QED BY <2>2, FedKeeps
<1> QED BY <1>1, <1>2

LEMMA FedAllKeeps ==
  ASSUME NEW n \in Nat, NEW f \in Folios(n), NEW bars \in [Screened -> SUBSET Candles]
  PROVE  FedAll(f, bars) \in Folios(n)
<1> DEFINE Typ == [s \in SUBSET (1..Many) |-> Folios(n)]
           g   == [p \in (1..Many) \X Folios(n) |-> FedOn(p[2], Gappers[p[1]], bars)]
           Rhs(it) == [s \in SUBSET (1..Many) |->
                         IF s = {} THEN f ELSE FedOn(it[s \ {Max(s)}], Gappers[Max(s)], bars)]
<1>0. Many \in Nat
  BY GappersAre
<1>1. \A s \in SUBSET (1..Many) : s # {} => Max(s) \in 1..Many /\ s \ {Max(s)} \in SUBSET (1..Many)
  BY <1>0, LargestIn
<1>2. ASSUME NEW s \in SUBSET (1..Many), s # {}, NEW v \in Typ[s \ {Max(s)}]
      PROVE  FedOn(v, Gappers[Max(s)], bars) \in Typ[s] /\ v \in Folios(n)
  <2>1. Gappers[Max(s)] \in Screened /\ v \in Folios(n)
    BY <1>1, <1>2, GappersAre
  <2>2. FedOn(v, Gappers[Max(s)], bars) \in Folios(n)
    BY <2>1, FedOnKeeps
  <2> QED BY <2>1, <2>2
<1>3. \E it : it = Rhs(it)
  <2>1. f \in Typ[{}]
    OBVIOUS
  <2>2. ASSUME NEW s \in SUBSET (1..Many), s # {}, NEW v \in Typ[s \ {Max(s)}]
        PROVE  g[<<Max(s), v>>] = FedOn(v, Gappers[Max(s)], bars) /\ g[<<Max(s), v>>] \in Typ[s]
    <3> HIDE DEF Typ
    <3> QED BY <1>1, <1>2, <2>2
  <2> HIDE DEF g, Typ
  <2>3. StepsKeep(Many, g, f, Typ)
    BY <2>1, <2>2 DEF StepsKeep
  <2>4. PICK it : Solution(it, Many, g, f, Typ)
    BY <1>0, <2>3, FoldExists
  <2>5. Recursion(it, Many, g, f) = Rhs(it)
    BY <1>1, <2>2, <2>4 DEF Recursion, Solution
  <2> QED BY <2>4, <2>5 DEF Solution
<1> DEFINE it == FeedSolved(f, bars)
<1>4. it = Rhs(it)
  <2>1. FeedSolved(f, bars) = CHOOSE h : h = Rhs(h)
    BY GappersAre DEF FeedSolved
  <2> HIDE DEF Rhs
  <2> QED BY <1>3, <2>1
<1> HIDE DEF it
<1>5. it[{}] \in Typ[{}]
  <2>1. Rhs(it)[{}] = f
    OBVIOUS
  <2>2. f \in Typ[{}]
    OBVIOUS
  <2> QED BY <1>4, <2>1, <2>2
<1>6. ASSUME NEW s \in SUBSET (1..Many), s # {}, it[s \ {Max(s)}] \in Typ[s \ {Max(s)}]
      PROVE  it[s] \in Typ[s]
  <2>1. Rhs(it)[s] = FedOn(it[s \ {Max(s)}], Gappers[Max(s)], bars)
    BY <1>6
  <2>2. Rhs(it)[s] \in Typ[s]
    <3> HIDE DEF Typ
    <3> QED BY <1>2, <1>6, <2>1
  <2> QED BY <1>4, <2>2
<1>7. it[1..Many] \in Typ[1..Many]
  <2> HIDE DEF Typ
  <2> QED BY <1>0, <1>5, <1>6, FoldKeeps
<1>8. it[1..Many] \in Folios(n)
  BY <1>7
<1> QED BY <1>8, FeedIs, GappersAre DEF it

LEMMA FlattenedAllKeeps ==
  ASSUME NEW n \in Nat, NEW f \in Folios(n), NEW at \in Nat
  PROVE  FlattenedAll(f, at) \in Folios(n)
<1> DEFINE Typ == [s \in SUBSET (1..Many) |-> Folios(n)]
           g   == [p \in (1..Many) \X Folios(n) |-> Flattened(p[2], Gappers[p[1]], at)]
           Rhs(it) == [s \in SUBSET (1..Many) |->
                         IF s = {} THEN f ELSE Flattened(it[s \ {Max(s)}], Gappers[Max(s)], at)]
<1>0. Many \in Nat
  BY GappersAre
<1>1. \A s \in SUBSET (1..Many) : s # {} => Max(s) \in 1..Many /\ s \ {Max(s)} \in SUBSET (1..Many)
  BY <1>0, LargestIn
<1>2. ASSUME NEW s \in SUBSET (1..Many), s # {}, NEW v \in Typ[s \ {Max(s)}]
      PROVE  Flattened(v, Gappers[Max(s)], at) \in Typ[s] /\ v \in Folios(n)
  <2>1. Gappers[Max(s)] \in Screened /\ v \in Folios(n)
    BY <1>1, <1>2, GappersAre
  <2>2. Flattened(v, Gappers[Max(s)], at) \in Folios(n)
    BY <2>1, FlattenedKeeps
  <2> QED BY <2>1, <2>2
<1>3. \E it : it = Rhs(it)
  <2>1. f \in Typ[{}]
    OBVIOUS
  <2>2. ASSUME NEW s \in SUBSET (1..Many), s # {}, NEW v \in Typ[s \ {Max(s)}]
        PROVE  g[<<Max(s), v>>] = Flattened(v, Gappers[Max(s)], at) /\ g[<<Max(s), v>>] \in Typ[s]
    <3> HIDE DEF Typ
    <3> QED BY <1>1, <1>2, <2>2
  <2> HIDE DEF g, Typ
  <2>3. StepsKeep(Many, g, f, Typ)
    BY <2>1, <2>2 DEF StepsKeep
  <2>4. PICK it : Solution(it, Many, g, f, Typ)
    BY <1>0, <2>3, FoldExists
  <2>5. Recursion(it, Many, g, f) = Rhs(it)
    BY <1>1, <2>2, <2>4 DEF Recursion, Solution
  <2> QED BY <2>4, <2>5 DEF Solution
<1> DEFINE it == FlattenSolved(f, at)
<1>4. it = Rhs(it)
  <2>1. FlattenSolved(f, at) = CHOOSE h : h = Rhs(h)
    BY GappersAre DEF FlattenSolved
  <2> HIDE DEF Rhs
  <2> QED BY <1>3, <2>1
<1> HIDE DEF it
<1>5. it[{}] \in Typ[{}]
  <2>1. Rhs(it)[{}] = f
    OBVIOUS
  <2>2. f \in Typ[{}]
    OBVIOUS
  <2> QED BY <1>4, <2>1, <2>2
<1>6. ASSUME NEW s \in SUBSET (1..Many), s # {}, it[s \ {Max(s)}] \in Typ[s \ {Max(s)}]
      PROVE  it[s] \in Typ[s]
  <2>1. Rhs(it)[s] = Flattened(it[s \ {Max(s)}], Gappers[Max(s)], at)
    BY <1>6
  <2>2. Rhs(it)[s] \in Typ[s]
    <3> HIDE DEF Typ
    <3> QED BY <1>2, <1>6, <2>1
  <2> QED BY <1>4, <2>2
<1>7. it[1..Many] \in Typ[1..Many]
  <2> HIDE DEF Typ
  <2> QED BY <1>0, <1>5, <1>6, FoldKeeps
<1>8. it[1..Many] \in Folios(n)
  BY <1>7
<1> QED BY <1>8, FlattenIs, GappersAre DEF it

LEMMA CountWithin ==
  ASSUME NEW n \in Nat, NEW s \in SUBSET (1..n)
  PROVE  Cardinality(s) \in 0..n
<1>1. IsFiniteSet(1..n) /\ Cardinality(1..n) = n
  <2>1. 1 \in Int /\ n \in Int
    OBVIOUS
  <2>2. IsFiniteSet(1..n) /\ Cardinality(1..n) = IF 1 > n THEN 0 ELSE n - 1 + 1
    BY <2>1, FS_Interval
  <2> QED BY <2>2
<1>2. Cardinality(s) <= n /\ Cardinality(s) \in Nat
  BY <1>1, FS_Subset, FS_CardinalityType
<1> QED BY <1>2

\* The candles a scan reads.
LEMMA CandlesRead ==
  ASSUME NEW store \in [Screened -> Seq(Candles)], NEW t \in Screened, NEW at
  PROVE  CandlesAt(store, t, at) \in Seq(Candles)
<1>1. store[t] \in Seq(Candles)
  OBVIOUS
<1>2. Through(store[t], at) \in 0..Len(store[t])
  <2>1. {i \in DOMAIN store[t] : store[t][i].at <= at} \in SUBSET (1..Len(store[t]))
    BY <1>1
  <2>2. Len(store[t]) \in Nat
    BY <1>1
  <2> QED BY <2>1, <2>2, CountWithin DEF Through
<1>3. SubSeq(store[t], 1, Through(store[t], at)) \in Seq(Candles)
  BY <1>1, <1>2
<1>4. SeenBars \in Nat \ {0}
  BY BacktestAssumption
<1> QED BY <1>3, <1>4, LastBarsTyped DEF CandlesAt

LEMMA PlanPriced ==
  ASSUME NEW c \in Seq(Candles), c # <<>>
  PROVE  SnapbackPlan(c, GapClose).stop \in Nat /\ SnapbackPlan(c, GapClose).target \in Nat
<1>1. Latest(c) \in Candles /\ Len(c) \in DOMAIN c
  BY LatestIs
<1>2. Lows(c) \subseteq Nat /\ Lows(c) # {}
  <2>1. \A b \in Candles : b.low \in Nat
    BY DEF Candles
  <2>2. \A i \in DOMAIN c : c[i] \in Candles
    OBVIOUS
  <2> QED BY <1>1, <2>1, <2>2 DEF Lows
<1>3. Min(Lows(c)) \in Nat
  BY <1>2, LeastOf
<1>4. Latest(c).close \in Nat
  <2>1. \A b \in Candles : b.close \in Nat
    BY DEF Candles
  <2> QED BY <1>1, <2>1
<1>5. GapClose \in Nat
  BY BacktestAssumption
<1> QED BY <1>3, <1>4, <1>5 DEF SnapbackPlan

LEMMA OrdersCounted ==
  ASSUME NEW kinds \in Seq(Outcomes), NEW kind \in Outcomes
  PROVE  /\ Orders(kinds) \in Nat
         /\ Orders(Append(kinds, kind)) = IF kind = "executed" THEN Orders(kinds) + 1 ELSE Orders(kinds)
<1> DEFINE was == {i \in DOMAIN kinds : kinds[i] = "executed"}
           ks  == Append(kinds, kind)
           is  == {i \in DOMAIN ks : ks[i] = "executed"}
           n   == Len(kinds)
<1>1. was \in SUBSET (1..n) /\ n \in Nat /\ n + 1 \notin was
  OBVIOUS
<1>2. is = IF kind = "executed" THEN was \union {n + 1} ELSE was
  OBVIOUS
<1> HIDE DEF was, is, n, ks
<1>3. IsFiniteSet(was)
  BY <1>1, IndicesFinite
<1>4. Cardinality(was) \in Nat /\ Cardinality(was \union {n + 1}) = Cardinality(was) + 1
  BY <1>1, <1>3, FS_CardinalityType, FS_AddElement
<1> QED BY <1>2, <1>4 DEF Orders, was, is, ks

LEMMA RunIs ==
  ASSUME NEW kinds \in Seq(Outcomes), NEW f \in Folios(Orders(kinds))
  PROVE  [sim |-> f, kinds |-> kinds] \in Runs
BY DEF Runs, Folios

LEMMA ProcessedKeeps ==
  ASSUME NEW store \in [Screened -> Seq(Candles)], NEW run \in Runs, NEW t \in Screened, NEW at, NEW wait
  PROVE  Processed(store, run, t, at, wait) \in Runs
<1> DEFINE c    == CandlesAt(store, t, at)
           kind == OutcomeOf(run.sim, t, c)
           n    == Orders(run.kinds)
<1>1. CASE Reclaims(c, at, wait)
  <2>1. c \in Seq(Candles) /\ c # <<>>
    BY <1>1, CandlesRead DEF Reclaims
  <2>2. kind \in Outcomes
    BY DEF OutcomeOf, Outcomes
  <2> HIDE DEF c, kind
  <2>3. run.kinds \in Seq(Outcomes) /\ run.sim \in Folios(n) /\ n \in Nat
    BY OrdersCounted, <2>2 DEF Runs
  <2>4. Append(run.kinds, kind) \in Seq(Outcomes)
    BY <2>2, <2>3
  <2>5. CASE kind = "executed"
    <3> DEFINE f == Placed(run.sim, t, SnapbackPlan(c, GapClose))
               ks == Append(run.kinds, kind)
    <3>1. f \in Folios(n + 1)
      BY <2>1, <2>3, PlanPriced, PlacedAdds
    <3>2. Orders(ks) = n + 1
      BY <2>2, <2>3, <2>5, OrdersCounted
    <3>3. Processed(store, run, t, at, wait) = [sim |-> f, kinds |-> ks]
      BY <1>1, <2>5 DEF Processed, c, kind
    <3> HIDE DEF n, f, ks
    <3> QED BY <2>4, <3>1, <3>2, <3>3, RunIs DEF ks
  <2>6. CASE kind # "executed"
    <3> DEFINE ks == Append(run.kinds, kind)
    <3>1. Orders(ks) = n
      BY <2>2, <2>3, <2>6, OrdersCounted
    <3>2. Processed(store, run, t, at, wait) = [sim |-> run.sim, kinds |-> ks]
      BY <1>1, <2>6 DEF Processed, c, kind
    <3> HIDE DEF n, ks
    <3> QED BY <2>3, <2>4, <3>1, <3>2, RunIs DEF ks
  <2> QED BY <2>5, <2>6
<1>2. CASE ~Reclaims(c, at, wait)
  BY <1>2 DEF Processed
<1> QED BY <1>1, <1>2

LEMMA ScannedKeeps ==
  ASSUME NEW store \in [Screened -> Seq(Candles)], NEW run \in Runs, NEW at \in Nat, NEW wait
  PROVE  Scanned(store, run, at, wait) \in Runs
<1> DEFINE Typ == [s \in SUBSET (1..Many) |-> Runs]
           g   == [p \in (1..Many) \X Runs |-> Processed(store, p[2], Gappers[p[1]], at, wait)]
           Rhs(it) == [s \in SUBSET (1..Many) |->
                         IF s = {} THEN run ELSE Processed(store, it[s \ {Max(s)}], Gappers[Max(s)], at, wait)]
<1>0. Many \in Nat
  BY GappersAre
<1>1. \A s \in SUBSET (1..Many) : s # {} => Max(s) \in 1..Many /\ s \ {Max(s)} \in SUBSET (1..Many)
  BY <1>0, LargestIn
<1>2. ASSUME NEW s \in SUBSET (1..Many), s # {}, NEW v \in Typ[s \ {Max(s)}]
      PROVE  Processed(store, v, Gappers[Max(s)], at, wait) \in Typ[s] /\ v \in Runs
  <2>1. Gappers[Max(s)] \in Screened /\ v \in Runs
    BY <1>1, <1>2, GappersAre
  <2>2. Processed(store, v, Gappers[Max(s)], at, wait) \in Runs
    BY <2>1, ProcessedKeeps
  <2> QED BY <2>1, <2>2
<1>3. \E it : it = Rhs(it)
  <2>1. run \in Typ[{}]
    OBVIOUS
  <2>2. ASSUME NEW s \in SUBSET (1..Many), s # {}, NEW v \in Typ[s \ {Max(s)}]
        PROVE  g[<<Max(s), v>>] = Processed(store, v, Gappers[Max(s)], at, wait) /\ g[<<Max(s), v>>] \in Typ[s]
    <3> HIDE DEF Typ
    <3> QED BY <1>1, <1>2, <2>2
  <2> HIDE DEF g, Typ
  <2>3. StepsKeep(Many, g, run, Typ)
    BY <2>1, <2>2 DEF StepsKeep
  <2>4. PICK it : Solution(it, Many, g, run, Typ)
    BY <1>0, <2>3, FoldExists
  <2>5. Recursion(it, Many, g, run) = Rhs(it)
    BY <1>1, <2>2, <2>4 DEF Recursion, Solution
  <2> QED BY <2>4, <2>5 DEF Solution
<1> DEFINE it == ScanSolved(store, run, at, wait)
<1>4. it = Rhs(it)
  <2>1. ScanSolved(store, run, at, wait) = CHOOSE h : h = Rhs(h)
    BY GappersAre DEF ScanSolved
  <2> HIDE DEF Rhs
  <2> QED BY <1>3, <2>1
<1> HIDE DEF it
<1>5. it[{}] \in Typ[{}]
  <2>1. Rhs(it)[{}] = run
    OBVIOUS
  <2>2. run \in Typ[{}]
    OBVIOUS
  <2> QED BY <1>4, <2>1, <2>2
<1>6. ASSUME NEW s \in SUBSET (1..Many), s # {}, it[s \ {Max(s)}] \in Typ[s \ {Max(s)}]
      PROVE  it[s] \in Typ[s]
  <2>1. Rhs(it)[s] = Processed(store, it[s \ {Max(s)}], Gappers[Max(s)], at, wait)
    BY <1>6
  <2>2. Rhs(it)[s] \in Typ[s]
    <3> HIDE DEF Typ
    <3> QED BY <1>2, <1>6, <2>1
  <2> QED BY <1>4, <2>2
<1>7. it[1..Many] \in Typ[1..Many]
  <2> HIDE DEF Typ
  <2> QED BY <1>0, <1>5, <1>6, FoldKeeps
<1>8. it[1..Many] \in Runs
  BY <1>7
<1> QED BY <1>8, ScanIs, GappersAre DEF it

\* A performance of k trades: it fell by no less than it lost.
Performances(k) ==
  {p \in [trades : Nat, wins : Nat, losses : Nat, totalPnl : Int, peak : Int, maxDrawdown : Int] :
     /\ p.trades = k /\ p.peak >= 0 /\ p.peak >= p.totalPnl
     /\ p.maxDrawdown >= p.peak - p.totalPnl}

LEMMA LargerOf ==
  ASSUME NEW a \in Int, NEW b \in Int
  PROVE  Max({a, b}) \in Int /\ Max({a, b}) >= a /\ Max({a, b}) >= b
<1>1. \E x \in {a, b} : \A y \in {a, b} : x >= y
  OBVIOUS
<1>2. Max({a, b}) \in {a, b} /\ \A y \in {a, b} : Max({a, b}) >= y
  BY <1>1 DEF Max
<1> QED BY <1>2

LEMMA CountedOnce ==
  ASSUME NEW k \in Nat, NEW p \in Performances(k), NEW t \in Trades
  PROVE  Counted(p, t) \in Performances(k + 1)
<1>1. PICK equity \in Int : equity = p.totalPnl + t.pnl
  BY DEF Performances, Trades
<1>2. PICK peak \in Int : peak = Max({p.peak, equity}) /\ peak >= p.peak /\ peak >= equity
  <2>1. p.peak \in Int
    BY DEF Performances
  <2> QED BY <2>1, LargerOf
<1>3. PICK down \in Int : down = Max({p.maxDrawdown, peak - equity}) /\ down >= peak - equity
  <2>1. p.maxDrawdown \in Int /\ peak - equity \in Int
    BY DEF Performances
  <2> QED BY <2>1, LargerOf
<1>4. PICK wins \in Nat : wins = IF t.pnl > 0 THEN p.wins + 1 ELSE p.wins
  BY DEF Performances
<1>5. PICK losses \in Nat : losses = IF t.pnl < 0 THEN p.losses + 1 ELSE p.losses
  BY DEF Performances
<1>6. Counted(p, t) = [trades |-> p.trades + 1, totalPnl |-> equity, peak |-> peak, wins |-> wins,
                       losses |-> losses, maxDrawdown |-> down]
  BY <1>1, <1>2, <1>3, <1>4, <1>5 DEF Counted
<1>7. p.trades = k /\ p.peak >= 0 /\ p.peak \in Int
  BY DEF Performances
<1>8. peak >= 0 /\ k + 1 \in Nat
  BY <1>2, <1>7
<1>9. PICK q \in [trades : Nat, wins : Nat, losses : Nat, totalPnl : Int, peak : Int, maxDrawdown : Int] :
        q = Counted(p, t)
  BY <1>6, <1>7, <1>8
<1>10. q.trades = k + 1 /\ q.peak = peak /\ q.totalPnl = equity /\ q.maxDrawdown = down
  BY <1>6, <1>7, <1>9
<1>11. q \in Performances(k + 1)
  BY <1>2, <1>3, <1>8, <1>10 DEF Performances
<1> QED BY <1>9, <1>11

LEMMA CardinalityOfAll ==
  ASSUME NEW S, NEW n \in Nat, NEW q \in Seq(S), n = Len(q)
  PROVE  DOMAIN q = 1..n /\ Cardinality(1..n) = n
<1>1. DOMAIN q = 1..n
  OBVIOUS
<1>2. 1 \in Int /\ n \in Int
  OBVIOUS
<1>3. Cardinality(1..n) = IF 1 > n THEN 0 ELSE n - 1 + 1
  BY <1>2, FS_Interval
<1> QED BY <1>1, <1>3

LEMMA PerformanceOf ==
  ASSUME NEW n \in Nat, NEW trades \in Seq(Trades), n = Len(trades)
  PROVE  Performance(trades) \in Performances(n)
<1> DEFINE Typ == [s \in SUBSET (1..n) |-> Performances(Cardinality(s))]
           g   == [p \in (1..n) \X UNION {Performances(k) : k \in Nat} |-> Counted(p[2], trades[p[1]])]
           Rhs(it) == [s \in SUBSET (1..n) |->
                         IF s = {} THEN NoTrades ELSE Counted(it[s \ {Max(s)}], trades[Max(s)])]
<1>1. \A s \in SUBSET (1..n) : s # {} => Max(s) \in 1..n /\ s \ {Max(s)} \in SUBSET (1..n)
  BY LargestIn
<1>2. ASSUME NEW s \in SUBSET (1..n), s # {}, NEW v \in Typ[s \ {Max(s)}]
      PROVE  Counted(v, trades[Max(s)]) \in Typ[s] /\ v \in UNION {Performances(k) : k \in Nat}
  <2>1. PICK m \in s : m = Max(s) /\ m \in 1..n
    BY <1>2, LargestIn
  <2>2. IsFiniteSet(s) /\ s \ {m} \in SUBSET (1..n) /\ IsFiniteSet(s \ {m})
    BY <2>1, IndicesFinite
  <2>3. PICK k \in Nat : k = Cardinality(s \ {m}) /\ Cardinality(s) = k + 1
    BY <2>2, FS_RemoveElement, FS_CardinalityType
  <2>4. v \in Performances(k)
    BY <1>2, <2>1, <2>2, <2>3
  <2>5. trades[m] \in Trades
    BY <2>1
  <2>6. Counted(v, trades[m]) \in Performances(k + 1)
    BY <2>4, <2>5, CountedOnce
  <2> QED BY <2>1, <2>3, <2>4, <2>6
<1>3. \E it : it = Rhs(it)
  <2>1. NoTrades \in Typ[{}]
    <3>1. Cardinality({}) = 0 /\ {} \in SUBSET (1..n)
      BY FS_EmptySet
    <3>2. NoTrades \in Performances(0)
      BY DEF NoTrades, Performances
    <3> QED BY <3>1, <3>2
  <2>2. ASSUME NEW s \in SUBSET (1..n), s # {}, NEW v \in Typ[s \ {Max(s)}]
        PROVE  g[<<Max(s), v>>] = Counted(v, trades[Max(s)]) /\ g[<<Max(s), v>>] \in Typ[s]
    <3> HIDE DEF Typ
    <3> QED BY <1>1, <1>2, <2>2
  <2> HIDE DEF g, Typ
  <2>3. StepsKeep(n, g, NoTrades, Typ)
    BY <2>1, <2>2 DEF StepsKeep
  <2>4. PICK it : Solution(it, n, g, NoTrades, Typ)
    BY <2>3, FoldExists
  <2>5. Recursion(it, n, g, NoTrades) = Rhs(it)
    BY <1>1, <2>2, <2>4 DEF Recursion, Solution
  <2> QED BY <2>4, <2>5 DEF Solution
<1> DEFINE it == CountSolved(trades)
<1>4. it = Rhs(it)
  <2>1. CountSolved(trades) = CHOOSE h : h = Rhs(h)
    <3>1. DOMAIN trades = 1..n
      OBVIOUS
    <3> QED BY <3>1 DEF CountSolved
  <2> HIDE DEF Rhs
  <2> QED BY <1>3, <2>1
<1> HIDE DEF it
<1>5. it[{}] \in Typ[{}]
  <2>1. Rhs(it)[{}] = NoTrades
    OBVIOUS
  <2>2. NoTrades \in Typ[{}]
    <3>1. Cardinality({}) = 0 /\ {} \in SUBSET (1..n)
      BY FS_EmptySet
    <3>2. NoTrades \in Performances(0)
      BY DEF NoTrades, Performances
    <3> QED BY <3>1, <3>2
  <2> QED BY <1>4, <2>1, <2>2
<1>6. ASSUME NEW s \in SUBSET (1..n), s # {}, it[s \ {Max(s)}] \in Typ[s \ {Max(s)}]
      PROVE  it[s] \in Typ[s]
  <2>1. Rhs(it)[s] = Counted(it[s \ {Max(s)}], trades[Max(s)])
    BY <1>6
  <2>2. Rhs(it)[s] \in Typ[s]
    <3> HIDE DEF Typ
    <3> QED BY <1>2, <1>6, <2>1
  <2> QED BY <1>4, <2>2
<1>7. it[1..n] \in Typ[1..n]
  <2> HIDE DEF Typ
  <2> QED BY <1>5, <1>6, FoldKeeps
<1>8. it[1..n] \in Performances(Cardinality((1..n)))
  BY <1>7
<1> QED BY <1>8, PerformanceIs, CardinalityOfAll DEF it

-----------------------------------------------------------------------------
(* The store and its ticks                                                 *)

LEMMA CandleWritten ==
  ASSUME NEW c \in Seq(Candles), NEW bar \in Candles
  PROVE  SubSeq(c, 1, Until(c, bar.at)) \o <<bar>> \o SubSeq(c, Through(c, bar.at) + 1, Len(c))
           \in Seq(Candles)
<1>1. Until(c, bar.at) \in 0..Len(c) /\ Through(c, bar.at) \in 0..Len(c)
  <2>1. Len(c) \in Nat /\ DOMAIN c = 1..Len(c)
    OBVIOUS
  <2>2. {i \in DOMAIN c : c[i].at < bar.at} \in SUBSET (1..Len(c))
    OBVIOUS
  <2>3. {i \in DOMAIN c : c[i].at <= bar.at} \in SUBSET (1..Len(c))
    OBVIOUS
  <2> QED BY <2>1, <2>2, <2>3, CountWithin DEF Until, Through
<1>2. SubSeq(c, 1, Until(c, bar.at)) \in Seq(Candles)
  BY <1>1
<1>3. SubSeq(c, Through(c, bar.at) + 1, Len(c)) \in Seq(Candles)
  BY <1>1
<1>4. <<bar>> \in Seq(Candles)
  OBVIOUS
<1> QED BY <1>2, <1>3, <1>4

LEMMA TimesFinite ==
  ASSUME NEW M \in Nat, NEW T \in SUBSET (0..M)
  PROVE  IsFiniteSet(T) /\ Cardinality(T) \in Nat
<1>1. 0 \in Int /\ M \in Int
  OBVIOUS
<1>2. IsFiniteSet(0..M)
  BY <1>1, FS_Interval
<1>3. IsFiniteSet(T)
  BY <1>2, FS_Subset
<1> QED BY <1>3, FS_CardinalityType

\* Of some times, each place in their order is taken.
LEMMA NthIs ==
  ASSUME NEW M \in Nat, NEW T \in SUBSET (0..M), NEW i \in 1..Cardinality(T)
  PROVE  Nth(T, i) \in T /\ Cardinality({u \in T : u < Nth(T, i)}) = i - 1
<1> DEFINE All == 0..M
           Taken(s, k) == \E x \in s : Cardinality({u \in s : u < x}) = k
           Bad == {s \in SUBSET All : \E k \in Nat : k < Cardinality(s) /\ ~Taken(s, k)}
<1>0. IsFiniteSet(All)
  BY FS_Interval
<1>1. Bad = {}
  <2> SUFFICES ASSUME Bad # {} PROVE FALSE
    OBVIOUS
  <2>1. PICK S \in Bad : \A U \in Bad : U \subseteq S => U = S
    <3>1. Bad \in SUBSET SUBSET All
      OBVIOUS
    <3> HIDE DEF Bad, All
    <3> QED BY <1>0, <3>1, SmallestSet
  <2>2. S \in SUBSET All /\ IsFiniteSet(S)
    BY <1>0, FS_Subset
  <2>3. PICK k \in Nat : k < Cardinality(S) /\ ~Taken(S, k)
    OBVIOUS
  <2>4. S # {} /\ Cardinality(S) \in Nat
    BY <2>2, <2>3, FS_EmptySet, FS_CardinalityType
  <2>5. PICK m \in S : \A y \in S : y <= m
    <3>1. S \subseteq Nat /\ \A x \in S : x <= M
      BY <2>2
    <3> HIDE DEF Bad
    <3> QED BY <2>4, <3>1, GreatestOf
  <2> DEFINE U == S \ {m}
  <2>6. IsFiniteSet(U) /\ Cardinality(U) = Cardinality(S) - 1 /\ U \in SUBSET All /\ U # S
    BY <2>2, <2>5, FS_RemoveElement, FS_Subset
  <2>7. U \notin Bad
    <3>1. U \subseteq S
      OBVIOUS
    <3> HIDE DEF Bad, U
    <3> QED BY <2>1, <2>6, <3>1
  <2>8. CASE k < Cardinality(U)
    <3>1. PICK x \in U : Cardinality({u \in U : u < x}) = k
      BY <2>6, <2>7, <2>8
    <3>2. {u \in U : u < x} = {u \in S : u < x}
      BY <2>2, <2>5
    <3> HIDE DEF Bad
    <3> QED BY <2>3, <3>1, <3>2
  <2>9. CASE ~(k < Cardinality(U))
    <3>1. k = Cardinality(U)
      BY <2>3, <2>4, <2>6, <2>9
    <3>2. S \subseteq Nat
      BY <2>2
    <3>3. \A u \in S : u < m <=> u # m
      BY <2>5, <3>2
    <3>4. {u \in S : u < m} = U
      BY <3>3
    <3> HIDE DEF Bad, U
    <3> QED BY <2>3, <2>5, <3>1, <3>4
  <2> QED BY <2>8, <2>9
<1>2. T \notin Bad /\ T \in SUBSET All /\ IsFiniteSet(T)
  BY <1>0, <1>1, FS_Subset
<1>3. i - 1 \in Nat /\ i - 1 < Cardinality(T)
  BY <1>2, FS_CardinalityType
<1>4. Taken(T, i - 1)
  BY <1>2, <1>3
<1> QED BY <1>4 DEF Nth

LEMMA NthGrows ==
  ASSUME NEW M \in Nat, NEW T \in SUBSET (0..M), NEW i \in 2..Cardinality(T)
  PROVE  Nth(T, i - 1) < Nth(T, i)
<1>1. IsFiniteSet(T) /\ Cardinality(T) \in Nat
  BY TimesFinite
<1>2. i \in 1..Cardinality(T) /\ i - 1 \in 1..Cardinality(T)
  BY <1>1
<1>3. PICK x \in T : x = Nth(T, i - 1) /\ Cardinality({u \in T : u < x}) = i - 1 - 1
  BY <1>2, NthIs
<1>4. PICK y \in T : y = Nth(T, i) /\ Cardinality({u \in T : u < y}) = i - 1
  BY <1>2, NthIs
<1>5. SUFFICES ASSUME y <= x PROVE FALSE
  BY <1>3, <1>4
<1>6. {u \in T : u < y} \subseteq {u \in T : u < x}
  <2>1. T \subseteq Nat /\ x \in Nat /\ y \in Nat
    OBVIOUS
  <2>2. \A u \in T : u < y => u < x
    BY <1>5, <2>1
  <2> QED BY <2>2
<1>7. IsFiniteSet({u \in T : u < x})
  BY <1>1, FS_Subset
<1>8. i - 1 <= i - 1 - 1
  BY <1>3, <1>4, <1>6, <1>7, FS_Subset
<1> QED BY <1>8

TickShape == [at : Nat, bars : [Screened -> SUBSET Candles]]

LEMMA TicksAre ==
  ASSUME NEW store \in [Screened -> Seq(Candles)]
  PROVE  /\ TicksOf(store) \in Seq(TickShape)
         /\ \A i \in 2..Len(TicksOf(store)) : TicksOf(store)[i - 1].at < TicksOf(store)[i].at
<1> DEFINE T == Times(store)
           n == Cardinality(T)
<1>1. To \in Nat /\ From \in Nat
  BY BacktestAssumption
<1>2. T \in SUBSET (0..To)
  <2>1. \A t \in Screened : \A b \in BarsIn(store, t) : b.at \in 0..To
    BY <1>1 DEF BarsIn
  <2> QED BY <2>1 DEF Times
<1>3. n \in Nat
  BY <1>1, <1>2, TimesFinite
<1>4. ASSUME NEW i \in 1..n
      PROVE  Tick(store, Nth(T, i)) \in TickShape /\ Tick(store, Nth(T, i)).at = Nth(T, i)
  <2>1. Nth(T, i) \in Nat
    <3>1. Nth(T, i) \in T
      <4>1. i \in 1..Cardinality(T)
        BY <1>4
      <4> HIDE DEF T
      <4> QED BY <1>1, <1>2, <4>1, NthIs
    <3>2. \A x \in T : x \in Nat
      <4> HIDE DEF T
      <4> QED BY <1>2
    <3> HIDE DEF T
    <3> QED BY <3>1, <3>2
  <2>2. \A t \in Screened : BarsIn(store, t) \subseteq Candles
    BY DEF BarsIn, ToSet
  <2> HIDE DEF T, n
  <2> QED BY <2>1, <2>2 DEF Tick, TickShape
<1> HIDE DEF T
<1>5. TicksOf(store) = [i \in 1..n |-> Tick(store, Nth(T, i))]
  BY DEF TicksOf, T
<1> HIDE DEF n
<1>6. TicksOf(store) \in Seq(TickShape) /\ Len(TicksOf(store)) = n
  BY <1>3, <1>4, <1>5
<1>7. ASSUME NEW i \in 2..n PROVE TicksOf(store)[i - 1].at < TicksOf(store)[i].at
  <2>1. i \in 1..n /\ i - 1 \in 1..n
    BY <1>3
  <2>2. Nth(T, i - 1) < Nth(T, i)
    BY <1>1, <1>2, NthGrows DEF n
  <2> QED BY <1>4, <1>5, <2>1, <2>2
<1> QED BY <1>6, <1>7

-----------------------------------------------------------------------------
(* What a report says                                                      *)

LEMMA FiniteParts ==
  ASSUME NEW n \in Nat, NEW A \in SUBSET (1..n)
  PROVE  /\ IsFiniteSet(A) /\ Cardinality(A) \in Nat
         /\ Cardinality((1..n) \ A) \in Nat
         /\ Cardinality(A) + Cardinality((1..n) \ A) = n
<1> DEFINE B == (1..n) \ A
<1>1. 1 \in Int /\ n \in Int
  OBVIOUS
<1>2. Cardinality(1..n) = n
  <2>1. Cardinality(1..n) = IF 1 > n THEN 0 ELSE n - 1 + 1
    BY <1>1, FS_Interval
  <2> QED BY <2>1
<1>3. IsFiniteSet(A) /\ IsFiniteSet(B)
  BY IndicesFinite
<1>4. Cardinality(A) \in Nat /\ Cardinality(B) \in Nat
  BY <1>3, FS_CardinalityType
<1>5. A \union B = 1..n /\ A \intersect B = {}
  OBVIOUS
<1> HIDE DEF B
<1>6. Cardinality(A \union B) = Cardinality(A) + Cardinality(B) - Cardinality(A \intersect B)
  BY <1>3, FS_Union
<1>7. Cardinality(A \intersect B) = 0
  BY <1>5, FS_EmptySet
<1>8. PICK a \in Nat, b \in Nat : a = Cardinality(A) /\ b = Cardinality(B)
  BY <1>4
<1>9. a + b = n
  <2>1. a + b - 0 = n
    BY <1>2, <1>5, <1>6, <1>7, <1>8
  <2> QED BY <2>1
<1> QED BY <1>3, <1>4, <1>8, <1>9 DEF B

\* Each signal has one outcome.
LEMMA TallySums ==
  ASSUME NEW kinds \in Seq(Outcomes)
  PROVE  /\ Tally(kinds) \in [Outcomes -> Nat]
         /\ Tally(kinds)["executed"] = Orders(kinds)
         /\ Len(kinds) = Tally(kinds)["executed"] + Tally(kinds)["vetoed"]
                           + Tally(kinds)["risk-rejected"]
<1> DEFINE n     == Len(kinds)
           of(k) == {i \in DOMAIN kinds : kinds[i] = k}
           done  == of("executed")
           no    == of("vetoed")
           over  == of("risk-rejected")
<1>1. n \in Nat /\ DOMAIN kinds = 1..n
  OBVIOUS
<1>2. done \in SUBSET (1..n) /\ no \in SUBSET (1..n) /\ over \in SUBSET (1..n)
  BY <1>1
<1>3. (1..n) \ done = no \union over /\ no \intersect over = {}
  BY <1>1 DEF Outcomes
<1>4. Cardinality(no \union over) = Cardinality(no) + Cardinality(over)
  <2> HIDE DEF n, no, over
  <2>1. IsFiniteSet(no) /\ IsFiniteSet(over)
    BY <1>1, <1>2, IndicesFinite
  <2>2. Cardinality(no \union over)
          = Cardinality(no) + Cardinality(over) - Cardinality(no \intersect over)
    BY <2>1, FS_Union
  <2>3. Cardinality(no \intersect over) = 0
    BY <1>3, FS_EmptySet
  <2>4. Cardinality(no) \in Nat /\ Cardinality(over) \in Nat
    BY <2>1, FS_CardinalityType
  <2> QED BY <2>2, <2>3, <2>4
<1>5. n = Cardinality(done) + (Cardinality(no) + Cardinality(over))
  <2> HIDE DEF n, done, no, over
  <2>1. Cardinality(done) + Cardinality((1..n) \ done) = n
    BY <1>1, <1>2, FiniteParts
  <2> QED BY <1>3, <1>4, <2>1
<1>6. Cardinality(done) \in Nat /\ Cardinality(no) \in Nat /\ Cardinality(over) \in Nat
  <2> HIDE DEF n, done, no, over
  <2> QED BY <1>1, <1>2, FiniteParts
<1>7. Tally(kinds) = [k \in Outcomes |-> Cardinality(of(k))]
  BY DEF Tally
<1>8. Tally(kinds) \in [Outcomes -> Nat]
  <2>1. \A k \in Outcomes : Cardinality(of(k)) \in Nat
    BY <1>6 DEF Outcomes
  <2> HIDE DEF of
  <2> QED BY <1>7, <2>1
<1>9. /\ Tally(kinds)["executed"] = Cardinality(done) /\ Tally(kinds)["vetoed"] = Cardinality(no)
      /\ Tally(kinds)["risk-rejected"] = Cardinality(over)
  BY <1>7 DEF Outcomes
<1>10. Orders(kinds) = Cardinality(done)
  BY DEF Orders
<1> HIDE DEF of, done, no, over
<1> QED BY <1>5, <1>6, <1>8, <1>9, <1>10

\* What of a portfolio did not close.
Left(positions) == Cardinality({i \in DOMAIN positions : positions[i].status # "closed"})

LEMMA LeftCounted ==
  ASSUME NEW positions \in Seq(Positions)
  PROVE  /\ Left(positions) \in Nat /\ Exits(positions) \in Nat
         /\ Len(positions) = Exits(positions) + Left(positions)
<1> DEFINE n   == Len(positions)
           out == {i \in DOMAIN positions : positions[i].status = "closed"}
           in  == {i \in DOMAIN positions : positions[i].status # "closed"}
<1>1. n \in Nat /\ DOMAIN positions = 1..n
  OBVIOUS
<1>2. out \in SUBSET (1..n) /\ in = (1..n) \ out
  BY <1>1
<1> HIDE DEF n, out, in
<1>3. Cardinality(out) \in Nat /\ Cardinality(in) \in Nat /\ Cardinality(out) + Cardinality(in) = n
  BY <1>1, <1>2, FiniteParts
<1> QED BY <1>3 DEF Exits, Left, out, in, n

\* The report of a run that began and ended after so many writes.
ReportOf(wait, run, from, to) ==
  [wait |-> wait, performance |-> Performance(run.sim.closed), stats |-> Tally(run.kinds),
   signals |-> Len(run.kinds), analyses |-> Len(run.kinds), left |-> Left(run.sim.brackets),
   from |-> from, to |-> to]

\* A report adds up.
Sound ==
  {r \in [wait : Nat, performance : UNION {Performances(k) : k \in Nat}, stats : [Outcomes -> Nat],
          signals : Nat, analyses : Nat, left : Nat, from : Nat, to : Nat] :
     /\ r.signals = r.stats["executed"] + r.stats["vetoed"] + r.stats["risk-rejected"]
     /\ r.stats["executed"] = r.performance.trades + r.left
     /\ r.performance.maxDrawdown >= 0 - r.performance.totalPnl}

LEMMA ReportIsSound ==
  ASSUME NEW run \in Runs, NEW wait \in Nat, NEW from \in Nat, NEW to \in Nat
  PROVE  ReportOf(wait, run, from, to) \in Sound
<1>1. PICK kinds \in Seq(Outcomes) : kinds = run.kinds
  BY DEF Runs
<1>2. PICK f \in Folios(Orders(kinds)) : f = run.sim
  BY <1>1 DEF Runs
<1>3. /\ f.brackets \in Seq(Positions) /\ f.closed \in Seq(Trades)
      /\ Len(f.brackets) = Orders(kinds) /\ Len(f.closed) = Exits(f.brackets)
  BY DEF Folios, Sims
<1>4. PICK n \in Nat : n = Len(f.closed)
  BY <1>3
<1>5. PICK p \in Performances(n) : p = Performance(f.closed)
  BY <1>3, <1>4, PerformanceOf
<1>6. /\ p.trades = n /\ p.peak \in Int /\ p.peak >= 0 /\ p.totalPnl \in Int
      /\ p.maxDrawdown \in Int /\ p.maxDrawdown >= p.peak - p.totalPnl
  BY DEF Performances
<1>7. p.maxDrawdown >= 0 - p.totalPnl
  BY <1>6
<1>8. PICK s \in [Outcomes -> Nat] :
        /\ s = Tally(kinds) /\ s["executed"] = Orders(kinds)
        /\ Len(kinds) = s["executed"] + s["vetoed"] + s["risk-rejected"]
  BY TallySums
<1>9. PICK still \in Nat : still = Left(f.brackets) /\ s["executed"] = n + still
  BY <1>3, <1>4, <1>8, LeftCounted
<1>10. PICK k \in Nat : k = Len(kinds)
  OBVIOUS
<1>11. ReportOf(wait, run, from, to) =
         [wait |-> wait, performance |-> p, stats |-> s, signals |-> k, analyses |-> k,
          left |-> still, from |-> from, to |-> to]
  BY <1>1, <1>2, <1>5, <1>8, <1>9, <1>10 DEF ReportOf
<1>12. p \in UNION {Performances(j) : j \in Nat}
  OBVIOUS
<1>13. PICK r \in [wait : Nat, performance : UNION {Performances(j) : j \in Nat},
                   stats : [Outcomes -> Nat], signals : Nat, analyses : Nat, left : Nat,
                   from : Nat, to : Nat] :
        r = [wait |-> wait, performance |-> p, stats |-> s, signals |-> k, analyses |-> k,
             left |-> still, from |-> from, to |-> to]
  BY <1>12
<1>14. r.signals = k /\ r.stats = s /\ r.performance = p /\ r.left = still
  BY <1>13
<1>15. r \in Sound
  BY <1>6, <1>7, <1>8, <1>9, <1>10, <1>14 DEF Sound
<1> QED BY <1>11, <1>13, <1>15

-----------------------------------------------------------------------------
(* The types of the comparison                                             *)

ReplayTyped ==
  /\ stored \in [Screened -> Seq(Candles)]
  /\ variant \in 0..Len(Waits) /\ reports \in Seq(Sound) /\ Len(reports) <= variant
  /\ engine \in {"idle", "feed", "monitor", "scan", "report", "failed"}
  /\ engine \in {"feed", "monitor", "scan", "report"} => Len(reports) < variant
  /\ ticks \in Seq(TickShape) /\ \A i \in 2..Len(ticks) : ticks[i - 1].at < ticks[i].at
  /\ tickNo \in Nat /\ (engine \in {"feed", "monitor", "scan"} => tickNo \in 1..Len(ticks))
  /\ [sim |-> folio, kinds |-> outcomes] \in Runs
  /\ analyses = Len(outcomes) /\ signalSeq \in Nat /\ analyses <= signalSeq
  /\ since \in 0..writes /\ writes \in 0..MaxWrites

LEMMA FreshRun == [sim |-> Fresh, kinds |-> <<>>] \in Runs
<1>1. Orders(<<>>) = 0 /\ Exits(<<>>) = 0
  <2>1. {i \in DOMAIN <<>> : <<>>[i] = "executed"} = {}
    OBVIOUS
  <2>2. {i \in DOMAIN <<>> : <<>>[i].status = "closed"} = {}
    OBVIOUS
  <2> QED BY <2>1, <2>2, FS_EmptySet DEF Orders, Exits
<1>2. [t \in Screened |-> 0] \in [Screened -> Nat]
  OBVIOUS
<1>3. <<>> \in Seq(Positions) /\ <<>> \in Seq(Trades) /\ <<>> \in Seq(Outcomes) /\ Len(<<>>) = 0
  OBVIOUS
<1>4. Fresh \in Sims /\ Fresh.brackets = <<>> /\ Fresh.closed = <<>>
  BY <1>2, <1>3 DEF Fresh, Sims
<1>5. Fresh \in Folios(0)
  BY <1>1, <1>3, <1>4 DEF Folios
<1> QED BY <1>1, <1>3, <1>5, RunIs

LEMMA TypesStart == BacktestInit => ReplayTyped
<1> SUFFICES ASSUME BacktestInit PROVE ReplayTyped
  OBVIOUS
<1>1. stored \in [Screened -> Seq(Candles)] /\ MaxWrites \in Nat /\ Len(Waits) \in Nat
  BY BacktestAssumption DEF BacktestInit
<1>2. [sim |-> folio, kinds |-> outcomes] \in Runs
  BY FreshRun DEF BacktestInit
<1> QED BY <1>1, <1>2 DEF BacktestInit, ReplayTyped

\* A store that stays typed when a candle is written.
LEMMA StoreStays ==
  ASSUME NEW store \in [Screened -> Seq(Candles)], NEW t \in Screened, NEW bar \in Backfills
  PROVE  [store EXCEPT ![t] = SubSeq(@, 1, Until(@, bar.at)) \o <<bar>>
                                \o SubSeq(@, Through(@, bar.at) + 1, Len(@))]
           \in [Screened -> Seq(Candles)]
<1>1. store[t] \in Seq(Candles) /\ bar \in Candles
  BY BacktestAssumption
<1>2. PICK c \in Seq(Candles) :
        c = SubSeq(store[t], 1, Until(store[t], bar.at)) \o <<bar>>
              \o SubSeq(store[t], Through(store[t], bar.at) + 1, Len(store[t]))
  BY <1>1, CandleWritten
<1> QED BY <1>2

LEMMA WaitsAre == Waits \in Seq(Nat) /\ MaxWrites \in Nat /\ \A v \in 1..Len(Waits) : Waits[v] \in Nat
<1>1. Waits \in Seq(Nat) /\ MaxWrites \in Nat
  BY BacktestAssumption
<1> QED BY <1>1

LEMMA TypesKept ==
  ASSUME ReplayTyped, BacktestNext
  PROVE  ReplayTyped'
<1> USE DEF ReplayTyped
<1>1. CASE StartVariant
  <2>1. TicksOf(stored) \in Seq(TickShape)
        /\ \A i \in 2..Len(TicksOf(stored)) : TicksOf(stored)[i - 1].at < TicksOf(stored)[i].at
    BY TicksAre
  <2>2. TicksOf(stored) # <<>> => 1 \in 1..Len(TicksOf(stored))
    BY <2>1
  <2>3. ticks' \in Seq(TickShape) /\ \A i \in 2..Len(ticks') : ticks'[i - 1].at < ticks'[i].at
    BY <1>1, <2>1 DEF StartVariant
  <2>4. /\ engine' \in {"feed", "report"} /\ tickNo' = 1
        /\ engine' = "feed" => tickNo' \in 1..Len(ticks')
    BY <1>1, <2>2 DEF StartVariant
  <2>5. [sim |-> folio', kinds |-> outcomes'] \in Runs
    BY <1>1, FreshRun DEF StartVariant
  <2>6. /\ variant \in 0..Len(Waits) /\ Len(Waits) \in Nat /\ Len(reports) \in Nat
        /\ variant' = variant + 1 /\ variant < Len(Waits) /\ reports' = reports
    BY <1>1, BacktestAssumption DEF StartVariant
  <2>7. variant' \in 0..Len(Waits) /\ Len(reports') < variant' /\ Len(reports') <= variant'
    BY <2>6
  <2>8. analyses' = 0 /\ Len(outcomes') = 0 /\ signalSeq' \in Nat /\ analyses' <= signalSeq'
    BY <1>1 DEF StartVariant
  <2>9. since' \in 0..writes' /\ writes' \in 0..MaxWrites /\ stored' = stored
    BY <1>1, BacktestAssumption DEF StartVariant
  <2> QED BY <2>3, <2>4, <2>5, <2>6, <2>7, <2>8, <2>9
<1>2. ASSUME engine' \in {"monitor", "scan"}, engine \in {"feed", "monitor"}, folio' \in Folios(Orders(outcomes)),
             UNCHANGED <<stored, variant, ticks, tickNo, tallyVars, reports, writes, since>>
      PROVE  ReplayTyped'
  <2>1. outcomes' \in Seq(Outcomes) /\ folio' \in Folios(Orders(outcomes'))
    BY <1>2 DEF tallyVars, Runs
  <2>2. [sim |-> folio', kinds |-> outcomes'] \in Runs
    BY <2>1, RunIs
  <2> QED BY <1>2, <2>2 DEF tallyVars
<1>3. folio \in Folios(Orders(outcomes)) /\ outcomes \in Seq(Outcomes) /\ Orders(outcomes) \in Nat
  <2>1. outcomes \in Seq(Outcomes) /\ folio \in Folios(Orders(outcomes))
    BY DEF Runs
  <2>2. "executed" \in Outcomes
    BY DEF Outcomes
  <2> QED BY <2>1, <2>2, OrdersCounted
<1>4. ASSUME engine \in {"feed", "monitor", "scan"}
      PROVE  ticks[tickNo] \in TickShape /\ Now \in Nat
  <2>1. ticks[tickNo] \in TickShape
    BY <1>4
  <2>2. \A tick \in TickShape : tick.at \in Nat
    BY DEF TickShape
  <2> QED BY <2>1, <2>2 DEF Now
<1>5. CASE FeedTick
  <2>1. ticks[tickNo].bars \in [Screened -> SUBSET Candles]
    BY <1>4, <1>5 DEF FeedTick, TickShape
  <2>2. FedAll(folio, ticks[tickNo].bars) \in Folios(Orders(outcomes))
    BY <1>3, <2>1, FedAllKeeps
  <2> QED BY <1>2, <1>5, <2>2 DEF FeedTick
<1>6. CASE MonitorTick
  <2>1. FlattenedAll(folio, Now) \in Folios(Orders(outcomes))
    BY <1>3, <1>4, <1>6, FlattenedAllKeeps DEF MonitorTick
  <2> QED BY <1>2, <1>6, <2>1 DEF MonitorTick
<1>7. CASE ScanTick
  <2> DEFINE run == Scanned(stored, [sim |-> folio, kinds |-> outcomes], Now, WaitMinutes)
  <2>1. run \in Runs
    BY <1>4, <1>7, ScannedKeeps DEF ScanTick
  <2>2. folio' = run.sim /\ outcomes' = run.kinds
    BY <1>7 DEF ScanTick
  <2>3. /\ analyses' = analyses + (Len(run.kinds) - Len(outcomes))
        /\ signalSeq' = signalSeq + (Len(run.kinds) - Len(outcomes))
    BY <1>7 DEF ScanTick
  <2> HIDE DEF run
  <2>4. run = [sim |-> run.sim, kinds |-> run.kinds] /\ run.kinds \in Seq(Outcomes)
    BY <2>1 DEF Runs
  <2>5. [sim |-> folio', kinds |-> outcomes'] \in Runs
    BY <2>1, <2>2, <2>4
  <2>6. Len(run.kinds) \in Nat /\ Len(outcomes) \in Nat
    BY <1>3, <2>4
  <2>7. analyses' = Len(outcomes') /\ signalSeq' \in Nat /\ analyses' <= signalSeq'
    BY <2>2, <2>3, <2>6
  <2>8. /\ engine = "scan" /\ NextTick
        /\ UNCHANGED <<stored, variant, ticks, reports, writes, since>>
    BY <1>7 DEF ScanTick
  <2>9. /\ engine' \in {"feed", "report"} /\ tickNo' \in Nat
        /\ engine' = "feed" => tickNo' \in 1..Len(ticks)
    BY <2>8 DEF NextTick
  <2> QED BY <2>5, <2>7, <2>8, <2>9
<1>8. CASE SaveReport
  <2>1. engine = "report" /\ engine' = "idle" /\ reports' = Append(reports, Report)
    BY <1>8 DEF SaveReport
  <2>2. Report \in Sound
    <3> DEFINE run == [sim |-> folio, kinds |-> outcomes]
    <3>1. variant \in 1..Len(Waits)
      BY <2>1
    <3>2. WaitMinutes \in Nat
      BY <3>1, WaitsAre DEF WaitMinutes
    <3>3. since \in Nat /\ writes \in Nat
      BY BacktestAssumption
    <3>4. ReportOf(WaitMinutes, run, since, writes) \in Sound
      BY <3>2, <3>3, ReportIsSound
    <3>5. Report = ReportOf(WaitMinutes, run, since, writes)
      BY DEF Report, ReportOf, Left
    <3> QED BY <3>4, <3>5
  <2>3. reports' \in Seq(Sound) /\ Len(reports') <= variant
    BY <2>1, <2>2
  <2> QED BY <1>8, <2>1, <2>3 DEF SaveReport, tallyVars
<1>9. CASE RunThrows
  BY <1>9 DEF RunThrows, tallyVars
<1>10. ASSUME NEW t \in Screened, NEW bar \in Backfills, StoreCandle(t, bar)
       PROVE  ReplayTyped'
  <2>1. stored' \in [Screened -> Seq(Candles)]
    BY <1>10, StoreStays DEF StoreCandle
  <2>2. since' \in 0..writes' /\ writes' \in 0..MaxWrites
    <3>1. MaxWrites \in Nat /\ writes \in 0..MaxWrites /\ since \in 0..writes
      BY WaitsAre
    <3>2. writes < MaxWrites /\ writes' = writes + 1 /\ since' = since
      BY <1>10 DEF StoreCandle
    <3> QED BY <3>1, <3>2
  <2> QED BY <1>10, <2>1, <2>2 DEF StoreCandle, tallyVars
<1> QED BY <1>1, <1>5, <1>6, <1>7, <1>8, <1>9, <1>10 DEF BacktestNext

LEMMA TypesKeptStill ==
  ASSUME ReplayTyped, UNCHANGED backtestVars
  PROVE  ReplayTyped'
BY DEF ReplayTyped, backtestVars, tallyVars

LEMMA TypesImplied ==
  ASSUME ReplayTyped
  PROVE  BacktestTypeOK
<1> USE DEF ReplayTyped
<1>1. engine \in {"feed", "monitor", "scan"} => tickNo \in DOMAIN ticks
  OBVIOUS
<1>2. folio \in Sims /\ outcomes \in Seq(Outcomes)
  BY DEF Runs
<1> QED BY <1>1, <1>2 DEF BacktestTypeOK, Sims, Trades

\* BacktestTypeOK for every history, every list of variants and every backfill: a
\* comparison keeps its types, its ticks come in the order of their times, each signal was
\* analysed once, and no more reports were saved than variants began.
THEOREM BacktestTyped == BacktestSpec => []BacktestTypeOK
<1>1. BacktestInit => ReplayTyped
  BY TypesStart
<1>2. ReplayTyped /\ [BacktestNext]_backtestVars => ReplayTyped'
  BY TypesKept, TypesKeptStill
<1>3. ReplayTyped => BacktestTypeOK
  BY TypesImplied
<1> QED BY <1>1, <1>2, <1>3, PTL DEF BacktestSpec

-----------------------------------------------------------------------------
(* Two runs over the same candles                                          *)

Begin == [sim |-> Fresh, kinds |-> <<>>]

\* What feeding and managing make of a portfolio at a tick, and what the tick makes of a run.
Minded(sim, tick) == FlattenedAll(FedAll(sim, tick.bars), tick.at)
AfterTick(store, run, tick, wait) ==
  Scanned(store, [sim |-> Minded(run.sim, tick), kinds |-> run.kinds], tick.at, wait)

\* A run of a variant over its first k ticks, tick by tick.
Course(tr, store, wait, k) ==
  /\ tr[0] = Begin
  /\ \A i \in 1..k : tr[i] = AfterTick(store, tr[i - 1], TicksOf(store)[i], wait)

Reached(store, wait, k, run) == \E tr \in [0..k -> Runs] : Course(tr, store, wait, k) /\ tr[k] = run

LEMMA ReachedFirst ==
  ASSUME NEW store, NEW wait
  PROVE  Reached(store, wait, 0, Begin)
<1> DEFINE tr == [i \in 0..0 |-> Begin]
<1>1. tr \in [0..0 -> Runs] /\ tr[0] = Begin
  BY FreshRun DEF Begin
<1>2. 1..0 = {}
  OBVIOUS
<1> HIDE DEF tr
<1>3. Course(tr, store, wait, 0)
  BY <1>1, <1>2 DEF Course
<1> QED BY <1>1, <1>3 DEF Reached

LEMMA ReachedNext ==
  ASSUME NEW store, NEW wait, NEW k \in Nat, NEW run, Reached(store, wait, k, run),
         AfterTick(store, run, TicksOf(store)[k + 1], wait) \in Runs
  PROVE  Reached(store, wait, k + 1, AfterTick(store, run, TicksOf(store)[k + 1], wait))
<1> DEFINE next == AfterTick(store, run, TicksOf(store)[k + 1], wait)
<1>1. PICK tr \in [0..k -> Runs] : Course(tr, store, wait, k) /\ tr[k] = run
  BY DEF Reached
<1> DEFINE ext == [i \in 0..(k + 1) |-> IF i <= k THEN tr[i] ELSE next]
<1>2. next \in Runs
  OBVIOUS
<1> HIDE DEF next
<1>3. ext \in [0..(k + 1) -> Runs]
  BY <1>1, <1>2
<1>4. ext[k + 1] = next /\ \A i \in 0..k : ext[i] = tr[i]
  OBVIOUS
<1> HIDE DEF ext
<1>5. ext[0] = Begin
  BY <1>1, <1>4 DEF Course
<1>6. ASSUME NEW i \in 1..(k + 1)
      PROVE  ext[i] = AfterTick(store, ext[i - 1], TicksOf(store)[i], wait)
  <2>1. CASE i \in 1..k
    <3>1. i \in 0..k /\ i - 1 \in 0..k
      BY <2>1
    <3>2. tr[i] = AfterTick(store, tr[i - 1], TicksOf(store)[i], wait)
      BY <1>1, <2>1 DEF Course
    <3> QED BY <1>4, <3>1, <3>2
  <2>2. CASE i = k + 1
    <3>1. i - 1 = k /\ k \in 0..k
      BY <2>2
    <3>2. ext[i - 1] = run
      BY <1>1, <1>4, <3>1
    <3> QED BY <1>4, <2>2, <3>2 DEF next
  <2> QED BY <2>1, <2>2
<1>7. Course(ext, store, wait, k + 1)
  BY <1>5, <1>6 DEF Course
<1> QED BY <1>3, <1>4, <1>7 DEF Reached, next

\* A run is what its candles and its parameter make it.
LEMMA ReachedOnce ==
  ASSUME NEW store, NEW wait, NEW k \in Nat, NEW run, NEW other,
         Reached(store, wait, k, run), Reached(store, wait, k, other)
  PROVE  run = other
<1>1. PICK tr \in [0..k -> Runs] : Course(tr, store, wait, k) /\ tr[k] = run
  BY DEF Reached
<1>2. PICK tr2 \in [0..k -> Runs] : Course(tr2, store, wait, k) /\ tr2[k] = other
  BY DEF Reached
<1> DEFINE Apart == {i \in 0..k : tr[i] # tr2[i]}
<1>3. Apart = {}
  <2> SUFFICES ASSUME Apart # {} PROVE FALSE
    OBVIOUS
  <2>1. PICK i \in Apart : \A j \in Apart : i <= j
    <3>1. Apart \subseteq Nat
      OBVIOUS
    <3> HIDE DEF Apart
    <3> QED BY <3>1, LeastOf
  <2>2. i # 0
    BY <1>1, <1>2 DEF Course
  <2>3. i \in 1..k /\ i - 1 \in 0..k /\ ~(i <= i - 1)
    BY <2>2
  <2>4. tr[i - 1] = tr2[i - 1]
    BY <2>1, <2>3
  <2>5. /\ tr[i] = AfterTick(store, tr[i - 1], TicksOf(store)[i], wait)
        /\ tr2[i] = AfterTick(store, tr2[i - 1], TicksOf(store)[i], wait)
    BY <1>1, <1>2, <2>3 DEF Course
  <2> QED BY <2>4, <2>5
<1>4. k \in 0..k
  OBVIOUS
<1> QED BY <1>1, <1>2, <1>3, <1>4

\* The variant at work is where its ticks take it, unless a candle was written since it
\* began.
OnCourse ==
  since = writes =>
    /\ engine \in {"feed", "monitor", "scan", "report"} => ticks = TicksOf(stored)
    /\ engine = "feed" =>
         Reached(stored, WaitMinutes, tickNo - 1, [sim |-> folio, kinds |-> outcomes])
    /\ engine = "monitor" => \E run \in Runs :
         /\ Reached(stored, WaitMinutes, tickNo - 1, run)
         /\ folio = FedAll(run.sim, ticks[tickNo].bars) /\ outcomes = run.kinds
    /\ engine = "scan" => \E run \in Runs :
         /\ Reached(stored, WaitMinutes, tickNo - 1, run)
         /\ folio = Minded(run.sim, ticks[tickNo]) /\ outcomes = run.kinds
    /\ engine = "report" =>
         Reached(stored, WaitMinutes, Len(ticks), [sim |-> folio, kinds |-> outcomes])

\* A report over the candles as they are now is that of the run they give; reports over
\* the same candles of earlier are the same.
Repeated ==
  /\ \A i \in DOMAIN reports : reports[i].to <= writes
  /\ \A i \in DOMAIN reports : reports[i].from = writes /\ reports[i].to = writes =>
       \E run \in Runs : /\ Reached(stored, reports[i].wait, Len(TicksOf(stored)), run)
                         /\ reports[i] = ReportOf(reports[i].wait, run, writes, writes)
  /\ \A i, j \in DOMAIN reports :
       LET a == reports[i]
           b == reports[j]
       IN a.wait = b.wait /\ {a.from, a.to} = {b.from, b.to} /\ a.from = a.to => a = b

RunsInv == ReplayTyped /\ OnCourse /\ Repeated

LEMMA RunsStart == BacktestInit => OnCourse /\ Repeated
BY DEF BacktestInit, OnCourse, Repeated

LEMMA RepeatedStill ==
  ASSUME Repeated, UNCHANGED <<stored, reports, writes>>
  PROVE  Repeated'
BY DEF Repeated

LEMMA CourseBegins ==
  ASSUME StartVariant, ReplayTyped
  PROVE  OnCourse'
<1>1. [sim |-> folio', kinds |-> outcomes'] = Begin
  BY DEF StartVariant, Begin
<1>2. Reached(stored', WaitMinutes', 0, Begin)
  BY ReachedFirst
<1>3. /\ ticks' = TicksOf(stored') /\ tickNo' = 1
      /\ engine' = IF ticks' = <<>> THEN "report" ELSE "feed"
  BY DEF StartVariant
<1>4. engine' = "report" => Len(ticks') = 0
  BY <1>3
<1>5. tickNo' - 1 = 0
  BY <1>3
<1>6. engine' = "feed" \/ engine' = "report"
  BY <1>3
<1> QED BY <1>1, <1>2, <1>3, <1>4, <1>5, <1>6 DEF OnCourse

LEMMA CourseFed ==
  ASSUME FeedTick, ReplayTyped, OnCourse
  PROVE  OnCourse'
<1>1. /\ engine = "feed" /\ engine' = "monitor" /\ folio' = FedAll(folio, ticks[tickNo].bars)
      /\ UNCHANGED <<stored, variant, ticks, tickNo, outcomes, writes, since>>
  BY DEF FeedTick, tallyVars
<1>2. PICK run \in Runs : run = [sim |-> folio, kinds |-> outcomes]
  BY DEF ReplayTyped
<1>3. WaitMinutes' = WaitMinutes
  BY <1>1 DEF WaitMinutes
<1>4. SUFFICES ASSUME since = writes
               PROVE  /\ ticks' = TicksOf(stored')
                      /\ Reached(stored', WaitMinutes', tickNo' - 1, run)
                      /\ folio' = FedAll(run.sim, ticks'[tickNo'].bars) /\ outcomes' = run.kinds
  BY <1>1 DEF OnCourse
<1>5. ticks = TicksOf(stored) /\ Reached(stored, WaitMinutes, tickNo - 1, run)
  BY <1>1, <1>2, <1>4 DEF OnCourse
<1> QED BY <1>1, <1>2, <1>3, <1>5

LEMMA CourseManaged ==
  ASSUME MonitorTick, ReplayTyped, OnCourse
  PROVE  OnCourse'
<1>1. /\ engine = "monitor" /\ engine' = "scan" /\ folio' = FlattenedAll(folio, ticks[tickNo].at)
      /\ UNCHANGED <<stored, variant, ticks, tickNo, outcomes, writes, since>>
  BY DEF MonitorTick, tallyVars, Now
<1>2. WaitMinutes' = WaitMinutes
  BY <1>1 DEF WaitMinutes
<1>3. SUFFICES ASSUME since = writes
               PROVE  /\ ticks' = TicksOf(stored')
                      /\ \E run \in Runs :
                           /\ Reached(stored', WaitMinutes', tickNo' - 1, run)
                           /\ folio' = Minded(run.sim, ticks'[tickNo']) /\ outcomes' = run.kinds
  BY <1>1 DEF OnCourse
<1>4. PICK run \in Runs : /\ Reached(stored, WaitMinutes, tickNo - 1, run)
                          /\ folio = FedAll(run.sim, ticks[tickNo].bars) /\ outcomes = run.kinds
  BY <1>1, <1>3 DEF OnCourse
<1>5. ticks = TicksOf(stored)
  BY <1>1, <1>3 DEF OnCourse
<1>6. folio' = Minded(run.sim, ticks[tickNo])
  BY <1>1, <1>4 DEF Minded
<1> QED BY <1>1, <1>2, <1>4, <1>5, <1>6

LEMMA CourseScanned ==
  ASSUME ScanTick, ReplayTyped, ReplayTyped', OnCourse
  PROVE  OnCourse'
<1> DEFINE next == [sim |-> folio', kinds |-> outcomes']
<1>1. /\ engine = "scan" /\ NextTick
      /\ next = Scanned(stored, [sim |-> folio, kinds |-> outcomes], ticks[tickNo].at, WaitMinutes)
      /\ UNCHANGED <<stored, variant, ticks, writes, since>>
  <2>1. PICK run \in Runs : run = Scanned(stored, [sim |-> folio, kinds |-> outcomes], Now, WaitMinutes)
    <3>1. ticks[tickNo] \in TickShape
      BY DEF ScanTick, ReplayTyped
    <3>2. \A tick \in TickShape : tick.at \in Nat
      BY DEF TickShape
    <3>3. [sim |-> folio, kinds |-> outcomes] \in Runs /\ stored \in [Screened -> Seq(Candles)]
      BY DEF ReplayTyped
    <3>4. Scanned(stored, [sim |-> folio, kinds |-> outcomes], Now, WaitMinutes) \in Runs
      BY <3>1, <3>2, <3>3, ScannedKeeps DEF Now
    <3> QED BY <3>4
  <2>2. run = [sim |-> run.sim, kinds |-> run.kinds]
    BY DEF Runs
  <2>3. folio' = run.sim /\ outcomes' = run.kinds
    BY <2>1 DEF ScanTick
  <2>4. engine = "scan" /\ NextTick /\ UNCHANGED <<stored, variant, ticks, writes, since>>
    BY DEF ScanTick
  <2> QED BY <2>1, <2>2, <2>3, <2>4 DEF Now
<1>2. next \in Runs
  BY DEF ReplayTyped
<1> HIDE DEF next
<1>3. WaitMinutes' = WaitMinutes
  BY <1>1 DEF WaitMinutes
<1>4. CASE since # writes
  BY <1>1, <1>4 DEF OnCourse
<1>5. CASE since = writes
  <2>1. PICK run \in Runs : /\ Reached(stored, WaitMinutes, tickNo - 1, run)
                            /\ folio = Minded(run.sim, ticks[tickNo]) /\ outcomes = run.kinds
    BY <1>1, <1>5 DEF OnCourse
  <2>2. ticks = TicksOf(stored)
    BY <1>1, <1>5 DEF OnCourse
  <2>3. next = AfterTick(stored, run, ticks[tickNo], WaitMinutes)
    BY <1>1, <2>1 DEF AfterTick
  <2>4. tickNo \in 1..Len(ticks) /\ Len(ticks) \in Nat /\ tickNo - 1 \in Nat /\ (tickNo - 1) + 1 = tickNo
    BY <1>1 DEF ReplayTyped
  <2>5. Reached(stored, WaitMinutes, tickNo, next)
    BY <1>2, <2>1, <2>2, <2>3, <2>4, ReachedNext
  <2>6. CASE tickNo < Len(ticks) /\ engine' = "feed" /\ tickNo' = tickNo + 1
    <3>1. tickNo' - 1 = tickNo
      BY <2>4, <2>6
    <3>2. Reached(stored', WaitMinutes', tickNo' - 1, next) /\ ticks' = TicksOf(stored')
      BY <1>1, <1>3, <2>2, <2>5, <3>1
    <3> QED BY <2>6, <3>2 DEF OnCourse, next
  <2>7. CASE tickNo = Len(ticks) /\ engine' = "report"
    <3>1. Reached(stored', WaitMinutes', Len(ticks'), next) /\ ticks' = TicksOf(stored')
      BY <1>1, <1>3, <2>2, <2>5, <2>7
    <3> QED BY <2>7, <3>1 DEF OnCourse, next
  <2> QED BY <1>1, <2>6, <2>7 DEF NextTick
<1> QED BY <1>4, <1>5

\* The report that is saved is the one of every earlier run over its candles.
LEMMA SaveRepeats ==
  ASSUME SaveReport, ReplayTyped, OnCourse, Repeated
  PROVE  Repeated'
<1>1. /\ engine = "report" /\ reports' = Append(reports, Report)
      /\ UNCHANGED <<stored, writes>>
  BY DEF SaveReport
<1>2. PICK run \in Runs : run = [sim |-> folio, kinds |-> outcomes]
  BY DEF ReplayTyped
<1>3. PICK new : new = Report
  OBVIOUS
<1>4. new = ReportOf(WaitMinutes, run, since, writes)
  BY <1>2, <1>3 DEF Report, ReportOf, Left, ReplayTyped
<1>5. new.wait = WaitMinutes /\ new.from = since /\ new.to = writes
  BY <1>4 DEF ReportOf
<1>6. since = writes => Reached(stored, WaitMinutes, Len(TicksOf(stored)), run)
  BY <1>1, <1>2 DEF OnCourse
<1>7. reports \in Seq(Sound) /\ writes \in Nat
  BY WaitsAre DEF ReplayTyped
<1>8. /\ DOMAIN reports' = DOMAIN reports \union {Len(reports) + 1}
      /\ reports'[Len(reports) + 1] = new /\ \A i \in DOMAIN reports : reports'[i] = reports[i]
  BY <1>1, <1>3, <1>7
<1>9. \A i \in DOMAIN reports' : reports'[i].to <= writes
  <2>1. new.to <= writes
    BY <1>5, <1>7
  <2> QED BY <1>8, <2>1 DEF Repeated
<1>10. ASSUME new.from = writes
       PROVE  \E r \in Runs : /\ Reached(stored, new.wait, Len(TicksOf(stored)), r)
                              /\ new = ReportOf(new.wait, r, writes, writes)
  BY <1>4, <1>5, <1>6, <1>10
<1>11. \A i \in DOMAIN reports' : reports'[i].from = writes /\ reports'[i].to = writes =>
         \E r \in Runs : /\ Reached(stored, reports'[i].wait, Len(TicksOf(stored)), r)
                         /\ reports'[i] = ReportOf(reports'[i].wait, r, writes, writes)
  BY <1>8, <1>10 DEF Repeated
<1>12. ASSUME NEW i \in DOMAIN reports, reports[i].wait = new.wait,
              {reports[i].from, reports[i].to} = {new.from, new.to},
              new.from = new.to \/ reports[i].from = reports[i].to
       PROVE  reports[i] = new
  <2>1. new.from = writes /\ reports[i].from = writes /\ reports[i].to = writes
    BY <1>5, <1>12
  <2>2. PICK r \in Runs : /\ Reached(stored, new.wait, Len(TicksOf(stored)), r)
                          /\ reports[i] = ReportOf(new.wait, r, writes, writes)
    BY <1>12, <2>1 DEF Repeated
  <2>3. since = writes /\ Reached(stored, new.wait, Len(TicksOf(stored)), run)
    BY <1>5, <1>6, <2>1
  <2>4. Len(TicksOf(stored)) \in Nat
    BY TicksAre DEF ReplayTyped
  <2>5. r = run
    BY <2>2, <2>3, <2>4, ReachedOnce
  <2> QED BY <1>4, <1>5, <2>2, <2>3, <2>5
<1>13. ASSUME NEW i \in DOMAIN reports', NEW j \in DOMAIN reports',
              reports'[i].wait = reports'[j].wait,
              {reports'[i].from, reports'[i].to} = {reports'[j].from, reports'[j].to},
              reports'[i].from = reports'[i].to
       PROVE  reports'[i] = reports'[j]
  <2>1. CASE i \in DOMAIN reports /\ j \in DOMAIN reports
    BY <1>8, <1>13, <2>1 DEF Repeated
  <2>2. CASE i \in DOMAIN reports /\ j \notin DOMAIN reports
    BY <1>8, <1>12, <1>13, <2>2
  <2>3. CASE i \notin DOMAIN reports /\ j \in DOMAIN reports
    BY <1>8, <1>12, <1>13, <2>3
  <2>4. CASE i \notin DOMAIN reports /\ j \notin DOMAIN reports
    BY <1>8, <2>4
  <2> QED BY <2>1, <2>2, <2>3, <2>4
<1> QED BY <1>1, <1>9, <1>11, <1>13 DEF Repeated

\* A write makes candles that no report was of, and takes the variant at work off course.
LEMMA WriteApart ==
  ASSUME NEW t \in Screened, NEW bar \in Backfills, StoreCandle(t, bar), ReplayTyped, Repeated
  PROVE  OnCourse' /\ Repeated'
<1>1. writes \in Nat /\ since \in 0..writes /\ writes' = writes + 1 /\ UNCHANGED <<reports, since>>
  BY WaitsAre DEF StoreCandle, ReplayTyped
<1>2. since' # writes'
  BY <1>1
<1>3. \A i \in DOMAIN reports : reports[i].to <= writes /\ reports[i].to \in Nat
  <2>1. \A i \in DOMAIN reports : reports[i] \in Sound
    BY DEF ReplayTyped
  <2>2. \A r \in Sound : r.to \in Nat
    BY DEF Sound
  <2> QED BY <2>1, <2>2 DEF Repeated
<1>4. \A i \in DOMAIN reports' : reports'[i].to <= writes' /\ reports'[i].to # writes'
  BY <1>1, <1>3
<1> QED BY <1>1, <1>2, <1>4 DEF OnCourse, Repeated

LEMMA RunsKept ==
  ASSUME RunsInv, BacktestNext
  PROVE  RunsInv'
<1> USE DEF RunsInv
<1>1. ReplayTyped'
  BY TypesKept
<1>2. CASE StartVariant
  BY <1>1, <1>2, CourseBegins, RepeatedStill DEF StartVariant
<1>3. CASE FeedTick
  BY <1>1, <1>3, CourseFed, RepeatedStill DEF FeedTick
<1>4. CASE MonitorTick
  BY <1>1, <1>4, CourseManaged, RepeatedStill DEF MonitorTick
<1>5. CASE ScanTick
  BY <1>1, <1>5, CourseScanned, RepeatedStill DEF ScanTick
<1>6. CASE SaveReport
  <2>1. OnCourse'
    BY <1>6 DEF SaveReport, OnCourse
  <2> QED BY <1>1, <1>6, <2>1, SaveRepeats
<1>7. CASE RunThrows
  <2>1. OnCourse'
    BY <1>7 DEF RunThrows, OnCourse
  <2> QED BY <1>1, <1>7, <2>1, RepeatedStill DEF RunThrows
<1>8. ASSUME NEW t \in Screened, NEW bar \in Backfills, StoreCandle(t, bar) PROVE RunsInv'
  BY <1>1, <1>8, WriteApart
<1> QED BY <1>2, <1>3, <1>4, <1>5, <1>6, <1>7, <1>8 DEF BacktestNext

LEMMA RunsKeptStill ==
  ASSUME RunsInv, UNCHANGED backtestVars
  PROVE  RunsInv'
<1>1. ReplayTyped'
  BY TypesKeptStill DEF RunsInv
<1>2. Repeated'
  BY RepeatedStill DEF RunsInv, backtestVars
<1>3. WaitMinutes' = WaitMinutes
  BY DEF backtestVars, WaitMinutes
<1>4. OnCourse'
  BY <1>3 DEF RunsInv, OnCourse, backtestVars, tallyVars
<1> QED BY <1>1, <1>2, <1>4 DEF RunsInv

LEMMA RunsImply ==
  ASSUME RunsInv
  PROVE  ReportsHold
<1>1. \A i \in DOMAIN reports : reports[i] \in Sound
  BY DEF RunsInv, ReplayTyped
<1>2. \A r \in Sound : /\ r.signals = r.stats["executed"] + r.stats["vetoed"] + r.stats["risk-rejected"]
                       /\ r.stats["executed"] = r.performance.trades + r.left
                       /\ r.performance.maxDrawdown >= 0 - r.performance.totalPnl
  BY DEF Sound
<1> QED BY <1>1, <1>2 DEF RunsInv, Repeated, ReportsHold

\* ReportsHold for every history, every list of variants, every backfill and every draw of
\* the stub: two reports of one parameter over the same candles are the same whatever ran
\* or was written between them, and each report adds up.
THEOREM ReportsAreSound == BacktestSpec => []ReportsHold
<1>1. BacktestInit => RunsInv
  BY TypesStart, RunsStart DEF RunsInv
<1>2. RunsInv /\ [BacktestNext]_backtestVars => RunsInv'
  BY RunsKept, RunsKeptStill
<1>3. RunsInv => ReportsHold
  BY RunsImply
<1> QED BY <1>1, <1>2, <1>3, PTL DEF BacktestSpec

-----------------------------------------------------------------------------
(* The book, the plug-ins, the screening and the replay beside each other  *)

\* What is explored together is, seen from each component, that component: what is shown
\* of its own specification holds of the whole.
THEOREM BookIsComponents == BookSpec => Spec /\ PluginSpec /\ ScreeningSpec /\ BacktestSpec
<1>1. BookInit => Init /\ PluginInit /\ ScreeningInit /\ BacktestInit
  BY DEF BookInit
<1>2. [BookNext]_bookVars => [Next]_vars
  BY DEF BookNext, bookVars
<1>3. [BookNext]_bookVars => [PluginNext]_pluginVars
  BY DEF BookNext, bookVars
<1>4. [BookNext]_bookVars => [ScreeningNext]_screeningVars
  BY DEF BookNext, bookVars
<1>5. [BookNext]_bookVars => [BacktestNext]_backtestVars
  BY DEF BookNext, bookVars
<1> QED BY <1>1, <1>2, <1>3, <1>4, <1>5, PTL DEF BookSpec, Spec, PluginSpec, ScreeningSpec, BacktestSpec

\* Every variable of the four keeps its type.
THEOREM BookTyped == BookSpec => []TypesOK
<1>1. TypeOK /\ PluginTypeOK /\ ScreeningTypeOK /\ BacktestTypeOK => TypesOK
  BY DEF TypesOK
<1> QED BY <1>1, BookIsComponents, TypeCorrect, PluginTyped, ScreeningTyped, BacktestTyped, PTL
=============================================================================
