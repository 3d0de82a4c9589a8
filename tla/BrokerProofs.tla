---------------------------- MODULE BrokerProofs ----------------------------
(***************************************************************************)
(* Proofs about IbPort: the port's book against the broker's orders, for   *)
(* any brackets, shares, resizes and any number of lost links, restarts,   *)
(* repeated and dropped reports.                                           *)
(*                                                                         *)
(* One invariant, PortInv, carries them all. It says, bracket by bracket   *)
(* (BracketInv), what no restart can undo, because the broker's orders and *)
(* the reports on the wire outlive the process: an unplaced bracket is     *)
(* fresh (FreshUntilPlaced); the broker never sells what it does not hold  *)
(* and keeps the stop it was given (BrokerSide); stops and fills have the  *)
(* sizes that were asked for or resized to (SizesOK); what the book will   *)
(* still learn is on the wire (WireOK); what it believes is what it was    *)
(* told (BookOK); and every half of a fill is booked, kept or on its way   *)
(* (SharesOK). A step about one bracket leaves the others (Untouched).     *)
(***************************************************************************)
EXTENDS ControlProofs, MCControls, Integers

Statuses == {"Submitted", "Filled", "Cancelled", "Inactive"}
LegStates == LiveStatus \union {"none", "filled", "cancelled", "rejected"}
OrderShape == [at : {"none", "working", "filled", "cancelled", "rejected"}, qty : Nat, filled : Nat]
BookShape == [status : {"none", "pending", "open", "closed", "cancelled"}, qty : Nat,
              entry : {"none", "known"}, legs : [Legs -> LegStates]]

LEMMA StatusMap ==
  /\ DOMAIN MapIbStatus = Statuses
  /\ \A s \in Statuses : MapIbStatus[s] \in {"working", "filled", "cancelled", "rejected"}
                         /\ MapIbStatus[s] \in LegStates
  /\ \A s \in Statuses : (MapIbStatus[s] = "filled" <=> s = "Filled")
                         /\ (MapIbStatus[s] = "cancelled" <=> s = "Cancelled")
<1>1. DOMAIN MapIbStatus = Statuses
  BY DEF MapIbStatus, Statuses
<1>2. /\ MapIbStatus["Submitted"] = "working" /\ MapIbStatus["Filled"] = "filled"
      /\ MapIbStatus["Cancelled"] = "cancelled" /\ MapIbStatus["Inactive"] = "rejected"
  BY DEF MapIbStatus
<1> QED BY <1>1, <1>2 DEF Statuses, LegStates, LiveStatus

LEMMA Reports ==
  /\ \A o, l, s : Status(o, l, s).of[1] = o
  /\ \A o, n, k : Half(o, n, k).of[1] = o
  /\ \A o, l, s, p, m, t : Status(o, l, s) = Status(p, m, t) => o = p /\ l = m /\ s = t
  /\ \A o, n, k, p, m, j : Half(o, n, k) = Half(p, m, j) => o = p /\ n = m /\ k = j
  /\ \A o, l, s, p, m : \A j \in HalfKind : Status(o, l, s) # Half(p, m, j)
<1>1. \A o, l, s : Status(o, l, s).of[1] = o
  BY DEF Status
<1>2. \A o, n, k : Half(o, n, k).of[1] = o
  BY DEF Half
<1>3. \A o, l, s, p, m, t : Status(o, l, s) = Status(p, m, t) => o = p /\ l = m /\ s = t
  BY DEF Status
<1>4. \A o, n, k, p, m, j : Half(o, n, k) = Half(p, m, j) => o = p /\ n = m /\ k = j
  BY DEF Half
<1>5. \A o, l, s, p, m : \A j \in HalfKind : Status(o, l, s) # Half(p, m, j)
  <2> SUFFICES ASSUME NEW o, NEW l, NEW s, NEW p, NEW m, NEW j \in HalfKind, Status(o, l, s) = Half(p, m, j)
               PROVE FALSE
    OBVIOUS
  <2>1. Status(o, l, s).kind = "status" /\ Half(p, m, j).kind = j
    BY DEF Status, Half
  <2> QED BY <2>1 DEF HalfKind
<1> QED BY <1>1, <1>2, <1>3, <1>4, <1>5

LEMMA LeftShape ==
  ASSUME PortTypeOK, NEW o \in Orders, NEW legs, NEW at \in {"cancelled", "rejected"}
  PROVE  /\ Left(o, legs, at) \in [Legs -> OrderShape]
         /\ \A l \in Legs :
              /\ Left(o, legs, at)[l].qty = broker[o][l].qty
              /\ Left(o, legs, at)[l].filled = broker[o][l].filled
              /\ Left(o, legs, at)[l].at = IF l \in legs /\ Working(o, l) THEN at ELSE broker[o][l].at
<1>1. \A l \in Legs : broker[o][l] \in OrderShape
  BY DEF PortTypeOK, OrderShape
<1>2. ASSUME NEW l \in Legs
      PROVE  /\ [broker[o][l] EXCEPT !.at = at] \in OrderShape
             /\ [broker[o][l] EXCEPT !.at = at].qty = broker[o][l].qty
             /\ [broker[o][l] EXCEPT !.at = at].filled = broker[o][l].filled
             /\ [broker[o][l] EXCEPT !.at = at].at = at
  BY <1>1 DEF OrderShape
<1> QED BY <1>1, <1>2 DEF Left

\* What the status of an order makes of its bracket, new.
Effect(o, l, s, new) ==
  \/ /\ l = "parent" /\ s = "Filled" /\ book[o].status = "pending"
     /\ new.status = "open" /\ new.entry = "known"
  \/ /\ l \in Exits /\ s = "Filled"
     /\ new.status = "closed" /\ new.entry = book[o].entry
  \/ /\ l = "parent" /\ s = "Cancelled"
     /\ new.status = "cancelled" /\ new.entry = book[o].entry
  \/ /\ ~(l \in Exits /\ s = "Filled")
     /\ new.status = book[o].status /\ new.entry = book[o].entry

LEMMA StatusShape ==
  ASSUME PortTypeOK, NEW o \in Orders, NEW l \in Legs, NEW s \in Statuses
  PROVE  /\ OnOrderStatus(o, l, s) \in BookShape
         /\ OnOrderStatus(o, l, s).qty = book[o].qty
         /\ OnOrderStatus(o, l, s).legs = [book[o].legs EXCEPT ![l] = MapIbStatus[s]]
         /\ Effect(o, l, s, OnOrderStatus(o, l, s))
<1> DEFINE b == [book[o] EXCEPT !.legs[l] = MapIbStatus[s]]
<1>1. book[o] \in BookShape
  BY DEF PortTypeOK, BookShape, LegStates
<1>2. /\ b \in BookShape /\ b.status = book[o].status /\ b.qty = book[o].qty
      /\ b.entry = book[o].entry /\ b.legs = [book[o].legs EXCEPT ![l] = MapIbStatus[s]]
  BY <1>1, StatusMap DEF BookShape
<1>3. ASSUME NEW st \in {"open", "closed", "cancelled"}, NEW e \in {"none", "known"}
      PROVE  /\ [b EXCEPT !.status = st, !.entry = e] \in BookShape
             /\ [b EXCEPT !.status = st, !.entry = e].status = st
             /\ [b EXCEPT !.status = st, !.entry = e].entry = e
             /\ [b EXCEPT !.status = st, !.entry = e].qty = b.qty
             /\ [b EXCEPT !.status = st, !.entry = e].legs = b.legs
             /\ [b EXCEPT !.status = st] \in BookShape
             /\ [b EXCEPT !.status = st].status = st
             /\ [b EXCEPT !.status = st].entry = b.entry
             /\ [b EXCEPT !.status = st].qty = b.qty
             /\ [b EXCEPT !.status = st].legs = b.legs
  <2> HIDE DEF b
  <2> QED BY <1>2 DEF BookShape
<1>4. CASE l = "parent" /\ MapIbStatus[s] = "filled" /\ b.status = "pending"
  <2>1. OnOrderStatus(o, l, s) = [b EXCEPT !.status = "open", !.entry = "known"]
    BY <1>4, StatusMap DEF OnOrderStatus, Exits
  <2> HIDE DEF b
  <2>2. /\ OnOrderStatus(o, l, s) \in BookShape
        /\ OnOrderStatus(o, l, s).status = "open" /\ OnOrderStatus(o, l, s).entry = "known"
        /\ OnOrderStatus(o, l, s).qty = b.qty /\ OnOrderStatus(o, l, s).legs = b.legs
    BY <1>3, <2>1
  <2>3. l = "parent" /\ s = "Filled" /\ book[o].status = "pending"
    BY <1>2, <1>4, StatusMap
  <2> QED BY <1>2, <2>2, <2>3 DEF Effect
<1>5. CASE l \in Exits /\ MapIbStatus[s] = "filled"
  <2>1. OnOrderStatus(o, l, s) = [b EXCEPT !.status = "closed"]
    BY <1>5 DEF OnOrderStatus, Exits
  <2> HIDE DEF b
  <2>2. /\ OnOrderStatus(o, l, s) \in BookShape
        /\ OnOrderStatus(o, l, s).status = "closed" /\ OnOrderStatus(o, l, s).entry = b.entry
        /\ OnOrderStatus(o, l, s).qty = b.qty /\ OnOrderStatus(o, l, s).legs = b.legs
    BY <1>3, <2>1
  <2>3. l \in Exits /\ s = "Filled"
    BY <1>5, StatusMap
  <2> QED BY <1>2, <2>2, <2>3 DEF Effect
<1>6. CASE l = "parent" /\ MapIbStatus[s] = "cancelled"
  <2>1. OnOrderStatus(o, l, s) = [b EXCEPT !.status = "cancelled"]
    BY <1>6 DEF OnOrderStatus, Exits
  <2> HIDE DEF b
  <2>2. /\ OnOrderStatus(o, l, s) \in BookShape
        /\ OnOrderStatus(o, l, s).status = "cancelled" /\ OnOrderStatus(o, l, s).entry = b.entry
        /\ OnOrderStatus(o, l, s).qty = b.qty /\ OnOrderStatus(o, l, s).legs = b.legs
    BY <1>3, <2>1
  <2>3. l = "parent" /\ s = "Cancelled"
    BY <1>6, StatusMap
  <2> QED BY <1>2, <2>2, <2>3 DEF Effect
<1>7. CASE /\ ~(l = "parent" /\ MapIbStatus[s] = "filled" /\ b.status = "pending")
           /\ ~(l \in Exits /\ MapIbStatus[s] = "filled")
           /\ ~(l = "parent" /\ MapIbStatus[s] = "cancelled")
  <2>1. OnOrderStatus(o, l, s) = b
    BY <1>7 DEF OnOrderStatus
  <2> HIDE DEF b
  <2>2. ~(l \in Exits /\ s = "Filled")
    BY <1>7, StatusMap
  <2> QED BY <1>2, <2>1, <2>2 DEF Effect
<1> HIDE DEF b
<1> QED BY <1>4, <1>5, <1>6, <1>7

LEMMA FillShape ==
  ASSUME PortTypeOK, NEW o \in Orders
  PROVE  /\ OnFill(o) \in BookShape
         /\ OnFill(o).qty = book[o].qty /\ OnFill(o).legs = book[o].legs
         /\ OnFill(o).entry = "known"
         /\ OnFill(o).status = IF book[o].entry = "none" /\ book[o].status = "pending"
                                 THEN "open" ELSE book[o].status
<1>1. book[o] \in BookShape
  BY DEF PortTypeOK, BookShape, LegStates
<1>2. CASE book[o].entry = "none"
  BY <1>1, <1>2 DEF OnFill, BookShape
<1>3. CASE book[o].entry = "known"
  BY <1>1, <1>3 DEF OnFill, BookShape
<1> QED BY <1>1, <1>2, <1>3 DEF BookShape

LEMMA ExecutionsOf ==
  /\ \A o \in Orders : \A n \in 1..Shares[o] : <<o, n>> \in Executions
  /\ \A x \in Executions : \E o \in Orders : \E n \in 1..Shares[o] : x = <<o, n>>
  BY DEF Executions

LEMMA PortTypeInit == PortInit => PortTypeOK
<1> SUFFICES ASSUME PortInit PROVE PortTypeOK
  OBVIOUS
<1>1. Absent \in OrderShape /\ Unplaced \in BookShape
  BY DEF Absent, Unplaced, OrderShape, BookShape, LegStates, LiveStatus
<1>2. Shares \in [Orders -> Nat] /\ MaxPortFaults \in Nat
  BY PortAssumption
<1>3. broker \in [Orders -> [Legs -> OrderShape]] /\ book \in [Orders -> BookShape]
  BY <1>1 DEF PortInit
<1> QED BY <1>2, <1>3 DEF PortInit, PortTypeOK, OrderShape, BookShape, LegStates

LEMMA TakenAll ==
  ASSUME NEW o \in Orders, NEW upTo \in LegsOf(o)
  PROVE  Taken(o, upTo) = {} \/ Taken(o, upTo) = LegsOf(o)
<1>1. /\ Before["parent"] = {"parent"} /\ Before["stop"] = {"parent", "stop"}
      /\ Before["target"] = {"parent", "stop", "target"}
  BY DEF Before, Legs
<1>2. CASE o \in Targeted
  <2>1. \A l : Transmits(o, l) <=> l = "target"
    BY <1>2 DEF Transmits
  <2>2. LegsOf(o) = {"parent", "stop", "target"}
    BY <1>2 DEF LegsOf, Legs
  <2>3. CASE upTo = "target"
    <3>1. {k \in Before[upTo] : Transmits(o, k)} = {"target"}
      BY <1>1, <2>1, <2>3
    <3> QED BY <1>1, <2>2, <3>1 DEF Taken
  <2>4. CASE upTo # "target"
    <3>1. {k \in Before[upTo] : Transmits(o, k)} = {}
      BY <1>1, <2>1, <2>2, <2>4
    <3> QED BY <3>1 DEF Taken
  <2> QED BY <2>3, <2>4
<1>3. CASE o \notin Targeted
  <2>1. \A l : Transmits(o, l) <=> l = "stop"
    BY <1>3 DEF Transmits
  <2>2. LegsOf(o) = {"parent", "stop"}
    BY <1>3 DEF LegsOf
  <2>3. CASE upTo = "stop"
    <3>1. {k \in Before[upTo] : Transmits(o, k)} = {"stop"}
      BY <1>1, <2>1, <2>3
    <3> QED BY <1>1, <2>2, <3>1 DEF Taken
  <2>4. CASE upTo # "stop"
    <3>1. {k \in Before[upTo] : Transmits(o, k)} = {}
      BY <1>1, <2>1, <2>2, <2>4
    <3> QED BY <3>1 DEF Taken
  <2> QED BY <2>3, <2>4
<1> QED BY <1>2, <1>3

\* A bracket as the port enters it, and what reaches the broker of it.
LEMMA Staged ==
  ASSUME PortTypeOK, NEW o \in Orders, NEW taken, Stage(o, taken)
  PROVE  /\ book' \in [Orders -> BookShape] /\ broker' \in [Orders -> [Legs -> OrderShape]]
         /\ callers' = [callers EXCEPT ![o] = "placed"]
         /\ \A p \in Orders \ {o} : book'[p] = book[p] /\ broker'[p] = broker[p]
         /\ book'[o].status = "pending" /\ book'[o].qty = Shares[o] /\ book'[o].entry = "none"
         /\ \A l \in LegsOf(o) : book'[o].legs[l] = "pending_submit"
         /\ \A l \in Legs :
              /\ broker'[o][l].at = IF l \in taken THEN "working" ELSE "none"
              /\ broker'[o][l].filled = 0
              /\ broker'[o][l].qty = IF l \in taken THEN Shares[o] ELSE 0
<1>1. Shares[o] \in Nat
  BY PortAssumption
<1>2. NewBracket(o) \in BookShape
  BY <1>1 DEF NewBracket, BookShape, LegStates, LiveStatus
<1>3. LegsOf(o) \subseteq Legs
  BY DEF LegsOf, Legs
<1> DEFINE new == [l \in Legs |-> IF l \in taken THEN [at |-> "working", qty |-> Shares[o], filled |-> 0]
                                               ELSE Absent]
<1>4. new \in [Legs -> OrderShape]
  BY <1>1 DEF OrderShape, Absent
<1>5. book' = [book EXCEPT ![o] = NewBracket(o)] /\ broker' = [broker EXCEPT ![o] = new]
      /\ callers' = [callers EXCEPT ![o] = "placed"]
  BY DEF Stage
<1>6. broker \in [Orders -> [Legs -> OrderShape]] /\ book \in [Orders -> BookShape]
  BY DEF PortTypeOK, OrderShape, BookShape, LegStates
<1>7. \A l \in Legs :
        /\ new[l].at = IF l \in taken THEN "working" ELSE "none"
        /\ new[l].filled = 0
        /\ new[l].qty = IF l \in taken THEN Shares[o] ELSE 0
  BY DEF Absent
<1>8. /\ NewBracket(o).status = "pending" /\ NewBracket(o).qty = Shares[o] /\ NewBracket(o).entry = "none"
      /\ \A l \in LegsOf(o) : NewBracket(o).legs[l] = "pending_submit"
  BY <1>3 DEF NewBracket
<1> HIDE DEF new
<1>9. broker'[o] = new /\ book'[o] = NewBracket(o)
  BY <1>5, <1>6
<1>10. /\ book' \in [Orders -> BookShape] /\ broker' \in [Orders -> [Legs -> OrderShape]]
       /\ \A p \in Orders \ {o} : book'[p] = book[p] /\ broker'[p] = broker[p]
  BY <1>2, <1>4, <1>5, <1>6
<1> QED BY <1>5, <1>7, <1>8, <1>9, <1>10

\* The types, in the shapes the steps are stated with.
Typed ==
  /\ book \in [Orders -> BookShape] /\ broker \in [Orders -> [Legs -> OrderShape]]
  /\ link \in {"none", "opening", "up", "down"}
  /\ started \in {"no", "yes"} /\ nextId \in {"none", "seeded"}
  /\ callers \in [Orders -> {"idle", "connecting", "placed", "failed"}]
  /\ halves \in [Executions -> SUBSET HalfKind] /\ booked \in [Executions -> Nat]
  /\ asked \subseteq Orders \X Legs
  /\ intended \in [Orders -> Nat] /\ cancels \subseteq Orders /\ blind \subseteq Orders
  /\ portFaults \in Nat

LEMMA TypedIsPortTypeOK == Typed <=> PortTypeOK
  BY DEF Typed, PortTypeOK, OrderShape, BookShape, LegStates

\* Every report is about a bracket.
WireOf == \A r \in wire : r.of[1] \in Orders

LEMMA StageTyped ==
  ASSUME Typed, NEW o \in Orders, NEW taken, Stage(o, taken)
  PROVE  /\ book' \in [Orders -> BookShape] /\ broker' \in [Orders -> [Legs -> OrderShape]]
         /\ callers' \in [Orders -> {"idle", "connecting", "placed", "failed"}]
<1>1. PortTypeOK
  BY TypedIsPortTypeOK
<1>2. callers' = [callers EXCEPT ![o] = "placed"]
  BY DEF Stage
<1> QED BY <1>1, <1>2, Staged DEF Typed

LEMMA FaultTyped ==
  ASSUME Typed, NEW what, PortFault(what)
  PROVE  portFaults' \in Nat /\ portFaults' = portFaults - 1
  BY DEF Typed, PortFault

LEMMA LostTyped ==
  ASSUME Typed, WireOf, NEW also \in SUBSET Orders, LinkLost(also)
  PROVE  link' = "down" /\ wire' = {} /\ blind' \subseteq Orders /\ WireOf'
  BY DEF Typed, WireOf, LinkLost

LEMMA LinkTyped ==
  ASSUME Typed, WireOf, LinkStep
  PROVE  Typed' /\ WireOf'
<1>1. CASE NextValidId
  <2>1. CASE \E o \in Orders : callers[o] = "connecting" /\ Stage(o, LegsOf(o))
    BY <1>1, <2>1, StageTyped DEF NextValidId, Typed, WireOf
  <2>2. CASE UNCHANGED <<callers, book, broker>>
    BY <1>1, <2>2 DEF NextValidId, Typed, WireOf
  <2> QED BY <1>1, <2>1, <2>2 DEF NextValidId
<1>2. CASE ConnectFails
  BY <1>2, FaultTyped DEF ConnectFails, Typed, WireOf
<1>3. CASE NetLiquidationConnects
  BY <1>3 DEF NetLiquidationConnects, Typed, WireOf
<1>4. CASE Disconnected
  BY <1>4, FaultTyped, LostTyped DEF Disconnected, Typed
<1>5. CASE PortRestarts
  <2>1. Unplaced \in BookShape
    BY DEF Unplaced, BookShape, LegStates
  <2> QED BY <1>5, <2>1, FaultTyped DEF PortRestarts, Typed, WireOf
<1> QED BY <1>1, <1>2, <1>3, <1>4, <1>5 DEF LinkStep

LEMMA ResizedShape ==
  ASSUME Typed, NEW o \in Orders, NEW q \in Nat, NEW resent \in SUBSET Exits
  PROVE  /\ ResizedLegs(o, q, resent) \in [Legs -> OrderShape]
         /\ \A l \in Legs :
              /\ ResizedLegs(o, q, resent)[l].at = broker[o][l].at
              /\ ResizedLegs(o, q, resent)[l].filled = broker[o][l].filled
              /\ ResizedLegs(o, q, resent)[l].qty \in {broker[o][l].qty, q}
              /\ l \notin resent => ResizedLegs(o, q, resent)[l].qty = broker[o][l].qty
<1>1. \A l \in Legs : broker[o][l] \in OrderShape
  BY DEF Typed
<1>2. ASSUME NEW l \in Legs
      PROVE  /\ [broker[o][l] EXCEPT !.qty = q] \in OrderShape
             /\ [broker[o][l] EXCEPT !.qty = q].qty = q
             /\ [broker[o][l] EXCEPT !.qty = q].filled = broker[o][l].filled
             /\ [broker[o][l] EXCEPT !.qty = q].at = broker[o][l].at
  BY <1>1 DEF OrderShape
<1>3. ASSUME NEW l \in Legs
      PROVE  /\ Resized(o, l, q) \in OrderShape
             /\ Resized(o, l, q).at = broker[o][l].at
             /\ Resized(o, l, q).filled = broker[o][l].filled
             /\ Resized(o, l, q).qty \in {broker[o][l].qty, q}
  BY <1>1, <1>2 DEF Resized
<1> QED BY <1>1, <1>3 DEF ResizedLegs

\* The fields of a bracket that modifyBracket and cancelBracket leave.
LEMMA EditShape ==
  ASSUME Typed, NEW o \in Orders
  PROVE  /\ \A q \in Nat : LET b == [book EXCEPT ![o].qty = q]
                          IN /\ b \in [Orders -> BookShape] /\ b[o].qty = q
                             /\ b[o].status = book[o].status /\ b[o].entry = book[o].entry
                             /\ b[o].legs = book[o].legs /\ \A p \in Orders \ {o} : b[p] = book[p]
         /\ LET b == [book EXCEPT ![o].status = "cancelled"]
            IN /\ b \in [Orders -> BookShape] /\ b[o].status = "cancelled"
               /\ b[o].qty = book[o].qty /\ b[o].entry = book[o].entry
               /\ b[o].legs = book[o].legs /\ \A p \in Orders \ {o} : b[p] = book[p]
  BY DEF Typed, BookShape

LEMMA CallTyped ==
  ASSUME Typed, WireOf, NEW o \in Orders, CallStep(o)
  PROVE  Typed' /\ WireOf'
<1>1. CASE StartPort(o)
  BY <1>1 DEF StartPort, Typed, WireOf
<1>2. CASE PlaceRefused(o)
  BY <1>2 DEF PlaceRefused, Typed, WireOf
<1>3. CASE PlaceBracket(o)
  <2>1. CASE link = "up" /\ Stage(o, LegsOf(o)) /\ UNCHANGED <<link, wire, blind, portFaults>>
    BY <1>3, <2>1, StageTyped DEF PlaceBracket, Typed, WireOf
  <2>2. CASE /\ link = "up" /\ PortFault("drop") /\ LinkLost({o})
             /\ \E upTo \in LegsOf(o) : Stage(o, Taken(o, upTo))
    BY <1>3, <2>2, StageTyped, FaultTyped, LostTyped DEF PlaceBracket, Typed, WireOf
  <2>3. CASE /\ link # "up" /\ Stage(o, {}) /\ blind' = blind \union {o}
             /\ UNCHANGED <<link, wire, portFaults>>
    BY <1>3, <2>3, StageTyped DEF PlaceBracket, Typed, WireOf
  <2> QED BY <1>3, <2>1, <2>2, <2>3 DEF PlaceBracket
<1>4. CASE CancelBracket(o)
  <2>1. {o} \X LegsOf(o) \subseteq Orders \X Legs
    BY DEF LegsOf, Legs
  <2> QED BY <1>4, <2>1, EditShape DEF CancelBracket, Typed, WireOf
<1>5. ASSUME NEW q \in 1..Shares[o], NEW resent \in {{"stop"}, Exits}, ModifyBracket(o, q, resent)
      PROVE  Typed' /\ WireOf'
  <2>1. q \in Nat
    BY PortAssumption
  <2> QED BY <1>5, <2>1, EditShape, ResizedShape DEF Exits, ModifyBracket, Typed, WireOf
<1> QED BY <1>1, <1>2, <1>3, <1>4, <1>5 DEF CallStep

LEMMA ReportTyped ==
  ASSUME Typed, WireOf, NEW o \in Orders, NEW reports, Report(o, reports),
         \A r \in reports : r.of[1] = o
  PROVE  blind' \subseteq Orders /\ WireOf'
  BY DEF Typed, WireOf, Report

LEMMA DeliveredTyped ==
  ASSUME Typed, WireOf, NEW r, Delivered(r)
  PROVE  portFaults' \in Nat /\ portFaults' <= portFaults /\ WireOf' /\ wire' \subseteq wire
         /\ wire \ {r} \subseteq wire' /\ r \in wire
  BY DEF Typed, WireOf, Delivered, PortFault

LEMMA CancelReportsOf ==
  ASSUME NEW o, NEW legs, NEW l \in Legs, NEW s
  PROVE  (Status(o, l, s) \in CancelReports(o, legs) <=> l \in legs /\ Working(o, l) /\ s = "Cancelled")
         /\ \A r \in CancelReports(o, legs) : r.of[1] = o
  BY Reports DEF CancelReports

LEMMA ExecOf ==
  ASSUME NEW o, NEW n
  PROVE  /\ \A r \in Exec(o, n) : r.of[1] = o
         /\ \A k \in HalfKind : Half(o, n, k) \in Exec(o, n)
         /\ \A m, k : Half(o, m, k) \in Exec(o, n) => m = n
         /\ \A p, l, s : Status(p, l, s) \notin Exec(o, n)
  BY Reports DEF Exec

\* What a fill of the parent does at the broker.
LEMMA ParentFilled ==
  ASSUME Typed, NEW o \in Orders, NEW k \in 1..Shares[o], ParentFills(o, k)
  PROVE  /\ broker' \in [Orders -> [Legs -> OrderShape]]
         /\ \A p \in Orders \ {o} : broker'[p] = broker[p]
         /\ \A l \in Exits : broker'[o][l] = broker[o][l]
         /\ broker'[o]["parent"].filled = broker[o]["parent"].filled + k
         /\ broker'[o]["parent"].filled <= broker[o]["parent"].qty
         /\ broker'[o]["parent"].qty = broker[o]["parent"].qty
         /\ broker'[o]["parent"].at \in {"working", "filled"}
<1> DEFINE parent == broker[o]["parent"]
           filled == parent.filled + k
           at     == IF filled = parent.qty THEN "filled" ELSE parent.at
           new    == [parent EXCEPT !.filled = filled, !.at = at]
<1>1. parent \in OrderShape /\ parent.at = "working" /\ k \in Nat
  BY PortAssumption DEF Typed, Legs, ParentFills, Working
<1>2. filled \in Nat /\ at \in {"working", "filled"}
  BY <1>1 DEF OrderShape
<1>3. new \in OrderShape /\ new.filled = filled /\ new.at = at /\ new.qty = parent.qty
  <2> HIDE DEF parent, filled, at
  <2> QED BY <1>1, <1>2 DEF OrderShape
<1>4. filled <= parent.qty /\ broker' = [broker EXCEPT ![o]["parent"] = new]
  BY DEF ParentFills
<1> HIDE DEF new
<1>5. broker'[o] = [broker[o] EXCEPT !["parent"] = new] /\ "parent" \in Legs
  BY <1>4 DEF Typed, Legs
<1>6. broker'[o]["parent"] = new /\ \A l \in Exits : broker'[o][l] = broker[o][l]
  BY <1>5 DEF Typed, Exits, Legs
<1> QED BY <1>2, <1>3, <1>4, <1>5, <1>6 DEF Typed

LEMMA HeldInt ==
  ASSUME Typed, NEW o \in Orders
  PROVE  Held(o) \in Int /\ Sold(o) \in Nat /\ broker[o]["parent"].filled \in Nat
         /\ Held(o) = broker[o]["parent"].filled - Sold(o)
  BY DEF Typed, OrderShape, Legs, Held, Sold

\* What the fill of an exit does at the broker.
LEMMA ExitFilled ==
  ASSUME Typed, NEW o \in Orders, NEW l \in Exits, ExitFills(o, l)
  PROVE  /\ broker' \in [Orders -> [Legs -> OrderShape]]
         /\ \A p \in Orders \ {o} : broker'[p] = broker[p]
         /\ broker'[o]["parent"] = broker[o]["parent"]
         /\ broker'[o][l].at = "filled"
         /\ broker'[o][l].filled = IF broker[o][l].qty < Held(o) THEN broker[o][l].qty ELSE Held(o)
         /\ \A m \in Exits \ {l} :
              /\ broker'[o][m].filled = broker[o][m].filled /\ broker'[o][m].qty = broker[o][m].qty
              /\ broker'[o][m].at = IF Working(o, m) THEN "cancelled" ELSE broker[o][m].at
<1> DEFINE exit  == broker[o][l]
           sells == IF exit.qty < Held(o) THEN exit.qty ELSE Held(o)
           rest  == Left(o, Exits, "cancelled")
           new   == [exit EXCEPT !.filled = sells, !.at = "filled"]
<1>1. exit \in OrderShape /\ l \in Legs /\ Held(o) > 0
  BY DEF Typed, Legs, Exits, ExitFills
<1>2. sells \in Nat
  BY <1>1, HeldInt DEF OrderShape
<1>3. new \in OrderShape /\ new.filled = sells /\ new.at = "filled"
  <2> HIDE DEF exit, sells
  <2> QED BY <1>1, <1>2 DEF OrderShape
<1>4. broker' = [broker EXCEPT ![o] = [rest EXCEPT ![l] = new]]
  BY DEF ExitFills
<1>5. /\ rest \in [Legs -> OrderShape]
      /\ \A m \in Legs : /\ rest[m].qty = broker[o][m].qty /\ rest[m].filled = broker[o][m].filled
                         /\ rest[m].at = IF m \in Exits /\ Working(o, m) THEN "cancelled" ELSE broker[o][m].at
  BY LeftShape, TypedIsPortTypeOK
<1>10. rest["parent"] = broker[o]["parent"]
  BY DEF Left, Exits, Legs
<1> HIDE DEF new, rest
<1>6. broker'[o] = [rest EXCEPT ![l] = new]
  BY <1>4 DEF Typed
<1>7. broker'[o][l] = new /\ \A m \in Legs \ {l} : broker'[o][m] = rest[m]
  BY <1>1, <1>5, <1>6
<1>8. [rest EXCEPT ![l] = new] \in [Legs -> OrderShape]
  BY <1>1, <1>3, <1>5
<1>9. broker' \in [Orders -> [Legs -> OrderShape]] /\ \A p \in Orders \ {o} : broker'[p] = broker[p]
  BY <1>4, <1>8 DEF Typed
<1> QED BY <1>3, <1>5, <1>7, <1>9, <1>10 DEF Exits, Legs

\* Of the legs given those that work leave the market, and nothing else changes.
Leave(o, legs, at) ==
  \A l \in Legs :
    /\ broker'[o][l].qty = broker[o][l].qty /\ broker'[o][l].filled = broker[o][l].filled
    /\ broker'[o][l].at = IF l \in legs /\ Working(o, l) THEN at ELSE broker[o][l].at

\* What orders leaving the market unfilled does at the broker.
LEMMA LegsLeft ==
  ASSUME Typed, NEW o \in Orders, NEW legs, NEW at \in {"cancelled", "rejected"},
         broker' = [broker EXCEPT ![o] = Left(o, legs, at)]
  PROVE  /\ broker' \in [Orders -> [Legs -> OrderShape]]
         /\ \A p \in Orders \ {o} : broker'[p] = broker[p]
         /\ Leave(o, legs, at)
<1> DEFINE rest == Left(o, legs, at)
<1>1. /\ rest \in [Legs -> OrderShape]
      /\ \A l \in Legs : /\ rest[l].qty = broker[o][l].qty /\ rest[l].filled = broker[o][l].filled
                         /\ rest[l].at = IF l \in legs /\ Working(o, l) THEN at ELSE broker[o][l].at
  BY LeftShape, TypedIsPortTypeOK
<1> HIDE DEF rest
<1>2. broker' = [broker EXCEPT ![o] = rest]
  BY DEF rest
<1>3. broker'[o] = rest
  BY <1>2 DEF Typed
<1> QED BY <1>1, <1>2, <1>3 DEF Typed, Leave

LEMMA BrokerTyped ==
  ASSUME Typed, WireOf, NEW o \in Orders, BrokerStep(o)
  PROVE  Typed' /\ WireOf'
<1>1. ASSUME NEW k \in 1..Shares[o], ParentFills(o, k) PROVE Typed' /\ WireOf'
  <2>1. blind' \subseteq Orders /\ WireOf'
    BY <1>1, Reports, ExecOf, ReportTyped DEF ParentFills
  <2> QED BY <1>1, <2>1, ParentFilled DEF ParentFills, portKept, Typed
<1>2. ASSUME NEW l \in Exits, ExitFills(o, l) PROVE Typed' /\ WireOf'
  <2>1. \A r \in {Status(o, l, "Filled")} \union CancelReports(o, Exits \ {l}) : r.of[1] = o
    BY Reports DEF CancelReports
  <2>2. blind' \subseteq Orders /\ WireOf'
    BY <1>2, <2>1, ReportTyped DEF ExitFills
  <2> QED BY <1>2, <2>2, ExitFilled DEF ExitFills, portKept, Typed
<1>3. ASSUME NEW l \in Legs, BrokerCancels(o, l) PROVE Typed' /\ WireOf'
  <2>1. \A r \in CancelReports(o, WithParent(o, l)) : r.of[1] = o
    BY Reports DEF CancelReports
  <2>2. blind' \subseteq Orders /\ WireOf'
    BY <1>3, <2>1, ReportTyped DEF BrokerCancels, Typed, WireOf
  <2>3. broker' \in [Orders -> [Legs -> OrderShape]]
    <3>1. CASE Working(o, l)
      BY <1>3, <3>1, LegsLeft DEF BrokerCancels
    <3>2. CASE ~Working(o, l)
      <4>1. broker' = [broker EXCEPT ![o] = @]
        BY <1>3, <3>2 DEF BrokerCancels
      <4> QED BY <4>1 DEF Typed
    <3> QED BY <3>1, <3>2
  <2> QED BY <1>3, <2>2, <2>3 DEF BrokerCancels, portKept, Typed
<1>4. CASE ParentExpires(o)
  <2>1. \A r \in CancelReports(o, WithParent(o, "parent")) : r.of[1] = o
    BY Reports DEF CancelReports
  <2>2. blind' \subseteq Orders /\ WireOf'
    BY <1>4, <2>1, ReportTyped DEF ParentExpires
  <2> QED BY <1>4, <2>2, LegsLeft, FaultTyped DEF ParentExpires, portKept, Typed
<1>5. CASE ParentRejected(o)
  <2>1. \A r \in {Status(o, "parent", "Inactive")} \union CancelReports(o, Exits) : r.of[1] = o
    BY Reports DEF CancelReports
  <2>2. blind' \subseteq Orders /\ WireOf'
    BY <1>5, <2>1, ReportTyped DEF ParentRejected
  <2> QED BY <1>5, <2>2, LegsLeft, FaultTyped DEF ParentRejected, portKept, Typed
<1> QED BY <1>1, <1>2, <1>3, <1>4, <1>5 DEF BrokerStep

LEMMA HandleTyped ==
  ASSUME Typed, WireOf, NEW o \in Orders, HandleStep(o)
  PROVE  Typed' /\ WireOf'
<1>1. ASSUME NEW l \in Legs, NEW s \in Statuses, HandleStatus(o, l, s) PROVE Typed' /\ WireOf'
  <2>1. OnOrderStatus(o, l, s) \in BookShape
    BY StatusShape, TypedIsPortTypeOK
  <2>2. book' \in [Orders -> BookShape]
    BY <1>1, <2>1 DEF HandleStatus, Typed
  <2>3. portFaults' \in Nat /\ WireOf'
    BY <1>1, DeliveredTyped DEF HandleStatus
  <2> QED BY <1>1, <2>2, <2>3 DEF HandleStatus, Typed
<1>2. ASSUME NEW n \in 1..Shares[o], NEW k \in HalfKind, HandleHalf(o, n, k) PROVE Typed' /\ WireOf'
  <2>1. OnFill(o) \in BookShape /\ <<o, n>> \in Executions
    BY FillShape, ExecutionsOf, TypedIsPortTypeOK
  <2>2. portFaults' \in Nat /\ WireOf'
    BY <1>2, DeliveredTyped DEF HandleHalf
  <2>3. book' \in [Orders -> BookShape] /\ booked' \in [Executions -> Nat]
        /\ halves' \in [Executions -> SUBSET HalfKind]
    <3>1. CASE Joined(<<o, n>>, k) /\ book[o].status = "none"
      BY <1>2, <2>1, <3>1 DEF HandleHalf, Typed
    <3>2. CASE Joined(<<o, n>>, k) /\ book[o].status # "none"
      <4>1. /\ halves' = [halves EXCEPT ![<<o, n>>] = {}]
            /\ book' = [book EXCEPT ![o] = OnFill(o)]
            /\ booked' = [booked EXCEPT ![<<o, n>>] = @ + 1]
        BY <1>2, <3>2 DEF HandleHalf
      <4> QED BY <2>1, <4>1 DEF Typed
    <3>3. CASE ~Joined(<<o, n>>, k)
      <4>1. /\ halves' = [halves EXCEPT ![<<o, n>>] = @ \union {k}]
            /\ UNCHANGED <<book, booked>>
        BY <1>2, <3>3 DEF HandleHalf
      <4> QED BY <2>1, <4>1 DEF Typed
    <3> QED BY <3>1, <3>2, <3>3
  <2> QED BY <1>2, <2>2, <2>3 DEF HandleHalf, Typed
<1> QED BY <1>1, <1>2, StatusMap DEF HandleStep

\* Every variable of the port and of its broker keeps its type.
THEOREM PortTypes == PortSpec => []PortTypeOK
<1>1. PortInit => Typed /\ WireOf
  BY PortTypeInit, TypedIsPortTypeOK DEF PortInit, WireOf
<1>2. Typed /\ WireOf /\ [PortNext]_portVars => Typed' /\ WireOf'
  <2> SUFFICES ASSUME Typed, WireOf, [PortNext]_portVars PROVE Typed' /\ WireOf'
    OBVIOUS
  <2>1. CASE LinkStep
    BY <2>1, LinkTyped
  <2>2. ASSUME NEW o \in Orders, CallStep(o) \/ BrokerStep(o) \/ HandleStep(o) PROVE Typed' /\ WireOf'
    BY <2>2, CallTyped, BrokerTyped, HandleTyped
  <2>3. CASE UNCHANGED portVars
    BY <2>3 DEF portVars, Typed, WireOf
  <2> QED BY <2>1, <2>2, <2>3 DEF PortNext
<1> QED BY <1>1, <1>2, TypedIsPortTypeOK, PTL DEF PortSpec

-----------------------------------------------------------------------------
(* The inductive invariant, bracket by bracket                             *)

\* A bracket that was not placed is nowhere.
Fresh(o) ==
  /\ book[o].status = "none" /\ intended[o] = Shares[o] /\ o \notin cancels
  /\ \A l \in Legs : broker[o][l].at = "none" /\ broker[o][l].filled = 0
  /\ \A n \in 1..Shares[o] : halves[<<o, n>>] = {} /\ booked[<<o, n>>] = 0

FreshUntilPlaced(o) == callers[o] # "placed" => Fresh(o)

\* At the broker: an exit works for the intended size at least, and an exit that filled has
\* left no more than was shed.
ExitsOK(o) ==
  \A l \in Exits :
    /\ Working(o, l) => broker[o][l].qty >= intended[o]
    /\ broker[o][l].at # "filled" => broker[o][l].filled = 0
    /\ broker[o][l].at = "filled" => ~Working(o, "parent") /\ Held(o) <= Shed(o)

ParentOK(o) ==
  /\ broker[o]["parent"].filled <= broker[o]["parent"].qty
  /\ broker[o]["parent"].qty <= Shares[o]
  /\ Held(o) >= 0
  /\ Working(o, "parent") => Sold(o) = 0

\* Until the bracket is cancelled its stop works with its parent and outlasts it.
StopOK(o) ==
  o \notin cancels =>
    /\ Working(o, "parent") => Working(o, "stop")
    /\ ~Working(o, "stop") => Held(o) <= Shed(o)
    /\ Held(o) > 0 => Working(o, "stop") \/ \E l \in Exits : broker[o][l].at = "filled"

SizesOK(o) ==
  /\ intended[o] <= Shares[o]
  /\ book[o].status # "none" => book[o].qty = intended[o]
  /\ \A l \in Legs : <<o, l>> \in asked => o \in cancels
  /\ o \in cancels => book[o].status \in {"none", "cancelled", "closed"}

\* A report on its way is true of the broker.
WireOK(o) ==
  /\ \A l \in Exits, s \in Statuses : Status(o, l, s) \in wire =>
       \/ s = "Filled" /\ broker[o][l].at = "filled"
       \/ s = "Cancelled" /\ broker[o][l].at \in {"cancelled", "rejected"}
  /\ Status(o, "parent", "Filled") \in wire => broker[o]["parent"].filled > 0
  /\ \A n \in 1..Shares[o], k \in HalfKind :
       Half(o, n, k) \in wire => n <= broker[o]["parent"].filled

BookOK(o) ==
  /\ book[o].status = "open" => book[o].entry = "known" /\ broker[o]["parent"].filled > 0
  /\ book[o].status = "pending" => book[o].entry = "none"
  /\ book[o].status = "closed" => \E l \in Exits : broker[o][l].at = "filled"
  /\ callers[o] = "placed" /\ o \notin blind => book[o].status # "none"
  /\ \A l \in Exits :
       /\ broker[o][l].at = "filled" /\ o \notin blind =>
            Status(o, l, "Filled") \in wire \/ book[o].status \in {"closed", "cancelled"}
       /\ broker[o][l].at \in {"working", "filled"} /\ book[o].status \in {"pending", "open"} =>
            book[o].legs[l] = "pending_submit"

ShareOK(o, n) ==
  /\ halves[<<o, n>>] # HalfKind
  /\ n > broker[o]["parent"].filled => halves[<<o, n>>] = {} /\ booked[<<o, n>>] = 0
  /\ booked[<<o, n>>] > 0 => book[o].entry = "known"
  /\ n = broker[o]["parent"].filled /\ o \notin blind =>
       \/ booked[<<o, n>>] > 0
       \/ \A k \in HalfKind : k \in halves[<<o, n>>] \/ Half(o, n, k) \in wire

OnWire(o, n, k) == IF Half(o, n, k) \in wire THEN 1 ELSE 0
Seen(o, n, k)   == IF k \in halves[<<o, n>>] THEN 1 ELSE 0

\* Two halves make a fill, and only a repeat makes a third.
CountOK(o, n) ==
  2 * booked[<<o, n>>] + Seen(o, n, "details") + Seen(o, n, "commission")
    + OnWire(o, n, "details") + OnWire(o, n, "commission") <= 2 + MaxPortFaults - portFaults

SharesOK(o) == \A n \in 1..Shares[o] : ShareOK(o, n) /\ CountOK(o, n)

BrokerSide(o) == ExitsOK(o) /\ ParentOK(o) /\ StopOK(o)
BracketInv(o) ==
  FreshUntilPlaced(o) /\ BrokerSide(o) /\ SizesOK(o) /\ WireOK(o) /\ BookOK(o) /\ SharesOK(o)

PortInv == Typed /\ WireOf /\ portFaults <= MaxPortFaults /\ \A o \in Orders : BracketInv(o)

\* What a step leaves of a bracket that is not its own.
Untouched(o) ==
  /\ book'[o] = book[o] /\ broker'[o] = broker[o] /\ intended'[o] = intended[o]
  /\ callers'[o] = "placed" <=> callers[o] = "placed"
  /\ o \in cancels' <=> o \in cancels
  /\ \A l \in Legs : <<o, l>> \in asked' => <<o, l>> \in asked
  /\ \A n \in 1..Shares[o] : /\ halves'[<<o, n>>] = halves[<<o, n>>]
                             /\ booked'[<<o, n>>] = booked[<<o, n>>]
  /\ o \in blind => o \in blind'
  /\ \A r \in wire' : r.of[1] = o => r \in wire
  /\ o \notin blind' => \A r \in wire : r.of[1] = o => r \in wire'
  /\ portFaults' <= portFaults

LEMMA UntouchedKeeps ==
  ASSUME Typed, Typed', NEW o \in Orders, BracketInv(o), Untouched(o)
  PROVE  BracketInv(o)'
<1>1. FreshUntilPlaced(o)'
  BY DEF BracketInv, FreshUntilPlaced, Fresh, Untouched
<1>2. Held(o)' = Held(o) /\ Sold(o)' = Sold(o) /\ Shed(o)' = Shed(o)
      /\ \A l \in Legs : Working(o, l)' <=> Working(o, l)
  BY DEF Untouched, Held, Sold, Shed, Working
<1>3. BrokerSide(o)'
  BY <1>2 DEF BracketInv, Untouched, BrokerSide, ExitsOK, ParentOK, StopOK, Exits, Legs
<1>4. SizesOK(o)'
  BY DEF BracketInv, SizesOK, Untouched
<1>5. /\ \A l, s : Status(o, l, s) \in wire' => Status(o, l, s) \in wire
      /\ \A n, k : Half(o, n, k) \in wire' => Half(o, n, k) \in wire
  BY Reports DEF Untouched
<1>6. o \notin blind' => /\ \A l, s : Status(o, l, s) \in wire => Status(o, l, s) \in wire'
                         /\ \A n, k : Half(o, n, k) \in wire => Half(o, n, k) \in wire'
  BY Reports DEF Untouched
<1>7. WireOK(o)'
  BY <1>5 DEF BracketInv, WireOK, Untouched
<1>8. BookOK(o)'
  BY <1>6 DEF BracketInv, BookOK, Untouched
<1>9. ASSUME NEW n \in 1..Shares[o] PROVE ShareOK(o, n)' /\ CountOK(o, n)'
  <2>1. ShareOK(o, n) /\ CountOK(o, n)
    BY DEF BracketInv, SharesOK
  <2>2. ShareOK(o, n)'
    BY <1>6, <2>1 DEF ShareOK, Untouched
  <2>3. /\ OnWire(o, n, "details") \in {0, 1} /\ OnWire(o, n, "commission") \in {0, 1}
        /\ OnWire(o, n, "details")' \in {0, 1} /\ OnWire(o, n, "commission")' \in {0, 1}
        /\ OnWire(o, n, "details")' <= OnWire(o, n, "details")
        /\ OnWire(o, n, "commission")' <= OnWire(o, n, "commission")
    BY <1>5 DEF OnWire
  <2>4. /\ Seen(o, n, "details")' = Seen(o, n, "details")
        /\ Seen(o, n, "commission")' = Seen(o, n, "commission")
        /\ Seen(o, n, "details") \in {0, 1} /\ Seen(o, n, "commission") \in {0, 1}
        /\ booked'[<<o, n>>] = booked[<<o, n>>] /\ portFaults' <= portFaults
    BY DEF Seen, Untouched
  <2>5. booked[<<o, n>>] \in Nat /\ portFaults \in Nat /\ portFaults' \in Nat /\ MaxPortFaults \in Nat
    BY ExecutionsOf, PortAssumption DEF Typed
  <2>6. CountOK(o, n)'
    BY <2>1, <2>3, <2>4, <2>5 DEF CountOK
  <2> QED BY <2>2, <2>6
<1> QED BY <1>1, <1>3, <1>4, <1>7, <1>8, <1>9 DEF BracketInv, SharesOK

-----------------------------------------------------------------------------
(* The bracket that moves                                                  *)

LEMMA CountFacts ==
  ASSUME Typed, NEW o \in Orders, NEW n \in 1..Shares[o]
  PROVE  /\ OnWire(o, n, "details") \in {0, 1} /\ OnWire(o, n, "commission") \in {0, 1}
         /\ Seen(o, n, "details") \in {0, 1} /\ Seen(o, n, "commission") \in {0, 1}
         /\ booked[<<o, n>>] \in Nat /\ portFaults \in Nat /\ MaxPortFaults \in Nat
         /\ n \in Nat /\ Shares[o] \in Nat /\ <<o, n>> \in Executions
  BY ExecutionsOf, PortAssumption DEF OnWire, Seen, Typed

\* A bracket that is placed reaches the broker whole, or its reports are lost.
LEMMA StageKeeps ==
  ASSUME Typed, Typed', NEW o \in Orders, BracketInv(o), callers[o] # "placed",
         NEW taken, Stage(o, taken), taken = LegsOf(o) \/ (taken = {} /\ o \in blind'),
         UNCHANGED <<halves, booked, asked, intended, cancels>>, o \in blind => o \in blind',
         wire' \subseteq wire, portFaults' <= MaxPortFaults
  PROVE  BracketInv(o)'
<1>1. Fresh(o)
  BY DEF BracketInv, FreshUntilPlaced
<1>2. /\ book'[o].status = "pending" /\ book'[o].qty = Shares[o] /\ book'[o].entry = "none"
      /\ \A l \in LegsOf(o) : book'[o].legs[l] = "pending_submit"
      /\ \A l \in Legs : /\ broker'[o][l].at = IF l \in taken THEN "working" ELSE "none"
                         /\ broker'[o][l].filled = 0
                         /\ broker'[o][l].qty = IF l \in taken THEN Shares[o] ELSE 0
      /\ callers' = [callers EXCEPT ![o] = "placed"]
  BY Staged, TypedIsPortTypeOK
<1>3. FreshUntilPlaced(o)'
  BY <1>2 DEF FreshUntilPlaced, Typed
<1>4. Shares[o] \in Nat /\ Held(o)' = 0 /\ Sold(o)' = 0 /\ Shed(o)' = 0
  BY <1>1, <1>2, PortAssumption DEF Held, Sold, Shed, Legs, Fresh
<1>5. /\ \A l \in Legs : Working(o, l)' <=> l \in taken
      /\ "parent" \in taken => "stop" \in taken
  BY <1>2 DEF Working, LegsOf, Legs
<1>6. BrokerSide(o)'
  <2>1. ExitsOK(o)'
    BY <1>1, <1>2, <1>4, <1>5 DEF ExitsOK, Exits, Legs, Fresh
  <2>2. ParentOK(o)'
    BY <1>2, <1>4 DEF ParentOK, Legs
  <2>3. StopOK(o)'
    BY <1>4, <1>5 DEF StopOK, Legs
  <2> QED BY <2>1, <2>2, <2>3 DEF BrokerSide
<1>7. SizesOK(o)'
  BY <1>1, <1>2, <1>4 DEF SizesOK, BracketInv, Fresh
<1>8. /\ \A l \in Exits : Status(o, l, "Filled") \notin wire'
      /\ \A l \in Exits : \A s \in Statuses : Status(o, l, s) \notin wire'
      /\ Status(o, "parent", "Filled") \notin wire'
      /\ \A n \in 1..Shares[o], k \in HalfKind : Half(o, n, k) \notin wire'
  BY <1>1, <1>4 DEF BracketInv, WireOK, Fresh, Exits, Legs, Statuses
<1>9. WireOK(o)'
  BY <1>8 DEF WireOK
<1>10. BookOK(o)'
  BY <1>2 DEF BookOK, Exits, Legs
<1>11. ASSUME NEW n \in 1..Shares[o] PROVE ShareOK(o, n)' /\ CountOK(o, n)'
  <2>1. halves'[<<o, n>>] = {} /\ booked'[<<o, n>>] = 0
    BY <1>1 DEF Fresh
  <2>2. ShareOK(o, n)'
    BY <1>2, <1>4, <2>1 DEF ShareOK, Legs, HalfKind
  <2>3. /\ Seen(o, n, "details")' = 0 /\ Seen(o, n, "commission")' = 0
        /\ OnWire(o, n, "details")' = 0 /\ OnWire(o, n, "commission")' = 0
    BY <1>8, <2>1 DEF Seen, OnWire, HalfKind
  <2>4. CountOK(o, n)'
    BY <2>1, <2>3, PortAssumption DEF CountOK, Typed
  <2> QED BY <2>2, <2>4
<1> QED BY <1>3, <1>6, <1>7, <1>9, <1>10, <1>11 DEF BracketInv, SharesOK

\* The port forgets its brackets: what was placed may report unseen.
LEMMA RestartKeeps ==
  ASSUME Typed, Typed', NEW o \in Orders, BracketInv(o), PortRestarts, portFaults <= MaxPortFaults
  PROVE  BracketInv(o)'
<1>1. /\ wire' = {} /\ book'[o] = Unplaced /\ UNCHANGED <<broker, asked, intended, cancels>>
      /\ callers[o] = "placed" => o \in blind'
      /\ callers'[o] = "placed" <=> callers[o] = "placed"
      /\ portFaults' = portFaults - 1
  BY DEF PortRestarts, PortFault, Typed
<1>2. \A n \in 1..Shares[o] : halves'[<<o, n>>] = {} /\ booked'[<<o, n>>] = 0
  BY ExecutionsOf DEF PortRestarts
<1>3. FreshUntilPlaced(o)'
  BY <1>1, <1>2 DEF BracketInv, FreshUntilPlaced, Fresh, Unplaced
<1>4. BrokerSide(o)'
  BY <1>1 DEF BracketInv, BrokerSide, ExitsOK, ParentOK, StopOK, Held, Sold, Shed, Working
<1>5. SizesOK(o)'
  BY <1>1 DEF BracketInv, SizesOK, Unplaced
<1>6. WireOK(o)'
  BY <1>1 DEF WireOK
<1>7. CASE callers[o] # "placed"
  <2>1. Fresh(o)'
    BY <1>1, <1>3, <1>7 DEF FreshUntilPlaced
  <2>2. BookOK(o)'
    BY <1>1, <1>7, <2>1 DEF BookOK, Unplaced, Fresh, Exits, Legs
  <2>3. ASSUME NEW n \in 1..Shares[o] PROVE ShareOK(o, n)'
    <3>1. n # 0
      BY PortAssumption
    <3> QED BY <1>2, <2>1, <3>1 DEF ShareOK, Fresh, HalfKind, Legs
  <2> QED BY <2>2, <2>3, <1>1, <1>2, <1>3, <1>4, <1>5, <1>6, PortAssumption
          DEF BracketInv, SharesOK, CountOK, Seen, OnWire, Typed
<1>8. CASE callers[o] = "placed"
  <2>1. BookOK(o)'
    BY <1>1, <1>8 DEF BookOK, Unplaced
  <2>2. ASSUME NEW n \in 1..Shares[o] PROVE ShareOK(o, n)'
    BY <1>1, <1>2, <1>8 DEF ShareOK, HalfKind
  <2> QED BY <2>1, <2>2, <1>1, <1>2, <1>3, <1>4, <1>5, <1>6, PortAssumption
          DEF BracketInv, SharesOK, CountOK, Seen, OnWire, Typed
<1> QED BY <1>7, <1>8

\* The shares a bracket is sized to only go down, and its exits follow or stay larger.
LEMMA ModifyKeeps ==
  ASSUME Typed, Typed', NEW o \in Orders, BracketInv(o), portFaults <= MaxPortFaults,
         NEW q \in 1..Shares[o], NEW resent \in {{"stop"}, Exits}, ModifyBracket(o, q, resent)
  PROVE  BracketInv(o)'
<1>1. q \in Nat /\ Shares[o] \in Nat /\ intended[o] \in Nat /\ resent \subseteq Exits
  BY PortAssumption DEF Typed, Exits
<1>2. /\ book'[o].qty = q /\ book'[o].status = book[o].status /\ book'[o].entry = book[o].entry
      /\ book'[o].legs = book[o].legs /\ intended'[o] = q
      /\ book[o].status \in {"open", "pending"}
      /\ UNCHANGED <<callers, halves, booked, wire, asked, cancels, blind, portFaults>>
  BY <1>1, EditShape DEF ModifyBracket, Typed
<1>3. q <= intended[o] /\ o \notin cancels
  BY <1>1, <1>2 DEF ModifyBracket, BracketInv, SizesOK
<1>4. \A l \in Legs : /\ broker'[o][l].at = broker[o][l].at
                      /\ broker'[o][l].filled = broker[o][l].filled
  <2>1. broker'[o] = ResizedLegs(o, q, resent)
    BY DEF ModifyBracket, Typed
  <2> QED BY <1>1, <2>1, ResizedShape
<1>12. /\ \A l \in Legs : broker'[o][l].qty = broker[o][l].qty \/ broker'[o][l].qty = q
       /\ broker'[o]["parent"].qty = broker[o]["parent"].qty
  <2>1. broker'[o] = ResizedLegs(o, q, resent)
    BY DEF ModifyBracket, Typed
  <2>2. "parent" \in Legs /\ "parent" \notin resent
    BY <1>1 DEF Legs, Exits
  <2> QED BY <1>1, <2>1, <2>2, ResizedShape
<1>5. /\ \A l \in Legs : Working(o, l)' <=> Working(o, l)
      /\ Held(o)' = Held(o) /\ Sold(o)' = Sold(o)
  BY <1>4 DEF Working, Held, Sold, Legs
<1>6. Shed(o)' >= Shed(o) /\ Shed(o)' \in Int /\ Shed(o) \in Int /\ Held(o) \in Int
  BY <1>1, <1>2, <1>3, HeldInt DEF Shed
<1>7. FreshUntilPlaced(o)'
  BY <1>2 DEF BracketInv, FreshUntilPlaced, Fresh
<1>8. BrokerSide(o)'
  <2>1. \A l \in Legs : broker[o][l] \in OrderShape
    BY DEF Typed
  <2>2. ExitsOK(o)'
    <3> SUFFICES ASSUME NEW l \in Exits
                 PROVE  /\ Working(o, l)' => broker'[o][l].qty >= intended'[o]
                        /\ broker'[o][l].at # "filled" => broker'[o][l].filled = 0
                        /\ broker'[o][l].at = "filled" => ~Working(o, "parent")' /\ Held(o)' <= Shed(o)'
      BY DEF ExitsOK
    <3>1. l \in Legs /\ broker[o][l].qty \in Nat /\ "parent" \in Legs
      BY <2>1 DEF Exits, Legs, OrderShape
    <3>2. /\ Working(o, l) => broker[o][l].qty >= intended[o]
          /\ broker[o][l].at # "filled" => broker[o][l].filled = 0
          /\ broker[o][l].at = "filled" => ~Working(o, "parent") /\ Held(o) <= Shed(o)
      BY DEF BracketInv, BrokerSide, ExitsOK
    <3> QED BY <1>1, <1>2, <1>3, <1>4, <1>5, <1>6, <1>12, <3>1, <3>2
  <2>3. ParentOK(o)'
    BY <1>4, <1>5, <1>12 DEF BracketInv, BrokerSide, ParentOK, Exits, Legs
  <2>4. StopOK(o)'
    BY <1>2, <1>4, <1>5, <1>6 DEF BracketInv, BrokerSide, StopOK, Exits, Legs
  <2> QED BY <2>2, <2>3, <2>4 DEF BrokerSide
<1>9. SizesOK(o)'
  BY <1>1, <1>2, <1>3 DEF BracketInv, SizesOK
<1>10. WireOK(o)' /\ BookOK(o)'
  BY <1>2, <1>4 DEF BracketInv, WireOK, BookOK, Exits, Legs
<1>11. SharesOK(o)'
  BY <1>2, <1>4 DEF BracketInv, SharesOK, ShareOK, CountOK, Seen, OnWire, Legs
<1> QED BY <1>7, <1>8, <1>9, <1>10, <1>11 DEF BracketInv

LEMMA CancelKeeps ==
  ASSUME Typed, Typed', NEW o \in Orders, BracketInv(o), CancelBracket(o)
  PROVE  BracketInv(o)'
<1>1. /\ book'[o].status = "cancelled" /\ book'[o].qty = book[o].qty /\ book'[o].entry = book[o].entry
      /\ book[o].status # "none" /\ o \in cancels'
      /\ UNCHANGED <<callers, halves, booked, broker, wire, intended, blind, portFaults>>
  BY EditShape DEF CancelBracket
<1>2. FreshUntilPlaced(o)'
  BY <1>1 DEF BracketInv, FreshUntilPlaced, Fresh
<1>3. ExitsOK(o)' /\ ParentOK(o)'
  BY <1>1 DEF BracketInv, BrokerSide, ExitsOK, ParentOK, Held, Sold, Shed, Working
<1>4. StopOK(o)' /\ SizesOK(o)'
  BY <1>1 DEF BracketInv, StopOK, SizesOK
<1>5. WireOK(o)' /\ BookOK(o)'
  BY <1>1 DEF BracketInv, WireOK, BookOK
<1>6. SharesOK(o)'
  BY <1>1 DEF BracketInv, SharesOK, ShareOK, CountOK, Seen, OnWire
<1> QED BY <1>2, <1>3, <1>4, <1>5, <1>6 DEF BracketInv, BrokerSide

\* Where the reports of a step at the broker go.
LEMMA ReportFacts ==
  ASSUME NEW o \in Orders, NEW reports, Report(o, reports), \A r \in reports : r.of[1] = o
  PROVE  /\ o \in blind => o \in blind'
         /\ wire \subseteq wire' /\ wire' \subseteq wire \union reports
         /\ o \notin blind' => reports \subseteq wire'
         /\ \A p \in Orders \ {o} : /\ p \in blind => p \in blind'
                                    /\ \A r \in wire' : r.of[1] = p => r \in wire
  BY DEF Report

LEMMA BrokerLeavesOthers ==
  ASSUME Typed, NEW o \in Orders, NEW reports, Report(o, reports), \A r \in reports : r.of[1] = o,
         UNCHANGED portKept, portFaults' <= portFaults, asked' \subseteq asked, NEW p \in Orders \ {o}, broker'[p] = broker[p]
  PROVE  Untouched(p)
  BY ReportFacts DEF Untouched, portKept

\* What a step at the broker keeps of the port's side of its bracket.
LEMMA BrokerKeepsBook ==
  ASSUME Typed, Typed', NEW o \in Orders, BracketInv(o), UNCHANGED portKept, callers[o] = "placed",
         asked' \subseteq asked
  PROVE  FreshUntilPlaced(o)' /\ SizesOK(o)'
  BY DEF portKept, BracketInv, FreshUntilPlaced, SizesOK

LEMMA WorkingIsPlaced ==
  ASSUME NEW o \in Orders, BracketInv(o), NEW l \in Legs, Working(o, l)
  PROVE  callers[o] = "placed"
  BY DEF BracketInv, FreshUntilPlaced, Fresh, Working

LEMMA ParentFillKeeps ==
  ASSUME Typed, Typed', NEW o \in Orders, BracketInv(o), portFaults <= MaxPortFaults,
         NEW k \in 1..Shares[o], ParentFills(o, k)
  PROVE  BracketInv(o)'
<1> DEFINE s == IF broker[o]["parent"].filled + k = broker[o]["parent"].qty THEN "Filled" ELSE "Submitted"
           n == broker[o]["parent"].filled + k
           reports == Exec(o, n) \union {Status(o, "parent", s)}
<1>1. /\ Working(o, "parent") /\ callers[o] = "placed" /\ Report(o, reports)
      /\ UNCHANGED <<portKept, asked, portFaults>>
  BY WorkingIsPlaced DEF ParentFills, Legs
<1>2. \A r \in reports : r.of[1] = o
  BY Reports, ExecOf
<1>3. k \in Nat /\ k > 0 /\ Shares[o] \in Nat /\ broker[o]["parent"].filled \in Nat
      /\ broker'[o]["parent"].filled = n /\ n \in Nat
  BY ParentFilled, HeldInt, PortAssumption
<1>4. FreshUntilPlaced(o)' /\ SizesOK(o)'
  BY <1>1, BrokerKeepsBook
<1>5. \A l \in Exits : broker'[o][l] = broker[o][l] /\ broker[o][l].at # "filled"
  BY <1>1, ParentFilled DEF BracketInv, BrokerSide, ExitsOK
<1>6. Sold(o)' = 0 /\ Sold(o) = 0 /\ Held(o)' = n
  BY <1>1, <1>3, <1>5 DEF Sold, Held, Exits, BracketInv, BrokerSide, ParentOK
<1>7. UNCHANGED <<intended, cancels>>
  BY <1>1 DEF portKept
<1>8. BrokerSide(o)'
  <2>1. ExitsOK(o)'
    BY <1>5, <1>7 DEF BracketInv, BrokerSide, ExitsOK, Working
  <2>2. ParentOK(o)'
    BY <1>3, <1>6, ParentFilled DEF BracketInv, BrokerSide, ParentOK
  <2>3. StopOK(o)'
    BY <1>1, <1>5, <1>7 DEF BracketInv, BrokerSide, StopOK, Working, Exits
  <2> QED BY <2>1, <2>2, <2>3 DEF BrokerSide
<1>9. /\ \A l \in Exits, t \in Statuses : Status(o, l, t) \in wire' => Status(o, l, t) \in wire
      /\ \A m, j : Half(o, m, j) \in wire' /\ j \in HalfKind => Half(o, m, j) \in wire \/ m = n
  <2>1. \A l \in Exits, t \in Statuses : Status(o, l, t) \notin reports
    BY Reports, ExecOf DEF Exits
  <2>2. \A m : \A j \in HalfKind : Half(o, m, j) \in reports => m = n
    BY Reports, ExecOf
  <2> HIDE DEF reports
  <2> QED BY <1>1, <1>2, <2>1, <2>2, ReportFacts
<1>10. WireOK(o)'
  BY <1>3, <1>5, <1>9 DEF BracketInv, WireOK
<1>11. o \notin blind' => /\ o \notin blind /\ wire \subseteq wire'
                          /\ \A j \in HalfKind : Half(o, n, j) \in wire'
  <2>1. \A j \in HalfKind : Half(o, n, j) \in reports
    BY ExecOf
  <2> HIDE DEF reports
  <2> QED BY <1>1, <1>2, <2>1, ReportFacts
<1>12. BookOK(o)'
  <2>1. UNCHANGED <<book, callers>>
    BY <1>1 DEF portKept
  <2> QED BY <1>3, <1>5, <1>11, <2>1 DEF BracketInv, BookOK
<1>13. ASSUME NEW m \in 1..Shares[o] PROVE ShareOK(o, m)' /\ CountOK(o, m)'
  <2>1. UNCHANGED <<book, halves, booked>> /\ m \in Nat
    BY <1>1 DEF portKept
  <2>2. ShareOK(o, m) /\ CountOK(o, m)
    BY DEF BracketInv, SharesOK
  <2>3. ShareOK(o, m)'
    BY <1>3, <1>11, <2>1, <2>2 DEF ShareOK
  <2>4. CASE m = n
    <3>1. Seen(o, m, "details")' = 0 /\ Seen(o, m, "commission")' = 0 /\ booked'[<<o, m>>] = 0
      BY <1>3, <2>1, <2>2, <2>4 DEF ShareOK, Seen
    <3>2. OnWire(o, m, "details")' \in {0, 1} /\ OnWire(o, m, "commission")' \in {0, 1}
      BY DEF OnWire
    <3> QED BY <1>1, <2>3, <3>1, <3>2, CountFacts DEF CountOK
  <2>5. CASE m # n
    <3>1. /\ Half(o, m, "details") \in wire' => Half(o, m, "details") \in wire
          /\ Half(o, m, "commission") \in wire' => Half(o, m, "commission") \in wire
      BY <1>9, <2>5 DEF HalfKind
    <3>2. /\ OnWire(o, m, "details")' <= OnWire(o, m, "details")
          /\ OnWire(o, m, "commission")' <= OnWire(o, m, "commission")
      BY <3>1 DEF OnWire
    <3>3. /\ OnWire(o, m, "details")' \in {0, 1} /\ OnWire(o, m, "commission")' \in {0, 1}
      BY DEF OnWire
    <3>4. /\ Seen(o, m, "details")' = Seen(o, m, "details")
          /\ Seen(o, m, "commission")' = Seen(o, m, "commission")
          /\ booked'[<<o, m>>] = booked[<<o, m>>] /\ portFaults' = portFaults
      BY <1>1, <2>1 DEF Seen
    <3> QED BY <2>2, <2>3, <3>2, <3>3, <3>4, CountFacts DEF CountOK
  <2> QED BY <2>4, <2>5
<1> QED BY <1>4, <1>8, <1>10, <1>12, <1>13 DEF BracketInv, SharesOK

\* A step at the broker that sends no half keeps what is known of the fills.
LEMMA SharesKept ==
  ASSUME Typed, Typed', NEW o \in Orders, SharesOK(o), UNCHANGED portKept, portFaults' <= portFaults,
         NEW reports, Report(o, reports), \A r \in reports : r.of[1] = o,
         \A m : \A j \in HalfKind : Half(o, m, j) \notin reports,
         broker'[o]["parent"].filled = broker[o]["parent"].filled
  PROVE  SharesOK(o)'
<1> SUFFICES ASSUME NEW m \in 1..Shares[o] PROVE ShareOK(o, m)' /\ CountOK(o, m)'
  BY DEF SharesOK
<1>1. ShareOK(o, m) /\ CountOK(o, m) /\ UNCHANGED <<book, halves, booked>>
  BY DEF SharesOK, portKept
<1>2. \A j \in HalfKind : Half(o, m, j) \in wire' <=> Half(o, m, j) \in wire
  BY ReportFacts
<1>3. ShareOK(o, m)'
  BY <1>1, <1>2, ReportFacts DEF ShareOK
<1>4. /\ OnWire(o, m, "details")' = OnWire(o, m, "details")
      /\ OnWire(o, m, "commission")' = OnWire(o, m, "commission")
      /\ Seen(o, m, "details")' = Seen(o, m, "details")
      /\ Seen(o, m, "commission")' = Seen(o, m, "commission")
      /\ booked'[<<o, m>>] = booked[<<o, m>>]
  BY <1>1, <1>2 DEF OnWire, Seen, HalfKind
<1>5. portFaults' \in Nat
  BY DEF Typed
<1> QED BY <1>1, <1>3, <1>4, <1>5, CountFacts DEF CountOK

LEMMA ExitFillKeeps ==
  ASSUME Typed, Typed', NEW o \in Orders, BracketInv(o), NEW l \in Exits, ExitFills(o, l)
  PROVE  BracketInv(o)'
<1> DEFINE reports == {Status(o, l, "Filled")} \union CancelReports(o, Exits \ {l})
<1>1. /\ Working(o, l) /\ ~Working(o, "parent") /\ Held(o) > 0 /\ l \in Legs
      /\ callers[o] = "placed" /\ Report(o, reports)
      /\ UNCHANGED <<portKept, asked, portFaults>>
  BY WorkingIsPlaced DEF ExitFills, Legs, Exits
<1>2. \A r \in reports : r.of[1] = o
  BY Reports DEF CancelReports
<1>3. FreshUntilPlaced(o)' /\ SizesOK(o)'
  BY <1>1, BrokerKeepsBook
<1>4. /\ broker'[o]["parent"] = broker[o]["parent"]
      /\ broker'[o][l].at = "filled"
      /\ broker'[o][l].filled = IF broker[o][l].qty < Held(o) THEN broker[o][l].qty ELSE Held(o)
      /\ broker[o][l].filled = 0
      /\ \A m \in Exits \ {l} : /\ broker'[o][m].filled = broker[o][m].filled
                                /\ broker'[o][m].qty = broker[o][m].qty
                                /\ broker'[o][m].at = IF Working(o, m) THEN "cancelled" ELSE broker[o][m].at
  BY <1>1, ExitFilled DEF BracketInv, BrokerSide, ExitsOK, Working
<1>5. /\ broker[o][l].qty \in Nat /\ intended[o] \in Nat /\ Shares[o] \in Nat
      /\ broker[o]["stop"].filled \in Nat /\ broker[o]["target"].filled \in Nat
      /\ broker[o]["parent"].filled \in Nat /\ Held(o) \in Int
  BY <1>1, HeldInt, PortAssumption DEF Typed, OrderShape, Legs
<1>6. Held(o)' = Held(o) - broker'[o][l].filled
  <2>1. broker'[o][l].filled \in Nat
    BY <1>1, <1>4, <1>5
  <2>2. CASE l = "stop"
    BY <1>4, <1>5, <2>1, <2>2 DEF Held, Sold, Exits
  <2>3. CASE l = "target"
    BY <1>4, <1>5, <2>1, <2>3 DEF Held, Sold, Exits
  <2> QED BY <2>2, <2>3 DEF Exits
<1>7. broker[o][l].qty >= intended[o] /\ Held(o) <= Shares[o]
  <2>1. Sold(o) \in Nat /\ broker[o]["parent"].filled <= Shares[o]
    BY HeldInt, <1>5 DEF BracketInv, BrokerSide, ParentOK, Typed, OrderShape, Legs
  <2> QED BY <1>1, <1>5, <2>1, HeldInt DEF BracketInv, BrokerSide, ExitsOK
<1>8. UNCHANGED <<intended, cancels>>
  BY <1>1 DEF portKept
<1>9. intended[o] <= Shares[o]
  BY DEF BracketInv, SizesOK
<1>10. Held(o)' >= 0 /\ Held(o)' <= Held(o) /\ Held(o)' <= Shed(o)' /\ Held(o)' \in Int
       /\ Shed(o)' = Shed(o) /\ Shed(o) \in Int
  BY <1>1, <1>4, <1>5, <1>6, <1>7, <1>8, <1>9 DEF Shed
<1>11. ~Working(o, "parent")'
  BY <1>1, <1>4 DEF Working
<1>12. BrokerSide(o)'
  <2>1. ExitsOK(o)'
    BY <1>4, <1>8, <1>10, <1>11 DEF BracketInv, BrokerSide, ExitsOK, Working
  <2>2. ParentOK(o)'
    BY <1>4, <1>10, <1>11 DEF BracketInv, BrokerSide, ParentOK
  <2>3. StopOK(o)'
    BY <1>4, <1>8, <1>10, <1>11 DEF StopOK
  <2> QED BY <2>1, <2>2, <2>3 DEF BrokerSide
<1>13. \A m \in Exits, t \in Statuses : Status(o, m, t) \in reports =>
          (m = l /\ t = "Filled") \/ (m # l /\ t = "Cancelled" /\ Working(o, m))
  BY Reports, CancelReportsOf DEF Exits, Legs
<1>14. /\ Status(o, "parent", "Filled") \notin reports
       /\ \A m : \A j \in HalfKind : Half(o, m, j) \notin reports
  BY Reports DEF CancelReports, Exits
<1>15. Status(o, l, "Filled") \in reports
  OBVIOUS
<1> HIDE DEF reports
<1>16. WireOK(o)'
  <2>1. \A m \in Exits, t \in Statuses : Status(o, m, t) \in wire' =>
           \/ t = "Filled" /\ broker'[o][m].at = "filled"
           \/ t = "Cancelled" /\ broker'[o][m].at \in {"cancelled", "rejected"}
    <3> SUFFICES ASSUME NEW m \in Exits, NEW t \in Statuses, Status(o, m, t) \in wire'
                 PROVE  \/ t = "Filled" /\ broker'[o][m].at = "filled"
                        \/ t = "Cancelled" /\ broker'[o][m].at \in {"cancelled", "rejected"}
      OBVIOUS
    <3>1. CASE Status(o, m, t) \in reports
      BY <1>4, <1>13, <3>1
    <3>2. CASE Status(o, m, t) \in wire
      <4>1. \/ t = "Filled" /\ broker[o][m].at = "filled"
            \/ t = "Cancelled" /\ broker[o][m].at \in {"cancelled", "rejected"}
        BY <3>2 DEF BracketInv, WireOK
      <4> QED BY <1>1, <1>4, <4>1 DEF Working
    <3> QED BY <1>1, <1>2, <3>1, <3>2, ReportFacts
  <2> QED BY <1>1, <1>2, <1>4, <1>14, <2>1, ReportFacts DEF BracketInv, WireOK
<1>17. BookOK(o)'
  <2>1. UNCHANGED <<book, callers>>
    BY <1>1 DEF portKept
  <2>2. o \notin blind' => o \notin blind /\ wire \subseteq wire' /\ Status(o, l, "Filled") \in wire'
    BY <1>1, <1>2, <1>15, ReportFacts
  <2> QED BY <1>1, <1>4, <2>1, <2>2 DEF BracketInv, BookOK, Working
<1>18. SharesOK(o)'
  <2>1. portFaults' <= portFaults /\ UNCHANGED portKept /\ SharesOK(o)
    BY <1>1 DEF Typed, BracketInv
  <2> QED BY <1>1, <1>2, <1>4, <1>14, <2>1, SharesKept
<1> QED BY <1>3, <1>12, <1>16, <1>17, <1>18 DEF BracketInv

\* Orders that leave the market unfilled take no stop off shares still held, unless the
\* bracket was told to cancel.
LEMMA LeaveKeeps ==
  ASSUME Typed, Typed', NEW o \in Orders, BracketInv(o), callers[o] = "placed",
         NEW legs \in SUBSET Legs, NEW at \in {"cancelled", "rejected"},
         Leave(o, legs, at), o \in cancels \/ legs = {"parent"} \/ (legs = Legs /\ Held(o) = 0),
         UNCHANGED portKept, portFaults' <= portFaults, asked' \subseteq asked,
         NEW reports, Report(o, reports), \A r \in reports : r.of[1] = o,
         \A m : \A j \in HalfKind : Half(o, m, j) \notin reports,
         Status(o, "parent", "Filled") \notin reports,
         \A m \in Exits, t \in Statuses :
           Status(o, m, t) \in reports => t = "Cancelled" /\ m \in legs /\ Working(o, m)
  PROVE  BracketInv(o)'
<1>1. \A l \in Legs : /\ broker'[o][l].qty = broker[o][l].qty
                      /\ broker'[o][l].filled = broker[o][l].filled
  BY DEF Leave
<1>2. FreshUntilPlaced(o)' /\ SizesOK(o)'
  BY BrokerKeepsBook
<1>3. UNCHANGED <<intended, cancels, book, callers>>
  BY DEF portKept
<1>4. Held(o)' = Held(o) /\ Sold(o)' = Sold(o) /\ Shed(o)' = Shed(o)
  BY <1>1, <1>3 DEF Held, Sold, Shed, Legs
<1>5. /\ \A l \in Legs : Working(o, l)' <=> (Working(o, l) /\ l \notin legs)
      /\ \A l \in Legs : broker'[o][l].at = "filled" <=> broker[o][l].at = "filled"
      /\ \A l \in Legs \ legs : broker'[o][l].at = broker[o][l].at
      /\ \A l \in Legs : ~Working(o, l) => broker'[o][l].at = broker[o][l].at
      /\ \A l \in legs : Working(o, l) => broker'[o][l].at = at
  BY DEF Leave, Working
<1>6. Held(o) \in Int /\ Shed(o) \in Int /\ Shed(o) >= 0
  <2>1. Held(o) \in Int /\ Shares[o] \in Nat /\ intended[o] \in Nat /\ intended[o] <= Shares[o]
    BY HeldInt, PortAssumption DEF Typed, BracketInv, SizesOK
  <2> QED BY <2>1 DEF Shed
<1>7. BrokerSide(o)'
  <2>1. ExitsOK(o)'
    BY <1>1, <1>3, <1>4, <1>5 DEF BracketInv, BrokerSide, ExitsOK, Exits, Legs
  <2>2. ParentOK(o)'
    BY <1>1, <1>4, <1>5 DEF BracketInv, BrokerSide, ParentOK, Legs
  <2>3. StopOK(o)'
    <3>1. CASE o \in cancels
      BY <1>3, <3>1 DEF StopOK
    <3>2. CASE legs = {"parent"}
      BY <1>3, <1>4, <1>5, <3>2 DEF BracketInv, BrokerSide, StopOK, Exits, Legs
    <3>3. CASE legs = Legs /\ Held(o) = 0
      BY <1>4, <1>5, <1>6, <3>3 DEF StopOK, Legs
    <3> QED BY <3>1, <3>2, <3>3
  <2> QED BY <2>1, <2>2, <2>3 DEF BrokerSide
<1>8. WireOK(o)'
  <2>1. \A m \in Exits, t \in Statuses : Status(o, m, t) \in wire' =>
           \/ t = "Filled" /\ broker'[o][m].at = "filled"
           \/ t = "Cancelled" /\ broker'[o][m].at \in {"cancelled", "rejected"}
    <3> SUFFICES ASSUME NEW m \in Exits, NEW t \in Statuses, Status(o, m, t) \in wire'
                 PROVE  \/ t = "Filled" /\ broker'[o][m].at = "filled"
                        \/ t = "Cancelled" /\ broker'[o][m].at \in {"cancelled", "rejected"}
      OBVIOUS
    <3>0. m \in Legs
      BY DEF Exits, Legs
    <3>1. CASE Status(o, m, t) \in reports
      BY <1>5, <3>0, <3>1
    <3>2. CASE Status(o, m, t) \in wire
      <4>1. \/ t = "Filled" /\ broker[o][m].at = "filled"
            \/ t = "Cancelled" /\ broker[o][m].at \in {"cancelled", "rejected"}
        BY <3>2 DEF BracketInv, WireOK
      <4> QED BY <1>5, <3>0, <4>1 DEF Working
    <3> QED BY <3>1, <3>2, ReportFacts
  <2> QED BY <1>1, <2>1, ReportFacts DEF BracketInv, WireOK, Legs
<1>9. BookOK(o)'
  <2>1. o \notin blind' => o \notin blind /\ wire \subseteq wire'
    BY ReportFacts
  <2>2. \A l \in Exits : l \in Legs /\ (broker'[o][l].at = "working" => broker[o][l].at = "working")
    BY <1>5 DEF Exits, Legs, Working
  <2> QED BY <1>1, <1>3, <1>5, <2>1, <2>2 DEF BracketInv, BookOK, Legs
<1>10. SharesOK(o)'
  <2>1. SharesOK(o) /\ broker'[o]["parent"].filled = broker[o]["parent"].filled
    BY <1>1 DEF BracketInv, Legs
  <2> QED BY <2>1, SharesKept
<1> QED BY <1>2, <1>7, <1>8, <1>9, <1>10 DEF BracketInv

LEMMA CancelReportsKinds ==
  ASSUME NEW o, NEW legs \in SUBSET Legs
  PROVE  /\ \A r \in CancelReports(o, legs) : r.of[1] = o
         /\ \A m : \A j \in HalfKind : Half(o, m, j) \notin CancelReports(o, legs)
         /\ Status(o, "parent", "Filled") \notin CancelReports(o, legs)
         /\ \A m \in Exits, t \in Statuses :
              Status(o, m, t) \in CancelReports(o, legs) => t = "Cancelled" /\ m \in legs /\ Working(o, m)
<1>1. /\ \A r \in CancelReports(o, legs) : r.of[1] = o
      /\ \A m : \A j \in HalfKind : Half(o, m, j) \notin CancelReports(o, legs)
  BY Reports DEF CancelReports
<1>2. Status(o, "parent", "Filled") \notin CancelReports(o, legs)
  BY CancelReportsOf DEF Legs
<1>3. \A m \in Exits, t \in Statuses :
        Status(o, m, t) \in CancelReports(o, legs) => t = "Cancelled" /\ m \in legs /\ Working(o, m)
  BY CancelReportsOf DEF Exits, Legs
<1> QED BY <1>1, <1>2, <1>3

LEMMA BrokerKeeps ==
  ASSUME PortInv, Typed', NEW o \in Orders, BrokerStep(o)
  PROVE  BracketInv(o)'
<1> USE DEF PortInv
<1>1. ASSUME NEW k \in 1..Shares[o], ParentFills(o, k) PROVE BracketInv(o)'
  BY <1>1, ParentFillKeeps
<1>2. ASSUME NEW l \in Exits, ExitFills(o, l) PROVE BracketInv(o)'
  BY <1>2, ExitFillKeeps
<1>3. ASSUME NEW l \in Legs, BrokerCancels(o, l) PROVE BracketInv(o)'
  <2>1. o \in cancels
    BY <1>3 DEF BrokerCancels, BracketInv, SizesOK
  <2>2. /\ UNCHANGED portKept /\ portFaults' <= portFaults /\ asked' \subseteq asked
        /\ WithParent(o, l) \in SUBSET Legs
    BY <1>3 DEF BrokerCancels, Typed, WithParent
  <2>3. CASE Working(o, l)
    <3>1. /\ Leave(o, WithParent(o, l), "cancelled")
          /\ Report(o, CancelReports(o, WithParent(o, l)))
      BY <1>3, <2>3, LegsLeft DEF BrokerCancels
    <3> QED BY <2>1, <2>2, <2>3, <3>1, WorkingIsPlaced, CancelReportsKinds, LeaveKeeps
  <2>4. CASE ~Working(o, l)
    <3>1. broker'[o] = broker[o] /\ UNCHANGED <<wire, blind>>
      BY <1>3, <2>4 DEF BrokerCancels, Typed
    <3>2. Untouched(o)
      BY <2>2, <3>1 DEF Untouched, portKept
    <3> QED BY <3>2, UntouchedKeeps
  <2> QED BY <2>3, <2>4
<1>4. CASE ParentExpires(o)
  <2>1. /\ UNCHANGED portKept /\ portFaults' <= portFaults /\ asked' \subseteq asked
        /\ WithParent(o, "parent") \in SUBSET Legs /\ Working(o, "parent") /\ "parent" \in Legs
        /\ WithParent(o, "parent") = {"parent"} \/ (WithParent(o, "parent") = Legs /\ Held(o) = 0)
        /\ Report(o, CancelReports(o, WithParent(o, "parent")))
    BY <1>4, FaultTyped DEF ParentExpires, Typed, WithParent, Legs
  <2>2. Leave(o, WithParent(o, "parent"), "cancelled")
    BY <1>4, LegsLeft DEF ParentExpires
  <2> QED BY <2>1, <2>2, WorkingIsPlaced, CancelReportsKinds, LeaveKeeps
<1>5. CASE ParentRejected(o)
  <2> DEFINE reports == {Status(o, "parent", "Inactive")} \union CancelReports(o, Exits)
  <2>1. /\ UNCHANGED portKept /\ portFaults' <= portFaults /\ asked' \subseteq asked
        /\ Working(o, "parent") /\ "parent" \in Legs /\ Held(o) = 0 /\ Exits \in SUBSET Legs
        /\ Report(o, reports)
    BY <1>5, FaultTyped DEF ParentRejected, Typed, Legs, Exits
  <2>3. Leave(o, Legs, "rejected")
    BY <1>5, LegsLeft DEF ParentRejected
  <2>2. /\ \A r \in reports : r.of[1] = o
        /\ \A m : \A j \in HalfKind : Half(o, m, j) \notin reports
        /\ Status(o, "parent", "Filled") \notin reports
        /\ \A m \in Exits, t \in Statuses :
             Status(o, m, t) \in reports => t = "Cancelled" /\ m \in Legs /\ Working(o, m)
    BY <2>1, Reports, CancelReportsKinds DEF Exits
  <2> HIDE DEF reports
  <2> QED BY <2>1, <2>2, <2>3, WorkingIsPlaced, LeaveKeeps
<1> QED BY <1>1, <1>2, <1>3, <1>4, <1>5 DEF BrokerStep

\* A status handled: the report was true of the broker, and leaves its mark in the book.
LEMMA StatusKeeps ==
  ASSUME Typed, Typed', WireOf, NEW o \in Orders, BracketInv(o),
         NEW l \in Legs, NEW s \in Statuses, HandleStatus(o, l, s)
  PROVE  BracketInv(o)'
<1>1. /\ UNCHANGED <<callers, halves, booked, broker, asked, intended, cancels, blind>>
      /\ Status(o, l, s) \in wire /\ wire' \subseteq wire /\ wire \ {Status(o, l, s)} \subseteq wire'
      /\ portFaults' <= portFaults
  BY DeliveredTyped DEF HandleStatus
<1>2. CASE book[o].status = "none"
  <2>1. book' = book
    BY <1>2 DEF HandleStatus
  <2>2. l \in Exits \/ l = "parent"
    BY DEF Exits, Legs
  <2>3. FreshUntilPlaced(o)' /\ BrokerSide(o)' /\ SizesOK(o)' /\ WireOK(o)'
    BY <1>1, <2>1 DEF BracketInv, FreshUntilPlaced, Fresh, BrokerSide, ExitsOK, ParentOK, StopOK, SizesOK,
                      WireOK, Held, Sold, Shed, Working
  <2>4. o \in blind \/ callers[o] # "placed"
    BY <1>2 DEF BracketInv, BookOK
  <2>5. BookOK(o)'
    BY <1>1, <1>2, <2>1, <2>4 DEF BracketInv, BookOK, FreshUntilPlaced, Fresh, Exits, Legs
  <2>6. ASSUME NEW n \in 1..Shares[o] PROVE ShareOK(o, n)'
    <3>1. ShareOK(o, n) /\ (o \notin blind => broker[o]["parent"].filled = 0) /\ n # 0
      BY <2>4, PortAssumption DEF BracketInv, SharesOK, FreshUntilPlaced, Fresh, Legs
    <3> QED BY <1>1, <2>1, <3>1 DEF ShareOK
  <2>7. ASSUME NEW n \in 1..Shares[o] PROVE CountOK(o, n)'
    <3>1. CountOK(o, n)
      BY DEF BracketInv, SharesOK
    <3>2. /\ OnWire(o, n, "details")' \in {0, 1} /\ OnWire(o, n, "commission")' \in {0, 1}
          /\ OnWire(o, n, "details")' <= OnWire(o, n, "details")
          /\ OnWire(o, n, "commission")' <= OnWire(o, n, "commission")
      BY <1>1 DEF OnWire
    <3>3. /\ Seen(o, n, "details")' = Seen(o, n, "details")
          /\ Seen(o, n, "commission")' = Seen(o, n, "commission")
          /\ booked'[<<o, n>>] = booked[<<o, n>>] /\ portFaults' \in Nat
      BY <1>1 DEF Seen, Typed
    <3> QED BY <1>1, <3>1, <3>2, <3>3, CountFacts DEF CountOK
  <2> QED BY <2>3, <2>5, <2>6, <2>7 DEF BracketInv, SharesOK
<1>3. CASE book[o].status # "none"
  <2>1. book'[o] = OnOrderStatus(o, l, s) /\ callers[o] = "placed"
    BY <1>3 DEF HandleStatus, Typed, BracketInv, FreshUntilPlaced, Fresh
  <2>2. /\ book'[o].qty = book[o].qty
        /\ book'[o].legs = [book[o].legs EXCEPT ![l] = MapIbStatus[s]]
    BY <2>1, StatusShape, TypedIsPortTypeOK
  <2>3. Effect(o, l, s, book'[o])
    BY <2>1, StatusShape, TypedIsPortTypeOK
  <2>4. \A m \in Legs \ {l} : book'[o].legs[m] = book[o].legs[m]
    BY <2>2 DEF Typed, BookShape
  <2>5. FreshUntilPlaced(o)' /\ BrokerSide(o)' /\ WireOK(o)'
    BY <1>1, <2>1 DEF BracketInv, FreshUntilPlaced, BrokerSide, ExitsOK, ParentOK, StopOK,
                      WireOK, Held, Sold, Shed, Working
  <2>6. SizesOK(o)'
    BY <1>1, <1>3, <2>2, <2>3 DEF BracketInv, SizesOK, Effect
  <2>7. /\ l = "parent" /\ s = "Filled" => broker[o]["parent"].filled > 0
        /\ l \in Exits /\ s = "Filled" => broker[o][l].at = "filled"
        /\ l \in Exits /\ s # "Filled" => broker[o][l].at \in {"cancelled", "rejected"}
    BY <1>1 DEF BracketInv, WireOK
  <2>8. \A m \in Exits, t \in Statuses : Status(o, m, t) \in wire =>
           Status(o, m, t) \in wire' \/ (m = l /\ t = s)
    BY <1>1, Reports
  <2>9. BookOK(o)'
    <3>1. /\ book'[o].status = "open" => book'[o].entry = "known" /\ broker'[o]["parent"].filled > 0
          /\ book'[o].status = "pending" => book'[o].entry = "none"
      BY <1>1, <2>3, <2>7 DEF BracketInv, BookOK, Effect
    <3>2. /\ book'[o].status = "closed" => \E m \in Exits : broker'[o][m].at = "filled"
          /\ callers'[o] = "placed" /\ o \notin blind' => book'[o].status # "none"
      BY <1>1, <1>3, <2>3, <2>7 DEF BracketInv, BookOK, Effect
    <3>3. ASSUME NEW m \in Exits
          PROVE  /\ broker'[o][m].at = "filled" /\ o \notin blind' =>
                      Status(o, m, "Filled") \in wire' \/ book'[o].status \in {"closed", "cancelled"}
                 /\ broker'[o][m].at \in {"working", "filled"} /\ book'[o].status \in {"pending", "open"} =>
                      book'[o].legs[m] = "pending_submit"
      <4>1. /\ broker[o][m].at = "filled" /\ o \notin blind =>
                 Status(o, m, "Filled") \in wire \/ book[o].status \in {"closed", "cancelled"}
            /\ broker[o][m].at \in {"working", "filled"} /\ book[o].status \in {"pending", "open"} =>
                 book[o].legs[m] = "pending_submit"
            /\ m \in Legs
        BY DEF BracketInv, BookOK, Exits, Legs
      <4>2. Status(o, m, "Filled") \in wire =>
              Status(o, m, "Filled") \in wire' \/ (m = l /\ s = "Filled")
        BY <2>8 DEF Statuses
      <4>3. /\ broker'[o][m].at = "filled" /\ o \notin blind' =>
                 Status(o, m, "Filled") \in wire' \/ book'[o].status \in {"closed", "cancelled"}
        BY <1>1, <2>3, <4>1, <4>2 DEF Exits, Effect
      <4>4. /\ broker'[o][m].at \in {"working", "filled"} /\ book'[o].status \in {"pending", "open"} =>
                 book'[o].legs[m] = "pending_submit"
        BY <1>1, <2>3, <2>4, <2>7, <4>1 DEF Exits, Effect
      <4> QED BY <4>3, <4>4
    <3> QED BY <3>1, <3>2, <3>3 DEF BookOK
  <2>10. ASSUME NEW n \in 1..Shares[o] PROVE ShareOK(o, n)' /\ CountOK(o, n)'
    <3>1. ShareOK(o, n) /\ CountOK(o, n)
      BY DEF BracketInv, SharesOK
    <3>2. \A j \in HalfKind : Half(o, n, j) \in wire' <=> Half(o, n, j) \in wire
      BY <1>1, Reports
    <3>3. ShareOK(o, n)'
      BY <1>1, <2>3, <3>1, <3>2 DEF ShareOK, Effect
    <3>4. /\ OnWire(o, n, "details")' = OnWire(o, n, "details")
          /\ OnWire(o, n, "commission")' = OnWire(o, n, "commission")
          /\ Seen(o, n, "details")' = Seen(o, n, "details")
          /\ Seen(o, n, "commission")' = Seen(o, n, "commission")
          /\ booked'[<<o, n>>] = booked[<<o, n>>] /\ portFaults' \in Nat
      BY <1>1, <3>2 DEF OnWire, Seen, HalfKind, Typed
    <3> QED BY <1>1, <3>1, <3>3, <3>4, CountFacts DEF CountOK
  <2> QED BY <2>5, <2>6, <2>9, <2>10 DEF BracketInv, SharesOK
<1> QED BY <1>2, <1>3

\* What a half handled leaves of the wire and of the other executions.
LEMMA HalfFacts ==
  ASSUME Typed, WireOf, NEW o \in Orders, BracketInv(o),
         NEW n \in 1..Shares[o], NEW k \in HalfKind, HandleHalf(o, n, k)
  PROVE  /\ UNCHANGED <<callers, broker, asked, intended, cancels, blind>>
         /\ Half(o, n, k) \in wire /\ wire' \subseteq wire
         /\ \A m \in Exits : \A t : Status(o, m, t) \in wire => Status(o, m, t) \in wire'
         /\ \A m : \A j \in HalfKind :
              Half(o, m, j) \in wire => Half(o, m, j) \in wire' \/ (m = n /\ j = k)
         /\ portFaults' <= portFaults
         /\ Half(o, n, k) \in wire' => portFaults' = portFaults - 1
         /\ n \in Nat /\ n > 0 /\ n <= broker[o]["parent"].filled /\ callers[o] = "placed"
         /\ broker[o]["parent"].filled \in Nat
<1>1. /\ Delivered(Half(o, n, k)) /\ UNCHANGED <<callers, broker, asked, intended, cancels, blind>>
  BY DEF HandleHalf
<1>2. /\ Half(o, n, k) \in wire /\ wire' \subseteq wire /\ wire \ {Half(o, n, k)} \subseteq wire'
      /\ portFaults' <= portFaults
  BY <1>1, DeliveredTyped
<1>3. Half(o, n, k) \in wire' => portFaults' = portFaults - 1
  BY <1>1 DEF Delivered, PortFault
<1>4. /\ \A m \in Exits : \A t : Status(o, m, t) \in wire => Status(o, m, t) \in wire'
      /\ \A m : \A j \in HalfKind :
           Half(o, m, j) \in wire => Half(o, m, j) \in wire' \/ (m = n /\ j = k)
  BY <1>2, Reports
<1>5. n \in Nat /\ n > 0 /\ n <= broker[o]["parent"].filled /\ broker[o]["parent"].filled \in Nat
  BY <1>2, HeldInt, PortAssumption DEF BracketInv, WireOK
<1>6. callers[o] = "placed"
  BY <1>5 DEF BracketInv, FreshUntilPlaced, Fresh, Legs
<1> QED BY <1>1, <1>2, <1>3, <1>4, <1>5, <1>6

LEMMA HalfCount ==
  ASSUME Typed, Typed', WireOf, NEW o \in Orders, BracketInv(o),
         NEW n \in 1..Shares[o], NEW k \in HalfKind, HandleHalf(o, n, k)
  PROVE  CountOK(o, n)'
<1>1. CountOK(o, n) /\ halves[<<o, n>>] # HalfKind /\ halves[<<o, n>>] \in SUBSET HalfKind
      /\ <<o, n>> \in Executions
  BY CountFacts DEF BracketInv, SharesOK, ShareOK, Typed
<1>2. PICK j \in HalfKind : j # k /\ HalfKind = {j, k}
  BY DEF HalfKind
<1>3. /\ OnWire(o, n, k) = 1 /\ OnWire(o, n, j)' <= OnWire(o, n, j)
      /\ OnWire(o, n, k)' = 0 \/ (OnWire(o, n, k)' = 1 /\ portFaults' = portFaults - 1)
      /\ OnWire(o, n, j) \in {0, 1} /\ OnWire(o, n, j)' \in {0, 1} /\ portFaults' <= portFaults
      /\ Seen(o, n, k) \in {0, 1} /\ Seen(o, n, j) \in {0, 1}
  BY HalfFacts DEF OnWire, Seen
<1>4. 2 * booked[<<o, n>>] + Seen(o, n, j) + Seen(o, n, k) + OnWire(o, n, j) + OnWire(o, n, k)
        <= 2 + MaxPortFaults - portFaults
  <2>1. (j = "details" /\ k = "commission") \/ (j = "commission" /\ k = "details")
    BY <1>2 DEF HalfKind
  <2> QED BY <1>1, <2>1, CountFacts DEF CountOK
<1>5. 2 * booked'[<<o, n>>] + Seen(o, n, j)' + Seen(o, n, k)' + OnWire(o, n, j)' + OnWire(o, n, k)'
        <= 2 + MaxPortFaults - portFaults'
  <2>1. booked[<<o, n>>] \in Nat /\ portFaults \in Nat /\ portFaults' \in Nat /\ MaxPortFaults \in Nat
    BY CountFacts DEF Typed
  <2>2. CASE Joined(<<o, n>>, k)
    <3>1. Seen(o, n, j) = 1 /\ Seen(o, n, k) = 0
      BY <1>1, <1>2, <2>2 DEF Joined, Seen
    <3>2. halves'[<<o, n>>] = {} /\ (booked'[<<o, n>>] = booked[<<o, n>>] \/ booked'[<<o, n>>] = booked[<<o, n>>] + 1)
      BY <1>1, <2>2 DEF HandleHalf, Typed
    <3>3. Seen(o, n, j)' = 0 /\ Seen(o, n, k)' = 0
      BY <3>2 DEF Seen
    <3> QED BY <1>3, <1>4, <2>1, <3>1, <3>2, <3>3
  <2>3. CASE ~Joined(<<o, n>>, k)
    <3>1. halves'[<<o, n>>] = halves[<<o, n>>] \union {k} /\ booked'[<<o, n>>] = booked[<<o, n>>]
      BY <1>1, <2>3 DEF HandleHalf, Typed
    <3>2. Seen(o, n, j)' = Seen(o, n, j) /\ Seen(o, n, k)' = 1
      BY <1>2, <3>1 DEF Seen
    <3> QED BY <1>3, <1>4, <2>1, <3>1, <3>2
  <2> QED BY <2>2, <2>3
<1>6. /\ booked'[<<o, n>>] \in Nat /\ portFaults' \in Nat /\ MaxPortFaults \in Nat
      /\ OnWire(o, n, "details")' \in {0, 1} /\ OnWire(o, n, "commission")' \in {0, 1}
      /\ Seen(o, n, "details")' \in {0, 1} /\ Seen(o, n, "commission")' \in {0, 1}
  BY <1>1, CountFacts DEF Typed, OnWire, Seen
<1>7. (j = "details" /\ k = "commission") \/ (j = "commission" /\ k = "details")
  BY <1>2 DEF HalfKind
<1> QED BY <1>5, <1>6, <1>7 DEF CountOK

LEMMA HalfKeeps ==
  ASSUME Typed, Typed', WireOf, NEW o \in Orders, BracketInv(o),
         NEW n \in 1..Shares[o], NEW k \in HalfKind, HandleHalf(o, n, k)
  PROVE  BracketInv(o)'
<1>1. /\ UNCHANGED <<callers, broker, asked, intended, cancels, blind>>
      /\ wire' \subseteq wire
      /\ n \in Nat /\ n > 0 /\ n <= broker[o]["parent"].filled /\ callers[o] = "placed"
      /\ broker[o]["parent"].filled \in Nat /\ portFaults' <= portFaults
  BY HalfFacts
<1>2. book'[o] = book[o] \/ (book[o].status # "none" /\ book'[o] = OnFill(o))
  BY DEF HandleHalf, Typed
<1>3. /\ book'[o].qty = book[o].qty /\ book'[o].legs = book[o].legs
      /\ \/ book'[o].entry = book[o].entry /\ book'[o].status = book[o].status
         \/ /\ book'[o].entry = "known" /\ book[o].status # "none"
            /\ book'[o].status = IF book[o].entry = "none" /\ book[o].status = "pending"
                                   THEN "open" ELSE book[o].status
  BY <1>2, FillShape, TypedIsPortTypeOK
<1>4. FreshUntilPlaced(o)' /\ BrokerSide(o)' /\ WireOK(o)'
  BY <1>1 DEF BracketInv, FreshUntilPlaced, BrokerSide, ExitsOK, ParentOK, StopOK,
              WireOK, Held, Sold, Shed, Working
<1>5. SizesOK(o)'
  BY <1>1, <1>3 DEF BracketInv, SizesOK
<1>6. BookOK(o)'
  <2>1. \A m \in Exits : Status(o, m, "Filled") \in wire => Status(o, m, "Filled") \in wire'
    BY HalfFacts
  <2> QED BY <1>1, <1>3, <2>1 DEF BracketInv, BookOK
<1>7. ASSUME NEW m \in 1..Shares[o], m # n PROVE ShareOK(o, m)' /\ CountOK(o, m)'
  <2>1. <<o, m>> \in Executions /\ <<o, n>> \in Executions /\ <<o, m>> # <<o, n>>
    BY <1>7, ExecutionsOf
  <2>2. halves'[<<o, m>>] = halves[<<o, m>>] /\ booked'[<<o, m>>] = booked[<<o, m>>]
    BY <2>1 DEF HandleHalf, Typed
  <2>3. ShareOK(o, m) /\ CountOK(o, m)
    BY DEF BracketInv, SharesOK
  <2>4. \A j \in HalfKind : Half(o, m, j) \in wire' <=> Half(o, m, j) \in wire
    BY <1>1, <1>7, HalfFacts
  <2>5. ShareOK(o, m)'
    BY <1>1, <1>3, <2>2, <2>3, <2>4 DEF ShareOK
  <2>6. /\ OnWire(o, m, "details")' = OnWire(o, m, "details")
        /\ OnWire(o, m, "commission")' = OnWire(o, m, "commission")
        /\ Seen(o, m, "details")' = Seen(o, m, "details")
        /\ Seen(o, m, "commission")' = Seen(o, m, "commission") /\ portFaults' \in Nat
    BY <2>2, <2>4 DEF OnWire, Seen, HalfKind, Typed
  <2> QED BY <1>1, <2>2, <2>3, <2>5, <2>6, CountFacts DEF CountOK
<1>8. ShareOK(o, n)'
  <2>1. ShareOK(o, n) /\ <<o, n>> \in Executions
    BY CountFacts DEF BracketInv, SharesOK
  <2>2. CASE Joined(<<o, n>>, k) /\ book[o].status # "none"
    <3>1. /\ halves'[<<o, n>>] = {} /\ booked'[<<o, n>>] = booked[<<o, n>>] + 1
          /\ book'[o].entry = "known"
      BY <2>1, <2>2, FillShape, TypedIsPortTypeOK DEF HandleHalf, Typed
    <3>2. booked[<<o, n>>] \in Nat
      BY <2>1 DEF Typed
    <3> QED BY <1>1, <3>1, <3>2 DEF ShareOK, HalfKind
  <2>3. CASE Joined(<<o, n>>, k) /\ book[o].status = "none"
    <3>1. halves'[<<o, n>>] = {} /\ booked'[<<o, n>>] = booked[<<o, n>>] /\ book' = book
      BY <2>1, <2>3 DEF HandleHalf, Typed
    <3>2. o \in blind
      BY <1>1, <2>3 DEF BracketInv, BookOK
    <3> QED BY <1>1, <2>1, <3>1, <3>2 DEF ShareOK, HalfKind
  <2>4. CASE ~Joined(<<o, n>>, k)
    <3>1. halves'[<<o, n>>] = halves[<<o, n>>] \union {k} /\ booked'[<<o, n>>] = booked[<<o, n>>]
          /\ book' = book
      BY <2>1, <2>4 DEF HandleHalf, Typed
    <3>2. halves'[<<o, n>>] # HalfKind
      BY <2>4, <3>1 DEF Joined
    <3>3. \A j \in HalfKind : Half(o, n, j) \in wire => Half(o, n, j) \in wire' \/ j = k
      BY HalfFacts
    <3> QED BY <1>1, <2>1, <3>1, <3>2, <3>3 DEF ShareOK
  <2> QED BY <2>2, <2>3, <2>4
<1>9. CountOK(o, n)'
  BY HalfCount
<1> QED BY <1>4, <1>5, <1>6, <1>7, <1>8, <1>9 DEF BracketInv, SharesOK

-----------------------------------------------------------------------------
(* Every step                                                              *)

LEMMA HandleOthers ==
  ASSUME Typed, Typed', WireOf, NEW o \in Orders, HandleStep(o), NEW p \in Orders \ {o}
  PROVE  Untouched(p)
<1>1. ASSUME NEW r, Delivered(r), r.of[1] = o, UNCHANGED <<callers, broker, asked, intended, cancels, blind>>,
             book'[p] = book[p],
             \A n \in 1..Shares[p] : halves'[<<p, n>>] = halves[<<p, n>>] /\ booked'[<<p, n>>] = booked[<<p, n>>]
      PROVE  Untouched(p)
  BY <1>1, DeliveredTyped DEF Untouched
<1>2. ASSUME NEW l \in Legs, NEW s \in Statuses, HandleStatus(o, l, s) PROVE Untouched(p)
  <2>1. book'[p] = book[p]
    BY <1>2 DEF HandleStatus, Typed
  <2> QED BY <1>1, <1>2, <2>1, Reports DEF HandleStatus
<1>3. ASSUME NEW n \in 1..Shares[o], NEW k \in HalfKind, HandleHalf(o, n, k) PROVE Untouched(p)
  <2>1. book'[p] = book[p]
    BY <1>3 DEF HandleHalf, Typed
  <2>2. ASSUME NEW m \in 1..Shares[p]
        PROVE  halves'[<<p, m>>] = halves[<<p, m>>] /\ booked'[<<p, m>>] = booked[<<p, m>>]
    <3>1. <<p, m>> \in Executions /\ <<p, m>> # <<o, n>>
      BY ExecutionsOf
    <3> QED BY <1>3, <3>1 DEF HandleHalf, Typed
  <2> QED BY <1>1, <1>3, <2>1, <2>2, Reports DEF HandleHalf
<1> QED BY <1>2, <1>3, StatusMap DEF HandleStep

LEMMA BrokerOthers ==
  ASSUME Typed, Typed', NEW o \in Orders, BrokerStep(o), NEW p \in Orders \ {o}
  PROVE  Untouched(p)
<1>1. ASSUME NEW k \in 1..Shares[o], ParentFills(o, k) PROVE Untouched(p)
  <2> DEFINE s == IF broker[o]["parent"].filled + k = broker[o]["parent"].qty THEN "Filled" ELSE "Submitted"
             reports == Exec(o, broker[o]["parent"].filled + k) \union {Status(o, "parent", s)}
  <2>1. /\ UNCHANGED portKept /\ portFaults' <= portFaults /\ asked' \subseteq asked
        /\ Report(o, reports)
    BY <1>1 DEF ParentFills, Typed
  <2>3. broker'[p] = broker[p]
    BY <1>1, ParentFilled
  <2>2. \A r \in reports : r.of[1] = o
    BY Reports, ExecOf
  <2> HIDE DEF reports
  <2> QED BY <2>1, <2>2, <2>3, BrokerLeavesOthers
<1>2. ASSUME NEW l \in Exits, ExitFills(o, l) PROVE Untouched(p)
  <2> DEFINE reports == {Status(o, l, "Filled")} \union CancelReports(o, Exits \ {l})
  <2>1. /\ UNCHANGED portKept /\ portFaults' <= portFaults /\ asked' \subseteq asked
        /\ Report(o, reports)
    BY <1>2 DEF ExitFills, Typed
  <2>3. broker'[p] = broker[p]
    BY <1>2, ExitFilled
  <2>2. \A r \in reports : r.of[1] = o
    BY Reports DEF CancelReports
  <2> HIDE DEF reports
  <2> QED BY <2>1, <2>2, <2>3, BrokerLeavesOthers
<1>3. ASSUME NEW l \in Legs, BrokerCancels(o, l) PROVE Untouched(p)
  <2> DEFINE reports == CancelReports(o, WithParent(o, l))
  <2>1. UNCHANGED portKept /\ portFaults' <= portFaults /\ asked' \subseteq asked
    BY <1>3 DEF BrokerCancels, Typed
  <2>2. \A r \in reports : r.of[1] = o
    BY Reports DEF CancelReports
  <2>3. CASE Working(o, l)
    <3>1. Report(o, reports) /\ broker'[p] = broker[p]
      BY <1>3, <2>3 DEF BrokerCancels, Typed
    <3> HIDE DEF reports
    <3> QED BY <2>1, <2>2, <3>1, BrokerLeavesOthers
  <2>4. CASE ~Working(o, l)
    <3>1. broker'[p] = broker[p] /\ UNCHANGED <<wire, blind>>
      BY <1>3, <2>4 DEF BrokerCancels, Typed
    <3> QED BY <2>1, <3>1 DEF Untouched, portKept
  <2> QED BY <2>3, <2>4
<1>4. CASE ParentExpires(o)
  <2> DEFINE reports == CancelReports(o, WithParent(o, "parent"))
  <2>1. /\ UNCHANGED portKept /\ portFaults' <= portFaults /\ asked' \subseteq asked
        /\ Report(o, reports) /\ broker'[p] = broker[p]
    BY <1>4, FaultTyped DEF ParentExpires, Typed
  <2>2. \A r \in reports : r.of[1] = o
    BY Reports DEF CancelReports
  <2> HIDE DEF reports
  <2> QED BY <2>1, <2>2, BrokerLeavesOthers
<1>5. CASE ParentRejected(o)
  <2> DEFINE reports == {Status(o, "parent", "Inactive")} \union CancelReports(o, Exits)
  <2>1. /\ UNCHANGED portKept /\ portFaults' <= portFaults /\ asked' \subseteq asked
        /\ Report(o, reports) /\ broker'[p] = broker[p]
    BY <1>5, FaultTyped DEF ParentRejected, Typed
  <2>2. \A r \in reports : r.of[1] = o
    BY Reports DEF CancelReports
  <2> HIDE DEF reports
  <2> QED BY <2>1, <2>2, BrokerLeavesOthers
<1> QED BY <1>1, <1>2, <1>3, <1>4, <1>5 DEF BrokerStep

LEMMA StageOthers ==
  ASSUME Typed, NEW o \in Orders, NEW taken, Stage(o, taken),
         UNCHANGED <<halves, booked, asked, intended, cancels>>, portFaults' <= portFaults,
         NEW p \in Orders \ {o}, p \in blind => p \in blind', wire' \subseteq wire,
         p \notin blind' => \A r \in wire : r.of[1] = p => r \in wire'
  PROVE  Untouched(p)
<1>1. /\ book'[p] = book[p] /\ broker'[p] = broker[p] /\ callers' = [callers EXCEPT ![o] = "placed"]
  BY Staged, TypedIsPortTypeOK
<1> QED BY <1>1 DEF Untouched, Typed

\* When the link goes down no report is left on it.
LEMMA LossIsSeen ==
  ASSUME NEW also, LinkLost(also), NEW p
  PROVE  /\ wire' \subseteq wire /\ (p \in blind => p \in blind')
         /\ p \notin blind' => \A r \in wire : r.of[1] = p => r \in wire'
         /\ p \in also => p \in blind'
  BY DEF LinkLost

LEMMA CallKeeps ==
  ASSUME PortInv, Typed', NEW o \in Orders, CallStep(o), NEW p \in Orders
  PROVE  BracketInv(p)' /\ portFaults' <= MaxPortFaults
<1> USE DEF PortInv
<1>1. CASE StartPort(o) \/ PlaceRefused(o)
  <2>1. Untouched(p) /\ portFaults' = portFaults
    BY <1>1 DEF StartPort, PlaceRefused, Untouched, Typed
  <2> QED BY <2>1, UntouchedKeeps
<1>2. CASE PlaceBracket(o)
  <2>1. PICK taken :
          /\ Stage(o, taken)
          /\ taken = LegsOf(o) \/ (taken = {} /\ o \in blind')
          /\ wire' \subseteq wire /\ portFaults' <= portFaults
          /\ \A b \in Orders : /\ b \in blind => b \in blind'
                               /\ b \notin blind' => \A r \in wire : r.of[1] = b => r \in wire'
    <3>1. CASE link = "up" /\ Stage(o, LegsOf(o)) /\ UNCHANGED <<link, wire, blind, portFaults>>
      BY <3>1 DEF Typed
    <3>2. CASE /\ link = "up" /\ PortFault("drop") /\ LinkLost({o})
               /\ \E upTo \in LegsOf(o) : Stage(o, Taken(o, upTo))
      <4>1. PICK upTo \in LegsOf(o) : Stage(o, Taken(o, upTo))
        BY <3>2
      <4>2. Taken(o, upTo) = {} \/ Taken(o, upTo) = LegsOf(o)
        BY TakenAll
      <4>3. o \in blind' /\ wire' \subseteq wire
            /\ \A b \in Orders : /\ b \in blind => b \in blind'
                                 /\ b \notin blind' => \A r \in wire : r.of[1] = b => r \in wire'
        BY <3>2, LossIsSeen
      <4>4. portFaults' <= portFaults
        BY <3>2, FaultTyped DEF Typed
      <4> QED BY <4>1, <4>2, <4>3, <4>4
    <3>3. CASE /\ link # "up" /\ Stage(o, {}) /\ blind' = blind \union {o}
               /\ UNCHANGED <<link, wire, portFaults>>
      <4>1. /\ Stage(o, {}) /\ o \in blind' /\ wire' = wire /\ blind \subseteq blind'
            /\ portFaults' <= portFaults
        BY <3>3 DEF Typed
      <4> QED BY <4>1
    <3> QED BY <1>2, <3>1, <3>2, <3>3 DEF PlaceBracket
  <2>2. UNCHANGED <<halves, booked, asked, intended, cancels>> /\ callers[o] # "placed"
    BY <1>2 DEF PlaceBracket
  <2>3. portFaults' <= MaxPortFaults
    BY <2>1, PortAssumption DEF Typed
  <2>4. CASE p = o
    <3>1. BracketInv(o) /\ (o \in blind => o \in blind')
      BY <2>1
    <3> QED BY <2>1, <2>2, <2>3, <2>4, <3>1, StageKeeps
  <2>5. CASE p # o
    <3>1. /\ p \in blind => p \in blind'
          /\ p \notin blind' => \A r \in wire : r.of[1] = p => r \in wire'
      BY <2>1
    <3>2. Untouched(p)
      BY <2>1, <2>2, <2>5, <3>1, StageOthers
    <3> QED BY <2>3, <3>2, UntouchedKeeps
  <2> QED BY <2>3, <2>4, <2>5
<1>3. CASE CancelBracket(o)
  <2>1. CASE p = o
    BY <1>3, <2>1, CancelKeeps DEF CancelBracket
  <2>2. CASE p # o
    <3>1. Untouched(p) /\ portFaults' = portFaults
      BY <1>3, <2>2, EditShape DEF CancelBracket, Untouched, Typed
    <3> QED BY <3>1, UntouchedKeeps
  <2> QED BY <2>1, <2>2
<1>4. ASSUME NEW q \in 1..Shares[o], NEW resent \in {{"stop"}, Exits}, ModifyBracket(o, q, resent)
      PROVE  BracketInv(p)' /\ portFaults' <= MaxPortFaults
  <2>1. CASE p = o
    BY <1>4, <2>1, ModifyKeeps DEF ModifyBracket
  <2>2. CASE p # o
    <3>1. Untouched(p) /\ portFaults' = portFaults
      BY <1>4, <2>2 DEF ModifyBracket, Untouched, Typed
    <3> QED BY <3>1, UntouchedKeeps
  <2> QED BY <2>1, <2>2
<1> QED BY <1>1, <1>2, <1>3, <1>4 DEF CallStep

LEMMA LinkKeeps ==
  ASSUME PortInv, Typed', LinkStep, NEW p \in Orders
  PROVE  BracketInv(p)' /\ portFaults' <= MaxPortFaults
<1> USE DEF PortInv
<1>1. CASE NextValidId
  <2>0. /\ UNCHANGED <<halves, booked, asked, intended, cancels, wire, blind, portFaults>>
        /\ portFaults' <= portFaults
    BY <1>1 DEF NextValidId, Typed
  <2>1. CASE \E o \in Orders : callers[o] = "connecting" /\ Stage(o, LegsOf(o))
    <3>1. PICK o \in Orders : callers[o] = "connecting" /\ Stage(o, LegsOf(o))
      BY <2>1
    <3>2. CASE p = o
      BY <2>0, <3>1, <3>2, StageKeeps
    <3>3. CASE p # o
      BY <2>0, <3>1, <3>3, StageOthers, UntouchedKeeps
    <3> QED BY <2>0, <3>2, <3>3
  <2>2. CASE UNCHANGED <<callers, book, broker>>
    <3>1. Untouched(p)
      BY <2>0, <2>2 DEF Untouched
    <3> QED BY <2>0, <3>1, UntouchedKeeps
  <2> QED BY <1>1, <2>1, <2>2 DEF NextValidId
<1>2. CASE ConnectFails
  <2>1. Untouched(p) /\ portFaults' <= portFaults
    BY <1>2, FaultTyped DEF ConnectFails, Untouched, Typed
  <2> QED BY <2>1, UntouchedKeeps, PortAssumption DEF Typed
<1>3. CASE NetLiquidationConnects
  <2>1. Untouched(p) /\ portFaults' <= portFaults
    BY <1>3 DEF NetLiquidationConnects, Untouched, Typed
  <2> QED BY <2>1, UntouchedKeeps, PortAssumption DEF Typed
<1>4. CASE Disconnected
  <2>1. /\ UNCHANGED <<callers, book, halves, booked, broker, asked, intended, cancels>>
        /\ LinkLost({}) /\ portFaults' <= portFaults
    BY <1>4, FaultTyped DEF Disconnected, Typed
  <2>2. Untouched(p)
    BY <2>1, LossIsSeen DEF Untouched
  <2> QED BY <2>1, <2>2, UntouchedKeeps, PortAssumption DEF Typed
<1>5. CASE PortRestarts
  <2>1. portFaults' <= portFaults
    BY <1>5, FaultTyped DEF PortRestarts, Typed
  <2> QED BY <1>5, <2>1, RestartKeeps, PortAssumption DEF Typed
<1> QED BY <1>1, <1>2, <1>3, <1>4, <1>5 DEF LinkStep

LEMMA PortInvInit == PortInit => PortInv
<1> SUFFICES ASSUME PortInit PROVE PortInv
  OBVIOUS
<1>1. Typed /\ WireOf /\ portFaults <= MaxPortFaults /\ MaxPortFaults \in Nat
  BY PortTypeInit, TypedIsPortTypeOK, PortAssumption DEF PortInit, WireOf
<1>2. ASSUME NEW o \in Orders PROVE BracketInv(o)
  <2>1. /\ callers[o] = "idle" /\ book[o] = Unplaced /\ intended[o] = Shares[o] /\ Shares[o] \in Nat
        /\ wire = {} /\ cancels = {} /\ asked = {} /\ portFaults = MaxPortFaults
        /\ \A n \in 1..Shares[o] : halves[<<o, n>>] = {} /\ booked[<<o, n>>] = 0
    BY ExecutionsOf, PortAssumption DEF PortInit
  <2>2. \A l \in Legs : broker[o][l] = Absent
    BY DEF PortInit
  <2>3. \A l \in Legs : broker[o][l].at = "none" /\ broker[o][l].filled = 0 /\ broker[o][l].qty = 0
    BY <2>2 DEF Absent
  <2>4. Held(o) = 0 /\ Sold(o) = 0 /\ Shed(o) = 0 /\ \A l \in Legs : ~Working(o, l)
    BY <2>1, <2>3 DEF Held, Sold, Shed, Working, Legs
  <2>5. FreshUntilPlaced(o)
    BY <2>1, <2>3 DEF FreshUntilPlaced, Fresh, Unplaced
  <2>6. BrokerSide(o)
    BY <2>1, <2>3, <2>4 DEF BrokerSide, ExitsOK, ParentOK, StopOK, Exits, Legs
  <2>7. SizesOK(o) /\ WireOK(o) /\ BookOK(o)
    BY <2>1, <2>3 DEF SizesOK, WireOK, BookOK, Unplaced, Exits, Legs
  <2>8. ASSUME NEW n \in 1..Shares[o] PROVE ShareOK(o, n) /\ CountOK(o, n)
    <3>1. n # 0 /\ halves[<<o, n>>] = {} /\ booked[<<o, n>>] = 0
      BY <2>1, PortAssumption
    <3>2. ShareOK(o, n)
      BY <2>3, <3>1 DEF ShareOK, HalfKind, Legs
    <3>3. CountOK(o, n)
      BY <1>1, <2>1, <3>1 DEF CountOK, Seen, OnWire
    <3> QED BY <3>2, <3>3
  <2> QED BY <2>5, <2>6, <2>7, <2>8 DEF BracketInv, SharesOK
<1> QED BY <1>1, <1>2 DEF PortInv

LEMMA FaultsSpent ==
  ASSUME Typed, PortNext
  PROVE  portFaults' <= portFaults
<1>1. CASE LinkStep
  BY <1>1, FaultTyped DEF LinkStep, NextValidId, ConnectFails, NetLiquidationConnects, Disconnected,
                          PortRestarts, Typed
<1>2. ASSUME NEW o \in Orders, CallStep(o) PROVE portFaults' <= portFaults
  BY <1>2, FaultTyped DEF CallStep, StartPort, PlaceRefused, PlaceBracket, CancelBracket, ModifyBracket, Typed
<1>3. ASSUME NEW o \in Orders, BrokerStep(o) PROVE portFaults' <= portFaults
  <2>1. portFaults' = portFaults \/ \E what : PortFault(what)
    BY <1>3 DEF BrokerStep, ParentFills, ExitFills, BrokerCancels, ParentExpires, ParentRejected
  <2> QED BY <2>1, FaultTyped DEF Typed
<1>4. ASSUME NEW o \in Orders, HandleStep(o) PROVE portFaults' <= portFaults
  <2>1. \E r : Delivered(r)
    BY <1>4 DEF HandleStep, HandleStatus, HandleHalf
  <2> QED BY <2>1 DEF Delivered, PortFault, Typed
<1> QED BY <1>1, <1>2, <1>3, <1>4 DEF PortNext

LEMMA PortInvStep == PortInv /\ [PortNext]_portVars => PortInv'
<1> SUFFICES ASSUME PortInv, [PortNext]_portVars PROVE PortInv'
  OBVIOUS
<1> USE DEF PortInv
<1>6. ASSUME PortNext PROVE portFaults' <= MaxPortFaults \/ ~Typed'
  BY <1>6, FaultsSpent, PortAssumption DEF Typed
<1>1. CASE LinkStep
  <2>1. Typed' /\ WireOf'
    BY <1>1, LinkTyped
  <2>2. \A p \in Orders : BracketInv(p)'
    BY <1>1, <2>1, LinkKeeps
  <2> QED BY <1>1, <1>6, <2>1, <2>2 DEF PortNext
<1>2. ASSUME NEW o \in Orders, CallStep(o) PROVE PortInv'
  <2>1. Typed' /\ WireOf'
    BY <1>2, CallTyped
  <2>2. \A p \in Orders : BracketInv(p)'
    BY <1>2, <2>1, CallKeeps
  <2> QED BY <1>2, <1>6, <2>1, <2>2 DEF PortNext
<1>3. ASSUME NEW o \in Orders, BrokerStep(o) PROVE PortInv'
  <2>1. Typed' /\ WireOf'
    BY <1>3, BrokerTyped
  <2>2. \A p \in Orders : BracketInv(p)'
    BY <1>3, <2>1, BrokerKeeps, BrokerOthers, UntouchedKeeps
  <2> QED BY <1>3, <1>6, <2>1, <2>2 DEF PortNext
<1>4. ASSUME NEW o \in Orders, HandleStep(o) PROVE PortInv'
  <2>1. Typed' /\ WireOf'
    BY <1>4, HandleTyped
  <2>2. BracketInv(o)'
    BY <1>4, <2>1, StatusMap, StatusKeeps, HalfKeeps DEF HandleStep
  <2>3. \A p \in Orders \ {o} : BracketInv(p)'
    BY <1>4, <2>1, HandleOthers, UntouchedKeeps
  <2> QED BY <1>4, <1>6, <2>1, <2>2, <2>3 DEF PortNext
<1>5. CASE UNCHANGED portVars
  <2>1. Typed' /\ WireOf' /\ portFaults' <= MaxPortFaults
    BY <1>5 DEF portVars, Typed, WireOf
  <2>2. ASSUME NEW p \in Orders PROVE Untouched(p)
    BY <1>5 DEF portVars, Untouched, Typed
  <2> QED BY <2>1, <2>2, UntouchedKeeps
<1> QED BY <1>1, <1>2, <1>3, <1>4, <1>5 DEF PortNext

-----------------------------------------------------------------------------
(* What follows of it                                                      *)

\* Through lost links, restarts, lapsed and rejected orders, of a bracket that was not
\* told to cancel no more shares go without a stop than resizes shed.
THEOREM StopsSurvive == PortSpec => []NakedWereShed
<1>1. PortInv => NakedWereShed
  <2> SUFFICES ASSUME PortInv, NEW o \in Orders \ cancels PROVE Held(o) - Covered(o) <= Shed(o)
    BY DEF NakedWereShed
  <2>1. /\ Held(o) \in Int /\ Sold(o) \in Nat /\ Shares[o] \in Nat /\ intended[o] \in Nat
        /\ broker[o]["stop"].qty \in Nat /\ broker[o]["parent"].qty \in Nat
        /\ broker[o]["parent"].filled \in Nat /\ Held(o) = broker[o]["parent"].filled - Sold(o)
    BY HeldInt, PortAssumption DEF PortInv, Typed, OrderShape, Legs
  <2>2. /\ BrokerSide(o) /\ intended[o] <= Shares[o]
    BY DEF PortInv, BracketInv, SizesOK
  <2>3. CASE Working(o, "stop")
    <3>1. broker[o]["stop"].qty >= intended[o]
      BY <2>2, <2>3 DEF BrokerSide, ExitsOK, Exits
    <3>2. Held(o) <= Shares[o]
      BY <2>1, <2>2 DEF BrokerSide, ParentOK
    <3> QED BY <2>1, <2>2, <2>3, <3>1, <3>2 DEF Covered, Shed
  <2>4. CASE ~Working(o, "stop")
    BY <2>1, <2>2, <2>4 DEF BrokerSide, StopOK, Covered
  <2> QED BY <2>3, <2>4
<1> QED BY <1>1, PortInvInit, PortInvStep, PTL DEF PortSpec

LEMMA BracketShape ==
  ASSUME PortInv, NEW o \in Orders
  PROVE  /\ Held(o) \in Int /\ Sold(o) \in Nat /\ Shares[o] \in Nat /\ intended[o] \in Nat
         /\ \A l \in Legs : broker[o][l].qty \in Nat /\ broker[o][l].filled \in Nat
         /\ Held(o) = broker[o]["parent"].filled - Sold(o)
         /\ Held(o) >= 0 /\ broker[o]["parent"].filled <= Shares[o] /\ intended[o] <= Shares[o]
<1>1. BracketInv(o) /\ Typed
  BY DEF PortInv
<1>2. /\ Held(o) \in Int /\ Sold(o) \in Nat /\ Shares[o] \in Nat /\ intended[o] \in Nat
      /\ Held(o) = broker[o]["parent"].filled - Sold(o)
      /\ \A l \in Legs : broker[o][l].qty \in Nat /\ broker[o][l].filled \in Nat
  BY <1>1, HeldInt, PortAssumption DEF Typed, OrderShape
<1> QED BY <1>1, <1>2 DEF BracketInv, BrokerSide, ParentOK, SizesOK, Legs

\* Once every report of a bracket was handled, an exit that filled has closed it.
LEMMA QuietExits ==
  ASSUME PortInv, NEW o \in Orders, Quiet(o), book[o].status \notin {"closed", "cancelled"}
  PROVE  /\ \A l \in Exits : broker[o][l].at # "filled"
         /\ Sold(o) = 0
<1>1. ASSUME NEW l \in Exits PROVE broker[o][l].at # "filled"
  <2>1. Status(o, l, "Filled") \notin wire /\ o \notin blind
    BY Reports DEF Quiet
  <2> QED BY <2>1 DEF PortInv, BracketInv, BookOK
<1>2. \A l \in Exits : broker[o][l].filled = 0
  BY <1>1 DEF PortInv, BracketInv, BrokerSide, ExitsOK
<1> QED BY <1>1, <1>2 DEF Sold, Exits

\* Once every report of a bracket was handled, its last execution was booked.
LEMMA QuietFills ==
  ASSUME PortInv, NEW o \in Orders, Quiet(o), NEW n \in 1..Shares[o], n = broker[o]["parent"].filled
  PROVE  booked[<<o, n>>] > 0 /\ book[o].entry = "known"
<1>1. ShareOK(o, n) /\ halves[<<o, n>>] \subseteq HalfKind
  BY ExecutionsOf DEF PortInv, BracketInv, SharesOK, Typed
<1>2. o \notin blind /\ \A k : Half(o, n, k) \notin wire
  BY Reports DEF Quiet
<1> QED BY <1>1, <1>2 DEF ShareOK

\* A bracket the book holds open has an entry price; once every report of a bracket was
\* handled, an open one stands for shares held, a pending one for none, and a closed one
\* leaves at most what resizes shed.
THEOREM BookIsTrue == PortSpec => []BookMatchesBroker
<1>1. PortInv => BookMatchesBroker
  <2> SUFFICES ASSUME PortInv, NEW o \in Orders
               PROVE  /\ book[o].status = "open" => book[o].entry = "known"
                      /\ Quiet(o) =>
                           /\ book[o].status = "open"    => Held(o) \in 1..(book[o].qty + Shed(o))
                           /\ book[o].status = "pending" => Held(o) = 0
                           /\ book[o].status = "closed"  => Held(o) <= Shed(o)
    BY DEF BookMatchesBroker
  <2>1. BookOK(o) /\ SizesOK(o) /\ BrokerSide(o)
    BY DEF PortInv, BracketInv
  <2>2. ASSUME Quiet(o), book[o].status = "open" PROVE Held(o) \in 1..(book[o].qty + Shed(o))
    <3>1. Sold(o) = 0 /\ broker[o]["parent"].filled > 0 /\ book[o].qty = intended[o]
      BY <2>1, <2>2, QuietExits DEF BookOK, SizesOK
    <3>2. /\ Shares[o] \in Nat /\ intended[o] \in Nat /\ broker[o]["parent"].filled \in Nat
          /\ Held(o) = broker[o]["parent"].filled - Sold(o) /\ broker[o]["parent"].filled <= Shares[o]
      BY BracketShape DEF Legs
    <3>3. book[o].qty + Shed(o) = Shares[o] /\ Held(o) = broker[o]["parent"].filled
      BY <3>1, <3>2 DEF Shed
    <3> QED BY <3>1, <3>2, <3>3
  <2>3. ASSUME Quiet(o), book[o].status = "pending" PROVE Held(o) = 0
    <3>1. broker[o]["parent"].filled \notin 1..Shares[o]
      BY <2>1, <2>3, QuietFills DEF BookOK
    <3> QED BY <3>1, BracketShape DEF Legs
  <2>4. ASSUME book[o].status = "closed" PROVE Held(o) <= Shed(o)
    BY <2>1, <2>4 DEF BookOK, BrokerSide, ExitsOK
  <2>5. book[o].status = "open" => book[o].entry = "known"
    BY <2>1 DEF BookOK
  <2> QED BY <2>2, <2>3, <2>4, <2>5
<1> QED BY <1>1, PortInvInit, PortInvStep, PTL DEF PortSpec

\* Whichever half of an execution comes first, it is booked once the halves are handled,
\* and not again unless halves are repeated.
THEOREM FillsJoined == PortSpec => []FillsBookedOnce
<1>1. PortInv => FillsBookedOnce
  <2> SUFFICES ASSUME PortInv, NEW x \in Executions
               PROVE  /\ booked[x] <= 1 + MaxPortFaults - portFaults
                      /\ Quiet(x[1]) /\ broker[x[1]]["parent"].filled = x[2] => booked[x] > 0
    BY DEF FillsBookedOnce
  <2>1. PICK o \in Orders : \E n \in 1..Shares[o] : x = <<o, n>>
    BY ExecutionsOf
  <2>2. PICK n \in 1..Shares[o] : x = <<o, n>>
    BY <2>1
  <2>3. booked[x] <= 1 + MaxPortFaults - portFaults
    <3>1. CountOK(o, n)
      BY DEF PortInv, BracketInv, SharesOK
    <3>2. booked[x] \in Nat /\ portFaults \in Nat /\ MaxPortFaults \in Nat /\ portFaults <= MaxPortFaults
      BY PortAssumption DEF PortInv, Typed
    <3>3. /\ \A k : Seen(o, n, k) \in {0, 1}
          /\ \A k : OnWire(o, n, k) \in {0, 1}
      BY DEF Seen, OnWire
    <3>4. 2 * booked[x] <= 2 + MaxPortFaults - portFaults
      BY <2>2, <3>1, <3>2, <3>3 DEF CountOK
    <3> QED BY <3>2, <3>4
  <2>4. ASSUME Quiet(x[1]), broker[x[1]]["parent"].filled = x[2] PROVE booked[x] > 0
    BY <2>2, <2>4, QuietFills
  <2> QED BY <2>3, <2>4
<1> QED BY <1>1, PortInvInit, PortInvStep, PTL DEF PortSpec

\* Reconciliation, whenever it is called, names every ticker with shares no stop covers:
\* by a position the books do not have, or by the stop they believe to work.
THEOREM NakedSharesShow == PortSpec => []NakedIsReported
<1>1. PortInv => NakedIsReported
  <2> SUFFICES ASSUME PortInv, NEW o \in Orders, Held(o) > Covered(o)
               PROVE  \E m \in PositionMismatches \union OrderMismatches : m.of = o
    BY DEF NakedIsReported
  <2>1. BookOK(o) /\ SizesOK(o) /\ BrokerSide(o)
    BY DEF PortInv, BracketInv
  <2>2. Covered(o) \in Nat /\ Held(o) > 0
    BY BracketShape DEF Covered, Legs
  <2>3. CASE Listed(o) = 0
    <3>1. [kind |-> "rogue_position", of |-> o] \in PositionMismatches
      BY <2>2, <2>3, BracketShape DEF PositionMismatches
    <3> QED BY <3>1
  <2>4. CASE Listed(o) # 0 /\ Held(o) # Listed(o)
    <3>1. [kind |-> "position_drift", of |-> o] \in PositionMismatches
      BY <2>4 DEF PositionMismatches
    <3> QED BY <3>1
  <2>5. CASE Listed(o) # 0 /\ Held(o) = Listed(o)
    <3>1. book[o].status = "open" /\ Held(o) = intended[o] /\ o \notin cancels
      BY <2>1, <2>5 DEF Listed, SizesOK
    <3>2. ~Working(o, "stop")
      <4>1. Working(o, "stop") => broker[o]["stop"].qty >= Held(o)
        BY <2>1, <3>1 DEF BrokerSide, ExitsOK, Exits
      <4> QED BY <4>1, BracketShape DEF Covered, Legs
    <3>3. PICK l \in Exits : broker[o][l].at = "filled"
      BY <2>1, <2>2, <3>1, <3>2 DEF BrokerSide, StopOK
    <3>4. book[o].legs[l] = "pending_submit" /\ ~Working(o, l) /\ l \in Legs
      BY <2>1, <3>1, <3>3 DEF BookOK, Working, Exits, Legs
    <3>5. <<o, l>> \in KnownOrders \ BrokerOrders
      BY <3>1, <3>4 DEF KnownOrders, BrokerOrders, LiveStatus
    <3>6. [kind |-> "missing_order", of |-> o] \in OrderMismatches
      BY <3>5 DEF OrderMismatches
    <3> QED BY <3>6
  <2> QED BY <2>3, <2>4, <2>5
<1> QED BY <1>1, PortInvInit, PortInvStep, PTL DEF PortSpec

-----------------------------------------------------------------------------
(* The controls on orders and the broker's orders beside each other        *)

\* What is explored together is, seen from each component, that component: what is shown
\* of its own specification holds of the whole.
THEOREM ControlsAreComponents == ControlsSpec => Spec /\ GovernorSpec /\ PortSpec
<1>1. ControlsInit => Init /\ GovernorInit /\ PortInit
  BY DEF ControlsInit
<1>2. [ControlsNext]_controlVars => [Next]_vars
  BY DEF ControlsNext, controlVars
<1>3. [ControlsNext]_controlVars => [GovernorNext]_governorVars
  BY DEF ControlsNext, controlVars
<1>4. [ControlsNext]_controlVars => [PortNext]_portVars
  BY DEF ControlsNext, controlVars
<1> QED BY <1>1, <1>2, <1>3, <1>4, PTL DEF ControlsSpec, Spec, GovernorSpec, PortSpec

\* Every variable of the switch, the governor and the port keeps its type.
THEOREM ControlsTyped == ControlsSpec => []TypesOK
<1>1. TypeOK /\ GovernorTypeOK /\ PortTypeOK => TypesOK
  BY DEF TypesOK
<1> QED BY <1>1, ControlsAreComponents, TypeCorrect, GovernorTyped, PortTypes, PTL
=============================================================================
