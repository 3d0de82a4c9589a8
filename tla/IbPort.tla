------------------------------- MODULE IbPort -------------------------------
(***************************************************************************)
(* The PAPER execution port (apps/api/src/execution/ib-execution-port.ts)  *)
(* over the order side of the gateway (ib-order-gateway.ts), with the      *)
(* broker as its environment.  The port learns of fills and cancels only   *)
(* from reports, which may overtake each other and come again, and are     *)
(* lost while the link is down; the exits live at the broker and outlast   *)
(* the process.  Prices are left out but for whether an entry has one.     *)
(***************************************************************************)
EXTENDS Naturals, FiniteSets

CONSTANTS
  Orders,          \* the requests the pipeline may make, a bracket each
  Shares,          \* Orders -> shares requested
  Targeted,        \* of Orders: those with a take-profit price
  MaxPlaced,       \* bound on the brackets placed
  MaxWire,         \* bound on the reports on their way when the broker acts
  PortFaults,      \* of "repeat", "drop", "restart", "reject", "expire": what occurs
  MaxPortFaults    \* bound on them

VARIABLES
  link,        \* the gateway's connection
  started,     \* IbExecutionPort.started
  nextId,      \* the allocator: "none" before its base is known
  callers,     \* Orders -> where its placeBracket call is
  book,        \* IbExecutionPort.brackets, Unplaced where there is none
  halves,      \* pendingFills: execution -> the halves seen and not joined
  booked,      \* fills: execution -> times it was pushed
  broker,      \* order and leg -> the order at the broker
  wire,        \* reports on their way
  asked,       \* cancel requests on their way
  intended,    \* history: shares the bracket was last sized to
  cancels,     \* history: orders cancelBracket was called for
  blind,       \* history: orders some report of which was lost
  portFaults   \* disturbances left

portVars == <<link, started, nextId, callers, book, halves, booked, broker, wire, asked,
              intended, cancels, blind, portFaults>>

ASSUME PortAssumption ==
  /\ Targeted \subseteq Orders /\ Shares \in [Orders -> Nat \ {0}]
  /\ MaxPlaced \in Nat /\ MaxWire \in Nat /\ MaxPortFaults \in Nat

Legs     == {"parent", "stop", "target"}
Exits    == {"stop", "target"}
HalfKind == {"details", "commission"}

LegsOf(o) == IF o \in Targeted THEN Legs ELSE {"parent", "stop"}

\* The executions of a parent, which may fill share by share.  Those of the exits are
\* booked the same way and change nothing else; they are left out.
Executions == UNION {{o} \X (1..Shares[o]) : o \in Orders}

Status(o, l, s)  == [kind |-> "status", of |-> <<o, l>>, says |-> s]
Half(o, n, k)    == [kind |-> k, of |-> <<o, "parent">>, share |-> n]
Exec(o, n)       == {Half(o, n, k) : k \in HalfKind}

Absent   == [at |-> "none", qty |-> 0, filled |-> 0]
Unplaced == [status |-> "none", qty |-> 0, entry |-> "none", legs |-> [l \in Legs |-> "none"]]

PortFault(what) == what \in PortFaults /\ portFaults > 0 /\ portFaults' = portFaults - 1

PortInit ==
  /\ link = "none" /\ started = "no" /\ nextId = "none"
  /\ callers = [o \in Orders |-> "idle"]
  /\ book = [o \in Orders |-> Unplaced]
  /\ halves = [x \in Executions |-> {}]
  /\ booked = [x \in Executions |-> 0]
  /\ broker = [o \in Orders |-> [l \in Legs |-> Absent]]
  /\ wire = {} /\ asked = {}
  /\ intended = Shares
  /\ cancels = {} /\ blind = {}
  /\ portFaults = MaxPortFaults

-----------------------------------------------------------------------------
(* The connection and placeBracket                                         *)

\* Mutant: every leg is transmitted as it is staged.
TransmitsEach(o, l) == l \in LegsOf(o)

\* Only the last leg is staged with transmit, so the broker takes a bracket whole.
Transmits(o, l) == l = IF o \in Targeted THEN "target" ELSE "stop"

Before == [parent |-> {"parent"}, stop |-> {"parent", "stop"}, target |-> Legs]

\* The legs the broker works when the link lasts up to the leg given.
Taken(o, upTo) == UNION {Before[l] : l \in {k \in Before[upTo] : Transmits(o, k)}}

NewBracket(o) == [status |-> "pending", qty |-> Shares[o], entry |-> "none",
                  legs |-> [l \in Legs |-> IF l \in LegsOf(o) THEN "pending_submit" ELSE "none"]]

\* What reaches the broker; without a link, nothing does.
Stage(o, taken) ==
  /\ book' = [book EXCEPT ![o] = NewBracket(o)]
  /\ broker' = [broker EXCEPT ![o] =
       [l \in Legs |-> IF l \in taken THEN [at |-> "working", qty |-> Shares[o], filled |-> 0]
                                      ELSE Absent]]
  /\ callers' = [callers EXCEPT ![o] = "placed"]

RoomToPlace == Cardinality({o \in Orders : callers[o] \in {"placed", "connecting"}}) < MaxPlaced

\* The first call connects the gateway and waits for it; started stays set even when
\* the connection fails.
StartPort(o) ==
  /\ callers[o] = "idle" /\ started = "no" /\ link # "up" /\ RoomToPlace
  /\ started' = "yes"
  /\ link' = "opening"
  /\ callers' = [callers EXCEPT ![o] = "connecting"]
  /\ UNCHANGED <<nextId, book, halves, booked, broker, wire, asked, intended, cancels,
                 blind, portFaults>>

\* A later call does not wait: without an order-id base it throws.
PlaceRefused(o) ==
  /\ callers[o] = "idle" /\ started = "yes" /\ nextId = "none"
  /\ callers' = [callers EXCEPT ![o] = "failed"]
  /\ UNCHANGED <<link, started, nextId, book, halves, booked, broker, wire, asked, intended, cancels, blind, portFaults>>

\* The link goes down, and the reports on it are lost.
LinkLost(also) ==
  /\ link' = "down"
  /\ wire' = {}
  /\ blind' = blind \union {r.of[1] : r \in wire} \union also

\* The order-id base is there; whether the link still is, or lasts, nothing checks.
PlaceBracket(o) ==
  /\ callers[o] = "idle" /\ nextId = "seeded" /\ RoomToPlace
  /\ started = "yes" \/ link = "up"
  /\ started' = "yes"
  /\ \/ link = "up" /\ Stage(o, LegsOf(o)) /\ UNCHANGED <<link, wire, blind, portFaults>>
     \/ /\ link = "up" /\ PortFault("drop") /\ LinkLost({o})
        /\ \E upTo \in LegsOf(o) : Stage(o, Taken(o, upTo))
     \/ /\ link # "up" /\ Stage(o, {}) /\ blind' = blind \union {o}
        /\ UNCHANGED <<link, wire, portFaults>>
  /\ UNCHANGED <<nextId, halves, booked, asked, intended, cancels>>

\* connect resolves on nextValidId, whose first value seeds the allocator for good;
\* the call that waited places its bracket.
NextValidId ==
  /\ link = "opening"
  /\ link' = "up"
  /\ nextId' = "seeded"
  /\ \/ \E o \in Orders : callers[o] = "connecting" /\ Stage(o, LegsOf(o))
     \/ (\A o \in Orders : callers[o] # "connecting") /\ UNCHANGED <<callers, book, broker>>
  /\ UNCHANGED <<started, halves, booked, wire, asked, intended, cancels, blind, portFaults>>

\* No nextValidId comes, or the socket throws: the call that waited places nothing.
ConnectFails ==
  /\ link = "opening" /\ PortFault("drop")
  /\ link' = "down"
  /\ callers' = [o \in Orders |-> IF callers[o] = "connecting" THEN "failed" ELSE callers[o]]
  /\ UNCHANGED <<started, nextId, book, halves, booked, broker, wire, asked, intended,
                 cancels, blind>>

\* Nothing reconnects the order side but a reading of the account's equity.
NetLiquidationConnects ==
  /\ link \in {"none", "down"}
  /\ link' = "opening"
  /\ UNCHANGED <<started, nextId, callers, book, halves, booked, broker, wire, asked, intended, cancels, blind, portFaults>>

Disconnected ==
  /\ link = "up" /\ PortFault("drop")
  /\ LinkLost({})
  /\ UNCHANGED <<started, nextId, callers, book, halves, booked, broker, asked, intended,
                 cancels>>

\* The process restarts, on its own or because an error event of the gateway has no
\* listener: the port forgets its brackets, the broker keeps the orders.
PortRestarts ==
  /\ PortFault("restart")
  /\ link' = "none" /\ started' = "no" /\ nextId' = "none"
  /\ callers' = [o \in Orders |-> IF callers[o] = "connecting" THEN "failed" ELSE callers[o]]
  /\ book' = [o \in Orders |-> Unplaced]
  /\ halves' = [x \in Executions |-> {}]
  /\ booked' = [x \in Executions |-> 0]
  /\ wire' = {}
  /\ blind' = blind \union {o \in Orders : callers[o] = "placed"}
  /\ UNCHANGED <<broker, asked, intended, cancels>>

-----------------------------------------------------------------------------
(* The broker, as the port expects it                                      *)

\* A report goes out on the link there is.
Report(o, reports) ==
  IF link = "up" THEN wire' = wire \union reports /\ UNCHANGED blind
                 ELSE blind' = blind \union {o} /\ UNCHANGED wire

portKept == <<link, started, nextId, callers, book, halves, booked, intended, cancels>>

Working(o, l) == broker[o][l].at = "working"
Sold(o)       == broker[o]["stop"].filled + broker[o]["target"].filled
Held(o)       == broker[o]["parent"].filled - Sold(o)

\* The orders of a bracket after the legs given left the market as stated.
Left(o, legs, at) ==
  [l \in Legs |-> IF l \in legs /\ Working(o, l) THEN [broker[o][l] EXCEPT !.at = at] ELSE broker[o][l]]

CancelReports(o, legs) == {Status(o, l, "Cancelled") : l \in {k \in legs : Working(o, k)}}

ParentFills(o, k) ==
  LET parent == broker[o]["parent"]
      filled == parent.filled + k
      done   == filled = parent.qty
  IN /\ Working(o, "parent") /\ filled <= parent.qty
     /\ broker' = [broker EXCEPT ![o]["parent"] =
          [parent EXCEPT !.filled = filled, !.at = IF done THEN "filled" ELSE @]]
     /\ Report(o, Exec(o, filled)
                   \union {Status(o, "parent", IF done THEN "Filled" ELSE "Submitted")})
     /\ UNCHANGED <<portKept, asked, portFaults>>

\* The exits work once the parent is done, for the shares held; one of them filling
\* takes the other off the market.
ExitFills(o, l) ==
  LET exit  == broker[o][l]
      sells == IF exit.qty < Held(o) THEN exit.qty ELSE Held(o)
  IN /\ Working(o, l) /\ ~Working(o, "parent") /\ Held(o) > 0
     /\ broker' = [broker EXCEPT ![o] =
          [Left(o, Exits, "cancelled") EXCEPT ![l] = [exit EXCEPT !.filled = sells, !.at = "filled"]]]
     /\ Report(o, {Status(o, l, "Filled")} \union CancelReports(o, Exits \ {l}))
     /\ UNCHANGED <<portKept, asked, portFaults>>

\* A parent that leaves the market unfilled takes its exits along.
WithParent(o, l) == IF l = "parent" /\ Held(o) = 0 THEN Legs ELSE {l}

\* A cancel finds its order working, or comes too late.
BrokerCancels(o, l) ==
  /\ <<o, l>> \in asked /\ \A k \in Before[l] \ {l} : <<o, k>> \notin asked
  /\ asked' = asked \ {<<o, l>>}
  /\ broker' = [broker EXCEPT ![o] = IF Working(o, l) THEN Left(o, WithParent(o, l), "cancelled") ELSE @]
  /\ IF Working(o, l) THEN Report(o, CancelReports(o, WithParent(o, l))) ELSE UNCHANGED <<wire, blind>>
  /\ UNCHANGED <<portKept, portFaults>>

\* A day order lapses, with the shares it has filled kept and their exits working.
ParentExpires(o) ==
  /\ PortFault("expire") /\ Working(o, "parent")
  /\ broker' = [broker EXCEPT ![o] = Left(o, WithParent(o, "parent"), "cancelled")]
  /\ Report(o, CancelReports(o, WithParent(o, "parent")))
  /\ UNCHANGED <<portKept, asked>>

ParentRejected(o) ==
  /\ PortFault("reject") /\ Working(o, "parent") /\ Held(o) = 0
  /\ broker' = [broker EXCEPT ![o] = Left(o, Legs, "rejected")]
  /\ Report(o, {Status(o, "parent", "Inactive")} \union CancelReports(o, Exits))
  /\ UNCHANGED <<portKept, asked>>

-----------------------------------------------------------------------------
(* The port's handlers                                                     *)

MapIbStatus == [Submitted |-> "working", Filled |-> "filled", Cancelled |-> "cancelled",
                Inactive |-> "rejected"]

\* Mutant: the target filling does not close the bracket.
OnOrderStatusStopOnly(o, l, s) ==
  LET b == book[o]
  IN CASE l = "parent" /\ s = "Filled" /\ b.status = "pending" -> [b EXCEPT !.status = "open", !.entry = "known"]
       [] l = "stop" /\ s = "Filled" -> [b EXCEPT !.status = "closed"]
       [] l = "parent" /\ s = "Cancelled" -> [b EXCEPT !.status = "cancelled"]
       [] OTHER -> b

OnOrderStatus(o, l, s) ==
  LET b      == [book[o] EXCEPT !.legs[l] = MapIbStatus[s]]
      mapped == MapIbStatus[s]
  IN CASE l = "parent" /\ mapped = "filled" /\ b.status = "pending" ->
            [b EXCEPT !.status = "open", !.entry = "known"]
       [] l \in Exits /\ mapped = "filled"       -> [b EXCEPT !.status = "closed"]
       [] l = "parent" /\ mapped = "cancelled"   -> [b EXCEPT !.status = "cancelled"]
       [] OTHER -> b

\* The first execution of the parent gives the entry price and opens the bracket.
OnFill(o) ==
  LET b == book[o]
  IN IF b.entry = "none"
       THEN [b EXCEPT !.entry = "known", !.status = IF @ = "pending" THEN "open" ELSE @]
       ELSE b

\* A report is handled; it may come again.
Delivered(r) ==
  /\ link = "up" /\ r \in wire
  /\ \/ wire' = wire \ {r} /\ UNCHANGED portFaults
     \/ UNCHANGED wire /\ PortFault("repeat")

\* orderIndex knows the orders of the brackets in the book.
HandleStatus(o, l, s) ==
  /\ Delivered(Status(o, l, s))
  /\ book' = IF book[o].status = "none" THEN book ELSE [book EXCEPT ![o] = OnOrderStatus(o, l, s)]
  /\ UNCHANGED <<link, started, nextId, callers, halves, booked, broker, asked, intended,
                 cancels, blind>>

\* Mutant: the fill is emitted with each half.
EmittedAtOnce(x, kind) == kind \in HalfKind

Joined(x, kind) == halves[x] \union {kind} = HalfKind

\* mergeFill keeps the half that came first and emits the fill with the second.
HandleHalf(o, n, kind) ==
  LET x == <<o, n>>
  IN /\ Delivered(Half(o, n, kind))
     /\ IF Joined(x, kind)
          THEN /\ halves' = [halves EXCEPT ![x] = {}]
               /\ IF book[o].status = "none"
                    THEN UNCHANGED <<book, booked>>
                    ELSE /\ book' = [book EXCEPT ![o] = OnFill(o)]
                         /\ booked' = [booked EXCEPT ![x] = @ + 1]
          ELSE halves' = [halves EXCEPT ![x] = @ \union {kind}] /\ UNCHANGED <<book, booked>>
     /\ UNCHANGED <<link, started, nextId, callers, broker, asked, intended, cancels, blind>>

-----------------------------------------------------------------------------
(* The pipeline's other calls                                              *)

\* A changed order reaches a leg that still works.
Resized(o, l, q) ==
  IF link = "up" /\ Working(o, l) THEN [broker[o][l] EXCEPT !.qty = q] ELSE broker[o][l]

ResizedLegs(o, q, resent) == [l \in Legs |-> IF l \in resent THEN Resized(o, l, q) ELSE broker[o][l]]

\* The stop is sent again with the new size, the target only when its price moves.
ModifyBracket(o, q, resent) ==
  /\ book[o].status \in {"open", "pending"} /\ q < book[o].qty
  /\ book' = [book EXCEPT ![o].qty = q]
  /\ intended' = [intended EXCEPT ![o] = q]
  /\ broker' = [broker EXCEPT ![o] = ResizedLegs(o, q, resent)]
  /\ UNCHANGED <<link, started, nextId, callers, halves, booked, wire, asked, cancels,
                 blind, portFaults>>

\* In any status: every leg is asked for and the bracket is cancelled at once.
CancelBracket(o) ==
  /\ book[o].status # "none"
  /\ book' = [book EXCEPT ![o].status = "cancelled"]
  /\ cancels' = cancels \union {o}
  /\ asked' = IF link = "up" THEN asked \union ({o} \X LegsOf(o)) ELSE asked
  /\ UNCHANGED <<link, started, nextId, callers, halves, booked, broker, wire, intended,
                 blind, portFaults>>

LinkStep == NextValidId \/ ConnectFails \/ NetLiquidationConnects \/ Disconnected \/ PortRestarts

CallStep(o) ==
  \/ StartPort(o) \/ PlaceRefused(o) \/ PlaceBracket(o) \/ CancelBracket(o)
  \/ \E q \in 1..Shares[o], resent \in {{"stop"}, Exits} : ModifyBracket(o, q, resent)

BrokerStep(o) ==
  /\ Cardinality(wire) < MaxWire
  /\ \/ \E k \in 1..Shares[o] : ParentFills(o, k)
     \/ \E l \in Exits : ExitFills(o, l)
     \/ \E l \in Legs : BrokerCancels(o, l)
     \/ ParentExpires(o) \/ ParentRejected(o)

HandleStep(o) ==
  \/ \E l \in Legs, s \in DOMAIN MapIbStatus : HandleStatus(o, l, s)
  \/ \E n \in 1..Shares[o], kind \in HalfKind : HandleHalf(o, n, kind)

PortNext == LinkStep \/ \E o \in Orders : CallStep(o) \/ BrokerStep(o) \/ HandleStep(o)

PortSpec == PortInit /\ [][PortNext]_portVars

-----------------------------------------------------------------------------
(* Reconciliation (apps/api/src/execution/ib-reconciliation.ts).  Each     *)
(* order is of a ticker of its own.                                        *)

Listed(o) == IF book[o].status = "open" THEN book[o].qty ELSE 0

LiveStatus == {"pending_submit", "submitted", "working"}

\* What trackedBrackets offers to reconcile: the orders the port believes to work.
KnownOrders ==
  {ol \in Orders \X Legs : /\ book[ol[1]].status \in {"pending", "open"}
                          /\ book[ol[1]].legs[ol[2]] \in LiveStatus}

BrokerOrders == {ol \in Orders \X Legs : Working(ol[1], ol[2])}

OrderMismatches ==
  {[kind |-> "rogue_order", of |-> ol[1]] : ol \in BrokerOrders \ KnownOrders}
    \union {[kind |-> "missing_order", of |-> ol[1]] : ol \in KnownOrders \ BrokerOrders}

\* Mutant: positions of tickers that are not in the books are passed over.
DriftOnly ==
  {[kind |-> "position_drift", of |-> o] : o \in {p \in Orders : Listed(p) # 0 /\ Held(p) # Listed(p)}}

PositionMismatches ==
  {[kind |-> "rogue_position", of |-> o] : o \in {p \in Orders : Held(p) # 0 /\ Listed(p) = 0}}
    \union {[kind |-> "position_drift", of |-> o] :
              o \in {p \in Orders : Listed(p) # 0 /\ Held(p) # Listed(p)}}

-----------------------------------------------------------------------------
(* Correctness                                                             *)

\* Every variable keeps its type.
PortTypeOK ==
  /\ link \in {"none", "opening", "up", "down"}
  /\ started \in {"no", "yes"} /\ nextId \in {"none", "seeded"}
  /\ callers \in [Orders -> {"idle", "connecting", "placed", "failed"}]
  /\ book \in [Orders -> [status : {"none", "pending", "open", "closed", "cancelled"}, qty : Nat,
                          entry : {"none", "known"},
                          legs : [Legs -> LiveStatus \union {"none", "filled", "cancelled", "rejected"}]]]
  /\ halves \in [Executions -> SUBSET HalfKind] /\ booked \in [Executions -> Nat]
  /\ broker \in [Orders -> [Legs -> [at : {"none", "working", "filled", "cancelled", "rejected"},
                                    qty : Nat, filled : Nat]]]
  /\ asked \subseteq Orders \X Legs
  /\ intended \in [Orders -> Nat] /\ cancels \subseteq Orders /\ blind \subseteq Orders
  /\ portFaults \in Nat

Quiet(o) == o \notin blind /\ \A r \in wire : r.of[1] # o

Shed(o) == Shares[o] - intended[o]

\* An open bracket has its entry price, whichever of the order status and the execution
\* opened it: getPositions would throw for every strategy without one.  Once every report
\* of a bracket was handled an open one stands for shares really held, a pending one for
\* none, and a closed one leaves at most what resizes shed.
BookMatchesBroker ==
  \A o \in Orders :
    /\ book[o].status = "open" => book[o].entry = "known"
    /\ Quiet(o) =>
         /\ book[o].status = "open"    => Held(o) \in 1..(book[o].qty + Shed(o))
         /\ book[o].status = "pending" => Held(o) = 0
         /\ book[o].status = "closed"  => Held(o) <= Shed(o)

\* mergeFill: whichever half comes first, a fill is booked once the halves are handled, and
\* not again unless they are both repeated.
FillsBookedOnce ==
  \A x \in Executions :
    /\ booked[x] <= 1 + MaxPortFaults - portFaults
    /\ Quiet(x[1]) /\ broker[x[1]]["parent"].filled = x[2] => booked[x] > 0

Covered(o) ==
  LET stop == broker[o]["stop"]
  IN IF ~Working(o, "stop") THEN 0 ELSE IF stop.qty < Held(o) THEN stop.qty ELSE Held(o)

\* The header of ib-execution-port.ts: the exits live at the broker and survive.  Through
\* lost links, restarts, lapsed and rejected orders, the shares no stop covers are those
\* that resizes shed, or belong to a bracket that was told to cancel.
NakedWereShed == \A o \in Orders \ cancels : Held(o) - Covered(o) <= Shed(o)

\* reconcile, were it called at any moment, would name every ticker with shares that no
\* stop covers, by its position or by its orders.
NakedIsReported ==
  \A o \in Orders :
    Held(o) > Covered(o) => \E m \in PositionMismatches \union OrderMismatches : m.of = o
=============================================================================
