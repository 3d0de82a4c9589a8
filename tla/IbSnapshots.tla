---------------------------- MODULE IbSnapshots ----------------------------
(***************************************************************************)
(* The one-shot snapshots of the order gateway (ib-order-gateway.ts:       *)
(* positions, open orders, net liquidation).  A request adds a waiter and  *)
(* starts a stream; rows collect in one buffer whoever asked, and the end  *)
(* of any stream answers every waiter with all of it.  Rows also come      *)
(* unasked: the broker reports orders as they change, and the subscription *)
(* to positions is never cancelled.  Nothing answers when the link goes    *)
(* down, and rows of a stream it cut stay in the buffer.                   *)
(***************************************************************************)
EXTENDS Naturals, Sequences

CONSTANTS
  Readers,      \* the callers, each with one request
  Rows,         \* orders or positions there may be
  Gone,         \* the last of the versions a row goes through, 0 before it is there
  MaxCuts,      \* bound on the times the link goes down
  MaxUnasked    \* bound on the times a row comes unasked

VARIABLES
  api,       \* "none" before the first connect, then "up" or "down"
  now,       \* at the broker: row -> its version
  newest,    \* version of each row that came over the link last
  streams,   \* of the snapshots the broker still has to end, the versions when asked
  sent,      \* rows the first of them has passed
  buf,       \* positionsBuf, openOrdersBuf: row -> times it is there, its last version
  waiters,   \* positionsWaiters, openOrdersWaiters
  batch,     \* reader -> the answer its promise resolved with, if any
  cuts,      \* times the link went down
  unasked    \* row -> times it came unasked

snapVars == <<api, now, newest, streams, sent, buf, waiters, batch, cuts, unasked>>

ASSUME SnapshotAssumption ==
  Rows \in Nat /\ Gone \in Nat \ {0} /\ MaxCuts \in Nat /\ MaxUnasked \in Nat

Versions == [1..Rows -> 0..Gone]

NoRows == [r \in 1..Rows |-> [copies |-> 0, last |-> 0]]

\* The broker has the row.
There(version) == version # 0 /\ version # Gone

SnapInit ==
  /\ api = "none" /\ streams = <<>> /\ sent = 0
  /\ now = [r \in 1..Rows |-> 0] /\ newest = now
  /\ buf = NoRows
  /\ waiters = {}
  /\ batch = [p \in Readers |-> {}]
  /\ cuts = 0 /\ unasked = [r \in 1..Rows |-> 0]

\* connect; a link that is back serves nothing that was asked before.
SnapConnects ==
  /\ api \in {"none", "down"}
  /\ api' = "up"
  /\ UNCHANGED <<now, newest, streams, sent, buf, waiters, batch, cuts, unasked>>

\* An order is placed, changes its status or is done; a position opens, changes or closes.
RowChanges(r) ==
  /\ now[r] < Gone
  /\ now' = [now EXCEPT ![r] = @ + 1]
  /\ UNCHANGED <<api, newest, streams, sent, buf, waiters, batch, cuts, unasked>>

\* fetchPositions rejects without an api; on a dead link the request is lost.
Fetch(p) ==
  /\ batch[p] = {} /\ p \notin waiters /\ api # "none"
  /\ waiters' = waiters \union {p}
  /\ streams' = IF api = "up" THEN Append(streams, now) ELSE streams
  /\ UNCHANGED <<api, now, newest, sent, buf, batch, cuts, unasked>>

\* position, openOrder, accountSummary: pushed to the buffer, whoever asked or nobody.  The
\* link keeps the order the broker sent in.
Receives(r, version) ==
  /\ newest[r] <= version /\ version <= now[r]
  /\ newest' = [newest EXCEPT ![r] = version]
  /\ buf' = [buf EXCEPT ![r] = [copies |-> @.copies + 1, last |-> version]]

\* The snapshot's next row, as it was when asked for or later.
RowArrives ==
  LET r == sent + 1
  IN /\ streams # <<>> /\ sent < Rows
     /\ \E version \in 0..Gone :
          There(version) /\ Head(streams)[r] <= version /\ Receives(r, version)
     /\ sent' = r
     /\ UNCHANGED <<api, now, streams, waiters, batch, cuts, unasked>>

\* It is passed over only where the broker did not have it all the while.
RowPassedOver ==
  LET r == sent + 1
  IN /\ streams # <<>> /\ sent < Rows
     /\ ~There(Head(streams)[r]) \/ ~There(now[r])
     /\ sent' = r
     /\ UNCHANGED <<api, now, newest, streams, buf, waiters, batch, cuts, unasked>>

RowComesUnasked(r) ==
  /\ api = "up" /\ unasked[r] < MaxUnasked
  /\ \E version \in 1..Gone : Receives(r, version)
  /\ unasked' = [unasked EXCEPT ![r] = @ + 1]
  /\ UNCHANGED <<api, now, streams, sent, waiters, batch, cuts>>

Answered(p) == IF p \in waiters THEN {[rows |-> buf, asOf |-> Head(streams)]} ELSE batch[p]

\* Mutant: the buffer is emptied when a request is made, not when a stream ends.
EndKeepsRows ==
  /\ streams # <<>> /\ sent = Rows
  /\ sent' = 0 /\ streams' = Tail(streams)
  /\ batch' = [p \in Readers |-> Answered(p)]
  /\ waiters' = {}
  /\ UNCHANGED <<api, now, newest, buf, cuts, unasked>>

\* positionEnd, openOrderEnd, accountSummaryEnd.
EndArrives ==
  /\ streams # <<>> /\ sent = Rows
  /\ sent' = 0 /\ streams' = Tail(streams)
  /\ batch' = [p \in Readers |-> Answered(p)]
  /\ buf' = NoRows
  /\ waiters' = {}
  /\ UNCHANGED <<api, now, newest, cuts, unasked>>

SnapCut ==
  /\ api = "up" /\ cuts < MaxCuts
  /\ api' = "down" /\ cuts' = cuts + 1
  /\ streams' = <<>> /\ sent' = 0
  /\ UNCHANGED <<now, newest, buf, waiters, batch, unasked>>

SnapNext ==
  \/ SnapConnects \/ RowArrives \/ RowPassedOver \/ EndArrives \/ SnapCut
  \/ \E p \in Readers : Fetch(p)
  \/ \E r \in 1..Rows : RowChanges(r) \/ RowComesUnasked(r)

SnapSpec == SnapInit /\ [][SnapNext]_snapVars

-----------------------------------------------------------------------------
(* Correctness                                                             *)

Buffers == [1..Rows -> [copies : Nat, last : 0..Gone]]

SnapTypeOK ==
  /\ api \in {"none", "up", "down"} /\ streams \in Seq(Versions) /\ sent \in 0..Rows
  /\ now \in Versions /\ newest \in Versions /\ buf \in Buffers
  /\ batch \in [Readers -> SUBSET [rows : Buffers, asOf : Versions]]
  /\ waiters \subseteq Readers /\ cuts \in Nat /\ unasked \in [1..Rows -> Nat]

\* However requests overlap, whoever is answered gets every row the broker had when the
\* stream that answers was asked for and still has, last as it was then or later; and a row
\* twice only when the link went down before, or it came unasked.  The first request of
\* several is meant: the others are answered with it.
SnapshotWhole ==
  \A p \in Readers : \A a \in batch[p] : \A r \in 1..Rows :
    /\ There(a.asOf[r]) /\ There(now[r]) => a.rows[r].copies >= 1 /\ a.rows[r].last >= a.asOf[r]
    /\ a.rows[r].copies <= 1 + cuts + unasked[r]
=============================================================================
