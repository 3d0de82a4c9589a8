----------------------------- MODULE EdgeProofs -----------------------------
(***************************************************************************)
(* Proofs about the edges of the process, one component after the other.   *)
(* Feed: the connection is never left without a client or a timer, and no  *)
(* candle is written under an item it is not of, for any tickers, items,   *)
(* retries and reconnects.  IbSnapshots: whoever asks for positions or     *)
(* orders is answered with all of them, however the requests overlap and   *)
(* the link goes down.  Uptime: for any number of ticks, the operator was  *)
(* told of exactly what fires as long as no tick overlaps another and      *)
(* Telegram takes the messages.  Console: whatever edits run beside each   *)
(* other, a strategy climbs a rung only with a note and trades closed on   *)
(* the rung it leaves, unless another write overtook the edit, and it      *)
(* never reaches LIVE.                                                     *)
(***************************************************************************)
EXTENDS MCEdges, Sums

-----------------------------------------------------------------------------
(* The backfill's place in its items                                       *)

RunnerInv ==
  /\ runner \in [pc : {"start", "wait link", "next", "slot", "asked", "backoff", "done"},
                 item : 0..LastItem, attempt : 0..MaxRetries, req : Nat]
  /\ reqSeq \in Nat

\* All steps but these leave the runner and the request ids where they are.
LEMMA RunnerMoves ==
  [FeedNext]_feedVars =>
    \/ UNCHANGED <<runner, reqSeq>>
    \/ Start \/ Connected \/ WaitTimesOut \/ NextItem \/ BackfillDone \/ RunTask \/ RequestTimesOut
    \/ \E a \in answers :
         \/ HistoricalEnd(a)
         \/ \E err \in Errors : RequestError(a, err)
  BY DEF FeedNext, feedVars, backfillVars, connectionVars, BackfillStep, GatewayDisconnected,
         ReconnectTimerFires, Destroy, ClientHistoricalData, HistoricalData, RealtimeBar

LEMMA OneMore == \A n \in Nat : \A k \in 0..n : k < n => k + 1 \in 0..n /\ 0 \in 0..n
  OBVIOUS

LEMMA RunnerInit == FeedInit => RunnerInv
  BY FeedAssumption DEF FeedInit, ServiceInit, RunnerInv

LEMMA ItemEndsTyped ==
  ASSUME RunnerInv, NEW how, ItemEnds(how), UNCHANGED reqSeq
  PROVE  RunnerInv' /\ runner'.pc = "next" /\ runner'.item = runner.item
  BY DEF RunnerInv, ItemEnds

LEMMA RunnerStep == RunnerInv /\ [FeedNext]_feedVars => RunnerInv'
<1> SUFFICES ASSUME RunnerInv, [FeedNext]_feedVars PROVE RunnerInv'
  OBVIOUS
<1>1. CASE UNCHANGED <<runner, reqSeq>>
  BY <1>1 DEF RunnerInv
<1>2. CASE Start
  BY <1>2 DEF Start, RunnerInv
<1>3. CASE Connected
  BY <1>3 DEF Connected, RunnerInv
<1>4. CASE WaitTimesOut
  BY <1>4 DEF WaitTimesOut, RunnerInv
<1>5. CASE NextItem
  <2>4. runner.item \in 0..LastItem /\ runner.item < LastItem
    BY <1>5 DEF NextItem, RunnerInv
  <2>1. runner.item + 1 \in 0..LastItem /\ 0 \in 0..MaxRetries
    BY <2>4, FeedAssumption, OneMore
  <2>2. runner' = [pc |-> "slot", item |-> runner.item + 1, attempt |-> 0, req |-> 0]
    BY <1>5 DEF NextItem, Enqueue
  <2>3. reqSeq' \in Nat
    BY <1>5 DEF NextItem, RunnerInv
  <2> QED BY <2>1, <2>2, <2>3 DEF RunnerInv
<1>6. CASE BackfillDone
  BY <1>6 DEF BackfillDone, RunnerInv
<1>7. CASE RunTask
  <2>1. CASE connected = "yes"
    <3>1. runner' = [runner EXCEPT !.pc = "asked", !.req = reqSeq]
      BY <1>7, <2>1 DEF RunTask
    <3>2. runner' = [pc |-> "asked", item |-> runner.item, attempt |-> runner.attempt, req |-> reqSeq]
      BY <3>1 DEF RunnerInv
    <3>3. reqSeq' \in Nat
      <4>1. reqSeq' = reqSeq + 1
        BY <1>7, <2>1 DEF RunTask, NextReqId
      <4>2. reqSeq \in Nat
        BY DEF RunnerInv
      <4> QED BY <4>1, <4>2
    <3> QED BY <3>2, <3>3 DEF RunnerInv
  <2>2. CASE connected # "yes"
    BY <1>7, <2>2, ItemEndsTyped DEF RunTask
  <2> QED BY <2>1, <2>2
<1>8. CASE RequestTimesOut
  BY <1>8, ItemEndsTyped DEF RequestTimesOut
<1>9. ASSUME NEW a \in answers, HistoricalEnd(a) PROVE RunnerInv'
  BY <1>9, ItemEndsTyped, <1>1 DEF HistoricalEnd, WriteCandles
<1>10. ASSUME NEW a \in answers, NEW err \in Errors, RequestError(a, err) PROVE RunnerInv'
  <2>1. CASE UNCHANGED runner
    BY <1>10, <2>1 DEF RequestError, RunnerInv
  <2>2. CASE runner' = [runner EXCEPT !.pc = "backoff", !.attempt = @ + 1] /\ runner.attempt < MaxRetries
    <3>1. runner.attempt + 1 \in 0..MaxRetries
      <4>1. runner.attempt \in 0..MaxRetries
        BY DEF RunnerInv
      <4> QED BY <4>1, <2>2, FeedAssumption, OneMore
    <3>2. runner' = [pc |-> "backoff", item |-> runner.item, attempt |-> runner.attempt + 1, req |-> runner.req]
      BY <2>2 DEF RunnerInv
    <3>3. reqSeq' = reqSeq
      BY <1>10 DEF RequestError
    <3> QED BY <3>1, <3>2, <3>3 DEF RunnerInv
  <2>3. CASE ItemEnds("failed")
    BY <1>10, <2>3, ItemEndsTyped DEF RequestError
  <2> QED BY <1>10, <2>1, <2>2, <2>3 DEF RequestError
<1> QED
  BY RunnerMoves, <1>1, <1>2, <1>3, <1>4, <1>5, <1>6, <1>7, <1>8, <1>9, <1>10

-----------------------------------------------------------------------------
(* The connection                                                          *)

\* A socket on its way up has no timer beside it; a stopped connection has no client,
\* and one not started yet is as it was made.
LinkInv ==
  /\ sock \in [Clients -> {"none", "opening", "up", "dead"}]
  /\ client \in 0..LastClient
  /\ connected \in {"no", "yes"} /\ closedByUser \in {"no", "yes"} /\ timer \in {"off", "on"}
  /\ subscribed \in [Clients -> SUBSET Tickers]
  /\ role \in {"api", "backfill"}
  /\ closedByUser = "yes" => client = 0 /\ timer = "off" /\ connected = "no"
  /\ runner.pc = "start" => closedByUser = "no" /\ client = 0 /\ timer = "off" /\ connected = "no"
  /\ timer = "on" => connected = "no" /\ client # 0 /\ sock[client] # "opening"

LInv == RunnerInv /\ LinkInv /\ NeverStranded

LEMMA LinkInit == FeedInit => LInv
  BY RunnerInit, FeedAssumption DEF FeedInit, ConnectionInit, ServiceInit, LInv, LinkInv, NeverStranded, Clients

\* A client is opened only when none is connected.
LEMMA OpenHolds ==
  ASSUME LInv, OpenClient, UNCHANGED <<role, connected, closedByUser, subscribed>>,
         connected = "no", closedByUser = "no", runner'.pc # "start"
  PROVE  LinkInv' /\ NeverStranded'
<1>1. PICK how \in {"opening", "dead"} :
        /\ how = "dead" => client' < LastClient
        /\ sock' = [c \in Clients |-> CASE c = client' -> how
                                        [] c = client /\ connected = "yes" -> "dead"
                                        [] OTHER -> sock[c]]
        /\ timer' = IF how = "dead" THEN "on" ELSE "off"
  BY DEF OpenClient
<1>2. client' \in Clients /\ client' = client + 1 /\ client' # 0
  BY FeedAssumption DEF OpenClient, LInv, LinkInv, Clients
<1>3. sock'[client'] = how
  BY <1>1, <1>2
<1>4. sock' \in [Clients -> {"none", "opening", "up", "dead"}]
  BY <1>1 DEF LInv, LinkInv
<1>5. client' \in 0..LastClient
  BY <1>2, FeedAssumption DEF Clients
<1>6. timer' \in {"off", "on"} /\ (timer' = "on" => sock'[client'] # "opening")
      /\ (timer' = "on" \/ sock'[client'] = "opening")
  BY <1>1, <1>3
<1>7. LinkInv'
  BY <1>2, <1>4, <1>5, <1>6 DEF LInv, LinkInv
<1>8. NeverStranded'
  BY <1>2, <1>6 DEF NeverStranded
<1> QED BY <1>7, <1>8

LEMMA StopHolds ==
  ASSUME LInv, StopConnection, UNCHANGED role, runner'.pc # "start"
  PROVE  LinkInv' /\ NeverStranded'
<1>1. sock' \in [Clients -> {"none", "opening", "up", "dead"}]
  BY DEF StopConnection, LInv, LinkInv
<1> QED BY <1>1, FeedAssumption DEF StopConnection, LInv, LinkInv, NeverStranded

LEMMA ConnectedHolds == LInv /\ Connected => LinkInv' /\ NeverStranded'
<1> SUFFICES ASSUME LInv, Connected PROVE LinkInv' /\ NeverStranded'
  OBVIOUS
<1>1. client \in Clients /\ client' = client /\ connected' = "yes" /\ timer' = timer /\ role' = role
      /\ closedByUser' = closedByUser
  <2>1. client # 0 /\ client' = client /\ connected' = "yes" /\ timer' = timer /\ role' = role
        /\ closedByUser' = closedByUser
    BY DEF Connected
  <2>2. client \in 0..LastClient
    BY DEF LInv, LinkInv
  <2> QED BY <2>1, <2>2, FeedAssumption DEF Clients
<1>2. sock' \in [Clients -> {"none", "opening", "up", "dead"}] /\ sock'[client] = "up"
  BY FeedAssumption, <1>1 DEF Connected, LInv, LinkInv
<1>3. /\ subscribed' \in [Clients -> SUBSET Tickers]
      /\ role = "api" => subscribed'[client] = Tickers
  BY <1>1 DEF Connected, LInv, LinkInv, SubscribeConfiguredTickers
<1>4. runner'.pc # "start" /\ timer = "off" /\ closedByUser = "no"
  BY <1>1 DEF Connected, LInv, RunnerInv, LinkInv, Clients
<1> QED BY <1>1, <1>2, <1>3, <1>4 DEF LInv, RunnerInv, LinkInv, NeverStranded, Clients

LEMMA DisconnectedHolds == LInv /\ GatewayDisconnected => LinkInv' /\ NeverStranded'
<1> SUFFICES ASSUME LInv, GatewayDisconnected PROVE LinkInv' /\ NeverStranded'
  OBVIOUS
<1>1. client \in Clients /\ client # 0 /\ client' = client
  BY FeedAssumption DEF GatewayDisconnected, Clients
<1>2. sock' \in [Clients -> {"none", "opening", "up", "dead"}] /\ sock'[client] = "dead"
  BY <1>1 DEF GatewayDisconnected, LInv, LinkInv
<1>3. subscribed' \in [Clients -> SUBSET Tickers]
  BY <1>1 DEF GatewayDisconnected, LInv, LinkInv
<1> QED BY <1>1, <1>2, <1>3 DEF GatewayDisconnected, ScheduleReconnect, LInv, LinkInv, NeverStranded

\* A step that leaves the connection alone, of a process that was started.
LEMMA LinkKept ==
  ASSUME LInv, UNCHANGED <<role, connectionVars>>, runner'.pc = "start" => runner.pc = "start"
  PROVE  LinkInv' /\ NeverStranded'
  BY DEF LInv, RunnerInv, LinkInv, NeverStranded, connectionVars

LEMMA LinkStep == LInv /\ [FeedNext]_feedVars => LInv'
<1> SUFFICES ASSUME LInv, [FeedNext]_feedVars PROVE LinkInv' /\ NeverStranded'
  BY RunnerStep DEF LInv
<1>1. CASE Start
  <2>1. runner'.pc # "start"
    BY <1>1 DEF Start, LInv, RunnerInv
  <2> QED BY <1>1, <2>1, OpenHolds DEF Start, LInv, LinkInv
<1>2. CASE Connected
  BY <1>2, ConnectedHolds
<1>3. CASE GatewayDisconnected
  BY <1>3, DisconnectedHolds
<1>4. CASE ReconnectTimerFires
  <2>1. runner'.pc # "start" /\ connected = "no"
    BY <1>4 DEF ReconnectTimerFires, backfillVars, LInv, LinkInv
  <2> QED BY <1>4, <2>1, OpenHolds DEF ReconnectTimerFires
<1>5. CASE Destroy
  <2>1. runner'.pc # "start"
    BY <1>5 DEF Destroy, backfillVars
  <2> QED BY <1>5, <2>1, StopHolds DEF Destroy
<1>6. CASE WaitTimesOut
  <2>1. runner'.pc # "start"
    BY <1>6 DEF WaitTimesOut, LInv, RunnerInv
  <2> QED BY <1>6, <2>1, StopHolds DEF WaitTimesOut
<1>7. CASE BackfillDone
  <2>1. runner'.pc # "start"
    BY <1>7 DEF BackfillDone, LInv, RunnerInv
  <2> QED BY <1>7, <2>1, StopHolds DEF BackfillDone
<1>8. CASE NextItem
  BY <1>8, LinkKept DEF NextItem, Enqueue
<1>9. CASE RunTask
  BY <1>9, LinkKept DEF RunTask, ItemEnds, LInv, RunnerInv
<1>10. CASE RequestTimesOut
  BY <1>10, LinkKept DEF RequestTimesOut, ItemEnds, LInv, RunnerInv
<1>11. ASSUME NEW a \in answers, NEW bar \in BarShapes, ClientHistoricalData(a, bar) PROVE LinkInv' /\ NeverStranded'
  <2>1. HistoricalEnd(a) \/ HistoricalData(a, bar)
    BY <1>11 DEF ClientHistoricalData
  <2>2. UNCHANGED <<role, connectionVars>>
    BY <2>1 DEF HistoricalEnd, HistoricalData
  <2>3. runner'.pc = "start" => runner.pc = "start"
    BY <2>1 DEF HistoricalEnd, HistoricalData, WriteCandles, ItemEnds, LInv, RunnerInv
  <2> QED BY <2>2, <2>3, LinkKept
<1>12. ASSUME NEW a \in answers, NEW err \in Errors, RequestError(a, err) PROVE LinkInv' /\ NeverStranded'
  BY <1>12, LinkKept DEF RequestError, ItemEnds, LInv, RunnerInv
<1>13. ASSUME NEW t \in Tickers, NEW bar \in BarShapes, RealtimeBar(t, bar) PROVE LinkInv' /\ NeverStranded'
  BY <1>13, LinkKept DEF RealtimeBar
<1>14. CASE UNCHANGED feedVars
  BY <1>14, LinkKept DEF feedVars, connectionVars
<1> QED
  BY <1>1, <1>2, <1>3, <1>4, <1>5, <1>6, <1>7, <1>8, <1>9, <1>10, <1>11, <1>12, <1>13, <1>14
  DEF FeedNext, BackfillStep

\* A feed that was started and not stopped is up, on its way up or has its timer set;
\* one that was stopped has none.
THEOREM ConnectionKept == FeedSpec => []NeverStranded
<1>1. LInv => NeverStranded
  BY DEF LInv
<1> QED BY <1>1, LinkInit, LinkStep, PTL DEF FeedSpec

-----------------------------------------------------------------------------
(* Whose candles                                                           *)

\* At most one request is pending: the one the backfill awaits, with its own candles.
PendInv ==
  \A r \in DOMAIN pending :
    /\ runner.pc = "asked" /\ r = runner.req /\ r < reqSeq
    /\ pending[r].item = runner.item
    /\ pending[r].rows \subseteq {runner.item}

\* An answer bears an id that was given out, and is of the item that id was given to.
AnswInv ==
  \A a \in answers :
    /\ a.req \in Nat /\ a.req < reqSeq
    /\ a.req \in DOMAIN pending => a.item = pending[a.req].item

StoreInv == DOMAIN stored = Items /\ NoForeignRows

AInv == RunnerInv /\ PendInv /\ AnswInv /\ StoreInv

LEMMA AskInit == FeedInit => AInv
  BY RunnerInit DEF FeedInit, ServiceInit, AInv, PendInv, AnswInv, StoreInv, NoForeignRows

\* Steps that neither ask nor answer: a runner that waits is left where it is.
LEMMA AskKept ==
  ASSUME AInv, UNCHANGED <<reqSeq, pending, stored>>, answers' \subseteq answers,
         runner' = runner \/ runner.pc # "asked"
  PROVE  PendInv' /\ AnswInv' /\ StoreInv'
<1>1. PendInv'
  BY DEF AInv, PendInv
<1>2. AnswInv'
  BY DEF AInv, AnswInv
<1>3. StoreInv'
  BY DEF AInv, StoreInv, NoForeignRows
<1> QED BY <1>1, <1>2, <1>3

\* Once the request is dropped nothing is pending.
LEMMA DropEmpties ==
  ASSUME AInv, NEW r, r \in DOMAIN pending \/ r = runner.req, Drop(r)
  PROVE  DOMAIN pending' = {}
  BY DEF AInv, PendInv, Drop

LEMMA NothingPending ==
  ASSUME AInv, DOMAIN pending' = {}, answers' \subseteq answers, reqSeq' = reqSeq
  PROVE  PendInv' /\ AnswInv'
  BY DEF AInv, PendInv, AnswInv

LEMMA AsksHold ==
  ASSUME AInv, SlotComes, Ask(reqSeq, runner.item), UNCHANGED stored,
         answers' = answers \union {[req |-> reqSeq, item |-> runner.item]},
         runner' = [pc |-> "asked", item |-> runner.item, attempt |-> runner.attempt, req |-> reqSeq],
         reqSeq' = reqSeq + 1
  PROVE  PendInv' /\ AnswInv' /\ StoreInv'
<1>1. reqSeq \in Nat /\ reqSeq < reqSeq'
  <2>1. reqSeq \in Nat
    BY DEF AInv, RunnerInv
  <2> QED BY <2>1
<1>2. DOMAIN pending = {}
  BY DEF AInv, PendInv, SlotComes
<1>3. DOMAIN pending' = {reqSeq} /\ pending'[reqSeq] = [item |-> runner.item, rows |-> {}]
  BY <1>2 DEF Ask
<1>4. PendInv'
  BY <1>1, <1>3 DEF PendInv
<1>5. AnswInv'
  <2> SUFFICES ASSUME NEW a \in answers'
               PROVE  a.req \in Nat /\ a.req < reqSeq' /\ (a.req \in DOMAIN pending' => a.item = pending'[a.req].item)
    BY DEF AnswInv
  <2>1. CASE a \in answers
    <3>1. a.req \in Nat /\ a.req < reqSeq
      BY <2>1 DEF AInv, AnswInv
    <3>2. a.req < reqSeq' /\ a.req # reqSeq
      BY <3>1, <1>1
    <3> QED BY <3>1, <3>2, <1>3
  <2>2. CASE a = [req |-> reqSeq, item |-> runner.item]
    BY <2>2, <1>1, <1>3
  <2> QED BY <2>1, <2>2
<1>6. StoreInv'
  BY DEF AInv, StoreInv, NoForeignRows
<1> QED BY <1>4, <1>5, <1>6

LEMMA BarsHold ==
  ASSUME AInv, NEW a, NEW bar, HistoricalData(a, bar)
  PROVE  PendInv' /\ AnswInv' /\ StoreInv'
<1>1. /\ a \in answers /\ a.req \in DOMAIN pending
      /\ pending' = [pending EXCEPT ![a.req] = [item |-> pending[a.req].item,
                                                rows |-> pending[a.req].rows \union {a.item}]]
      /\ UNCHANGED <<runner, reqSeq, answers, stored>>
  BY DEF HistoricalData, Awaited
<1>2. a.item = runner.item
  BY <1>1 DEF AInv, PendInv, AnswInv
<1>3. /\ DOMAIN pending' = DOMAIN pending
      /\ \A r \in DOMAIN pending : pending'[r].item = pending[r].item
                                   /\ pending'[r].rows \subseteq pending[r].rows \union {runner.item}
  BY <1>1, <1>2
<1>4. PendInv'
  BY <1>1, <1>3 DEF AInv, PendInv
<1>5. AnswInv'
  BY <1>1, <1>3 DEF AInv, AnswInv
<1>6. StoreInv'
  BY <1>1 DEF AInv, StoreInv, NoForeignRows
<1> QED BY <1>4, <1>5, <1>6

LEMMA EndsHold ==
  ASSUME AInv, NEW a, HistoricalEnd(a)
  PROVE  PendInv' /\ AnswInv' /\ StoreInv'
<1>1. CASE ~Awaited(a.req)
  BY <1>1, AskKept DEF HistoricalEnd
<1>2. CASE Awaited(a.req)
  <2>1. /\ Drop(a.req) /\ a.req \in DOMAIN pending
        /\ WriteCandles(runner.item, pending[a.req].rows)
        /\ answers' \subseteq answers /\ reqSeq' = reqSeq
    BY <1>2 DEF HistoricalEnd, Awaited
  <2>2. PendInv' /\ AnswInv'
    BY <2>1, DropEmpties, NothingPending
  <2>3. pending[a.req].rows \subseteq {runner.item}
    BY <2>1 DEF AInv, PendInv
  <2>4. stored' = stored \/ stored' = [stored EXCEPT ![runner.item] = stored[runner.item] \union pending[a.req].rows]
    BY <2>1 DEF WriteCandles
  <2>5. DOMAIN stored' = Items /\ \A i \in Items : stored'[i] \subseteq {i}
    BY <2>3, <2>4 DEF AInv, StoreInv, NoForeignRows
  <2> QED BY <2>2, <2>5 DEF StoreInv, NoForeignRows
<1> QED BY <1>1, <1>2

LEMMA AskStep == AInv /\ [FeedNext]_feedVars => AInv'
<1> SUFFICES ASSUME AInv, [FeedNext]_feedVars PROVE PendInv' /\ AnswInv' /\ StoreInv'
  BY RunnerStep DEF AInv
<1>1. CASE RunTask /\ connected = "yes"
  <2>1. runner' = [runner EXCEPT !.pc = "asked", !.req = reqSeq]
    BY <1>1 DEF RunTask
  <2>2. runner' = [pc |-> "asked", item |-> runner.item, attempt |-> runner.attempt, req |-> reqSeq]
    BY <2>1 DEF AInv, RunnerInv
  <2> QED BY <1>1, <2>2, AsksHold DEF RunTask, NextReqId
<1>2. CASE RunTask /\ connected # "yes"
  BY <1>2, AskKept DEF RunTask, SlotComes
<1>3. CASE RequestTimesOut
  <2>1. Drop(runner.req) /\ UNCHANGED <<reqSeq, answers, stored>>
    BY <1>3 DEF RequestTimesOut
  <2>2. StoreInv'
    BY <2>1 DEF AInv, StoreInv, NoForeignRows
  <2> QED BY <2>1, <2>2, DropEmpties, NothingPending
<1>4. ASSUME NEW a \in answers, NEW bar \in BarShapes, ClientHistoricalData(a, bar)
      PROVE  PendInv' /\ AnswInv' /\ StoreInv'
  BY <1>4, BarsHold, EndsHold DEF ClientHistoricalData
<1>5. ASSUME NEW a \in answers, NEW err \in Errors, RequestError(a, err)
      PROVE  PendInv' /\ AnswInv' /\ StoreInv'
  <2>1. CASE ~Awaited(a.req)
    BY <1>5, <2>1, AskKept DEF RequestError
  <2>2. CASE Awaited(a.req)
    <3>1. Drop(a.req) /\ a.req \in DOMAIN pending /\ answers' \subseteq answers /\ UNCHANGED <<reqSeq, stored>>
      BY <1>5, <2>2 DEF RequestError, Awaited
    <3>2. StoreInv'
      BY <3>1 DEF AInv, StoreInv, NoForeignRows
    <3> QED BY <3>1, <3>2, DropEmpties, NothingPending
  <2> QED BY <2>1, <2>2
<1>6. CASE NextItem \/ BackfillDone \/ WaitTimesOut \/ Start
  BY <1>6, AskKept DEF NextItem, BackfillDone, WaitTimesOut, Start
<1>7. CASE Connected
  BY <1>7, AskKept DEF Connected
<1>8. CASE GatewayDisconnected
  BY <1>8, AskKept DEF GatewayDisconnected
<1>9. CASE ReconnectTimerFires \/ Destroy
  BY <1>9, AskKept DEF ReconnectTimerFires, Destroy, backfillVars
<1>10. ASSUME NEW t \in Tickers, NEW bar \in BarShapes, RealtimeBar(t, bar)
       PROVE  PendInv' /\ AnswInv' /\ StoreInv'
  BY <1>10, AskKept DEF RealtimeBar
<1>11. CASE UNCHANGED feedVars
  BY <1>11, AskKept DEF feedVars
<1> QED
  BY <1>1, <1>2, <1>3, <1>4, <1>5, <1>6, <1>7, <1>8, <1>9, <1>10, <1>11 DEF FeedNext, BackfillStep

\* Candles are written under the item they are of, whatever times out, is dropped or
\* comes late.
THEOREM CandlesAreOfTheirItem == FeedSpec => []NoForeignRows
<1>1. AInv => NoForeignRows
  BY DEF AInv, StoreInv
<1> QED BY <1>1, AskInit, AskStep, PTL DEF FeedSpec
-----------------------------------------------------------------------------
(* Snapshots: the buffer against the stream that fills it                  *)

\* What the broker has and what came of it; whoever asked did so at or before now.
BrokerLinkInv ==
  /\ now \in Versions /\ newest \in Versions
  /\ \A r \in 1..Rows : newest[r] <= now[r]
  /\ streams \in Seq(Versions)
  /\ \A i \in 1..Len(streams) : \A r \in 1..Rows : streams[i][r] <= now[r]
  /\ cuts \in Nat /\ unasked \in [1..Rows -> Nat]
  /\ sent \in 0..Rows /\ (streams = <<>> => sent = 0)

\* The rows the current stream has passed are in the buffer once more than what came
\* unasked or was left there by a cut, unless the broker did not have them, and as they
\* were when asked for or later.
BufferInv ==
  /\ buf \in Buffers
  /\ \A r \in 1..Rows :
       /\ buf[r].copies >= 1 => buf[r].last = newest[r]
       /\ r <= sent => buf[r].copies <= 1 + cuts + unasked[r]
       /\ r > sent  => buf[r].copies <= cuts + unasked[r]
       /\ r <= sent /\ There(Head(streams)[r]) /\ There(now[r])
            => buf[r].copies >= 1 /\ buf[r].last >= Head(streams)[r]

\* Of one answer.
AnswerInv(a) ==
  /\ a \in [rows : Buffers, asOf : Versions]
  /\ \A r \in 1..Rows :
       /\ a.asOf[r] <= now[r]
       /\ There(a.asOf[r]) /\ There(now[r])
            => a.rows[r].copies >= 1 /\ a.rows[r].last >= a.asOf[r]
       /\ a.rows[r].copies <= 1 + cuts + unasked[r]

AnswersInv ==
  /\ batch \in [Readers -> SUBSET [rows : Buffers, asOf : Versions]]
  /\ \A p \in Readers : \A a \in batch[p] : AnswerInv(a)

SnapInv == BrokerLinkInv /\ BufferInv /\ AnswersInv

LEMMA SnapsBegin == SnapInit => SnapInv
<1> SUFFICES ASSUME SnapInit PROVE SnapInv
  OBVIOUS
<1> USE SnapshotAssumption
<1>1. now \in Versions /\ newest \in Versions /\ buf \in Buffers
  BY DEF SnapInit, Versions, Buffers, NoRows
<1>2. BrokerLinkInv
  BY <1>1 DEF SnapInit, BrokerLinkInv
<1>3. BufferInv
  BY <1>1 DEF SnapInit, BufferInv, NoRows
<1> QED BY <1>2, <1>3 DEF SnapInit, SnapInv, AnswersInv

\* The head of a sequence of snapshots asked for is one of them.
LEMMA HeadIsAsked ==
  ASSUME BrokerLinkInv, streams # <<>>
  PROVE  Head(streams) \in Versions /\ \A r \in 1..Rows : Head(streams)[r] <= now[r]
<1>1. 1 \in 1..Len(streams) /\ Head(streams) = streams[1]
  BY DEF BrokerLinkInv
<1> QED BY <1>1 DEF BrokerLinkInv

\* Where nothing changes at the broker, and the bounds of a row only rise, answers stay
\* what they are promised to be.
LEMMA AnswersKept ==
  ASSUME SnapInv, UNCHANGED <<now, batch>>, cuts' \in Nat, cuts <= cuts',
         unasked' \in [1..Rows -> Nat], \A r \in 1..Rows : unasked[r] <= unasked'[r]
  PROVE  AnswersInv'
<1> SUFFICES ASSUME NEW p \in Readers, NEW a \in batch[p], NEW r \in 1..Rows
             PROVE  a.rows[r].copies <= 1 + cuts' + unasked'[r]
  BY DEF SnapInv, AnswersInv, AnswerInv
<1>1. AnswerInv(a)
  BY DEF SnapInv, AnswersInv
<1>2. a.rows[r].copies \in Nat /\ a.rows[r].copies <= 1 + cuts + unasked[r]
  BY <1>1 DEF AnswerInv, Buffers
<1>3. cuts \in Nat /\ unasked[r] \in Nat /\ unasked'[r] \in Nat /\ unasked[r] <= unasked'[r]
  BY DEF SnapInv, BrokerLinkInv
<1> QED BY <1>2, <1>3

\* A row the broker had and still has, it has had all the while.
LEMMA RowChangesKeeps == ASSUME SnapInv, NEW q \in 1..Rows, RowChanges(q) PROVE SnapInv'
<1> USE SnapshotAssumption
<1>1. /\ now' \in Versions /\ \A r \in 1..Rows : now[r] <= now'[r]
      /\ \A r \in 1..Rows : now[r] \in 0..Gone /\ now'[r] \in 0..Gone
  <2>1. now \in [1..Rows -> 0..Gone] /\ now[q] + 1 \in 0..Gone
    BY DEF RowChanges, SnapInv, BrokerLinkInv, Versions
  <2>2. \A r \in 1..Rows : now'[r] = IF r = q THEN now[q] + 1 ELSE now[r]
    BY <2>1 DEF RowChanges
  <2>3. now' \in [1..Rows -> 0..Gone]
    BY <2>1 DEF RowChanges
  <2> QED BY <2>1, <2>2, <2>3 DEF Versions
<1>2. ASSUME NEW r \in 1..Rows, NEW v \in 0..Gone, v <= now[r], There(v), There(now'[r])
      PROVE  There(now[r])
  <2>1. now[r] # 0
    BY <1>1, <1>2 DEF There
  <2>2. now[r] # Gone
    <3>1. now[r] <= now'[r] /\ now'[r] \in 0..Gone /\ now'[r] # Gone
      BY <1>1, <1>2 DEF There
    <3> QED BY <1>1, <3>1
  <2> QED BY <2>1, <2>2 DEF There
<1>3. UNCHANGED <<newest, streams, sent, buf, batch, cuts, unasked>>
  BY DEF RowChanges
<1>4. BrokerLinkInv'
  <2>1. ASSUME NEW r \in 1..Rows PROVE newest[r] <= now'[r]
    BY <1>1 DEF SnapInv, BrokerLinkInv, Versions
  <2>2. ASSUME NEW i \in 1..Len(streams), NEW r \in 1..Rows PROVE streams[i][r] <= now'[r]
    <3>1. streams[i] \in Versions /\ streams[i][r] <= now[r]
      BY DEF SnapInv, BrokerLinkInv
    <3> QED BY <1>1, <3>1 DEF Versions
  <2> QED BY <1>1, <1>3, <2>1, <2>2 DEF SnapInv, BrokerLinkInv
<1>5. BufferInv'
  <2> SUFFICES ASSUME NEW r \in 1..Rows, r <= sent, There(Head(streams)[r]), There(now'[r])
               PROVE  buf[r].copies >= 1 /\ buf[r].last >= Head(streams)[r]
    BY <1>3 DEF SnapInv, BufferInv
  <2>1. streams # <<>>
    BY DEF SnapInv, BrokerLinkInv
  <2>2. Head(streams)[r] \in 0..Gone /\ Head(streams)[r] <= now[r]
    BY <2>1, HeadIsAsked DEF SnapInv, Versions
  <2>3. There(now[r])
    BY <1>2, <2>2
  <2> QED BY <2>3 DEF SnapInv, BufferInv
<1>6. AnswersInv'
  <2> SUFFICES ASSUME NEW p \in Readers, NEW a \in batch[p] PROVE AnswerInv(a)'
    BY <1>3 DEF SnapInv, AnswersInv
  <2>1. AnswerInv(a)
    BY DEF SnapInv, AnswersInv
  <2>2. ASSUME NEW r \in 1..Rows
        PROVE  /\ a.asOf[r] <= now'[r]
               /\ There(a.asOf[r]) /\ There(now'[r]) => There(now[r])
    <3>1. a.asOf[r] \in 0..Gone /\ a.asOf[r] <= now[r]
      BY <2>1 DEF AnswerInv, Versions
    <3> QED BY <1>1, <1>2, <3>1
  <2> QED BY <1>3, <2>1, <2>2 DEF AnswerInv
<1> QED BY <1>4, <1>5, <1>6 DEF SnapInv

\* What a row that comes does to the buffer.
LEMMA RowBuffered ==
  ASSUME SnapInv, NEW q \in 1..Rows, NEW v \in 0..Gone, Receives(q, v)
  PROVE  /\ newest' \in Versions /\ \A r \in 1..Rows : newest'[r] <= now[r]
         /\ buf' \in Buffers
         /\ buf'[q].copies = buf[q].copies + 1 /\ buf'[q].last = v /\ newest'[q] = v
         /\ \A r \in 1..Rows \ {q} : buf'[r] = buf[r] /\ newest'[r] = newest[r]
         /\ newest[q] <= v
<1>1. /\ newest \in [1..Rows -> 0..Gone] /\ buf \in [1..Rows -> [copies : Nat, last : 0..Gone]]
      /\ \A r \in 1..Rows : newest[r] <= now[r]
  BY DEF SnapInv, BrokerLinkInv, BufferInv, Versions, Buffers
<1>2. /\ newest[q] <= v /\ v <= now[q] /\ newest' = [newest EXCEPT ![q] = v]
      /\ buf' = [buf EXCEPT ![q] = [copies |-> buf[q].copies + 1, last |-> v]]
  BY DEF Receives
<1>3. [copies |-> buf[q].copies + 1, last |-> v] \in [copies : Nat, last : 0..Gone]
  BY <1>1
<1>4. newest' \in Versions /\ buf' \in Buffers
  BY <1>1, <1>2, <1>3 DEF Versions, Buffers
<1>5. /\ buf'[q] = [copies |-> buf[q].copies + 1, last |-> v] /\ newest'[q] = v
      /\ \A r \in 1..Rows \ {q} : buf'[r] = buf[r] /\ newest'[r] = newest[r]
  BY <1>1, <1>2
<1>6. \A r \in 1..Rows : newest'[r] <= now[r]
  BY <1>1, <1>2, <1>5
<1> QED BY <1>2, <1>4, <1>5, <1>6

LEMMA RowArrivesKeeps == SnapInv /\ RowArrives => SnapInv'
<1> SUFFICES ASSUME SnapInv, RowArrives PROVE SnapInv'
  OBVIOUS
<1> USE SnapshotAssumption
<1> DEFINE q == sent + 1
<1>1. q \in 1..Rows /\ sent \in Nat /\ sent' = q
  BY DEF RowArrives, SnapInv, BrokerLinkInv
<1>2. PICK v \in 0..Gone : Head(streams)[q] <= v /\ Receives(q, v)
  BY DEF RowArrives
<1>3. streams # <<>> /\ UNCHANGED <<now, streams, batch, cuts, unasked>>
  BY DEF RowArrives
<1> HIDE DEF q
<1>4. BrokerLinkInv'
  BY <1>1, <1>2, <1>3, RowBuffered DEF SnapInv, BrokerLinkInv
<1>5. BufferInv'
  <2> SUFFICES ASSUME NEW r \in 1..Rows
               PROVE  /\ buf'[r].copies >= 1 => buf'[r].last = newest'[r]
                      /\ r <= q => buf'[r].copies <= 1 + cuts + unasked[r]
                      /\ r > q  => buf'[r].copies <= cuts + unasked[r]
                      /\ r <= q /\ There(Head(streams)[r]) /\ There(now[r])
                           => buf'[r].copies >= 1 /\ buf'[r].last >= Head(streams)[r]
    BY <1>1, <1>2, <1>3, RowBuffered DEF BufferInv
  <2>1. /\ buf[r].copies \in Nat /\ cuts \in Nat /\ unasked[r] \in Nat
        /\ buf[r].copies >= 1 => buf[r].last = newest[r]
        /\ r <= sent => buf[r].copies <= 1 + cuts + unasked[r]
        /\ r > sent  => buf[r].copies <= cuts + unasked[r]
        /\ r <= sent /\ There(Head(streams)[r]) /\ There(now[r])
             => buf[r].copies >= 1 /\ buf[r].last >= Head(streams)[r]
    BY DEF SnapInv, BrokerLinkInv, BufferInv, Buffers
  <2>2. CASE r = q
    <3>1. buf'[r].copies = buf[r].copies + 1 /\ buf'[r].last = v /\ newest'[r] = v
      BY <1>1, <1>2, <2>2, RowBuffered
    <3>2. r > sent /\ ~(r > q) /\ Head(streams)[r] <= v /\ Head(streams)[r] \in Nat
      BY <1>1, <1>2, <1>3, <2>2, HeadIsAsked DEF q, SnapInv, Versions
    <3> QED BY <2>1, <3>1, <3>2
  <2>3. CASE r # q
    <3>1. buf'[r] = buf[r] /\ newest'[r] = newest[r]
      BY <1>1, <1>2, <2>3, RowBuffered
    <3>2. (r <= q => r <= sent) /\ (r > q => r > sent)
      BY <1>1, <2>3 DEF q
    <3> QED BY <2>1, <3>1, <3>2
  <2> QED BY <2>2, <2>3
<1>6. AnswersInv'
  BY <1>3, AnswersKept DEF SnapInv, BrokerLinkInv
<1> QED BY <1>4, <1>5, <1>6 DEF SnapInv

LEMMA RowPassedKeeps == SnapInv /\ RowPassedOver => SnapInv'
<1> SUFFICES ASSUME SnapInv, RowPassedOver PROVE SnapInv'
  OBVIOUS
<1> USE SnapshotAssumption
<1>1. /\ sent \in Nat /\ sent' = sent + 1 /\ sent' \in 1..Rows /\ streams # <<>>
      /\ UNCHANGED <<now, newest, streams, buf, batch, cuts, unasked>>
      /\ ~There(Head(streams)[sent']) \/ ~There(now[sent'])
  BY DEF RowPassedOver, SnapInv, BrokerLinkInv
<1>2. BrokerLinkInv'
  BY <1>1 DEF SnapInv, BrokerLinkInv
<1>3. BufferInv'
  <2> SUFFICES ASSUME NEW r \in 1..Rows
               PROVE  /\ r <= sent' => buf[r].copies <= 1 + cuts + unasked[r]
                      /\ r > sent'  => buf[r].copies <= cuts + unasked[r]
                      /\ r <= sent' /\ There(Head(streams)[r]) /\ There(now[r])
                           => buf[r].copies >= 1 /\ buf[r].last >= Head(streams)[r]
    BY <1>1 DEF SnapInv, BufferInv
  <2>1. /\ buf[r].copies \in Nat /\ cuts \in Nat /\ unasked[r] \in Nat
        /\ r <= sent => buf[r].copies <= 1 + cuts + unasked[r]
        /\ r > sent  => buf[r].copies <= cuts + unasked[r]
        /\ r <= sent /\ There(Head(streams)[r]) /\ There(now[r])
             => buf[r].copies >= 1 /\ buf[r].last >= Head(streams)[r]
    BY DEF SnapInv, BrokerLinkInv, BufferInv, Buffers
  <2>2. CASE r = sent'
    BY <1>1, <2>1, <2>2
  <2>3. CASE r # sent'
    <3>1. (r <= sent' => r <= sent) /\ (r > sent' => r > sent)
      BY <1>1, <2>3
    <3> QED BY <2>1, <3>1
  <2> QED BY <2>2, <2>3
<1>4. AnswersInv'
  BY <1>1, AnswersKept DEF SnapInv, BrokerLinkInv
<1> QED BY <1>2, <1>3, <1>4 DEF SnapInv

LEMMA UnaskedKeeps == ASSUME SnapInv, NEW q \in 1..Rows, RowComesUnasked(q) PROVE SnapInv'
<1> USE SnapshotAssumption
<1>1. PICK v \in 0..Gone : Receives(q, v)
  BY DEF RowComesUnasked
<1>2. UNCHANGED <<now, streams, sent, batch, cuts>> /\ unasked' = [unasked EXCEPT ![q] = @ + 1]
  BY DEF RowComesUnasked
<1>3. unasked \in [1..Rows -> Nat] /\ unasked' \in [1..Rows -> Nat] /\ cuts \in Nat
  BY <1>2 DEF SnapInv, BrokerLinkInv
<1>4. BrokerLinkInv'
  BY <1>1, <1>2, <1>3, RowBuffered DEF SnapInv, BrokerLinkInv
<1>5. BufferInv'
  <2> SUFFICES ASSUME NEW r \in 1..Rows
               PROVE  /\ buf'[r].copies >= 1 => buf'[r].last = newest'[r]
                      /\ r <= sent => buf'[r].copies <= 1 + cuts + unasked'[r]
                      /\ r > sent  => buf'[r].copies <= cuts + unasked'[r]
                      /\ r <= sent /\ There(Head(streams)[r]) /\ There(now[r])
                           => buf'[r].copies >= 1 /\ buf'[r].last >= Head(streams)[r]
    BY <1>1, <1>2, RowBuffered DEF BufferInv
  <2>1. /\ buf[r].copies \in Nat /\ unasked[r] \in Nat
        /\ buf[r].copies >= 1 => buf[r].last = newest[r]
        /\ r <= sent => buf[r].copies <= 1 + cuts + unasked[r]
        /\ r > sent  => buf[r].copies <= cuts + unasked[r]
        /\ r <= sent /\ There(Head(streams)[r]) /\ There(now[r])
             => buf[r].copies >= 1 /\ buf[r].last >= Head(streams)[r]
    BY DEF SnapInv, BrokerLinkInv, BufferInv, Buffers
  <2>2. CASE r = q
    <3>1. /\ buf'[r].copies = buf[r].copies + 1 /\ buf'[r].last = v /\ newest'[r] = v
          /\ newest[r] <= v /\ newest[r] \in Nat /\ v \in Nat
      BY <1>1, <2>2, RowBuffered DEF SnapInv, BrokerLinkInv, Versions
    <3>2. unasked'[r] = unasked[r] + 1
      BY <1>2, <1>3, <2>2
    <3>3. ASSUME r <= sent PROVE Head(streams)[r] \in Nat
      <4>1. streams # <<>>
        BY <3>3 DEF SnapInv, BrokerLinkInv
      <4>2. Head(streams) \in Versions
        BY <4>1, HeadIsAsked DEF SnapInv
      <4> QED BY <4>2 DEF Versions
    <3>4. /\ r <= sent => buf'[r].copies <= 1 + cuts + unasked'[r]
          /\ r > sent  => buf'[r].copies <= cuts + unasked'[r]
          /\ buf'[r].copies >= 1
      <4> DEFINE had == buf[r].copies
                 has == buf'[r].copies
                 was == unasked[r]
                 is  == unasked'[r]
      <4>1. had \in Nat /\ cuts \in Nat /\ was \in Nat /\ has = had + 1 /\ is = was + 1
        BY <1>3, <2>1, <3>1, <3>2
      <4>2. (r <= sent => had <= 1 + cuts + was) /\ (r > sent => had <= cuts + was)
        BY <2>1
      <4> HIDE DEF had, has, was, is
      <4>3. (had <= 1 + cuts + was => has <= 1 + cuts + is) /\ (had <= cuts + was => has <= cuts + is)
        BY <4>1
      <4>4. has >= 1
        BY <4>1
      <4> QED BY <4>2, <4>3, <4>4 DEF has, is
    <3>5. ASSUME r <= sent, There(Head(streams)[r]), There(now[r])
          PROVE  buf'[r].last >= Head(streams)[r]
      <4>1. newest[r] >= Head(streams)[r]
        BY <2>1, <3>5
      <4> QED BY <3>1, <3>3, <3>5, <4>1
    <3> QED BY <3>1, <3>4, <3>5
  <2>3. CASE r # q
    <3>1. buf'[r] = buf[r] /\ newest'[r] = newest[r] /\ unasked'[r] = unasked[r]
      BY <1>1, <1>2, <1>3, <2>3, RowBuffered
    <3> QED BY <2>1, <3>1
  <2> QED BY <2>2, <2>3
<1>6. AnswersInv'
  <2>1. \A r \in 1..Rows : unasked[r] <= unasked'[r]
    BY <1>2, <1>3
  <2> QED BY <1>2, <1>3, <2>1, AnswersKept
<1> QED BY <1>4, <1>5, <1>6 DEF SnapInv

\* The next stream begins with an empty buffer; whoever waits has all of this one.
LEMMA EndKeeps == SnapInv /\ EndArrives => SnapInv'
<1> SUFFICES ASSUME SnapInv, EndArrives PROVE SnapInv'
  OBVIOUS
<1> USE SnapshotAssumption
<1>1. /\ streams # <<>> /\ sent = Rows /\ sent' = 0 /\ streams' = Tail(streams) /\ buf' = NoRows
      /\ UNCHANGED <<now, newest, cuts, unasked>>
  BY DEF EndArrives
<1>2. BrokerLinkInv'
  <2>1. Tail(streams) \in Seq(Versions)
    BY <1>1 DEF SnapInv, BrokerLinkInv
  <2>2. ASSUME NEW i \in 1..Len(Tail(streams)), NEW r \in 1..Rows
        PROVE  Tail(streams)[i][r] <= now[r]
    <3>1. i + 1 \in 1..Len(streams) /\ Tail(streams)[i] = streams[i + 1]
      BY <1>1 DEF SnapInv, BrokerLinkInv
    <3> QED BY <3>1 DEF SnapInv, BrokerLinkInv
  <2> QED BY <1>1, <2>1, <2>2 DEF SnapInv, BrokerLinkInv
<1>3. BufferInv'
  BY <1>1, <1>2 DEF NoRows, BufferInv, Buffers, BrokerLinkInv
<1>4. AnswersInv'
  <2> DEFINE given == [rows |-> buf, asOf |-> Head(streams)]
  <2>1. AnswerInv(given)
    <3>1. given \in [rows : Buffers, asOf : Versions]
      BY <1>1, HeadIsAsked DEF SnapInv, BufferInv
    <3>2. given.rows = buf /\ given.asOf = Head(streams)
      OBVIOUS
    <3> HIDE DEF given
    <3> QED BY <1>1, <3>1, <3>2, HeadIsAsked DEF SnapInv, BufferInv, AnswerInv
  <2>2. ASSUME NEW a, AnswerInv(a) PROVE AnswerInv(a)'
    BY <1>1, <2>2 DEF AnswerInv
  <2>3. \A p \in Readers : \A a \in batch'[p] : a = given \/ a \in batch[p]
    BY DEF EndArrives, Answered
  <2>4. \A p \in Readers : \A a \in batch'[p] : AnswerInv(a)
    BY <2>1, <2>3 DEF SnapInv, AnswersInv
  <2>5. \A p \in Readers : \A a \in batch'[p] : AnswerInv(a)'
    BY <2>2, <2>4
  <2>6. batch' \in [Readers -> SUBSET [rows : Buffers, asOf : Versions]]
    <3>1. \A p \in Readers : batch'[p] \subseteq [rows : Buffers, asOf : Versions]
      BY <2>4 DEF AnswerInv
    <3>2. batch' = [p \in Readers |-> batch'[p]]
      BY DEF EndArrives
    <3> QED BY <3>1, <3>2
  <2> QED BY <2>5, <2>6 DEF AnswersInv
<1> QED BY <1>2, <1>3, <1>4 DEF SnapInv

LEMMA FetchKeeps == ASSUME SnapInv, NEW p \in Readers, Fetch(p) PROVE SnapInv'
<1>1. UNCHANGED <<now, newest, sent, buf, batch, cuts, unasked>>
  BY DEF Fetch
<1>2. CASE streams' = streams
  BY <1>1, <1>2, AnswersKept DEF SnapInv, BrokerLinkInv, BufferInv, AnswersInv, AnswerInv
<1>3. CASE streams' = Append(streams, now)
  <2>1. BrokerLinkInv'
    <3>1. /\ streams' \in Seq(Versions) /\ Len(streams') = Len(streams) + 1 /\ Len(streams) \in Nat
          /\ \A i \in 1..Len(streams') : streams'[i] = IF i <= Len(streams) THEN streams[i] ELSE now
      BY <1>3 DEF SnapInv, BrokerLinkInv
    <3>2. ASSUME NEW i \in 1..Len(streams'), NEW r \in 1..Rows PROVE streams'[i][r] <= now[r]
      <4>1. CASE i <= Len(streams)
        BY <3>1, <4>1 DEF SnapInv, BrokerLinkInv
      <4>2. CASE ~(i <= Len(streams))
        <5>1. streams'[i] = now
          BY <3>1, <4>2
        <5>2. now \in [1..Rows -> 0..Gone]
          BY DEF SnapInv, BrokerLinkInv, Versions
        <5>3. now[r] \in 0..Gone
          BY <5>2
        <5> QED BY <5>1, <5>3
      <4> QED BY <4>1, <4>2
    <3>3. streams' # <<>>
      BY <3>1
    <3> QED BY <1>1, <3>1, <3>2, <3>3 DEF SnapInv, BrokerLinkInv
  <2>2. ASSUME NEW r \in 1..Rows, r <= sent PROVE Head(streams') = Head(streams)
    <3>1. streams # <<>>
      BY <2>2 DEF SnapInv, BrokerLinkInv
    <3>2. streams \in Seq(Versions) /\ now \in Versions /\ Len(streams) >= 1
      BY <3>1 DEF SnapInv, BrokerLinkInv
    <3>3. Append(streams, now)[1] = streams[1]
      BY <3>2
    <3>4. Head(streams) = streams[1] /\ Head(Append(streams, now)) = Append(streams, now)[1]
      BY <3>2
    <3> QED BY <1>3, <3>3, <3>4
  <2>3. BufferInv'
    BY <1>1, <2>2 DEF SnapInv, BufferInv
  <2>4. AnswersInv'
    BY <1>1, AnswersKept DEF SnapInv, BrokerLinkInv
  <2> QED BY <2>1, <2>3, <2>4 DEF SnapInv
<1> QED BY <1>2, <1>3 DEF Fetch

LEMMA CutKeeps == SnapInv /\ SnapCut => SnapInv'
<1> SUFFICES ASSUME SnapInv, SnapCut PROVE SnapInv'
  OBVIOUS
<1> USE SnapshotAssumption
<1>1. /\ cuts' = cuts + 1 /\ cuts \in Nat /\ streams' = <<>> /\ sent' = 0
      /\ UNCHANGED <<now, newest, buf, batch, unasked>>
  BY DEF SnapCut, SnapInv, BrokerLinkInv
<1>2. BrokerLinkInv'
  BY <1>1 DEF SnapInv, BrokerLinkInv
<1>3. BufferInv'
  <2> SUFFICES ASSUME NEW r \in 1..Rows PROVE buf[r].copies <= cuts' + unasked[r]
    BY <1>1 DEF SnapInv, BufferInv
  <2>1. /\ buf[r].copies \in Nat /\ unasked[r] \in Nat /\ sent \in Nat
        /\ r <= sent => buf[r].copies <= 1 + cuts + unasked[r]
        /\ r > sent  => buf[r].copies <= cuts + unasked[r]
    BY DEF SnapInv, BrokerLinkInv, BufferInv, Buffers
  <2> QED BY <1>1, <2>1
<1>4. AnswersInv'
  BY <1>1, AnswersKept DEF SnapInv, BrokerLinkInv
<1> QED BY <1>2, <1>3, <1>4 DEF SnapInv

LEMMA SnapsStep == SnapInv /\ [SnapNext]_snapVars => SnapInv'
<1> SUFFICES ASSUME SnapInv, [SnapNext]_snapVars PROVE SnapInv'
  OBVIOUS
<1>1. CASE SnapConnects \/ UNCHANGED snapVars
  BY <1>1 DEF SnapConnects, snapVars, SnapInv, BrokerLinkInv, BufferInv, AnswersInv, AnswerInv
<1> QED BY <1>1, RowChangesKeeps, RowArrivesKeeps, RowPassedKeeps, UnaskedKeeps, EndKeeps,
           FetchKeeps, CutKeeps DEF SnapNext

\* Whoever asked for positions or open orders is answered with every row the broker had
\* when the answering stream was asked for and still has, as it was then or later, and with
\* a row twice only after a cut or when it came unasked: for any callers, rows and cuts.
THEOREM SnapshotsAreWhole == SnapSpec => []SnapshotWhole
<1>1. SnapInv => SnapshotWhole
  BY DEF SnapInv, AnswersInv, AnswerInv, SnapshotWhole
<1> QED BY <1>1, SnapsBegin, SnapsStep, PTL DEF SnapSpec

\* What the invariant does not say of types.
Callers == api \in {"none", "up", "down"} /\ waiters \subseteq Readers

LEMMA CallersStep == Callers /\ [SnapNext]_snapVars => Callers'
  BY DEF Callers, SnapNext, snapVars, SnapConnects, RowArrives, RowPassedOver, EndArrives, SnapCut,
         Fetch, RowChanges, RowComesUnasked

\* Every variable of a snapshot keeps its type, for any callers, rows and cuts.
THEOREM SnapTyped == SnapSpec => []SnapTypeOK
<1>1. SnapInit => Callers
  BY DEF SnapInit, Callers
<1>2. SnapInv /\ Callers => SnapTypeOK
  BY DEF SnapInv, BrokerLinkInv, BufferInv, AnswersInv, Callers, SnapTypeOK
<1> QED BY <1>1, <1>2, SnapsBegin, SnapsStep, CallersStep, PTL DEF SnapSpec

-----------------------------------------------------------------------------
(* Feed: types                                                             *)

\* What the connection and the runner do not say of what is asked and written.
AskedTyped ==
  /\ reqSeq \in Nat \ {0} /\ runner.req \in 0..reqSeq
  /\ runner.pc \in {"slot", "asked", "backoff"} => runner.item \in Items
  /\ DOMAIN pending \subseteq 1..reqSeq
  /\ \A r \in DOMAIN pending : pending[r] \in [item : Items, rows : SUBSET Items]
  /\ answers \subseteq [req : 1..reqSeq, item : Items]
  /\ stored \in [Items -> SUBSET Items] /\ outcome \in [Items -> {"none", "written", "failed"}]
  /\ live \subseteq Tickers

FeedTypeInv == LInv /\ AInv /\ AskedTyped

LEMMA AskedTypedInit == FeedInit => AskedTyped
  BY DEF FeedInit, ServiceInit, AskedTyped, Items

\* Steps that ask and write nothing.
LEMMA AskedStays ==
  ASSUME AskedTyped, answers' \subseteq answers, UNCHANGED <<reqSeq, pending, stored, outcome, live>>,
         \/ UNCHANGED runner
         \/ runner' \in [pc : {"wait link", "next", "done"}, item : 0..LastItem,
                         attempt : 0..MaxRetries, req : {runner.req}]
  PROVE  AskedTyped'
  BY DEF AskedTyped

\* An item that ends leaves the request of its task.
LEMMA AskedEnds ==
  ASSUME RunnerInv, AskedTyped, NEW how \in {"written", "failed"}, ItemEnds(how),
         stored' \in [Items -> SUBSET Items], answers' \subseteq answers,
         UNCHANGED pending \/ \E r : Drop(r), UNCHANGED <<reqSeq, live>>
  PROVE  AskedTyped'
<1>1. /\ runner' = [runner EXCEPT !.pc = "next"]
      /\ outcome' \in [Items -> {"none", "written", "failed"}]
  BY DEF ItemEnds, AskedTyped
<1>2. runner'.pc = "next" /\ runner'.req = runner.req
  BY <1>1 DEF RunnerInv
<1>3. /\ DOMAIN pending' \subseteq DOMAIN pending
      /\ \A r \in DOMAIN pending' : pending'[r] = pending[r]
  BY DEF Drop
<1> QED BY <1>1, <1>2, <1>3 DEF AskedTyped

LEMMA RunsTyped ==
  ASSUME RunnerInv, AskedTyped, RunTask
  PROVE  AskedTyped'
<1>1. CASE connected = "yes"
  <2>1. /\ Ask(reqSeq, runner.item) /\ runner' = [runner EXCEPT !.pc = "asked", !.req = reqSeq]
        /\ answers' = answers \union {[req |-> reqSeq, item |-> runner.item]}
        /\ reqSeq' = reqSeq + 1 /\ UNCHANGED <<stored, outcome, live>>
    BY <1>1 DEF RunTask, NextReqId
  <2>2. /\ reqSeq \in Nat \ {0} /\ reqSeq' \in Nat \ {0} /\ reqSeq \in 1..reqSeq'
        /\ \A r \in 1..reqSeq : r \in 1..reqSeq'
    BY <2>1 DEF AskedTyped
  <2>3. runner'.pc = "asked" /\ runner'.req = reqSeq /\ runner'.item = runner.item
    BY <2>1 DEF RunnerInv
  <2>4. runner.item \in Items
    BY DEF RunTask, SlotComes, AskedTyped
  <2>5. /\ DOMAIN pending' \subseteq 1..reqSeq'
        /\ \A r \in DOMAIN pending' : pending'[r] \in [item : Items, rows : SUBSET Items]
    BY <2>1, <2>2, <2>4 DEF Ask, AskedTyped
  <2>6. answers' \subseteq [req : 1..reqSeq', item : Items]
    BY <2>1, <2>2, <2>4 DEF AskedTyped
  <2>7. reqSeq \in 0..reqSeq'
    BY <2>2
  <2> QED BY <2>1, <2>2, <2>3, <2>4, <2>5, <2>6, <2>7 DEF AskedTyped
<1>2. CASE connected # "yes"
  BY <1>2, AskedEnds DEF RunTask, AskedTyped
<1> QED BY <1>1, <1>2

LEMMA BarTyped ==
  ASSUME AskedTyped, NEW a \in answers, NEW bar \in BarShapes, HistoricalData(a, bar)
  PROVE  AskedTyped'
<1>1. a.req \in DOMAIN pending /\ a.item \in Items
  BY DEF HistoricalData, Awaited, AskedTyped
<1>2. /\ DOMAIN pending' = DOMAIN pending
      /\ \A r \in DOMAIN pending : pending'[r] = IF r = a.req
           THEN [item |-> pending[r].item, rows |-> pending[r].rows \union {a.item}] ELSE pending[r]
  BY <1>1 DEF HistoricalData
<1>3. \A r \in DOMAIN pending : pending'[r] \in [item : Items, rows : SUBSET Items]
  BY <1>1, <1>2 DEF AskedTyped
<1> QED BY <1>2, <1>3 DEF HistoricalData, AskedTyped

LEMMA EndTyped ==
  ASSUME RunnerInv, AskedTyped, NEW a \in answers, HistoricalEnd(a)
  PROVE  AskedTyped'
<1>1. answers' \subseteq answers /\ UNCHANGED <<reqSeq, live>>
  BY DEF HistoricalEnd
<1>2. CASE Awaited(a.req)
  <2>1. Drop(a.req) /\ WriteCandles(runner.item, pending[a.req].rows)
    BY <1>2 DEF HistoricalEnd
  <2>2. pending[a.req].rows \subseteq Items
    BY <1>2 DEF Awaited, AskedTyped
  <2>3. stored' \in [Items -> SUBSET Items]
    BY <2>1, <2>2 DEF WriteCandles, AskedTyped
  <2> QED BY <1>1, <2>1, <2>3, AskedEnds DEF WriteCandles
<1>3. CASE ~Awaited(a.req)
  BY <1>1, <1>3, AskedStays DEF HistoricalEnd
<1> QED BY <1>2, <1>3

LEMMA ErrorTyped ==
  ASSUME AInv, AskedTyped, NEW a \in answers, NEW err \in Errors, RequestError(a, err)
  PROVE  AskedTyped'
<1>1. answers' \subseteq answers /\ UNCHANGED <<reqSeq, live, stored>>
  BY DEF RequestError
<1>2. CASE ~Awaited(a.req)
  BY <1>1, <1>2, AskedStays DEF RequestError
<1>3. CASE Awaited(a.req) /\ ItemEnds("failed")
  BY <1>1, <1>3, AskedEnds DEF RequestError, AskedTyped, AInv
<1>4. CASE /\ Awaited(a.req) /\ UNCHANGED outcome /\ runner.attempt < MaxRetries
           /\ runner' = [runner EXCEPT !.pc = "backoff", !.attempt = @ + 1]
  <2>1. runner'.req = runner.req /\ runner'.item = runner.item
    BY <1>4 DEF AInv, RunnerInv
  <2>2. Drop(a.req)
    BY <1>4 DEF RequestError
  <2>3. /\ DOMAIN pending' \subseteq DOMAIN pending
        /\ \A r \in DOMAIN pending' : pending'[r] = pending[r]
    BY <2>2 DEF Drop
  <2>4. runner.item \in Items
    BY <1>4 DEF AInv, PendInv, Awaited, AskedTyped
  <2> QED BY <1>1, <1>4, <2>1, <2>3, <2>4 DEF AskedTyped
<1> QED BY <1>2, <1>3, <1>4 DEF RequestError

LEMMA FeedTypesStep == FeedTypeInv /\ [FeedNext]_feedVars => FeedTypeInv'
<1> SUFFICES ASSUME FeedTypeInv, [FeedNext]_feedVars PROVE AskedTyped'
  BY LinkStep, AskStep DEF FeedTypeInv
<1>1. LInv /\ RunnerInv /\ AInv /\ AskedTyped
  BY DEF FeedTypeInv, LInv
<1>2. CASE Start \/ Connected \/ WaitTimesOut \/ BackfillDone
  <2>1. answers' \subseteq answers /\ UNCHANGED <<reqSeq, pending, stored, outcome, live>>
    BY <1>2 DEF Start, Connected, WaitTimesOut, BackfillDone
  <2>2. runner' = runner \/ \E pc \in {"wait link", "next", "done"} : runner' = [runner EXCEPT !.pc = pc]
    BY <1>2 DEF Start, Connected, WaitTimesOut, BackfillDone
  <2>3. ASSUME NEW pc \in {"wait link", "next", "done"}, runner' = [runner EXCEPT !.pc = pc]
        PROVE  runner' = [pc |-> pc, item |-> runner.item, attempt |-> runner.attempt, req |-> runner.req]
               /\ runner.item \in 0..LastItem /\ runner.attempt \in 0..MaxRetries
    BY <1>1, <2>3 DEF RunnerInv
  <2> QED BY <1>1, <2>1, <2>2, <2>3, AskedStays
<1>3. CASE NextItem
  <2>1. runner.item \in 0..LastItem /\ runner.item < LastItem /\ LastItem \in Nat
    BY <1>1, <1>3, FeedAssumption DEF NextItem, RunnerInv
  <2>2. runner.item + 1 \in Items
    BY <2>1 DEF Items
  <2>3. runner'.pc = "slot" /\ runner'.item \in Items /\ runner'.req = 0
    BY <1>3, <2>2 DEF NextItem, Enqueue
  <2>4. UNCHANGED <<reqSeq, pending, answers, stored, outcome, live>>
    BY <1>3 DEF NextItem
  <2>5. 0 \in 0..reqSeq
    BY <1>1 DEF AskedTyped
  <2> QED BY <1>1, <2>3, <2>4, <2>5 DEF AskedTyped
<1>4. CASE RunTask
  BY <1>1, <1>4, RunsTyped
<1>5. CASE RequestTimesOut
  BY <1>1, <1>5, AskedEnds DEF RequestTimesOut, AskedTyped
<1>6. ASSUME NEW a \in answers, NEW bar \in BarShapes, ClientHistoricalData(a, bar)
      PROVE  AskedTyped'
  BY <1>1, <1>6, BarTyped, EndTyped DEF ClientHistoricalData
<1>7. ASSUME NEW a \in answers, NEW err \in Errors, RequestError(a, err)
      PROVE  AskedTyped'
  BY <1>1, <1>7, ErrorTyped
<1>8. CASE GatewayDisconnected \/ ReconnectTimerFires \/ Destroy \/ UNCHANGED feedVars
  <2>1. answers' \subseteq answers /\ UNCHANGED <<runner, reqSeq, pending, stored, outcome, live>>
    BY <1>8 DEF GatewayDisconnected, ReconnectTimerFires, Destroy, feedVars, backfillVars
  <2> QED BY <1>1, <2>1, AskedStays
<1>9. ASSUME NEW t \in Tickers, NEW bar \in BarShapes, RealtimeBar(t, bar)
      PROVE  AskedTyped'
  BY <1>1, <1>9 DEF RealtimeBar, AskedTyped
<1> QED
  BY <1>2, <1>3, <1>4, <1>5, <1>6, <1>7, <1>8, <1>9 DEF FeedNext, BackfillStep

LEMMA FeedTypesImplied ==
  ASSUME FeedTypeInv
  PROVE  FeedTypeOK
<1> USE DEF FeedTypeInv, LInv, AskedTyped
<1>1. /\ role \in {"api", "backfill"}
      /\ sock \in [Clients -> {"none", "opening", "up", "dead"}]
      /\ client \in 0..LastClient /\ {connected, closedByUser} \subseteq {"no", "yes"}
      /\ timer \in {"off", "on"} /\ subscribed \in [Clients -> SUBSET Tickers]
  BY DEF LinkInv
<1>2. runner \in [pc : {"start", "wait link", "next", "slot", "asked", "backoff", "done"},
                  item : 0..LastItem, attempt : 0..MaxRetries, req : 0..reqSeq]
  <2> HIDE DEF LInv
  <2>1. runner \in [pc : {"start", "wait link", "next", "slot", "asked", "backoff", "done"},
                    item : 0..LastItem, attempt : 0..MaxRetries, req : Nat]
    BY DEF LInv, RunnerInv
  <2>2. runner.req \in 0..reqSeq
    OBVIOUS
  <2>3. ASSUME NEW P, NEW I, NEW A, NEW B, runner \in [pc : P, item : I, attempt : A, req : Nat],
               runner.req \in B
        PROVE  runner \in [pc : P, item : I, attempt : A, req : B]
    BY <2>3
  <2> QED BY <2>1, <2>2, <2>3
<1>3. reqSeq \in Nat
  OBVIOUS
<1> QED BY <1>1, <1>2, <1>3 DEF FeedTypeOK

\* Every variable of the feed keeps its type, for any tickers, items, retries and clients.
THEOREM FeedTyped == FeedSpec => []FeedTypeOK
<1>1. FeedInit => FeedTypeInv
  BY LinkInit, AskInit, AskedTypedInit DEF FeedTypeInv
<1>2. FeedTypeInv => FeedTypeOK
  BY FeedTypesImplied
<1> QED BY <1>1, <1>2, FeedTypesStep, PTL DEF FeedSpec

-----------------------------------------------------------------------------
(* Uptime: types                                                           *)

TickShapes ==
  [pc : {"idle", "probe", "deliver"}, gateway : {"?", "up", "down"},
   age : {"?"} \union Ages, depth : {"?", "low", "high"},
   current : SUBSET AlertKinds, events : SUBSET AlertKinds]

LEMMA TypeInit == UptimeInit => UptimeTypeOK
  BY UptimeAssumption DEF UptimeInit, UptimeTypeOK, NotProbed, Ages

\* The step of one tick leaves the others and gives it a shape of its own.
LEMMA OneTick ==
  ASSUME UptimeTypeOK, NEW t \in Ticks, NEW new \in TickShapes, ticks' = [ticks EXCEPT ![t] = new]
  PROVE  /\ ticks' \in [Ticks -> TickShapes]
         /\ ticks'[t] = new
         /\ \A u \in Ticks : u # t => ticks'[u] = ticks[u]
  BY DEF UptimeTypeOK, TickShapes

LEMMA StartTyped ==
  ASSUME UptimeTypeOK, NEW t \in Ticks, StartTick(t)
  PROVE  /\ UptimeTypeOK'
         /\ ticks'[t].pc = "probe"
         /\ \A u \in Ticks : u # t => ticks'[u] = ticks[u]
<1> DEFINE new == [pc |-> "probe", gateway |-> "?", age |-> "?", depth |-> "?", current |-> {}, events |-> {}]
<1>1. new \in TickShapes
  BY DEF TickShapes
<1>2. [NotProbed EXCEPT !.pc = "probe"] = new
  BY DEF NotProbed
<1>3. ticks' = [ticks EXCEPT ![t] = new]
  BY <1>2 DEF StartTick
<1>4. ticks' \in [Ticks -> TickShapes] /\ ticks'[t] = new /\ \A u \in Ticks : u # t => ticks'[u] = ticks[u]
  BY <1>1, <1>3, OneTick
<1>5. overlapped' \in {"yes", "no"}
  BY DEF StartTick, UptimeTypeOK
<1>6. UptimeTypeOK'
  BY <1>4, <1>5 DEF StartTick, UptimeTypeOK, TickShapes, worldVars
<1> QED BY <1>4, <1>6

\* A probe writes the one answer down.
LEMMA ProbeTyped ==
  ASSUME UptimeTypeOK, NEW t \in Ticks, ProbeStep(t)
  PROVE  /\ UptimeTypeOK'
         /\ \A u \in Ticks : /\ ticks'[u].pc = ticks[u].pc
                             /\ ticks'[u].current = ticks[u].current
                             /\ ticks'[u].events = ticks[u].events
<1>1. ticks[t] \in TickShapes
  BY DEF UptimeTypeOK, TickShapes
<1>2. PICK port \in {"?", "up", "down"}, age \in {"?"} \union Ages, depth \in {"?", "low", "high"} :
        ticks' = [ticks EXCEPT ![t] = [pc |-> ticks[t].pc, gateway |-> port, age |-> age, depth |-> depth,
                                       current |-> ticks[t].current, events |-> ticks[t].events]]
  <2>1. CASE ticks' = [ticks EXCEPT ![t].gateway = gateway]
    <3>1. [ticks[t] EXCEPT !.gateway = gateway]
            = [pc |-> ticks[t].pc, gateway |-> gateway, age |-> ticks[t].age, depth |-> ticks[t].depth,
               current |-> ticks[t].current, events |-> ticks[t].events]
      BY <1>1 DEF TickShapes
    <3>2. gateway \in {"?", "up", "down"} /\ ticks[t].age \in {"?"} \union Ages /\ ticks[t].depth \in {"?", "low", "high"}
      BY <1>1 DEF TickShapes, UptimeTypeOK
    <3> QED BY <2>1, <3>1, <3>2
  <2>2. CASE ticks' = [ticks EXCEPT ![t].age = IF redis = "up" THEN beat ELSE "null"]
    <3> DEFINE age == IF redis = "up" THEN beat ELSE "null"
    <3>1. [ticks[t] EXCEPT !.age = age]
            = [pc |-> ticks[t].pc, gateway |-> ticks[t].gateway, age |-> age, depth |-> ticks[t].depth,
               current |-> ticks[t].current, events |-> ticks[t].events]
      BY <1>1 DEF TickShapes
    <3>2. ticks[t].gateway \in {"?", "up", "down"} /\ age \in {"?"} \union Ages /\ ticks[t].depth \in {"?", "low", "high"}
      BY <1>1 DEF TickShapes, UptimeTypeOK, Ages
    <3> QED BY <2>2, <3>1, <3>2
  <2>3. CASE ticks' = [ticks EXCEPT ![t].depth = IF redis = "up" THEN backlog ELSE "low"]
    <3> DEFINE depth == IF redis = "up" THEN backlog ELSE "low"
    <3>1. [ticks[t] EXCEPT !.depth = depth]
            = [pc |-> ticks[t].pc, gateway |-> ticks[t].gateway, age |-> ticks[t].age, depth |-> depth,
               current |-> ticks[t].current, events |-> ticks[t].events]
      BY <1>1 DEF TickShapes
    <3>2. ticks[t].gateway \in {"?", "up", "down"} /\ ticks[t].age \in {"?"} \union Ages /\ depth \in {"?", "low", "high"}
      BY <1>1 DEF TickShapes, UptimeTypeOK
    <3> QED BY <2>3, <3>1, <3>2
  <2> QED BY <2>1, <2>2, <2>3 DEF ProbeStep
<1> DEFINE new == [pc |-> ticks[t].pc, gateway |-> port, age |-> age, depth |-> depth,
                   current |-> ticks[t].current, events |-> ticks[t].events]
<1>3. new \in TickShapes
  BY <1>1 DEF TickShapes
<1>4. ticks' \in [Ticks -> TickShapes] /\ ticks'[t] = new /\ \A u \in Ticks : u # t => ticks'[u] = ticks[u]
  BY <1>2, <1>3, OneTick
<1>5. UptimeTypeOK'
  BY <1>4 DEF ProbeStep, UptimeTypeOK, TickShapes, worldVars
<1> QED BY <1>4, <1>5

Found(t) ==
  EvaluateAlerts(ticks[t].gateway, ticks[t].age, ticks[t].depth,
                 IF ticks[t].age # "null" THEN "yes" ELSE heartbeatSeen)

LEMMA IdleTyped == NotProbed \in TickShapes /\ NotProbed.pc = "idle"
  BY DEF NotProbed, TickShapes

LEMMA TellingTyped ==
  ASSUME NEW t \in Ticks, ticks[t] \in TickShapes, NEW current \in SUBSET AlertKinds,
         NEW events \in SUBSET AlertKinds
  PROVE  /\ Telling(t, current, events) \in TickShapes
         /\ Telling(t, current, events).pc = "deliver"
         /\ Telling(t, current, events).current = current
         /\ Telling(t, current, events).events = events
  BY DEF Telling, TickShapes

\* An evaluation that finds nothing new is over; another one has the difference to tell.
LEMMA EvaluateTyped ==
  ASSUME UptimeTypeOK, NEW t \in Ticks, Evaluate(t)
  PROVE  /\ UptimeTypeOK'
         /\ \A u \in Ticks : u # t => ticks'[u] = ticks[u]
         /\ told' = told /\ lost' = lost /\ overlapped' = overlapped
         /\ ticks[t].pc = "probe"
         /\ \/ /\ DiffAlerts(firing, Found(t)) = {}
               /\ firing' = Found(t) /\ ticks'[t].pc = "idle"
            \/ /\ firing' = firing
               /\ ticks'[t].pc = "deliver" /\ ticks'[t].current = Found(t)
               /\ ticks'[t].events = DiffAlerts(firing, Found(t))
<1>1. ticks[t] \in TickShapes
  BY DEF UptimeTypeOK, TickShapes
<1>2. Found(t) \subseteq AlertKinds /\ DiffAlerts(firing, Found(t)) \subseteq AlertKinds
  BY DEF Found, EvaluateAlerts, DiffAlerts, UptimeTypeOK
<1>3. /\ told' = told /\ lost' = lost /\ overlapped' = overlapped /\ ticks[t].pc = "probe"
      /\ UNCHANGED <<armed, gateway, beat, backlog, redis, changes>>
  BY DEF Evaluate, worldVars
<1>4. heartbeatSeen' \in {"yes", "no"}
  BY DEF Evaluate, UptimeTypeOK
<1>5. CASE DiffAlerts(firing, Found(t)) = {} /\ Remember(t, Found(t))
  <2>1. firing' = Found(t) /\ ticks' = [ticks EXCEPT ![t] = NotProbed]
    BY <1>5 DEF Remember
  <2>2. ticks' \in [Ticks -> TickShapes] /\ ticks'[t] = NotProbed /\ \A u \in Ticks : u # t => ticks'[u] = ticks[u]
    BY <2>1, IdleTyped, OneTick
  <2>3. UptimeTypeOK'
    BY <1>2, <1>3, <1>4, <2>1, <2>2 DEF UptimeTypeOK, TickShapes
  <2> QED BY <1>3, <1>5, <2>1, <2>2, <2>3, IdleTyped
<1>6. CASE /\ ticks' = [ticks EXCEPT ![t] = Telling(t, Found(t), DiffAlerts(firing, Found(t)))]
           /\ firing' = firing
  <2> DEFINE new == Telling(t, Found(t), DiffAlerts(firing, Found(t)))
  <2>1. /\ new \in TickShapes /\ new.pc = "deliver"
        /\ new.current = Found(t) /\ new.events = DiffAlerts(firing, Found(t))
    BY <1>1, <1>2, TellingTyped
  <2> HIDE DEF new
  <2>2. ticks' \in [Ticks -> TickShapes] /\ ticks'[t] = new /\ \A u \in Ticks : u # t => ticks'[u] = ticks[u]
    BY <1>6, <2>1, OneTick DEF new
  <2>3. UptimeTypeOK'
    BY <1>3, <1>4, <1>6, <2>2 DEF UptimeTypeOK, TickShapes
  <2> QED BY <1>3, <1>6, <2>1, <2>2, <2>3
<1> QED BY <1>5, <1>6 DEF Evaluate, Found

\* A delivery takes one event off, and the last one ends the tick.
LEMMA DeliverTyped ==
  ASSUME UptimeTypeOK, NEW t \in Ticks, Deliver(t)
  PROVE  /\ UptimeTypeOK'
         /\ \A u \in Ticks : u # t => ticks'[u] = ticks[u]
         /\ overlapped' = overlapped /\ ticks[t].pc = "deliver"
         /\ \E k \in ticks[t].events :
              /\ lost' = "yes" \/ (lost' = lost /\ told' = IF k \in ticks[t].current THEN told \union {k} ELSE told \ {k})
              /\ \/ ticks[t].events = {k} /\ firing' = ticks[t].current /\ ticks'[t].pc = "idle"
                 \/ /\ firing' = firing
                    /\ ticks'[t].pc = "deliver" /\ ticks'[t].current = ticks[t].current
                    /\ ticks'[t].events = ticks[t].events \ {k}
<1>1. ticks[t] \in TickShapes
  BY DEF UptimeTypeOK, TickShapes
<1>2. PICK k \in ticks[t].events :
        /\ ticks[t].pc = "deliver"
        /\ \/ /\ told' = IF k \in ticks[t].current THEN told \union {k} ELSE told \ {k}
              /\ UNCHANGED lost
           \/ lost' = "yes" /\ UNCHANGED told
        /\ \/ /\ ticks[t].events = {k}
              /\ Remember(t, ticks[t].current)
           \/ /\ ticks[t].events # {k}
              /\ ticks' = [ticks EXCEPT ![t] = Telling(t, ticks[t].current, ticks[t].events \ {k})]
              /\ UNCHANGED firing
        /\ UNCHANGED <<armed, worldVars, heartbeatSeen, overlapped, changes>>
  BY DEF Deliver
<1>3. k \in AlertKinds /\ ticks[t].current \subseteq AlertKinds
  BY <1>1 DEF TickShapes
<1>4. told' \subseteq AlertKinds /\ lost' \in {"yes", "no"}
  BY <1>2, <1>3 DEF UptimeTypeOK
<1>5. CASE ticks[t].events = {k} /\ Remember(t, ticks[t].current)
  <2>1. firing' = ticks[t].current /\ ticks' = [ticks EXCEPT ![t] = NotProbed]
    BY <1>5 DEF Remember
  <2>2. ticks' \in [Ticks -> TickShapes] /\ ticks'[t] = NotProbed /\ \A u \in Ticks : u # t => ticks'[u] = ticks[u]
    BY <2>1, IdleTyped, OneTick
  <2>3. UptimeTypeOK'
    BY <1>2, <1>3, <1>4, <2>1, <2>2 DEF UptimeTypeOK, TickShapes, worldVars
  <2> QED BY <1>2, <1>5, <2>1, <2>2, <2>3, IdleTyped
<1>6. CASE /\ ticks' = [ticks EXCEPT ![t] = Telling(t, ticks[t].current, ticks[t].events \ {k})]
           /\ firing' = firing
  <2> DEFINE new == Telling(t, ticks[t].current, ticks[t].events \ {k})
  <2>1. /\ new \in TickShapes /\ new.pc = "deliver"
        /\ new.current = ticks[t].current /\ new.events = ticks[t].events \ {k}
    <3>1. ticks[t].current \in SUBSET AlertKinds /\ ticks[t].events \ {k} \in SUBSET AlertKinds
      BY <1>1 DEF TickShapes
    <3> QED BY <1>1, <3>1, TellingTyped
  <2> HIDE DEF new
  <2>2. ticks' \in [Ticks -> TickShapes] /\ ticks'[t] = new /\ \A u \in Ticks : u # t => ticks'[u] = ticks[u]
    BY <1>6, <2>1, OneTick DEF new
  <2>3. UptimeTypeOK'
    BY <1>2, <1>4, <1>6, <2>2 DEF UptimeTypeOK, TickShapes, worldVars
  <2> QED BY <1>2, <1>6, <2>1, <2>2, <2>3
<1> QED BY <1>2, <1>5, <1>6

LEMMA WorldTyped ==
  ASSUME UptimeTypeOK, WorldChanges
  PROVE  UptimeTypeOK'
<1>1. changes' \in Nat
  BY DEF WorldChanges, UptimeTypeOK
<1>2. gateway' \in {"up", "down"} /\ beat' \in Ages /\ backlog' \in {"low", "high"} /\ redis' \in {"up", "erring", "down"}
  BY DEF WorldChanges, GatewayChanges, BeatChanges, BacklogChanges, RedisChanges, UptimeTypeOK, Ages
<1> QED BY <1>1, <1>2 DEF WorldChanges, UptimeTypeOK

LEMMA TypeStep == UptimeTypeOK /\ [UptimeNext]_uptimeVars => UptimeTypeOK'
<1> SUFFICES ASSUME UptimeTypeOK, [UptimeNext]_uptimeVars PROVE UptimeTypeOK'
  OBVIOUS
<1>1. CASE Arm
  BY <1>1 DEF Arm, UptimeTypeOK, worldVars
<1>2. ASSUME NEW t \in Ticks, TickStep(t) PROVE UptimeTypeOK'
  BY <1>2, StartTyped, ProbeTyped, EvaluateTyped, DeliverTyped DEF TickStep
<1>3. CASE WorldChanges
  BY <1>3, WorldTyped
<1>4. CASE UNCHANGED uptimeVars
  BY <1>4 DEF uptimeVars, worldVars, UptimeTypeOK
<1> QED BY <1>1, <1>2, <1>3, <1>4 DEF UptimeNext

-----------------------------------------------------------------------------
(* What the operator knows                                                 *)

\* A tick that began beside no other is alone.
Alone ==
  overlapped = "no" =>
    \A t \in Ticks : \A u \in Ticks : ticks[t].pc # "idle" /\ ticks[u].pc # "idle" => t = u

UInv == UptimeTypeOK /\ Alone /\ OperatorInformed

LEMMA InformedInit == UptimeInit => UInv
  BY TypeInit DEF UptimeInit, UInv, Alone, OperatorInformed, NotProbed

\* What is alone and ends, or goes on, is alone.
LEMMA AloneKept ==
  ASSUME Alone, overlapped' = overlapped, NEW t \in Ticks, ticks[t].pc # "idle",
         \A u \in Ticks : u # t => ticks'[u] = ticks[u]
  PROVE  Alone'
  BY DEF Alone

LEMMA InformedStep == UInv /\ [UptimeNext]_uptimeVars => UInv'
<1> SUFFICES ASSUME UInv, [UptimeNext]_uptimeVars PROVE Alone' /\ OperatorInformed'
  BY TypeStep DEF UInv
<1>1. ASSUME NEW t \in Ticks, StartTick(t) PROVE Alone' /\ OperatorInformed'
  <2>1. /\ ticks'[t].pc = "probe" /\ ticks[t].pc = "idle"
        /\ \A u \in Ticks : u # t => ticks'[u] = ticks[u]
        /\ overlapped' = IF \A u \in Ticks : ticks[u].pc = "idle" THEN overlapped ELSE "yes"
        /\ UNCHANGED <<firing, told, lost>>
    BY <1>1, StartTyped DEF StartTick, UInv
  <2>2. Alone'
    BY <2>1 DEF Alone
  <2>3. OperatorInformed'
    BY <2>1 DEF UInv, OperatorInformed
  <2> QED BY <2>2, <2>3
<1>2. ASSUME NEW t \in Ticks, ProbeStep(t) PROVE Alone' /\ OperatorInformed'
  <2>1. /\ \A u \in Ticks : /\ ticks'[u].pc = ticks[u].pc
                            /\ ticks'[u].current = ticks[u].current
                            /\ ticks'[u].events = ticks[u].events
        /\ UNCHANGED <<overlapped, firing, told, lost>>
    BY <1>2, ProbeTyped DEF ProbeStep, UInv
  <2> QED BY <2>1 DEF UInv, Alone, OperatorInformed
<1>3. ASSUME NEW t \in Ticks, Evaluate(t) PROVE Alone' /\ OperatorInformed'
  <2>1. Alone'
    BY <1>3, EvaluateTyped, AloneKept DEF UInv
  <2>2. ASSUME overlapped = "no", lost = "no"
        PROVE  /\ \A u \in Ticks : ticks'[u].pc = "deliver" =>
                    \A k \in AlertKinds : k \in ticks'[u].events <=> (k \in told) # (k \in ticks'[u].current)
               /\ (\A u \in Ticks : ticks'[u].pc # "deliver") => told = firing'
    <3>1. \A u \in Ticks : u # t => ticks'[u] = ticks[u] /\ ticks[u].pc = "idle"
      BY <1>3, <2>2, EvaluateTyped DEF UInv, Alone
    <3>2. told = firing
      BY <1>3, <2>2, <3>1, EvaluateTyped DEF UInv, OperatorInformed
    <3>3. CASE DiffAlerts(firing, Found(t)) = {} /\ firing' = Found(t) /\ ticks'[t].pc = "idle"
      BY <3>1, <3>2, <3>3 DEF DiffAlerts
    <3>4. CASE /\ ticks'[t].pc = "deliver" /\ ticks'[t].current = Found(t)
               /\ ticks'[t].events = DiffAlerts(firing, Found(t))
      BY <3>1, <3>2, <3>4 DEF DiffAlerts
    <3> QED BY <1>3, <3>3, <3>4, EvaluateTyped DEF UInv
  <2> QED BY <1>3, <2>1, <2>2, EvaluateTyped DEF UInv, OperatorInformed
<1>4. ASSUME NEW t \in Ticks, Deliver(t) PROVE Alone' /\ OperatorInformed'
  <2>1. Alone'
    BY <1>4, DeliverTyped, AloneKept DEF UInv
  <2>2. ASSUME overlapped = "no", lost' = "no"
        PROVE  /\ \A u \in Ticks : ticks'[u].pc = "deliver" =>
                    \A k \in AlertKinds : k \in ticks'[u].events <=> (k \in told') # (k \in ticks'[u].current)
               /\ (\A u \in Ticks : ticks'[u].pc # "deliver") => told' = firing'
    <3>1. PICK k \in ticks[t].events :
            /\ lost' = lost /\ told' = IF k \in ticks[t].current THEN told \union {k} ELSE told \ {k}
            /\ \/ ticks[t].events = {k} /\ firing' = ticks[t].current /\ ticks'[t].pc = "idle"
               \/ /\ firing' = firing
                  /\ ticks'[t].pc = "deliver" /\ ticks'[t].current = ticks[t].current
                  /\ ticks'[t].events = ticks[t].events \ {k}
      BY <1>4, <2>2, DeliverTyped DEF UInv
    <3>2. ticks[t].pc = "deliver" /\ \A u \in Ticks : u # t => ticks'[u] = ticks[u] /\ ticks[u].pc = "idle"
      BY <1>4, <2>2, DeliverTyped DEF UInv, Alone
    <3>3. \A j \in AlertKinds : j \in ticks[t].events <=> (j \in told) # (j \in ticks[t].current)
      BY <2>2, <3>1, <3>2 DEF UInv, OperatorInformed
    <3>4. told \subseteq AlertKinds /\ ticks[t].current \subseteq AlertKinds
      BY DEF UInv, UptimeTypeOK
    <3>5. CASE ticks[t].events = {k} /\ firing' = ticks[t].current /\ ticks'[t].pc = "idle"
      <4>1. told' = ticks[t].current
        BY <3>1, <3>3, <3>4, <3>5
      <4> QED BY <3>2, <3>5, <4>1
    <3>6. CASE /\ ticks'[t].pc = "deliver" /\ ticks'[t].current = ticks[t].current
               /\ ticks'[t].events = ticks[t].events \ {k}
      BY <3>1, <3>2, <3>3, <3>6
    <3> QED BY <3>1, <3>5, <3>6
  <2> QED BY <1>4, <2>1, <2>2, DeliverTyped DEF UInv, OperatorInformed
<1>5. CASE Arm \/ WorldChanges \/ UNCHANGED uptimeVars
  <2>1. UNCHANGED <<ticks, overlapped, firing, told, lost>>
    BY <1>5 DEF Arm, WorldChanges, uptimeVars
  <2> QED BY <2>1 DEF UInv, Alone, OperatorInformed
<1> QED BY <1>1, <1>2, <1>3, <1>4, <1>5 DEF UptimeNext, TickStep

\* As long as ticks do not overlap and Telegram takes the messages, the operator was told
\* of exactly the alerts that fire, for any number of ticks.
THEOREM OperatorStaysInformed == UptimeSpec => []OperatorInformed
<1>1. UInv => OperatorInformed
  BY DEF UInv
<1> QED BY <1>1, InformedInit, InformedStep, PTL DEF UptimeSpec

\* Every variable of the monitor keeps its type.
THEOREM UptimeTyped == UptimeSpec => []UptimeTypeOK
<1> QED BY TypeInit, TypeStep, PTL DEF UptimeSpec
-----------------------------------------------------------------------------
(* Console: what the invariant says                                        *)

RosterRows == [mode : Modes, target : Targets]

EditShapes ==
  [pc : {"unsent", "read", "gate", "write", "written", "refused", "answered"},
   mode : Modes \union {"same"}, target : Targets \union {"same"}, note : {"", "reviewed"},
   before : RosterRows, raced : {"yes", "no"}]

HeldTyped ==
  /\ closedTrades \in [Targets -> Nat]
  /\ edits \in [Edits -> EditShapes]
  /\ DOMAIN truth = Panels /\ truth["roster"] \in RosterRows

\* Nothing that was read, and no row, has LIVE for its target.
NoLive ==
  /\ truth["roster"].target # "LIVE"
  /\ \A e \in Edits : edits[e].before.target # "LIVE"

\* An edit about to be written leaves the target it read, or the gate let it pass.
Gated ==
  \A e \in Edits : edits[e].pc = "write" =>
    \/ edits[e].target \in {"same", edits[e].before.target}
    \/ GateAllows(edits[e].before.target, edits[e].target, edits[e].note)

\* The row an edit read is the row as it is, unless another edit was written since.
AsRead ==
  \A e \in Edits : edits[e].pc \in {"gate", "write"} /\ edits[e].raced = "no" =>
    edits[e].before = truth["roster"]

Earned(e) == edits[e].note = "reviewed" /\ closedTrades[edits[e].before.target] >= MinTrades

PromotedEarned ==
  \A e \in promoted :
    /\ e \in Edits /\ edits[e].pc \in {"written", "answered"}
    /\ edits[e].raced = "yes" \/ Earned(e)

CInv == HeldTyped /\ NoLive /\ Gated /\ AsRead /\ PromotedEarned

LEMMA EarnedInit == ConsoleInit => CInv
<1> SUFFICES ASSUME ConsoleInit PROVE CInv
  OBVIOUS
<1>1. Fresh \in EditShapes /\ Fresh.pc = "unsent" /\ Fresh.before.target = "SIM"
  BY ConsoleAssumption DEF Fresh, Edit, EditShapes, RosterRows, Row, Targets
<1>2. edits \in [Edits -> EditShapes] /\ \A e \in Edits : edits[e] = Fresh
  BY <1>1 DEF ConsoleInit
<1>3. PICK target \in {"SIM", "PAPER"} : truth = AtFirst(target)
  BY DEF ConsoleInit
<1>4. DOMAIN truth = Panels /\ truth["roster"] = Row("WATCH", target)
  BY <1>3 DEF AtFirst, Panels
<1>5. truth["roster"] \in RosterRows /\ truth["roster"].target # "LIVE"
  BY <1>4, ConsoleAssumption DEF RosterRows, Row, Targets
<1>6. closedTrades \in [Targets -> Nat] /\ promoted = {}
  BY DEF ConsoleInit
<1> QED BY <1>1, <1>2, <1>4, <1>5, <1>6 DEF CInv, HeldTyped, NoLive, Gated, AsRead, PromotedEarned

-----------------------------------------------------------------------------
(* Steps that leave the roster and its edits                               *)

LEMMA Untouched ==
  ASSUME CInv, UNCHANGED <<closedTrades, edits, promoted>>,
         DOMAIN truth' = Panels, truth'["roster"] = truth["roster"]
  PROVE  CInv'
  BY DEF CInv, HeldTyped, NoLive, Gated, AsRead, PromotedEarned, Earned, GateAllows

\* Trades only add up.
LEMMA MoreTrades ==
  ASSUME CInv, NEW t \in Targets, TradeCloses(t)
  PROVE  CInv'
<1>1. UNCHANGED <<edits, promoted, truth>> /\ closedTrades' = [closedTrades EXCEPT ![t] = closedTrades[t] + 1]
  BY DEF TradeCloses
<1>2. closedTrades' \in [Targets -> Nat] /\ \A u \in Targets : closedTrades'[u] >= closedTrades[u]
  BY <1>1 DEF CInv, HeldTyped
<1>3. MinTrades \in Nat
  BY ConsoleAssumption
<1>4. \A u \in Targets : closedTrades[u] >= MinTrades => closedTrades'[u] >= MinTrades
  <2> TAKE u \in Targets
  <2>1. closedTrades[u] \in Nat /\ closedTrades'[u] \in Nat
    BY <1>2 DEF CInv, HeldTyped
  <2> QED BY <1>2, <1>3, <2>1
<1>5. \A e \in Edits : edits[e].before.target \in Targets
  BY DEF CInv, HeldTyped, EditShapes, RosterRows
<1>6. Gated'
  BY <1>1, <1>4, <1>5 DEF CInv, Gated, GateAllows
<1>7. PromotedEarned'
  BY <1>1, <1>4, <1>5 DEF CInv, PromotedEarned, Earned
<1> QED BY <1>1, <1>2, <1>6, <1>7 DEF CInv, HeldTyped, NoLive, AsRead

-----------------------------------------------------------------------------
(* Steps of one edit                                                       *)

LEMMA OneEdit ==
  ASSUME HeldTyped, NEW e \in Edits, NEW new \in EditShapes, edits' = [edits EXCEPT ![e] = new]
  PROVE  /\ edits' \in [Edits -> EditShapes] /\ edits'[e] = new
         /\ \A f \in Edits : f # e => edits'[f] = edits[f]
  BY DEF HeldTyped

\* An edit that is not promoted yet may move to any shape of its own that keeps the parts
\* of the invariant that are about it.
LEMMA OneMoves ==
  ASSUME CInv, NEW e \in Edits, NEW new \in EditShapes, edits' = [edits EXCEPT ![e] = new],
         UNCHANGED <<closedTrades, promoted, truth>>,
         edits[e].pc \notin {"written", "answered"}
           \/ (/\ new.pc \in {"written", "answered"} /\ new.raced = edits[e].raced
               /\ new.note = edits[e].note /\ new.before = edits[e].before),
         new.before.target # "LIVE",
         new.pc = "write" =>
           \/ new.target \in {"same", new.before.target}
           \/ GateAllows(new.before.target, new.target, new.note),
         new.pc \in {"gate", "write"} /\ new.raced = "no" => new.before = truth["roster"]
  PROVE  CInv'
<1>1. /\ edits' \in [Edits -> EditShapes] /\ edits'[e] = new
      /\ \A f \in Edits : f # e => edits'[f] = edits[f]
  BY OneEdit DEF CInv
<1>2. HeldTyped' /\ NoLive'
  BY <1>1 DEF CInv, HeldTyped, NoLive
<1>3. Gated'
  BY <1>1 DEF CInv, Gated, GateAllows
<1>4. AsRead'
  BY <1>1 DEF CInv, AsRead
<1>5. PromotedEarned'
  BY <1>1 DEF CInv, PromotedEarned, Earned
<1> QED BY <1>2, <1>3, <1>4, <1>5 DEF CInv

LEMMA SendHolds ==
  ASSUME CInv, NEW e \in Edits, NEW mode \in Modes \union {"same"}, NEW target \in Targets \union {"same"},
         NEW note \in {"", "reviewed"}, Send(e, mode, target, note),
         UNCHANGED <<closedTrades, promoted, truth>>
  PROVE  CInv'
<1> DEFINE new == Edit("read", mode, target, note)
<1>1. /\ new \in EditShapes /\ new.pc = "read" /\ new.before.target = "SIM"
  BY ConsoleAssumption DEF Edit, EditShapes, RosterRows, Row, Targets
<1>2. edits' = [edits EXCEPT ![e] = new] /\ edits[e].pc = "unsent"
  BY DEF Send
<1> HIDE DEF new
<1> QED BY <1>1, <1>2, OneMoves

\* What setting a field of an edit makes of it.
LEMMA SetPc ==
  ASSUME NEW r \in EditShapes, NEW pc
  PROVE  [r EXCEPT !.pc = pc] = [pc |-> pc, mode |-> r.mode, target |-> r.target, note |-> r.note,
                                 before |-> r.before, raced |-> r.raced]
<1>1. PICK p, m, t, n, b, d : r = [pc |-> p, mode |-> m, target |-> t, note |-> n, before |-> b, raced |-> d]
  BY DEF EditShapes
<1> QED BY <1>1

LEMMA SetBefore ==
  ASSUME NEW r \in EditShapes, NEW before
  PROVE  [r EXCEPT !.before = before]
           = [pc |-> r.pc, mode |-> r.mode, target |-> r.target, note |-> r.note,
              before |-> before, raced |-> r.raced]
<1>1. PICK p, m, t, n, b, d : r = [pc |-> p, mode |-> m, target |-> t, note |-> n, before |-> b, raced |-> d]
  BY DEF EditShapes
<1> QED BY <1>1

LEMMA ReadHolds ==
  ASSUME CInv, NEW e \in Edits, ReadStrategy(e)
  PROVE  CInv'
<1> DEFINE r == edits[e]
           pc == IF r.target \in {"same", truth["roster"].target} THEN "write" ELSE "gate"
           new == [pc |-> pc, mode |-> r.mode, target |-> r.target, note |-> r.note,
                   before |-> truth["roster"], raced |-> r.raced]
<1>1. r \in EditShapes /\ truth["roster"] \in RosterRows /\ truth["roster"].target # "LIVE"
  BY DEF CInv, HeldTyped, NoLive
<1>2. new \in EditShapes
  BY <1>1 DEF EditShapes
<1>3. r.pc = "read" /\ UNCHANGED <<closedTrades, promoted, truth>>
  BY DEF ReadStrategy
<1>4. edits' = [edits EXCEPT ![e] = new]
  <2>1. edits' = [edits EXCEPT ![e] = [[r EXCEPT !.before = truth["roster"]] EXCEPT !.pc = pc]]
    BY DEF ReadStrategy, CInv, HeldTyped
  <2> DEFINE r1 == [pc |-> r.pc, mode |-> r.mode, target |-> r.target, note |-> r.note,
                    before |-> truth["roster"], raced |-> r.raced]
  <2>2. [r EXCEPT !.before = truth["roster"]] = r1
    BY <1>1, SetBefore
  <2>3. r1 \in EditShapes
    BY <1>1 DEF EditShapes
  <2>4. [r1 EXCEPT !.pc = pc] = new
    <3> HIDE DEF pc
    <3>1. [r1 EXCEPT !.pc = pc] = [pc |-> pc, mode |-> r1.mode, target |-> r1.target, note |-> r1.note,
                                   before |-> r1.before, raced |-> r1.raced]
      BY <2>3, SetPc
    <3> QED BY <3>1
  <2> QED BY <2>1, <2>2, <2>4
<1>5. /\ new.before = truth["roster"] /\ new.target = r.target
      /\ new.pc = "write" => new.target \in {"same", new.before.target}
  OBVIOUS
<1> HIDE DEF new, r, pc
<1>6. edits[e].pc \notin {"written", "answered"}
  BY <1>3 DEF r
<1> QED BY <1>1, <1>2, <1>3, <1>4, <1>5, <1>6, OneMoves

\* A field of an edit is its place in the handler.
LEMMA PcMoves ==
  ASSUME HeldTyped, NEW e \in Edits, NEW pc, edits' = [edits EXCEPT ![e].pc = pc]
  PROVE  edits' = [edits EXCEPT ![e] = [pc |-> pc, mode |-> edits[e].mode, target |-> edits[e].target,
                                        note |-> edits[e].note, before |-> edits[e].before,
                                        raced |-> edits[e].raced]]
<1>1. edits[e] \in EditShapes
  BY DEF HeldTyped
<1>2. [edits[e] EXCEPT !.pc = pc]
        = [pc |-> pc, mode |-> edits[e].mode, target |-> edits[e].target, note |-> edits[e].note,
           before |-> edits[e].before, raced |-> edits[e].raced]
  BY <1>1, SetPc
<1> QED BY <1>2

LEMMA GateHolds ==
  ASSUME CInv, NEW e \in Edits, Gate(e)
  PROVE  CInv'
<1> DEFINE r == edits[e]
           pc == IF GateAllows(r.before.target, r.target, r.note) THEN "write" ELSE "refused"
           new == [pc |-> pc, mode |-> r.mode, target |-> r.target, note |-> r.note,
                   before |-> r.before, raced |-> r.raced]
<1>1. r \in EditShapes /\ r.before.target # "LIVE" /\ HeldTyped
  BY DEF CInv, HeldTyped, NoLive
<1>2. new \in EditShapes
  BY <1>1 DEF EditShapes
<1>3. r.pc = "gate" /\ UNCHANGED <<closedTrades, promoted, truth>> /\ edits' = [edits EXCEPT ![e].pc = pc]
  BY DEF Gate
<1>4. edits' = [edits EXCEPT ![e] = new]
  BY <1>1, <1>3, PcMoves
<1>5. /\ new.before = r.before /\ new.target = r.target /\ new.note = r.note /\ new.raced = r.raced
      /\ new.pc = "write" => GateAllows(new.before.target, new.target, new.note)
  OBVIOUS
<1>6. r.raced = "no" => r.before = truth["roster"]
  BY <1>3 DEF CInv, AsRead
<1> HIDE DEF new, r, pc
<1>7. edits[e].pc \notin {"written", "answered"}
  BY <1>3 DEF r
<1>8. new.before.target # "LIVE"
  BY <1>1, <1>5
<1>9. new.raced = "no" => new.before = truth["roster"]
  BY <1>5, <1>6
<1>10. new.pc = "write" => GateAllows(new.before.target, new.target, new.note)
  BY <1>5
<1>11. UNCHANGED <<closedTrades, promoted, truth>>
  BY <1>3
<1> QED BY <1>2, <1>4, <1>7, <1>8, <1>9, <1>10, <1>11, OneMoves

LEMMA AnswerHolds ==
  ASSUME CInv, NEW e \in Edits, AnswerEdit(e)
  PROVE  CInv'
<1> DEFINE r == edits[e]
           new == [pc |-> "answered", mode |-> r.mode, target |-> r.target, note |-> r.note,
                   before |-> r.before, raced |-> r.raced]
<1>1. r \in EditShapes /\ r.before.target # "LIVE" /\ HeldTyped
  BY DEF CInv, HeldTyped, NoLive
<1>2. new \in EditShapes
  BY <1>1 DEF EditShapes
<1>3. UNCHANGED <<closedTrades, promoted, truth>> /\ edits' = [edits EXCEPT ![e].pc = "answered"]
  BY DEF AnswerEdit
<1>4. edits' = [edits EXCEPT ![e] = new]
  BY <1>1, <1>3, PcMoves
<1>5. /\ new.before = edits[e].before /\ new.note = edits[e].note /\ new.raced = edits[e].raced
      /\ new.pc = "answered" /\ new.before.target # "LIVE"
  BY <1>1
<1> HIDE DEF new, r
<1> QED BY <1>2, <1>3, <1>4, <1>5, OneMoves

-----------------------------------------------------------------------------
(* The write                                                               *)

\* Who climbs a rung at the write was let pass by the gate for the rung it leaves,
\* unless it was overtaken; LIVE is let pass by nobody.
LEMMA WriteEarned ==
  ASSUME CInv, NEW e \in Edits, edits[e].pc = "write", NEW target \in Targets,
         target = IF edits[e].target = "same" THEN truth["roster"].target ELSE edits[e].target
  PROVE  /\ target # "LIVE"
         /\ IsPromotion(truth["roster"].target, target) => edits[e].raced = "yes" \/ Earned(e)
<1>1. edits[e] \in EditShapes /\ truth["roster"] \in RosterRows
  BY DEF CInv, HeldTyped
<1>2. edits[e].before.target \in {"SIM", "PAPER"} /\ truth["roster"].target \in {"SIM", "PAPER"}
  BY <1>1 DEF CInv, NoLive, EditShapes, RosterRows, Targets
<1>3. edits[e].raced \in {"yes", "no"}
  BY <1>1 DEF EditShapes
<1>4. \/ edits[e].target \in {"same", edits[e].before.target}
      \/ GateAllows(edits[e].before.target, edits[e].target, edits[e].note)
  BY DEF CInv, Gated
<1>5. target # "LIVE"
  BY <1>2, <1>4 DEF GateAllows, IsPromotion, Rung
<1>6. ASSUME IsPromotion(truth["roster"].target, target), edits[e].raced = "no" PROVE Earned(e)
  <2>1. edits[e].before = truth["roster"]
    BY <1>6 DEF CInv, AsRead
  <2>2. target # truth["roster"].target
    BY <1>2, <1>6 DEF IsPromotion, Rung
  <2>3. target = edits[e].target /\ edits[e].target \notin {"same", edits[e].before.target}
    BY <2>1, <2>2
  <2> QED BY <1>4, <1>6, <2>1, <2>3 DEF GateAllows, Earned
<1> QED BY <1>3, <1>5, <1>6

LEMMA WriteHolds ==
  ASSUME CInv, NEW e \in Edits, WriteStrategy(e)
  PROVE  CInv'
<1> DEFINE row == truth["roster"]
           mode == IF edits[e].mode = "same" THEN row.mode ELSE edits[e].mode
           target == IF edits[e].target = "same" THEN row.target ELSE edits[e].target
<1>1. edits[e] \in EditShapes /\ row \in RosterRows
  BY DEF CInv, HeldTyped
<1>2. mode \in Modes /\ target \in Targets
  BY <1>1 DEF EditShapes, RosterRows
<1>3. /\ edits[e].pc = "write" /\ closedTrades' = closedTrades
      /\ truth' = [truth EXCEPT !["roster"] = Row(mode, target)]
      /\ promoted' = IF IsPromotion(row.target, Row(mode, target).target) THEN promoted \union {e} ELSE promoted
      /\ edits' = [f \in Edits |->
          CASE f = e -> [edits[f] EXCEPT !.pc = "written"]
            [] f # e /\ edits[f].pc \in {"gate", "write"} -> [edits[f] EXCEPT !.raced = "yes"]
            [] OTHER -> edits[f]]
  BY DEF WriteStrategy
<1>4. DOMAIN truth' = Panels /\ truth'["roster"] = Row(mode, target)
  BY <1>3 DEF CInv, HeldTyped, Panels
<1>5. truth'["roster"] \in RosterRows /\ truth'["roster"].target = target
  BY <1>2, <1>4 DEF Row, RosterRows
<1>6. target # "LIVE" /\ (IsPromotion(row.target, target) => edits[e].raced = "yes" \/ Earned(e))
  BY <1>2, <1>3, WriteEarned
<1>7. promoted' = IF IsPromotion(row.target, target) THEN promoted \union {e} ELSE promoted
  BY <1>3 DEF Row
<1>8. \A f \in Edits :
        /\ edits'[f] \in EditShapes
        /\ edits'[f].note = edits[f].note /\ edits'[f].before = edits[f].before
        /\ edits'[f].target = edits[f].target
        /\ f = e => edits'[f].pc = "written" /\ edits'[f].raced = edits[f].raced
        /\ f # e => edits'[f].pc = edits[f].pc
        /\ f # e /\ edits[f].pc \in {"gate", "write"} => edits'[f].raced = "yes"
        /\ f # e /\ edits[f].pc \notin {"gate", "write"} => edits'[f].raced = edits[f].raced
  <2> TAKE f \in Edits
  <2>1. edits[f] \in EditShapes
    BY DEF CInv, HeldTyped
  <2>2. CASE f = e
    <3>1. edits'[f] = [edits[f] EXCEPT !.pc = "written"]
      BY <1>3, <2>2
    <3> QED BY <2>1, <2>2, <3>1 DEF EditShapes
  <2>3. CASE f # e /\ edits[f].pc \in {"gate", "write"}
    <3>1. edits'[f] = [edits[f] EXCEPT !.raced = "yes"]
      BY <1>3, <2>3
    <3> QED BY <2>1, <2>3, <3>1 DEF EditShapes
  <2>4. CASE f # e /\ edits[f].pc \notin {"gate", "write"}
    BY <1>3, <2>1, <2>4
  <2> QED BY <2>2, <2>3, <2>4
<1> HIDE DEF row, mode, target
<1>9. HeldTyped'
  BY <1>3, <1>4, <1>5, <1>8 DEF CInv, HeldTyped
<1>10. NoLive'
  BY <1>5, <1>6, <1>8 DEF CInv, NoLive
<1>11. Gated'
  BY <1>3, <1>8 DEF CInv, Gated, GateAllows
<1>12. AsRead'
  BY <1>8 DEF AsRead
<1>13. PromotedEarned'
  <2> SUFFICES ASSUME NEW f \in promoted'
               PROVE  /\ f \in Edits /\ edits'[f].pc \in {"written", "answered"}
                      /\ edits'[f].raced = "yes" \/ Earned(f)'
    BY DEF PromotedEarned
  <2>1. CASE f = e /\ IsPromotion(row.target, target)
    <3>1. closedTrades' = closedTrades
      BY <1>3
    <3>2. /\ edits'[e].pc = "written" /\ edits'[e].raced = edits[e].raced
          /\ edits'[e].note = edits[e].note /\ edits'[e].before = edits[e].before
      BY <1>8
    <3>3. edits[e].raced = "yes" \/ Earned(e)
      BY <1>6, <2>1
    <3> QED BY <2>1, <3>1, <3>2, <3>3 DEF Earned
  <2>2. CASE f \in promoted
    BY <1>3, <1>8, <2>2 DEF CInv, PromotedEarned, Earned
  <2> QED BY <1>7, <2>1, <2>2
<1> QED BY <1>9, <1>10, <1>11, <1>12, <1>13 DEF CInv

-----------------------------------------------------------------------------
(* The steps together                                                      *)

LEMMA EarnedStep == CInv /\ [ConsoleNext]_consoleVars => CInv'
<1> SUFFICES ASSUME CInv, [ConsoleNext]_consoleVars PROVE CInv'
  OBVIOUS
<1>1. ASSUME NEW p \in Panels, Open(p) \/ Poll(p) \/ Arrive(p) \/ PollFails(p) PROVE CInv'
  <2>1. UNCHANGED apiVars
    BY <1>1 DEF Open, Poll, Arrive, PollFails
  <2> QED BY <2>1, Untouched DEF apiVars, CInv, HeldTyped
<1>2. ASSUME NEW e \in Edits, HandlerStep(e) \/ AnswerEdit(e) PROVE CInv'
  BY <1>2, ReadHolds, GateHolds, WriteHolds, AnswerHolds DEF HandlerStep
<1>3. ASSUME NEW e \in OtherEdits, EditElsewhere(e) PROVE CInv'
  <2>1. PICK mode \in Modes \union {"same"}, target \in Targets \union {"same"}, note \in {"", "reviewed"} :
          Send(e, mode, target, note)
    BY <1>3 DEF EditElsewhere
  <2>2. e \in Edits /\ UNCHANGED <<closedTrades, promoted, truth>>
    BY <1>3 DEF EditElsewhere, Edits
  <2> QED BY <2>1, <2>2, SendHolds
<1>4. ASSUME NEW e \in OwnEdits, NEW mode \in Modes, SelectMode(e, mode) PROVE CInv'
  <2>1. e \in Edits /\ UNCHANGED <<closedTrades, promoted, truth>>
    BY <1>4 DEF SelectMode, Edits
  <2>2. CASE UNCHANGED edits
    BY <2>1, <2>2, Untouched DEF CInv, HeldTyped
  <2>3. CASE Send(e, mode, "same", "")
    BY <2>1, <2>3, SendHolds
  <2> QED BY <1>4, <2>2, <2>3 DEF SelectMode
<1>5. ASSUME NEW e \in OwnEdits, AnswerDialog(e) PROVE CInv'
  <2>1. e \in Edits /\ UNCHANGED <<closedTrades, promoted, truth>>
    BY <1>5 DEF AnswerDialog, Edits
  <2>2. CASE UNCHANGED edits
    BY <2>1, <2>2, Untouched DEF CInv, HeldTyped
  <2>3. CASE Send(e, "AUTO", "same", "")
    BY <2>1, <2>3, SendHolds, ConsoleAssumption
  <2> QED BY <1>5, <2>2, <2>3 DEF AnswerDialog
<1>6. ASSUME NEW e \in OwnEdits, NEW target \in Targets, ChangeTarget(e, target) PROVE CInv'
  <2>1. e \in Edits /\ UNCHANGED <<closedTrades, promoted, truth>>
    BY <1>6 DEF ChangeTarget, Edits
  <2>2. PICK note \in {"", "reviewed"} : Send(e, "same", target, note)
    BY <1>6 DEF ChangeTarget
  <2> QED BY <2>1, <2>2, SendHolds
<1>7. ASSUME NEW t \in Targets, TradeCloses(t) PROVE CInv'
  BY <1>7, MoreTrades
<1>8. CASE FlipSwitch \/ Filter \/ \E x \in Proposals : Decide(x)
  <2>1. UNCHANGED <<closedTrades, edits, promoted>>
    BY <1>8 DEF FlipSwitch, Filter, Decide
  <2>2. \E p \in {"switch", "log", "approvals"} : \E v : truth' = [truth EXCEPT ![p] = v]
    BY <1>8 DEF FlipSwitch, Filter, Decide
  <2>3. DOMAIN truth' = Panels /\ truth'["roster"] = truth["roster"]
    BY <2>2 DEF CInv, HeldTyped
  <2> QED BY <2>1, <2>3, Untouched
<1>9. CASE UNCHANGED consoleVars
  BY <1>9, Untouched DEF consoleVars, CInv, HeldTyped
<1> QED BY <1>1, <1>2, <1>3, <1>4, <1>5, <1>6, <1>7, <1>8, <1>9 DEF ConsoleNext

\* A strategy climbs a rung only with a note and enough trades closed on the rung it
\* leaves, unless another write overtook the edit, and never to LIVE: for any number of
\* edits beside each other.
THEOREM PromotionsAreEarned == ConsoleSpec => []PromotionIsEarned
<1>1. CInv => PromotionIsEarned
  BY DEF CInv, NoLive, PromotedEarned, Earned, PromotionIsEarned
<1> QED BY <1>1, EarnedInit, EarnedStep, PTL DEF ConsoleSpec

-----------------------------------------------------------------------------
(* Console: types                                                          *)

Holds(p) == IF p = "roster" THEN RosterRows ELSE {"on", "off"}

PanelsTyped ==
  /\ DOMAIN truth = Panels /\ DOMAIN shown = Panels /\ DOMAIN inflight = Panels
  /\ \A p \in {"roster", "switch"} :
       truth[p] \in Holds(p) /\ shown[p] \in Holds(p) /\ inflight[p] \subseteq Holds(p)

WidgetsTyped ==
  /\ screen \in Panels \union {"none"} /\ flips \in 0..MaxFlips
  /\ busy \in {"yes", "no"} /\ crossed \in {"yes", "no"} /\ failed \in {"yes", "no"}
  /\ dialog \in {"open", "closed"}

TradesTyped == closedTrades \in [Targets -> 0..MinTrades]

ConsoleTypeInv == CInv /\ PanelsTyped /\ WidgetsTyped /\ TradesTyped

LEMMA ConsoleTypesBegin == ConsoleInit => ConsoleTypeInv
<1> SUFFICES ASSUME ConsoleInit PROVE ConsoleTypeInv
  OBVIOUS
<1>1. PICK target \in {"SIM", "PAPER"} : truth = AtFirst(target) /\ shown = AtFirst(target)
  BY DEF ConsoleInit
<1>2. /\ DOMAIN AtFirst(target) = Panels
      /\ AtFirst(target)["roster"] = Row("WATCH", target) /\ AtFirst(target)["switch"] = "off"
  BY DEF AtFirst, Panels
<1>3. Row("WATCH", target) \in RosterRows
  BY ConsoleAssumption DEF Row, RosterRows, Targets
<1>4. inflight = [p \in Panels |-> {}]
  BY DEF ConsoleInit
<1>5. PanelsTyped
  BY <1>1, <1>2, <1>3, <1>4 DEF PanelsTyped, Holds, Panels
<1>6. WidgetsTyped /\ TradesTyped
  BY ConsoleAssumption DEF ConsoleInit, WidgetsTyped, TradesTyped
<1> QED BY <1>5, <1>6, EarnedInit DEF ConsoleTypeInv

\* What polls ask, bring and lose.
LEMMA AnswersTyped ==
  ASSUME PanelsTyped, NEW p \in Panels, Poll(p) \/ Arrive(p) \/ PollFails(p)
  PROVE  PanelsTyped'
<1>1. CASE Poll(p)
  BY <1>1 DEF Poll, PanelsTyped, apiVars
<1>2. CASE Arrive(p)
  <2>1. PICK v \in inflight[p] : /\ inflight' = [inflight EXCEPT ![p] = inflight[p] \ {v}]
                                 /\ shown' = [shown EXCEPT ![p] = v] /\ truth' = truth
    BY <1>2 DEF Arrive, apiVars
  <2> QED BY <2>1 DEF PanelsTyped
<1>3. CASE PollFails(p)
  BY <1>3 DEF PollFails, PanelsTyped, apiVars
<1> QED BY <1>1, <1>2, <1>3

\* What an edit writes and what it is answered with.
LEMMA EditsTyped ==
  ASSUME CInv, PanelsTyped, NEW e \in Edits, HandlerStep(e) \/ AnswerEdit(e)
  PROVE  PanelsTyped'
<1>1. edits[e] \in EditShapes /\ truth["roster"] \in RosterRows
  BY DEF CInv, HeldTyped
<1>2. CASE ReadStrategy(e) /\ UNCHANGED browserVars
  BY <1>2 DEF ReadStrategy, browserVars, PanelsTyped
<1>3. CASE Gate(e) /\ UNCHANGED browserVars
  BY <1>3 DEF Gate, browserVars, PanelsTyped
<1>4. CASE WriteStrategy(e) /\ UNCHANGED browserVars
  <2> DEFINE new == Row(IF edits[e].mode = "same" THEN truth["roster"].mode ELSE edits[e].mode,
                        IF edits[e].target = "same" THEN truth["roster"].target ELSE edits[e].target)
  <2>1. new \in RosterRows
    BY <1>1 DEF Row, RosterRows, EditShapes
  <2>2. truth' = [truth EXCEPT !["roster"] = new] /\ UNCHANGED <<shown, inflight>>
    BY <1>4 DEF WriteStrategy, browserVars
  <2> HIDE DEF new
  <2> QED BY <2>1, <2>2 DEF PanelsTyped, Holds
<1>5. CASE AnswerEdit(e)
  <2> DEFINE new == Row(Becomes(e, "mode"), Becomes(e, "target"))
  <2>1. new \in RosterRows
    <3>1. edits[e].before \in RosterRows
      BY <1>1 DEF EditShapes
    <3>2. Becomes(e, "mode") \in Modes
      BY <1>1, <3>1 DEF Becomes, EditShapes, RosterRows
    <3>3. Becomes(e, "target") \in Targets
      BY <1>1, <3>1 DEF Becomes, EditShapes, RosterRows
    <3> QED BY <3>2, <3>3 DEF Row, RosterRows
  <2>2. /\ UNCHANGED <<truth, inflight>>
        /\ shown' = shown \/ shown' = [shown EXCEPT !["roster"] = new]
    BY <1>5 DEF AnswerEdit
  <2> HIDE DEF new
  <2>3. CASE shown' = shown
    BY <2>2, <2>3 DEF PanelsTyped
  <2>4. CASE shown' = [shown EXCEPT !["roster"] = new]
    <3>1. DOMAIN shown' = Panels /\ shown'["switch"] = shown["switch"]
      BY <2>4 DEF PanelsTyped
    <3>2. shown'["roster"] = new
      BY <2>4 DEF PanelsTyped, Panels
    <3> QED BY <2>1, <2>2, <3>1, <3>2 DEF PanelsTyped, Holds
  <2> QED BY <2>2, <2>3, <2>4
<1> QED BY <1>2, <1>3, <1>4, <1>5 DEF HandlerStep

LEMMA OtherPanels ==
  ASSUME NEW f, NEW p, NEW v
  PROVE  /\ DOMAIN [f EXCEPT ![p] = v] = DOMAIN f
         /\ \A q \in DOMAIN f : q # p => [f EXCEPT ![p] = v][q] = f[q]
  OBVIOUS

LEMMA OthersTyped ==
  ASSUME PanelsTyped, FlipSwitch \/ Filter \/ \E x \in Proposals : Decide(x)
  PROVE  PanelsTyped'
<1>1. CASE FlipSwitch
  <2> DEFINE new == IF truth["switch"] = "on" THEN "off" ELSE "on"
  <2>1. /\ truth' = [truth EXCEPT !["switch"] = new] /\ UNCHANGED shown
        /\ \/ inflight' = [inflight EXCEPT !["switch"] = inflight["switch"] \union {new}]
           \/ inflight' = inflight
    BY <1>1 DEF FlipSwitch
  <2>2. new \in {"on", "off"}
    OBVIOUS
  <2> HIDE DEF new
  <2>3. /\ DOMAIN truth' = Panels /\ DOMAIN shown' = Panels /\ DOMAIN inflight' = Panels
        /\ truth'["roster"] = truth["roster"] /\ inflight'["roster"] = inflight["roster"]
    <3>1. DOMAIN truth' = Panels /\ DOMAIN shown' = Panels /\ truth'["roster"] = truth["roster"]
      BY <2>1, OtherPanels DEF PanelsTyped, Panels
    <3>2. DOMAIN inflight' = Panels /\ inflight'["roster"] = inflight["roster"]
      <4>1. CASE inflight' = inflight
        BY <4>1 DEF PanelsTyped
      <4>2. CASE inflight' = [inflight EXCEPT !["switch"] = inflight["switch"] \union {new}]
        BY <4>2, OtherPanels DEF PanelsTyped, Panels
      <4> QED BY <2>1, <4>1, <4>2
    <3> QED BY <3>1, <3>2
  <2>4. truth'["switch"] = new /\ inflight'["switch"] \subseteq inflight["switch"] \union {new}
    BY <2>1 DEF PanelsTyped, Panels
  <2> QED BY <2>1, <2>2, <2>3, <2>4 DEF PanelsTyped, Holds
<1>2. CASE Filter
  BY <1>2 DEF Filter, PanelsTyped
<1>3. ASSUME NEW x \in Proposals, Decide(x) PROVE PanelsTyped'
  <2>1. /\ truth' = [truth EXCEPT !["approvals"] = truth["approvals"] \ {x}] /\ UNCHANGED inflight
        /\ \/ shown' = [shown EXCEPT !["approvals"] = shown["approvals"] \ {x}]
           \/ shown' = shown
    BY <1>3 DEF Decide
  <2>2. /\ DOMAIN truth' = Panels /\ DOMAIN shown' = Panels
        /\ truth'["roster"] = truth["roster"] /\ shown'["roster"] = shown["roster"]
        /\ truth'["switch"] = truth["switch"] /\ shown'["switch"] = shown["switch"]
    <3> DEFINE left == truth["approvals"] \ {x}
               rest == shown["approvals"] \ {x}
    <3>1. /\ DOMAIN truth' = Panels
          /\ truth'["roster"] = truth["roster"] /\ truth'["switch"] = truth["switch"]
      <4>1. truth' = [truth EXCEPT !["approvals"] = left]
        BY <2>1
      <4> HIDE DEF left
      <4> QED BY <4>1, OtherPanels DEF PanelsTyped, Panels
    <3>2. CASE shown' = shown
      BY <3>1, <3>2 DEF PanelsTyped
    <3>3. CASE shown' = [shown EXCEPT !["approvals"] = rest]
      <4> HIDE DEF rest, left
      <4>1. /\ DOMAIN shown' = Panels
            /\ shown'["roster"] = shown["roster"] /\ shown'["switch"] = shown["switch"]
        BY <3>3, OtherPanels DEF PanelsTyped, Panels
      <4> QED BY <3>1, <4>1
    <3> QED BY <2>1, <3>2, <3>3
  <2> QED BY <2>1, <2>2 DEF PanelsTyped
<1> QED BY <1>1, <1>2, <1>3

LEMMA PanelsStep ==
  ASSUME CInv, PanelsTyped, [ConsoleNext]_consoleVars
  PROVE  PanelsTyped'
<1>1. ASSUME NEW p \in Panels, Open(p) \/ Poll(p) \/ Arrive(p) \/ PollFails(p) PROVE PanelsTyped'
  BY <1>1, AnswersTyped DEF Open, PanelsTyped, apiVars, browserVars
<1>2. ASSUME NEW e \in Edits, HandlerStep(e) \/ AnswerEdit(e) PROVE PanelsTyped'
  BY <1>2, EditsTyped
<1>3. ASSUME UNCHANGED <<truth, shown, inflight>> PROVE PanelsTyped'
  BY <1>3 DEF PanelsTyped
<1>4. ASSUME NEW e \in OtherEdits, EditElsewhere(e) PROVE PanelsTyped'
  BY <1>3, <1>4 DEF EditElsewhere, browserVars
<1>5. ASSUME NEW e \in OwnEdits, AnswerDialog(e) PROVE PanelsTyped'
  BY <1>3, <1>5 DEF AnswerDialog
<1>6. ASSUME NEW e \in OwnEdits, NEW mode \in Modes, SelectMode(e, mode) PROVE PanelsTyped'
  BY <1>3, <1>6 DEF SelectMode
<1>7. ASSUME NEW e \in OwnEdits, NEW target \in Targets, ChangeTarget(e, target) PROVE PanelsTyped'
  BY <1>3, <1>7 DEF ChangeTarget
<1>8. ASSUME NEW t \in Targets, TradeCloses(t) PROVE PanelsTyped'
  BY <1>3, <1>8 DEF TradeCloses, browserVars
<1>9. CASE UNCHANGED consoleVars
  BY <1>3, <1>9 DEF consoleVars
<1> QED BY <1>1, <1>2, <1>4, <1>5, <1>6, <1>7, <1>8, <1>9, OthersTyped DEF ConsoleNext

LEMMA WidgetsStep ==
  ASSUME WidgetsTyped, [ConsoleNext]_consoleVars
  PROVE  WidgetsTyped'
<1> USE DEF WidgetsTyped
<1>1. ASSUME NEW p \in Panels, Open(p) \/ Poll(p) \/ Arrive(p) \/ PollFails(p) PROVE WidgetsTyped'
  BY <1>1 DEF Open, Poll, Arrive, PollFails, browserVars
<1>2. ASSUME NEW e \in Edits, HandlerStep(e) \/ AnswerEdit(e) PROVE WidgetsTyped'
  BY <1>2 DEF HandlerStep, AnswerEdit, browserVars
<1>3. ASSUME NEW e \in OtherEdits, EditElsewhere(e) PROVE WidgetsTyped'
  BY <1>3 DEF EditElsewhere, browserVars
<1>4. ASSUME NEW e \in OwnEdits, AnswerDialog(e) PROVE WidgetsTyped'
  BY <1>4 DEF AnswerDialog
<1>5. ASSUME NEW e \in OwnEdits, NEW mode \in Modes, SelectMode(e, mode) PROVE WidgetsTyped'
  BY <1>5 DEF SelectMode
<1>6. ASSUME NEW e \in OwnEdits, NEW target \in Targets, ChangeTarget(e, target) PROVE WidgetsTyped'
  BY <1>6 DEF ChangeTarget
<1>7. ASSUME NEW t \in Targets, TradeCloses(t) PROVE WidgetsTyped'
  BY <1>7 DEF TradeCloses, browserVars
<1>8. ASSUME NEW x \in Proposals, Decide(x) PROVE WidgetsTyped'
  BY <1>8 DEF Decide
<1>9. CASE FlipSwitch \/ Filter
  BY <1>9, ConsoleAssumption DEF FlipSwitch, Filter
<1>10. CASE UNCHANGED consoleVars
  BY <1>10 DEF consoleVars
<1> QED BY <1>1, <1>2, <1>3, <1>4, <1>5, <1>6, <1>7, <1>8, <1>9, <1>10 DEF ConsoleNext

LEMMA TradesStep ==
  ASSUME TradesTyped, [ConsoleNext]_consoleVars
  PROVE  TradesTyped'
<1>1. ASSUME NEW t \in Targets, TradeCloses(t) PROVE TradesTyped'
  <2>1. closedTrades[t] < MinTrades /\ closedTrades' = [closedTrades EXCEPT ![t] = closedTrades[t] + 1]
    BY <1>1 DEF TradeCloses
  <2>2. closedTrades[t] \in 0..MinTrades /\ MinTrades \in Nat
    BY ConsoleAssumption DEF TradesTyped
  <2>3. closedTrades[t] + 1 \in 0..MinTrades
    BY <2>1, <2>2
  <2> QED BY <2>1, <2>3 DEF TradesTyped
<1>2. ASSUME UNCHANGED closedTrades PROVE TradesTyped'
  BY <1>2 DEF TradesTyped
<1>3. ASSUME NEW p \in Panels, Open(p) \/ Poll(p) \/ Arrive(p) \/ PollFails(p) PROVE TradesTyped'
  BY <1>2, <1>3 DEF Open, Poll, Arrive, PollFails, apiVars
<1>4. ASSUME NEW e \in Edits, HandlerStep(e) \/ AnswerEdit(e) PROVE TradesTyped'
  BY <1>2, <1>4 DEF HandlerStep, ReadStrategy, Gate, WriteStrategy, AnswerEdit
<1>5. ASSUME NEW e \in OtherEdits, EditElsewhere(e) PROVE TradesTyped'
  BY <1>2, <1>5 DEF EditElsewhere
<1>6. ASSUME NEW e \in OwnEdits, AnswerDialog(e) PROVE TradesTyped'
  BY <1>2, <1>6 DEF AnswerDialog
<1>7. ASSUME NEW e \in OwnEdits, NEW mode \in Modes, SelectMode(e, mode) PROVE TradesTyped'
  BY <1>2, <1>7 DEF SelectMode
<1>8. ASSUME NEW e \in OwnEdits, NEW target \in Targets, ChangeTarget(e, target) PROVE TradesTyped'
  BY <1>2, <1>8 DEF ChangeTarget
<1>9. CASE FlipSwitch \/ Filter \/ \E x \in Proposals : Decide(x)
  BY <1>2, <1>9 DEF FlipSwitch, Filter, Decide
<1>10. CASE UNCHANGED consoleVars
  BY <1>2, <1>10 DEF consoleVars
<1> QED BY <1>1, <1>3, <1>4, <1>5, <1>6, <1>7, <1>8, <1>9, <1>10 DEF ConsoleNext

LEMMA ConsoleTypesStep == ConsoleTypeInv /\ [ConsoleNext]_consoleVars => ConsoleTypeInv'
  BY EarnedStep, PanelsStep, WidgetsStep, TradesStep DEF ConsoleTypeInv

LEMMA ConsoleTypesImplied == ConsoleTypeInv => ConsoleTypeOK
<1> SUFFICES ASSUME ConsoleTypeInv PROVE ConsoleTypeOK
  OBVIOUS
<1>1. \A e \in Edits :
        /\ edits[e].pc \in {"unsent", "read", "gate", "write", "written", "refused", "answered"}
        /\ edits[e].mode \in Modes \union {"same"} /\ edits[e].target \in Targets \union {"same"}
        /\ edits[e].note \in {"", "reviewed"} /\ edits[e].raced \in {"yes", "no"}
  BY DEF ConsoleTypeInv, CInv, HeldTyped, EditShapes
<1>2. promoted \subseteq Edits
  BY DEF ConsoleTypeInv, CInv, PromotedEarned
<1>3. \A r \in {truth["roster"], shown["roster"]} \union inflight["roster"] : r \in [mode : Modes, target : Targets]
  BY DEF ConsoleTypeInv, PanelsTyped, Holds, RosterRows
<1>4. \A v \in {truth["switch"], shown["switch"]} \union inflight["switch"] : v \in {"on", "off"}
  BY DEF ConsoleTypeInv, PanelsTyped, Holds
<1> QED BY <1>1, <1>2, <1>3, <1>4 DEF ConsoleTypeInv, ConsoleTypeOK, WidgetsTyped, TradesTyped

\* Every variable of the dashboard and of what it edits keeps its type.
THEOREM ConsoleTyped == ConsoleSpec => []ConsoleTypeOK
<1> QED BY ConsoleTypesBegin, ConsoleTypesStep, ConsoleTypesImplied, PTL DEF ConsoleSpec

-----------------------------------------------------------------------------
(* Telegram: what the invariant says                                       *)

PressShapes == [of : Offers, verb : Verbs]

PollerShapes ==
  [pc : {"poll", "next", "read", "act", "answer"}, offset : 0..MaxPresses + 1,
   batch : SUBSET Updates, now : 0..MaxPresses]

ChatTyped ==
  /\ chat \in [Offers -> {"unsent", "lost", "buttons", "outcome"}]
  /\ status \in [Offers -> {"pending", "executed", "rejected"}]
  /\ restarts \in Nat

PressesTyped ==
  /\ presses \in Seq(PressShapes) /\ Len(presses) <= MaxPresses
  /\ kept \subseteq DOMAIN presses /\ heard \subseteq DOMAIN presses

\* The poller fetches updates there are, and goes through them until none is left.
PollerTyped ==
  /\ poller \in PollerShapes /\ poller.batch \subseteq DOMAIN presses
  /\ poller.offset <= Len(presses) + 1
  /\ poller.pc = "next" => poller.batch # {}
  /\ poller.pc \in {"read", "act", "answer"} => poller.now \in DOMAIN presses

\* What is below the offset was handled, or is being handled.
OffsetInv ==
  \A n \in DOMAIN presses : n < poller.offset =>
    n \in heard \/ (poller.pc \in {"read", "act"} /\ n = poller.now)

\* What was fetched has no gaps: a press between the offset and a fetched one that
\* nobody handled was fetched as well.
BatchInv ==
  \A n \in DOMAIN presses \ heard : \A k \in poller.batch :
    poller.offset <= n /\ n < k => n \in poller.batch

TelegramInv == ChatTyped /\ PressesTyped /\ PollerTyped /\ OffsetInv /\ BatchInv /\ PressesKept

LEMMA TelegramBegins == TelegramInit => TelegramInv
<1> SUFFICES ASSUME TelegramInit PROVE TelegramInv
  OBVIOUS
<1>1. presses = <<>> /\ DOMAIN presses = {} /\ kept = {} /\ heard = {}
  BY DEF TelegramInit
<1>2. ChatTyped
  BY TelegramAssumption DEF TelegramInit, ChatTyped
<1>3. PressesTyped
  BY <1>1, TelegramAssumption DEF PressesTyped
<1>4. PollerTyped
  BY <1>1, TelegramAssumption DEF TelegramInit, FreshPoller, PollerTyped, PollerShapes
<1> QED BY <1>1, <1>2, <1>3, <1>4 DEF TelegramInv, OffsetInv, BatchInv, PressesKept

-----------------------------------------------------------------------------
(* Telegram: the poller                                                    *)

\* The poller as its parts.
LEMMA PollerBecomes ==
  ASSUME NEW r \in PollerShapes, NEW pc, NEW got
  PROVE  /\ [r EXCEPT !.pc = pc] = [pc |-> pc, offset |-> r.offset, batch |-> r.batch, now |-> r.now]
         /\ [r EXCEPT !.batch = got, !.pc = pc]
              = [pc |-> pc, offset |-> r.offset, batch |-> got, now |-> r.now]
<1>1. PICK p, o, b, n : r = [pc |-> p, offset |-> o, batch |-> b, now |-> n]
  BY DEF PollerShapes
<1>2. [r EXCEPT !.pc = pc] = [pc |-> pc, offset |-> r.offset, batch |-> r.batch, now |-> r.now]
  BY <1>1
<1>3. [r EXCEPT !.batch = got, !.pc = pc] = [pc |-> pc, offset |-> o, batch |-> got, now |-> n]
  <2>1. [r EXCEPT !.batch = got, !.pc = pc] = [[r EXCEPT !.batch = got] EXCEPT !.pc = pc]
    OBVIOUS
  <2>2. [r EXCEPT !.batch = got] = [pc |-> p, offset |-> o, batch |-> got, now |-> n]
    BY <1>1
  <2>3. [[pc |-> p, offset |-> o, batch |-> got, now |-> n] EXCEPT !.pc = pc]
          = [pc |-> pc, offset |-> o, batch |-> got, now |-> n]
    OBVIOUS
  <2> QED BY <2>1, <2>2, <2>3
<1>4. r.offset = o /\ r.now = n
  BY <1>1
<1> QED BY <1>2, <1>3, <1>4

LEMMA FetchHolds ==
  ASSUME TelegramInv, GetUpdates
  PROVE  TelegramInv'
<1>1. /\ poller.pc = "poll" /\ kept' = {n \in kept : n >= poller.offset}
      /\ UNCHANGED <<chat, status, presses, heard, restarts>>
  BY DEF GetUpdates
<1>2. PICK got \in {kept', {}} :
        poller' = [poller EXCEPT !.batch = got, !.pc = IF got = {} THEN "poll" ELSE "next"]
  BY DEF GetUpdates, CallOutcomes
<1>3. poller \in PollerShapes /\ presses \in Seq(PressShapes) /\ Len(presses) <= MaxPresses
  BY DEF TelegramInv, PollerTyped, PressesTyped
<1>4. poller' = [pc |-> IF got = {} THEN "poll" ELSE "next", offset |-> poller.offset,
                 batch |-> got, now |-> poller.now]
  BY <1>2, <1>3, PollerBecomes
<1>5. kept' \subseteq DOMAIN presses /\ got \subseteq DOMAIN presses
  BY <1>1 DEF TelegramInv, PressesTyped
<1>6. DOMAIN presses = 1..Len(presses) /\ DOMAIN presses \subseteq Updates
  BY <1>3, TelegramAssumption DEF Updates
<1>7. ChatTyped' /\ PressesTyped'
  BY <1>1, <1>5 DEF TelegramInv, ChatTyped, PressesTyped
<1>8. poller' \in PollerShapes
  BY <1>3, <1>4, <1>5, <1>6 DEF PollerShapes
<1>9. PollerTyped'
  <2>1. /\ poller'.batch = got /\ poller'.offset = poller.offset /\ presses' = presses
        /\ poller'.pc = IF got = {} THEN "poll" ELSE "next"
    BY <1>1, <1>4
  <2>2. poller.offset <= Len(presses) + 1
    BY DEF TelegramInv, PollerTyped
  <2> QED BY <1>5, <1>8, <2>1, <2>2 DEF PollerTyped
<1>10. PressesKept'
  <2> SUFFICES ASSUME NEW n \in DOMAIN presses, n \notin heard PROVE n \in kept'
    BY <1>1 DEF PressesKept
  <2>1. n \in kept
    BY DEF TelegramInv, PressesKept
  <2>2. ~(n < poller.offset)
    BY <1>1 DEF TelegramInv, OffsetInv
  <2>3. n \in Nat /\ poller.offset \in Nat
    BY <1>3, <1>6, TelegramAssumption DEF PollerShapes
  <2> QED BY <1>1, <2>1, <2>2, <2>3
<1>11. OffsetInv'
  BY <1>1, <1>4 DEF TelegramInv, OffsetInv
<1>12. BatchInv'
  <2> SUFFICES ASSUME NEW n \in DOMAIN presses \ heard, NEW k \in got PROVE n \in got
    BY <1>1, <1>4 DEF BatchInv
  <2>1. n \in kept'
    BY <1>1, <1>10 DEF PressesKept
  <2> QED BY <1>2, <2>1
<1> QED BY <1>7, <1>9, <1>10, <1>11, <1>12 DEF TelegramInv

LEMMA NextHolds ==
  ASSUME TelegramInv, NextUpdate
  PROVE  TelegramInv'
<1> DEFINE n == Min(poller.batch)
<1>1. /\ poller.pc = "next" /\ UNCHANGED <<chat, status, presses, kept, heard, restarts>>
      /\ poller' = [pc |-> "read", offset |-> IF n < poller.offset THEN poller.offset ELSE n + 1,
                    batch |-> poller.batch \ {n}, now |-> n]
  BY DEF NextUpdate, Min
<1>2. /\ poller \in PollerShapes /\ presses \in Seq(PressShapes) /\ Len(presses) <= MaxPresses
      /\ poller.batch \subseteq DOMAIN presses /\ poller.batch # {}
  BY <1>1 DEF TelegramInv, PollerTyped, PressesTyped
<1>3. DOMAIN presses \subseteq Nat /\ DOMAIN presses \subseteq Updates /\ Len(presses) \in Nat
  BY <1>2, TelegramAssumption DEF Updates
<1>4. n \in poller.batch /\ \A k \in poller.batch : n <= k
  BY <1>2, <1>3, LeastOf
<1> HIDE DEF n
<1>5. n \in DOMAIN presses /\ n \in Nat /\ n \in Updates
  BY <1>2, <1>3, <1>4
<1>6. poller.offset \in 0..MaxPresses + 1 /\ poller.batch \subseteq Updates
  BY <1>2 DEF PollerShapes
<1>7. /\ poller'.pc = "read" /\ poller'.batch = poller.batch \ {n} /\ poller'.now = n
      /\ poller'.offset = IF n < poller.offset THEN poller.offset ELSE n + 1
  BY <1>1
<1>8. poller'.offset \in 0..MaxPresses + 1
  BY <1>5, <1>6, <1>7, TelegramAssumption DEF Updates
<1>9. poller' \in PollerShapes
  <2>1. n \in 0..MaxPresses
    BY <1>5, TelegramAssumption DEF Updates
  <2> QED BY <1>1, <1>6, <1>7, <1>8, <2>1 DEF PollerShapes
<1>10. PollerTyped'
  <2>1. poller.offset <= Len(presses) + 1
    BY DEF TelegramInv, PollerTyped
  <2>2. n <= Len(presses) /\ poller.offset \in Nat
    BY <1>2, <1>5, <1>6, TelegramAssumption
  <2>3. poller'.offset <= Len(presses) + 1
    BY <1>3, <1>5, <1>7, <2>1, <2>2
  <2>4. poller'.batch \subseteq DOMAIN presses /\ presses' = presses
    BY <1>1, <1>2, <1>7
  <2> QED BY <1>5, <1>7, <1>9, <2>3, <2>4 DEF PollerTyped
<1>11. ChatTyped' /\ PressesTyped' /\ PressesKept'
  BY <1>1 DEF TelegramInv, ChatTyped, PressesTyped, PressesKept
<1>12. OffsetInv'
  <2> SUFFICES ASSUME NEW m \in DOMAIN presses, m < poller'.offset, m \notin heard PROVE m = n
    BY <1>1, <1>7 DEF OffsetInv
  <2>1. ~(m < poller.offset)
    BY <1>1 DEF TelegramInv, OffsetInv
  <2>2. m \in Nat /\ poller.offset \in Nat
    BY <1>3, <1>6, TelegramAssumption
  <2>3. ~(n < poller.offset) /\ m <= n
    BY <1>5, <1>7, <2>1, <2>2
  <2>4. m < n => m \in poller.batch
    BY <1>4, <2>1, <2>2 DEF TelegramInv, BatchInv
  <2> QED BY <1>4, <1>5, <2>2, <2>3, <2>4
<1>13. BatchInv'
  <2> SUFFICES ASSUME NEW m \in DOMAIN presses \ heard, NEW k \in poller.batch \ {n},
                      poller'.offset <= m, m < k
               PROVE  m \in poller.batch \ {n}
    BY <1>1, <1>7 DEF BatchInv
  <2>1. m \in Nat /\ poller.offset \in Nat
    BY <1>3, <1>6, TelegramAssumption
  <2>2. poller.offset <= m /\ m # n
    BY <1>5, <1>7, <2>1
  <2> QED BY <2>2 DEF TelegramInv, BatchInv
<1> QED BY <1>10, <1>11, <1>12, <1>13 DEF TelegramInv

\* What moves the poller on without fetching or taking an update, and lets it forget the
\* update in hand only once it was heard.
LEMMA HandlerMoves ==
  ASSUME TelegramInv, NEW pc \in {"poll", "next", "act", "answer"},
         poller' = [poller EXCEPT !.pc = pc], UNCHANGED <<presses, kept, restarts>>,
         ChatTyped', heard \subseteq heard', heard' \subseteq DOMAIN presses,
         poller.pc \in {"read", "act", "answer"},
         poller.pc \in {"read", "act"} => pc = "act" \/ poller.now \in heard',
         pc = "next" => poller.batch # {}
  PROVE  TelegramInv'
<1>1. poller \in PollerShapes /\ poller.now \in DOMAIN presses
  BY DEF TelegramInv, PollerTyped
<1>2. poller' = [pc |-> pc, offset |-> poller.offset, batch |-> poller.batch, now |-> poller.now]
  BY <1>1, PollerBecomes
<1>3. PollerTyped'
  BY <1>1, <1>2 DEF TelegramInv, PollerTyped, PollerShapes
<1>4. PressesTyped' /\ PressesKept'
  BY DEF TelegramInv, PressesTyped, PressesKept
<1>5. OffsetInv'
  <2> SUFFICES ASSUME NEW n \in DOMAIN presses, n < poller.offset, n \notin heard'
               PROVE  pc = "act" /\ n = poller.now
    BY <1>2 DEF OffsetInv
  <2> QED BY DEF TelegramInv, OffsetInv
<1>6. BatchInv'
  BY <1>2 DEF TelegramInv, BatchInv
<1> QED BY <1>3, <1>4, <1>5, <1>6 DEF TelegramInv

\* The update in hand is a press of one of the offers.
LEMMA InHand ==
  ASSUME TelegramInv, poller.pc \in {"read", "act", "answer"}
  PROVE  Pressed.of \in Offers /\ poller.now \in DOMAIN presses
<1>1. poller.now \in DOMAIN presses /\ presses \in Seq(PressShapes)
  BY DEF TelegramInv, PollerTyped, PressesTyped
<1>2. presses[poller.now] \in PressShapes
  BY <1>1
<1> QED BY <1>1, <1>2 DEF PressShapes, Pressed

LEMMA BecomeTyped ==
  ASSUME ChatTyped, NEW p \in Offers, NEW s \in {"executed", "rejected"}, Become(p, s),
         UNCHANGED <<chat, restarts>>
  PROVE  ChatTyped'
  BY DEF ChatTyped, Become

LEMMA HandlerHolds ==
  ASSUME TelegramInv, ReadOffer \/ Act \/ Answer
  PROVE  TelegramInv'
<1>1. heard \subseteq DOMAIN presses
  BY DEF TelegramInv, PressesTyped
<1>2. CASE ReadOffer
  <2>1. poller.pc = "read" /\ UNCHANGED <<chat, status, presses, kept, restarts>>
    BY <1>2 DEF ReadOffer
  <2>2. ChatTyped'
    BY <2>1 DEF TelegramInv, ChatTyped
  <2>3. CASE poller' = [poller EXCEPT !.pc = "act"] /\ UNCHANGED heard
    BY <1>1, <2>1, <2>2, <2>3, HandlerMoves
  <2>4. CASE poller' = [poller EXCEPT !.pc = "answer"] /\ heard' = heard \union {poller.now}
    BY <1>1, <2>1, <2>2, <2>4, HandlerMoves, InHand
  <2> QED BY <1>2, <2>3, <2>4 DEF ReadOffer
<1>3. CASE Act
  <2>1. /\ poller.pc = "act" /\ UNCHANGED <<chat, presses, kept, restarts>>
        /\ heard' = heard \union {poller.now} /\ poller' = [poller EXCEPT !.pc = "answer"]
    BY <1>3 DEF Act
  <2>2. ChatTyped'
    <3>1. CASE UNCHANGED status
      BY <2>1, <3>1 DEF TelegramInv, ChatTyped
    <3>2. CASE Become(Pressed.of, IF Pressed.verb = "approve" THEN "executed" ELSE "rejected")
      BY <2>1, <3>2, InHand, BecomeTyped DEF TelegramInv
    <3> QED BY <1>3, <3>1, <3>2 DEF Act
  <2> QED BY <1>1, <2>1, <2>2, HandlerMoves, InHand
<1>4. CASE Answer
  <2> DEFINE pc == IF poller.batch = {} THEN "poll" ELSE "next"
  <2>1. /\ poller.pc = "answer" /\ UNCHANGED <<status, presses, kept, heard, restarts>>
        /\ poller' = [poller EXCEPT !.pc = pc]
    BY <1>4 DEF Answer
  <2>2. PICK m \in {"outcome", chat[Pressed.of]} : chat' = [chat EXCEPT ![Pressed.of] = m]
    BY <1>4 DEF Answer, CallOutcomes
  <2>3. ChatTyped'
    BY <2>1, <2>2, InHand DEF TelegramInv, ChatTyped
  <2>4. pc \in {"poll", "next"} /\ (pc = "next" => poller.batch # {})
    OBVIOUS
  <2> HIDE DEF pc
  <2> QED BY <1>1, <2>1, <2>3, <2>4, HandlerMoves
<1> QED BY <1>2, <1>3, <1>4

LEMMA RestartHolds ==
  ASSUME TelegramInv, PollerRestarts
  PROVE  TelegramInv'
<1>1. /\ poller' = [pc |-> "poll", offset |-> 0, batch |-> {}, now |-> 0]
      /\ restarts > 0 /\ restarts' = restarts - 1 /\ UNCHANGED <<chat, status, presses, kept, heard>>
  BY DEF PollerRestarts, FreshPoller
<1>2. ChatTyped' /\ PressesTyped' /\ PressesKept'
  BY <1>1 DEF TelegramInv, ChatTyped, PressesTyped, PressesKept
<1>3. PollerTyped'
  BY <1>1, TelegramAssumption DEF PollerTyped, PollerShapes
<1>4. \A n \in DOMAIN presses : ~(n < 0)
  BY DEF TelegramInv, PressesTyped
<1> QED BY <1>1, <1>2, <1>3, <1>4 DEF TelegramInv, OffsetInv, BatchInv

-----------------------------------------------------------------------------
(* Telegram: the chat, and the steps together                              *)

LEMMA PressHolds ==
  ASSUME TelegramInv, NEW p \in Offers, NEW verb \in Verbs, Press(p, verb)
  PROVE  TelegramInv'
<1> DEFINE press == [of |-> p, verb |-> verb]
<1>1. /\ Len(presses) < MaxPresses /\ presses' = Append(presses, press)
      /\ kept' = kept \union {Len(presses')} /\ UNCHANGED <<chat, status, poller, heard, restarts>>
  BY DEF Press
<1>2. presses \in Seq(PressShapes) /\ press \in PressShapes /\ Len(presses) \in Nat
  BY DEF TelegramInv, PressesTyped, PressShapes
<1> HIDE DEF press
<1>3. /\ presses' \in Seq(PressShapes) /\ Len(presses') = Len(presses) + 1
      /\ DOMAIN presses = 1..Len(presses) /\ DOMAIN presses' = 1..Len(presses) + 1
  BY <1>1, <1>2
<1>4. DOMAIN presses' = DOMAIN presses \union {Len(presses) + 1}
  BY <1>2, <1>3
<1>5. ChatTyped'
  BY <1>1 DEF TelegramInv, ChatTyped
<1>6. PressesTyped'
  <2>1. Len(presses') <= MaxPresses
    BY <1>1, <1>2, <1>3, TelegramAssumption
  <2> QED BY <1>1, <1>3, <1>4, <2>1 DEF TelegramInv, PressesTyped
<1>7. PollerTyped'
  <2>1. /\ poller \in PollerShapes /\ poller.offset <= Len(presses) + 1
        /\ poller.batch \subseteq DOMAIN presses
        /\ poller.pc = "next" => poller.batch # {}
        /\ poller.pc \in {"read", "act", "answer"} => poller.now \in DOMAIN presses
    BY DEF TelegramInv, PollerTyped
  <2>2. poller.offset \in Nat
    BY <2>1, TelegramAssumption DEF PollerShapes
  <2>3. poller.offset <= Len(presses') + 1
    BY <1>2, <1>3, <2>1, <2>2
  <2>4. DOMAIN presses \subseteq DOMAIN presses' /\ poller' = poller
    BY <1>1, <1>4
  <2> QED BY <2>1, <2>3, <2>4 DEF PollerTyped
<1>8. PressesKept'
  BY <1>1, <1>3, <1>4 DEF TelegramInv, PressesKept
<1>9. poller.offset <= Len(presses) + 1 /\ \A k \in poller.batch : k <= Len(presses)
  <2>1. \A k \in poller.batch : k \in 1..Len(presses)
    BY <1>3 DEF TelegramInv, PollerTyped
  <2> QED BY <1>2, <2>1 DEF TelegramInv, PollerTyped
<1>10. OffsetInv'
  <2> SUFFICES ASSUME NEW n \in DOMAIN presses', n < poller.offset
               PROVE  n \in heard \/ (poller.pc \in {"read", "act"} /\ n = poller.now)
    BY <1>1 DEF OffsetInv
  <2>1. n # Len(presses) + 1
    <3>1. poller.offset \in Nat
      BY TelegramAssumption DEF TelegramInv, PollerTyped, PollerShapes
    <3> QED BY <1>2, <1>9, <3>1
  <2> QED BY <1>4, <2>1 DEF TelegramInv, OffsetInv
<1>11. BatchInv'
  <2> SUFFICES ASSUME NEW n \in DOMAIN presses' \ heard, NEW k \in poller.batch, poller.offset <= n, n < k
               PROVE  n \in poller.batch
    BY <1>1 DEF BatchInv
  <2>1. k \in Nat /\ k <= Len(presses)
    BY <1>3, <1>9 DEF TelegramInv, PollerTyped
  <2>2. n # Len(presses) + 1
    BY <1>2, <2>1
  <2> QED BY <1>4, <2>2 DEF TelegramInv, BatchInv
<1> QED BY <1>5, <1>6, <1>7, <1>8, <1>10, <1>11 DEF TelegramInv

LEMMA OffersHold ==
  ASSUME TelegramInv, NEW p \in Offers,
         ProposalPending(p) \/ \E verb \in Verbs : DecideByHttp(p, verb)
  PROVE  TelegramInv'
<1>1. UNCHANGED <<presses, kept, poller, heard, restarts>>
  BY DEF ProposalPending, DecideByHttp
<1>2. ChatTyped'
  <2>1. CASE ProposalPending(p)
    <3>1. PICK m \in {"buttons", "lost"} : chat' = [chat EXCEPT ![p] = m]
      BY <2>1 DEF ProposalPending, CallOutcomes
    <3> QED BY <2>1, <3>1 DEF ProposalPending, TelegramInv, ChatTyped
  <2>2. ASSUME NEW verb \in Verbs, DecideByHttp(p, verb) PROVE ChatTyped'
    BY <2>2, BecomeTyped DEF DecideByHttp, TelegramInv
  <2> QED BY <2>1, <2>2
<1> QED BY <1>1, <1>2
        DEF TelegramInv, PressesTyped, PollerTyped, OffsetInv, BatchInv, PressesKept

LEMMA TelegramStep == TelegramInv /\ [TelegramNext]_telegramVars => TelegramInv'
<1> SUFFICES ASSUME TelegramInv, [TelegramNext]_telegramVars PROVE TelegramInv'
  OBVIOUS
<1>1. CASE UNCHANGED telegramVars
  BY <1>1 DEF telegramVars, TelegramInv, ChatTyped, PressesTyped, PollerTyped, OffsetInv, BatchInv,
              PressesKept
<1> QED BY <1>1, FetchHolds, NextHolds, HandlerHolds, RestartHolds, PressHolds, OffersHold
        DEF TelegramNext, PollerStep

\* Telegram forgets a press only once its handler came to an end: for any number of
\* offers, presses and restarts, and whichever polls fail.
THEOREM PressesAreKept == TelegramSpec => []PressesKept
<1>1. TelegramInv => PressesKept
  BY DEF TelegramInv
<1> QED BY <1>1, TelegramBegins, TelegramStep, PTL DEF TelegramSpec

\* Every variable of the decisions over Telegram keeps its type.
THEOREM TelegramTyped == TelegramSpec => []TelegramTypeOK
<1>1. TelegramInv => TelegramTypeOK
  BY DEF TelegramInv, ChatTyped, PressesTyped, PollerTyped, PressShapes, PollerShapes, TelegramTypeOK
<1> QED BY <1>1, TelegramBegins, TelegramStep, PTL DEF TelegramSpec

-----------------------------------------------------------------------------
(* The five components beside each other                                   *)

\* What is explored together is, seen from each component, that component: what is shown
\* of its own specification holds of the whole.
THEOREM EdgesAreComponents == Spec => SnapSpec /\ FeedSpec /\ UptimeSpec /\ ConsoleSpec /\ TelegramSpec
<1>1. Init => SnapInit /\ FeedInit /\ UptimeInit /\ ConsoleInit /\ TelegramInit
  BY DEF Init
<1>2. [Next]_vars => [SnapNext]_snapVars
  BY DEF Next, vars
<1>3. [Next]_vars => [FeedNext]_feedVars
  BY DEF Next, vars
<1>4. [Next]_vars => [UptimeNext]_uptimeVars
  BY DEF Next, vars
<1>5. [Next]_vars => [ConsoleNext]_consoleVars
  BY DEF Next, vars
<1>6. [Next]_vars => [TelegramNext]_telegramVars
  BY DEF Next, vars
<1> QED BY <1>1, <1>2, <1>3, <1>4, <1>5, <1>6, PTL
        DEF Spec, SnapSpec, FeedSpec, UptimeSpec, ConsoleSpec, TelegramSpec

\* Every variable of the five keeps its type.
THEOREM EdgesTyped == Spec => []TypesOK
<1>1. SnapTypeOK /\ FeedTypeOK /\ UptimeTypeOK /\ ConsoleTypeOK /\ TelegramTypeOK => TypesOK
  BY DEF TypesOK
<1> QED BY <1>1, EdgesAreComponents, SnapTyped, FeedTyped, UptimeTyped, ConsoleTyped, TelegramTyped, PTL
=============================================================================
