-------------------------------- MODULE Feed --------------------------------
(***************************************************************************)
(* The market-data adapter: the connection and its reconnects              *)
(* (market-data/ib-connection.ts), the paced queue of historical requests  *)
(* (pacing-queue.ts), the service that routes answers to requests          *)
(* (market-data.service.ts) and the two processes that use it: the api,    *)
(* which subscribes to realtime bars, and the backfill command             *)
(* (ingest/backfill.ts).  Delays are abstracted to their end.              *)
(***************************************************************************)
EXTENDS Naturals

CONSTANTS
  Tickers,       \* the tickers configured
  LastItem,      \* the backfill fetches items 1..LastItem, a ticker and timeframe each
  MaxRetries,    \* the queue's retries of a paced request
  LastClient     \* bound on the clients opened; the last one is not dropped

VARIABLES
  role,         \* "api" or "backfill": the process
  sock,         \* client -> its socket
  client,       \* IbConnection.client, 0 for none
  connected,    \* IbConnection.connected
  closedByUser,
  timer,        \* reconnectTimer
  subscribed,   \* client -> tickers with realtime bars
  runner,       \* the backfill and the queue item it awaits
  reqSeq,
  pending,      \* reqId -> the item asked for and whose bars were collected
  answers,      \* historical streams at the broker
  stored,       \* item -> the items its written candles are of
  outcome,      \* item -> how its request ended
  live          \* tickers with a realtime candle written

feedVars == <<role, sock, client, connected, closedByUser, timer, subscribed, runner, reqSeq,
              pending, answers, stored, outcome, live>>

ASSUME FeedAssumption == LastItem \in Nat /\ MaxRetries \in Nat /\ LastClient \in Nat \ {0}

Clients == 1..LastClient
Items   == 1..LastItem

connectionVars == <<sock, client, connected, closedByUser, timer, subscribed>>
backfillVars   == <<runner, reqSeq, pending, answers, stored, outcome, live>>

ConnectionInit ==
  /\ sock = [c \in Clients |-> "none"]
  /\ client = 0
  /\ connected = "no" /\ closedByUser = "no" /\ timer = "off"
  /\ subscribed = [c \in Clients |-> {}]

\* What the service holds before it is started.
ServiceInit ==
  /\ runner = [pc |-> "start", item |-> 0, attempt |-> 0, req |-> 0]
  /\ reqSeq = 1
  /\ pending = [r \in {} |-> r]
  /\ answers = {}
  /\ stored = [i \in Items |-> {}]
  /\ outcome = [i \in Items |-> "none"]
  /\ live = {}

FeedInit == role \in {"api", "backfill"} /\ ConnectionInit /\ ServiceInit

-----------------------------------------------------------------------------
(* The connection                                                          *)

\* teardownClient drops the listeners of the old client, and its socket only when it
\* was connected.  connect may throw at once, which schedules the next attempt.
OpenClient ==
  /\ client < LastClient
  /\ client' = client + 1
  /\ \E how \in {"opening", "dead"} :
       /\ how = "dead" => client' < LastClient
       /\ sock' = [c \in Clients |-> CASE c = client' -> how
                                       [] c = client /\ connected = "yes" -> "dead"
                                       [] OTHER -> sock[c]]
       /\ timer' = IF how = "dead" THEN "on" ELSE "off"

\* onModuleInit, or the backfill's main: connection.start.
Start ==
  /\ runner.pc = "start"
  /\ runner' = [runner EXCEPT !.pc = "wait link"]
  /\ OpenClient
  /\ UNCHANGED <<role, connected, closedByUser, subscribed, reqSeq, pending, answers, stored, outcome, live>>

\* Mutant: the api subscribes when it starts, and not again.
SubscribeOnce == IF client = 1 THEN Tickers ELSE {}

\* The api subscribes anew on every connection.
SubscribeConfiguredTickers == IF role = "api" THEN Tickers ELSE {}

\* The gateway accepts; the backfill that waits for it goes on.
Connected ==
  /\ client # 0 /\ sock[client] = "opening"
  /\ sock' = [sock EXCEPT ![client] = "up"]
  /\ connected' = "yes"
  /\ subscribed' = [subscribed EXCEPT ![client] = SubscribeConfiguredTickers]
  /\ runner' = IF role = "backfill" /\ runner.pc = "wait link" THEN [runner EXCEPT !.pc = "next"] ELSE runner
  /\ UNCHANGED <<role, client, closedByUser, timer, reqSeq, pending, answers, stored, outcome, live>>

\* Mutant: only a connection that was up is tried again.
RescheduleIfUp == IF connected = "yes" THEN "on" ELSE timer

\* One timer at most; its delay doubles from base to a cap.
ScheduleReconnect == "on"

\* The gateway drops or refuses the client.  Pending requests are left to their timeouts.
GatewayDisconnected ==
  /\ client \in 1..LastClient - 1 /\ sock[client] \in {"opening", "up"}
  /\ sock' = [sock EXCEPT ![client] = "dead"]
  /\ connected' = "no"
  /\ timer' = ScheduleReconnect
  /\ subscribed' = [subscribed EXCEPT ![client] = {}]
  /\ answers' = {}
  /\ UNCHANGED <<role, client, closedByUser, runner, reqSeq, pending, stored, outcome, live>>

ReconnectTimerFires ==
  /\ timer = "on" /\ closedByUser = "no"
  /\ OpenClient
  /\ UNCHANGED <<role, connected, closedByUser, subscribed, backfillVars>>

\* A client that was still connecting is let go of, not closed.
StopConnection ==
  /\ closedByUser' = "yes"
  /\ timer' = "off"
  /\ sock' = IF connected = "yes" THEN [sock EXCEPT ![client] = "dead"] ELSE sock
  /\ client' = 0 /\ connected' = "no"
  /\ UNCHANGED subscribed

\* onModuleDestroy.
Destroy ==
  /\ role = "api" /\ runner.pc # "start" /\ closedByUser = "no"
  /\ StopConnection
  /\ UNCHANGED <<role, backfillVars>>

-----------------------------------------------------------------------------
(* The backfill and the queue                                              *)

\* waitUntilConnected gives up, and main stops the connection.
WaitTimesOut ==
  /\ role = "backfill" /\ runner.pc = "wait link"
  /\ runner' = [runner EXCEPT !.pc = "done"]
  /\ StopConnection
  /\ UNCHANGED <<role, reqSeq, pending, answers, stored, outcome, live>>

\* drain takes the item at once, for nothing else is in the queue, and waits for its slot.
Enqueue(i) == runner' = [pc |-> "slot", item |-> i, attempt |-> 0, req |-> 0]

\* The items one after the other, so the queue holds one at a time; at the end main
\* stops the connection.
NextItem ==
  /\ runner.pc = "next" /\ runner.item < LastItem
  /\ Enqueue(runner.item + 1)
  /\ UNCHANGED <<role, connectionVars, reqSeq, pending, answers, stored, outcome, live>>

BackfillDone ==
  /\ runner.pc = "next" /\ runner.item = LastItem
  /\ runner' = [runner EXCEPT !.pc = "done"]
  /\ StopConnection
  /\ UNCHANGED <<role, reqSeq, pending, answers, stored, outcome, live>>

\* waitForSlot, or the sleep before a retry, is over.
SlotComes == runner.pc \in {"slot", "backoff"}

ItemEnds(how) ==
  /\ outcome' = [outcome EXCEPT ![runner.item] = how]
  /\ runner' = [runner EXCEPT !.pc = "next"]

\* Mutant: every request has the same id.
SameReqId(r) == r

NextReqId(r) == r + 1

Ask(r, i) ==
  pending' = [q \in DOMAIN pending \union {r} |-> IF q = r THEN [item |-> i, rows |-> {}] ELSE pending[q]]

\* The slot is there, or the backoff is over: the task runs, at once an error when the
\* link is down.
RunTask ==
  /\ SlotComes
  /\ IF connected = "yes"
       THEN /\ Ask(reqSeq, runner.item)
            /\ answers' = answers \union {[req |-> reqSeq, item |-> runner.item]}
            /\ runner' = [runner EXCEPT !.pc = "asked", !.req = reqSeq]
            /\ reqSeq' = NextReqId(reqSeq)
            /\ UNCHANGED outcome
       ELSE ItemEnds("failed") /\ UNCHANGED <<reqSeq, pending, answers>>
  /\ UNCHANGED <<role, connectionVars, stored, live>>

Awaited(r) == r \in DOMAIN pending

\* A bar: the shape of its date (yyyymmdd, epoch seconds, date and time, or the
\* sentinel that ends a stream) and whether its prices are finite and not negative.
BarShapes == [date : {"day", "epoch", "time", "other", "finished"}, prices : {"valid", "invalid"}]

Sentinel(bar) == bar.date = "finished"

Parses(bar) == ~Sentinel(bar) /\ bar.date # "other" /\ bar.prices = "valid"

\* A bar goes to the request with its id, if it is still pending and the bar parses.
HistoricalData(a, bar) ==
  /\ a \in answers
  /\ Awaited(a.req) /\ Parses(bar)
  /\ pending' = [pending EXCEPT ![a.req] = [item |-> @.item, rows |-> @.rows \union {a.item}]]
  /\ UNCHANGED <<role, connectionVars, runner, reqSeq, answers, stored, outcome, live>>

\* An upsert; without rows nothing is asked of the database, so nothing fails.
WriteCandles(i, rows) ==
  \/ stored' = [stored EXCEPT ![i] = @ \union rows] /\ ItemEnds("written")
  \/ rows # {} /\ ItemEnds("failed") /\ UNCHANGED stored

Drop(r) == pending' = [q \in DOMAIN pending \ {r} |-> pending[q]]

\* The promise resolves and the rows are upserted; a failing write fails the item.
HistoricalEnd(a) ==
  /\ a \in answers
  /\ answers' = answers \ {a}
  /\ IF Awaited(a.req)
       THEN /\ Drop(a.req)
            /\ WriteCandles(runner.item, pending[a.req].rows)
       ELSE UNCHANGED <<pending, stored, outcome, runner>>
  /\ UNCHANGED <<role, connectionVars, reqSeq, live>>

\* The client's one event for both.
ClientHistoricalData(a, bar) ==
  IF Sentinel(bar) THEN HistoricalEnd(a) ELSE HistoricalData(a, bar)

\* An error of the broker: its code is one of 162 and 420, or not, and so its words.
Errors == [code : {"pacing", "other"}, message : {"pacing", "other"}]

IsPacingError(err) == err.code = "pacing" \/ err.message = "pacing"

\* A paced request is tried again while there are retries; any other error fails it.
RequestError(a, err) ==
  /\ a \in answers
  /\ answers' = answers \ {a}
  /\ IF Awaited(a.req)
       THEN /\ Drop(a.req)
            /\ IF IsPacingError(err) /\ runner.attempt < MaxRetries
                 THEN /\ runner' = [runner EXCEPT !.pc = "backoff", !.attempt = @ + 1]
                      /\ UNCHANGED outcome
                 ELSE ItemEnds("failed")
       ELSE UNCHANGED <<pending, outcome, runner>>
  /\ UNCHANGED <<role, connectionVars, reqSeq, stored, live>>

\* Mutant: the timer of a request goes with the stream that answers it.
TimesOutStreaming == \E a \in answers : a.req = runner.req

\* After sixty seconds, whatever became of the link.
TimesOut == TRUE

RequestTimesOut ==
  /\ runner.pc = "asked" /\ TimesOut
  /\ Drop(runner.req)
  /\ ItemEnds("failed")
  /\ UNCHANGED <<role, connectionVars, reqSeq, answers, stored, live>>

-----------------------------------------------------------------------------
(* Realtime bars                                                           *)

\* Bars of a subscription come while its client is up; a failed write is logged.
RealtimeBar(t, bar) ==
  /\ connected = "yes" /\ t \in subscribed[client]
  /\ Parses(bar)
  /\ live' = live \union {t}
  /\ UNCHANGED <<role, connectionVars, runner, reqSeq, pending, answers, stored, outcome>>

BackfillStep == NextItem \/ BackfillDone \/ RunTask \/ RequestTimesOut \/ WaitTimesOut

FeedNext ==
  \/ Start \/ Connected \/ GatewayDisconnected \/ ReconnectTimerFires \/ Destroy \/ BackfillStep
  \/ \E a \in answers :
       \/ \E bar \in BarShapes : ClientHistoricalData(a, bar)
       \/ \E err \in Errors : RequestError(a, err)
  \/ \E t \in Tickers, bar \in BarShapes : RealtimeBar(t, bar)

\* Timers fire and callbacks run, and a gateway that is not to drop a client any more
\* accepts it.
FeedFair ==
  /\ WF_feedVars(ReconnectTimerFires) /\ WF_feedVars(Connected)
  /\ WF_feedVars(BackfillStep)

FeedSpec == FeedInit /\ [][FeedNext]_feedVars /\ FeedFair

-----------------------------------------------------------------------------
(* Correctness                                                             *)

FeedTypeOK ==
  /\ role \in {"api", "backfill"}
  /\ sock \in [Clients -> {"none", "opening", "up", "dead"}]
  /\ client \in 0..LastClient /\ reqSeq \in Nat
  /\ {connected, closedByUser} \subseteq {"no", "yes"} /\ timer \in {"off", "on"}
  /\ subscribed \in [Clients -> SUBSET Tickers]
  /\ runner \in [pc : {"start", "wait link", "next", "slot", "asked", "backoff", "done"},
                 item : 0..LastItem, attempt : 0..MaxRetries, req : 0..reqSeq]
  /\ DOMAIN pending \subseteq 1..reqSeq
  /\ \A r \in DOMAIN pending : pending[r] \in [item : Items, rows : SUBSET Items]
  /\ answers \subseteq [req : 1..reqSeq, item : Items]
  /\ stored \in [Items -> SUBSET Items] /\ outcome \in [Items -> {"none", "written", "failed"}]
  /\ live \subseteq Tickers

\* A feed that was started and not stopped is up with every ticker subscribed (in the
\* api), on its way up, or has its timer set; one that was stopped has no timer.
NeverStranded ==
  /\ closedByUser = "no" /\ client # 0 =>
       \/ connected = "yes" /\ sock[client] = "up" /\ (role = "api" => subscribed[client] = Tickers)
       \/ sock[client] = "opening"
       \/ timer = "on"
  /\ closedByUser = "yes" => timer = "off"

\* A late answer is never taken for that of the next request: candles are written under
\* the ticker and timeframe they are of.
NoForeignRows == \A i \in Items : stored[i] \subseteq {i}

\* A backfill ends, although a link that goes down rejects nothing.
BackfillEnds == (role = "backfill" /\ runner.pc # "start") ~> runner.pc = "done"

\* The realtime feed comes back, unless it is stopped.
FeedRecovers ==
  (role = "api" /\ runner.pc # "start") ~> (connected = "yes" \/ closedByUser = "yes")
=============================================================================
