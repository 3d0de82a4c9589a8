------------------------------- MODULE Uptime -------------------------------
(***************************************************************************)
(* The uptime monitor (apps/api/src/uptime): an interval starts a tick; a  *)
(* tick probes the gateway, the age of the worker's heartbeat and the      *)
(* depth of its queue, compares what is wrong with what was wrong after    *)
(* the last tick, tells the operator the difference over Telegram and      *)
(* remembers.  The interval does not wait for the tick before: a probe     *)
(* that Redis keeps waiting leaves ticks beside each other.                *)
(***************************************************************************)
EXTENDS Naturals

CONSTANTS
  Ticks,         \* the ticks that may be under way together
  MaxChanges     \* bound on the changes of what is watched

VARIABLES
  armed,       \* the interval is set
  gateway,     \* the IB gateway's port
  beat,        \* uptime:worker:heartbeat: none, within the stale window or older
  backlog,     \* waiting and delayed jobs, against the threshold
  redis,       \* answers, answers with errors, or keeps commands waiting
  ticks,       \* tick -> where it waits, what it probed, what it is to tell
  firing,      \* UptimeMonitorService.active
  heartbeatSeen,
  told,        \* the alerts the operator was told of and not told have recovered
  overlapped,  \* history: a tick began beside another
  lost,        \* history: Telegram lost a message
  changes      \* changes left

uptimeVars == <<armed, gateway, beat, backlog, redis, ticks, firing, heartbeatSeen, told,
                overlapped, lost, changes>>

worldVars == <<gateway, beat, backlog, redis>>

ASSUME UptimeAssumption == MaxChanges \in Nat

AlertKinds == {"gateway-down", "worker-stalled", "queue-backlog"}
Ages       == {"null", "fresh", "stale"}

\* What a tick has not probed yet is "?".
NotProbed == [pc |-> "idle", gateway |-> "?", age |-> "?", depth |-> "?",
            current |-> {}, events |-> {}]

UptimeInit ==
  /\ armed = "no"
  /\ gateway = "up" /\ beat = "null" /\ backlog = "low" /\ redis = "up"
  /\ ticks = [t \in Ticks |-> NotProbed]
  /\ firing = {} /\ heartbeatSeen = "no" /\ told = {}
  /\ overlapped = "no" /\ lost = "no"
  /\ changes = MaxChanges

\* onModuleInit, where UPTIME_MONITOR_ENABLED.
Arm ==
  /\ armed = "no"
  /\ armed' = "yes"
  /\ UNCHANGED <<worldVars, ticks, firing, heartbeatSeen, told, overlapped, lost, changes>>

-----------------------------------------------------------------------------
(* A tick                                                                  *)

StartTick(t) ==
  /\ armed = "yes" /\ ticks[t].pc = "idle"
  /\ ticks' = [ticks EXCEPT ![t] = [NotProbed EXCEPT !.pc = "probe"]]
  /\ overlapped' = IF \A u \in Ticks : ticks[u].pc = "idle" THEN overlapped ELSE "yes"
  /\ UNCHANGED <<armed, worldVars, firing, heartbeatSeen, told, lost, changes>>

\* LiveUptimeProbe.snapshot: three reads side by side.  HealthService answers within
\* its timeout.  Redis retries without limit, so a read waits while it is down; a read
\* that fails yields null or 0.
ProbeStep(t) ==
  /\ ticks[t].pc = "probe"
  /\ \/ /\ ticks[t].gateway = "?"
        /\ ticks' = [ticks EXCEPT ![t].gateway = gateway]
     \/ /\ ticks[t].age = "?" /\ redis # "down"
        /\ ticks' = [ticks EXCEPT ![t].age = IF redis = "up" THEN beat ELSE "null"]
     \/ /\ ticks[t].depth = "?" /\ redis # "down"
        /\ ticks' = [ticks EXCEPT ![t].depth = IF redis = "up" THEN backlog ELSE "low"]
  /\ UNCHANGED <<armed, worldVars, firing, heartbeatSeen, told, overlapped, lost, changes>>

\* evaluateAlerts.
EvaluateAlerts(port, age, depth, seen) ==
  {k \in AlertKinds :
     \/ k = "gateway-down"   /\ port = "down"
     \/ k = "worker-stalled" /\ age = "stale"
     \/ k = "worker-stalled" /\ age = "null" /\ seen = "yes"
     \/ k = "queue-backlog"  /\ depth = "high"}

\* Mutant: only what fires is an event, not what recovers.
DiffFiring(previous, current) == current \ previous

\* diffAlerts: what is in one of the two only.
DiffAlerts(previous, current) == (current \ previous) \union (previous \ current)

Remember(t, current) == firing' = current /\ ticks' = [ticks EXCEPT ![t] = NotProbed]

\* A tick with events that are still to be delivered.
Telling(t, current, events) ==
  [pc |-> "deliver", gateway |-> ticks[t].gateway, age |-> ticks[t].age, depth |-> ticks[t].depth,
   current |-> current, events |-> events]

Evaluate(t) ==
  LET seen    == IF ticks[t].age # "null" THEN "yes" ELSE heartbeatSeen
      current == EvaluateAlerts(ticks[t].gateway, ticks[t].age, ticks[t].depth, seen)
      events  == DiffAlerts(firing, current)
  IN /\ ticks[t].pc = "probe" /\ "?" \notin {ticks[t].gateway, ticks[t].age, ticks[t].depth}
     /\ heartbeatSeen' = seen
     /\ \/ /\ events = {}
           /\ Remember(t, current)
        \/ /\ events # {}
           /\ ticks' = [ticks EXCEPT ![t] = Telling(t, current, events)]
           /\ UNCHANGED firing
     /\ UNCHANGED <<armed, worldVars, told, overlapped, lost, changes>>

\* Mutant: a tick that had something to tell does not remember it.
DeliverForgets(t) ==
  \E k \in ticks[t].events :
    /\ ticks[t].pc = "deliver"
    /\ told' = IF k \in ticks[t].current THEN told \union {k} ELSE told \ {k}
    /\ ticks' = [ticks EXCEPT ![t] =
                   IF @.events = {k} THEN NotProbed ELSE Telling(t, @.current, @.events \ {k})]
    /\ UNCHANGED <<armed, worldVars, firing, heartbeatSeen, overlapped, lost, changes>>

\* TelegramAlertSink.deliver and TelegramApi.call, which logs a failure and returns: the
\* message is lost and not repeated.
Deliver(t) ==
  \E k \in ticks[t].events :
    /\ ticks[t].pc = "deliver"
    /\ \/ /\ told' = IF k \in ticks[t].current THEN told \union {k} ELSE told \ {k}
          /\ UNCHANGED lost
       \/ lost' = "yes" /\ UNCHANGED told
    /\ \/ /\ ticks[t].events = {k}
          /\ Remember(t, ticks[t].current)
       \/ /\ ticks[t].events # {k}
          /\ ticks' = [ticks EXCEPT ![t] = Telling(t, ticks[t].current, ticks[t].events \ {k})]
          /\ UNCHANGED firing
    /\ UNCHANGED <<armed, worldVars, heartbeatSeen, overlapped, changes>>

TickStep(t) == StartTick(t) \/ ProbeStep(t) \/ Evaluate(t) \/ Deliver(t)

-----------------------------------------------------------------------------
(* What is watched                                                         *)

GatewayChanges ==
  /\ gateway' = IF gateway = "up" THEN "down" ELSE "up"
  /\ UNCHANGED <<beat, backlog, redis>>

\* DemoProcessor.process bumps the key, unless Redis does not take it; else it ages.
BeatChanges ==
  /\ \/ redis = "up" /\ beat # "fresh" /\ beat' = "fresh"
     \/ beat = "fresh" /\ beat' = "stale"
  /\ UNCHANGED <<gateway, backlog, redis>>

BacklogChanges ==
  /\ backlog' = IF backlog = "low" THEN "high" ELSE "low"
  /\ UNCHANGED <<gateway, beat, redis>>

RedisChanges ==
  /\ redis' \in {"up", "erring", "down"} \ {redis}
  /\ UNCHANGED <<gateway, beat, backlog>>

WorldChanges ==
  /\ armed = "yes" /\ changes > 0
  /\ changes' = changes - 1
  /\ GatewayChanges \/ BeatChanges \/ BacklogChanges \/ RedisChanges
  /\ UNCHANGED <<armed, ticks, firing, heartbeatSeen, told, overlapped, lost>>

UptimeNext == Arm \/ (\E t \in Ticks : TickStep(t)) \/ WorldChanges

\* The interval keeps starting ticks, and what a tick awaits answers.
UptimeFair ==
  \A t \in Ticks :
    WF_uptimeVars(StartTick(t)) /\ WF_uptimeVars(ProbeStep(t) \/ Evaluate(t) \/ Deliver(t))

UptimeSpec == UptimeInit /\ [][UptimeNext]_uptimeVars /\ UptimeFair

-----------------------------------------------------------------------------
(* Correctness                                                             *)

\* Every variable keeps its type.
UptimeTypeOK ==
  /\ {armed, heartbeatSeen, overlapped, lost} \subseteq {"yes", "no"}
  /\ gateway \in {"up", "down"} /\ beat \in Ages /\ backlog \in {"low", "high"}
  /\ redis \in {"up", "erring", "down"}
  /\ ticks \in [Ticks -> [pc : {"idle", "probe", "deliver"}, gateway : {"?", "up", "down"},
                          age : {"?"} \union Ages, depth : {"?", "low", "high"},
                          current : SUBSET AlertKinds, events : SUBSET AlertKinds]]
  /\ firing \subseteq AlertKinds /\ told \subseteq AlertKinds
  /\ changes \in Nat

\* As long as ticks do not overlap and Telegram takes the messages, the operator has been
\* told of exactly the alerts that fire, once each: what a tick has still to tell is the
\* difference between what was told and what the tick found.
OperatorInformed ==
  overlapped = "no" /\ lost = "no" =>
    /\ \A t \in Ticks : ticks[t].pc = "deliver" =>
         \A k \in AlertKinds : k \in ticks[t].events <=> (k \in told) # (k \in ticks[t].current)
    /\ (\A t \in Ticks : ticks[t].pc # "deliver") => told = firing

\* Once nothing changes any more and Redis answers, the alerts that fire settle on what is
\* wrong, whatever overlapped, waited or was lost before.
MonitorSettles ==
  <>[](redis = "up") => <>[](firing = EvaluateAlerts(gateway, beat, backlog, heartbeatSeen))
=============================================================================
