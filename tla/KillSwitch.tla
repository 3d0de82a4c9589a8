---------------------------- MODULE KillSwitch -----------------------------
(***************************************************************************)
(* The kill switch (apps/api/src/killswitch): a row in Postgres that is    *)
(* the truth, a mirror of it in Redis that the order path asks, and the    *)
(* strategies' modes that a trip demotes.  Handlers of four operations     *)
(* interleave at every await: check (isActive), state (getState), trip and *)
(* rearm.  The operator sets modes, and the auto governor demotes, beside  *)
(* them.                                                                   *)
(***************************************************************************)
EXTENDS Naturals

CONSTANTS
  Strategies,
  Handlers,          \* concurrent requests and the worker
  Miss,              \* the cache holds no value
  Faults,            \* of "db", "cache", "crash": what may fail
  MaxModeChanges     \* bound on the operator's mode changes

VARIABLES
  row,       \* kill_switch.active: "on" blocks
  cache,     \* the Redis key killswitch:active
  mode,      \* strategies.mode
  procs,     \* handler -> operation, await, value read, demotion targets
  since,     \* history: handlers whose last check began under the trip in force
  safe,      \* history: a trip is in force (see TripInForce)
  quiet,     \* history: strategies a trip demoted, not set by the operator since
  left       \* mode changes left

vars == <<row, cache, mode, procs, since, safe, quiet, left>>

AllModes == {"OFF", "WATCH", "APPROVE", "AUTO"}
Ordering == {"AUTO", "APPROVE"}
Flags    == {"on", "off"}
Answers  == {"allowed", "blocked", "none"}

ASSUME KillSwitchAssumption ==
  /\ Miss \notin Flags
  /\ Faults \subseteq {"db", "cache", "crash"}
  /\ MaxModeChanges \in Nat

\* A handler that waits for nothing, and what its last check answered.
Resting == [pc |-> "idle", value |-> "off", targets |-> {}, answer |-> "none"]

Init ==
  /\ row \in Flags
  /\ cache \in {row, Miss}
  /\ mode \in [Strategies -> AllModes]
  /\ procs = [h \in Handlers |-> Resting]
  /\ since = {}
  /\ safe = (row = "on")
  /\ quiet = {}
  /\ left = MaxModeChanges

At(h, pc)     == procs[h].pc = pc
Become(h, st) == procs' = [procs EXCEPT ![h] = st]
Goto(h, pc)   == Become(h, [procs[h] EXCEPT !.pc = pc])

\* cache.set(...).catch(() => undefined): a failed write is swallowed.
WriteCache(v) == cache' = v \/ ("cache" \in Faults /\ cache' = cache)

-----------------------------------------------------------------------------
(* isActive and getState                                                   *)

Answer(h, flag) ==
  Become(h, [Resting EXCEPT !.answer = IF flag = "on" THEN "blocked" ELSE "allowed"])

\* A hit answers; a miss, or a cache that throws, falls through to the row.
GetCached(h) ==
  /\ At(h, "idle")
  /\ \/ cache # Miss /\ Answer(h, cache)
     \/ /\ cache = Miss \/ "cache" \in Faults
        /\ Become(h, [Resting EXCEPT !.pc = "read for check"])
  /\ since' = IF safe THEN since \union {h} ELSE since \ {h}
  /\ UNCHANGED <<row, cache, mode, safe, quiet, left>>

ReadRow(h) ==
  /\ \/ At(h, "idle") /\ Become(h, [Resting EXCEPT !.pc = "fill", !.value = row])
     \/ At(h, "read for check")
        /\ Become(h, [Resting EXCEPT !.pc = "fill for check", !.value = row])
  /\ UNCHANGED <<row, cache, mode, since, safe, quiet, left>>

\* Mutant: a check that finds no state to ask lets the order through.
FailsOpen(h) ==
  /\ "db" \in Faults
  /\ At(h, "read for check")
  /\ Answer(h, "off")
  /\ UNCHANGED <<row, cache, mode, since, safe, quiet, left>>

\* With neither the cache nor the row to ask, a check fails safe.
ReadFails(h) ==
  /\ "db" \in Faults
  /\ At(h, "read for check")
  /\ Answer(h, "on")
  /\ UNCHANGED <<row, cache, mode, since, safe, quiet, left>>

\* The value read primes the cache; a check then answers with it.
Fill(h) ==
  /\ WriteCache(procs[h].value)
  /\ \/ At(h, "fill") /\ Become(h, Resting)
     \/ At(h, "fill for check") /\ Answer(h, procs[h].value)
  /\ UNCHANGED <<row, mode, since, safe, quiet, left>>

-----------------------------------------------------------------------------
(* trip and rearm                                                          *)

TripRow(h) ==
  /\ At(h, "idle")
  /\ row' = "on"
  /\ Become(h, [Resting EXCEPT !.pc = "trip cache"])
  /\ UNCHANGED <<cache, mode, since, safe, quiet, left>>

\* A write of "off" to the cache is under way.
PendingOff(h) ==
  \/ At(h, "rearm cache")
  \/ procs[h].pc \in {"fill", "fill for check"} /\ procs[h].value = "off"

\* The trip is in force once both stores say so and nothing under way will
\* make the mirror forget it.
TripInForce == row = "on" /\ cache' = "on" /\ \A h \in Handlers : ~PendingOff(h)

TripCache(h) ==
  /\ At(h, "trip cache")
  /\ WriteCache("on")
  /\ safe' = (safe \/ TripInForce)
  /\ Goto(h, "select")
  /\ UNCHANGED <<row, mode, since, quiet, left>>

\* Mutant: the selected rows are kept, not their ids.
SelectRows(h) ==
  /\ At(h, "select")
  /\ Become(h, [procs[h] EXCEPT !.pc = "demote",
                  !.targets = {<<s, mode[s]>> : s \in {t \in Strategies : mode[t] \in Ordering}}])
  /\ UNCHANGED <<row, cache, mode, since, safe, quiet, left>>

\* demoteAllToWatch selects first and updates by id afterwards.
SelectTargets(h) ==
  LET targets == {s \in Strategies : mode[s] \in Ordering}
  IN /\ At(h, "select")
     /\ Become(h, [procs[h] EXCEPT !.pc = "demote", !.targets = targets])
     /\ quiet' = quiet \union (Strategies \ targets)
     /\ UNCHANGED <<row, cache, mode, since, safe, left>>

DemoteTargets(h) ==
  /\ At(h, "demote")
  /\ mode' = [s \in Strategies |-> IF s \in procs[h].targets THEN "WATCH" ELSE mode[s]]
  /\ quiet' = quiet \union procs[h].targets
  /\ Become(h, Resting)
  /\ UNCHANGED <<row, cache, since, safe, left>>

\* From here on nothing is promised of the switch.
RearmRow(h) ==
  /\ At(h, "idle")
  /\ row' = "off"
  /\ safe' = FALSE
  /\ since' = {}
  /\ Become(h, [Resting EXCEPT !.pc = "rearm cache"])
  /\ UNCHANGED <<cache, mode, quiet, left>>

RearmCache(h) ==
  /\ At(h, "rearm cache")
  /\ WriteCache("off")
  /\ Become(h, Resting)
  /\ UNCHANGED <<row, mode, since, safe, quiet, left>>

-----------------------------------------------------------------------------
(* The rest of the system                                                  *)

\* PATCH /strategies/:id sets any mode at any time, whatever the switch says.
SetMode(s, m) ==
  /\ left > 0
  /\ left' = left - 1
  /\ mode' = [mode EXCEPT ![s] = m]
  /\ quiet' = quiet \ {s}
  /\ UNCHANGED <<row, cache, procs, since, safe>>

\* Mutant: the demotion is not guarded on AUTO.
GovernorDemotesAny(s) ==
  /\ mode' = [mode EXCEPT ![s] = "APPROVE"]
  /\ UNCHANGED <<row, cache, procs, since, safe, quiet, left>>

\* The auto governor's demotion after consecutive losses is guarded on AUTO.
GovernorDemotes(s) ==
  /\ mode[s] = "AUTO"
  /\ mode' = [mode EXCEPT ![s] = "APPROVE"]
  /\ UNCHANGED <<row, cache, procs, since, safe, quiet, left>>

\* The database throws between the trip's own write and its demotion.
DbThrows(h) ==
  /\ "db" \in Faults
  /\ procs[h].pc \in {"select", "demote"}
  /\ Become(h, Resting)
  /\ UNCHANGED <<row, cache, mode, since, safe, quiet, left>>

\* The process dies with every request it serves.
Crash ==
  /\ "crash" \in Faults
  /\ procs' = [h \in Handlers |-> Resting]
  /\ UNCHANGED <<row, cache, mode, since, safe, quiet, left>>

ReadStep(h)  == GetCached(h) \/ ReadRow(h) \/ ReadFails(h) \/ Fill(h)
TripStep(h)  == TripRow(h) \/ TripCache(h) \/ SelectTargets(h) \/ DemoteTargets(h) \/ DbThrows(h)
RearmStep(h) == RearmRow(h) \/ RearmCache(h)

Next ==
  \/ \E h \in Handlers : ReadStep(h) \/ TripStep(h) \/ RearmStep(h)
  \/ \E s \in Strategies : GovernorDemotes(s) \/ \E m \in AllModes : SetMode(s, m)
  \/ Crash

Spec == Init /\ [][Next]_vars

-----------------------------------------------------------------------------
(* Correctness                                                             *)

Pcs == {"idle", "read for check", "fill", "fill for check", "trip cache", "select",
        "demote", "rearm cache"}

\* Every variable keeps its type.
TypeOK ==
  /\ row \in Flags
  /\ cache \in Flags \union {Miss}
  /\ mode \in [Strategies -> AllModes]
  /\ procs \in [Handlers -> [pc : Pcs, value : Flags, targets : SUBSET Strategies,
                            answer : Answers]]
  /\ since \in SUBSET Handlers
  /\ safe \in BOOLEAN
  /\ quiet \in SUBSET Strategies
  /\ left \in Nat

\* Once a trip is in force, a check that begins later and ends before the next
\* rearm never lets an order through, whatever fails on its way: a lost cache
\* entry, a database that is down, a restart, another getState filling the
\* cache (isActive, "fails safe").
TripBlocksChecks ==
  \A h \in since : procs[h].answer # "allowed"

\* After a trip's demotion a strategy stays unable to order until the operator
\* sets it: neither a second trip nor the governor's own demotion, whose read
\* of the strategy may be older than the trip, brings it back (demoteAllToWatch,
\* AutoModeController.demote).
TripDemotes == \A s \in quiet : mode[s] \notin Ordering

\* A state read does not turn off the mirror of a tripped switch once the trip has written
\* it: README.md says a trip blocks all new orders, and orders ask the mirror.  Refuted: a
\* getState that read the row before the trip fills the cache after it.
TripIsMirrored ==
  [][(\E h \in Handlers : Fill(h)) /\ row = "on" /\ (\A h \in Handlers : ~At(h, "trip cache"))
       => cache' # "off"]_vars
============================================================================
