------------------------------ MODULE Screening ------------------------------
(***************************************************************************)
(* What the language model decides (apps/api/src/llm, crowding): the       *)
(* verdict on a signal, asked against a timeout and logged, and the list   *)
(* of crowded names a refresh researches and the gate consults.  The worker *)
(* runs one job at a time, an analysis or the nightly refresh; a POST to   *)
(* the dev endpoint runs a refresh beside it.  Each may die at its awaits. *)
(***************************************************************************)
EXTENDS Naturals, FiniteSets

CONSTANTS
  Listed,    \* tickers, as the strategies spell them
  DevCalls,  \* calls of POST /dev/crowding/refresh under way at a time
  TtlDays,   \* CROWDING_TTL_DAYS
  LastDay    \* bound: the clock's

ASSUME ScreeningAssumption ==
  TtlDays \in Nat \ {0} /\ LastDay \in Nat /\ "nightly" \notin DevCalls

Refreshes == {"nightly"} \union DevCalls

VARIABLES
  today,
  job,       \* the await the worker is at
  refresh,   \* the await each refresh is at
  signal,    \* the signal in analysis
  calls,     \* requests to the model: of this analysis, of one that was given up
  verdict,   \* the LLMAnalysis: its verdict, and whether a failure made it
  dialog,    \* llm_analyses: purpose and outcome of its last row
  research,  \* of each refresh: the tickers to store, the day; history: the names it gave
  doomed,    \* rows each transaction is deleting
  crowded,   \* crowded_tickers
  outcome,   \* of the last signal
  said,      \* history: what the model said on this signal in time
  latest,    \* history: names and day of the last research that was stored
  clear      \* history: since the verdict, latest did not name the signal's ticker once

analysisVars  == <<signal, calls, verdict, outcome, said>>
refreshVars   == <<refresh, research, doomed>>
crowdingVars  == <<refreshVars, crowded, latest>>
screeningVars == <<today, job, dialog, clear, analysisVars, crowdingVars>>

\* A ticker as the model may write it: clean, or in small letters and between blanks.
Spellings == Listed \X {"clean", "loose"}

Veto(failure) == [verdict |-> "veto", failure |-> failure]

Logged(purpose, result) == [purpose |-> purpose, outcome |-> result]

NoResearch == [names |-> {}, named |-> {}, stamp |-> 0]

\* A stored research names a ticker until its time to live is over.
NamedBy(last, day, t) == t \in last.names /\ day < last.on + TtlDays

ScreeningInit ==
  /\ today = 0 /\ job = "none"
  /\ signal \in [ticker : Listed, side : {"long"}] /\ calls = {}
  /\ verdict = Veto("none") /\ outcome = "none" /\ said = "nothing"
  /\ dialog = Logged("none", "none") /\ crowded = {}
  /\ refresh = [r \in Refreshes |-> "idle"]
  /\ research = [r \in Refreshes |-> NoResearch] /\ doomed = [r \in Refreshes |-> {}]
  /\ latest = [names |-> {}, on |-> 0] /\ clear = "no"

-----------------------------------------------------------------------------
(* A signal                                                                *)

\* processSignal persists the signal and asks; describeCall is taken beforehand.
Ask(t, side) ==
  /\ job = "none"
  /\ job' = "analysing"
  /\ signal' = [ticker |-> t, side |-> side]
  /\ calls' = calls \union {"this"}
  /\ outcome' = "none"
  /\ UNCHANGED <<today, dialog, clear, verdict, said, crowdingVars>>

\* parseLlmAnalysis: what is not a valid answer is a veto, but not a failure.
Parsed(candidate) ==
  IF candidate = "proceed" THEN [verdict |-> "proceed", failure |-> "none"] ELSE Veto("none")

\* The model answers in time, or the call throws: transport, refusal, cut off text.
Answered(candidate) ==
  /\ job = "analysing" /\ "this" \in calls
  /\ verdict' = IF candidate = "throws" THEN Veto("failed") ELSE Parsed(candidate)
  /\ said' = candidate /\ calls' = calls \ {"this"}
  /\ job' = "logging"
  /\ UNCHANGED <<today, dialog, clear, signal, outcome, crowdingVars>>

\* The timer wins the race: the request is aborted, and may answer later all the same.
TimesOut ==
  /\ job = "analysing"
  /\ verdict' = Veto("failed")
  /\ calls' = {"given up"}
  /\ job' = "logging"
  /\ UNCHANGED <<today, dialog, clear, signal, outcome, said, crowdingVars>>

\* Nobody listens to it.
LateAnswer ==
  /\ "given up" \in calls
  /\ calls' = calls \ {"given up"}
  /\ UNCHANGED <<today, job, dialog, clear, signal, verdict, outcome, said, crowdingVars>>

\* The history of the signal at the gates, where the stored research is last and the day day.
Cleared(last, day) ==
  IF job \in {"gating", "weighing"} /\ ~NamedBy(last, day, signal.ticker) THEN "yes" ELSE clear

\* persistSafely: a row that is not stored changes nothing.
PersistAnalysis ==
  /\ job = "logging"
  /\ dialog' \in {dialog, Logged("signal", IF verdict.failure = "failed"
                                            THEN "veto_by_failure" ELSE verdict.verdict)}
  /\ job' = "gating"
  /\ clear' = IF NamedBy(latest, today, signal.ticker) THEN "no" ELSE "yes"
  /\ UNCHANGED <<today, analysisVars, crowdingVars>>

\* DrizzleCrowdingFilter.check.
IsCrowded(t) == \E row \in crowded : row.ticker = t /\ row.expiresAt > today

\* The analysis is over, and what was known of it gone.
Forgets == job' = "none" /\ verdict' = Veto("none") /\ said' = "nothing" /\ clear' = "no"

Concluded(result) ==
  /\ outcome' = result /\ Forgets
  /\ UNCHANGED <<today, dialog, signal, calls, crowdingVars>>

Vetoed == job = "gating" /\ verdict.verdict = "veto" /\ Concluded("vetoed")

\* A long on a crowded name ends here, a short is not looked up; the equity, the positions
\* and the switch are awaited next.
CheckCrowding ==
  /\ job = "gating" /\ verdict.verdict = "proceed"
  /\ IF signal.side = "long" /\ IsCrowded(signal.ticker)
     THEN Concluded("crowded")
     ELSE job' = "weighing" /\ UNCHANGED <<today, dialog, clear, analysisVars, crowdingVars>>

\* On to the risk manager, whatever was stored meanwhile.
HandOver == job = "weighing" /\ Concluded("passed")

-----------------------------------------------------------------------------
(* The research of crowded names                                           *)

\* The worker is busy with the nightly refresh only.
WorkerTurns(r, state) == job' = IF r = "nightly" THEN state ELSE job

StartRefresh(r) ==
  /\ refresh[r] = "idle"
  /\ r = "nightly" => job = "none"
  /\ refresh' = [refresh EXCEPT ![r] = "researching"]
  /\ WorkerTurns(r, "refreshing")
  /\ UNCHANGED <<today, dialog, clear, analysisVars, research, doomed, crowded, latest>>

\* Mutant: tickers are stored as the model wrote them.
DedupeVerbatim(entries) == {e[1] : e \in {x \in entries : x[2] = "clean"}}

\* dedupeByTicker: without blanks and in capitals.
DedupeByTicker(entries) == {e[1] : e \in entries}

\* logCrowdingDialog, logCrowdingFailure: never an error of their own.
LogDialog(result) == dialog' \in {dialog, Logged("crowding", result)}

\* The dialog is logged before the answer is used; without a key nothing is asked, the
\* answer is empty and not logged.  The expiry counts from here.
ResearchEnds(r, entries) ==
  /\ refresh[r] = "researching"
  /\ LogDialog("proceed")
  /\ research' = [research EXCEPT ![r] = [names |-> DedupeByTicker(entries),
                                          named |-> {e[1] : e \in entries}, stamp |-> today]]
  /\ refresh' = [refresh EXCEPT ![r] = "replacing"]
  /\ UNCHANGED <<today, job, clear, analysisVars, doomed, crowded, latest>>

\* The transaction's delete takes the rows committed when it begins.
DeleteRows(r) ==
  /\ refresh[r] = "replacing"
  /\ doomed' = [doomed EXCEPT ![r] = crowded]
  /\ refresh' = [refresh EXCEPT ![r] = "inserting"]
  /\ UNCHANGED <<today, job, dialog, clear, analysisVars, research, crowded, latest>>

RowsOf(r) ==
  {[ticker |-> t, expiresAt |-> research[r].stamp + TtlDays] : t \in research[r].names}

\* It inserts the new rows and commits; a delete that began before does not see them.
StoreRows(r) ==
  /\ refresh[r] = "inserting"
  /\ crowded' = (crowded \ doomed[r]) \union RowsOf(r)
  /\ latest' = [names |-> research[r].named, on |-> research[r].stamp]
  /\ clear' = Cleared(latest', today)
  /\ doomed' = [q \in Refreshes |-> IF q = r THEN {} ELSE doomed[q] \ RowsOf(r)]
  /\ research' = [research EXCEPT ![r] = NoResearch]
  /\ refresh' = [refresh EXCEPT ![r] = "idle"]
  /\ WorkerTurns(r, "none")
  /\ UNCHANGED <<today, dialog, analysisVars>>

\* A refresh ends with nothing stored.
Abandons(r) ==
  /\ research' = [research EXCEPT ![r] = NoResearch]
  /\ doomed' = [doomed EXCEPT ![r] = {}]
  /\ refresh' = [refresh EXCEPT ![r] = "idle"]
  /\ WorkerTurns(r, "none")
  /\ UNCHANGED <<today, clear, analysisVars, crowded, latest>>

ResearchFails(r) == refresh[r] = "researching" /\ LogDialog("veto_by_failure") /\ Abandons(r)

\* A restart, or a transaction that fails and is rolled back.
RefreshDies(r) == refresh[r] # "idle" /\ Abandons(r) /\ UNCHANGED dialog

-----------------------------------------------------------------------------

\* A restart, or an insert or a query of the analysis fails.
JobDies ==
  /\ job \in {"analysing", "logging", "gating", "weighing"}
  /\ calls' = {} /\ Forgets
  /\ UNCHANGED <<today, dialog, signal, outcome, crowdingVars>>

DayPasses ==
  /\ today < LastDay
  /\ today' = today + 1
  /\ clear' = Cleared(latest, today')
  /\ UNCHANGED <<job, dialog, analysisVars, crowdingVars>>

ScreeningNext ==
  \/ \E t \in Listed, side \in {"long", "short"} : Ask(t, side)
  \/ \E candidate \in {"proceed", "veto", "malformed", "throws"} : Answered(candidate)
  \/ TimesOut \/ LateAnswer \/ PersistAnalysis \/ Vetoed \/ CheckCrowding \/ HandOver
  \/ \E r \in Refreshes : \/ StartRefresh(r) \/ ResearchFails(r) \/ DeleteRows(r) \/ StoreRows(r)
                          \/ RefreshDies(r)
                          \/ \E entries \in SUBSET Spellings : ResearchEnds(r, entries)
  \/ JobDies \/ DayPasses

ScreeningSpec == ScreeningInit /\ [][ScreeningNext]_screeningVars
-----------------------------------------------------------------------------
(* Properties                                                              *)

ScreeningTypeOK ==
  /\ today \in 0..LastDay
  /\ job \in {"none", "analysing", "logging", "gating", "weighing", "refreshing"}
  /\ refresh \in [Refreshes -> {"idle", "researching", "replacing", "inserting"}]
  /\ signal \in [ticker : Listed, side : {"long", "short"}]
  /\ calls \subseteq {"this", "given up"}
  /\ verdict \in [verdict : {"proceed", "veto"}, failure : {"none", "failed"}]
  /\ outcome \in {"none", "vetoed", "crowded", "passed"}
  /\ said \in {"nothing", "proceed", "veto", "malformed", "throws"}
  /\ clear \in {"yes", "no"}
  /\ research \in [Refreshes -> [names : SUBSET Listed, named : SUBSET Listed, stamp : 0..today]]
  /\ latest \in [names : SUBSET Listed, on : 0..today]
  /\ crowded \subseteq [ticker : Listed, expiresAt : 0..LastDay + TtlDays]
  /\ doomed \in [Refreshes -> SUBSET [ticker : Listed, expiresAt : 0..LastDay + TtlDays]]

\* A signal reaches the risk manager only if the model said proceed to it, in time and in
\* the right form, and, to go long, only if at some moment since its verdict the last
\* research stored did not name its ticker, however spelled, or was older than its time to
\* live: whatever failed, came late or died, and whoever replaced the list meanwhile.  A
\* list stored after the check, while the equity, the positions and the switch are awaited,
\* is not looked at again (analyze, persistSafely, refresh, check, processSignal).
PassedIsScreened ==
  [][outcome' = "passed" /\ outcome # "passed" =>
       said = "proceed" /\ (signal.side = "long" => clear = "yes")]_screeningVars
=============================================================================
