------------------------- MODULE ProposalLifecycle -------------------------
(***************************************************************************)
(* What the proposals table promises the rest of the system: a proposal is *)
(* created pending, is decided at most once, and the decision (with who    *)
(* took it) is never revised.  The promise rests on the status guards of   *)
(* apps/api/src/pipeline/pipeline.repository.ts; the Pipeline module is    *)
(* shown to implement it.                                                  *)
(***************************************************************************)
CONSTANTS Proposals

VARIABLES
  status,     \* proposal -> "none" before it is stored, then its status
  decidedBy   \* proposal -> who decided it

Init ==
  /\ status    = [p \in Proposals |-> "none"]
  /\ decidedBy = [p \in Proposals |-> "nobody"]

Create(p) ==
  /\ status[p] = "none"
  /\ status' = [status EXCEPT ![p] = "pending"]
  /\ UNCHANGED decidedBy

\* Only the user rejects; only the clock expires; the user or AUTO executes.
Outcomes == {<<"executed", "user">>, <<"executed", "auto">>,
             <<"rejected", "user">>, <<"expired", "nobody">>}

Decide(p, outcome) ==
  /\ status[p] = "pending"
  /\ status'    = [status    EXCEPT ![p] = outcome[1]]
  /\ decidedBy' = [decidedBy EXCEPT ![p] = outcome[2]]

Next == \E p \in Proposals : Create(p) \/ \E o \in Outcomes : Decide(p, o)

vars == <<status, decidedBy>>

Spec == Init /\ [][Next]_vars
============================================================================
