---------------------------- MODULE BracketLife ----------------------------
(***************************************************************************)
(* What an ExecutionPort (packages/core/src/execution.ts) promises of each *)
(* bracket it has accepted: it is entered at most once, its quantity only  *)
(* shrinks, a cancelled or closed bracket never works again.  The market   *)
(* may move many brackets at once, so a step lets each of them evolve.     *)
(***************************************************************************)
EXTENDS Naturals

CONSTANTS Brackets

VARIABLES
  status,   \* bracket -> "none" before it is placed, then its status
  qty       \* bracket -> shares it still stands for

vars == <<status, qty>>

Init ==
  /\ status = [b \in Brackets |-> "none"]
  /\ qty = [b \in Brackets |-> 0]

\* The statuses one may be followed by at the same quantity; a single bar may enter
\* a bracket and take it out again.
After == [none      |-> {"none"},
          pending   |-> {"pending", "open", "closed", "cancelled"},
          open      |-> {"open", "closed"},
          closed    |-> {"closed"},
          cancelled |-> {"cancelled"},
          gone      |-> {"gone"}]

Keep(b) == status'[b] \in After[status[b]] /\ qty'[b] = qty[b]

Place(b) == status[b] = "none" /\ status'[b] \in {"pending", "open"}

Shrink(b) ==
  /\ status[b] \in {"pending", "open"} /\ status'[b] = status[b]
  /\ qty'[b] < qty[b]

\* The port may forget a bracket altogether.
Forget(b) == status[b] # "none" /\ status'[b] = "gone" /\ qty'[b] = 0

Next == \A b \in Brackets : Keep(b) \/ Place(b) \/ Shrink(b) \/ Forget(b)

Spec == Init /\ [][Next]_vars
============================================================================
