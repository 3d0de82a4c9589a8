------------------------------ MODULE Telegram ------------------------------
(***************************************************************************)
(* Decisions over Telegram: the notifier sends a proposal with its two     *)
(* buttons (apps/api/src/telegram), the poller fetches the presses and     *)
(* routes each into decideProposal (approvals/telegram-poller.ts), while   *)
(* the dashboard decides the same proposals over HTTP                      *)
(* (approvals/proposals.controller.ts).  Telegram keeps a press until it   *)
(* is asked for a later one; the poller remembers where it is in memory.   *)
(***************************************************************************)
EXTENDS Naturals, Sequences

CONSTANTS
  Offers,         \* the proposals sent to the chat
  MaxPresses,     \* bound on the presses of buttons
  MaxRestarts     \* bound on the restarts of the process

VARIABLES
  chat,       \* offer -> its message: not sent, lost, with buttons, or the outcome
  status,     \* offer -> status of its row
  presses,    \* the callback queries, update n the n-th
  kept,       \* updates Telegram holds
  poller,     \* where the loop is, offset, what it fetched, the update in hand
  heard,      \* history: updates whose decision was asked of the pipeline
  restarts    \* restarts left

telegramVars == <<chat, status, presses, kept, poller, heard, restarts>>

ASSUME TelegramAssumption == MaxPresses \in Nat /\ MaxRestarts \in Nat

Verbs == {"approve", "reject"}

FreshPoller == [pc |-> "poll", offset |-> 0, batch |-> {}, now |-> 0]

TelegramInit ==
  /\ chat = [p \in Offers |-> "unsent"]
  /\ status = [p \in Offers |-> "pending"]
  /\ presses = <<>>
  /\ kept = {}
  /\ poller = FreshPoller
  /\ heard = {}
  /\ restarts = MaxRestarts

-----------------------------------------------------------------------------
(* The chat                                                                *)

\* What a call of the Bot API does to a message: a failed one is logged, never thrown
\* and never tried again.
CallOutcomes(did, undone) == {did, undone}

ProposalPending(p) ==
  /\ chat[p] = "unsent"
  /\ \E m \in CallOutcomes("buttons", "lost") : chat' = [chat EXCEPT ![p] = m]
  /\ UNCHANGED <<status, presses, kept, poller, heard, restarts>>

Press(p, verb) ==
  /\ chat[p] = "buttons" /\ Len(presses) < MaxPresses
  /\ presses' = Append(presses, [of |-> p, verb |-> verb])
  /\ kept' = kept \union {Len(presses')}
  /\ UNCHANGED <<chat, status, poller, heard, restarts>>

-----------------------------------------------------------------------------
(* The poller                                                              *)

\* Telegram forgets what is below the offset and answers with the rest; an answer that
\* fails is an empty one.
GetUpdates ==
  /\ poller.pc = "poll"
  /\ kept' = {n \in kept : n >= poller.offset}
  /\ \E got \in CallOutcomes(kept', {}) :
       poller' = [poller EXCEPT !.batch = got, !.pc = IF got = {} THEN "poll" ELSE "next"]
  /\ UNCHANGED <<chat, status, presses, heard, restarts>>

\* The updates of an answer one after the other, each handled to its end.
NextUpdate ==
  /\ poller.pc = "next"
  /\ LET n == CHOOSE n \in poller.batch : \A k \in poller.batch : n <= k
     IN poller' = [pc |-> "read", offset |-> IF n < poller.offset THEN poller.offset ELSE n + 1,
                   batch |-> poller.batch \ {n}, now |-> n]
  /\ UNCHANGED <<chat, status, presses, kept, heard, restarts>>

Pressed == presses[poller.now]

\* decideProposal reads the row; one that is decided, or cannot be read, ends the matter.
ReadOffer ==
  /\ poller.pc = "read"
  /\ \/ /\ status[Pressed.of] = "pending"
        /\ poller' = [poller EXCEPT !.pc = "act"] /\ UNCHANGED heard
     \/ poller' = [poller EXCEPT !.pc = "answer"] /\ heard' = heard \union {poller.now}
  /\ UNCHANGED <<chat, status, presses, kept, restarts>>

Become(p, s) == status' = IF status[p] = "pending" THEN [status EXCEPT ![p] = s] ELSE status

\* It is carried out, unless somebody else was faster, or it throws.
Act ==
  /\ poller.pc = "act"
  /\ \/ Become(Pressed.of, IF Pressed.verb = "approve" THEN "executed" ELSE "rejected")
     \/ UNCHANGED status
  /\ heard' = heard \union {poller.now}
  /\ poller' = [poller EXCEPT !.pc = "answer"]
  /\ UNCHANGED <<chat, presses, kept, restarts>>

\* The outcome, or the error, takes the place of the message, buttons and all.
Answer ==
  /\ poller.pc = "answer"
  /\ \E m \in CallOutcomes("outcome", chat[Pressed.of]) : chat' = [chat EXCEPT ![Pressed.of] = m]
  /\ poller' = [poller EXCEPT !.pc = IF poller.batch = {} THEN "poll" ELSE "next"]
  /\ UNCHANGED <<status, presses, kept, heard, restarts>>

\* Mutant: the offset is kept over a restart.
RestartAtOffset ==
  /\ restarts > 0 /\ restarts' = restarts - 1
  /\ poller' = [FreshPoller EXCEPT !.offset = poller.offset]
  /\ UNCHANGED <<chat, status, presses, kept, heard>>

\* The process dies and starts anew.
PollerRestarts ==
  /\ restarts > 0 /\ restarts' = restarts - 1
  /\ poller' = FreshPoller
  /\ UNCHANGED <<chat, status, presses, kept, heard>>

\* The dashboard's approve and reject; a decided row is answered with a conflict.
DecideByHttp(p, verb) ==
  /\ status[p] = "pending"
  /\ Become(p, IF verb = "approve" THEN "executed" ELSE "rejected")
  /\ UNCHANGED <<chat, presses, kept, poller, heard, restarts>>

PollerStep == NextUpdate \/ ReadOffer \/ Act \/ Answer

TelegramNext ==
  \/ GetUpdates \/ PollerStep \/ PollerRestarts
  \/ \E p \in Offers :
       \/ ProposalPending(p)
       \/ \E verb \in Verbs : Press(p, verb) \/ DecideByHttp(p, verb)

\* The loop goes on, and not every poll fails.
TelegramFair == WF_telegramVars(PollerStep) /\ WF_telegramVars(GetUpdates /\ poller'.batch = kept')

TelegramSpec == TelegramInit /\ [][TelegramNext]_telegramVars /\ TelegramFair

-----------------------------------------------------------------------------
(* Correctness                                                             *)

Updates == 1..MaxPresses

TelegramTypeOK ==
  /\ chat \in [Offers -> {"unsent", "lost", "buttons", "outcome"}]
  /\ status \in [Offers -> {"pending", "executed", "rejected"}]
  /\ presses \in Seq([of : Offers, verb : Verbs]) /\ kept \subseteq DOMAIN presses
  /\ poller \in [pc : {"poll", "next", "read", "act", "answer"}, offset : 0..MaxPresses + 1,
                 batch : SUBSET Updates, now : 0..MaxPresses]
  /\ heard \subseteq DOMAIN presses /\ restarts \in Nat

\* Telegram forgets a press only once its handler came to an end, whatever the poller had
\* fetched and wherever it died: one nobody handled yet is still there to be fetched.
PressesKept == DOMAIN presses \ heard \subseteq kept

\* Whatever polls fail and whenever the process dies, every press of a button reaches
\* the pipeline.
PressesHeard == \A n \in Updates : n \in DOMAIN presses ~> n \in heard
=============================================================================
