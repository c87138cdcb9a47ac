--------------------------- MODULE TicketLifecycle ---------------------------
(***************************************************************************)
(* What SupportScout promises for one ticket, without agents, delegations  *)
(* or budgets.  The ticket is worked on while it is open, is untouched     *)
(* while it is held for a human, and settles once.  Whatever happens, the  *)
(* customer's reply is written at most once, only after the ticket has     *)
(* settled, and carries a draft only when review vetted that very draft.   *)
(* Orchestrator.tla implements this (Orchestrator!Lifecycle).              *)
(***************************************************************************)
EXTENDS Naturals

VARIABLES
  status,   \* "open", "held" for a human, or how the ticket settled
  draft,    \* how many drafts of the reply there have been: the latest one
  vetted,   \* the draft the latest review approved, 0 when it approved none
  replied,  \* the reply has been written
  reply     \* the draft it carries, 0 for the hand-off text

lifecycleVars == <<status, draft, vetted, replied, reply>>

Settled == {"completed", "escalated", "failed"}

Init ==
  /\ status  = "open"
  /\ draft   = 0
  /\ vetted  = 0
  /\ replied = FALSE
  /\ reply   = 0

\* Write a draft or review the one there is; the outcome may hold or escalate the ticket.
Work ==
  /\ status = "open"
  /\ \/ draft' = draft + 1 /\ vetted' = vetted
     \/ draft' = draft /\ vetted' \in {0, draft, vetted}
  /\ status' \in {"open", "held", "escalated"}
  /\ UNCHANGED <<replied, reply>>

Resume ==
  /\ status = "held"
  /\ status' = "open"
  /\ UNCHANGED <<draft, vetted, replied, reply>>

Complete ==
  /\ status = "open"
  /\ draft > 0
  /\ vetted = draft
  /\ status' = "completed"
  /\ UNCHANGED <<draft, vetted, replied, reply>>

\* Also while the ticket is held: the question for the human may itself fail.
GiveUp ==
  /\ status \in {"open", "held"}
  /\ status' \in {"escalated", "failed"}
  /\ UNCHANGED <<draft, vetted, replied, reply>>

Reply ==
  /\ status \in Settled
  /\ ~replied
  /\ replied' = TRUE
  /\ reply' = IF status = "completed" THEN vetted ELSE 0
  /\ UNCHANGED <<status, draft, vetted>>

Next == Work \/ Resume \/ Complete \/ GiveUp \/ Reply

Spec == Init /\ [][Next]_lifecycleVars

-----------------------------------------------------------------------------
(* What this comes to for the customer.                                    *)

\* Who gets a reply has a settled ticket; the reply carries a draft exactly when the ticket
\* was completed, and that draft is the last there was and the one review vetted.
ReplyIsVetted ==
  replied =>
    /\ status \in Settled
    /\ IF status = "completed" THEN reply # 0 /\ reply = vetted /\ reply = draft ELSE reply = 0

\* A settled ticket is not worked on, and a reply is not taken back or written again.
EndsOnce ==
  /\ status \in Settled => UNCHANGED <<status, draft, vetted>>
  /\ replied => UNCHANGED <<replied, reply>>

SettledAndRepliedOnce == [][EndsOnce]_lifecycleVars

\* For which a completed ticket has a vetted draft, and an unanswered one no reply.
ReplyInv ==
  /\ draft \in Nat
  /\ status = "completed" => draft # 0 /\ vetted = draft
  /\ ~replied => reply = 0
  /\ ReplyIsVetted
=============================================================================
