------------------------------ MODULE SingleUse ------------------------------
(***************************************************************************)
(* What the approval store promises of each approval, without locks, leases *)
(* or processes: it is prepared once, stays open until it is closed unspent *)
(* or spent, and a spent one sends at most once and says truly what it did. *)
(***************************************************************************)
EXTENDS Naturals

CONSTANT Approval

VARIABLES
  phase,   \* where each approval stands
  mails    \* how many mails the provider accepted for it

TypeOK ==
  /\ phase \in [Approval -> {"none", "open", "closed", "sending", "unknown", "used", "failed"}]
  /\ mails \in [Approval -> {0, 1}]

Init ==
  /\ phase = [a \in Approval |-> "none"]
  /\ mails = [a \in Approval |-> 0]

\* a goes from one of the phases in from to phase to; nothing is sent by that.
Move(a, from, to) ==
  /\ phase[a] \in from
  /\ phase' = [phase EXCEPT ![a] = to]
  /\ UNCHANGED mails

Prepare(a) == Move(a, {"none"}, "open")
Close(a)   == Move(a, {"open"}, "closed")
Spend(a)   == Move(a, {"open"}, "sending")
Lose(a)    == Move(a, {"sending"}, "unknown")

\* The outcome, once known, is final: used for a mail that went, failed for none.
Use(a)     == mails[a] = 1 /\ Move(a, {"sending", "unknown"}, "used")
Fail(a)    == mails[a] = 0 /\ Move(a, {"sending", "unknown"}, "failed")

\* The provider accepts the one mail, which may be after its outcome was given up
\* as unknown, and is never after failed.
Mail(a) ==
  /\ phase[a] \in {"sending", "unknown"} /\ mails[a] = 0
  /\ mails' = [mails EXCEPT ![a] = 1]
  /\ UNCHANGED phase

Next == \E a \in Approval : Prepare(a) \/ Close(a) \/ Spend(a) \/ Lose(a) \/ Use(a) \/ Fail(a) \/ Mail(a)

Spec == Init /\ [][Next]_<<phase, mails>>
=============================================================================
