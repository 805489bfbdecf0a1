------------------------------ MODULE SendGate ------------------------------
(***************************************************************************)
(* The send gate: how one prepared mail goes through the approval store,    *)
(* the claim, the sending lease, the rate ledger and the provider, with     *)
(* several processes working on the same files.                             *)
(*                                                                          *)
(* A worker is a process (a CLI command or an MCP server's call).  Every     *)
(* record transition takes the record's lock, reads the record and the      *)
(* configuration, decides, writes and lets go; here that is two steps, one   *)
(* that locks and reads and one that writes and unlocks, so that the         *)
(* configuration, the draft and the clock can move in between.  A crash can  *)
(* fall before any step.                                                     *)
(*                                                                          *)
(* Time is kept as ages: a record's age is the time since the timestamp its  *)
(* state is measured from (createdAt, approvedAt, the last renewal), so the  *)
(* clock itself needs no bound.                                              *)
(***************************************************************************)
EXTENDS Integers, FiniteSets

CONSTANTS
  Approval,      \* approval ids, all prepared for one draft of one mailbox
  Worker,        \* processes
  Policies,      \* the send policies a person may set, "chat" among them
  Calls,         \* what else is called: of "approve", "revoke", "status", "remove"
  Edits,         \* who edits the draft: a subset of {"web", "late", "tool"}
  Consumed,      \* a send uses its draft up (Gmail); a Resend message stays
  LockBreaks,    \* a live but stalled lock holder may have its lock taken over
  ChatLife,      \* APPROVAL_LIFETIMES.chat
  ConfirmLife,   \* APPROVAL_LIFETIMES.confirm
  ApprovedLife,  \* APPROVAL_LIFETIMES.approved
  Lease,         \* SENDING_LEASE_MS
  HourWindow,    \* the ledger's hour
  DayWindow,     \* the ledger's day
  PerHour,       \* caps.perHour
  PerDay,        \* caps.perDay
  MaxAttempts,   \* MAX_CHALLENGE_ATTEMPTS
  MaxRetries,    \* throttle retries the pacing allows
  MaxEpoch,      \* bound: how often the policy is turned to never
  MaxVersion,    \* bound: how many versions the draft has
  MaxBack        \* bound: how often the clock steps back

ASSUME WorkerAssumption   == "none" \notin Worker /\ "none" \notin Approval
ASSUME PolicyAssumption   == Policies \subseteq {"chat", "confirm", "never"}
ASSUME SwitchAssumption   == LockBreaks \in BOOLEAN /\ Consumed \in BOOLEAN
ASSUME LifetimeAssumption ==
  /\ ChatLife \in Nat /\ ConfirmLife \in Nat /\ ApprovedLife \in Nat /\ Lease \in Nat
  /\ HourWindow \in Nat /\ DayWindow \in Nat
ASSUME BoundAssumption    ==
  /\ PerHour \in Nat /\ PerDay \in Nat /\ MaxAttempts \in Nat /\ MaxRetries \in Nat
  /\ MaxEpoch \in Nat /\ MaxVersion \in Nat /\ MaxBack \in Nat

VARIABLES
  rec,       \* <id>.json: the approval record of each approval
  claim,     \* <id>.claim: who made the O_EXCL claim marker, or "none"
  lock,      \* <id>.json.lock: the thread that holds it, Free or Orphan
  held,      \* the ledger: age of an approval's reservation, or Unreserved
  config,    \* the mailbox in the configuration: policy, epoch, present
  draft,     \* the provider's draft: its version, or 0 once it is gone
  wire,      \* the request in flight for an approval, or its answer
  accepted,  \* how often the provider accepted a send for an approval
  sent,      \* the draft versions the provider sent for an approval
  me,        \* each worker's own memory: where its call is and what it read
  beat,      \* each worker's lease timer: the renewal it has under way
  backs,     \* how often the clock stepped back
  fenced,    \* history: the epoch of the last sweep that ended
  missed     \* history: approvals a sweep could not revoke

disk     == <<rec, claim, lock, held>>
provider == <<draft, wire, accepted, sent>>
history  == <<fenced, missed>>
vars     == <<disk, config, provider, me, beat, backs, history>>

-----------------------------------------------------------------------------
(* Records *)

States   == {"none", "pending", "approved", "sending", "used", "failed",
             "unknown", "expired", "revoked"}
Active   == {"pending", "approved"}

NoRecord == [state |-> "none", route |-> "chat", epoch |-> 0, asked |-> 0,
             ver |-> 0, yes |-> 0, tries |-> 0, code |-> FALSE, age |-> 0]

\* How long the state of r lasts before the clock alone ends it.
Life(r) ==
  CASE r.state = "pending" /\ r.route = "chat"    -> ChatLife
    [] r.state = "pending" /\ r.route = "confirm" -> ConfirmLife
    [] r.state = "approved"                       -> ApprovedLife
    [] OTHER                                      -> Lease

\* r ended in state s; its timestamps matter no more.
Ended(r, s) == [r EXCEPT !.state = s, !.code = FALSE, !.age = 0]

\* Mutant of Derive: a lapsed lease is never noticed.
DeriveWithoutLease(r) ==
  IF r.state \in Active /\ (r.age < 0 \/ r.age >= Life(r)) THEN Ended(r, "expired") ELSE r

\* What the clock alone makes of a record: a passed deadline or a clock seen
\* before its timestamp expires it, a lapsed lease leaves its outcome unknown.
Derive(r) ==
  IF r.state \in Active /\ (r.age < 0 \/ r.age >= Life(r)) THEN Ended(r, "expired")
  ELSE IF r.state = "sending" /\ r.age >= Lease THEN Ended(r, "unknown")
  ELSE r

\* Whether the configuration revokes an active record for this action.  A live
\* never is asked before the epoch, and revokes only what is being acted on.
Revokes(r, live, action) ==
  /\ r.state \in Active
  /\ action # "inspect"
  /\ \/ ~live.present
     \/ live.policy = "never" /\ action \in {"approve", "claim"}
     \/ live.policy # "never" /\ r.epoch # live.epoch

Settle(r, live, action) ==
  LET d == Derive(r) IN IF Revokes(d, live, action) THEN Ended(d, "revoked") ELSE d

\* Mutant of Claimable: the live policy decides, the record's own route does not.
ClaimableByPolicyAlone(r, live) == r.state = "approved" \/ (r.state = "pending" /\ live.policy = "chat")

Claimable(r, live) ==
  \/ r.state = "approved"
  \/ r.state = "pending" /\ r.route = "chat" /\ live.policy = "chat"

\* A renewal: written only while sending, and only by a clock past the last one.
Renew(r) == IF r.state = "sending" /\ r.age > 0 THEN [r EXCEPT !.age = 0] ELSE r

-----------------------------------------------------------------------------
(* Threads, locks and a worker's own memory *)

Main(w)   == <<w, "main">>
Timer(w)  == <<w, "timer">>
Free      == <<>>
Orphan    == <<"crashed">>

Blank     == [rec |-> NoRecord, live |-> [policy |-> "chat", epoch |-> 0, present |-> FALSE],
              dirty |-> FALSE]
Resting   == [pc |-> "idle", job |-> "none", ver |-> 0, seen |-> Blank,
              todo |-> {}, retries |-> 0]
Quiet     == [on |-> FALSE, job |-> "none", seen |-> Blank]

\* The steps in which a call holds the claim it made, its lease being renewed.
Holding == {"reserve", "look", "fence", "fencing", "call", "wait", "accept", "using",
            "release", "fail", "failing", "lost", "losing", "unreserve"}

\* w's memory once it goes on to step p, what it read under a lock forgotten.
At(w, p) == [me[w] EXCEPT !.pc = p, !.seen = Blank]

\* What a transition reads under the lock: the record as the clock and the
\* configuration leave it, the configuration, and whether that has to be written.
Snapshot(a, action) ==
  LET cur == Settle(rec[a], config, action)
  IN  [rec |-> cur, live |-> config, dirty |-> cur.state # rec[a].state]

Acquire(t, a) == lock[a] = Free /\ lock' = [lock EXCEPT ![a] = t]

\* The first half of a record transition of worker w.
Enter(w, a, step, action) ==
  /\ rec[a].state # "none"
  /\ Acquire(Main(w), a)
  /\ me' = [me EXCEPT ![w] = [@ EXCEPT !.pc = step, !.job = a, !.seen = Snapshot(a, action)]]
  /\ UNCHANGED <<rec, claim, held, config, provider, beat, backs, history>>

\* Writes next over what was read, if either differs from the file, and lets the
\* lock go if it is still this thread's.
Put(t, a, read, next) ==
  /\ rec' = IF read.dirty \/ next # read.rec THEN [rec EXCEPT ![a] = next] ELSE rec
  /\ lock' = IF lock[a] = t THEN [lock EXCEPT ![a] = Free] ELSE lock

\* The second half of a record transition of worker w, which then has memory mine.
Leave(w, next, mine) ==
  /\ Put(Main(w), me[w].job, me[w].seen, next)
  /\ me' = [me EXCEPT ![w] = mine]
  /\ UNCHANGED <<claim, held, config, provider, beat, backs, history>>

\* A step of w alone: only its own memory changes.
Only(w, mine) ==
  /\ me' = [me EXCEPT ![w] = mine]
  /\ UNCHANGED <<disk, config, provider, beat, backs, history>>

-----------------------------------------------------------------------------
(* Preparing a send, and editing the draft it is about *)

Unreserved == -1 - MaxBack

\* Whether a send stands on the draft, as refuseWhileSending lists it.
BeingSent == \E a \in Approval : Derive(rec[a]).state = "sending"

\* The draft once it is saved again, under a new version; a draft that is gone stays gone.
Rewritten == {IF draft = 0 \/ draft = MaxVersion THEN draft ELSE draft + 1}

\* Mutant of PrepareStart: the policy never is not asked.
PrepareStartUngated(w, a) ==
  /\ me[w].pc = "idle" /\ rec[a].state = "none" /\ \A v \in Worker : me[v].job # a
  /\ config.present
  /\ Only(w, [Resting EXCEPT !.pc = "resolved", !.job = a,
                !.seen.rec = [NoRecord EXCEPT !.route = config.policy, !.asked = config.epoch]])

\* prepareOneSend resolves the mailbox and with it the mailbox's own policy, ...
PrepareStart(w, a) ==
  /\ me[w].pc = "idle" /\ rec[a].state = "none" /\ \A v \in Worker : me[v].job # a
  /\ config.present /\ config.policy # "never"
  /\ Only(w, [Resting EXCEPT !.pc = "resolved", !.job = a,
                !.seen.rec = [NoRecord EXCEPT !.route = config.policy, !.asked = config.epoch]])

\* ... and then loads the configuration again, for the epoch, and reads the draft:
\* one that is gone, or that the rules refuse, is not prepared.
PrepareRead(w) ==
  /\ me[w].pc = "resolved"
  /\ \/ /\ draft > 0
        /\ \E next \in {"bound"} \cup (IF "tool" \in Edits THEN {"fit"} ELSE {}) :
             Only(w, [me[w] EXCEPT !.pc = next, !.seen.rec.epoch = config.epoch, !.seen.rec.ver = draft])
     \/ Only(w, Resting)

\* fitFrom, for a From line that does not fit: never under a send, and only on the
\* draft that was read; ...
PrepareFit(w) ==
  /\ me[w].pc = "fit"
  /\ Only(w, IF ~BeingSent /\ draft = me[w].seen.rec.ver THEN [me[w] EXCEPT !.pc = "relabel"] ELSE Resting)

\* ... the line is rewritten, ...
PrepareRelabel(w) ==
  /\ me[w].pc = "relabel"
  /\ draft' \in Rewritten
  /\ me' = [me EXCEPT ![w] = [@ EXCEPT !.pc = "reread"]]
  /\ UNCHANGED <<disk, config, wire, accepted, sent, beat, backs, history>>

\* ... and what is then read is what is bound.
PrepareReread(w) ==
  /\ me[w].pc = "reread"
  /\ Only(w, IF draft > 0 THEN [me[w] EXCEPT !.pc = "bound", !.seen.rec.ver = draft] ELSE Resting)

\* The record is written, pending: a risk flag asks for a person as confirm does.
PrepareCreate(w) ==
  /\ me[w].pc = "bound"
  /\ \E route \in {me[w].seen.rec.route, "confirm"} :
       rec' = [rec EXCEPT ![me[w].job] =
                 [me[w].seen.rec EXCEPT !.state = "pending", !.route = route]]
  /\ me' = [me EXCEPT ![w] = Resting]
  /\ UNCHANGED <<claim, lock, held, config, provider, beat, backs, history>>

\* A person edits or deletes the draft in the provider's own client: at any time
\* ("late"), or only while no send stands on it ("web").
WebEdit ==
  /\ \/ "late" \in Edits
     \/ /\ "web" \in Edits
        /\ \A w \in Worker : me[w].pc \notin Holding
        /\ \A a \in Approval : wire[a] # "asked"
  /\ draft > 0
  /\ draft' \in {0} \cup Rewritten
  /\ UNCHANGED <<disk, config, wire, accepted, sent, me, beat, backs, history>>

\* The suite's own draft update and delete: refused while a send stands on the
\* draft, ...
EditCheck(w) ==
  /\ "tool" \in Edits /\ me[w].pc = "idle" /\ draft > 0 /\ ~BeingSent
  /\ Only(w, [Resting EXCEPT !.pc = "edit"])

\* ... and done after the draft and its attachments have been read.
EditApply(w) ==
  /\ me[w].pc = "edit"
  /\ draft' \in {0} \cup Rewritten
  /\ me' = [me EXCEPT ![w] = Resting]
  /\ UNCHANGED <<disk, config, wire, accepted, sent, beat, backs, history>>

-----------------------------------------------------------------------------
(* Sending: sendApproved, from the first look to the recorded outcome *)

SendStart(w, a) == me[w].pc = "idle" /\ Enter(w, a, "inspecting", "claim")

Inspected(w) ==
  /\ me[w].pc = "inspecting"
  /\ Leave(w, me[w].seen.rec, IF me[w].seen.rec.state \in Active THEN At(w, "read") ELSE Resting)

\* The draft is read before the claim; a draft, a rule or a take that refuses
\* leaves the approval as it was.
ReadDraft(w) ==
  /\ me[w].pc = "read"
  /\ \/ draft > 0 /\ Only(w, [At(w, "claim") EXCEPT !.ver = draft])
     \/ Only(w, Resting)

ClaimEnter(w) == me[w].pc = "claim" /\ Enter(w, me[w].job, "claiming", "claim")

\* claimForSend's decision on the record it holds; agrees: the account is the one
\* the send was prepared for, and the caller expects what was prepared.
ClaimDecision(r, live, ver, agrees) ==
  IF r.state \notin Active THEN r
  ELSE IF ver # r.ver \/ ~agrees THEN Ended(r, "revoked")
  ELSE IF ~Claimable(r, live) THEN r
  ELSE IF r.state = "approved" /\ r.yes # r.ver THEN Ended(r, "revoked")
  ELSE [r EXCEPT !.state = "sending", !.age = 0]

ClaimLeave(w) ==
  /\ me[w].pc = "claiming"
  /\ \E agrees \in BOOLEAN :
       LET r    == me[w].seen.rec
           next == ClaimDecision(r, me[w].seen.live, me[w].ver, agrees)
       IN  Leave(w, next, IF r.state \in Active /\ next.state = "sending"
                          THEN [At(w, "mark") EXCEPT !.ver = r.ver] ELSE Resting)

\* Mutant of MarkerAbsent: the marker is opened without O_EXCL.
MarkerOverwritten(a) == TRUE

\* O_EXCL: whether the marker can still be created.
MarkerAbsent(a) == claim[a] = "none"

\* The claim marker is made after the record's lock is let go: one maker, ever.
Mark(w) ==
  /\ me[w].pc = "mark"
  /\ LET a == me[w].job IN
     \/ /\ MarkerAbsent(a)
        /\ claim' = [claim EXCEPT ![a] = w]
        /\ me' = [me EXCEPT ![w] = At(w, "reserve")]
        /\ UNCHANGED <<rec, lock, held, config, provider, beat, backs, history>>
     \/ ~MarkerAbsent(a) /\ Only(w, Resting)

\* Mutant of Counted: a reservation that seems to lie in the future does not count.
CountedPast(window) == {a \in Approval : held[a] # Unreserved /\ held[a] \in 0..(window - 1)}

\* The reservations that count against a window.
Counted(window) == {a \in Approval : held[a] # Unreserved /\ held[a] < window}

CapReached == Cardinality(Counted(HourWindow)) >= PerHour \/ Cardinality(Counted(DayWindow)) >= PerDay

\* A slot of the rate ledger, under the ledger's own lock; without one, for the cap
\* or for that lock, no send.
Reserve(w) ==
  /\ me[w].pc = "reserve"
  /\ \/ /\ ~CapReached
        /\ held' = [held EXCEPT ![me[w].job] = 0]
        /\ me' = [me EXCEPT ![w] = At(w, "look")]
        /\ UNCHANGED <<rec, claim, lock, config, provider, beat, backs, history>>
     \/ Only(w, At(w, "release"))

\* Mutant of StillBound: the last look only asks whether there is a draft.
StillThere(w) == draft > 0

StillBound(w) == draft = me[w].ver

\* The last look before every attempt: the draft as claimed, the rules as now.
LastLook(w) ==
  /\ me[w].pc = "look"
  /\ \/ StillBound(w) /\ Only(w, At(w, "fence"))
     \/ Only(w, At(w, "release"))

FenceEnter(w) == me[w].pc = "fence" /\ Enter(w, me[w].job, "fencing", "inspect")

\* fenceOrStop: go on with the lease renewed, or stop before anything was sent.
FenceLeave(w) ==
  /\ me[w].pc = "fencing"
  /\ LET r == me[w].seen.rec IN
     Leave(w, Renew(r), At(w, IF r.state = "sending" THEN "call" ELSE "lost"))

\* The one provider mutation.
Call(w) ==
  /\ me[w].pc = "call"
  /\ wire' = [wire EXCEPT ![me[w].job] = "asked"]
  /\ me' = [me EXCEPT ![w] = At(w, "wait")]
  /\ UNCHANGED <<disk, config, draft, accepted, sent, beat, backs, history>>

\* The provider sends the draft as it is now, and answers with an id or without.
ProviderAccepts(a) ==
  /\ wire[a] = "asked" /\ draft > 0
  /\ accepted' = [accepted EXCEPT ![a] = @ + 1]
  /\ sent' = [sent EXCEPT ![a] = @ \cup {draft}]
  /\ draft' = IF Consumed THEN 0 ELSE draft
  /\ \E answer \in {"ok", "noid"} : wire' = [wire EXCEPT ![a] = answer]
  /\ UNCHANGED <<disk, config, me, beat, backs, history>>

\* The provider refuses, and so sent nothing: for good, or for now.
ProviderRefuses(a) ==
  /\ wire[a] = "asked"
  /\ \E answer \in {"refused", "throttled"} : wire' = [wire EXCEPT ![a] = answer]
  /\ UNCHANGED <<disk, config, draft, accepted, sent, me, beat, backs, history>>

\* Mutants of AfterAnswer: a refusal is taken for an acceptance; an accepted send
\* without an id is taken for none; a throttle is retried without end.
AfterAnswerAllAccepted(w, answer) ==
  CASE answer \in {"ok", "refused"} -> At(w, "accept")
    [] answer = "noid" -> Resting
    [] answer = "throttled" /\ me[w].retries < MaxRetries -> [At(w, "look") EXCEPT !.retries = @ + 1]
    [] OTHER -> At(w, "release")

AfterAnswerNoIdNoSend(w, answer) ==
  CASE answer = "ok" -> At(w, "accept")
    [] answer = "throttled" /\ me[w].retries < MaxRetries -> [At(w, "look") EXCEPT !.retries = @ + 1]
    [] OTHER -> At(w, "release")

AfterAnswerRetryForever(w, answer) ==
  CASE answer = "ok" -> At(w, "accept")
    [] answer = "noid" -> Resting
    [] answer = "throttled" -> At(w, "look")
    [] OTHER -> At(w, "release")

\* Where the call goes with an answer: only a throttle is tried again.
AfterAnswer(w, answer) ==
  CASE answer = "ok" -> At(w, "accept")
    [] answer = "noid" -> Resting
    [] answer = "throttled" /\ me[w].retries < MaxRetries ->
         [At(w, "look") EXCEPT !.retries = @ + 1]
    [] OTHER -> At(w, "release")

Answered(w) ==
  /\ me[w].pc = "wait" /\ wire[me[w].job] \in {"ok", "noid", "refused", "throttled"}
  /\ wire' = [wire EXCEPT ![me[w].job] = "none"]
  /\ me' = [me EXCEPT ![w] = AfterAnswer(w, wire[me[w].job])]
  /\ UNCHANGED <<disk, config, draft, accepted, sent, beat, backs, history>>

\* Mutant of AnswerLost: a lost answer is recorded as a failure.
AnswerLostFails(w) == me[w].pc = "wait" /\ Only(w, At(w, "release"))

\* The answer is lost: SEND_OUTCOME_UNKNOWN, nothing recorded, never retried.
AnswerLost(w) == me[w].pc = "wait" /\ Only(w, Resting)

\* complete(): the claimant records the outcome, from sending or from unknown.
Outcome(r, s) == IF r.state \in {"sending", "unknown"} THEN Ended(r, s) ELSE r

UseEnter(w) == me[w].pc = "accept" /\ Enter(w, me[w].job, "using", "claim")
UseLeave(w) == me[w].pc = "using" /\ Leave(w, Outcome(me[w].seen.rec, "used"), Resting)

\* recordNoSend gives the slot back, if it can, and then records the failure; ...
Release(w) ==
  /\ me[w].pc = "release"
  /\ held' \in {held, [held EXCEPT ![me[w].job] = Unreserved]}
  /\ me' = [me EXCEPT ![w] = At(w, "fail")]
  /\ UNCHANGED <<rec, claim, lock, config, provider, beat, backs, history>>

FailEnter(w) == me[w].pc = "fail" /\ Enter(w, me[w].job, "failing", "claim")
FailLeave(w) == me[w].pc = "failing" /\ Leave(w, Outcome(me[w].seen.rec, "failed"), Resting)

\* ... a lease lost before the send is recorded first, by the fence itself.
LostEnter(w) == me[w].pc = "lost" /\ Enter(w, me[w].job, "losing", "claim")
LostLeave(w) == me[w].pc = "losing" /\ Leave(w, Outcome(me[w].seen.rec, "failed"), At(w, "unreserve"))

Unreserve(w) ==
  /\ me[w].pc = "unreserve"
  /\ held' \in {held, [held EXCEPT ![me[w].job] = Unreserved]}
  /\ me' = [me EXCEPT ![w] = Resting]
  /\ UNCHANGED <<rec, claim, lock, config, provider, beat, backs, history>>

\* withSendingLease's timer: one renewal at a time while the work is unsettled.
BeatEnter(w) ==
  /\ me[w].pc \in Holding /\ ~beat[w].on
  /\ Acquire(Timer(w), me[w].job)
  /\ beat' = [beat EXCEPT ![w] = [on |-> TRUE, job |-> me[w].job,
                                  seen |-> Snapshot(me[w].job, "inspect")]]
  /\ UNCHANGED <<rec, claim, held, config, provider, me, backs, history>>

BeatLeave(w) ==
  /\ beat[w].on
  /\ Put(Timer(w), beat[w].job, beat[w].seen, Renew(beat[w].seen.rec))
  /\ beat' = [beat EXCEPT ![w] = Quiet]
  /\ UNCHANGED <<claim, held, config, provider, me, backs, history>>

-----------------------------------------------------------------------------
(* The person: approving, cancelling, looking *)

ShowEnter(w, a)   == "approve" \in Calls /\ me[w].pc = "idle" /\ Enter(w, a, "showing", "approve")
AnswerEnter(w, a) == "approve" \in Calls /\ me[w].pc = "idle" /\ Enter(w, a, "answering", "approve")

\* beginApproval reads the draft again: the preview is of what is there now, and
\* a changed draft voids the approval instead of being shown.
ShowLeave(w) ==
  /\ me[w].pc = "showing"
  /\ LET r == me[w].seen.rec IN
     Leave(w, r, IF r.state # "pending" \/ draft = 0 THEN Resting
                 ELSE At(w, IF draft = r.ver THEN "challenge" ELSE "void"))

ChallengeEnter(w) == me[w].pc = "challenge" /\ Enter(w, me[w].job, "challenging", "approve")
ChallengeLeave(w) ==
  /\ me[w].pc = "challenging"
  /\ LET r == me[w].seen.rec IN
     Leave(w, IF r.state = "pending" THEN [r EXCEPT !.code = TRUE] ELSE r, Resting)

VoidEnter(w) == me[w].pc = "void" /\ Enter(w, me[w].job, "revoking", "revoke")

\* finishApproval reads the draft once more, and the typed answer with it.
AnswerLeave(w) ==
  /\ me[w].pc = "answering"
  /\ LET r == me[w].seen.rec IN
     Leave(w, r, IF r.state # "pending" \/ draft = 0 THEN Resting
                 ELSE [At(w, "approve") EXCEPT !.ver = draft])

ApproveEnter(w) == me[w].pc = "approve" /\ Enter(w, me[w].job, "approving", "approve")

\* approve(): an edit voids, the right answer approves, the last wrong one voids.
ApproveDecision(r, ver, right) ==
  IF r.state # "pending" \/ ~r.code THEN r
  ELSE IF ver # r.ver THEN Ended(r, "revoked")
  ELSE IF right THEN [r EXCEPT !.state = "approved", !.yes = ver, !.code = FALSE, !.age = 0]
  ELSE IF r.tries + 1 >= MaxAttempts THEN Ended([r EXCEPT !.tries = @ + 1], "revoked")
  ELSE [r EXCEPT !.tries = @ + 1]

ApproveLeave(w) ==
  /\ me[w].pc = "approving"
  /\ \E right \in BOOLEAN : Leave(w, ApproveDecision(me[w].seen.rec, me[w].ver, right), Resting)

\* Mutant of Revoked: a send under way is revoked too.
RevokedWhileSending(r) == IF r.state \in Active \cup {"sending"} THEN Ended(r, "revoked") ELSE r

Revoked(r) == IF r.state \in Active THEN Ended(r, "revoked") ELSE r

RevokeEnter(w, a) == "revoke" \in Calls /\ me[w].pc = "idle" /\ Enter(w, a, "revoking", "revoke")
RevokeLeave(w)    == me[w].pc = "revoking" /\ Leave(w, Revoked(me[w].seen.rec), Resting)

\* A status or a wait: writes what the clock derives and nothing else.
StatusEnter(w, a) == "status" \in Calls /\ me[w].pc = "idle" /\ Enter(w, a, "status", "inspect")
StatusLeave(w)    == me[w].pc = "status" /\ Leave(w, me[w].seen.rec, Resting)

-----------------------------------------------------------------------------
(* The configuration: the policy, its epoch, and the sweep after never *)

\* Mutant of NextConfig: turning sending off leaves the epoch alone.
NextConfigSameEpoch(p) == [config EXCEPT !.policy = p]

\* withSendEpochs: the epoch rises in the very write that turns sending off.
NextConfig(p) ==
  [config EXCEPT !.policy = p, !.epoch = IF p = "never" THEN @ + 1 ELSE @]

SetPolicy(w, p) ==
  /\ me[w].pc = "idle" /\ config.present /\ p # config.policy
  /\ p = "never" => config.epoch < MaxEpoch
  /\ config' = NextConfig(p)
  /\ me' = [me EXCEPT ![w] = IF p = "never"
                             THEN [Resting EXCEPT !.pc = "list", !.ver = config.epoch + 1]
                             ELSE Resting]
  /\ UNCHANGED <<disk, provider, beat, backs, history>>

\* sweepFencedOwners lists without locks, and then revokes each under its lock.
SweepList(w) ==
  /\ me[w].pc = "list"
  /\ Only(w, [At(w, "sweep") EXCEPT !.todo = {a \in Approval : Derive(rec[a]).state \in Active}])

SweepEnter(w, a) == me[w].pc = "sweep" /\ a \in me[w].todo /\ Enter(w, a, "sweeping", "revoke")

SweepLeave(w) ==
  /\ me[w].pc = "sweeping"
  /\ Leave(w, Revoked(me[w].seen.rec),
           [At(w, "sweep") EXCEPT !.job = "none", !.todo = @ \ {me[w].job}])

\* The record's lock could not be had in time: couldNotRevoke.
SweepMiss(w, a) ==
  /\ me[w].pc = "sweep" /\ a \in me[w].todo /\ lock[a] # Free
  /\ missed' = missed \cup {a}
  /\ me' = [me EXCEPT ![w] = [me[w] EXCEPT !.todo = @ \ {a}]]
  /\ UNCHANGED <<disk, config, provider, beat, backs, fenced>>

SweepEnd(w) ==
  /\ me[w].pc = "sweep" /\ me[w].todo = {}
  /\ fenced' = IF me[w].ver > fenced THEN me[w].ver ELSE fenced
  /\ me' = [me EXCEPT ![w] = Resting]
  /\ UNCHANGED <<disk, config, provider, beat, backs, missed>>

\* The mailbox is removed: re-added, it gets another id, and so never comes back.
RemoveOwner ==
  /\ "remove" \in Calls /\ config.present
  /\ config' = [config EXCEPT !.present = FALSE]
  /\ UNCHANGED <<disk, provider, me, beat, backs, history>>

-----------------------------------------------------------------------------
(* Failures and the clock *)

\* A call that waited too long for a record's lock gives up: LOCK_TIMEOUT.
TimeOut(w) ==
  /\ me[w].pc \in {"claim", "fence", "accept", "fail", "lost", "challenge", "void", "approve"}
  /\ lock[me[w].job] # Free
  /\ Only(w, CASE me[w].pc = "fence" -> At(w, "lost")
               [] me[w].pc = "lost"  -> At(w, "unreserve")
               [] OTHER              -> Resting)

\* The process dies: its memory and its timer are gone, its lock files stay.
Crash(w) ==
  /\ me[w].pc # "idle" \/ beat[w].on
  /\ me' = [me EXCEPT ![w] = Resting]
  /\ beat' = [beat EXCEPT ![w] = Quiet]
  /\ lock' = [a \in Approval |-> IF lock[a] \in {Main(w), Timer(w)} THEN Orphan ELSE lock[a]]
  /\ UNCHANGED <<rec, claim, held, config, provider, backs, history>>

\* A stale lock is taken over: a dead holder's, or a stalled one's.
TakeOver(a) ==
  /\ lock[a] = Orphan \/ (LockBreaks /\ lock[a] # Free)
  /\ lock' = [lock EXCEPT ![a] = Free]
  /\ UNCHANGED <<rec, claim, held, config, provider, me, beat, backs, history>>

\* r once the clock has moved by d, up to the age past which nothing changes, even
\* by the steps back that are left.
Aged(r, d) ==
  IF r.state \in Active \cup {"sending"}
  THEN [r EXCEPT !.age = IF @ + d > Life(r) + MaxBack - backs THEN @ ELSE @ + d]
  ELSE r

AgedSlot(h, d) == IF h = Unreserved \/ h + d > DayWindow + MaxBack - backs THEN h ELSE h + d

Clock(d) ==
  /\ rec' = [a \in Approval |-> Aged(rec[a], d)]
  /\ held' = [a \in Approval |-> AgedSlot(held[a], d)]
  /\ me' = [w \in Worker |-> [me[w] EXCEPT !.seen.rec = Aged(@, d)]]
  /\ beat' = [w \in Worker |-> [beat[w] EXCEPT !.seen.rec = Aged(@, d)]]
  /\ UNCHANGED <<claim, lock, config, provider, history>>

Tick == Clock(1) /\ UNCHANGED backs

\* The clock is set back, between transitions.
StepBack ==
  /\ backs < MaxBack /\ \A a \in Approval : lock[a] = Free
  /\ Clock(-1)
  /\ backs' = backs + 1

-----------------------------------------------------------------------------
Init ==
  /\ rec      = [a \in Approval |-> NoRecord]
  /\ claim    = [a \in Approval |-> "none"]
  /\ lock     = [a \in Approval |-> Free]
  /\ held     = [a \in Approval |-> Unreserved]
  /\ config   = [policy |-> "chat", epoch |-> 0, present |-> TRUE]
  /\ draft    = 1
  /\ wire     = [a \in Approval |-> "none"]
  /\ accepted = [a \in Approval |-> 0]
  /\ sent     = [a \in Approval |-> {}]
  /\ me       = [w \in Worker |-> Resting]
  /\ beat     = [w \in Worker |-> Quiet]
  /\ backs    = 0
  /\ fenced   = 0
  /\ missed   = {}

\* The calls a process can be asked to make ...
Begin(w) ==
  \/ \E a \in Approval : PrepareStart(w, a) \/ SendStart(w, a) \/ ShowEnter(w, a)
                         \/ AnswerEnter(w, a) \/ RevokeEnter(w, a) \/ StatusEnter(w, a)
  \/ \E p \in Policies : SetPolicy(w, p)
  \/ EditCheck(w)

\* ... and the steps of a call under way.
Prepare(w) == PrepareRead(w) \/ PrepareFit(w) \/ PrepareRelabel(w) \/ PrepareReread(w) \/ PrepareCreate(w)

Send(w) ==
  \/ Inspected(w) \/ ReadDraft(w) \/ ClaimEnter(w) \/ ClaimLeave(w) \/ Mark(w)
  \/ Reserve(w) \/ LastLook(w) \/ FenceEnter(w) \/ FenceLeave(w) \/ Call(w)
  \/ Answered(w) \/ AnswerLost(w) \/ UseEnter(w) \/ UseLeave(w)
  \/ Release(w) \/ FailEnter(w) \/ FailLeave(w)
  \/ LostEnter(w) \/ LostLeave(w) \/ Unreserve(w)

Person(w) ==
  \/ ShowLeave(w) \/ ChallengeEnter(w) \/ ChallengeLeave(w) \/ VoidEnter(w)
  \/ AnswerLeave(w) \/ ApproveEnter(w) \/ ApproveLeave(w) \/ RevokeLeave(w) \/ StatusLeave(w)

Sweep(w) ==
  \/ SweepList(w) \/ SweepLeave(w) \/ SweepEnd(w)
  \/ \E a \in Approval : SweepEnter(w, a) \/ SweepMiss(w, a)

Continue(w) == Prepare(w) \/ Send(w) \/ Person(w) \/ Sweep(w) \/ EditApply(w) \/ TimeOut(w)

Next ==
  \/ \E w \in Worker : Begin(w) \/ Continue(w) \/ BeatEnter(w) \/ BeatLeave(w) \/ Crash(w)
  \/ \E a \in Approval : ProviderAccepts(a) \/ ProviderRefuses(a) \/ TakeOver(a)
  \/ WebEdit \/ RemoveOwner \/ Tick \/ StepBack

Spec == Init /\ [][Next]_vars

\* A process that does not crash goes on with the call it has under way and with
\* the renewal its timer began, time passes, and an abandoned lock is taken over
\* by whoever waits for it.  Nothing makes the provider answer.
Fairness ==
  /\ \A w \in Worker : WF_vars(Continue(w)) /\ WF_vars(BeatLeave(w))
  /\ \A a \in Approval : WF_vars(TakeOver(a))
  /\ WF_vars(Tick)

FairSpec == Spec /\ Fairness

-----------------------------------------------------------------------------
(* Types *)

Steps == {"idle", "resolved", "fit", "relabel", "reread", "bound", "edit", "inspecting", "read", "claim",
          "claiming", "mark", "showing", "challenge", "challenging", "void", "revoking", "answering",
          "approve", "approving", "status", "list", "sweep", "sweeping"} \cup Holding

Records  == [state : States, route : {"chat", "confirm"}, epoch : Nat, asked : Nat, ver : Nat,
             yes : Nat, tries : Nat, code : BOOLEAN, age : Int]
Configs  == [policy : {"chat", "confirm", "never"}, epoch : Nat, present : BOOLEAN]
Seen     == [rec : Records, live : Configs, dirty : BOOLEAN]
Memories == [pc : Steps, job : Approval \cup {"none"}, ver : Nat, seen : Seen,
             todo : SUBSET Approval, retries : Nat]
Beats    == [on : BOOLEAN, job : Approval \cup {"none"}, seen : Seen]
Threads  == Worker \X {"main", "timer"}

\* A step past the choice of an approval has one.
HasJob(m) == m.pc \notin {"idle", "edit", "list", "sweep"} => m.job \in Approval

\* Every variable keeps its type, and a call that is past its choice of an
\* approval has one.
TypeOK ==
  /\ rec \in [Approval -> Records]
  /\ claim \in [Approval -> Worker \cup {"none"}]
  /\ lock \in [Approval -> {Free, Orphan} \cup Threads]
  /\ held \in [Approval -> Int]
  /\ config \in Configs
  /\ draft \in Nat
  /\ wire \in [Approval -> {"none", "asked", "ok", "noid", "refused", "throttled"}]
  /\ accepted \in [Approval -> Nat]
  /\ sent \in [Approval -> SUBSET Nat]
  /\ me \in [Worker -> Memories]
  /\ beat \in [Worker -> Beats]
  /\ backs \in 0..MaxBack
  /\ fenced \in Nat
  /\ missed \in SUBSET Approval
  /\ \A w \in Worker : HasJob(me[w])
  /\ \A w \in Worker : beat[w].on => beat[w].job \in Approval

-----------------------------------------------------------------------------
(* Properties *)

\* An approval is spent at most once: whatever crashes, stalls, lost answers or
\* taken-over locks there are, the provider never accepts two sends for it.  The
\* O_EXCL marker of #markClaimed carries this, not the record's lock.
AtMostOneSend == \A a \in Approval : accepted[a] <= 1

\* used is written only for a send the provider accepted (complete).
UsedMeansSent == \A a \in Approval : rec[a].state = "used" => accepted[a] = 1

\* failed says that nothing was sent, and nothing is ever sent after it: not by
\* the call that recorded it, and not by a request still on its way.
FailedMeansUnsent == \A a \in Approval : rec[a].state = "failed" => accepted[a] = 0

\* Every mail that went out keeps its slot in the ledger: recordNoSend gives a
\* slot back only where nothing was sent, a lost answer never does.
SendsAreCounted == \A a \in Approval : accepted[a] > 0 => held[a] # Unreserved

\* The reservations made in the stretch of time that lasts length and ends from ago.
Within(from, length) == {a \in Approval : held[a] # Unreserved /\ held[a] \in from..(from + length - 1)}

\* The mails that went out with a slot of that stretch.
Mailed(from, length) == {a \in Within(from, length) : accepted[a] > 0}

\* No hour and no day of the ledger's time has more mails than its cap, with several
\* processes reserving and giving back at once and however often the clock is set
\* back: a reservation counts those that seem to lie ahead of it too.  Ages are told
\* apart up to the day, which bounds the stretches that are looked at.
CapsHold ==
  /\ \A from \in (0 - MaxBack)..(DayWindow - HourWindow) : Cardinality(Mailed(from, HourWindow)) <= PerHour
  /\ \A from \in (0 - MaxBack)..0 : Cardinality(Mailed(from, DayWindow)) <= PerDay

\* What goes out is the version the approval was prepared for, while nobody edits
\* the draft under a send: every earlier edit is caught by the claim's comparison
\* or by the last look.
SentIsBound == \A a \in Approval : sent[a] \subseteq {rec[a].ver}

\* A record of the confirm route got past the claim only if a person answered
\* its challenge, and answered it for the version that is bound.
ConfirmNeedsPerson ==
  \A a \in Approval :
    rec[a].state \in {"sending", "unknown", "used", "failed"} /\ rec[a].route = "confirm"
      => rec[a].yes = rec[a].ver

\* Once the sweep after a never has ended, nothing bound to an earlier epoch
\* starts sending, whatever the policy is set to later.  Two exceptions: what the
\* sweep reported it could not revoke, and a record whose deadline passed while
\* its claim was already deciding, which the sweep's list takes for expired.
FenceHolds ==
  [][\A a \in Approval :
       rec[a].state # "sending" /\ rec'[a].state = "sending"
         => \/ rec[a].epoch >= fenced
            \/ a \in missed
            \/ rec[a].age >= Life(rec[a])]_vars

\* The store as its promise sees it: an approval that ended unspent is closed.
Phase(r) ==
  CASE r.state \in Active -> "open"
    [] r.state \in {"expired", "revoked"} -> "closed"
    [] OTHER -> r.state

Promise == INSTANCE SingleUse WITH phase <- [a \in Approval |-> Phase(rec[a])], mails <- accepted

\* With the record's lock exclusive, the gate implements SingleUse: transitions go
\* forward only, used and failed tell the truth, and a failed send stays unsent.
KeepsPromise == Promise!Spec

\* Every call comes to an end, whatever else goes on: one that waits for a lock
\* gives up, one that is throttled stops retrying, one whose answer does not come
\* stops waiting.
CallsReturn == \A w \in Worker : []<>(me[w].pc = "idle")

\* A send never reads as sending for ever: its outcome is recorded, or its timer
\* stops and the lease runs out.
SendingEnds ==
  \A a \in Approval : (Derive(rec[a]).state = "sending") ~> (Derive(rec[a]).state # "sending")

\* docs/architecture.md:111 "nothing prepared before it can send again": what a
\* send is bound to was read no earlier than the policy that allowed preparing it.
NothingPreparedBeforeNeverSends ==
  \A a \in Approval : accepted[a] > 0 => rec[a].asked = rec[a].epoch

-----------------------------------------------------------------------------
(* The inductive invariant behind single use: it never mentions the lock *)

\* A claimant's steps up to the provider call, and those that record no send.
Asking    == {"reserve", "look", "fence", "fencing", "call"}
NotSent   == {"release", "fail", "failing", "lost", "losing", "unreserve"}
Accepted  == {"accept", "using"}
Slotted   == {"look", "fence", "fencing", "call", "wait"} \cup Accepted

\* Nothing went out for a and nothing will: its one claimant is past asking.
Dead(a) ==
  /\ claim[a] # "none" /\ accepted[a] = 0 /\ wire[a] = "none"
  /\ \A w \in Worker : me[w].job = a /\ me[w].pc \in Holding => me[w].pc \in NotSent

\* What a record of a says, on disk or in a memory that will write it, is true.
Truth(r, a) == (r.state = "used" => accepted[a] = 1) /\ (r.state = "failed" => Dead(a))

ApprovalOK(a) ==
  /\ accepted[a] <= 1
  /\ wire[a] \in {"asked", "refused", "throttled"} => accepted[a] = 0
  /\ wire[a] \in {"ok", "noid"} => accepted[a] = 1
  /\ claim[a] = "none" => accepted[a] = 0 /\ wire[a] = "none"
  /\ accepted[a] > 0 \/ wire[a] # "none" => held[a] # Unreserved
  /\ held[a] = Unreserved \/ held[a] >= 0 - backs
  /\ Truth(rec[a], a)

WorkerOK(w) ==
  /\ me[w].pc \in Holding => claim[me[w].job] = w
  /\ me[w].pc \in Asking \cup NotSent => accepted[me[w].job] = 0 /\ wire[me[w].job] = "none"
  /\ me[w].pc \in Accepted => accepted[me[w].job] = 1
  /\ me[w].pc \in Slotted => held[me[w].job] # Unreserved
  /\ me[w].job \in Approval => Truth(me[w].seen.rec, me[w].job)
  /\ beat[w].on => Truth(beat[w].seen.rec, beat[w].job)

\* One claimant for ever, and what is known of an approval follows its one call.
SingleUseInv ==
  /\ \A a \in Approval : ApprovalOK(a)
  /\ \A w \in Worker : WorkerOK(w)
=============================================================================
