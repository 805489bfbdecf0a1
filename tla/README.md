# A TLA+ verification of agent-communications

agent-communications gives coding agents access to Gmail, Slack, Resend and WhatsApp. It promises that nothing
is sent without a person's approval, once, of exactly what was shown; that two sessions do not answer the same
message; and that what its event service delivers goes out in order, once it may, and not after it was
withdrawn. This directory models the code that keeps those promises, checks it with TLC on small instances, and
proves the core of it with TLAPS for every instance.

## 1. The system

Paths are below `src/packages/` unless they say otherwise.

### Components

| Component | State | Operations | Who else touches it |
|---|---|---|---|
| Approval store (`core/src/approvals.ts`, `approval-outcome.ts`, `approval-binding.ts`) | `<id>.json`, one record per approval; `<id>.claim`, the marker of its claim; `<id>.json.lock` | `create`, `inspect`, `issueChallenge`, `approve`, `claimForSend`, `heartbeat`, `fence`, `complete`, `revoke`; the same for changes, downloads, disclosures and standing approvals | every CLI command and MCP server process, at once |
| Gmail sending (`gmail/src/operations/send.ts`) | none of its own: what a call has read | `prepareOneSend`, `beginApproval`, `finishApproval`, `sendApproved` | the store, the ledger, the configuration, Gmail |
| Gmail drafts (`gmail/src/operations/drafts.ts`) | the draft, at Gmail | `updateOneDraft`, `deleteOneDraft`, `refuseWhileSending` | a person in Gmail web |
| Sending lease (`core/src/sending-lease.ts`) | a timer per call | `withSendingLease`, `fenceOrStop` | the store's `heartbeat`, `fence`, `complete` |
| Rate ledger (`core/src/ledger.ts`) | reservations and releases, a line each | `reserve`, `release`, `status` | every sending process |
| Send policy and epochs (`core/src/config.ts`, `send-epoch.ts`) | policy and send epoch of each mailbox | `update`, `applySendPolicyChange`, `sweepFencedOwners` | read under every record lock, without the configuration's own |
| File lock (`core/src/lock.ts`) | one file per lock | `withFileLock`, `tryFileLock`, `takeOverStale` | every read-modify-write above |
| Approval maintenance (`core/src/approval-maintenance.ts`) | a cursor and the time of the last attempt | `runBatch`, `runSlot`, `prune` | deletes finished records and their markers |
| Resend and Slack sending (`resend/src/operations/send.ts`, `slack/src/operations/*`) | prepared messages; standing approvals and their ledger | the same gate with other providers | the store, the ledger |
| Takes (`core/src/takes.ts`, `take-flow.ts`, `events-daemon/src/runtime/take-offers.ts`) | `<message>.json`, who handles a message; its pins | `take`, `gate`, `handBack`, `finish`, `release`, `give`, `keep`, `offer`, `lapse` | sessions, asked before a prepare and before a claim; the person; the event service's sweep |
| Event deliveries (`events-daemon/src/runtime/delivery-claim.ts`, `webhook-dispatcher.ts`, `expiry.ts`, `lifecycle.ts`) | SQLite rows with lease, attempt, order and cap; the switch | claim, gates, write, settle, release, expire, withdraw | concurrent calls of the dispatcher, activations, the operator |
| Lanes and holds, judge budget, workflow engine, disclosure fence (`events-daemon/src/runtime/`) | reservations, runs and steps, versions | reserve, begin, release; start, step, recover | the scheduler, restarts |
| Desktop event service (`src/apps/desktop/src-tauri/src/event_service.rs`) | failure times | `decide`, restart, give up | the daemon's process |
| Events library, WhatsApp reader, sanitiser, secrets, search, gateway and CLIs | pure, or I/O around the above | | |

### How a mail is sent

`prepareOneSend` reads the mailbox's policy, the epoch and the draft and writes a *pending* record bound to
the draft's version. Where the policy or a risk flag asks for a person, `beginApproval` shows the draft and
issues a code and `finishApproval` takes it: *approved*. `sendApproved` looks at the record, reads the draft,
and claims: under the record's lock the record becomes *sending*, and after the lock is let go the O_EXCL
marker decides who owns the claim. The owner's lease is renewed by a timer while it reserves a slot, looks at
the draft a last time, passes the fence and asks Gmail. An answer with an id is recorded *used*, a certain
refusal is retried if it was a throttle and recorded *failed* if not, and a lost answer is not recorded: the
record reads *sending* until its lease runs out and *unknown* from then on.

### How a message is taken

A session takes a message before it answers it. Its prepares and its sends ask the gate, which renews the lease;
a prepared approval pins the take until it is claimed or withdrawn. The take ends when the session hands it back
or finishes, when a person releases, gives or keeps it, when the lease runs out with no live pin, or when the
window's parent process is gone. The event service offers messages that are nobody's, hands an offer to its
window when the window is woken, and sweeps what has lapsed.

### How a delivery is sent

The tick recovers lapsed leases side by side and then dispatches its batch. A call reads the account and the
disclosure, opens a transaction that checks the row, the switch, the order, the barrier and the cap, and writes
*disclosing* with an attempt number and a lease. Before each network phase it reads again and passes a gate in
the same synchronous turn as the step the gate guards. One deadline, ahead of the lease's end, bounds all
phases. The answer is settled only if the row still holds that very claim. Meanwhile a person can pause,
disable, revoke, remove, reset, retry, drop and shorten the retention, and the expiry sweep ends rows.

### What is hard

Every process works on the same files, and nothing runs between them but lock files that are taken over when
they look abandoned. So a holder may be slow and not dead; the configuration, the draft and the clock move
while a decision is made; a provider may have done what its lost answer would have said; a process may die
between any two file operations. In the daemon a single process interleaves its calls at every await, and
withdrawals commit in between. PROJECT.json lists these hazards at their lines.

### What makes each component correct

* Store and sending: an approval sends at most once; *used* and *failed* are true; a confirm send was answered
  by a person for the version that goes; a send ends.
* Epoch: after the sweep that follows a never, nothing of before it starts.
* Ledger: the mails of an hour and of a day stay within their caps, wherever the clock is set; a mail that went
  keeps its slot.
* Lock: no update is lost; no leftover file blocks a waiter for ever.
* Maintenance: nothing is acted on twice or disappears without its row, whatever dies or is taken over; batches
  keep their distance; what finished is deleted in the end.
* Takes: no two windows are past the gate of one message at once; a waiting approval keeps its take; the service
  takes a message from nobody.
* Deliveries: order, one request at a time, the cap, no settlement by a late answer, no content left behind, and
  every delivery ends.
* Planned: a standing use is never given twice; a judge budget's windows hold; a run resumes where it was.

## 2. The modules

| Module | Models |
|---|---|
| `SendGate` | store (send approvals), Gmail send and draft operations, lease, ledger, policy and epochs |
| `SingleUse` | the abstract promise of the store: what an approval's phases and its mails may do |
| `SendGate_proofs`, `SendBound_proofs`, `SendPromise_proofs` | the theorems about `SendGate`: single use; what an approval binds; the promise, the fence and the cap |
| `FileLock`, `FileLock_proofs` | `lock.ts`, at the level of file operations, and its theorems |
| `DeliveryClaim` | webhook deliveries of one (rule, account, target): claim, attempt, settlement, withdrawals, expiry |
| `OrderedDelivery` | the abstract promise of the pipeline: an ordered, at-least-once delivery |
| `DeliveryClaim_proofs` | the theorems about `DeliveryClaim` |
| `Retention`, `Retention_proofs`, `RetentionTypes_proofs` | the daily batch that deletes finished approval records, next to the claims that use them, its theorems, and apart from them those of its types and of its cursor |
| `Takes`, `Takes_proofs` | the take record of one message, with sessions, their approvals, the person and the event service, and its theorems |
| `MCSendGate`, `MCFileLock`, `MCDeliveryClaim`, `MCRetention`, `MCTakes` | symmetry and callers for the runs |

`SendGate` uses the locks `FileLock` models: with `LockBreaks` a record lock can be taken over under a live
holder, which is what `FileLock` shows can happen. `Retention` and `SendGate` share the record and its marker:
`Retention` keeps of a send what maintenance can disturb (record, marker, claimant) and adds the deletions.
`Takes` keeps of an approval its states and who prepares or sends it.

### SendGate: state

| Variable | Code |
|---|---|
| `rec` | `<id>.json`. `route` is the binding's route, `epoch` its `sendEpoch`, `ver` stands for `draftMessageId` and `contentDigest`, `yes` for `approvedBindingDigest`, `code` for `challengeHash`, `tries` for `challengeAttempts`, `age` for the time since `createdAt`, `approvedAt` or the last renewal. `asked` is history: the epoch at the moment the policy was read |
| `claim`, `lock` | `<id>.claim` with its token's owner; `<id>.json.lock` with the thread that holds it |
| `held` | the ledger's live reservation of an approval, as its age |
| `config` | the mailbox: policy, epoch, whether it is there |
| `draft`, `wire`, `accepted`, `sent` | the provider: the draft's version, the request in flight or its answer, what was accepted |
| `me`, `beat` | a process's call and its lease timer: program counter, approval, and what was read under the lock |
| `fenced`, `missed`, `backs` | history, and the count of clock steps back |

### SendGate: steps

A record transition (`#transition`) is two steps. `Enter` takes the lock and reads the record and the
configuration, with the derivation of the clock (`Derive`) and of the configuration (`Revokes`) applied;
`Leave` writes and lets go. Everything else can happen in between, and with `LockBreaks` the lock can be taken
over in between, after which the write still happens: that is the stalled holder.

| Actions | Code |
|---|---|
| `PrepareStart`, `PrepareRead`, `PrepareFit`, `PrepareRelabel`, `PrepareReread`, `PrepareCreate` | `prepareOneSend` with `fitFrom` and `create`, a step per load, read or write |
| `SendStart` … `Mark` | `sendApproved` up to the claim and its marker |
| `Reserve`, `LastLook`, `FenceEnter/Leave`, `Call`, `Answered`, `AnswerLost` | `sendApproved` under its lease; a throttle goes back to `LastLook` |
| `UseEnter/Leave`, `Release`, `FailEnter/Leave`, `LostEnter/Leave`, `Unreserve` | `complete`, `recordNoSend`, `fenceOrStop`; a release that fails leaves the slot |
| `BeatEnter/Leave` | the timer's `heartbeat` |
| `ShowEnter/Leave`, `ChallengeEnter/Leave`, `VoidEnter`, `AnswerEnter/Leave`, `ApproveEnter/Leave` | `beginApproval` and `finishApproval`; the typed answer is right or wrong |
| `RevokeEnter/Leave`, `StatusEnter/Leave` | `revoke`; `inspect` as status and wait do it |
| `SetPolicy`, `SweepList`, `SweepEnter/Leave`, `SweepMiss`, `SweepEnd`, `RemoveOwner` | `applySendPolicyChange`, `sweepFencedOwners`, a removed mailbox |
| `EditCheck`, `EditApply`, `WebEdit` | the suite's draft update and delete; a person in the provider's client |
| `TimeOut`, `Crash`, `TakeOver`, `Tick`, `StepBack` | `LOCK_TIMEOUT`; a dying process; a lock taken over; the clock |
| `ProviderAccepts`, `ProviderRefuses` | the provider (external); it may also never answer |

Abstractions: a draft is its version; the recipients' rules, takes and capability checks are the choice to
refuse that `PrepareRead`, `ReadDraft` and `LastLook` have; a mismatch of account or expectation at the claim
is `agrees` in `ClaimLeave`; a record is version 2 and readable; the clock is set back only between
transitions. The check of the claim's token (`#holdsClaim`) is left out, because a call that would present
one owns the marker: `WorkerOK` states that and is proved.

### FileLock

`path` is the lock file and `aside[p]` the file a takeover of `p` has moved; a file has a token, may lack its
body, may be a copy put back, and has an age. `Create` and `Write` are the two awaits of a lock's creation;
`Look`, `Move`, `Judge`, `Restore`, `Drop` are `isStale` and `takeOverStale`; `Check` and `Unlink` are the
release. What the lock protects is a counter that every call reads and then writes one higher. `Modes` has
`withFileLock` and `tryFileLock`. Abstractions: reading a lock's body and its modification time is one step,
and so is writing a copy back; the Windows codes, which only delay, and `stillHeld` are left out. A crashed
process's slot is reused.

### DeliveryClaim and OrderedDelivery

| Variable | Code |
|---|---|
| `row` | the `deliveries` row: state, whether content is there, switch generation, place, deadline, next try, attempt, lease end, dead-letter deadline |
| `switch`, `lineage`, `account`, `barrier` | `event_settings`; the revocation of the rule and target versions; the configuration; the target's reset barrier |
| `counter`, `charge` | `delivery_order_counters`; `delivery_cap_charges` |
| `call` | what a call of the dispatcher remembers across its awaits: the claim it holds, its deadline, its phase |
| `written`, `taken` | history: the newest claim whose bytes left, and those the peer answered with success |

| Actions | Code |
|---|---|
| `Start`, `Preflight`, `ClaimGranted`, `ClaimRefused` | the tick's choice, the reads before the transaction, the transaction |
| `Open`, `Prepare`, `ChatList`, `Gate`, `Connected`, `ConnectFails`, `AnsweredYes`, `AnsweredNo` | `dispatchOne`: decryption, the reads and the gate before each phase, the phases, the write and the answer |
| `SettleReads`, `Settle` | `settleWebhookOutcome` |
| `NewDelivery`, `Sweep`, `PurgeRemoved`, `SetPaused`, `DisableAll`, `EnableAll`, `Revoke`, `RemoveAccount`, `Reset`, `RetryNow`, `Drop`, `Tighten`, `Crash`, `Tick` | what runs around the dispatcher |

A step is what runs between two awaits, so a transaction is one step. An attempt's random id and its lease token
are one number, new with every claim: the code compares them together. Network phases before the write (DNS,
TCP, TLS) are `Connects` many. A timer that has run out is handled before any later network event (`Overdue`),
as Node's loop does. One rule, account and target: other targets share nothing but the tick. The shortening of a
dead letter's own deadline, secret rotation and the other dispatchers are left out. `OrderedDelivery` promises
that deliveries join an order, that requests leave only for its head and under new numbers, that a delivery is
done only when its newest request was taken, and that what ended stays ended.

### Retention

`rec`, `marker`, `rlock` are the files of an approval, `state` is `.maintenance.json`, `mlock` is
`.maintenance.lock`, and `me` is a process's batch. Files are kept in the order of their modification times, and
a cursor (a time and an id) as the set of files at or before it, which are the first of that order; a listing
goes on at the place after them, as `findIndex` does. `Look`, `TryLock`, `Begin`, `Acquire`, `Busy`,
`ReadLone`, `ReadRecord`, `WriteRow`, `Unmark`, `Unlink`, `Finish`, `Save` are `runMaintenance`, `runBatch`,
`runSlot` and `prune`, a step per file operation; `Late` is the spent budget, `LockLost` a batch that was taken
over, `Fails` a failing write, `Crash`, `Stall`, `SetBack` the rest of what can go wrong. `Create`, `Claim`,
`Mark`, `Complete`, `Lapse`, `Hold`, `Rot` are everyone else. Abstractions: an unreadable state file and legacy
records are left out; the listing with its stats is one step with the commit of the attempt; a dead process's
locks count as abandoned at once; time passes only while no live batch runs, because a batch ends within
`MAINTENANCE_BUDGET_MS`; a directory that gains more than `MAINTENANCE_SLOTS` records a day would keep the
cursor from ever coming round, and `SlotLimit` of a small directory does not show that.

### Takes

`rec` is the take record, `required` the account's setting, `alive` the windows whose parent runs, `appr` the
approvals under the message with who prepares or sends them, `item` a delivery's item in the lane. Every
operation reads the record under its lock, settles what has lapsed (`Settle`), decides and writes, so it is one
action: `Take`, `Meet`, `HandBack`, `Finish`, `Prepare`, `Pin`, `Execute`, `Release`, `Give`, `Keep`, `Offer`,
`HandOffer`, `LapseOffer`, `Lapse`, `Prune`. A caller is what the code can see of a session (process, key,
session id, whether it names a parent) and, for the properties, the window it really belongs to. Assumed:
preparing takes less than a tick of the clock, what a claim's gate let through ends within `ActTime < Lease`,
and a probe of a process answers. `WindowAssumption` says what the code takes for granted of its callers: who
shares a process, a grouped key or a session id is in one window. Left out: a clock set back, other messages of the
thread, the history lines, and acts made with no take where none is required (the code lets them through by design, and `OneWindowActs`
is about acts under a take).

## 3. The runs

| Run | Result | Bounds |
|---|---|---|
| `single_use` | pass: `AtMostOneSend`, `UsedMeansSent`, `FailedMeansUnsent`, `SendsAreCounted`, `SingleUseInv` | one approval, two processes, `LockBreaks`, edits by the suite and by a person while a send is under way, one throttle retry, one clock step back, a lease of two ticks |
| `fence` | pass: `TypeOK`, `FenceHolds`, `KeepsPromise`, `CallsReturn`, `SendingEnds` | one approval, two processes, one never, a revoke, a look, a removal, one throttle retry; exclusive locks; no symmetry |
| `person` | pass: `SentIsBound`, `ConfirmNeedsPerson` | one approval, two processes, two draft versions, two answers, one clock step back |
| `ledger` | pass: `CapsHold` | two approvals, two processes, one an hour and one a day, both of two ticks, one clock step back |
| `lock` | pass: `TypeOK`, `NoUpdateLost`, `WaitersServed` | two processes, three calls each, one crash, renewal, both modes |
| `delivery` | pass: `TypeOK`, `ClaimInv`, `HeadOnly`, `DeliveredMeansTaken`, `OneRequestOut`, `CapHolds`, `KeepsOrder` | two deliveries, two calls, two claims each, one connection phase, a lease of two ticks, a cap of one in two ticks; pause, reset, a failing open, a refusing peer, restarts |
| `withdraw` | pass: `ContentMatchesState`, `DeliveredMeansTaken`, `LateCallsChangeNothing`, `KeepsOrder`, `EveryDeliveryEnds` | one delivery, two calls, two claims; disable, revoke, remove, retry, drop, tighten; failing peer, reads and chat list |
| `retention` | pass: `TypeOK`, `RowBeforeGone`, `ActedOnce`, `OnlyFinishedDeleted`, `NoStorm`, `FinishedArePruned` | a send and a change, two processes, one slot a batch, one fault of any kind |
| `takes` | pass: `TypeOK`, `OneWindowActs`, `PinHolds`, `ServiceTakesNothing`, `SweepEndsHolds` | two windows, one without session ids and one with a shell; two approvals, two deliveries, one act of the person, a lease of two ticks |
| `stale_prepare` | violation: `NothingPreparedBeforeNeverSends` | one approval, two processes |
| `parallel_edit` | violation: `SentIsBound` | one approval, two processes, two versions |
| `lock_race` | violation: `NoUpdateLost` | three processes, one crash |

Two processes are what the arguments need: one that sends and one that claims, revokes, edits, turns sending
off or looks. Approvals interact only through the draft and the ledger, so one is enough except for the
ledger. Lifetimes of one tick already let every deadline pass between any two steps; `single_use` has a lease
of two, so that a renewal in time and a lapse both occur. `MaxEpoch = 1` has the never and the loosening after it.

Two calls of the dispatcher are one that was overtaken and one that overtook; two deliveries are an earlier and
a later one; two claims are a first and a retry or a recovery, and `RetryLimit = 2` lets the second dead-letter.
With `Connects = 1` a gate before a connection and a gate before the write both occur. `withdraw` adds the
withdrawals with one delivery, as they treat rows alike. In `retention`, `SlotLimit = 1` of two files makes the
cursor move and come round, and one fault at any step is one crash, stall, busy record, spent budget, failed
write, unreadable record or clock set back. The theorems of §4 hold for any number of faults, but for
`OnlyFinishedDeleted`: an unreadable record can be deleted if its lock is taken over from a stalled batch that
judged it before. In `takes` two windows cover each pair a bad gate could let through, and the
three callers cover the ways sessions are told apart: ids on both sides, an id on one, a shell of the window.

`KeepsPromise` is the refinement of `SingleUse`: an approval that has expired or been revoked is *closed*,
`accepted` counts its mails, and every step of the gate is a step of the promise or none. It is checked with
exclusive record locks. With broken locks a stale write can put *sending* over *used*; what survives that is
exactly what `single_use` checks, and the marker carries it.

`FenceHolds` excepts what the sweep reported it could not revoke, and a record whose deadline has passed: the
sweep's list takes it for expired, while a claim that read it before the deadline can still write *sending*.
`SentIsBound` is checked while nobody edits under a send: the code says of an edit in Gmail web at that moment
that it is "documented, not claimed" (`gmail/src/operations/drafts.ts:767`). `CapsHold`
counts the mails of every hour and every day of the ledger's own time, with a clock that may be set back: what
then seems to lie in the future is counted by `reserve` as well, so that no such stretch goes over its cap. In the
run the day is as long as the hour; the theorem has them of any length. What the *present* clock calls the last
hour can hold more after a step back, and `LastHourCapped` says how much.

### Fairness

`SendGate!Fairness`: a process that has not crashed goes on with its call (`WF` of `Continue`) and with a
renewal its timer began; Node runs what is ready, and every wait in the code has an end, which is what the
`TimeOut` and `AnswerLost` steps are. Time passes. An abandoned lock is taken over, because `withFileLock`
tries at every attempt and staleMs ends. The provider is not assumed to answer, nobody is assumed to call
anything, and the timer is not assumed to begin a renewal. `FileLock!FairSpec`: a live process goes on, and
time passes; nobody has to give up. With a bound on calls, `WaitersServed` says that nothing left behind
blocks; it does not say that an endless stream of other callers cannot starve a waiter, and the code does not
promise that either (it gives up with `LOCK_TIMEOUT`).
`DeliveryClaim!FairSpec`: a call goes on until it returns (every await has a deadline), the tick's sweep runs
whatever the switch says, and time passes; the dispatcher is not assumed to pick a delivery, and nobody is
assumed to do anything. `Retention!FairSpec`: a process that calls `ensurePruned` goes on with its batch, locked
looks end, and time passes. `Takes` states no liveness: what should end in the end is an action property of the
sweep (`SweepEndsHolds`).

### What the violations show

1. `stale_prepare`. `prepareOneSend` takes the policy and the epoch from two loads of the configuration. A
   `never` between the two makes an approval with the earlier policy and the later epoch; when the policy is
   loosened it can be sent, against `docs/architecture.md:110-111`.
2. `parallel_edit`. `updateOneDraft` looks for a send once and saves after reading and composing. A send
   claimed in between has taken its last look by then, against `drafts.ts:765-767`.
3. `lock_race`. Two waiters judge the same orphan; the first takes it over and works; the second's rename
   moves that live lock aside, and before it is put back a third creates its own. Two work at once, against
   `lock.ts:196-197`. For sends the marker makes this harmless, which is what `single_use` shows and the
   theorems prove; for the other files nothing does.

## 4. The proofs

Every theorem below is for every set of approvals, processes, deliveries or callers, and every value of the
lifetimes, caps, leases and bounds that the named assumptions of its module allow. None of the properties is
inductive as it stands; the strengthened invariant is named with its reason. Each proof has a lemma per helper
(what it writes or keeps), a lemma per action or group of actions, and one temporal step.

### Single use (`SendGate_proofs`)

| Theorem | Statement |
|---|---|
| `TypeCorrect` | `Spec => []TypeOK` |
| `SingleUseHolds` | `Spec => []SingleUseInv` |
| `AtMostOneSendHolds` | `Spec => []AtMostOneSend` |
| `UsedMeansSentHolds` | `Spec => []UsedMeansSent` |
| `FailedMeansUnsentHolds` | `Spec => []FailedMeansUnsent` |
| `SendsAreCountedHolds` | `Spec => []SendsAreCounted` |

That a record reads *failed* says nothing of a process about to ask the provider, of a request on its way, or
of a memory that will write *failed* later, after its lock was broken. `SingleUseInv` strengthens this:

* `ApprovalOK`: a request in flight or a refusal means nothing was accepted, an acceptance that has not been
  read means exactly one was; without a marker nothing was asked; what was asked has a slot.
* `WorkerOK`: whoever is past the marker made it (`claim[job] = w`), so there is one such call per approval for
  ever; before the provider call and on the paths that record no send, nothing was asked; on the path that
  records *used*, one mail was accepted; and what a memory or a timer will write is true.
* `Truth` and `Dead`: *used* means one mail. *failed* means that a marker was made, nothing was accepted,
  nothing is in flight, and its one claimant can no longer ask. That is stable, so a stale write of *failed*
  is true whenever it lands.

The lock does not occur in it: the argument holds with locks broken at any moment, as the comment of
`#markClaimed` says it should ("The file system's O_EXCL is the single-use guarantee, independent of the
lock"). TLC checks `SingleUseInv` in `single_use`.

### What an approval binds (`SendBound_proofs`)

| Theorem | Statement |
|---|---|
| `BoundInvHolds` | `Spec => []BoundInv` |
| `ConfirmNeedsPersonHolds` | `Spec => []ConfirmNeedsPerson` |
| `SentIsBoundHolds` | `Spec => [](Steady => SentIsBound)` |

`Honest` says of a record that *approved* was answered for the version it binds, and that past the claim a
confirm record was. `BoundInv` asks it of the files and of everything a call or a timer holds in memory, since
with broken locks any of these may be written over any later state; a memory also has the version and the
existence of the file it was read from. Each decision writes a record that follows from what it read
(`Follows`), whoever else wrote in between. An approval's version therefore never changes (`VersionsKept`), and
this is what the second argument rests on: from the last look to the provider's answer, the draft is gone or is
the bound version (`DraftInv`). `Steady` (no edit under a send, none by the suite's own draft calls) is the
premise under which `person` checks `SentIsBound`; `parallel_edit` shows that it is needed.

### The promise, the fence and the cap (`SendPromise_proofs`)

| Theorem | Statement |
|---|---|
| `CapsHoldAlways` | `Spec => []CapsHold` |
| `LastHourCapped` | `Spec /\ HourWindow <= DayWindow => []` (no step back: at most `PerHour` mails in the last hour; steps back of at most an hour in all: at most twice that) |
| `ExclInvHolds` | `Spec => [](Exclusive => ExclInv)` |
| `PromiseKept` | `Spec /\ Exclusive => KeepsPromise`, the refinement of `SingleUse` |
| `FenceKeeps` | `Spec /\ Exclusive => FenceHolds` |
| `EndIsFinalHolds` | `Spec /\ Exclusive => EndIsFinal` (closed, used and failed are final, and no mail goes out after) |

`CapInv` counts in every stretch of an hour and of a day all reservations, because one that was not sent yet may
still be. Time moves the stretches along. A reservation is made at the present clock only when all it can see,
the last window *and what seems to lie ahead of it*, is below the cap, so that every stretch which holds the new
one is within what was counted: this is where the future counting matters, and the mutant that leaves it out
breaks the cap with one step back. The model tells ages apart up to `Horizon`, the day and what the clock can
still be set back; a stretch that ends later holds nothing that any window can ever hold again.

`Exclusive` is `~LockBreaks`, the premise of `fence`, and `PromiseKept` and `FenceKeeps` fail without it: a stalled
holder writes what it decided over anything. The premise is about the constants, so it restricts no behaviour of a
system whose locks are exclusive; `lock_race` shows how a file lock can fail to be.

`ExclInv` is what an exclusive lock gives. Whoever is inside a transition, a call or a timer, has the record's
lock, and the record on disk is what it read or what it read before the clock or the configuration changed it
(`Ahead`); an approval with a marker is spent. `StepForms` sorts every step into one that is alone (no record, no
lock), goes into a transition, comes out of one, or is one of a few others. What comes out of a transition was
decided (`Decides`) on a record that is still there, and the two together are one step of `SingleUse` or none;
that `used` and `failed` are true comes from `SingleUseInv`. `EndIsFinal` follows from the refinement alone: it is
what every step of `SingleUse` keeps.

`FenceInv` follows a claim that has read an approval it may spend, and still has its lock. Of any sweep for a
later never that has listed, the approval is on its list, or was reported, or ran out of time; such a sweep ends
only with an empty list, and cannot take the approval off it while the claim has the lock, except by reporting
it. So when the claim writes *sending*, no such sweep has ended. This needs that the clock is not set back
inside a transition, which the module states of `StepBack`.

### The lock (`FileLock_proofs`)

| Theorem | Statement |
|---|---|
| `TypeCorrect` | `Spec => []TypeOK` |
| `NoUpdateLostWhenCalm` | `Spec => [](Calm => NoUpdateLost)` |
| `NoUpdateLostOfTwoOnce` | `Prompt`, `Two`, `MaxCrashes <= 1`: `Spec => []NoUpdateLost` |
| `NoUpdateLostOfTwo` | `Prompt`, `Two`: `Spec /\ [][TakeoversWhole]_vars => []NoUpdateLost` |
| `NoUpdateLostWithoutRace` | `Prompt`: `Spec /\ [][MovesAbandoned]_vars => []NoUpdateLost` |

`Prompt` is that no holder is slower than the stale age. Together with `lock_race` the four say when the lock
keeps its promise and when it does not:

* *Before the first crash* (`Calm`), for any number of processes. `CalmInv`: the path is free or has the file of the
  one process that works, and nothing was moved aside.
* *Two processes, one crash*: what the run `lock` checks, without its bounds on calls and ages. With two processes a
  takeover may still move a live lock (its holder made it after the look), but then the only other process is the
  one that moved it, and it puts it back before anybody can make another. `HeldInv`: one process holds, and its
  file is at the path, or aside with the other, who judges it. It survives any number of crashes as long as no
  process dies with a moved file in hand (`TakeoversWhole`), and with one crash that cannot happen: the first crash
  finds nothing to take over. Two crashes are another matter: one that leaves an orphan, and one between the move of
  the live lock that replaced it and the put-back. TLC finds the lost update (`lock.cfg`
  with `MaxCrashes = 2`), so the premise is needed.
* *Any number of processes and crashes*, if every rename of a takeover takes a file that is abandoned when it is
  taken (`MovesAbandoned`). `PlaceInv`: every holder's file is at the path, what was moved aside is of a call that
  is over, and is never put back. So the window between the look and the rename is what costs updates.
* *Three processes, one crash* go through that window: `lock_race`.

### Retention (`Retention_proofs`, `RetentionTypes_proofs`)

| Theorem | Statement |
|---|---|
| `ActedOnceHolds` | `Spec => []ActedOnce` |
| `RowBeforeGoneHolds` | `Spec => []RowBeforeGone` |
| `NothingLiveDeletedHolds` | `Spec => NothingLiveDeleted` |
| `OnlyFinishedDeletedHolds` | `Spec /\ OneKind => OnlyFinishedDeleted` |
| `NoStormHolds` | `Spec => NoStorm` |
| `TypeCorrect` | `Spec => []TypeOK` |
| `CursorIsAPlace` | `Spec => []Oldest(order, state.behind)` |

`UseInv` says that an approval once claimed waits no more, on disk and in a claim under way, and that one acted
on has its record and marker until it has a row: so a record that lost its marker to a batch is one that no
claim accepts. It holds through every crash, takeover and failing write, which TLC checks one at a time. The
distance of batches rests on `Distance` and `Kept`: the age a batch reads from the state file is the time since
the last batch began, one process holds the lock while it decides, and time stands still inside a batch (the
assumption named in the module's section).

A batch reads a record under its lock, judges it, and then writes a row, unlinks a marker and unlinks the record,
with others between any two of these. `JudgedInv` says that what a batch is past its judgement with was finished
then, and nothing makes a finished record wait or send again: so nothing live is deleted, whatever fails and
however often (`NothingLiveDeleted`). What can change under the batch is that the record is damaged, which takes
its lock first; `IntactInv` says that the batch has the lock, or nothing rots any more. `OneKind` names what that
needs: locks are never taken over from a live batch, or records are never damaged, or there is one fault. With a
stall *and* a damaged record the code deletes a record it did not judge.

`TypeOK` says of the directory that every file is listed once and nothing else is. A deletion, a touch or a
new record takes the one place of a file out of the order (`RemoveAtList`, `Reordered`), and each action changes
the set of files (`HasFile`) and the order together (`OrderInv`). The order is a sequence that is cut at places, because
the provers have no facts about `SelectSeq`.

`CursorIsAPlace` says that the set the model keeps for the cursor is always a place in the directory's order: no
file that it has not passed is older than one that it has. A listing goes on after that place, so none is left
out. `CursorInv` follows a batch (`GoesThrough`): whatever is older than a slot of its list was passed before it,
earlier in the list or by the batch before. Files made or touched meanwhile become the newest, deleted ones leave
the order as it was for the rest (`Thins`), and both keep this. It needs that only a record which is there can
leave: unlinking one that another batch has already deleted changes nothing (`Unlink`).

### Takes (`Takes_proofs`)

| Theorem | Statement |
|---|---|
| `TypeCorrect` | `Spec => []TypeOK` |
| `TakesInvHolds` | `Spec => []TakesInv` |
| `OneWindowActsHolds` | `Spec => []OneWindowActs` |
| `PinHoldsAlways` | `Spec => []PinHolds` |
| `ServiceTakesNothingHolds`, `SweepEndsHoldsAlways` | the two action properties |

`TakesInv`: an approval that waits under a take or is past the gate, and whose take nobody cut, is *anchored*:
the record names its window, while it waits it is among the record's pins, and while it is being sent the
record's lease was renewed no earlier than the act began, so that the act, being shorter than the lease, is over
before the record can lapse. One record names one window, and `WindowAssumption` makes the gate let no other
through.

### Deliveries (`DeliveryClaim_proofs`)

| Theorem | Statement |
|---|---|
| `TypeCorrect` | `Spec => []TypeOK` |
| `ClaimInvHolds` | `Spec => []ClaimInv` |
| `HeadOnlyHolds`, `DeliveredMeansTakenHolds`, `ContentMatchesStateHolds`, `OneRequestOutHolds`, `CapHoldsAlways` | the invariants of the two runs |
| `LateCallsHold` | `Spec => LateCallsChangeNothing` |
| `OrderKept` | `Spec => KeepsOrder`, the refinement of `OrderedDelivery` |
| `EndIsFinalHolds` | `Spec => EndIsFinal`: an ended delivery stays as it ended and is never requested again |

`ClaimInv` adds to `HeadOnly` a part for each row (`RowOK`: content exactly as long as it may be sent, no bytes
written by a claim that was not made, *delivered* only when the newest claim was taken), each call (`CallOK`: a
claim that was overtaken has run out, one that was not owns its row or the row has ended, and the deadline of
either lies before its lease's end), and each pair of calls of one delivery (`PairOK`: their claims differ, and
while the older one still waits for its answer the newer one has not got past its first phase). Every step is
quiet, which keeps all of these by what it leaves alone, or one of seven named ones (`NewDelivery`, `Tick`,
`ClaimGranted`, the releases, the write, `AnsweredYes`, `Settle`). The cap adds that the deliveries charged are
finitely many (`CapInv`). The refinement maps each form of step to `Join`, `Request`, `Take`, `Complete`,
`GiveUp` or a stutter; `EndIsFinal` is what each of those keeps.

### Only model-checked

* liveness: `CallsReturn`, `SendingEnds`, `WaitersServed`, `EveryDeliveryEnds`, `FinishedArePruned` (the prover
  does neither fairness nor ENABLED);
* that `OneKind`, `TakeoversWhole` and `MovesAbandoned` are needed, which are counterexamples and not theorems.

## 5. Not modelled, and the plan

PROJECT.json gives every component its status. Left out for good: the pure libraries, rendering, MIME,
provider I/O, the WhatsApp reader. What a further model would take on, in this order:

1. `Standing` and the change and download kinds of approval: children, the acknowledgement ledger, the standing
   epoch, the marker after *used*.
2. `JudgeBudget`, the lanes and holds, then the workflow engine's recovery and the desktop service's restarts.
3. The other dispatchers of the event service, over the claim that `DeliveryClaim` has.
