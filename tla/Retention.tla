----------------------------- MODULE Retention -----------------------------
(***************************************************************************)
(* The daily retention of approval records: the batch that walks the        *)
(* approvals directory and deletes what finished long ago, next to the        *)
(* claims that use the same records and markers.                              *)
(*                                                                          *)
(* Time is kept as ages: since a record finished or lapsed, and since the      *)
(* last batch, each counted up to the bound it is compared with.  Files are    *)
(* kept in the order of their modification times, and a cursor (a time and     *)
(* an id) as the set of the files at or before it.                             *)
(***************************************************************************)
EXTENDS Integers, Sequences, FiniteSets, SequencesExt

CONSTANTS
  Approval,     \* approval ids
  Worker,       \* processes that call ensurePruned
  Changes,      \* those of kind change; the others are sends
  RetentionAge, \* RETENTION_MS
  Interval,     \* MAINTENANCE_INTERVAL_MS
  SlotLimit,    \* MAINTENANCE_SLOTS
  Faults,       \* of "hold", "rot", "crash", "stall", "late", "io", "back"
  MaxTrouble    \* bound: faults

ASSUME ChangesAssumption == Changes \subseteq Approval
ASSUME NameAssumption == Worker \cap {"free", "dead", "user"} = {}
ASSUME BoundAssumption ==
  /\ RetentionAge \in Nat \ {0} /\ Interval \in Nat \ {0} /\ SlotLimit \in Nat \ {0} /\ MaxTrouble \in Nat

VARIABLES
  rec,        \* the record file of each approval
  marker,     \* its claim marker exists
  claiming,   \* a claimant wrote the record and has not made its marker yet
  acts,       \* history: claims of an approval that went on to act
  order,      \* ids with a file, oldest modification first
  audit,      \* approvals with a durable approval.retained row
  state,      \* .maintenance.json: age of the last attempt, and the cursor
  mlock,      \* .maintenance.lock: its holder, and whether it counts as abandoned
  rlock,      \* the lock of each record
  me,         \* each process: where its batch is and what it holds in memory
  gap,        \* history: age of the last attempt
  excused,    \* history: a live batch's lock was taken over, or the clock set back
  trouble     \* faults so far

files == <<rec, marker, order, audit>>
locks == <<mlock, rlock>>
ghost == <<gap, excused>>
vars  == <<files, claiming, acts, state, locks, me, ghost, trouble>>

Future == -1   \* an attempt's time further ahead than clock skew explains

-----------------------------------------------------------------------------
(* Records *)

Absent   == [state |-> "none", lapsed |-> FALSE, age |-> 0]
Active   == {"waiting", "sending"}
Existing == Active \cup {"finished", "corrupt"}

\* What reading derives: a lapsed record is expired or unknown, finished when it lapsed.
Derived(r) == IF r.lapsed THEN [r EXCEPT !.state = "finished", !.lapsed = FALSE] ELSE r

\* Mutant of Prunable: the state of the record does not count.
PrunableByAge(r) == r.age >= RetentionAge \/ r.state = "corrupt"

\* A valid finished record, long enough after its finish.
Prunable(r) == r.state = "finished" /\ r.age >= RetentionAge

HasFile(a)  == rec[a].state \in Existing \/ marker[a]
Place(a)    == CHOOSE i \in DOMAIN order : order[i] = a
Without(a)  == IF a \in Range(order) THEN RemoveAt(order, Place(a)) ELSE order
Newest(a)   == Append(Without(a), a)

\* a was written: its time is newer than any cursor, on disk or in a batch's memory.
Touched(a) ==
  /\ order' = Newest(a)
  /\ state' = [state EXCEPT !.behind = @ \ {a}]

Open(a)   == rlock[a].by = "free" \/ rlock[a].stale   \* one try would take it
LockOf(w) == [by |-> w, stale |-> FALSE]
NoLock    == [by |-> "free", stale |-> FALSE]
Left      == [by |-> "dead", stale |-> TRUE]

\* Mutant of Claimable: the marker alone says whether an approval was used.
ClaimableUnmarked(a) == rec[a].state \in Existing

\* A claim needs a record that waits; its transition is one write under the record's lock.
Claimable(a) == rec[a].state = "waiting" /\ ~rec[a].lapsed

-----------------------------------------------------------------------------
(* Everyone else: approvals are made, claimed, finished, looked at *)

Idle == [pc |-> "idle", age |-> 0, behind |-> {}, list |-> <<>>, whole |-> FALSE, same |-> {}, done |-> {},
         busy |-> FALSE, before |-> {}]

\* What batch m knows of a's old time no longer holds: it is after every cursor.
Forgets(m, a) == [m EXCEPT !.behind = @ \ {a}, !.same = @ \ {a}, !.done = @ \ {a}, !.before = @ \ {a}]
Forget(a)     == [w \in Worker |-> Forgets(me[w], a)]

Create(a) ==
  /\ rec[a] = Absent /\ ~marker[a] /\ acts[a] = 0 /\ a \notin audit /\ ~claiming[a]
  /\ rec' = [rec EXCEPT ![a].state = "waiting"]
  /\ Touched(a)
  /\ me' = Forget(a)
  /\ UNCHANGED <<marker, claiming, acts, audit, locks, ghost, trouble>>

\* A claim writes the record under its lock: a send is sending, a change is used.
Claim(a) ==
  /\ Open(a)
  /\ Claimable(a) /\ ~claiming[a]
  /\ rlock' = [rlock EXCEPT ![a] = NoLock]
  /\ rec' = [rec EXCEPT ![a] = IF a \in Changes THEN [@ EXCEPT !.state = "finished", !.age = 0]
                               ELSE [@ EXCEPT !.state = "sending"]]
  /\ claiming' = [claiming EXCEPT ![a] = TRUE]
  /\ Touched(a)
  /\ me' = Forget(a)
  /\ UNCHANGED <<marker, acts, audit, mlock, ghost, trouble>>

\* Then, without the lock, it makes its marker: O_EXCL, and only who made it acts.
Mark(a) ==
  /\ claiming[a]
  /\ claiming' = [claiming EXCEPT ![a] = FALSE]
  /\ marker' = [marker EXCEPT ![a] = TRUE]
  /\ acts' = IF marker[a] THEN acts ELSE [acts EXCEPT ![a] = @ + 1]
  /\ IF rec[a].state \in Existing
     THEN UNCHANGED <<order, state, me>>
     ELSE Touched(a) /\ me' = Forget(a)
  /\ UNCHANGED <<rec, audit, locks, ghost, trouble>>

\* A send records its outcome.
Complete(a) ==
  /\ Open(a)
  /\ rlock' = [rlock EXCEPT ![a] = NoLock]
  /\ rec[a].state = "sending" /\ ~rec[a].lapsed /\ ~claiming[a]
  /\ rec' = [rec EXCEPT ![a] = [@ EXCEPT !.state = "finished", !.age = 0]]
  /\ Touched(a)
  /\ me' = Forget(a)
  /\ UNCHANGED <<marker, claiming, acts, audit, mlock, ghost, trouble>>

\* A window or a lease passes: the next locked look will write it.
Lapse(a) ==
  /\ rec[a].state \in Active /\ ~rec[a].lapsed
  /\ rec' = [rec EXCEPT ![a].lapsed = TRUE, ![a].age = 0]
  /\ UNCHANGED <<marker, claiming, acts, order, audit, state, locks, me, ghost, trouble>>

Fault(f) ==
  /\ f \in Faults
  /\ trouble < MaxTrouble
  /\ trouble' = trouble + 1

\* A record that can no longer be read.
Rot(a) ==
  /\ Fault("rot")
  /\ Open(a)
  /\ rec[a].state \in Existing
  /\ rec' = [rec EXCEPT ![a] = [Absent EXCEPT !.state = "corrupt"]]
  /\ Touched(a)
  /\ me' = Forget(a)
  /\ UNCHANGED <<marker, claiming, acts, audit, locks, ghost>>

\* A locked look elsewhere keeps the record's lock for a while, and writes what it derives.
Hold(a) ==
  /\ Fault("hold")
  /\ Open(a)
  /\ rec[a].state \in Existing
  /\ rlock' = [rlock EXCEPT ![a] = LockOf("user")]
  /\ UNCHANGED <<files, claiming, acts, state, mlock, me, ghost>>

Unhold(a) ==
  /\ rlock[a].by = "user"
  /\ rlock' = [rlock EXCEPT ![a] = NoLock]
  /\ IF rec[a].lapsed
     THEN rec' = [rec EXCEPT ![a] = Derived(@)] /\ Touched(a) /\ me' = Forget(a)
     ELSE UNCHANGED <<rec, order, state, me>>
  /\ UNCHANGED <<marker, claiming, acts, audit, mlock, ghost, trouble>>

-----------------------------------------------------------------------------
(* The batch *)

At(w, pc)   == me[w].pc = pc
Goto(w, pc) == me' = [me EXCEPT ![w].pc = pc]
Slot(w)     == Head(me[w].list)

\* The batch ends: the lock goes only if it is still its own.
Leave(w) ==
  /\ me' = [me EXCEPT ![w] = Idle]
  /\ mlock' = IF mlock.by = w THEN NoLock ELSE mlock

\* Mutant of NotDue: a time ahead of the clock is waited for.
NotDueYet(age) == age < Interval

\* A batch began less than an interval ago, by a time no further ahead than skew explains.
NotDue(age) == age # Future /\ age < Interval

\* A call looks without the lock first.
Look(w) ==
  /\ At(w, "idle")
  /\ ~NotDue(state.age)
  /\ Goto(w, "lock")
  /\ UNCHANGED <<files, claiming, acts, state, locks, ghost, trouble>>

\* Then it takes the maintenance lock, with one try.
TryLock(w) ==
  /\ At(w, "lock")
  /\ \/ /\ mlock.by = "free" \/ mlock.stale
        /\ mlock' = LockOf(w)
        /\ Goto(w, "state")
     \/ /\ mlock.by # "free" /\ ~mlock.stale
        /\ Leave(w)
  /\ UNCHANGED <<files, claiming, acts, state, rlock, ghost, trouble>>

\* Mutant of DueAgain: what the look without the lock found still stands.
DueTrusted(age) == TRUE

DueAgain(age) == ~NotDue(age)

\* One listing: the slots after the cursor, oldest first, at most SlotLimit of them; the files at or
\* before the cursor are the first of the order.
Listed(m) ==
  LET from == Cardinality({i \in DOMAIN order : order[i] \in state.behind})
      to   == IF Len(order) < from + SlotLimit THEN Len(order) ELSE from + SlotLimit
  IN [m EXCEPT !.pc = "next", !.behind = state.behind, !.list = SubSeq(order, from + 1, to),
               !.whole = (to = Len(order)), !.same = Range(order), !.done = state.behind]

\* Under the lock the state is read again.  A time too far ahead becomes now; an attempt
\* that is due is on disk before any record is touched, and then the directory is listed.
Begin(w) ==
  /\ At(w, "state")
  /\ \/ /\ state.age # Future /\ DueAgain(state.age)
        /\ state' = [state EXCEPT !.age = 0]
        /\ me' = [me EXCEPT ![w] = Listed(@)]
        /\ gap' = 0
        /\ UNCHANGED mlock
     \/ /\ state.age # Future /\ ~DueAgain(state.age)
        /\ Leave(w)
        /\ UNCHANGED <<state, gap>>
     \/ /\ state.age = Future
        /\ state' = [state EXCEPT !.age = 0]
        /\ Leave(w)
        /\ UNCHANGED gap
  /\ UNCHANGED <<files, claiming, acts, rlock, excused, trouble>>

\* Before each slot: a batch that was taken over starts nothing more.
LockLost(w) ==
  /\ At(w, "next") /\ me[w].list # <<>>
  /\ mlock.by # w
  /\ Leave(w)
  /\ UNCHANGED <<files, claiming, acts, state, rlock, ghost, trouble>>

\* The slot of w is behind it, at the time it was listed with.
Passed(w, m) == [m EXCEPT !.pc = "next", !.list = Tail(@), !.done = @ \cup ({Slot(w)} \cap m.same)]

Unlocked(w) == IF rlock[Slot(w)].by = w THEN [rlock EXCEPT ![Slot(w)] = NoLock] ELSE rlock

\* The budget is spent before a slot, its read or its deletion: the rest
\* waits for another day.
Late(w) ==
  /\ Fault("late")
  /\ me[w].pc \in {"next", "read", "audit"} /\ me[w].list # <<>>
  /\ me' = [me EXCEPT ![w] = [@ EXCEPT !.pc = "next", !.list = <<>>, !.whole = FALSE]]
  /\ rlock' = Unlocked(w)
  /\ UNCHANGED <<files, claiming, acts, state, mlock, ghost>>

Busy(w) ==
  LET m == me[w] IN
  /\ At(w, "next") /\ me[w].list # <<>> /\ mlock.by = w
  /\ ~Open(Slot(w))
  /\ me' = [me EXCEPT ![w] = [Passed(w, m) EXCEPT !.busy = TRUE, !.before = IF m.busy THEN m.before ELSE m.done]]
  /\ UNCHANGED <<files, claiming, acts, state, locks, ghost, trouble>>

Acquire(w) ==
  /\ At(w, "next") /\ me[w].list # <<>> /\ mlock.by = w
  /\ Open(Slot(w))
  /\ rlock' = [rlock EXCEPT ![Slot(w)] = LockOf(w)]
  /\ Goto(w, "read")
  /\ UNCHANGED <<files, claiming, acts, state, mlock, ghost, trouble>>

\* The record is gone: what is left of it is a marker, and that goes too.
ReadLone(w) ==
  LET a == Slot(w) IN
  /\ At(w, "read")
  /\ rec[a].state \notin Existing
  /\ marker' = [marker EXCEPT ![a] = FALSE]
  /\ order' = Without(a)
  /\ state' = [state EXCEPT !.behind = @ \ {a}]
  /\ rlock' = Unlocked(w)
  /\ me' = [Forget(a) EXCEPT ![w] = Forgets(Passed(w, me[w]), a)]
  /\ UNCHANGED <<rec, audit, claiming, acts, mlock, ghost, trouble>>

\* The record is read once, what it derives written, and judged.
ReadRecord(w) ==
  LET a == Slot(w)
      r == Derived(rec[a])
  IN
  /\ At(w, "read")
  /\ rec[a].state \in Existing
  /\ rec' = [rec EXCEPT ![a] = r]
  /\ \/ /\ Prunable(r)
        /\ me' = [(IF r # rec[a] THEN Forget(a) ELSE me) EXCEPT ![w].pc = "audit"]
        /\ UNCHANGED rlock
     \/ /\ ~Prunable(r)
        /\ rlock' = Unlocked(w)
        /\ me' = IF r # rec[a]
                 THEN [Forget(a) EXCEPT ![w] = Forgets(Passed(w, me[w]), a)]
                 ELSE [me EXCEPT ![w] = Passed(w, @)]
  /\ IF r # rec[a] THEN Touched(a) ELSE UNCHANGED <<order, state>>
  /\ UNCHANGED <<marker, audit, claiming, acts, mlock, ghost, trouble>>

\* Mutant of RowWritten: the row is left to a buffer.
RowBuffered(rows, a) == rows

\* The durable row comes first.
RowWritten(rows, a) == rows \cup {a}

WriteRow(w) ==
  /\ At(w, "audit")
  /\ audit' = RowWritten(audit, Slot(w))
  /\ Goto(w, "unmark")
  /\ UNCHANGED <<rec, marker, order, claiming, acts, state, locks, ghost, trouble>>

\* A write that fails: of the attempt or of the cursor, or a read, a row or an unlink of a
\* slot, which is left as it is for another day.
Fails(w) ==
  /\ Fault("io")
  /\ \/ /\ me[w].pc \in {"state", "save"}
        /\ Leave(w)
        /\ UNCHANGED rlock
     \/ /\ me[w].pc \in {"read", "audit", "unmark", "unlink"}
        /\ rlock' = Unlocked(w)
        /\ me' = [me EXCEPT ![w] = Passed(w, @)]
        /\ UNCHANGED mlock
  /\ UNCHANGED <<files, claiming, acts, state, ghost>>

\* Mutant of Remaining: the id stays listed though its files are gone.
RemainingAlways(a, left) == order

\* The ids with a file, once only `left` says whether a has one; a lone marker is its own, new file.
Remaining(a, left) == IF left THEN Newest(a) ELSE Without(a)

\* Then the marker, absent or not.
Unmark(w) ==
  LET a == Slot(w) IN
  /\ At(w, "unmark")
  /\ marker' = [marker EXCEPT ![a] = FALSE]
  /\ order' = IF rec[a].state \in Existing THEN order ELSE Remaining(a, FALSE)
  /\ Goto(w, "unlink")
  /\ UNCHANGED <<rec, audit, claiming, acts, state, locks, ghost, trouble>>

\* Then the record, if nobody else did.
Unlink(w) ==
  LET a == Slot(w) IN
  /\ At(w, "unlink")
  /\ rec' = [rec EXCEPT ![a] = Absent]
  /\ rlock' = Unlocked(w)
  /\ IF rec[a].state \in Existing
     THEN /\ order' = Remaining(a, marker[a])
          /\ state' = [state EXCEPT !.behind = @ \ {a}]
          /\ me' = [Forget(a) EXCEPT ![w] = Forgets(Passed(w, me[w]), a)]
     ELSE UNCHANGED <<order, state>> /\ me' = [me EXCEPT ![w] = Passed(w, @)]
  /\ UNCHANGED <<marker, audit, claiming, acts, mlock, ghost, trouble>>

\* Cleared at the end of the directory, before the earliest busy slot, or after the last one done.
NextCursor(m) == IF m.whole THEN {} ELSE IF m.busy THEN m.before ELSE m.done

\* The last look before the cursor is written.
Finish(w) ==
  /\ At(w, "next") /\ me[w].list = <<>>
  /\ IF NextCursor(me[w]) # me[w].behind /\ mlock.by = w
     THEN Goto(w, "save") /\ UNCHANGED mlock
     ELSE Leave(w)
  /\ UNCHANGED <<files, claiming, acts, state, rlock, ghost, trouble>>

Save(w) ==
  /\ At(w, "save")
  /\ state' = [age |-> me[w].age, behind |-> NextCursor(me[w])]
  /\ Leave(w)
  /\ UNCHANGED <<files, claiming, acts, rlock, ghost, trouble>>

-----------------------------------------------------------------------------
(* Failures and time *)

Abandoned(w) == [a \in Approval |-> IF rlock[a].by = w THEN Left ELSE rlock[a]]

\* A process dies: its locks stay until they count as abandoned.
Crash(w) ==
  /\ Fault("crash")
  /\ ~At(w, "idle")
  /\ me' = [me EXCEPT ![w] = Idle]
  /\ mlock' = IF mlock.by = w THEN Left ELSE mlock
  /\ rlock' = Abandoned(w)
  /\ UNCHANGED <<files, claiming, acts, state, ghost>>

\* A claimant dies between its record and its marker.
ClaimantDies(a) ==
  /\ Fault("crash")
  /\ claiming[a]
  /\ claiming' = [claiming EXCEPT ![a] = FALSE]
  /\ UNCHANGED <<files, acts, state, locks, me, ghost>>

\* A process is stopped so long that its locks count as abandoned, and then goes on.
Stall(w) ==
  /\ Fault("stall")
  /\ mlock.by = w
  /\ mlock' = [mlock EXCEPT !.stale = TRUE]
  /\ rlock' = [a \in Approval |-> IF rlock[a].by = w THEN [rlock[a] EXCEPT !.stale = TRUE] ELSE rlock[a]]
  /\ excused' = TRUE
  /\ UNCHANGED <<files, claiming, acts, state, me, gap>>

\* The clock is set back: what it measured is ahead of it, and a waiting record made later ends.
SetBack ==
  /\ Fault("back")
  /\ state' = [state EXCEPT !.age = Future]
  /\ rec' = [a \in Approval |-> [rec[a] EXCEPT !.age = 0, !.lapsed = @ \/ rec[a].state = "waiting"]]
  /\ me' = [w \in Worker |-> [me[w] EXCEPT !.age = IF me[w].pc \in {"idle", "lock", "state"} THEN 0 ELSE Future]]
  /\ excused' = TRUE
  /\ UNCHANGED <<marker, order, audit, claiming, acts, locks, gap>>

Older(age, bound) == IF age = Future \/ age >= bound THEN age ELSE age + 1
Ages(r)           == r.lapsed \/ r.state = "finished"

\* A batch that holds its lock ends within MAINTENANCE_BUDGET_MS, far less than a tick.
Running(w) == mlock.by = w /\ ~mlock.stale

Tick ==
  /\ \A w \in Worker : ~Running(w)
  /\ rec' = [a \in Approval |-> IF Ages(rec[a]) THEN [rec[a] EXCEPT !.age = Older(@, RetentionAge)] ELSE rec[a]]
  /\ state' = [state EXCEPT !.age = Older(@, Interval)]
  /\ me' = [w \in Worker |-> IF me[w].pc \in {"idle", "lock", "state"} THEN me[w]
                        ELSE [me[w] EXCEPT !.age = Older(@, Interval)]]
  /\ gap' = Older(gap, Interval)
  /\ UNCHANGED <<marker, order, audit, claiming, acts, locks, excused, trouble>>

-----------------------------------------------------------------------------
Init ==
  /\ rec = [a \in Approval |-> Absent]
  /\ marker = [a \in Approval |-> FALSE]
  /\ claiming = [a \in Approval |-> FALSE]
  /\ acts = [a \in Approval |-> 0]
  /\ order = <<>>
  /\ audit = {}
  /\ state = [age |-> Interval, behind |-> {}]
  /\ mlock = NoLock
  /\ rlock = [a \in Approval |-> NoLock]
  /\ me = [w \in Worker |-> Idle]
  /\ gap = Interval
  /\ excused = FALSE
  /\ trouble = 0

Batch(w) ==
  \/ Look(w) \/ TryLock(w) \/ Begin(w) \/ LockLost(w) \/ Busy(w) \/ Acquire(w)
  \/ ReadLone(w) \/ ReadRecord(w) \/ WriteRow(w) \/ Unmark(w) \/ Unlink(w) \/ Finish(w) \/ Save(w)

Next ==
  \/ \E w \in Worker : Batch(w) \/ Late(w) \/ Fails(w) \/ Crash(w) \/ Stall(w)
  \/ \E a \in Approval :
       \/ Create(a) \/ Claim(a) \/ Mark(a) \/ Complete(a) \/ Lapse(a)
       \/ Rot(a) \/ Hold(a) \/ Unhold(a) \/ ClaimantDies(a)
  \/ SetBack \/ Tick

Spec == Init /\ [][Next]_vars

\* Calls of ensurePruned go on, locked looks end, and time passes; people and faults owe nothing.
Fairness ==
  /\ \A w \in Worker : WF_vars(Batch(w))
  /\ WF_vars(\E a \in Approval : Unhold(a))
  /\ WF_vars(Tick)

FairSpec == Spec /\ Fairness

-----------------------------------------------------------------------------
(* Properties *)

\* The types of all variables: files, locks and batches as the code keeps them.
TypeOK ==
  /\ rec \in [Approval -> [state : Existing \cup {"none"}, lapsed : BOOLEAN, age : 0..RetentionAge]]
  /\ marker \in [Approval -> BOOLEAN] /\ claiming \in [Approval -> BOOLEAN]
  /\ acts \in [Approval -> Nat]
  /\ order \in Seq(Approval) /\ IsInjective(order) /\ Range(order) = {a \in Approval : HasFile(a)}
  /\ audit \subseteq Approval
  /\ state.age \in Future..Interval /\ state.behind \subseteq Approval
  /\ mlock.by \in Worker \cup {"free", "dead"} /\ mlock.stale \in BOOLEAN
  /\ \A a \in Approval : rlock[a].by \in Worker \cup {"free", "dead", "user"}
  /\ \A w \in Worker : me[w].age \in Future..Interval /\ Range(me[w].list) \subseteq Approval
  /\ gap \in 0..Interval /\ excused \in BOOLEAN /\ trouble \in 0..MaxTrouble

\* Nothing that finished disappears without its durable row, whatever dies or is
\* taken over between the row, the marker and the record (prune).
RowBeforeGone ==
  \A a \in Approval :
    /\ acts[a] > 0 /\ ~HasFile(a) => a \in audit
    /\ rec[a].state = "finished" /\ acts[a] > 0 /\ ~marker[a] => a \in audit

\* A record that waits, is being sent or cannot be read is never deleted (verdictOf).
OnlyFinishedDeleted ==
  [][\A a \in Approval : rec[a].state \in Existing /\ rec'[a].state \notin Existing => rec[a].state = "finished"]_vars

\* An approval is acted on at most once, though its marker goes before its record
\* and a claimant makes its marker after it let the record's lock go.
ActedOnce == \A a \in Approval : acts[a] <= 1

\* Batches are an interval apart, also after a crash in the middle of one or when two
\* processes found it due at once: the attempt is committed first and looked at again.
NoStorm ==
  [][\A w \in Worker : At(w, "state") /\ me'[w].pc = "next" => gap = Interval \/ excused]_vars

\* What has lapsed or finished is deleted in the end, wherever the cursor stands, in spite
\* of busy records, unreadable ones, spent budgets, dead batches and a clock set back.
FinishedArePruned ==
  \A a \in Approval : []<>(~rec[a].lapsed /\ rec[a].state # "finished")
=============================================================================
