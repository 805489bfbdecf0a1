--------------------------- MODULE SendGate_proofs ---------------------------
(***************************************************************************)
(* Proofs about SendGate: its type invariant, and that an approval is spent *)
(* at most once and says truly what became of it, for any number of          *)
(* processes and approvals, whether or not the record's lock excludes.       *)
(***************************************************************************)
EXTENDS SendGate, TLAPS

-----------------------------------------------------------------------------
(* Records and memories keep their types *)

\* A record with another state is a record.
LEMMA SetState ==
  ASSUME NEW r \in Records, NEW s \in States
  PROVE  [r EXCEPT !.state = s] \in Records /\ [r EXCEPT !.state = s].state = s
BY DEF Records

\* A record with another age is a record, in the same state.
LEMMA SetAge ==
  ASSUME NEW r \in Records, NEW n \in Int
  PROVE  [r EXCEPT !.age = n] \in Records /\ [r EXCEPT !.age = n].state = r.state
BY DEF Records

\* A record whose challenge is set or cleared is a record, in the same state.
LEMMA SetCode ==
  ASSUME NEW r \in Records, NEW b \in BOOLEAN
  PROVE  [r EXCEPT !.code = b] \in Records /\ [r EXCEPT !.code = b].state = r.state
BY DEF Records

\* A record that says which version was approved is a record, in the same state.
LEMMA SetYes ==
  ASSUME NEW r \in Records, NEW n \in Nat
  PROVE  [r EXCEPT !.yes = n] \in Records /\ [r EXCEPT !.yes = n].state = r.state
BY DEF Records

\* An ended record (a revocation, an expiry, an outcome) is a record, in the state given.
LEMMA EndedType ==
  ASSUME NEW r \in Records, NEW s \in States
  PROVE  /\ Ended(r, s) \in Records
         /\ Ended(r, s).state = s
<1> DEFINE q1 == [r EXCEPT !.state = s]
           q2 == [q1 EXCEPT !.code = FALSE]
           q3 == [q2 EXCEPT !.age = 0]
<1>1. Ended(r, s) = q3
  BY DEF Ended, Records
<1>2. q1 \in Records /\ q1.state = s
  BY SetState
<1> HIDE DEF q1
<1>3. q2 \in Records /\ q2.state = s
  BY <1>2, SetCode
<1> HIDE DEF q2
<1>4. q3 \in Records /\ q3.state = s
  BY <1>3, SetAge
<1> QED
  BY <1>1, <1>4

\* The two records a decision makes besides an ended one.
LEMMA BegunType ==
  ASSUME NEW r \in Records, NEW s \in States
  PROVE  /\ [r EXCEPT !.state = s, !.age = 0] \in Records
         /\ [r EXCEPT !.state = s, !.age = 0].state = s
<1> DEFINE q1 == [r EXCEPT !.state = s]
           q2 == [q1 EXCEPT !.age = 0]
<1>1. [r EXCEPT !.state = s, !.age = 0] = q2
  BY DEF Records
<1>2. q1 \in Records /\ q1.state = s
  BY SetState
<1> HIDE DEF q1
<1>3. q2 \in Records /\ q2.state = s
  BY <1>2, SetAge
<1> QED
  BY <1>1, <1>3

\* The record approve() writes for a right answer is a record.
LEMMA ApprovedType ==
  ASSUME NEW r \in Records, NEW ver \in Nat
  PROVE  LET q == [r EXCEPT !.state = "approved", !.yes = ver, !.code = FALSE, !.age = 0]
         IN  q \in Records /\ q.state = "approved"
<1> DEFINE q1 == [r EXCEPT !.state = "approved"]
           q2 == [q1 EXCEPT !.yes = ver]
           q3 == [q2 EXCEPT !.code = FALSE]
           q4 == [q3 EXCEPT !.age = 0]
<1>1. [r EXCEPT !.state = "approved", !.yes = ver, !.code = FALSE, !.age = 0] = q4
  BY DEF Records
<1>2. q1 \in Records /\ q1.state = "approved"
  BY SetState DEF States
<1> HIDE DEF q1
<1>3. q2 \in Records /\ q2.state = "approved"
  BY <1>2, SetYes
<1> HIDE DEF q2
<1>4. q3 \in Records /\ q3.state = "approved"
  BY <1>3, SetCode
<1> HIDE DEF q3
<1>5. q4 \in Records /\ q4.state = "approved"
  BY <1>4, SetAge
<1> QED
  BY <1>1, <1>5

\* #derive keeps the type and only expires a record or loses track of it.
LEMMA DeriveType ==
  ASSUME NEW r \in Records
  PROVE  /\ Derive(r) \in Records
         /\ Derive(r).state \in {r.state, "expired", "unknown"}
BY EndedType DEF Derive, States

\* What a transition reads is a record, at most expired, lost or revoked.
LEMMA SettleType ==
  ASSUME NEW r \in Records, NEW live \in Configs, NEW action
  PROVE  /\ Settle(r, live, action) \in Records
         /\ Settle(r, live, action).state \in {r.state, "expired", "unknown", "revoked"}
<1>1. Derive(r) \in Records
  BY DeriveType
<1>2. Ended(Derive(r), "revoked") \in Records /\ Ended(Derive(r), "revoked").state = "revoked"
  BY <1>1, EndedType DEF States
<1> QED
  BY <1>1, <1>2, DeriveType DEF Settle

\* A renewal is a record in the same state.
LEMMA RenewType ==
  ASSUME NEW r \in Records
  PROVE  Renew(r) \in Records /\ Renew(r).state = r.state
BY DEF Renew, Records

\* complete() writes a record, in its state or in the outcome given.
LEMMA OutcomeType ==
  ASSUME NEW r \in Records, NEW s \in States
  PROVE  Outcome(r, s) \in Records /\ Outcome(r, s).state \in {r.state, s}
BY EndedType DEF Outcome

\* revoke() writes a record, in its state or revoked.
LEMMA RevokedType ==
  ASSUME NEW r \in Records
  PROVE  Revoked(r) \in Records /\ Revoked(r).state \in {r.state, "revoked"}
BY EndedType DEF Revoked, States

\* claimForSend writes a record: as it was, revoked, or sending.
LEMMA ClaimDecisionType ==
  ASSUME NEW r \in Records, NEW live \in Configs, NEW ver \in Nat, NEW agrees \in BOOLEAN
  PROVE  /\ ClaimDecision(r, live, ver, agrees) \in Records
         /\ ClaimDecision(r, live, ver, agrees).state \in {r.state, "revoked", "sending"}
<1>1. /\ [r EXCEPT !.state = "sending", !.age = 0] \in Records
      /\ [r EXCEPT !.state = "sending", !.age = 0].state = "sending"
  BY BegunType DEF States
<1>3. Ended(r, "revoked") \in Records /\ Ended(r, "revoked").state = "revoked"
  BY EndedType DEF States
<1> QED
  BY <1>1, <1>3 DEF ClaimDecision

\* approve() writes a record: as it was, revoked, or approved.
LEMMA ApproveDecisionType ==
  ASSUME NEW r \in Records, NEW ver \in Nat, NEW right \in BOOLEAN
  PROVE  /\ ApproveDecision(r, ver, right) \in Records
         /\ ApproveDecision(r, ver, right).state \in {r.state, "revoked", "approved"}
<1>1. /\ [r EXCEPT !.state = "approved", !.yes = ver, !.code = FALSE, !.age = 0] \in Records
      /\ [r EXCEPT !.state = "approved", !.yes = ver, !.code = FALSE, !.age = 0].state = "approved"
  BY ApprovedType
<1>3. Ended(r, "revoked") \in Records /\ Ended(r, "revoked").state = "revoked"
  BY EndedType DEF States
<1>4. [r EXCEPT !.tries = @ + 1] \in Records /\ [r EXCEPT !.tries = @ + 1].state = r.state
  BY DEF Records
<1>5. /\ Ended([r EXCEPT !.tries = @ + 1], "revoked") \in Records
      /\ Ended([r EXCEPT !.tries = @ + 1], "revoked").state = "revoked"
  BY <1>4, EndedType DEF States
<1> QED
  BY <1>1, <1>3, <1>4, <1>5 DEF ApproveDecision

\* Every state has a lifetime.
LEMMA LifeType ==
  ASSUME NEW r \in Records
  PROVE  Life(r) \in Nat
BY LifetimeAssumption DEF Life

\* A record stays one, in its state, when the clock moves.
LEMMA AgedType ==
  ASSUME NEW r \in Records, NEW d \in Int
  PROVE  Aged(r, d) \in Records /\ Aged(r, d).state = r.state
BY LifeType, BoundAssumption DEF Aged, Records

\* The empty snapshot has its type.
LEMMA BlankType == Blank \in Seen /\ Blank.rec.state = "none"
BY DEF Blank, NoRecord, Seen, Records, Configs, States

\* A process at rest has no call and no renewal.
LEMMA RestingType ==
  /\ Resting \in Memories /\ Resting.pc = "idle" /\ Resting.job = "none"
  /\ Quiet \in Beats /\ ~Quiet.on
BY BlankType DEF Resting, Memories, Steps, Quiet, Beats

\* Going on to a step keeps the job and forgets what was read.
LEMMA AtType ==
  ASSUME TypeOK, NEW w \in Worker, NEW p \in Steps
  PROVE  /\ At(w, p) \in Memories
         /\ At(w, p).pc = p
         /\ At(w, p).job = me[w].job
         /\ At(w, p).seen = Blank
BY BlankType DEF TypeOK, At, Memories

\* What a transition reads under the lock has its type, and says no more than the file.
LEMMA SnapshotType ==
  ASSUME TypeOK, NEW a \in Approval, NEW action
  PROVE  /\ Snapshot(a, action) \in Seen
         /\ Snapshot(a, action).rec.state \in {rec[a].state, "expired", "unknown", "revoked"}
BY SettleType DEF TypeOK, Snapshot, Seen

-----------------------------------------------------------------------------
(* The shapes of a step keep every type *)

\* Changing one process's memory keeps every memory's type.
LEMMA MemoryType ==
  ASSUME TypeOK, NEW w \in Worker, NEW mine \in Memories, HasJob(mine),
         me' = [me EXCEPT ![w] = mine]
  PROVE  /\ me' \in [Worker -> Memories]
         /\ \A v \in Worker : HasJob(me'[v])
BY DEF TypeOK, HasJob

\* A step of one process alone keeps every type.
LEMMA OnlyType ==
  ASSUME TypeOK, NEW w \in Worker, NEW mine \in Memories, HasJob(mine), Only(w, mine)
  PROVE  TypeOK'
BY MemoryType DEF TypeOK, Only, disk, provider, history, HasJob

\* Writing a record and letting its lock go keep their types.
LEMMA PutType ==
  ASSUME TypeOK, NEW t, NEW a \in Approval, NEW read, NEW next \in Records, Put(t, a, read, next)
  PROVE  /\ rec' \in [Approval -> Records]
         /\ lock' \in [Approval -> {Free, Orphan} \cup Threads]
BY DEF TypeOK, Put

\* The second half of a transition keeps every type.
LEMMA LeaveType ==
  ASSUME TypeOK, NEW w \in Worker, NEW next \in Records, NEW mine \in Memories, HasJob(mine),
         me[w].job \in Approval, Leave(w, next, mine)
  PROVE  TypeOK'
<1>1. me' \in [Worker -> Memories] /\ \A v \in Worker : HasJob(me'[v])
  BY MemoryType DEF Leave
<1>2. rec' \in [Approval -> Records] /\ lock' \in [Approval -> {Free, Orphan} \cup Threads]
  BY PutType DEF Leave
<1> QED
  BY <1>1, <1>2 DEF TypeOK, Leave, provider, history, HasJob

\* Taking a lock keeps the locks' type.
LEMMA AcquireType ==
  ASSUME TypeOK, NEW w \in Worker, NEW a \in Approval, NEW t \in {Main(w), Timer(w)}, Acquire(t, a)
  PROVE  lock' \in [Approval -> {Free, Orphan} \cup Threads]
BY DEF TypeOK, Acquire, Main, Timer, Threads

\* The first half of a transition keeps every type.
LEMMA EnterType ==
  ASSUME TypeOK, NEW w \in Worker, NEW a \in Approval, NEW step \in Steps, NEW action,
         Enter(w, a, step, action)
  PROVE  TypeOK'
<1> DEFINE mine == [me[w] EXCEPT !.pc = step, !.job = a, !.seen = Snapshot(a, action)]
<1>a. me[w] \in Memories /\ Snapshot(a, action) \in Seen
  BY SnapshotType DEF TypeOK
<1>b. mine \in Memories /\ mine.job = a
  BY <1>a DEF Memories
<1>1. mine \in Memories /\ HasJob(mine)
  BY <1>b DEF HasJob
<1>2. me' = [me EXCEPT ![w] = mine]
  BY DEF Enter
<1>3. me' \in [Worker -> Memories] /\ \A v \in Worker : HasJob(me'[v])
  BY <1>1, <1>2, MemoryType
<1>4. lock' \in [Approval -> {Free, Orphan} \cup Threads]
  BY AcquireType DEF Enter
<1> QED
  BY <1>3, <1>4 DEF TypeOK, Enter, provider, history, HasJob

\* Giving a call up keeps every type.
LEMMA RestType ==
  ASSUME TypeOK, NEW w \in Worker, Only(w, Resting)
  PROVE  TypeOK'
BY OnlyType, RestingType DEF HasJob

\* A step that goes on to p with its job, or rests.
LEMMA GoesOnType ==
  ASSUME TypeOK, NEW w \in Worker, NEW p \in Steps, me[w].job \in Approval
  PROVE  At(w, p) \in Memories /\ HasJob(At(w, p)) /\ Resting \in Memories /\ HasJob(Resting)
BY AtType, RestingType DEF HasJob

\* The version a call keeps in mind.
LEMMA KeepsVersionType ==
  ASSUME NEW m \in Memories, HasJob(m), NEW v \in Nat
  PROVE  [m EXCEPT !.ver = v] \in Memories /\ HasJob([m EXCEPT !.ver = v])
BY DEF Memories, HasJob

\* What a sweep has still to do.
LEMMA KeepsTodoType ==
  ASSUME NEW m \in Memories, HasJob(m), NEW t \in SUBSET Approval
  PROVE  [m EXCEPT !.todo = t] \in Memories /\ HasJob([m EXCEPT !.todo = t])
BY DEF Memories, HasJob

\* A sweep that is through with the approval it had.
LEMMA DoneTodoType ==
  ASSUME NEW m \in Memories, NEW a, m.pc = "sweep"
  PROVE  LET n == [m EXCEPT !.job = "none", !.todo = @ \ {a}] IN n \in Memories /\ HasJob(n)
<1>1. m.todo \ {a} \in SUBSET Approval
  BY DEF Memories
<1> QED
  BY <1>1 DEF Memories, HasJob

\* Every call that begins keeps every type.
LEMMA BeginType ==
  ASSUME TypeOK, NEW w \in Worker, Begin(w)
  PROVE  TypeOK'
<1>1. ASSUME NEW a \in Approval, PrepareStart(w, a)
      PROVE  TypeOK'
  <2> DEFINE r == [NoRecord EXCEPT !.route = config.policy, !.asked = config.epoch]
             mine == [Resting EXCEPT !.pc = "resolved", !.job = a, !.seen.rec = r]
  <2>1. config.policy \in {"chat", "confirm"} /\ config.epoch \in Nat
    BY <1>1 DEF PrepareStart, TypeOK, Configs
  <2> DEFINE r1 == [NoRecord EXCEPT !.route = config.policy]
  <2>n. NoRecord \in Records
    BY DEF NoRecord, Records, States
  <2>a. r1 \in Records /\ r = [r1 EXCEPT !.asked = config.epoch]
    BY <2>1, <2>n DEF Records
  <2> HIDE DEF r1
  <2>2. r \in Records
    BY <2>1, <2>a DEF Records
  <2> HIDE DEF r
  <2>3. mine \in Memories /\ HasJob(mine)
    BY <2>2, RestingType DEF Memories, Seen, HasJob, Steps
  <2>4. Only(w, mine)
    BY <1>1 DEF PrepareStart, r
  <2> QED
    BY <2>3, <2>4, OnlyType
<1>2. ASSUME NEW a \in Approval, SendStart(w, a) PROVE TypeOK'
  BY <1>2, EnterType DEF SendStart, Steps, Holding
<1>3. ASSUME NEW a \in Approval, ShowEnter(w, a) PROVE TypeOK'
  BY <1>3, EnterType DEF ShowEnter, Steps, Holding
<1>4. ASSUME NEW a \in Approval, AnswerEnter(w, a) PROVE TypeOK'
  BY <1>4, EnterType DEF AnswerEnter, Steps, Holding
<1>5. ASSUME NEW a \in Approval, RevokeEnter(w, a) PROVE TypeOK'
  BY <1>5, EnterType DEF RevokeEnter, Steps, Holding
<1>6. ASSUME NEW a \in Approval, StatusEnter(w, a) PROVE TypeOK'
  BY <1>6, EnterType DEF StatusEnter, Steps, Holding
<1>7. ASSUME NEW p \in Policies, SetPolicy(w, p) PROVE TypeOK'
  <2> DEFINE listing == [Resting EXCEPT !.pc = "list", !.ver = config.epoch + 1]
             mine == IF p = "never" THEN listing ELSE Resting
  <2> DEFINE c1 == [config EXCEPT !.policy = p]
             c2 == [config EXCEPT !.policy = p, !.epoch = IF p = "never" THEN @ + 1 ELSE @]
  <2>c. c1 \in Configs /\ c2 = [c1 EXCEPT !.epoch = IF p = "never" THEN @ + 1 ELSE @]
    BY PolicyAssumption DEF TypeOK, Configs
  <2> HIDE DEF c1
  <2>1. config' \in Configs
    <3>1. [c1 EXCEPT !.epoch = IF p = "never" THEN @ + 1 ELSE @] \in Configs
      BY <2>c DEF Configs
    <3> QED
      BY <1>7, <2>c, <3>1 DEF SetPolicy, NextConfig
  <2>2. [Resting EXCEPT !.pc = "list"] \in Memories /\ HasJob([Resting EXCEPT !.pc = "list"])
    BY RestingType DEF Memories, HasJob, Steps
  <2>a. config.epoch + 1 \in Nat
    BY DEF TypeOK, Configs
  <2>b. listing = [[Resting EXCEPT !.pc = "list"] EXCEPT !.ver = config.epoch + 1]
    BY RestingType DEF Memories
  <2>3. listing \in Memories /\ HasJob(listing)
    BY <2>2, <2>a, <2>b, KeepsVersionType
  <2>4. mine \in Memories /\ HasJob(mine)
    BY <2>3, RestingType DEF HasJob
  <2>5. me' = [me EXCEPT ![w] = mine]
    BY <1>7 DEF SetPolicy
  <2>6. me' \in [Worker -> Memories] /\ \A v \in Worker : HasJob(me'[v])
    BY <2>4, <2>5, MemoryType
  <2> QED
    BY <1>7, <2>1, <2>6 DEF TypeOK, SetPolicy, disk, provider, history, HasJob
<1>8. ASSUME EditCheck(w) PROVE TypeOK'
  <2>1. [Resting EXCEPT !.pc = "edit"] \in Memories /\ HasJob([Resting EXCEPT !.pc = "edit"])
    BY RestingType DEF Memories, HasJob, Steps
  <2> QED
    BY <1>8, <2>1, OnlyType DEF EditCheck
<1> QED
  BY <1>1, <1>2, <1>3, <1>4, <1>5, <1>6, <1>7, <1>8 DEF Begin

\* Every step of a preparation keeps every type.
LEMMA PrepareType ==
  ASSUME TypeOK, NEW w \in Worker, Prepare(w)
  PROVE  TypeOK'
<1> USE DEF Steps
<1>0. me[w] \in Memories /\ HasJob(me[w]) /\ me[w].seen.rec \in Records /\ draft \in Nat
  BY DEF TypeOK, Memories, Seen
<1>1. ASSUME PrepareRead(w) PROVE TypeOK'
  <2>1. ASSUME NEW next \in {"bound", "fit"},
               Only(w, [me[w] EXCEPT !.pc = next, !.seen.rec.epoch = config.epoch, !.seen.rec.ver = draft])
        PROVE  TypeOK'
    <3> DEFINE r == [me[w].seen.rec EXCEPT !.epoch = config.epoch, !.ver = draft]
               mine == [me[w] EXCEPT !.pc = next, !.seen.rec = r]
    <3>1. config.epoch \in Nat
      BY DEF TypeOK, Configs
    <3>2. r \in Records
      BY <1>0, <3>1 DEF Records
    <3>3. [me[w] EXCEPT !.pc = next, !.seen.rec.epoch = config.epoch, !.seen.rec.ver = draft] = mine
      BY <1>0 DEF Memories, Seen, Records
    <3> HIDE DEF r
    <3>4. me[w].job \in Approval
      BY <1>0, <1>1 DEF HasJob, PrepareRead
    <3>5. [me[w].seen EXCEPT !.rec = r] \in Seen
      BY <1>0, <3>2 DEF Memories, Seen
    <3>6. mine = [me[w] EXCEPT !.pc = next, !.seen = [@ EXCEPT !.rec = r]]
      BY <1>0 DEF Memories
    <3>7. mine \in Memories /\ HasJob(mine)
      BY <1>0, <3>4, <3>5, <3>6 DEF Memories, HasJob
    <3> QED
      BY <2>1, <3>3, <3>7, OnlyType
  <2> QED
    BY <1>1, <2>1, RestType DEF PrepareRead
<1>2. ASSUME PrepareFit(w) PROVE TypeOK'
  <2>1. [me[w] EXCEPT !.pc = "relabel"] \in Memories /\ HasJob([me[w] EXCEPT !.pc = "relabel"])
    BY <1>0, <1>2 DEF PrepareFit, Memories, HasJob
  <2> QED
    BY <1>2, <2>1, RestType, OnlyType DEF PrepareFit
<1>3. ASSUME PrepareRelabel(w) PROVE TypeOK'
  <2>1. [me[w] EXCEPT !.pc = "reread"] \in Memories /\ HasJob([me[w] EXCEPT !.pc = "reread"])
    BY <1>0, <1>3 DEF PrepareRelabel, Memories, HasJob
  <2>2. me' \in [Worker -> Memories] /\ \A v \in Worker : HasJob(me'[v])
    BY <1>3, <2>1, MemoryType DEF PrepareRelabel
  <2>3. draft' \in Nat
    BY <1>0, <1>3 DEF PrepareRelabel, Rewritten
  <2> QED
    BY <1>3, <2>2, <2>3 DEF TypeOK, PrepareRelabel, disk, history, HasJob
<1>4. ASSUME PrepareReread(w) PROVE TypeOK'
  <2> DEFINE r == [me[w].seen.rec EXCEPT !.ver = draft]
             mine == [me[w] EXCEPT !.pc = "bound", !.seen.rec = r]
  <2>1. r \in Records
    BY <1>0 DEF Records
  <2>2. [me[w] EXCEPT !.pc = "bound", !.seen.rec.ver = draft] = mine
    BY <1>0 DEF Memories, Seen, Records
  <2> HIDE DEF r
  <2>3. mine \in Memories /\ HasJob(mine)
    BY <1>0, <1>4, <2>1 DEF Memories, Seen, HasJob, PrepareReread
  <2> QED
    BY <1>4, <2>2, <2>3, OnlyType, RestType DEF PrepareReread
<1>5. ASSUME PrepareCreate(w) PROVE TypeOK'
  <2>1. me[w].job \in Approval
    BY <1>0, <1>5 DEF PrepareCreate, HasJob
  <2>2. PICK route \in {me[w].seen.rec.route, "confirm"} :
          rec' = [rec EXCEPT ![me[w].job] = [me[w].seen.rec EXCEPT !.state = "pending", !.route = route]]
    BY <1>5 DEF PrepareCreate
  <2>3. [me[w].seen.rec EXCEPT !.state = "pending", !.route = route] \in Records
    BY <1>0 DEF Records, States
  <2>4. me' \in [Worker -> Memories] /\ \A v \in Worker : HasJob(me'[v])
    BY <1>5, RestingType, MemoryType DEF PrepareCreate, HasJob
  <2> QED
    BY <1>5, <2>1, <2>2, <2>3, <2>4 DEF TypeOK, PrepareCreate, provider, history, HasJob
<1> QED
  BY <1>1, <1>2, <1>3, <1>4, <1>5 DEF Prepare

\* Every step of a send keeps every type.
LEMMA SendType ==
  ASSUME TypeOK, NEW w \in Worker, Send(w)
  PROVE  TypeOK'
<1> USE DEF Steps, Holding
<1>0. /\ me[w] \in Memories /\ HasJob(me[w]) /\ draft \in Nat /\ me[w].ver \in Nat
      /\ me[w].seen.rec \in Records /\ me[w].seen.live \in Configs
  BY DEF TypeOK, Memories, Seen
<1>1. ASSUME Inspected(w) PROVE TypeOK'
  BY <1>0, <1>1, GoesOnType, LeaveType DEF Inspected, HasJob
<1>2. ASSUME ReadDraft(w) PROVE TypeOK'
  BY <1>0, <1>2, GoesOnType, KeepsVersionType, OnlyType DEF ReadDraft, HasJob
<1>3. ASSUME ClaimEnter(w) PROVE TypeOK'
  BY <1>0, <1>3, EnterType DEF ClaimEnter, HasJob
<1>4. ASSUME ClaimLeave(w) PROVE TypeOK'
  <2> DEFINE r == me[w].seen.rec
             next(agrees) == ClaimDecision(r, me[w].seen.live, me[w].ver, agrees)
             mine == [At(w, "mark") EXCEPT !.ver = r.ver]
  <2>0. PICK agrees \in BOOLEAN : Leave(w, next(agrees), mine) \/ Leave(w, next(agrees), Resting)
    BY <1>4 DEF ClaimLeave
  <2>1. next(agrees) \in Records
    BY <1>0, ClaimDecisionType
  <2>2. me[w].job \in Approval
    BY <1>0, <1>4 DEF ClaimLeave, HasJob
  <2>3. mine \in Memories /\ HasJob(mine) /\ Resting \in Memories /\ HasJob(Resting)
    BY <1>0, <2>2, GoesOnType, KeepsVersionType DEF Records
  <2> QED
    BY <2>0, <2>1, <2>2, <2>3, LeaveType
<1>5. ASSUME Mark(w) PROVE TypeOK'
  <2>1. me[w].job \in Approval
    BY <1>0, <1>5 DEF Mark, HasJob
  <2>2. CASE ~MarkerAbsent(me[w].job)
    BY <1>5, <2>2, RestType DEF Mark
  <2>3. CASE MarkerAbsent(me[w].job)
    <3>1. me' \in [Worker -> Memories] /\ \A v \in Worker : HasJob(me'[v])
      BY <1>5, <2>1, <2>3, GoesOnType, MemoryType DEF Mark
    <3> QED
      BY <1>5, <2>1, <2>3, <3>1 DEF TypeOK, Mark, provider, history, HasJob
  <2> QED
    BY <2>2, <2>3
<1>6. ASSUME Reserve(w) PROVE TypeOK'
  <2>1. me[w].job \in Approval
    BY <1>0, <1>6 DEF Reserve, HasJob
  <2>2. CASE Only(w, At(w, "release"))
    BY <2>1, <2>2, GoesOnType, OnlyType
  <2>3. CASE ~Only(w, At(w, "release"))
    <3>1. me' = [me EXCEPT ![w] = At(w, "look")] /\ held' = [held EXCEPT ![me[w].job] = 0]
          /\ UNCHANGED <<rec, claim, lock, config, provider, beat, backs, history>>
      BY <1>6, <2>3 DEF Reserve
    <3>2. me' \in [Worker -> Memories] /\ \A v \in Worker : HasJob(me'[v])
      BY <2>1, <3>1, GoesOnType, MemoryType
    <3> QED
      BY <2>1, <3>1, <3>2 DEF TypeOK, provider, history, HasJob
  <2> QED
    BY <2>2, <2>3
<1>7. ASSUME LastLook(w) PROVE TypeOK'
  BY <1>0, <1>7, GoesOnType, OnlyType DEF LastLook, HasJob
<1>8. ASSUME FenceEnter(w) PROVE TypeOK'
  BY <1>0, <1>8, EnterType DEF FenceEnter, HasJob
<1>9. ASSUME FenceLeave(w) PROVE TypeOK'
  <2>1. me[w].job \in Approval
    BY <1>0, <1>9 DEF FenceLeave, HasJob
  <2> QED
    BY <1>0, <1>9, <2>1, RenewType, GoesOnType, LeaveType DEF FenceLeave
<1>10. ASSUME Call(w) PROVE TypeOK'
  <2>1. me[w].job \in Approval
    BY <1>0, <1>10 DEF Call, HasJob
  <2>2. me' \in [Worker -> Memories] /\ \A v \in Worker : HasJob(me'[v])
    BY <1>10, <2>1, GoesOnType, MemoryType DEF Call
  <2> QED
    BY <1>10, <2>1, <2>2 DEF TypeOK, Call, disk, history, HasJob
<1>11. ASSUME Answered(w) PROVE TypeOK'
  <2>1. me[w].job \in Approval
    BY <1>0, <1>11 DEF Answered, HasJob
  <2> DEFINE mine == AfterAnswer(w, wire[me[w].job])
             again == [At(w, "look") EXCEPT !.retries = @ + 1]
  <2>2. At(w, "look") \in Memories /\ HasJob(At(w, "look"))
    BY <2>1, GoesOnType
  <2>3. again \in Memories /\ HasJob(again)
    BY <2>2 DEF Memories, HasJob
  <2>4. mine \in Memories /\ HasJob(mine)
    BY <2>1, <2>3, GoesOnType DEF AfterAnswer
  <2>5. me' \in [Worker -> Memories] /\ \A v \in Worker : HasJob(me'[v])
    BY <1>11, <2>4, MemoryType DEF Answered
  <2> QED
    BY <1>11, <2>1, <2>5 DEF TypeOK, Answered, disk, history, HasJob
<1>12. ASSUME AnswerLost(w) PROVE TypeOK'
  BY <1>12, RestType DEF AnswerLost
<1>13. ASSUME UseEnter(w) \/ FailEnter(w) \/ LostEnter(w) PROVE TypeOK'
  BY <1>0, <1>13, EnterType DEF UseEnter, FailEnter, LostEnter, HasJob
<1>14. ASSUME UseLeave(w) \/ FailLeave(w) \/ LostLeave(w) PROVE TypeOK'
  <2>1. me[w].job \in Approval
    BY <1>0, <1>14 DEF UseLeave, FailLeave, LostLeave, HasJob
  <2>2. Outcome(me[w].seen.rec, "used") \in Records /\ Outcome(me[w].seen.rec, "failed") \in Records
    BY <1>0, OutcomeType DEF States
  <2> QED
    BY <1>14, <2>1, <2>2, GoesOnType, LeaveType DEF UseLeave, FailLeave, LostLeave
<1>15. ASSUME Release(w) \/ Unreserve(w) PROVE TypeOK'
  <2>1. me[w].job \in Approval
    BY <1>0, <1>15 DEF Release, Unreserve, HasJob
  <2>2. me' \in [Worker -> Memories] /\ \A v \in Worker : HasJob(me'[v])
    BY <1>15, <2>1, GoesOnType, MemoryType DEF Release, Unreserve
  <2>3. held' \in [Approval -> Int]
    BY <1>15, BoundAssumption DEF TypeOK, Release, Unreserve, Unreserved
  <2> QED
    BY <1>15, <2>2, <2>3 DEF TypeOK, Release, Unreserve, provider, history, HasJob
<1> QED
  BY <1>1, <1>2, <1>3, <1>4, <1>5, <1>6, <1>7, <1>8, <1>9, <1>10, <1>11, <1>12, <1>13, <1>14, <1>15 DEF Send

\* Every step of an approval, a revocation or a status keeps every type.
LEMMA PersonType ==
  ASSUME TypeOK, NEW w \in Worker, Person(w)
  PROVE  TypeOK'
<1> USE DEF Steps, Holding
<1>0. /\ me[w] \in Memories /\ HasJob(me[w]) /\ draft \in Nat /\ me[w].ver \in Nat
      /\ me[w].seen.rec \in Records
  BY DEF TypeOK, Memories, Seen
<1>1. ASSUME ShowLeave(w) PROVE TypeOK'
  <2>1. me[w].job \in Approval
    BY <1>0, <1>1 DEF ShowLeave, HasJob
  <2> QED
    BY <1>0, <1>1, <2>1, GoesOnType, LeaveType DEF ShowLeave
<1>2. ASSUME ChallengeEnter(w) \/ VoidEnter(w) \/ ApproveEnter(w) PROVE TypeOK'
  BY <1>0, <1>2, EnterType DEF ChallengeEnter, VoidEnter, ApproveEnter, HasJob
<1>3. ASSUME ChallengeLeave(w) PROVE TypeOK'
  <2>1. me[w].job \in Approval
    BY <1>0, <1>3 DEF ChallengeLeave, HasJob
  <2>2. [me[w].seen.rec EXCEPT !.code = TRUE] \in Records
    BY <1>0, SetCode
  <2> QED
    BY <1>0, <1>3, <2>1, <2>2, GoesOnType, LeaveType DEF ChallengeLeave
<1>4. ASSUME AnswerLeave(w) PROVE TypeOK'
  <2>1. me[w].job \in Approval
    BY <1>0, <1>4 DEF AnswerLeave, HasJob
  <2>2. [At(w, "approve") EXCEPT !.ver = draft] \in Memories /\ HasJob([At(w, "approve") EXCEPT !.ver = draft])
    BY <1>0, <2>1, GoesOnType, KeepsVersionType
  <2> QED
    BY <1>0, <1>4, <2>1, <2>2, GoesOnType, LeaveType DEF AnswerLeave
<1>5. ASSUME ApproveLeave(w) PROVE TypeOK'
  <2>1. me[w].job \in Approval
    BY <1>0, <1>5 DEF ApproveLeave, HasJob
  <2>2. PICK right \in BOOLEAN : Leave(w, ApproveDecision(me[w].seen.rec, me[w].ver, right), Resting)
    BY <1>5 DEF ApproveLeave
  <2> QED
    BY <1>0, <2>1, <2>2, ApproveDecisionType, GoesOnType, LeaveType
<1>6. ASSUME RevokeLeave(w) \/ StatusLeave(w) PROVE TypeOK'
  <2>1. me[w].job \in Approval
    BY <1>0, <1>6 DEF RevokeLeave, StatusLeave, HasJob
  <2> QED
    BY <1>0, <1>6, <2>1, RevokedType, GoesOnType, LeaveType DEF RevokeLeave, StatusLeave
<1> QED
  BY <1>1, <1>2, <1>3, <1>4, <1>5, <1>6 DEF Person

\* Every step of the sweep after never keeps every type.
LEMMA SweepType ==
  ASSUME TypeOK, NEW w \in Worker, Sweep(w)
  PROVE  TypeOK'
<1> USE DEF Steps, Holding
<1>0. /\ me[w] \in Memories /\ HasJob(me[w]) /\ me[w].seen.rec \in Records
      /\ me[w].ver \in Nat /\ me[w].todo \in SUBSET Approval
  BY DEF TypeOK, Memories, Seen
<1>1. At(w, "sweep") \in Memories /\ HasJob(At(w, "sweep"))
  BY AtType DEF HasJob
<1>2. ASSUME SweepList(w) PROVE TypeOK'
  BY <1>1, <1>2, KeepsTodoType, OnlyType DEF SweepList
<1>3. ASSUME NEW a \in Approval, SweepEnter(w, a) PROVE TypeOK'
  BY <1>3, EnterType DEF SweepEnter
<1>4. ASSUME SweepLeave(w) PROVE TypeOK'
  <2> DEFINE mine == [At(w, "sweep") EXCEPT !.job = "none", !.todo = @ \ {me[w].job}]
  <2>1. me[w].job \in Approval
    BY <1>0, <1>4 DEF SweepLeave, HasJob
  <2>2. mine \in Memories /\ HasJob(mine)
    <3>1. At(w, "sweep").pc = "sweep"
      BY <1>0 DEF At, Memories
    <3> QED
      BY <1>1, <3>1, DoneTodoType
  <2> QED
    BY <1>0, <1>4, <2>1, <2>2, RevokedType, LeaveType DEF SweepLeave
<1>5. ASSUME NEW a \in Approval, SweepMiss(w, a) PROVE TypeOK'
  <2> DEFINE mine == [me[w] EXCEPT !.todo = @ \ {a}]
  <2>1. mine \in Memories /\ HasJob(mine)
    BY <1>0 DEF Memories, HasJob
  <2>2. me' \in [Worker -> Memories] /\ \A v \in Worker : HasJob(me'[v])
    BY <1>5, <2>1, MemoryType DEF SweepMiss
  <2> QED
    BY <1>5, <2>2 DEF TypeOK, SweepMiss, disk, provider, HasJob
<1>6. ASSUME SweepEnd(w) PROVE TypeOK'
  <2>1. me' \in [Worker -> Memories] /\ \A v \in Worker : HasJob(me'[v])
    BY <1>6, RestingType, MemoryType DEF SweepEnd, HasJob
  <2> QED
    BY <1>0, <1>6, <2>1 DEF TypeOK, SweepEnd, disk, provider, HasJob
<1> QED
  BY <1>2, <1>3, <1>4, <1>5, <1>6 DEF Sweep

\* Moving the clock keeps every type.
LEMMA ClockType ==
  ASSUME TypeOK, NEW d \in Int, Clock(d), backs' \in 0..MaxBack
  PROVE  TypeOK'
<1>1. rec' \in [Approval -> Records]
  BY AgedType DEF TypeOK, Clock
<1>2. held' \in [Approval -> Int]
  BY LifetimeAssumption, BoundAssumption DEF TypeOK, Clock, AgedSlot, Unreserved
<1>3. ASSUME NEW s \in Seen PROVE [s EXCEPT !.rec = Aged(@, d)] \in Seen
  BY <1>3, AgedType DEF Seen
<1>4. me' \in [Worker -> Memories] /\ \A w \in Worker : HasJob(me'[w])
  <2>1. ASSUME NEW w \in Worker
        PROVE  [me[w] EXCEPT !.seen.rec = Aged(@, d)] = [me[w] EXCEPT !.seen = [me[w].seen EXCEPT !.rec = Aged(@, d)]]
    BY DEF TypeOK, Memories, Seen
  <2>2. ASSUME NEW w \in Worker
        PROVE  /\ [me[w] EXCEPT !.seen.rec = Aged(@, d)] \in Memories
               /\ HasJob([me[w] EXCEPT !.seen.rec = Aged(@, d)])
    <3>1. [me[w].seen EXCEPT !.rec = Aged(@, d)] \in Seen
      BY <1>3 DEF TypeOK, Memories
    <3> QED
      BY <2>1, <3>1 DEF TypeOK, Memories, HasJob
  <2> QED
    BY <2>2 DEF Clock
<1>5. beat' \in [Worker -> Beats] /\ \A w \in Worker : beat'[w].on => beat'[w].job \in Approval
  <2>1. ASSUME NEW w \in Worker
        PROVE  [beat[w] EXCEPT !.seen.rec = Aged(@, d)] = [beat[w] EXCEPT !.seen = [beat[w].seen EXCEPT !.rec = Aged(@, d)]]
    BY DEF TypeOK, Beats, Seen
  <2>2. ASSUME NEW w \in Worker
        PROVE  /\ [beat[w] EXCEPT !.seen.rec = Aged(@, d)] \in Beats
               /\ [beat[w] EXCEPT !.seen.rec = Aged(@, d)].on = beat[w].on
               /\ [beat[w] EXCEPT !.seen.rec = Aged(@, d)].job = beat[w].job
    <3>1. [beat[w].seen EXCEPT !.rec = Aged(@, d)] \in Seen
      BY <1>3 DEF TypeOK, Beats
    <3> QED
      BY <2>1, <3>1 DEF TypeOK, Beats
  <2> QED
    BY <2>2 DEF Clock, TypeOK
<1> QED
  BY <1>1, <1>2, <1>4, <1>5 DEF TypeOK, Clock, provider, history

\* The first states have their types.
LEMMA InitType == Init => TypeOK
<1> SUFFICES ASSUME Init PROVE TypeOK
  OBVIOUS
<1>1. NoRecord \in Records
  BY DEF NoRecord, Records, States
<1>2. [policy |-> "chat", epoch |-> 0, present |-> TRUE] \in Configs
  BY DEF Configs
<1> QED
  BY <1>1, <1>2, RestingType, BoundAssumption DEF Init, TypeOK, HasJob, Unreserved

\* Every step keeps every type.
LEMMA NextType == TypeOK /\ [Next]_vars => TypeOK'
<1> SUFFICES ASSUME TypeOK, [Next]_vars PROVE TypeOK'
  OBVIOUS
<1>1. ASSUME NEW w \in Worker, Begin(w) PROVE TypeOK'
  BY <1>1, BeginType
<1>2. ASSUME NEW w \in Worker, TimeOut(w) PROVE TypeOK'
  <2>1. me[w].job \in Approval
    BY <1>2 DEF TimeOut, TypeOK, HasJob
  <2> QED
    BY <1>2, <2>1, GoesOnType, OnlyType DEF TimeOut, Steps, Holding
<1>3. ASSUME NEW w \in Worker, EditApply(w) PROVE TypeOK'
  <2>1. me' \in [Worker -> Memories] /\ \A v \in Worker : HasJob(me'[v])
    BY <1>3, RestingType, MemoryType DEF EditApply, HasJob
  <2>2. draft' \in Nat
    BY <1>3 DEF EditApply, Rewritten, TypeOK
  <2> QED
    BY <1>3, <2>1, <2>2 DEF TypeOK, EditApply, disk, history, HasJob
<1>4. ASSUME NEW w \in Worker, Continue(w) PROVE TypeOK'
  BY <1>2, <1>3, <1>4, PrepareType, SendType, PersonType, SweepType DEF Continue
<1>5. ASSUME NEW w \in Worker, BeatEnter(w) PROVE TypeOK'
  <2>1. me[w].job \in Approval
    BY <1>5 DEF BeatEnter, TypeOK, HasJob, Holding
  <2>2. lock' \in [Approval -> {Free, Orphan} \cup Threads]
    BY <1>5, <2>1, AcquireType DEF BeatEnter
  <2>3. [on |-> TRUE, job |-> me[w].job, seen |-> Snapshot(me[w].job, "inspect")] \in Beats
    BY <2>1, SnapshotType DEF Beats
  <2> QED
    BY <1>5, <2>1, <2>2, <2>3 DEF TypeOK, BeatEnter, provider, history, HasJob
<1>6. ASSUME NEW w \in Worker, BeatLeave(w) PROVE TypeOK'
  <2>1. beat[w].job \in Approval /\ beat[w].seen.rec \in Records
    BY <1>6 DEF BeatLeave, TypeOK, Beats, Seen
  <2>2. rec' \in [Approval -> Records] /\ lock' \in [Approval -> {Free, Orphan} \cup Threads]
    BY <1>6, <2>1, RenewType, PutType DEF BeatLeave
  <2> QED
    BY <1>6, <2>2, RestingType DEF TypeOK, BeatLeave, provider, history, HasJob
<1>7. ASSUME NEW w \in Worker, Crash(w) PROVE TypeOK'
  <2>1. me' \in [Worker -> Memories] /\ \A v \in Worker : HasJob(me'[v])
    BY <1>7, RestingType, MemoryType DEF Crash, HasJob
  <2> QED
    BY <1>7, <2>1, RestingType DEF TypeOK, Crash, provider, history, HasJob
<1>8. ASSUME NEW a \in Approval, ProviderAccepts(a) \/ ProviderRefuses(a) PROVE TypeOK'
  BY <1>8 DEF TypeOK, ProviderAccepts, ProviderRefuses, disk, history, HasJob
<1>9. ASSUME NEW a \in Approval, TakeOver(a) PROVE TypeOK'
  BY <1>9 DEF TypeOK, TakeOver, provider, history, HasJob
<1>10. ASSUME WebEdit PROVE TypeOK'
  BY <1>10 DEF TypeOK, WebEdit, Rewritten, disk, history, HasJob
<1>11. ASSUME RemoveOwner PROVE TypeOK'
  <2>1. config' \in Configs
    BY <1>11 DEF TypeOK, RemoveOwner, Configs
  <2> QED
    BY <1>11, <2>1 DEF TypeOK, RemoveOwner, disk, provider, history, HasJob
<1>12. ASSUME Tick \/ StepBack PROVE TypeOK'
  <2>1. backs' \in 0..MaxBack
    BY <1>12, BoundAssumption DEF TypeOK, Tick, StepBack
  <2> QED
    BY <1>12, <2>1, ClockType DEF Tick, StepBack
<1>13. ASSUME UNCHANGED vars PROVE TypeOK'
  BY <1>13 DEF TypeOK, vars, disk, provider, history, HasJob
<1> QED
  BY <1>1, <1>4, <1>5, <1>6, <1>7, <1>8, <1>9, <1>10, <1>11, <1>12, <1>13 DEF Next

\* Every variable of the gate keeps its type, whatever the processes do: the
\* record, the marker, the ledger and each call's memory (approvals.ts, send.ts).
THEOREM TypeCorrect == Spec => []TypeOK
BY InitType, NextType, PTL DEF Spec

-----------------------------------------------------------------------------
(* Single use.  Most steps are quiet: they leave the marker, the provider and *)
(* the ledger alone, and move one call to a step that knows no more.          *)

\* A call in memory m may go on to memory n without a word from the provider.
Quieter(m, n) ==
  /\ n.pc \in Holding => m.pc \in Holding /\ n.job = m.job
  /\ n.pc \in Asking => m.pc \in Asking
  /\ n.pc \in NotSent => m.pc \in Asking \cup NotSent
  /\ n.pc \in Accepted => m.pc \in Accepted
  /\ n.pc \in Slotted => m.pc \in Slotted
  /\ n.pc # "wait"

\* A record that is neither used nor failed says nothing that could be false.
LEMMA TruthFree ==
  ASSUME NEW r, NEW a, r.state \notin {"used", "failed"}
  PROVE  Truth(r, a)
BY DEF Truth

\* A record that says no more than a true one is true.
LEMMA TruthSame ==
  ASSUME NEW r, NEW q, NEW a, Truth(r, a), q.state = r.state \/ q.state \notin {"used", "failed"}
  PROVE  Truth(q, a)
BY DEF Truth

\* How the steps of a claimant divide.
LEMMA StepSets ==
  /\ Holding = Asking \cup NotSent \cup Accepted \cup {"wait"}
  /\ Asking \cap NotSent = {} /\ Accepted \cap NotSent = {} /\ "wait" \notin NotSent
  /\ Asking \cap Accepted = {} /\ "wait" \notin Asking /\ "wait" \notin Accepted
  /\ Slotted \subseteq Holding /\ Slotted \cap NotSent = {}
BY DEF Holding, Asking, NotSent, Accepted, Slotted

\* A quiet step, whatever it does to the lease timers.
LEMMA QuietMove ==
  ASSUME TypeOK, SingleUseInv, NEW w \in Worker, NEW mine \in Memories,
         me' = [me EXCEPT ![w] = mine], UNCHANGED <<claim, held, wire, accepted, backs>>,
         Quieter(me[w], mine),
         \A v \in Worker : beat'[v].on => beat'[v].job \in Approval /\ Truth(beat'[v].seen.rec, beat'[v].job),
         mine.job \in Approval => Truth(mine.seen.rec, mine.job),
         \A a \in Approval : Truth(rec'[a], a)
  PROVE  SingleUseInv'
<1>1. \A a \in Approval : Dead(a) => Dead(a)'
  BY StepSets DEF Dead, Quieter, TypeOK
<1>2. ASSUME NEW r, NEW a \in Approval, Truth(r, a)
      PROVE  (r.state = "used" => accepted'[a] = 1) /\ (r.state = "failed" => Dead(a)')
  BY <1>1, <1>2 DEF Truth
<1>3. ASSUME NEW a \in Approval PROVE ApprovalOK(a)'
  <2>1. Truth(rec[a], a)'
    BY <1>2 DEF Truth
  <2> QED
    BY <2>1 DEF SingleUseInv, ApprovalOK, Unreserved
<1>4. ASSUME NEW v \in Worker PROVE WorkerOK(v)'
  <2>1. beat'[v].on => Truth(beat[v].seen.rec, beat[v].job)'
    BY <1>2 DEF Truth
  <2>2. CASE v = w
    <3>1. me'[v] = mine
      BY <2>2 DEF TypeOK
    <3>2. me'[v].job \in Approval => Truth(me[v].seen.rec, me[v].job)'
      BY <1>2, <3>1 DEF Truth
    <3>3. mine.pc \in Asking \cup NotSent \cup Accepted \cup Slotted => mine.pc \in Holding /\ mine.job = me[w].job
      BY StepSets DEF Quieter
    <3>4. WorkerOK(w)
      BY DEF SingleUseInv
    <3> QED
      BY <2>1, <2>2, <3>1, <3>2, <3>3, <3>4 DEF WorkerOK, Quieter, Unreserved
  <2>3. CASE v # w
    <3>1. me'[v] = me[v]
      BY <2>3 DEF TypeOK
    <3>2. me'[v].job \in Approval => Truth(me[v].seen.rec, me[v].job)'
      BY <1>2, <3>1 DEF Truth, SingleUseInv, WorkerOK
    <3> QED
      BY <2>1, <3>1, <3>2 DEF SingleUseInv, WorkerOK, Unreserved
  <2> QED
    BY <2>2, <2>3
<1> QED
  BY <1>3, <1>4 DEF SingleUseInv

\* A quiet step that leaves the lease timers alone.
LEMMA QuietStep ==
  ASSUME TypeOK, SingleUseInv, NEW w \in Worker, NEW mine \in Memories,
         me' = [me EXCEPT ![w] = mine], UNCHANGED <<claim, held, wire, accepted, beat, backs>>,
         Quieter(me[w], mine),
         mine.job \in Approval => Truth(mine.seen.rec, mine.job),
         \A a \in Approval : Truth(rec'[a], a)
  PROVE  SingleUseInv'
<1>1. \A v \in Worker : beat'[v].on => beat'[v].job \in Approval /\ Truth(beat'[v].seen.rec, beat'[v].job)
  BY DEF SingleUseInv, WorkerOK, TypeOK
<1> QED
  BY <1>1, QuietMove

\* A step that moves no call: the marker, the ledger and the provider stay too.
LEMMA SameCalls ==
  ASSUME TypeOK, SingleUseInv, UNCHANGED <<me, claim, held, wire, accepted, backs>>,
         \A v \in Worker : beat'[v].on => beat'[v].job \in Approval /\ Truth(beat'[v].seen.rec, beat'[v].job),
         \A a \in Approval : Truth(rec'[a], a)
  PROVE  SingleUseInv'
<1>1. \A a \in Approval : Dead(a) => Dead(a)'
  BY DEF Dead
<1>2. ASSUME NEW r, NEW a \in Approval, Truth(r, a)
      PROVE  (r.state = "used" => accepted'[a] = 1) /\ (r.state = "failed" => Dead(a)')
  BY <1>1, <1>2 DEF Truth
<1>3. ASSUME NEW a \in Approval PROVE ApprovalOK(a)'
  <2>1. Truth(rec[a], a)'
    BY <1>2 DEF Truth
  <2> QED
    BY <2>1 DEF SingleUseInv, ApprovalOK, Unreserved
<1>4. ASSUME NEW v \in Worker PROVE WorkerOK(v)'
  <2>1. beat'[v].on => Truth(beat[v].seen.rec, beat[v].job)'
    BY <1>2 DEF Truth
  <2>2. me'[v].job \in Approval => Truth(me[v].seen.rec, me[v].job)'
    BY <1>2 DEF Truth, SingleUseInv, WorkerOK
  <2> QED
    BY <2>1, <2>2 DEF SingleUseInv, WorkerOK, Unreserved
<1> QED
  BY <1>3, <1>4 DEF SingleUseInv

\* What is not written stays true.
LEMMA TruthOnDisk ==
  ASSUME TypeOK, SingleUseInv, rec' = rec
  PROVE  \A a \in Approval : Truth(rec'[a], a)
BY DEF SingleUseInv, ApprovalOK

\* A process's own quiet step keeps the invariant.
LEMMA OnlyQuiet ==
  ASSUME TypeOK, SingleUseInv, NEW w \in Worker, NEW mine \in Memories, Only(w, mine),
         Quieter(me[w], mine), mine.seen.rec.state \notin {"used", "failed"}
  PROVE  SingleUseInv'
BY QuietStep, TruthOnDisk, TruthFree DEF Only, disk, provider

\* Reading a record under its lock is quiet.
LEMMA EnterQuiet ==
  ASSUME TypeOK, SingleUseInv, NEW w \in Worker, NEW a \in Approval, NEW step \in Steps, NEW action,
         Enter(w, a, step, action), Quieter(me[w], [me[w] EXCEPT !.pc = step, !.job = a])
  PROVE  SingleUseInv'
<1> DEFINE mine == [me[w] EXCEPT !.pc = step, !.job = a, !.seen = Snapshot(a, action)]
<1>1. mine \in Memories /\ mine.job = a /\ mine.pc = step /\ mine.seen = Snapshot(a, action)
  BY SnapshotType DEF TypeOK, Memories
<1>2. Truth(mine.seen.rec, mine.job)
  BY <1>1, SnapshotType, TruthSame DEF SingleUseInv, ApprovalOK
<1>3. Quieter(me[w], mine)
  BY <1>1 DEF Quieter, TypeOK, Memories
<1>4. me' = [me EXCEPT ![w] = mine]
  BY DEF Enter
<1> HIDE DEF mine
<1> QED
  BY <1>1, <1>2, <1>3, <1>4, QuietStep, TruthOnDisk DEF Enter, provider

\* Writing a true record is quiet.
LEMMA LeaveQuiet ==
  ASSUME TypeOK, SingleUseInv, NEW w \in Worker, NEW next \in Records, NEW mine \in Memories,
         me[w].job \in Approval, Leave(w, next, mine), Quieter(me[w], mine),
         mine.seen = Blank, Truth(next, me[w].job)
  PROVE  SingleUseInv'
<1>1. \A a \in Approval : Truth(rec'[a], a)
  BY DEF Leave, Put, SingleUseInv, ApprovalOK, TypeOK
<1>2. mine.job \in Approval => Truth(mine.seen.rec, mine.job)
  BY BlankType, TruthFree
<1> QED
  BY <1>1, <1>2, QuietStep DEF Leave, provider

\* Leaving the claimant's steps is quiet.
LEMMA AwayQuiet ==
  ASSUME NEW m, NEW n, n.pc \notin Holding
  PROVE  Quieter(m, n)
BY StepSets DEF Quieter

\* Giving a call up is quiet.
LEMMA RestingQuiet ==
  ASSUME NEW m
  PROVE  Quieter(m, Resting) /\ Resting.seen = Blank
BY AwayQuiet, RestingType DEF Holding, Resting

\* A memory that goes to a step of the same kind with the same job.
LEMMA AtQuiet ==
  ASSUME TypeOK, NEW w \in Worker, NEW p \in Steps,
         \/ p \notin Holding
         \/ me[w].pc \in Asking /\ p \in Asking \cup NotSent /\ (p \in Slotted => me[w].pc \in Slotted)
         \/ me[w].pc \in NotSent /\ p \in NotSent
         \/ me[w].pc \in Accepted /\ p \in Accepted
  PROVE  Quieter(me[w], At(w, p)) /\ At(w, p).seen = Blank
<1>1. At(w, p).pc = p /\ At(w, p).job = me[w].job /\ At(w, p).seen = Blank
  BY AtType
<1> QED
  BY <1>1, StepSets DEF Quieter, Slotted

\* What a call has read of its approval is true.
LEMMA SeenTruth ==
  ASSUME TypeOK, SingleUseInv, NEW w \in Worker, me[w].job \in Approval
  PROVE  Truth(me[w].seen.rec, me[w].job)
BY DEF SingleUseInv, WorkerOK

\* Every call that begins keeps the invariant.
LEMMA BeginQuiet ==
  ASSUME TypeOK, SingleUseInv, NEW w \in Worker, Begin(w)
  PROVE  SingleUseInv'
<1> USE DEF Steps, Holding
<1>1. ASSUME NEW a \in Approval, PrepareStart(w, a) PROVE SingleUseInv'
  <2> DEFINE r == [NoRecord EXCEPT !.route = config.policy, !.asked = config.epoch]
             mine == [Resting EXCEPT !.pc = "resolved", !.job = a, !.seen.rec = r]
  <2>1. config.policy \in {"chat", "confirm"} /\ config.epoch \in Nat
    BY <1>1 DEF PrepareStart, TypeOK, Configs
  <2>2. NoRecord \in Records /\ NoRecord.state = "none"
    BY DEF NoRecord, Records, States
  <2> DEFINE r1 == [NoRecord EXCEPT !.route = config.policy]
  <2>3. r1 \in Records /\ r1.state = "none" /\ r = [r1 EXCEPT !.asked = config.epoch]
    BY <2>1, <2>2 DEF Records
  <2> HIDE DEF r1
  <2>4. r \in Records /\ r.state = "none"
    BY <2>1, <2>3 DEF Records
  <2> HIDE DEF r
  <2>5. mine \in Memories /\ mine.pc = "resolved" /\ mine.seen.rec = r
    BY <2>4, RestingType DEF Memories, Seen
  <2>6. Only(w, mine)
    BY <1>1 DEF PrepareStart, r
  <2> HIDE DEF mine
  <2> QED
    BY <2>4, <2>5, <2>6, AwayQuiet, OnlyQuiet
<1>2. ASSUME NEW a \in Approval, NEW step \in Steps \ Holding, NEW action, Enter(w, a, step, action)
      PROVE  SingleUseInv'
  <2> DEFINE n == [me[w] EXCEPT !.pc = step, !.job = a]
  <2>a. n.pc = step
    BY DEF TypeOK, Memories
  <2> HIDE DEF n
  <2>b. n.pc \notin Holding
    BY <2>a
  <2>c. Quieter(me[w], n)
    BY ONLY <2>b, AwayQuiet
  <2>1. Quieter(me[w], [me[w] EXCEPT !.pc = step, !.job = a])
    BY <2>c DEF n
  <2> QED
    BY <1>2, <2>1, EnterQuiet
<1>3. ASSUME NEW a \in Approval,
             SendStart(w, a) \/ ShowEnter(w, a) \/ AnswerEnter(w, a) \/ RevokeEnter(w, a) \/ StatusEnter(w, a)
      PROVE  SingleUseInv'
  BY <1>2, <1>3 DEF SendStart, ShowEnter, AnswerEnter, RevokeEnter, StatusEnter
<1>4. ASSUME NEW p \in Policies, SetPolicy(w, p) PROVE SingleUseInv'
  <2> DEFINE listing == [Resting EXCEPT !.pc = "list", !.ver = config.epoch + 1]
             mine == IF p = "never" THEN listing ELSE Resting
  <2>1. config.epoch + 1 \in Nat
    BY DEF TypeOK, Configs
  <2>2. [Resting EXCEPT !.pc = "list"] \in Memories
    BY RestingType DEF Memories
  <2>3. listing = [[Resting EXCEPT !.pc = "list"] EXCEPT !.ver = config.epoch + 1]
    BY RestingType DEF Memories
  <2>4. listing \in Memories
    BY <2>1, <2>2, <2>3 DEF Memories
  <2>5. listing.pc = "list" /\ listing.job = "none" /\ listing.seen = Blank
    <3>1. Resting.job = "none" /\ Resting.seen = Blank
      BY DEF Resting
    <3> QED
      BY <3>1, RestingType DEF Memories
  <2> HIDE DEF listing
  <2>6. /\ mine \in Memories /\ mine.pc \notin Holding
        /\ mine.job \in Approval => Truth(mine.seen.rec, mine.job)
    BY <2>4, <2>5, RestingType, RestingQuiet, BlankType, TruthFree
  <2>7. me' = [me EXCEPT ![w] = mine]
    BY <1>4 DEF SetPolicy, listing
  <2> HIDE DEF mine
  <2> QED
    BY <1>4, <2>6, <2>7, AwayQuiet, QuietStep, TruthOnDisk DEF SetPolicy, disk, provider
<1>5. ASSUME EditCheck(w) PROVE SingleUseInv'
  <2> DEFINE mine == [Resting EXCEPT !.pc = "edit"]
  <2>1. mine \in Memories /\ mine.pc = "edit" /\ mine.seen = Blank
    BY RestingType, RestingQuiet DEF Memories
  <2> QED
    BY <1>5, <2>1, AwayQuiet, OnlyQuiet, BlankType DEF EditCheck
<1> QED
  BY <1>1, <1>3, <1>4, <1>5 DEF Begin

\* Every step of a preparation keeps the invariant.
LEMMA PrepareQuiet ==
  ASSUME TypeOK, SingleUseInv, NEW w \in Worker, Prepare(w), TypeOK'
  PROVE  SingleUseInv'
<1>0. me[w] \in Memories /\ me[w].seen.rec \in Records
  BY DEF TypeOK, Memories, Seen
<1>1. ASSUME NEW mine, me' = [me EXCEPT ![w] = mine], mine.pc \in Steps \ Holding,
             UNCHANGED <<claim, held, wire, accepted, beat, backs>>,
             mine.job = me[w].job, mine.seen.rec.state = me[w].seen.rec.state, rec' = rec
      PROVE  SingleUseInv'
  <2>1. mine \in Memories
    BY <1>1 DEF TypeOK
  <2>2. mine.job \in Approval => Truth(mine.seen.rec, mine.job)
    BY <1>1, SeenTruth, TruthSame
  <2> QED
    BY <1>1, <2>1, <2>2, AwayQuiet, TruthOnDisk, QuietStep
<1>2. ASSUME Only(w, Resting) PROVE SingleUseInv'
  BY <1>2, RestingType, RestingQuiet, BlankType, OnlyQuiet
<1>3. ASSUME PrepareRead(w) PROVE SingleUseInv'
  <2>1. ASSUME NEW next \in {"bound", "fit"},
               Only(w, [me[w] EXCEPT !.pc = next, !.seen.rec.epoch = config.epoch, !.seen.rec.ver = draft])
        PROVE  SingleUseInv'
    <3> DEFINE mine == [me[w] EXCEPT !.pc = next, !.seen.rec.epoch = config.epoch, !.seen.rec.ver = draft]
    <3>1. mine.pc = next /\ mine.job = me[w].job /\ mine.seen.rec.state = me[w].seen.rec.state
      BY <1>0 DEF Memories, Seen, Records
    <3> HIDE DEF mine
    <3> QED
      BY <1>1, <2>1, <3>1 DEF Only, disk, provider, Steps, Holding, mine
  <2> QED
    BY <1>2, <1>3, <2>1 DEF PrepareRead
<1>4. ASSUME PrepareFit(w) PROVE SingleUseInv'
  <2>1. ASSUME Only(w, [me[w] EXCEPT !.pc = "relabel"]) PROVE SingleUseInv'
    <3> DEFINE mine == [me[w] EXCEPT !.pc = "relabel"]
    <3>1. mine.pc = "relabel" /\ mine.job = me[w].job /\ mine.seen = me[w].seen
      BY <1>0 DEF Memories
    <3> QED
      BY <1>1, <2>1, <3>1 DEF Only, disk, provider, Steps, Holding
  <2> QED
    BY <1>2, <1>4, <2>1 DEF PrepareFit
<1>5. ASSUME PrepareRelabel(w) PROVE SingleUseInv'
  <2> DEFINE mine == [me[w] EXCEPT !.pc = "reread"]
  <2>1. mine.pc = "reread" /\ mine.job = me[w].job /\ mine.seen = me[w].seen
    BY <1>0 DEF Memories
  <2> QED
    BY <1>1, <1>5, <2>1 DEF PrepareRelabel, disk, Steps, Holding
<1>6. ASSUME PrepareReread(w) PROVE SingleUseInv'
  <2>1. ASSUME Only(w, [me[w] EXCEPT !.pc = "bound", !.seen.rec.ver = draft]) PROVE SingleUseInv'
    <3> DEFINE mine == [me[w] EXCEPT !.pc = "bound", !.seen.rec.ver = draft]
    <3>1. mine.pc = "bound" /\ mine.job = me[w].job /\ mine.seen.rec.state = me[w].seen.rec.state
      BY <1>0 DEF Memories, Seen, Records
    <3> HIDE DEF mine
    <3> QED
      BY <1>1, <2>1, <3>1 DEF Only, disk, provider, Steps, Holding, mine
  <2> QED
    BY <1>2, <1>6, <2>1 DEF PrepareReread
<1>7. ASSUME PrepareCreate(w) PROVE SingleUseInv'
  <2>1. me[w].job \in Approval
    BY <1>7 DEF PrepareCreate, TypeOK, HasJob
  <2>2. PICK route \in {me[w].seen.rec.route, "confirm"} :
          rec' = [rec EXCEPT ![me[w].job] = [me[w].seen.rec EXCEPT !.state = "pending", !.route = route]]
    BY <1>7 DEF PrepareCreate
  <2>3. [me[w].seen.rec EXCEPT !.state = "pending", !.route = route].state = "pending"
    BY <1>0 DEF Records
  <2>4. \A a \in Approval : Truth(rec'[a], a)
    BY <2>1, <2>2, <2>3, TruthFree DEF SingleUseInv, ApprovalOK, TypeOK
  <2> QED
    BY <1>7, <2>4, RestingType, RestingQuiet, BlankType, TruthFree, QuietStep DEF PrepareCreate, provider
<1> QED
  BY <1>3, <1>4, <1>5, <1>6, <1>7 DEF Prepare

\* Entering a transition within a call that holds its claim, or outside one.
LEMMA EnterOwnQuiet ==
  ASSUME TypeOK, SingleUseInv, NEW w \in Worker, NEW step \in Steps, NEW action,
         me[w].job \in Approval, Enter(w, me[w].job, step, action),
         \/ step \notin Holding
         \/ me[w].pc \in Asking /\ step \in Asking /\ me[w].pc \in Slotted
         \/ me[w].pc \in NotSent /\ step \in NotSent
         \/ me[w].pc \in Accepted /\ step \in Accepted
  PROVE  SingleUseInv'
<1> DEFINE n == [me[w] EXCEPT !.pc = step, !.job = me[w].job]
<1>1. n.pc = step /\ n.job = me[w].job
  BY DEF TypeOK, Memories
<1> HIDE DEF n
<1>2. Quieter(me[w], n)
  BY <1>1, StepSets DEF Quieter, Slotted
<1> QED
  BY <1>2, EnterQuiet DEF n

\* Leaving a transition with a record that says no more than the one read.
LEMMA LeaveOwnQuiet ==
  ASSUME TypeOK, SingleUseInv, NEW w \in Worker, NEW next \in Records, NEW mine \in Memories,
         me[w].job \in Approval, Leave(w, next, mine), Quieter(me[w], mine), mine.seen = Blank,
         next.state = me[w].seen.rec.state \/ next.state \notin {"used", "failed"}
  PROVE  SingleUseInv'
BY SeenTruth, TruthSame, LeaveQuiet

\* The one claimant of an approval it will not send makes it dead.
LEMMA NotSentDead ==
  ASSUME TypeOK, SingleUseInv, NEW w \in Worker, me[w].pc \in NotSent, me[w].job \in Approval
  PROVE  Dead(me[w].job)
BY StepSets, WorkerAssumption DEF SingleUseInv, WorkerOK, Dead

\* The send's steps on the record keep the invariant.
LEMMA SendQuiet ==
  ASSUME TypeOK, SingleUseInv, NEW w \in Worker, Send(w),
         ~Mark(w), ~Reserve(w), ~Call(w), ~Answered(w), ~Release(w), ~Unreserve(w)
  PROVE  SingleUseInv'
<1>0. /\ me[w] \in Memories /\ HasJob(me[w]) /\ draft \in Nat /\ me[w].ver \in Nat
      /\ me[w].seen.rec \in Records /\ me[w].seen.live \in Configs
  BY DEF TypeOK, Memories, Seen
<1>1. ASSUME Inspected(w) PROVE SingleUseInv'
  <2>1. me[w].job \in Approval
    BY <1>0, <1>1 DEF Inspected, HasJob
  <2>2. "read" \in Steps /\ "read" \notin Holding
    BY DEF Steps, Holding
  <2> QED
    BY <1>0, <1>1, <2>1, <2>2, GoesOnType, AtQuiet, RestingQuiet, LeaveOwnQuiet DEF Inspected
<1>2. ASSUME ReadDraft(w) PROVE SingleUseInv'
  <2>1. me[w].job \in Approval
    BY <1>0, <1>2 DEF ReadDraft, HasJob
  <2>2. "claim" \in Steps /\ "claim" \notin Holding
    BY DEF Steps, Holding
  <2> DEFINE mine == [At(w, "claim") EXCEPT !.ver = draft]
  <2>3. mine \in Memories /\ mine.pc = "claim" /\ mine.seen = Blank
    BY <1>0, <2>2, AtType DEF Memories
  <2>4. CASE Only(w, mine)
    BY <2>2, <2>3, <2>4, AwayQuiet, BlankType, OnlyQuiet
  <2>5. CASE Only(w, Resting)
    BY <2>5, RestingType, RestingQuiet, BlankType, OnlyQuiet
  <2> QED
    BY <1>2, <2>4, <2>5 DEF ReadDraft
<1>3. ASSUME ClaimEnter(w) PROVE SingleUseInv'
  <2>1. me[w].job \in Approval /\ "claiming" \in Steps /\ "claiming" \notin Holding
    BY <1>0, <1>3 DEF ClaimEnter, HasJob, Steps, Holding
  <2> QED
    BY <1>3, <2>1, EnterOwnQuiet DEF ClaimEnter
<1>4. ASSUME ClaimLeave(w) PROVE SingleUseInv'
  <2> DEFINE r == me[w].seen.rec
             next(agrees) == ClaimDecision(r, me[w].seen.live, me[w].ver, agrees)
             mine == [At(w, "mark") EXCEPT !.ver = r.ver]
  <2>0. PICK agrees \in BOOLEAN : Leave(w, next(agrees), mine) \/ Leave(w, next(agrees), Resting)
    BY <1>4 DEF ClaimLeave
  <2>1. next(agrees) \in Records /\ next(agrees).state \in {r.state, "revoked", "sending"}
    BY <1>0, ClaimDecisionType
  <2>2. me[w].job \in Approval /\ "mark" \in Steps /\ "mark" \notin Holding
    BY <1>0, <1>4 DEF ClaimLeave, HasJob, Steps, Holding
  <2>3. mine \in Memories /\ mine.pc = "mark" /\ mine.seen = Blank
    BY <1>0, <2>2, AtType DEF Memories, Records
  <2>4. Quieter(me[w], mine)
    BY <2>2, <2>3, AwayQuiet
  <2> HIDE DEF next, mine
  <2> QED
    BY <2>0, <2>1, <2>2, <2>3, <2>4, RestingType, RestingQuiet, LeaveOwnQuiet
<1>5. ASSUME LastLook(w) PROVE SingleUseInv'
  <2>1. /\ me[w].job \in Approval /\ "fence" \in Steps /\ "release" \in Steps
        /\ me[w].pc \in Asking /\ me[w].pc \in Slotted /\ "fence" \in Asking /\ "release" \in NotSent
    BY <1>0, <1>5 DEF LastLook, HasJob, Steps, Holding, Asking, NotSent, Slotted
  <2> QED
    BY <1>5, <2>1, AtType, AtQuiet, StepSets, BlankType, OnlyQuiet DEF LastLook
<1>6. ASSUME FenceEnter(w) PROVE SingleUseInv'
  <2>1. /\ me[w].job \in Approval /\ "fencing" \in Steps
        /\ me[w].pc \in Asking /\ me[w].pc \in Slotted /\ "fencing" \in Asking
    BY <1>0, <1>6 DEF FenceEnter, HasJob, Steps, Holding, Asking, Slotted
  <2> QED
    BY <1>6, <2>1, EnterOwnQuiet DEF FenceEnter
<1>7. ASSUME FenceLeave(w) PROVE SingleUseInv'
  <2>1. /\ me[w].job \in Approval /\ "call" \in Steps /\ "lost" \in Steps
        /\ me[w].pc \in Asking /\ me[w].pc \in Slotted /\ "call" \in Asking /\ "lost" \in NotSent
    BY <1>0, <1>7 DEF FenceLeave, HasJob, Steps, Holding, Asking, NotSent, Slotted
  <2>2. /\ At(w, "call") \in Memories /\ Quieter(me[w], At(w, "call")) /\ At(w, "call").seen = Blank
        /\ At(w, "lost") \in Memories /\ Quieter(me[w], At(w, "lost")) /\ At(w, "lost").seen = Blank
    BY <2>1, AtType, AtQuiet, StepSets
  <2>3. Leave(w, Renew(me[w].seen.rec), At(w, "call")) \/ Leave(w, Renew(me[w].seen.rec), At(w, "lost"))
    BY <1>7 DEF FenceLeave
  <2> QED
    BY <1>0, <2>1, <2>2, <2>3, RenewType, LeaveOwnQuiet
<1>8. ASSUME AnswerLost(w) PROVE SingleUseInv'
  BY <1>8, RestingType, RestingQuiet, BlankType, OnlyQuiet DEF AnswerLost
<1>9. ASSUME UseEnter(w) \/ FailEnter(w) \/ LostEnter(w) PROVE SingleUseInv'
  <2>1. /\ me[w].job \in Approval /\ "using" \in Steps /\ "failing" \in Steps /\ "losing" \in Steps
        /\ "using" \in Accepted /\ "failing" \in NotSent /\ "losing" \in NotSent
    BY <1>0, <1>9 DEF UseEnter, FailEnter, LostEnter, HasJob, Steps, Holding, NotSent, Accepted
  <2>2. ASSUME UseEnter(w) PROVE me[w].pc \in Accepted
    BY <2>2 DEF UseEnter, Accepted
  <2>3. ASSUME FailEnter(w) \/ LostEnter(w) PROVE me[w].pc \in NotSent
    BY <2>3 DEF FailEnter, LostEnter, NotSent
  <2> QED
    BY <1>9, <2>1, <2>2, <2>3, EnterOwnQuiet DEF UseEnter, FailEnter, LostEnter
<1>10. ASSUME UseLeave(w) PROVE SingleUseInv'
  <2>1. me[w].job \in Approval /\ me[w].pc \in Accepted
    BY <1>0, <1>10 DEF UseLeave, HasJob, Accepted
  <2>2. accepted[me[w].job] = 1
    BY <2>1 DEF SingleUseInv, WorkerOK
  <2>3. Outcome(me[w].seen.rec, "used") \in Records /\ Outcome(me[w].seen.rec, "used").state \in {me[w].seen.rec.state, "used"}
    BY <1>0, OutcomeType DEF States
  <2>4. Truth(Outcome(me[w].seen.rec, "used"), me[w].job)
    BY <2>1, <2>2, <2>3, SeenTruth DEF Truth
  <2> QED
    BY <1>10, <2>1, <2>3, <2>4, RestingType, RestingQuiet, LeaveQuiet DEF UseLeave
<1>11. ASSUME FailLeave(w) \/ LostLeave(w) PROVE SingleUseInv'
  <2>1. me[w].job \in Approval /\ me[w].pc \in NotSent /\ "unreserve" \in NotSent /\ "unreserve" \in Steps
    BY <1>0, <1>11 DEF FailLeave, LostLeave, HasJob, NotSent, Steps, Holding
  <2>2. Outcome(me[w].seen.rec, "failed") \in Records /\ Outcome(me[w].seen.rec, "failed").state \in {me[w].seen.rec.state, "failed"}
    BY <1>0, OutcomeType DEF States
  <2>3. Truth(Outcome(me[w].seen.rec, "failed"), me[w].job)
    BY <2>1, <2>2, SeenTruth, NotSentDead DEF Truth
  <2>4. At(w, "unreserve") \in Memories /\ Quieter(me[w], At(w, "unreserve")) /\ At(w, "unreserve").seen = Blank
    BY <2>1, AtType, AtQuiet
  <2> QED
    BY <1>11, <2>1, <2>2, <2>3, <2>4, RestingType, RestingQuiet, LeaveQuiet DEF FailLeave, LostLeave
<1> QED
  BY <1>1, <1>2, <1>3, <1>4, <1>5, <1>6, <1>7, <1>8, <1>9, <1>10, <1>11 DEF Send

\* Every step of an approval, a revocation or a status keeps the invariant.
LEMMA PersonQuiet ==
  ASSUME TypeOK, SingleUseInv, NEW w \in Worker, Person(w)
  PROVE  SingleUseInv'
<1>0. /\ me[w] \in Memories /\ HasJob(me[w]) /\ draft \in Nat /\ me[w].ver \in Nat
      /\ me[w].seen.rec \in Records
  BY DEF TypeOK, Memories, Seen
<1>1. me[w].job \in Approval
  BY <1>0 DEF Person, ShowLeave, ChallengeEnter, ChallengeLeave, VoidEnter, AnswerLeave, ApproveEnter,
              ApproveLeave, RevokeLeave, StatusLeave, HasJob
<1>2. {"challenge", "void", "approve", "challenging", "revoking", "approving"} \subseteq Steps \ Holding
  BY DEF Steps, Holding
<1>3. ASSUME ShowLeave(w) PROVE SingleUseInv'
  <2>1. \/ Leave(w, me[w].seen.rec, Resting) \/ Leave(w, me[w].seen.rec, At(w, "challenge"))
        \/ Leave(w, me[w].seen.rec, At(w, "void"))
    BY <1>3 DEF ShowLeave
  <2> QED
    BY <1>0, <1>1, <1>2, <2>1, AtType, AtQuiet, RestingType, RestingQuiet, LeaveOwnQuiet
<1>4. ASSUME ChallengeEnter(w) \/ VoidEnter(w) \/ ApproveEnter(w) PROVE SingleUseInv'
  BY <1>1, <1>2, <1>4, EnterOwnQuiet DEF ChallengeEnter, VoidEnter, ApproveEnter
<1>5. ASSUME ChallengeLeave(w) PROVE SingleUseInv'
  <2>1. /\ [me[w].seen.rec EXCEPT !.code = TRUE] \in Records
        /\ [me[w].seen.rec EXCEPT !.code = TRUE].state = me[w].seen.rec.state
    BY <1>0, SetCode
  <2> QED
    BY <1>0, <1>1, <1>5, <2>1, RestingType, RestingQuiet, LeaveOwnQuiet DEF ChallengeLeave
<1>6. ASSUME AnswerLeave(w) PROVE SingleUseInv'
  <2> DEFINE mine == [At(w, "approve") EXCEPT !.ver = draft]
  <2>1. mine \in Memories /\ mine.pc = "approve" /\ mine.seen = Blank
    BY <1>0, <1>2, AtType DEF Memories
  <2>2. Quieter(me[w], mine)
    BY <1>2, <2>1, AwayQuiet
  <2>3. Leave(w, me[w].seen.rec, Resting) \/ Leave(w, me[w].seen.rec, mine)
    BY <1>6 DEF AnswerLeave
  <2> HIDE DEF mine
  <2> QED
    BY <1>0, <1>1, <2>1, <2>2, <2>3, RestingType, RestingQuiet, LeaveOwnQuiet
<1>7. ASSUME ApproveLeave(w) PROVE SingleUseInv'
  <2>1. PICK right \in BOOLEAN : Leave(w, ApproveDecision(me[w].seen.rec, me[w].ver, right), Resting)
    BY <1>7 DEF ApproveLeave
  <2> QED
    BY <1>0, <1>1, <2>1, ApproveDecisionType, RestingType, RestingQuiet, LeaveOwnQuiet
<1>8. ASSUME RevokeLeave(w) \/ StatusLeave(w) PROVE SingleUseInv'
  BY <1>0, <1>1, <1>8, RevokedType, RestingType, RestingQuiet, LeaveOwnQuiet DEF RevokeLeave, StatusLeave
<1> QED
  BY <1>3, <1>4, <1>5, <1>6, <1>7, <1>8 DEF Person

\* Every step of the sweep after never keeps the invariant.
LEMMA SweepQuiet ==
  ASSUME TypeOK, SingleUseInv, NEW w \in Worker, Sweep(w)
  PROVE  SingleUseInv'
<1>0. /\ me[w] \in Memories /\ HasJob(me[w]) /\ me[w].seen.rec \in Records
      /\ "sweep" \in Steps \ Holding /\ "sweeping" \in Steps \ Holding
  BY DEF TypeOK, Memories, Seen, Steps, Holding
<1>1. At(w, "sweep") \in Memories /\ At(w, "sweep").pc = "sweep" /\ At(w, "sweep").seen = Blank
  BY <1>0, AtType
<1>2. ASSUME SweepList(w) PROVE SingleUseInv'
  <2> DEFINE todo == {a \in Approval : Derive(rec[a]).state \in Active}
             mine == [At(w, "sweep") EXCEPT !.todo = todo]
  <2>1. todo \in SUBSET Approval
    OBVIOUS
  <2> HIDE DEF todo
  <2>2. mine \in Memories /\ mine.pc = "sweep" /\ mine.seen = Blank
    BY <1>1, <2>1 DEF Memories
  <2>3. Only(w, mine)
    BY <1>2 DEF SweepList, todo
  <2> HIDE DEF mine
  <2> QED
    BY <1>0, <2>2, <2>3, AwayQuiet, BlankType, OnlyQuiet
<1>3. ASSUME NEW a \in Approval, SweepEnter(w, a) PROVE SingleUseInv'
  <2> DEFINE n == [me[w] EXCEPT !.pc = "sweeping", !.job = a]
  <2>1. n.pc = "sweeping"
    BY <1>0 DEF Memories
  <2> HIDE DEF n
  <2>2. Quieter(me[w], n)
    BY <1>0, <2>1, AwayQuiet
  <2> QED
    BY <1>0, <1>3, <2>2, EnterQuiet DEF SweepEnter, n
<1>4. ASSUME SweepLeave(w) PROVE SingleUseInv'
  <2> DEFINE mine == [At(w, "sweep") EXCEPT !.job = "none", !.todo = @ \ {me[w].job}]
  <2>1. me[w].job \in Approval
    BY <1>0, <1>4 DEF SweepLeave, HasJob
  <2>2. mine \in Memories /\ mine.pc = "sweep" /\ mine.seen = Blank
    BY <1>1 DEF Memories
  <2>3. Leave(w, Revoked(me[w].seen.rec), mine)
    BY <1>4 DEF SweepLeave
  <2> HIDE DEF mine
  <2>4. Quieter(me[w], mine)
    BY <1>0, <2>2, AwayQuiet
  <2> QED
    BY <1>0, <2>1, <2>2, <2>3, <2>4, RevokedType, LeaveOwnQuiet
<1>5. ASSUME NEW a \in Approval, SweepMiss(w, a) PROVE SingleUseInv'
  <2> DEFINE mine == [me[w] EXCEPT !.todo = @ \ {a}]
  <2>1. mine \in Memories /\ mine.pc = "sweep" /\ mine.seen = me[w].seen /\ mine.job = me[w].job
    BY <1>0, <1>5 DEF Memories, SweepMiss
  <2>2. me' = [me EXCEPT ![w] = mine]
    BY <1>5 DEF SweepMiss
  <2> HIDE DEF mine
  <2>3. Quieter(me[w], mine)
    BY <1>0, <2>1, AwayQuiet
  <2> QED
    BY <1>5, <2>1, <2>2, <2>3, SeenTruth, TruthOnDisk, QuietStep DEF SweepMiss, disk, provider
<1>6. ASSUME SweepEnd(w) PROVE SingleUseInv'
  BY <1>6, RestingType, RestingQuiet, BlankType, TruthFree, TruthOnDisk, QuietStep DEF SweepEnd, disk, provider
<1> QED
  BY <1>2, <1>3, <1>4, <1>5, <1>6 DEF Sweep

-----------------------------------------------------------------------------
(* The steps that are not quiet *)

\* No two calls hold the claim of one approval.
LEMMA OneClaimant ==
  ASSUME SingleUseInv, NEW v \in Worker, NEW w \in Worker,
         me[v].pc \in Holding, me[w].pc \in Holding, me[v].job = me[w].job
  PROVE  v = w
BY DEF SingleUseInv, WorkerOK

\* Making the O_EXCL marker makes its maker the one claimant, of an approval nothing was sent for.
LEMMA MarkSafe ==
  ASSUME TypeOK, SingleUseInv, NEW w \in Worker, Mark(w)
  PROVE  SingleUseInv'
<1>1. me[w].job \in Approval
  BY DEF Mark, TypeOK, HasJob
<1>2. CASE ~MarkerAbsent(me[w].job)
  BY <1>2, RestingType, RestingQuiet, BlankType, OnlyQuiet DEF Mark
<1>3. CASE MarkerAbsent(me[w].job)
  <2> DEFINE a == me[w].job
  <2>1. claim[a] = "none" /\ accepted[a] = 0 /\ wire[a] = "none"
    BY <1>1, <1>3 DEF MarkerAbsent, SingleUseInv, ApprovalOK
  <2>2. /\ me' = [me EXCEPT ![w] = At(w, "reserve")] /\ claim' = [claim EXCEPT ![a] = w]
        /\ UNCHANGED <<rec, held, wire, accepted, beat, backs>>
    BY <1>3 DEF Mark, provider
  <2>3. /\ me'[w].pc = "reserve" /\ me'[w].job = a /\ me'[w].seen = Blank
        /\ \A v \in Worker : v # w => me'[v] = me[v]
    BY <2>2, AtType DEF TypeOK, Steps, Holding
  <2>4. \A b \in Approval : Dead(b) => b # a
    BY <2>1 DEF Dead
  <2>5. \A b \in Approval : Dead(b) => Dead(b)'
    BY <1>1, <2>2, <2>3, <2>4 DEF Dead, TypeOK
  <2>6. ASSUME NEW b \in Approval PROVE ApprovalOK(b)'
    <3>1. Truth(rec[b], b)'
      BY <2>2, <2>5 DEF Truth, SingleUseInv, ApprovalOK
    <3>2. claim'[b] = "none" => claim[b] = "none"
      BY <1>1, <2>2, WorkerAssumption DEF TypeOK
    <3> QED
      BY <2>2, <3>1, <3>2 DEF SingleUseInv, ApprovalOK, Unreserved
  <2>7. ASSUME NEW v \in Worker PROVE WorkerOK(v)'
    <3>1. beat'[v].on => Truth(beat[v].seen.rec, beat[v].job)'
      BY <2>2, <2>5 DEF SingleUseInv, WorkerOK, Truth, TypeOK
    <3>2. CASE v = w
      <4>1. me'[w].job \in Approval => Truth(me[w].seen.rec, me[w].job)'
        BY <2>3, BlankType DEF Truth
      <4>2. claim'[a] = w
        BY <1>1, <2>2 DEF TypeOK
      <4>3. "reserve" \notin Accepted \cup Slotted
        BY DEF Accepted, Slotted
      <4> QED
        BY <2>1, <2>2, <2>3, <3>1, <3>2, <4>1, <4>2, <4>3 DEF WorkerOK
    <3>3. CASE v # w
      <4>1. me'[v] = me[v] /\ (me[v].pc \in Holding => me[v].job # a /\ me[v].job \in Approval)
        BY <2>1, <2>3, <3>3, WorkerAssumption DEF SingleUseInv, WorkerOK, TypeOK, HasJob, Holding
      <4>2. me[v].job \in Approval => Truth(me[v].seen.rec, me[v].job)'
        BY <2>2, <2>5, <4>1 DEF SingleUseInv, WorkerOK, Truth
      <4>3. me[v].pc \in Holding => claim'[me[v].job] = v
        BY <2>2, <4>1 DEF SingleUseInv, WorkerOK, TypeOK
      <4> QED
        BY <2>2, <3>1, <4>1, <4>2, <4>3 DEF SingleUseInv, WorkerOK, Unreserved
    <3> QED
      BY <3>2, <3>3
  <2> QED
    BY <2>6, <2>7 DEF SingleUseInv
<1> QED
  BY <1>2, <1>3
\* A step in which a claimant asks the provider or takes its answer, or takes or
\* gives back its slot: nobody else holds this claim, so nobody else is disturbed.
LEMMA ClaimantStep ==
  ASSUME TypeOK, SingleUseInv, NEW w \in Worker, NEW mine \in Memories, NEW answer, NEW slot,
         me[w].pc \in Holding, me[w].job \in Approval,
         me' = [me EXCEPT ![w] = mine], mine.seen = Blank, mine.pc \in Holding => mine.job = me[w].job,
         wire' = [wire EXCEPT ![me[w].job] = answer], held' = [held EXCEPT ![me[w].job] = slot],
         UNCHANGED <<rec, claim, accepted, beat, backs>>,
         Dead(me[w].job) => answer = "none" /\ (mine.pc \in Holding => mine.pc \in NotSent),
         answer \in {"asked", "refused", "throttled"} => accepted[me[w].job] = 0,
         answer \in {"ok", "noid"} => accepted[me[w].job] = 1,
         accepted[me[w].job] > 0 \/ answer # "none" => slot # Unreserved,
         slot = Unreserved \/ slot >= 0 - backs,
         mine.pc \in Asking \cup NotSent => accepted[me[w].job] = 0 /\ answer = "none",
         mine.pc \in Accepted => accepted[me[w].job] = 1,
         mine.pc \in Slotted => slot # Unreserved
  PROVE  SingleUseInv'
<1> DEFINE a == me[w].job
<1>1. /\ me'[w] = mine /\ \A v \in Worker : v # w => me'[v] = me[v]
      /\ wire'[a] = answer /\ held'[a] = slot
      /\ \A b \in Approval : b # a => wire'[b] = wire[b] /\ held'[b] = held[b]
  BY DEF TypeOK
<1>2. claim[a] = w
  BY DEF SingleUseInv, WorkerOK
<1>3. \A v \in Worker : v # w /\ me[v].pc \in Holding => me[v].job # a /\ me[v].job \in Approval
  BY OneClaimant DEF TypeOK, HasJob, Holding
<1>4. \A b \in Approval : Dead(b) => Dead(b)'
  BY <1>1 DEF Dead
<1>5. ASSUME NEW b \in Approval PROVE ApprovalOK(b)'
  <2>1. Truth(rec[b], b)'
    BY <1>4 DEF Truth, SingleUseInv, ApprovalOK
  <2>2. CASE b = a
    BY <1>1, <1>2, <2>1, <2>2, WorkerAssumption DEF SingleUseInv, ApprovalOK, Unreserved
  <2>3. CASE b # a
    BY <1>1, <2>1, <2>3 DEF SingleUseInv, ApprovalOK, Unreserved
  <2> QED
    BY <2>2, <2>3
<1>6. ASSUME NEW v \in Worker PROVE WorkerOK(v)'
  <2>1. beat'[v].on => Truth(beat[v].seen.rec, beat[v].job)'
    BY <1>4 DEF SingleUseInv, WorkerOK, Truth, TypeOK
  <2>2. CASE v = w
    <3>1. me'[w].job \in Approval => Truth(me[w].seen.rec, me[w].job)'
      BY <1>1, BlankType DEF Truth
    <3> QED
      BY <1>1, <1>2, <2>1, <2>2, <3>1, StepSets DEF WorkerOK, Unreserved
  <2>3. CASE v # w
    <3>1. me'[v] = me[v]
      BY <1>1, <2>3
    <3>2. me[v].job \in Approval => Truth(me[v].seen.rec, me[v].job)'
      BY <1>4, <3>1 DEF SingleUseInv, WorkerOK, Truth
    <3>3. me[v].pc \in Asking \cup NotSent \cup Accepted \cup Slotted =>
            me[v].pc \in Holding /\ me[v].job \in Approval /\ me[v].job # a
      BY <1>3, <2>3, StepSets
    <3> QED
      BY <1>1, <2>1, <3>1, <3>2, <3>3 DEF SingleUseInv, WorkerOK, Unreserved
  <2> QED
    BY <2>2, <2>3
<1> QED
  BY <1>5, <1>6 DEF SingleUseInv

\* The claimant's own steps with the ledger and the provider.
LEMMA ClaimantSafe ==
  ASSUME TypeOK, SingleUseInv, NEW w \in Worker,
         Reserve(w) \/ Call(w) \/ Answered(w) \/ Release(w) \/ Unreserve(w)
  PROVE  SingleUseInv'
<1> DEFINE a == me[w].job
<1>0. me[w].pc \in Holding /\ a \in Approval
  BY DEF Reserve, Call, Answered, Release, Unreserve, TypeOK, HasJob, Holding
<1>1. ApprovalOK(a) /\ WorkerOK(w)
  BY <1>0 DEF SingleUseInv
<1>2. backs \in Nat /\ held[a] \in Int /\ accepted[a] \in Nat
      /\ wire = [wire EXCEPT ![a] = wire[a]] /\ held = [held EXCEPT ![a] = held[a]]
  BY <1>0, BoundAssumption DEF TypeOK
<1>3. 0 # Unreserved /\ 0 >= 0 - backs
  BY <1>2, BoundAssumption DEF Unreserved
<1>4. ASSUME Dead(a) PROVE me[w].pc \in NotSent
  BY <1>0, <1>4 DEF Dead
<1>5. {"look", "release", "wait", "accept", "fail"} \subseteq Steps
  BY DEF Steps, Holding
<1>6. ASSUME Reserve(w) PROVE SingleUseInv'
  <2>1. me[w].pc \in Asking /\ accepted[a] = 0 /\ wire[a] = "none" /\ ~Dead(a)
    BY <1>1, <1>4, <1>6 DEF Reserve, WorkerOK, Asking, NotSent
  <2>2. CASE Only(w, At(w, "release"))
    <3>1. At(w, "release") \in Memories /\ Quieter(me[w], At(w, "release")) /\ At(w, "release").seen = Blank
      BY <1>5, <2>1, AtType, AtQuiet, StepSets DEF NotSent
    <3> QED
      BY <2>2, <3>1, BlankType, OnlyQuiet
  <2>3. CASE ~Only(w, At(w, "release"))
    <3> DEFINE mine == At(w, "look")
    <3>1. /\ me' = [me EXCEPT ![w] = mine] /\ held' = [held EXCEPT ![a] = 0] /\ wire' = wire
          /\ UNCHANGED <<rec, claim, accepted, beat, backs>>
      BY <1>6, <2>3 DEF Reserve, provider
    <3>2. mine \in Memories /\ mine.pc = "look" /\ mine.job = a /\ mine.seen = Blank
      BY <1>5, AtType
    <3>3. "look" \notin Accepted
      BY DEF Accepted
    <3> HIDE DEF mine
    <3> QED
      BY <1>0, <1>1, <1>2, <1>3, <2>1, <3>1, <3>2, <3>3, ClaimantStep
  <2> QED
    BY <2>2, <2>3
<1>7. ASSUME Call(w) PROVE SingleUseInv'
  <2> DEFINE mine == At(w, "wait")
  <2>1. me[w].pc \in Asking /\ me[w].pc \in Slotted /\ accepted[a] = 0 /\ held[a] # Unreserved /\ ~Dead(a)
    BY <1>1, <1>4, <1>7 DEF Call, WorkerOK, Asking, Slotted, NotSent
  <2>2. /\ me' = [me EXCEPT ![w] = mine] /\ held' = held /\ wire' = [wire EXCEPT ![a] = "asked"]
        /\ UNCHANGED <<rec, claim, accepted, beat, backs>>
    BY <1>7 DEF Call, disk
  <2>3. mine \in Memories /\ mine.pc = "wait" /\ mine.job = a /\ mine.seen = Blank
    BY <1>5, AtType
  <2>4. held[a] = Unreserved \/ held[a] >= 0 - backs
    BY <1>1 DEF ApprovalOK
  <2>5. held' = [held EXCEPT ![a] = held[a]]
    BY <1>2, <2>2
  <2>6. mine.pc \notin Asking \cup NotSent \cup Accepted
    BY <2>3, StepSets
  <2> HIDE DEF mine
  <2> QED
    BY <1>0, <2>1, <2>2, <2>3, <2>4, <2>5, <2>6, StepSets, ClaimantStep
<1>8. ASSUME Answered(w) PROVE SingleUseInv'
  <2> DEFINE mine == AfterAnswer(w, wire[a])
  <2>1. /\ me' = [me EXCEPT ![w] = mine] /\ held' = held /\ wire' = [wire EXCEPT ![a] = "none"]
        /\ UNCHANGED <<rec, claim, accepted, beat, backs>>
    BY <1>8 DEF Answered, disk
  <2>2. held[a] # Unreserved /\ held[a] >= 0 - backs /\ ~Dead(a)
    BY <1>1, <1>8 DEF Answered, ApprovalOK, Dead
  <2>3. /\ wire[a] \in {"ok", "noid"} => accepted[a] = 1
        /\ wire[a] \in {"refused", "throttled"} => accepted[a] = 0
        /\ wire[a] \in {"ok", "noid", "refused", "throttled"}
    BY <1>1, <1>8 DEF ApprovalOK, Answered
  <2>4. /\ [At(w, "look") EXCEPT !.retries = @ + 1] \in Memories
        /\ [At(w, "look") EXCEPT !.retries = @ + 1].pc = "look"
        /\ [At(w, "look") EXCEPT !.retries = @ + 1].job = a
        /\ [At(w, "look") EXCEPT !.retries = @ + 1].seen = Blank
    BY <1>5, AtType DEF Memories
  <2>5. /\ mine \in Memories /\ mine.seen = Blank
        /\ \/ mine.pc = "accept" /\ mine.job = a /\ accepted[a] = 1
           \/ mine.pc = "idle"
           \/ mine.pc \in {"look", "release"} /\ mine.job = a /\ accepted[a] = 0
    BY <1>5, <2>3, <2>4, AtType, RestingType, RestingQuiet DEF AfterAnswer
  <2>6. /\ "accept" \in Accepted /\ "idle" \notin Holding /\ "look" \in Asking /\ "release" \in NotSent
    BY DEF Accepted, Holding, Asking, NotSent
  <2>7. held' = [held EXCEPT ![a] = held[a]]
    BY <1>2, <2>1
  <2>8. /\ mine.pc \in Holding => mine.job = a
        /\ mine.pc \in Asking \cup NotSent => accepted[a] = 0
        /\ mine.pc \in Accepted => accepted[a] = 1
    BY <2>5, <2>6, StepSets
  <2> HIDE DEF mine
  <2> QED
    BY <1>0, <2>1, <2>2, <2>5, <2>7, <2>8, ClaimantStep
<1>9. ASSUME Release(w) \/ Unreserve(w) PROVE SingleUseInv'
  <2>1. me[w].pc \in NotSent /\ accepted[a] = 0 /\ wire[a] = "none"
    BY <1>1, <1>9 DEF Release, Unreserve, NotSent, WorkerOK
  <2>2. PICK slot \in {held[a], Unreserved} : held' = [held EXCEPT ![a] = slot]
    BY <1>2, <1>9 DEF Release, Unreserve
  <2>3. slot = Unreserved \/ slot >= 0 - backs
    BY <1>1 DEF ApprovalOK
  <2>4. PICK mine \in {At(w, "fail"), Resting} :
          me' = [me EXCEPT ![w] = mine] /\ UNCHANGED <<rec, claim, wire, accepted, beat, backs>>
    BY <1>9 DEF Release, Unreserve, provider
  <2>5. /\ mine \in Memories /\ mine.seen = Blank
        /\ mine.pc = "idle" \/ (mine.pc = "fail" /\ mine.job = a)
    BY <1>5, AtType, RestingType, RestingQuiet
  <2>6. "idle" \notin Holding /\ "fail" \in NotSent
    BY DEF Holding, NotSent
  <2>7. wire' = [wire EXCEPT ![a] = "none"]
    BY <1>2, <2>1, <2>4
  <2>8. mine.pc \notin Asking \cup Accepted \cup Slotted /\ (mine.pc \in Holding => mine.job = a /\ mine.pc \in NotSent)
    BY <2>5, <2>6, StepSets
  <2>9. UNCHANGED <<rec, claim, accepted, beat, backs>> /\ ~(accepted[a] > 0)
    BY <2>1, <2>4
  <2> QED
    BY <1>0, <2>1, <2>2, <2>3, <2>4, <2>5, <2>7, <2>8, <2>9, ClaimantStep
<1> QED
  BY <1>6, <1>7, <1>8, <1>9
\* The provider's word: only a request on its way is answered, so its claimant is
\* waiting or gone, and nothing yet says that it was sent or was not.
LEMMA ProviderSafe ==
  ASSUME TypeOK, SingleUseInv, NEW a \in Approval, ProviderAccepts(a) \/ ProviderRefuses(a)
  PROVE  SingleUseInv'
<1>1. wire[a] = "asked" /\ accepted[a] = 0 /\ held[a] # Unreserved /\ claim[a] # "none"
  BY DEF ProviderAccepts, ProviderRefuses, SingleUseInv, ApprovalOK
<1>2. UNCHANGED <<rec, claim, held, me, beat, backs>>
  BY DEF ProviderAccepts, ProviderRefuses, disk
<1>3. /\ \A b \in Approval : b # a => wire'[b] = wire[b] /\ accepted'[b] = accepted[b]
      /\ \/ accepted'[a] = 1 /\ wire'[a] \in {"ok", "noid"}
         \/ accepted'[a] = 0 /\ wire'[a] \in {"refused", "throttled"}
  BY <1>1 DEF ProviderAccepts, ProviderRefuses, TypeOK
<1>4. \A b \in Approval : Dead(b) => b # a /\ Dead(b)'
  BY <1>1, <1>2, <1>3 DEF Dead
<1>5. ASSUME NEW r, NEW b \in Approval, Truth(r, b)
      PROVE  (r.state = "used" => accepted'[b] = 1) /\ (r.state = "failed" => Dead(b)')
  BY <1>1, <1>3, <1>4, <1>5 DEF Truth
<1>6. ASSUME NEW b \in Approval PROVE ApprovalOK(b)'
  <2>1. Truth(rec[b], b)'
    BY <1>2, <1>5 DEF Truth, SingleUseInv, ApprovalOK
  <2>2. CASE b = a
    BY <1>1, <1>2, <1>3, <2>1, <2>2 DEF SingleUseInv, ApprovalOK, Unreserved
  <2>3. CASE b # a
    BY <1>2, <1>3, <2>1, <2>3 DEF SingleUseInv, ApprovalOK, Unreserved
  <2> QED
    BY <2>2, <2>3
<1>7. ASSUME NEW v \in Worker PROVE WorkerOK(v)'
  <2>1. beat'[v].on => Truth(beat[v].seen.rec, beat[v].job)'
    BY <1>2, <1>5 DEF SingleUseInv, WorkerOK, Truth, TypeOK
  <2>2. me'[v].job \in Approval => Truth(me[v].seen.rec, me[v].job)'
    BY <1>2, <1>5 DEF SingleUseInv, WorkerOK, Truth
  <2>3. me[v].pc \in Asking \cup NotSent \cup Accepted => me[v].job \in Approval /\ me[v].job # a
    BY <1>1, StepSets DEF SingleUseInv, WorkerOK, TypeOK, HasJob, Holding
  <2> QED
    BY <1>2, <1>3, <2>1, <2>2, <2>3 DEF SingleUseInv, WorkerOK, Unreserved
<1> QED
  BY <1>6, <1>7 DEF SingleUseInv

\* Ages move and nothing else: a reservation of some age stays one, since the
\* clock goes back no more often than MaxBack.
LEMMA ClockSafe ==
  ASSUME TypeOK, SingleUseInv, Tick \/ StepBack
  PROVE  SingleUseInv'
<1>t. TypeOK'
  BY NextType DEF Next
<1>1. PICK d \in {1, -1} : Clock(d) /\ backs' = IF d = 1 THEN backs ELSE backs + 1
  BY DEF Tick, StepBack
<1>2. backs \in Nat /\ backs' \in Nat /\ backs' <= MaxBack /\ backs <= MaxBack /\ MaxBack \in Nat /\ d \in Int
  BY <1>1, BoundAssumption DEF TypeOK, Tick, StepBack
<1>3. \A a \in Approval : rec'[a].state = rec[a].state
  BY <1>1, <1>2, AgedType DEF TypeOK, Clock
<1>4. \A w \in Worker : /\ me'[w].pc = me[w].pc /\ me'[w].job = me[w].job
                        /\ me'[w].seen.rec.state = me[w].seen.rec.state
                        /\ beat'[w].on = beat[w].on /\ beat'[w].job = beat[w].job
                        /\ beat'[w].seen.rec.state = beat[w].seen.rec.state
  <2>1. ASSUME NEW w \in Worker
        PROVE  /\ Aged(me[w].seen.rec, d).state = me[w].seen.rec.state
               /\ Aged(beat[w].seen.rec, d).state = beat[w].seen.rec.state
    BY <1>2, AgedType DEF TypeOK, Memories, Beats, Seen
  <2> QED
    BY <1>1, <2>1 DEF TypeOK, Clock, Memories, Beats, Seen
<1>5. UNCHANGED <<claim, wire, accepted>>
  BY <1>1 DEF Clock, provider
<1>6. ASSUME NEW a \in Approval
      PROVE  /\ held'[a] = Unreserved \/ held'[a] >= 0 - backs'
             /\ held'[a] = Unreserved => held[a] = Unreserved
  <2>1. held[a] \in Int /\ (held[a] = Unreserved \/ held[a] >= 0 - backs) /\ DayWindow \in Nat
    BY LifetimeAssumption DEF TypeOK, SingleUseInv, ApprovalOK
  <2>2. /\ held'[a] = held[a] \/ held'[a] = held[a] + d
        /\ held[a] = Unreserved => held'[a] = Unreserved
    BY <1>1 DEF Clock, AgedSlot
  <2>3. CASE held[a] = Unreserved
    BY <2>2, <2>3
  <2>4. CASE held[a] # Unreserved
    <3>1. ASSUME NEW n \in Int, NEW m \in Nat, NEW b \in Nat, b <= m, n >= 0 - b
          PROVE  n # -1 - m
      BY <3>1
    <3>2. held'[a] >= 0 - backs'
      <4>1. CASE d = 1
        <5>1. backs' = backs
          BY <1>1, <4>1
        <5> QED
          BY <1>2, <2>1, <2>2, <2>4, <4>1, <5>1
      <4>2. CASE d = -1
        <5>1. backs' = backs + 1
          BY <1>1, <4>2
        <5> QED
          BY <1>2, <2>1, <2>2, <2>4, <4>2, <5>1
      <4> QED
        BY <4>1, <4>2
    <3>3. held'[a] \in Int
      BY <1>t DEF TypeOK
    <3> QED
      BY <1>2, <3>1, <3>2, <3>3 DEF Unreserved
  <2> QED
    BY <2>3, <2>4
<1>7. \A a \in Approval : Dead(a) => Dead(a)'
  BY <1>4, <1>5 DEF Dead
<1>8. ASSUME NEW r, NEW q, NEW a \in Approval, Truth(r, a), q.state = r.state
      PROVE  (q.state = "used" => accepted'[a] = 1) /\ (q.state = "failed" => Dead(a)')
  BY <1>5, <1>7, <1>8 DEF Truth
<1>9. ASSUME NEW a \in Approval PROVE ApprovalOK(a)'
  <2>1. Truth(rec[a], a)'
    BY <1>3, <1>8 DEF Truth, SingleUseInv, ApprovalOK
  <2> QED
    BY <1>5, <1>6, <2>1 DEF SingleUseInv, ApprovalOK, Unreserved
<1>10. ASSUME NEW v \in Worker PROVE WorkerOK(v)'
  <2>a. beat[v].on => beat[v].job \in Approval /\ Truth(beat[v].seen.rec, beat[v].job)
    BY DEF SingleUseInv, WorkerOK, TypeOK
  <2>b. me[v].job \in Approval => Truth(me[v].seen.rec, me[v].job)
    BY DEF SingleUseInv, WorkerOK
  <2>c. /\ beat'[v].on = beat[v].on /\ beat'[v].job = beat[v].job /\ me'[v].job = me[v].job
        /\ beat'[v].seen.rec.state = beat[v].seen.rec.state /\ me'[v].seen.rec.state = me[v].seen.rec.state
    BY <1>4
  <2>1. beat'[v].on => Truth(beat[v].seen.rec, beat[v].job)'
    <3>1. SUFFICES ASSUME beat[v].on PROVE Truth(beat[v].seen.rec, beat[v].job)'
      BY <2>c
    <3>2. /\ beat'[v].seen.rec.state = "used" => accepted'[beat[v].job] = 1
          /\ beat'[v].seen.rec.state = "failed" => Dead(beat[v].job)'
      BY <1>8, <2>a, <2>c, <3>1
    <3> QED
      BY <2>c, <3>2 DEF Truth
  <2>2. me'[v].job \in Approval => Truth(me[v].seen.rec, me[v].job)'
    <3>1. SUFFICES ASSUME me[v].job \in Approval PROVE Truth(me[v].seen.rec, me[v].job)'
      BY <2>c
    <3>2. /\ me'[v].seen.rec.state = "used" => accepted'[me[v].job] = 1
          /\ me'[v].seen.rec.state = "failed" => Dead(me[v].job)'
      BY <1>8, <2>b, <2>c, <3>1
    <3> QED
      BY <2>c, <3>2 DEF Truth
  <2>3. me[v].pc \in Slotted => me[v].job \in Approval
    BY DEF TypeOK, HasJob, Slotted, Accepted
  <2> QED
    BY <1>4, <1>5, <1>6, <2>1, <2>2, <2>3 DEF SingleUseInv, WorkerOK, Unreserved
<1> QED
  BY <1>9, <1>10 DEF SingleUseInv

-----------------------------------------------------------------------------
(* Single use, for every instance *)

\* In the first states nothing is prepared, claimed, asked or sent.
LEMMA InitSafe == Init => SingleUseInv
<1> SUFFICES ASSUME Init PROVE SingleUseInv
  OBVIOUS
<1>1. NoRecord.state = "none"
  BY DEF NoRecord
<1>2. "idle" \notin Holding \cup Asking \cup NotSent \cup Accepted \cup Slotted
  BY DEF Holding, Asking, NotSent, Accepted, Slotted
<1>3. ASSUME NEW a \in Approval PROVE ApprovalOK(a)
  BY <1>1, TruthFree DEF Init, ApprovalOK
<1>4. ASSUME NEW w \in Worker PROVE WorkerOK(w)
  BY <1>2, RestingType, WorkerAssumption DEF Init, WorkerOK
<1> QED
  BY <1>3, <1>4 DEF SingleUseInv

\* Every step keeps the inductive invariant.
LEMMA NextSafe == TypeOK /\ SingleUseInv /\ [Next]_vars => SingleUseInv'
<1> SUFFICES ASSUME TypeOK, SingleUseInv, [Next]_vars PROVE SingleUseInv'
  OBVIOUS
<1>t. TypeOK'
  BY NextType
<1>b. \A v \in Worker : beat[v].on => beat[v].job \in Approval /\ Truth(beat[v].seen.rec, beat[v].job)
  BY DEF SingleUseInv, WorkerOK, TypeOK
<1>1. ASSUME NEW w \in Worker, Begin(w) PROVE SingleUseInv'
  BY <1>1, BeginQuiet
<1>2. ASSUME NEW w \in Worker, Send(w) PROVE SingleUseInv'
  BY <1>2, SendQuiet, MarkSafe, ClaimantSafe
<1>3. ASSUME NEW w \in Worker, TimeOut(w) PROVE SingleUseInv'
  <2>1. me[w].job \in Approval
    BY <1>3 DEF TimeOut, TypeOK, HasJob
  <2>2. \/ Only(w, Resting)
        \/ me[w].pc = "fence" /\ Only(w, At(w, "lost"))
        \/ me[w].pc = "lost" /\ Only(w, At(w, "unreserve"))
    BY <1>3 DEF TimeOut
  <2>3. /\ "fence" \in Asking /\ "lost" \in NotSent /\ "unreserve" \in NotSent
        /\ "lost" \in Steps /\ "unreserve" \in Steps
    BY DEF Asking, NotSent, Steps, Holding
  <2>4. CASE Only(w, Resting)
    BY <2>4, RestingType, RestingQuiet, BlankType, OnlyQuiet
  <2>5. CASE me[w].pc = "fence" /\ Only(w, At(w, "lost"))
    BY <2>3, <2>5, AtType, AtQuiet, StepSets, BlankType, OnlyQuiet
  <2>6. CASE me[w].pc = "lost" /\ Only(w, At(w, "unreserve"))
    BY <2>3, <2>6, AtType, AtQuiet, StepSets, BlankType, OnlyQuiet
  <2> QED
    BY <2>2, <2>4, <2>5, <2>6
<1>4. ASSUME NEW w \in Worker, EditApply(w) PROVE SingleUseInv'
  BY <1>4, RestingType, RestingQuiet, BlankType, TruthFree, TruthOnDisk, QuietStep DEF EditApply, disk
<1>5. ASSUME NEW w \in Worker, Continue(w) PROVE SingleUseInv'
  BY <1>t, <1>2, <1>3, <1>4, <1>5, PrepareQuiet, PersonQuiet, SweepQuiet DEF Continue
<1>6. ASSUME NEW w \in Worker, BeatEnter(w) PROVE SingleUseInv'
  <2> DEFINE seen == Snapshot(me[w].job, "inspect")
  <2>1. me[w].job \in Approval
    BY <1>6 DEF BeatEnter, TypeOK, HasJob, Holding
  <2>2. Truth(seen.rec, me[w].job)
    BY <2>1, SnapshotType, TruthSame DEF SingleUseInv, ApprovalOK
  <2> HIDE DEF seen
  <2>3. beat' = [beat EXCEPT ![w] = [on |-> TRUE, job |-> me[w].job, seen |-> seen]]
    BY <1>6 DEF BeatEnter, seen
  <2>4. \A v \in Worker : beat'[v].on => beat'[v].job \in Approval /\ Truth(beat'[v].seen.rec, beat'[v].job)
    BY <1>b, <2>1, <2>2, <2>3 DEF TypeOK
  <2> QED
    BY <1>6, <2>4, TruthOnDisk, SameCalls DEF BeatEnter, provider
<1>7. ASSUME NEW w \in Worker, BeatLeave(w) PROVE SingleUseInv'
  <2>1. beat[w].job \in Approval /\ beat[w].seen.rec \in Records /\ Truth(beat[w].seen.rec, beat[w].job)
    BY <1>b, <1>7 DEF BeatLeave, TypeOK, Beats, Seen
  <2>2. Truth(Renew(beat[w].seen.rec), beat[w].job)
    BY <2>1, RenewType, TruthSame
  <2>3. \A a \in Approval : Truth(rec'[a], a)
    BY <1>7, <2>1, <2>2 DEF BeatLeave, Put, SingleUseInv, ApprovalOK, TypeOK
  <2>4. \A v \in Worker : beat'[v].on => beat'[v].job \in Approval /\ Truth(beat'[v].seen.rec, beat'[v].job)
    BY <1>b, <1>7, RestingType DEF BeatLeave, TypeOK
  <2> QED
    BY <1>7, <2>3, <2>4, SameCalls DEF BeatLeave, provider
<1>8. ASSUME NEW w \in Worker, Crash(w) PROVE SingleUseInv'
  <2>1. \A v \in Worker : beat'[v].on => beat'[v].job \in Approval /\ Truth(beat'[v].seen.rec, beat'[v].job)
    BY <1>b, <1>8, RestingType DEF Crash, TypeOK
  <2> QED
    BY <1>8, <2>1, RestingType, RestingQuiet, BlankType, TruthFree, TruthOnDisk, QuietMove DEF Crash, provider
<1>9. ASSUME NEW a \in Approval, ProviderAccepts(a) \/ ProviderRefuses(a) PROVE SingleUseInv'
  BY <1>9, ProviderSafe
<1>10. ASSUME (\E a \in Approval : TakeOver(a)) \/ WebEdit \/ RemoveOwner \/ UNCHANGED vars
       PROVE  SingleUseInv'
  BY <1>b, <1>10, TruthOnDisk, SameCalls DEF TakeOver, WebEdit, RemoveOwner, vars, disk, provider
<1>11. ASSUME Tick \/ StepBack PROVE SingleUseInv'
  BY <1>11, ClockSafe
<1> QED
  BY <1>1, <1>5, <1>6, <1>7, <1>8, <1>9, <1>10, <1>11 DEF Next

\* The inductive invariant of single use holds of every behaviour: each approval
\* has one claimant for ever, the O_EXCL marker's maker, and its record, the
\* request and the ledger follow that one call (#markClaimed, sendApproved).
THEOREM SingleUseHolds == Spec => []SingleUseInv
<1>1. Init => TypeOK /\ SingleUseInv
  BY InitType, InitSafe
<1>2. TypeOK /\ SingleUseInv /\ [Next]_vars => TypeOK' /\ SingleUseInv'
  BY NextType, NextSafe
<1> QED
  BY <1>1, <1>2, PTL DEF Spec

\* However many processes send, crash, stall and take over each other's locks, the
\* provider accepts at most one mail for an approval (claimForSend, #markClaimed).
THEOREM AtMostOneSendHolds == Spec => []AtMostOneSend
<1>1. SingleUseInv => AtMostOneSend
  BY DEF SingleUseInv, ApprovalOK, AtMostOneSend
<1> QED
  BY <1>1, SingleUseHolds, PTL

\* A record that reads used stands for a mail the provider accepted (complete),
\* even where a stalled process writes over a lock it has lost.
THEOREM UsedMeansSentHolds == Spec => []UsedMeansSent
<1>1. SingleUseInv => UsedMeansSent
  BY DEF SingleUseInv, ApprovalOK, Truth, UsedMeansSent
<1> QED
  BY <1>1, SingleUseHolds, PTL

\* A record that reads failed stands for no mail at all (recordNoSend, fenceOrStop).
THEOREM FailedMeansUnsentHolds == Spec => []FailedMeansUnsent
<1>1. SingleUseInv => FailedMeansUnsent
  BY DEF SingleUseInv, ApprovalOK, Truth, Dead, FailedMeansUnsent
<1> QED
  BY <1>1, SingleUseHolds, PTL

\* A mail that went out is never dropped from the ledger (reserve, release).
THEOREM SendsAreCountedHolds == Spec => []SendsAreCounted
<1>1. SingleUseInv => SendsAreCounted
  BY DEF SingleUseInv, ApprovalOK, SendsAreCounted
<1> QED
  BY <1>1, SingleUseHolds, PTL
=============================================================================
