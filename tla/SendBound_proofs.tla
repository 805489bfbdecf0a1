--------------------------- MODULE SendBound_proofs ---------------------------
(***************************************************************************)
(* What an approval binds, for every set of approvals and processes: a send of *)
(* the confirm route was answered for by a person, and what goes out is the     *)
(* version that was prepared.  Neither argument uses the record's lock.         *)
(***************************************************************************)
EXTENDS SendGate_proofs

\* A call that prepares an approval, one inside a record transition, one that has claimed,
\* and one whose last look holds until it asks.
Preparing == {"resolved", "fit", "relabel", "reread", "bound"}
Reading   == {"inspecting", "claiming", "fencing", "using", "failing", "losing", "showing",
              "challenging", "revoking", "answering", "approving", "status", "sweeping"}
Carrying  == {"mark"} \cup Holding
Looked    == {"fence", "fencing", "call"}

\* The states past the claim.
Spent == {"sending", "unknown", "used", "failed"}

\* What a record says of its person is so.
Honest(r) ==
  /\ r.state = "approved" => r.yes = r.ver
  /\ r.state \in Spent /\ r.route = "confirm" => r.yes = r.ver

\* q is written over r: of the same version, as honest, and there.
Follows(r, q) == q \in Records /\ q.ver = r.ver /\ (r.state # "none" => q.state # "none") /\ (Honest(r) => Honest(q))

\* What a call keeps in mind agrees with the records R.
MemoryOK(R, m) ==
  /\ Honest(m.seen.rec)
  /\ m.pc \in Preparing => m.seen.rec.state = "none" /\ R[m.job].state = "none"
  /\ m.job \in Approval /\ m.pc \notin Preparing => R[m.job].state # "none"
  /\ m.pc \in Reading => m.seen.rec.state # "none" /\ m.seen.rec.ver = R[m.job].ver
  /\ m.pc \in Carrying => m.ver = R[m.job].ver

BeatOK(R, b) ==
  b.on => /\ Honest(b.seen.rec) /\ b.seen.rec.state # "none" /\ R[b.job].state # "none"
          /\ b.seen.rec.ver = R[b.job].ver

BoundInv ==
  /\ \A a \in Approval : Honest(rec[a])
  /\ \A w \in Worker : MemoryOK(rec, me[w]) /\ BeatOK(rec, beat[w])
  /\ \A w \in Worker : me[w].pc \in Preparing => \A v \in Worker \ {w} : me[v].job # me[w].job

\* A record, once there, keeps its version and stays.
VersionsKept == \A a \in Approval : rec[a].state # "none" => rec'[a].ver = rec[a].ver /\ rec'[a].state # "none"

-----------------------------------------------------------------------------
(* Records *)

LEMMA SameFollows == ASSUME NEW r \in Records PROVE Follows(r, r)
  BY DEF Follows

LEMMA FollowsTwice == ASSUME NEW r, NEW q, NEW s, Follows(r, q), Follows(q, s) PROVE Follows(r, s)
  BY DEF Follows

\* Ended: honest unless it claims what the record did not.
LEMMA EndedFollows ==
  ASSUME NEW r \in Records, NEW s \in States \ {"none", "approved"}, s \in Spent => r.state \in Spent
  PROVE  Follows(r, Ended(r, s))
<1>1. Ended(r, s) \in Records /\ Ended(r, s).state = s
  BY EndedType
<1>2. Ended(r, s).ver = r.ver /\ Ended(r, s).route = r.route /\ Ended(r, s).yes = r.yes
  BY DEF Ended, Records
<1> QED
  BY <1>1, <1>2 DEF Follows, Honest

LEMMA DeriveFollows == ASSUME NEW r \in Records PROVE Follows(r, Derive(r))
  BY EndedFollows, SameFollows DEF Derive, States, Spent

LEMMA SettleFollows ==
  ASSUME NEW r \in Records, NEW live, NEW action
  PROVE  Follows(r, Settle(r, live, action))
<1> DEFINE d == Derive(r)
<1>1. d \in Records /\ Follows(r, d)
  BY DeriveFollows DEF Follows
<1> HIDE DEF d
<1>2. Follows(d, Ended(d, "revoked"))
  BY <1>1, EndedFollows DEF States, Spent
<1>3. Follows(r, Ended(d, "revoked"))
  BY <1>1, <1>2, FollowsTwice
<1> QED
  BY <1>1, <1>3 DEF Settle, d

LEMMA OutcomeFollows == ASSUME NEW r \in Records, NEW s \in {"used", "failed"} PROVE Follows(r, Outcome(r, s))
  BY EndedFollows, SameFollows DEF Outcome, States, Spent

LEMMA RevokedFollows == ASSUME NEW r \in Records PROVE Follows(r, Revoked(r))
  BY EndedFollows, SameFollows DEF Revoked, States, Spent

\* Another age changes nothing that is bound.
LEMMA AgeFollows == ASSUME NEW r \in Records, NEW n \in Int PROVE Follows(r, [r EXCEPT !.age = n])
<1>1. [r EXCEPT !.age = n] \in Records
  BY SetAge
<1>2. \A f \in {"state", "route", "ver", "yes"} : [r EXCEPT !.age = n][f] = r[f]
  BY DEF Records
<1> QED
  BY <1>1, <1>2 DEF Follows, Honest

LEMMA RenewFollows == ASSUME NEW r \in Records PROVE Follows(r, Renew(r))
  BY AgeFollows, SameFollows DEF Renew

LEMMA AgedFollows == ASSUME NEW r \in Records, NEW d \in Int PROVE Follows(r, Aged(r, d)) /\ Aged(r, d).state = r.state
<1>1. Aged(r, d).state = r.state
  BY AgedType
<1>2. r.age \in Int /\ r.age + d \in Int
  BY DEF Records
<1>3. Aged(r, d) = r \/ Aged(r, d) = [r EXCEPT !.age = r.age] \/ Aged(r, d) = [r EXCEPT !.age = r.age + d]
  BY DEF Aged
<1> QED
  BY <1>1, <1>2, <1>3, AgeFollows, SameFollows

\* The claim passes what a person answered for, or what needs none.
LEMMA ClaimFollows ==
  ASSUME NEW r \in Records, NEW live \in Configs, NEW ver, NEW agrees \in BOOLEAN
  PROVE  Follows(r, ClaimDecision(r, live, ver, agrees))
<1> DEFINE q == [r EXCEPT !.state = "sending", !.age = 0]
<1>1. q \in Records /\ q.state = "sending" /\ q.ver = r.ver /\ q.route = r.route /\ q.yes = r.yes
  BY BegunType DEF States, Records
<1> HIDE DEF q
<1>2. (r.state = "approved" /\ r.yes = r.ver) \/ (r.state = "pending" /\ r.route = "chat") => Follows(r, q)
  BY <1>1 DEF Follows, Honest
<1>3. Follows(r, Ended(r, "revoked")) /\ Follows(r, r)
  BY EndedFollows, SameFollows DEF States, Spent
<1> QED
  BY <1>2, <1>3 DEF ClaimDecision, Claimable, q

\* approve() writes the version that was answered for, which is the one bound.
LEMMA ApproveFollows ==
  ASSUME NEW r \in Records, NEW ver \in Nat, NEW right \in BOOLEAN
  PROVE  Follows(r, ApproveDecision(r, ver, right))
<1> DEFINE yes == [r EXCEPT !.state = "approved", !.yes = ver, !.code = FALSE, !.age = 0]
           tried == [r EXCEPT !.tries = r.tries + 1]
<1>1. /\ yes \in Records /\ yes.state = "approved"
      /\ yes.ver = r.ver /\ yes.yes = ver
  BY ApprovedType DEF Records
<1>2. ver = r.ver => Follows(r, yes)
  BY <1>1 DEF Follows, Honest, Spent
<1>3. tried \in Records /\ \A f \in {"state", "route", "ver", "yes"} : tried[f] = r[f]
  BY DEF Records
<1> HIDE DEF tried
<1>4. Follows(r, tried)
  BY <1>3 DEF Follows, Honest
<1>5. Follows(tried, Ended(tried, "revoked"))
  BY <1>3, EndedFollows DEF States, Spent
<1>6. Follows(r, Ended(tried, "revoked")) /\ Follows(r, Ended(r, "revoked")) /\ Follows(r, r)
  BY <1>4, <1>5, FollowsTwice, EndedFollows, SameFollows DEF States, Spent
<1> HIDE DEF yes
<1> QED
  BY <1>2, <1>4, <1>6 DEF ApproveDecision, yes, tried

-----------------------------------------------------------------------------
(* Steps of one call *)

\* Memories and timers agree with records that keep their versions and stay.
LEMMA StillAgrees ==
  ASSUME TypeOK, VersionsKept, NEW m \in Memories, HasJob(m), MemoryOK(rec, m),
         m.pc \in Preparing => rec'[m.job].state = "none"
  PROVE  MemoryOK(rec', m)
<1>1. m.pc \in Reading \cup Carrying => m.job \in Approval /\ m.pc \notin Preparing
  BY DEF HasJob, Reading, Carrying, Holding, Preparing
<1> QED
  BY <1>1 DEF MemoryOK, VersionsKept

LEMMA StillBeats ==
  ASSUME VersionsKept, NEW b, b.on => b.job \in Approval, BeatOK(rec, b)
  PROVE  BeatOK(rec', b)
  BY DEF BeatOK, VersionsKept

\* One call moves, records keep what is bound.
LEMMA MoveStep ==
  ASSUME TypeOK, BoundInv, NEW w \in Worker, NEW mine, me' = [me EXCEPT ![w] = mine], beat' = beat,
         VersionsKept, \A a \in Approval : Honest(rec'[a]),
         \A v \in Worker \ {w} : me[v].pc \in Preparing => rec'[me[v].job].state = "none" /\ me[v].job # mine.job,
         MemoryOK(rec', mine),
         mine.pc \in Preparing => \A v \in Worker \ {w} : me[v].job # mine.job
  PROVE  BoundInv'
<1>1. me'[w] = mine /\ \A v \in Worker \ {w} : me'[v] = me[v]
  BY DEF TypeOK
<1>2. \A v \in Worker \ {w} : MemoryOK(rec', me[v])
  BY StillAgrees DEF TypeOK, BoundInv
<1>3. \A v \in Worker : BeatOK(rec', beat[v])
  BY StillBeats DEF TypeOK, BoundInv
<1>4. \A v \in Worker : MemoryOK(rec', me'[v]) /\ BeatOK(rec', beat'[v])
  BY <1>1, <1>2, <1>3
<1>5. ASSUME NEW u \in Worker, me'[u].pc \in Preparing, NEW v \in Worker \ {u} PROVE me'[v].job # me'[u].job
  <2>1. CASE u = w
    BY <1>1, <1>5, <2>1
  <2>2. CASE u # w
    BY <1>1, <1>5, <2>2 DEF BoundInv
  <2> QED
    BY <2>1, <2>2
<1> QED
  BY <1>4, <1>5 DEF BoundInv

\* A memory that neither prepares nor is inside a transition.
LEMMA PlainMemory ==
  ASSUME NEW R, NEW m, m.seen = Blank, m.pc \notin Preparing \cup Reading, m.job \in Approval => R[m.job].state # "none",
         m.pc \in Carrying => m.ver = R[m.job].ver
  PROVE  MemoryOK(R, m)
<1>1. Honest(Blank.rec)
  BY DEF Blank, NoRecord, Honest, Spent
<1> QED
  BY <1>1 DEF MemoryOK

LEMMA RestingPlain == \A R : MemoryOK(R, Resting) /\ Resting.job \notin Approval /\ Resting.pc \notin Preparing
<1>1. Resting.seen = Blank /\ Resting.job \notin Approval /\ Resting.pc \notin Preparing \cup Reading \cup Carrying
  BY WorkerAssumption DEF Resting, Preparing, Reading, Carrying, Holding
<1> QED
  BY <1>1, PlainMemory

\* A call's own step.
LEMMA OnlyMove ==
  ASSUME TypeOK, BoundInv, NEW w \in Worker, NEW mine, me' = [me EXCEPT ![w] = mine], UNCHANGED <<rec, beat>>,
         MemoryOK(rec, mine),
         mine.job \in Approval => mine.job = me[w].job \/ rec[mine.job].state # "none",
         mine.pc \in Preparing => me[w].pc \in Preparing /\ mine.job = me[w].job
  PROVE  BoundInv' /\ VersionsKept
<1>1. VersionsKept /\ \A a \in Approval : Honest(rec'[a])
  BY DEF VersionsKept, BoundInv
<1>2. ASSUME NEW v \in Worker \ {w}, me[v].pc \in Preparing
      PROVE  rec'[me[v].job].state = "none" /\ me[v].job # mine.job
  <2>1. rec[me[v].job].state = "none" /\ me[v].job # me[w].job
    BY <1>2 DEF BoundInv, MemoryOK
  <2>2. me[v].job \in Approval
    BY <1>2 DEF TypeOK, HasJob, Preparing
  <2> QED
    BY <2>1, <2>2
<1>3. mine.pc \in Preparing => \A v \in Worker \ {w} : me[v].job # mine.job
  BY DEF BoundInv
<1> QED
  BY <1>1, <1>2, <1>3, MoveStep

\* A call that gives up.
LEMMA RestMove ==
  ASSUME TypeOK, BoundInv, NEW w \in Worker, me' = [me EXCEPT ![w] = Resting], UNCHANGED <<rec, beat>>
  PROVE  BoundInv' /\ VersionsKept
  BY OnlyMove, RestingPlain

\* The first half of a transition.
LEMMA EnterMove ==
  ASSUME TypeOK, BoundInv, NEW w \in Worker, NEW a \in Approval, NEW step \in Reading, NEW action, Enter(w, a, step, action),
         step \in Holding => (me[w].pc \in Holding /\ a = me[w].job)
  PROVE  BoundInv' /\ VersionsKept
<1> DEFINE mine == [me[w] EXCEPT !.pc = step, !.job = a, !.seen = Snapshot(a, action)]
<1>1. /\ mine.pc = step /\ mine.job = a /\ mine.seen.rec = Settle(rec[a], config, action)
      /\ mine.ver = me[w].ver
  BY DEF TypeOK, Memories, Snapshot
<1>2. me' = [me EXCEPT ![w] = mine] /\ rec' = rec /\ beat' = beat /\ rec[a].state # "none"
  BY DEF Enter
<1> HIDE DEF mine
<1>3. Follows(rec[a], Settle(rec[a], config, action)) /\ Honest(rec[a])
  BY SettleFollows DEF TypeOK, BoundInv
<1>4. step \in Carrying => mine.ver = rec[a].ver
  BY <1>1 DEF Carrying, BoundInv, MemoryOK, Reading
<1>5. step \notin Preparing
  BY DEF Reading, Preparing
<1>6. MemoryOK(rec, mine)
  BY <1>1, <1>2, <1>3, <1>4, <1>5 DEF MemoryOK, Follows
<1> QED
  BY <1>1, <1>2, <1>5, <1>6, OnlyMove

\* The second half: what is written follows from what was read.
LEMMA LeaveMove ==
  ASSUME TypeOK, BoundInv, NEW w \in Worker, NEW next, NEW mine, Leave(w, next, mine), me[w].pc \in Reading,
         Follows(me[w].seen.rec, next), mine.seen = Blank, mine.pc \notin Preparing \cup Reading,
         mine.job \in Approval => mine.job = me[w].job,
         mine.pc \in Carrying => mine.job = me[w].job /\ mine.ver = rec[me[w].job].ver
  PROVE  BoundInv' /\ VersionsKept
<1> DEFINE a == me[w].job
<1>1. a \in Approval /\ me[w].pc \notin Preparing
  BY DEF TypeOK, HasJob, Reading, Preparing
<1>2. /\ rec[a].state # "none" /\ me[w].seen.rec.state # "none" /\ me[w].seen.rec.ver = rec[a].ver
      /\ Honest(me[w].seen.rec)
  BY <1>1 DEF BoundInv, MemoryOK
<1>3. /\ me' = [me EXCEPT ![w] = mine] /\ beat' = beat
      /\ rec' = rec \/ rec' = [rec EXCEPT ![a] = next]
  BY DEF Leave, Put
<1>4. next.state # "none" /\ next.ver = rec[a].ver /\ Honest(next)
  BY <1>2 DEF Follows
<1>5. VersionsKept /\ \A b \in Approval : Honest(rec'[b]) /\ (rec[b].state = "none" => rec'[b].state = "none")
  BY <1>1, <1>2, <1>3, <1>4 DEF VersionsKept, BoundInv, TypeOK
<1>6. MemoryOK(rec', mine)
  <2>1. rec'[a].state # "none" /\ rec'[a].ver = rec[a].ver
    BY <1>1, <1>2, <1>5 DEF VersionsKept
  <2> QED
    BY <2>1, PlainMemory
<1>7. ASSUME NEW v \in Worker \ {w}, me[v].pc \in Preparing
      PROVE  rec'[me[v].job].state = "none" /\ me[v].job # mine.job
  <2>1. rec[me[v].job].state = "none" /\ me[v].job # me[w].job
    BY <1>7 DEF BoundInv, MemoryOK
  <2>2. me[v].job \in Approval
    BY <1>7 DEF TypeOK, HasJob, Preparing
  <2> QED
    BY <1>5, <2>1, <2>2
<1> QED
  BY <1>3, <1>5, <1>6, <1>7, MoveStep

-----------------------------------------------------------------------------
(* Every action *)

\* A memory that prepares: nothing is written yet.
LEMMA PreparingMemory ==
  ASSUME NEW R, NEW m, m.pc \in Preparing, m.seen.rec.state = "none", R[m.job].state = "none"
  PROVE  MemoryOK(R, m)
  BY DEF MemoryOK, Honest, Spent, Preparing, Reading, Carrying, Holding

\* Where a call goes on to, with what it carries.
LEMMA AtFields ==
  ASSUME TypeOK, NEW w \in Worker, NEW p \in Steps
  PROVE  /\ At(w, p).pc = p /\ At(w, p).job = me[w].job /\ At(w, p).seen = Blank /\ At(w, p).ver = me[w].ver
         /\ At(w, p) \in Memories
  BY AtType DEF TypeOK, At, Memories

\* A call goes on to p, alone.
LEMMA AtMove ==
  ASSUME TypeOK, BoundInv, NEW w \in Worker, NEW p \in Steps \ (Preparing \cup Reading), NEW mine,
         me' = [me EXCEPT ![w] = mine], UNCHANGED <<rec, beat>>,
         mine.pc = p, mine.seen = Blank, mine.job = me[w].job, me[w].pc \notin Preparing,
         p \in Carrying => me[w].pc \in Carrying /\ mine.ver = me[w].ver
  PROVE  BoundInv' /\ VersionsKept
<1>1. p \in Carrying => me[w].job \in Approval
  BY DEF TypeOK, HasJob, Carrying, Holding
<1>2. me[w].job \in Approval => rec[me[w].job].state # "none" /\ (me[w].pc \in Carrying => me[w].ver = rec[me[w].job].ver)
  BY DEF BoundInv, MemoryOK
<1>3. MemoryOK(rec, mine)
  BY <1>1, <1>2, PlainMemory
<1> QED
  BY <1>3, OnlyMove

\* A call leaves a transition for p.
LEMMA LeaveAt ==
  ASSUME TypeOK, BoundInv, NEW w \in Worker, NEW p \in Steps \ (Preparing \cup Reading), NEW next,
         Leave(w, next, At(w, p)) \/ Leave(w, next, Resting), me[w].pc \in Reading, Follows(me[w].seen.rec, next),
         p \in Carrying => me[w].pc \in Carrying
  PROVE  BoundInv' /\ VersionsKept
<1>1. At(w, p).pc = p /\ At(w, p).job = me[w].job /\ At(w, p).seen = Blank /\ At(w, p).ver = me[w].ver
  BY AtFields
<1>2. me[w].pc \in Carrying => me[w].ver = rec[me[w].job].ver
  BY DEF BoundInv, MemoryOK
<1>3. /\ Resting.seen = Blank /\ Resting.pc \notin Preparing \cup Reading \cup Carrying
      /\ Resting.job \notin Approval
  BY WorkerAssumption DEF Resting, Preparing, Reading, Carrying, Holding
<1>4. CASE Leave(w, next, At(w, p))
  BY <1>1, <1>2, <1>4, LeaveMove
<1>5. CASE Leave(w, next, Resting)
  BY <1>3, <1>5, LeaveMove
<1> QED
  BY <1>4, <1>5

\* A call that begins.
LEMMA BeginMove ==
  ASSUME TypeOK, BoundInv, NEW w \in Worker, Begin(w)
  PROVE  BoundInv' /\ VersionsKept
<1>1. ASSUME NEW a \in Approval, PrepareStart(w, a) PROVE BoundInv' /\ VersionsKept
  <2> DEFINE r == [NoRecord EXCEPT !.route = config.policy, !.asked = config.epoch]
             mine == [Resting EXCEPT !.pc = "resolved", !.job = a, !.seen.rec = r]
  <2>1. r.state = "none"
    BY DEF NoRecord
  <2> HIDE DEF r
  <2>2. mine.pc = "resolved" /\ mine.job = a /\ mine.seen.rec = r
    BY DEF Resting, Blank
  <2> HIDE DEF mine
  <2>3. /\ me' = [me EXCEPT ![w] = mine] /\ rec' = rec /\ beat' = beat
        /\ rec[a].state = "none" /\ \A v \in Worker : me[v].job # a
    BY <1>1 DEF PrepareStart, Only, disk, mine, r
  <2>4. MemoryOK(rec', mine)
    BY <2>1, <2>2, <2>3, PreparingMemory DEF Preparing
  <2>5. VersionsKept /\ \A b \in Approval : Honest(rec'[b])
    BY <2>3 DEF VersionsKept, BoundInv
  <2>6. \A v \in Worker \ {w} : me[v].pc \in Preparing => rec'[me[v].job].state = "none" /\ me[v].job # mine.job
    BY <2>2, <2>3 DEF BoundInv, MemoryOK
  <2> QED
    BY <2>2, <2>3, <2>4, <2>5, <2>6, MoveStep
<1>2. ASSUME NEW a \in Approval,
             SendStart(w, a) \/ ShowEnter(w, a) \/ AnswerEnter(w, a) \/ RevokeEnter(w, a) \/ StatusEnter(w, a)
      PROVE  BoundInv' /\ VersionsKept
  <2>1. \A step \in {"inspecting", "showing", "answering", "revoking", "status"} : step \in Reading /\ step \notin Holding
    BY DEF Reading, Holding
  <2> QED
    BY <1>2, <2>1, EnterMove DEF SendStart, ShowEnter, AnswerEnter, RevokeEnter, StatusEnter
<1>3. ASSUME NEW mine, mine \in {Resting, [Resting EXCEPT !.pc = "list", !.ver = config.epoch + 1], [Resting EXCEPT !.pc = "edit"]},
             me' = [me EXCEPT ![w] = mine], UNCHANGED <<rec, beat>>
      PROVE  BoundInv' /\ VersionsKept
  <2>1. mine.pc \in {"idle", "list", "edit"} /\ mine.job = "none" /\ mine.seen = Blank
    <3>1. CASE mine = Resting
      BY <3>1 DEF Resting
    <3>2. CASE mine = [Resting EXCEPT !.pc = "list", !.ver = config.epoch + 1]
      BY <3>2 DEF Resting
    <3>3. CASE mine = [Resting EXCEPT !.pc = "edit"]
      BY <3>3 DEF Resting
    <3> QED
      BY <1>3, <3>1, <3>2, <3>3
  <2>2. mine.pc \notin Preparing \cup Reading \cup Carrying /\ mine.job \notin Approval
    BY <2>1, WorkerAssumption DEF Preparing, Reading, Carrying, Holding
  <2>3. MemoryOK(rec, mine)
    BY <2>1, <2>2, PlainMemory
  <2> QED
    BY <1>3, <2>2, <2>3, OnlyMove
<1>4. ASSUME NEW p \in Policies, SetPolicy(w, p) PROVE BoundInv' /\ VersionsKept
  BY <1>3, <1>4 DEF SetPolicy, disk
<1>5. ASSUME EditCheck(w) PROVE BoundInv' /\ VersionsKept
  BY <1>3, <1>5 DEF EditCheck, Only, disk
<1> QED
  BY <1>1, <1>2, <1>4, <1>5 DEF Begin

\* A preparation, up to the record.
LEMMA PrepareMove ==
  ASSUME TypeOK, BoundInv, NEW w \in Worker, Prepare(w)
  PROVE  BoundInv' /\ VersionsKept
<1>1. /\ me[w].pc \in Preparing /\ me[w].job \in Approval /\ me[w] \in Memories /\ me[w].seen.rec \in Records
  BY DEF Prepare, PrepareRead, PrepareFit, PrepareRelabel, PrepareReread, PrepareCreate, Preparing, TypeOK, HasJob,
         Memories, Seen
<1>2. me[w].seen.rec.state = "none" /\ rec[me[w].job].state = "none" /\ \A v \in Worker \ {w} : me[v].job # me[w].job
  BY <1>1 DEF BoundInv, MemoryOK
<1>3. ASSUME NEW mine, me' = [me EXCEPT ![w] = mine], UNCHANGED <<rec, beat>>, mine.pc \in Preparing, mine.job = me[w].job,
             mine.seen.rec.state = "none"
      PROVE  BoundInv' /\ VersionsKept
  BY <1>1, <1>2, <1>3, PreparingMemory, OnlyMove
<1>4. ASSUME PrepareRead(w) PROVE BoundInv' /\ VersionsKept
  <2>1. ASSUME NEW next \in {"bound", "fit"},
               Only(w, [me[w] EXCEPT !.pc = next, !.seen.rec.epoch = config.epoch, !.seen.rec.ver = draft])
        PROVE  BoundInv' /\ VersionsKept
    <3> DEFINE mine == [me[w] EXCEPT !.pc = next, !.seen.rec.epoch = config.epoch, !.seen.rec.ver = draft]
    <3>1. mine.pc = next /\ mine.job = me[w].job /\ mine.seen.rec.state = me[w].seen.rec.state
      BY <1>1 DEF Memories, Seen, Records
    <3> HIDE DEF mine
    <3> QED
      BY <1>2, <1>3, <2>1, <3>1 DEF Only, disk, Preparing, mine
  <2> QED
    BY <1>4, <2>1, RestMove DEF PrepareRead, Only, disk
<1>5. ASSUME PrepareFit(w) \/ PrepareRelabel(w) PROVE BoundInv' /\ VersionsKept
  <2>1. ASSUME NEW next \in {"relabel", "reread"}, me' = [me EXCEPT ![w] = [me[w] EXCEPT !.pc = next]], UNCHANGED <<rec, beat>>
        PROVE  BoundInv' /\ VersionsKept
    <3> DEFINE mine == [me[w] EXCEPT !.pc = next]
    <3>1. mine.pc = next /\ mine.job = me[w].job /\ mine.seen = me[w].seen
      BY <1>1 DEF Memories
    <3> HIDE DEF mine
    <3> QED
      BY <1>2, <1>3, <2>1, <3>1 DEF Preparing, mine
  <2> QED
    BY <1>5, <2>1, RestMove DEF PrepareFit, PrepareRelabel, Only, disk
<1>6. ASSUME PrepareReread(w) PROVE BoundInv' /\ VersionsKept
  <2>1. ASSUME Only(w, [me[w] EXCEPT !.pc = "bound", !.seen.rec.ver = draft]) PROVE BoundInv' /\ VersionsKept
    <3> DEFINE mine == [me[w] EXCEPT !.pc = "bound", !.seen.rec.ver = draft]
    <3>1. mine.pc = "bound" /\ mine.job = me[w].job /\ mine.seen.rec.state = me[w].seen.rec.state
      BY <1>1 DEF Memories, Seen, Records
    <3> HIDE DEF mine
    <3> QED
      BY <1>2, <1>3, <2>1, <3>1 DEF Only, disk, Preparing, mine
  <2> QED
    BY <1>6, <2>1, RestMove DEF PrepareReread, Only, disk
<1>7. ASSUME PrepareCreate(w) PROVE BoundInv' /\ VersionsKept
  <2> DEFINE new(route) == [me[w].seen.rec EXCEPT !.state = "pending", !.route = route]
  <2>1. PICK route : rec' = [rec EXCEPT ![me[w].job] = new(route)]
    BY <1>7 DEF PrepareCreate
  <2>2. new(route).state = "pending"
    BY <1>1 DEF Records
  <2> HIDE DEF new
  <2>3. Honest(new(route))
    BY <2>2 DEF Honest, Spent
  <2>4. VersionsKept /\ \A a \in Approval : Honest(rec'[a])
    BY <1>1, <1>2, <2>1, <2>3 DEF VersionsKept, BoundInv, TypeOK
  <2>5. \A v \in Worker \ {w} : me[v].pc \in Preparing => rec'[me[v].job].state = "none" /\ me[v].job # Resting.job
    <3>1. \A v \in Worker \ {w} : me[v].pc \in Preparing =>
            me[v].job \in Approval /\ rec[me[v].job].state = "none" /\ me[v].job # me[w].job
      BY <1>1 DEF BoundInv, MemoryOK, TypeOK, HasJob, Preparing
    <3> QED
      BY <2>1, <3>1, RestingPlain DEF TypeOK
  <2>6. me' = [me EXCEPT ![w] = Resting] /\ beat' = beat
    BY <1>7 DEF PrepareCreate
  <2> QED
    BY <2>4, <2>5, <2>6, RestingPlain, MoveStep
<1> QED
  BY <1>4, <1>5, <1>6, <1>7 DEF Prepare

\* Where each step stands.
LEMMA StepKinds ==
  /\ \A p \in {"read", "claim", "challenge", "void", "approve", "sweep", "idle", "list", "edit"} :
       p \in Steps \ (Preparing \cup Reading) /\ p \notin Carrying
  /\ \A p \in {"reserve", "look", "fence", "call", "wait", "accept", "release", "fail", "lost", "unreserve"} :
       p \in Steps \ (Preparing \cup Reading) /\ p \in Carrying /\ p \in Holding
  /\ "mark" \in Steps \ (Preparing \cup Reading) /\ "mark" \in Carrying
  /\ \A p \in {"fencing", "using", "failing", "losing"} : p \in Reading /\ p \in Holding /\ p \in Carrying
  /\ \A p \in {"inspecting", "claiming", "showing", "challenging", "revoking", "answering", "approving", "status", "sweeping"} :
       p \in Reading /\ p \notin Holding
BY DEF Steps, Preparing, Reading, Carrying, Holding

\* A send, from the first look to the recorded outcome.
LEMMA SendMove ==
  ASSUME TypeOK, BoundInv, NEW w \in Worker, Send(w)
  PROVE  BoundInv' /\ VersionsKept
<1> DEFINE r == me[w].seen.rec
<1>r. r \in Records /\ Follows(r, r) /\ me[w].ver \in Nat /\ me[w].seen.live \in Configs
  BY SameFollows DEF TypeOK, Memories, Seen
<1>j. me[w].pc \in Reading \cup Carrying \cup {"read", "claim"} => me[w].job \in Approval /\ me[w].pc \notin Preparing
  BY DEF TypeOK, HasJob, Reading, Carrying, Holding, Preparing
<1>1. ASSUME Inspected(w) PROVE BoundInv' /\ VersionsKept
  <2> "inspecting" \in Reading /\ "read" \in Steps \ (Preparing \cup Reading) /\ "read" \notin Carrying
    BY StepKinds
  <2>1. Leave(w, r, At(w, "read")) \/ Leave(w, r, Resting)
    BY <1>1 DEF Inspected
  <2> QED
    BY <1>1, <1>r, <2>1, LeaveAt DEF Inspected
<1>2. ASSUME ReadDraft(w) PROVE BoundInv' /\ VersionsKept
  <2>1. ASSUME Only(w, [At(w, "claim") EXCEPT !.ver = draft]) PROVE BoundInv' /\ VersionsKept
    <3> DEFINE mine == [At(w, "claim") EXCEPT !.ver = draft]
    <3>1. mine.pc = "claim" /\ mine.seen = Blank /\ mine.job = me[w].job
      BY AtFields, StepKinds DEF Memories
    <3>2. me' = [me EXCEPT ![w] = mine] /\ UNCHANGED <<rec, beat>>
      BY <2>1 DEF Only, disk
    <3>3. me[w].pc \notin Preparing
      BY <1>2, <1>j DEF ReadDraft
    <3> HIDE DEF mine
    <3> QED
      BY <3>1, <3>2, <3>3, AtMove, StepKinds
  <2> QED
    BY <1>2, <2>1, RestMove DEF ReadDraft, Only, disk
<1>3. ASSUME ClaimEnter(w) \/ FenceEnter(w) \/ UseEnter(w) \/ FailEnter(w) \/ LostEnter(w) PROVE BoundInv' /\ VersionsKept
  <2>1. \E step \in {"claiming", "fencing", "using", "failing", "losing"}, action \in {"claim", "inspect"} :
          Enter(w, me[w].job, step, action) /\ (step # "claiming" => me[w].pc \in Holding) /\ me[w].job \in Approval
    BY <1>3, <1>j, StepKinds DEF ClaimEnter, FenceEnter, UseEnter, FailEnter, LostEnter
  <2> QED
    BY <2>1, EnterMove, StepKinds
<1>4. ASSUME ClaimLeave(w) PROVE BoundInv' /\ VersionsKept
  <2>1. PICK agrees \in BOOLEAN :
          LET next == ClaimDecision(r, me[w].seen.live, me[w].ver, agrees)
          IN  Leave(w, next, IF r.state \in Active /\ next.state = "sending"
                             THEN [At(w, "mark") EXCEPT !.ver = r.ver] ELSE Resting)
    BY <1>4 DEF ClaimLeave
  <2> DEFINE next == ClaimDecision(r, me[w].seen.live, me[w].ver, agrees)
             mine == [At(w, "mark") EXCEPT !.ver = r.ver]
  <2>2. Follows(r, next)
    BY <1>r, ClaimFollows
  <2>3. mine.pc = "mark" /\ mine.seen = Blank /\ mine.job = me[w].job /\ mine.ver = r.ver
    BY AtFields, StepKinds DEF Memories
  <2>4. me[w].pc \in Reading /\ r.ver = rec[me[w].job].ver
    BY <1>4, StepKinds DEF ClaimLeave, BoundInv, MemoryOK
  <2>5. Leave(w, next, mine) \/ Leave(w, next, Resting)
    BY <2>1
  <2> HIDE DEF next, mine
  <2>6. CASE Leave(w, next, mine)
    BY <2>2, <2>3, <2>4, <2>6, StepKinds, LeaveMove
  <2>7. CASE Leave(w, next, Resting)
    BY <2>2, <2>4, <2>7, StepKinds, LeaveAt
  <2> QED
    BY <2>5, <2>6, <2>7
<1>5. ASSUME NEW p \in {"reserve", "look", "fence", "wait", "accept", "release", "fail"}, me[w].pc \in Carrying,
             me' = [me EXCEPT ![w] = At(w, p)], UNCHANGED <<rec, beat>>
      PROVE  BoundInv' /\ VersionsKept
  <2>1. p \in Steps \ (Preparing \cup Reading)
    BY StepKinds
  <2>2. At(w, p).pc = p /\ At(w, p).job = me[w].job /\ At(w, p).seen = Blank /\ At(w, p).ver = me[w].ver
    BY <2>1, AtFields
  <2>3. me[w].pc \notin Preparing
    BY <1>5, <1>j
  <2> QED
    BY <1>5, <2>1, <2>2, <2>3, AtMove
<1>6. ASSUME Mark(w) \/ Reserve(w) \/ LastLook(w) \/ Call(w) \/ AnswerLost(w) \/ Release(w) \/ Unreserve(w)
      PROVE  BoundInv' /\ VersionsKept
  <2>1. me[w].pc \in Carrying /\ UNCHANGED <<rec, beat>>
    BY <1>6, StepKinds DEF Mark, Reserve, LastLook, Call, AnswerLost, Release, Unreserve, Only, disk
  <2>2. \/ me' = [me EXCEPT ![w] = Resting]
        \/ \E p \in {"reserve", "look", "fence", "wait", "release", "fail"} : me' = [me EXCEPT ![w] = At(w, p)]
    BY <1>6 DEF Mark, Reserve, LastLook, Call, AnswerLost, Release, Unreserve, Only
  <2> QED
    BY <1>5, <2>1, <2>2, RestMove
<1>7. ASSUME FenceLeave(w) PROVE BoundInv' /\ VersionsKept
  <2>1. PICK p \in {"call", "lost"} : Leave(w, Renew(r), At(w, p))
    BY <1>7 DEF FenceLeave
  <2> QED
    BY <1>7, <1>r, <2>1, RenewFollows, StepKinds, LeaveAt DEF FenceLeave
<1>8. ASSUME Answered(w) PROVE BoundInv' /\ VersionsKept
  <2>1. me' = [me EXCEPT ![w] = AfterAnswer(w, wire[me[w].job])] /\ UNCHANGED <<rec, beat>> /\ me[w].pc \in Carrying
    BY <1>8, StepKinds DEF Answered, disk
  <2> DEFINE again == [At(w, "look") EXCEPT !.retries = @ + 1]
  <2>2. AfterAnswer(w, wire[me[w].job]) \in {At(w, "accept"), Resting, again, At(w, "release")}
    BY DEF AfterAnswer
  <2>3. again.pc = "look" /\ again.seen = Blank /\ again.job = me[w].job /\ again.ver = me[w].ver
    BY AtFields, StepKinds DEF Memories
  <2> HIDE DEF again
  <2>4. ASSUME me' = [me EXCEPT ![w] = again] PROVE BoundInv' /\ VersionsKept
    BY <1>j, <2>1, <2>3, <2>4, StepKinds, AtMove
  <2> QED
    BY <1>5, <2>1, <2>2, <2>4, RestMove
<1>9. ASSUME UseLeave(w) \/ FailLeave(w) \/ LostLeave(w) PROVE BoundInv' /\ VersionsKept
  <2>1. /\ me[w].pc \in Reading /\ me[w].pc \in Carrying
        /\ \E s \in {"used", "failed"} : Leave(w, Outcome(r, s), At(w, "unreserve")) \/ Leave(w, Outcome(r, s), Resting)
    BY <1>9, StepKinds DEF UseLeave, FailLeave, LostLeave
  <2> QED
    BY <1>r, <2>1, OutcomeFollows, StepKinds, LeaveAt
<1> QED
  BY <1>1, <1>2, <1>3, <1>4, <1>6, <1>7, <1>8, <1>9 DEF Send

\* The person's calls.
LEMMA PersonMove ==
  ASSUME TypeOK, BoundInv, NEW w \in Worker, Person(w)
  PROVE  BoundInv' /\ VersionsKept
<1> DEFINE r == me[w].seen.rec
<1>r. r \in Records /\ Follows(r, r) /\ me[w].ver \in Nat
  BY SameFollows DEF TypeOK, Memories, Seen
<1>1. ASSUME NEW next, Follows(r, next), me[w].pc \in Reading,
             Leave(w, next, Resting) \/ \E p \in {"challenge", "void"} : Leave(w, next, At(w, p))
      PROVE  BoundInv' /\ VersionsKept
  <2>1. PICK p \in {"challenge", "void"} : Leave(w, next, At(w, p)) \/ Leave(w, next, Resting)
    BY <1>1
  <2>2. p \in Steps \ (Preparing \cup Reading) /\ p \notin Carrying
    BY StepKinds
  <2> QED
    BY <1>1, <2>1, <2>2, LeaveAt
<1>2. ASSUME ShowLeave(w) PROVE BoundInv' /\ VersionsKept
  BY <1>1, <1>2, <1>r, StepKinds DEF ShowLeave
<1>3. ASSUME ChallengeEnter(w) \/ VoidEnter(w) \/ ApproveEnter(w) PROVE BoundInv' /\ VersionsKept
  <2>1. me[w].job \in Approval
    BY <1>3 DEF ChallengeEnter, VoidEnter, ApproveEnter, TypeOK, HasJob
  <2> QED
    BY <1>3, <2>1, EnterMove, StepKinds DEF ChallengeEnter, VoidEnter, ApproveEnter
<1>4. ASSUME ChallengeLeave(w) PROVE BoundInv' /\ VersionsKept
  <2> DEFINE q == [r EXCEPT !.code = TRUE]
  <2>1. q \in Records /\ \A f \in {"state", "route", "ver", "yes"} : q[f] = r[f]
    BY <1>r DEF Records
  <2> HIDE DEF q
  <2>2. Follows(r, q)
    BY <2>1 DEF Follows, Honest
  <2> QED
    BY <1>1, <1>4, <1>r, <2>2, StepKinds DEF ChallengeLeave, q
<1>5. ASSUME AnswerLeave(w) PROVE BoundInv' /\ VersionsKept
  <2> DEFINE mine == [At(w, "approve") EXCEPT !.ver = draft]
  <2>1. mine.pc = "approve" /\ mine.seen = Blank /\ mine.job = me[w].job
    BY AtFields, StepKinds DEF Memories
  <2>2. Leave(w, r, mine) \/ Leave(w, r, Resting)
    BY <1>5 DEF AnswerLeave
  <2>3. me[w].pc \in Reading
    BY <1>5, StepKinds DEF AnswerLeave
  <2> HIDE DEF mine
  <2>4. CASE Leave(w, r, mine)
    BY <1>r, <2>1, <2>3, <2>4, StepKinds, LeaveMove
  <2> QED
    BY <1>1, <1>r, <2>2, <2>3, <2>4
<1>6. ASSUME ApproveLeave(w) PROVE BoundInv' /\ VersionsKept
  BY <1>1, <1>6, <1>r, ApproveFollows, StepKinds DEF ApproveLeave
<1>7. ASSUME RevokeLeave(w) \/ StatusLeave(w) PROVE BoundInv' /\ VersionsKept
  BY <1>1, <1>7, <1>r, RevokedFollows, StepKinds DEF RevokeLeave, StatusLeave
<1> QED
  BY <1>2, <1>3, <1>4, <1>5, <1>6, <1>7 DEF Person

\* The sweep after never.
LEMMA SweepMove ==
  ASSUME TypeOK, BoundInv, NEW w \in Worker, Sweep(w)
  PROVE  BoundInv' /\ VersionsKept
<1>r. me[w] \in Memories /\ me[w].seen.rec \in Records
  BY DEF TypeOK, Memories, Seen
<1>a. /\ At(w, "sweep") \in Memories /\ At(w, "sweep").pc = "sweep" /\ At(w, "sweep").job = me[w].job
      /\ At(w, "sweep").seen = Blank
  BY AtFields, StepKinds
<1>s. "sweep" \in Steps \ (Preparing \cup Reading) /\ "sweep" \notin Carrying
  BY StepKinds
<1>1. ASSUME SweepList(w) PROVE BoundInv' /\ VersionsKept
  <2> DEFINE mine == [At(w, "sweep") EXCEPT !.todo = {a \in Approval : Derive(rec[a]).state \in Active}]
  <2>1. mine.pc = "sweep" /\ mine.seen = Blank /\ mine.job = me[w].job
    BY <1>a DEF Memories
  <2>2. me' = [me EXCEPT ![w] = mine] /\ UNCHANGED <<rec, beat>> /\ me[w].pc \notin Preparing
    BY <1>1, StepKinds DEF SweepList, Only, disk
  <2> HIDE DEF mine
  <2> QED
    BY <1>s, <2>1, <2>2, AtMove
<1>2. ASSUME NEW a \in Approval, SweepEnter(w, a) PROVE BoundInv' /\ VersionsKept
  BY <1>2, EnterMove, StepKinds DEF SweepEnter
<1>3. ASSUME SweepLeave(w) PROVE BoundInv' /\ VersionsKept
  <2> DEFINE mine == [At(w, "sweep") EXCEPT !.job = "none", !.todo = @ \ {me[w].job}]
             next == Revoked(me[w].seen.rec)
  <2>1. mine.pc = "sweep" /\ mine.seen = Blank /\ mine.job \notin Approval
    BY <1>a, WorkerAssumption DEF Memories
  <2>2. Leave(w, next, mine) /\ me[w].pc \in Reading /\ Follows(me[w].seen.rec, next)
    BY <1>3, <1>r, StepKinds, RevokedFollows DEF SweepLeave
  <2> HIDE DEF mine, next
  <2> QED
    BY <1>s, <2>1, <2>2, LeaveMove
<1>4. ASSUME NEW a \in Approval, SweepMiss(w, a) PROVE BoundInv' /\ VersionsKept
  <2> DEFINE mine == [me[w] EXCEPT !.todo = @ \ {a}]
  <2>1. mine.pc = "sweep" /\ mine.seen = me[w].seen /\ mine.job = me[w].job
    BY <1>4, <1>r DEF Memories, SweepMiss
  <2>2. me' = [me EXCEPT ![w] = mine] /\ UNCHANGED <<rec, beat>> /\ me[w].pc = "sweep"
    BY <1>4 DEF SweepMiss, disk
  <2> HIDE DEF mine
  <2>3. MemoryOK(rec, mine)
    BY <1>s, <2>1, <2>2 DEF BoundInv, MemoryOK
  <2> QED
    BY <1>s, <2>1, <2>2, <2>3, OnlyMove
<1>5. ASSUME SweepEnd(w) PROVE BoundInv' /\ VersionsKept
  BY <1>5, RestMove DEF SweepEnd, disk
<1> QED
  BY <1>1, <1>2, <1>3, <1>4, <1>5 DEF Sweep

\* A call that waited too long for a record's lock.
LEMMA TimeOutMove ==
  ASSUME TypeOK, BoundInv, NEW w \in Worker, TimeOut(w)
  PROVE  BoundInv' /\ VersionsKept
<1>1. /\ UNCHANGED <<rec, beat>>
      /\ \/ me' = [me EXCEPT ![w] = Resting]
         \/ me[w].pc \in {"fence", "lost"} /\ \E p \in {"lost", "unreserve"} : me' = [me EXCEPT ![w] = At(w, p)]
  BY DEF TimeOut, Only, disk
<1>2. ASSUME NEW p \in {"lost", "unreserve"}, me[w].pc \in {"fence", "lost"}, me' = [me EXCEPT ![w] = At(w, p)]
      PROVE  BoundInv' /\ VersionsKept
  <2>1. p \in Steps \ (Preparing \cup Reading) /\ me[w].pc \in Carrying /\ me[w].pc \notin Preparing
    BY <1>2, StepKinds
  <2>2. At(w, p).pc = p /\ At(w, p).job = me[w].job /\ At(w, p).seen = Blank /\ At(w, p).ver = me[w].ver
    BY <2>1, AtFields
  <2> QED
    BY <1>1, <1>2, <2>1, <2>2, AtMove
<1> QED
  BY <1>1, <1>2, RestMove

\* Only timers and records move, records keep what is bound.
LEMMA TimerStep ==
  ASSUME TypeOK, BoundInv, me' = me, VersionsKept, \A a \in Approval : Honest(rec'[a]),
         \A a \in Approval : rec[a].state = "none" => rec'[a].state = "none",
         \A w \in Worker : BeatOK(rec', beat'[w])
  PROVE  BoundInv'
<1>1. ASSUME NEW w \in Worker PROVE MemoryOK(rec', me[w])
  <2>1. me[w] \in Memories /\ HasJob(me[w]) /\ MemoryOK(rec, me[w])
    BY DEF TypeOK, BoundInv
  <2>2. me[w].pc \in Preparing => me[w].job \in Approval /\ rec[me[w].job].state = "none"
    BY <2>1 DEF HasJob, Preparing, MemoryOK
  <2> QED
    BY <2>1, <2>2, StillAgrees
<1> QED
  BY <1>1 DEF BoundInv

\* The lease's timer takes the lock and reads, and later renews and lets go.
LEMMA BeatMove ==
  ASSUME TypeOK, BoundInv, NEW w \in Worker, BeatEnter(w) \/ BeatLeave(w)
  PROVE  BoundInv' /\ VersionsKept
<1>1. ASSUME BeatEnter(w) PROVE BoundInv' /\ VersionsKept
  <2> DEFINE a == me[w].job
             q == Settle(rec[a], config, "inspect")
  <2>1. a \in Approval /\ me[w].pc \notin Preparing /\ rec[a].state # "none"
    BY <1>1 DEF BeatEnter, TypeOK, HasJob, Holding, Preparing, BoundInv, MemoryOK
  <2>2. Follows(rec[a], q) /\ Honest(rec[a])
    BY <2>1, SettleFollows DEF TypeOK, BoundInv
  <2>3. /\ rec' = rec /\ me' = me
        /\ beat' = [beat EXCEPT ![w] = [on |-> TRUE, job |-> a, seen |-> Snapshot(a, "inspect")]]
        /\ Snapshot(a, "inspect").rec = q
    BY <1>1 DEF BeatEnter, Snapshot
  <2> HIDE DEF q
  <2>4. \A v \in Worker : BeatOK(rec', beat'[v])
    BY <2>1, <2>2, <2>3 DEF TypeOK, BoundInv, BeatOK, Follows
  <2>5. VersionsKept /\ \A b \in Approval : Honest(rec'[b])
    BY <2>3 DEF VersionsKept, BoundInv
  <2> QED
    BY <2>3, <2>4, <2>5, TimerStep
<1>2. ASSUME BeatLeave(w) PROVE BoundInv' /\ VersionsKept
  <2> DEFINE a == beat[w].job
             q == Renew(beat[w].seen.rec)
  <2>1. /\ a \in Approval /\ beat[w].seen.rec \in Records /\ Honest(beat[w].seen.rec)
        /\ beat[w].seen.rec.state # "none" /\ rec[a].state # "none" /\ beat[w].seen.rec.ver = rec[a].ver
    BY <1>2 DEF BeatLeave, TypeOK, Beats, Seen, BoundInv, BeatOK
  <2>2. Honest(q) /\ q.state # "none" /\ q.ver = rec[a].ver
    BY <2>1, RenewFollows DEF Follows
  <2>3. /\ rec' = rec \/ rec' = [rec EXCEPT ![a] = q]
        /\ me' = me /\ beat' = [beat EXCEPT ![w] = Quiet]
    BY <1>2 DEF BeatLeave, Put
  <2> HIDE DEF q
  <2>4. VersionsKept /\ \A b \in Approval : Honest(rec'[b]) /\ (rec[b].state = "none" => rec'[b].state = "none")
    BY <2>1, <2>2, <2>3 DEF VersionsKept, BoundInv, TypeOK
  <2>5. \A v \in Worker : BeatOK(rec', beat[v])
    BY <2>4, StillBeats DEF TypeOK, BoundInv
  <2>6. BeatOK(rec', Quiet)
    BY DEF BeatOK, Quiet
  <2>7. \A v \in Worker : BeatOK(rec', beat'[v])
    BY <2>3, <2>5, <2>6 DEF TypeOK
  <2> QED
    BY <2>3, <2>4, <2>7, TimerStep
<1> QED
  BY <1>1, <1>2

\* A crash, or nothing that concerns records, calls and timers.
LEMMA CrashMove ==
  ASSUME TypeOK, BoundInv, NEW w \in Worker, Crash(w)
  PROVE  BoundInv' /\ VersionsKept
<1>1. /\ rec' = rec /\ beat' = [beat EXCEPT ![w] = Quiet] /\ me' = [me EXCEPT ![w] = Resting]
  BY DEF Crash
<1>2. \A v \in Worker : BeatOK(rec', beat'[v])
  BY <1>1 DEF TypeOK, BoundInv, BeatOK, Quiet
<1>3. me'[w] = Resting /\ \A v \in Worker \ {w} : me'[v] = me[v]
  BY <1>1 DEF TypeOK
<1>4. \A v \in Worker : MemoryOK(rec', me'[v])
  BY <1>1, <1>3, RestingPlain DEF BoundInv
<1>5. ASSUME NEW u \in Worker, me'[u].pc \in Preparing, NEW v \in Worker \ {u} PROVE me'[v].job # me'[u].job
  <2>1. u # w /\ me[u].job \in Approval
    BY <1>3, <1>5, RestingPlain DEF TypeOK, HasJob, Preparing
  <2> QED
    BY <1>3, <1>5, <2>1, RestingPlain DEF BoundInv
<1> QED
  BY <1>1, <1>2, <1>4, <1>5 DEF BoundInv, VersionsKept

\* The clock moves: ages, and nothing that is bound.
LEMMA ClockMove ==
  ASSUME TypeOK, BoundInv, NEW d \in Int, Clock(d)
  PROVE  BoundInv' /\ VersionsKept
<1>1. ASSUME NEW a \in Approval
      PROVE  rec'[a] = Aged(rec[a], d) /\ Follows(rec[a], rec'[a]) /\ rec'[a].state = rec[a].state
  BY AgedFollows DEF Clock, TypeOK
<1>2. ASSUME NEW w \in Worker
      PROVE  /\ me'[w].pc = me[w].pc /\ me'[w].job = me[w].job /\ me'[w].ver = me[w].ver
             /\ Follows(me[w].seen.rec, me'[w].seen.rec) /\ me'[w].seen.rec.state = me[w].seen.rec.state
  <2>1. me[w] \in Memories /\ me[w].seen \in Seen /\ me[w].seen.rec \in Records
    BY DEF TypeOK, Memories, Seen
  <2>2. me'[w] = [me[w] EXCEPT !.seen.rec = Aged(@, d)]
    BY DEF Clock
  <2>3. /\ me'[w].pc = me[w].pc /\ me'[w].job = me[w].job /\ me'[w].ver = me[w].ver
        /\ me'[w].seen.rec = Aged(me[w].seen.rec, d)
    BY <2>1, <2>2 DEF Memories, Seen
  <2> QED
    BY <2>1, <2>3, AgedFollows
<1>3. ASSUME NEW w \in Worker
      PROVE  /\ beat'[w].on = beat[w].on /\ beat'[w].job = beat[w].job
             /\ Follows(beat[w].seen.rec, beat'[w].seen.rec) /\ beat'[w].seen.rec.state = beat[w].seen.rec.state
  <2>1. beat[w] \in Beats /\ beat[w].seen \in Seen /\ beat[w].seen.rec \in Records
    BY DEF TypeOK, Beats, Seen
  <2>2. beat'[w] = [beat[w] EXCEPT !.seen.rec = Aged(@, d)]
    BY DEF Clock
  <2>3. beat'[w].on = beat[w].on /\ beat'[w].job = beat[w].job /\ beat'[w].seen.rec = Aged(beat[w].seen.rec, d)
    BY <2>1, <2>2 DEF Beats, Seen
  <2> QED
    BY <2>1, <2>3, AgedFollows
<1>4. \A a \in Approval : Honest(rec'[a])
  BY <1>1 DEF BoundInv, Follows
<1>5. VersionsKept
  BY <1>1 DEF VersionsKept, Follows
<1>6. ASSUME NEW w \in Worker PROVE MemoryOK(rec', me'[w])
  <2>1. MemoryOK(rec, me[w]) /\ HasJob(me[w])
    BY DEF BoundInv, TypeOK
  <2>2. me[w].pc \in Preparing \cup Reading \cup Carrying => me[w].job \in Approval
    BY <2>1 DEF HasJob, Preparing, Reading, Carrying, Holding
  <2> QED
    BY <1>1, <1>2, <2>1, <2>2 DEF MemoryOK, Follows
<1>7. ASSUME NEW w \in Worker PROVE BeatOK(rec', beat'[w])
  <2>1. BeatOK(rec, beat[w]) /\ (beat[w].on => beat[w].job \in Approval)
    BY DEF BoundInv, TypeOK
  <2> QED
    BY <1>1, <1>3, <2>1 DEF BeatOK, Follows
<1>8. ASSUME NEW u \in Worker, me'[u].pc \in Preparing, NEW v \in Worker \ {u} PROVE me'[v].job # me'[u].job
  BY <1>2, <1>8 DEF BoundInv
<1> QED
  BY <1>4, <1>5, <1>6, <1>7, <1>8 DEF BoundInv

LEMMA BoundInit == Init => BoundInv
<1> SUFFICES ASSUME Init PROVE BoundInv
  OBVIOUS
<1>1. Honest(NoRecord)
  BY DEF Honest, NoRecord, Spent
<1>2. \A a \in Approval : Honest(rec[a])
  BY <1>1 DEF Init
<1>3. \A w \in Worker : MemoryOK(rec, me[w]) /\ BeatOK(rec, beat[w]) /\ me[w].pc \notin Preparing
  BY RestingPlain DEF Init, BeatOK, Quiet
<1> QED
  BY <1>2, <1>3 DEF BoundInv

LEMMA BoundNext == TypeOK /\ BoundInv /\ [Next]_vars => BoundInv' /\ VersionsKept
<1> SUFFICES ASSUME TypeOK, BoundInv, [Next]_vars PROVE BoundInv' /\ VersionsKept
  OBVIOUS
<1>s. ASSUME UNCHANGED <<rec, me, beat>> PROVE BoundInv' /\ VersionsKept
  BY <1>s DEF BoundInv, VersionsKept
<1>1. ASSUME NEW w \in Worker, Begin(w) \/ Continue(w) PROVE BoundInv' /\ VersionsKept
  <2>1. CASE EditApply(w)
    BY <2>1, RestMove DEF EditApply, disk
  <2> QED
    BY <1>1, <2>1, BeginMove, PrepareMove, SendMove, PersonMove, SweepMove, TimeOutMove DEF Continue
<1>2. ASSUME NEW w \in Worker, BeatEnter(w) \/ BeatLeave(w) PROVE BoundInv' /\ VersionsKept
  BY <1>2, BeatMove
<1>3. ASSUME NEW w \in Worker, Crash(w) PROVE BoundInv' /\ VersionsKept
  BY <1>3, CrashMove
<1>4. ASSUME (\E a \in Approval : ProviderAccepts(a) \/ ProviderRefuses(a) \/ TakeOver(a))
             \/ WebEdit \/ RemoveOwner \/ UNCHANGED vars
      PROVE  BoundInv' /\ VersionsKept
  <2>1. UNCHANGED <<rec, me, beat>>
    BY <1>4 DEF ProviderAccepts, ProviderRefuses, TakeOver, WebEdit, RemoveOwner, vars, disk
  <2> QED
    BY <1>s, <2>1
<1>5. ASSUME Tick \/ StepBack PROVE BoundInv' /\ VersionsKept
  <2>1. Clock(1) \/ Clock(-1)
    BY <1>5 DEF Tick, StepBack
  <2> QED
    BY <2>1, ClockMove
<1> QED
  BY <1>1, <1>2, <1>3, <1>4, <1>5 DEF Next

\* What a record says of its person is so, in every file and in every memory that will
\* be written, and no transition changes the version an approval binds (approve, claimForSend).
THEOREM BoundInvHolds == Spec => []BoundInv
<1> QED
  BY InitType, BoundInit, NextType, BoundNext, PTL DEF Spec

\* A send that asks for a person went past the claim only once a person answered its
\* challenge for the version that is bound: claimForSend looks at the record's own route,
\* and no stalled writer turns an unanswered record into an answered one.
THEOREM ConfirmNeedsPersonHolds == Spec => []ConfirmNeedsPerson
<1>1. BoundInv => ConfirmNeedsPerson
  BY DEF BoundInv, Honest, Spent, ConfirmNeedsPerson
<1> QED
  BY <1>1, BoundInvHolds, PTL

-----------------------------------------------------------------------------
(* What goes out is what was bound *)

\* Nobody edits a draft under a send, and the suite's own draft edits are not among the calls.
Steady == "late" \notin Edits /\ "tool" \notin Edits

\* The steps of the suite's own edits.
Editing == {"fit", "relabel", "reread", "edit"}

\* What the last look saw is what a request carries, up to the provider's answer.
DraftInv ==
  /\ \A w \in Worker : me[w].pc \notin Editing /\ (me[w].pc \in Looked => draft \in {0, me[w].ver})
  /\ \A a \in Approval : wire[a] = "asked" => rec[a].state # "none" /\ draft \in {0, rec[a].ver}
  /\ \A a \in Approval : sent[a] \subseteq {rec[a].ver}
  /\ \A a \in Approval : rec[a].state = "none" => sent[a] = {}

\* A step that leaves the draft to the provider.
LEMMA DraftStep ==
  ASSUME TypeOK, BoundInv, VersionsKept, DraftInv, draft' \in {0, draft},
         \A a \in Approval : wire'[a] = "asked" => wire[a] = "asked" \/ (rec[a].state # "none" /\ draft \in {0, rec[a].ver}),
         \A a \in Approval : sent'[a] = sent[a] \/ (wire[a] = "asked" /\ draft # 0 /\ sent'[a] = sent[a] \cup {draft}),
         \A w \in Worker : me'[w].pc \notin Editing /\ (me'[w].pc \in Looked => draft \in {0, me'[w].ver})
  PROVE  DraftInv'
<1>1. ASSUME NEW a \in Approval, wire'[a] = "asked" PROVE rec'[a].state # "none" /\ draft' \in {0, rec'[a].ver}
  <2>1. rec[a].state # "none" /\ draft \in {0, rec[a].ver}
    BY <1>1 DEF DraftInv
  <2> QED
    BY <2>1 DEF VersionsKept
<1>2. ASSUME NEW a \in Approval PROVE sent'[a] \subseteq {rec'[a].ver} /\ (rec'[a].state = "none" => sent'[a] = {})
  <2>1. CASE rec[a].state = "none"
    <3>1. sent[a] = {} /\ wire[a] # "asked"
      BY <2>1 DEF DraftInv
    <3> QED
      BY <3>1
  <2>2. CASE rec[a].state # "none"
    <3>1. rec'[a].ver = rec[a].ver /\ rec'[a].state # "none"
      BY <2>2 DEF VersionsKept
    <3>2. sent[a] \subseteq {rec[a].ver} /\ (wire[a] = "asked" /\ draft # 0 => draft = rec[a].ver)
      BY DEF DraftInv
    <3> QED
      BY <3>1, <3>2
  <2> QED
    BY <2>1, <2>2
<1>3. \A w \in Worker : me'[w].pc \notin Editing /\ (me'[w].pc \in Looked => draft' \in {0, me'[w].ver})
  OBVIOUS
<1> QED
  BY <1>1, <1>2, <1>3 DEF DraftInv

\* A call goes to a step neither of an edit nor past a last look.
Away(w) == \E mine : me' = [me EXCEPT ![w] = mine] /\ mine.pc \notin Editing \cup Looked

\* Calls once w's goes on.
LEMMA LookMove ==
  ASSUME TypeOK, DraftInv, NEW w \in Worker, NEW mine, me' = [me EXCEPT ![w] = mine], mine.pc \notin Editing,
         mine.pc \in Looked => draft \in {0, mine.ver}
  PROVE  \A v \in Worker : me'[v].pc \notin Editing /\ (me'[v].pc \in Looked => draft \in {0, me'[v].ver})
<1>1. me'[w] = mine /\ \A v \in Worker \ {w} : me'[v] = me[v]
  BY DEF TypeOK
<1> QED
  BY <1>1 DEF DraftInv

LEMMA RestingAway == Resting.pc \notin Editing \cup Looked
  BY DEF Resting, Editing, Looked

LEMMA AtAway ==
  ASSUME TypeOK, NEW w \in Worker, NEW p \in Steps \ (Editing \cup Looked)
  PROVE  At(w, p).pc \notin Editing \cup Looked
  BY AtFields

LEMMA EnterAway ==
  ASSUME TypeOK, NEW w \in Worker, NEW a, NEW step \in Steps \ (Editing \cup Looked), NEW action, Enter(w, a, step, action)
  PROVE  Away(w)
<1> DEFINE mine == [me[w] EXCEPT !.pc = step, !.job = a, !.seen = Snapshot(a, action)]
<1>1. mine.pc = step
  BY DEF TypeOK, Memories
<1>2. me' = [me EXCEPT ![w] = mine]
  BY DEF Enter
<1> HIDE DEF mine
<1> QED
  BY <1>1, <1>2 DEF Away

\* The steps that neither edit nor follow a last look.
LEMMA AwayKinds ==
  {"idle", "resolved", "bound", "inspecting", "read", "claim", "claiming", "mark", "showing", "challenge", "challenging",
   "void", "revoking", "answering", "approve", "approving", "status", "list", "sweep", "sweeping", "reserve", "look", "wait",
   "accept", "using", "release", "fail", "failing", "lost", "losing", "unreserve"} \subseteq Steps \ (Editing \cup Looked)
BY DEF Steps, Editing, Looked, Holding

\* Calls that begin and calls that prepare.
LEMMA BeginAway ==
  ASSUME TypeOK, DraftInv, Steady, NEW w \in Worker, Begin(w) \/ Prepare(w)
  PROVE  Away(w) /\ UNCHANGED provider
<1>m. me[w] \in Memories /\ me[w].pc \notin Editing
  BY DEF TypeOK, DraftInv
<1>1. ASSUME NEW a \in Approval, PrepareStart(w, a) PROVE Away(w) /\ UNCHANGED provider
  <2> DEFINE mine == [Resting EXCEPT !.pc = "resolved", !.job = a,
                        !.seen.rec = [NoRecord EXCEPT !.route = config.policy, !.asked = config.epoch]]
  <2>1. mine.pc = "resolved"
    BY DEF Resting
  <2>2. me' = [me EXCEPT ![w] = mine] /\ UNCHANGED provider
    BY <1>1 DEF PrepareStart, Only
  <2> HIDE DEF mine
  <2> QED
    BY <2>1, <2>2, AwayKinds DEF Away
<1>2. ASSUME NEW a \in Approval,
             SendStart(w, a) \/ ShowEnter(w, a) \/ AnswerEnter(w, a) \/ RevokeEnter(w, a) \/ StatusEnter(w, a)
      PROVE  Away(w) /\ UNCHANGED provider
  <2>1. UNCHANGED provider
    BY <1>2 DEF SendStart, ShowEnter, AnswerEnter, RevokeEnter, StatusEnter, Enter
  <2> QED
    BY <1>2, <2>1, AwayKinds, EnterAway DEF SendStart, ShowEnter, AnswerEnter, RevokeEnter, StatusEnter
<1>3. ASSUME NEW p \in Policies, SetPolicy(w, p) PROVE Away(w) /\ UNCHANGED provider
  <2> DEFINE mine == [Resting EXCEPT !.pc = "list", !.ver = config.epoch + 1]
  <2>1. mine.pc = "list"
    BY DEF Resting
  <2>2. me' = [me EXCEPT ![w] = mine] \/ me' = [me EXCEPT ![w] = Resting]
    BY <1>3 DEF SetPolicy
  <2>3. UNCHANGED provider
    BY <1>3 DEF SetPolicy
  <2> HIDE DEF mine
  <2> QED
    BY <2>1, <2>2, <2>3, AwayKinds, RestingAway DEF Away
<1>4. ASSUME PrepareRead(w) PROVE Away(w) /\ UNCHANGED provider
  <2> DEFINE mine == [me[w] EXCEPT !.pc = "bound", !.seen.rec.epoch = config.epoch, !.seen.rec.ver = draft]
  <2>1. mine.pc = "bound"
    BY <1>m DEF Memories
  <2>2. Only(w, mine) \/ Only(w, Resting)
    BY <1>4 DEF PrepareRead, Steady
  <2> HIDE DEF mine
  <2> QED
    BY <2>1, <2>2, AwayKinds, RestingAway DEF Away, Only
<1>5. ASSUME PrepareCreate(w) PROVE Away(w) /\ UNCHANGED provider
  BY <1>5, RestingAway DEF PrepareCreate, Away
<1>6. ~EditCheck(w) /\ ~PrepareFit(w) /\ ~PrepareRelabel(w) /\ ~PrepareReread(w)
  BY <1>m DEF EditCheck, Steady, PrepareFit, PrepareRelabel, PrepareReread, Editing
<1> QED
  BY <1>1, <1>2, <1>3, <1>4, <1>5, <1>6 DEF Begin, Prepare

LEMMA LeaveAway ==
  ASSUME NEW w \in Worker, NEW next, NEW mine, Leave(w, next, mine), mine.pc \notin Editing \cup Looked
  PROVE  Away(w) /\ UNCHANGED provider
  BY DEF Leave, Away

LEMMA OnlyAway ==
  ASSUME NEW w \in Worker, NEW mine, Only(w, mine), mine.pc \notin Editing \cup Looked
  PROVE  Away(w) /\ UNCHANGED provider
  BY DEF Only, Away

\* The steps of a send away from its last look.
LEMMA SendAway ==
  ASSUME TypeOK, DraftInv, NEW w \in Worker, Send(w)
  PROVE  \/ Away(w) /\ UNCHANGED provider
         \/ LastLook(w) \/ FenceEnter(w) \/ FenceLeave(w) \/ Call(w) \/ Answered(w)
<1>a. \A p \in {"read", "claim", "mark", "reserve", "look", "release", "fail", "unreserve"} :
        At(w, p) \in Memories /\ At(w, p).pc = p /\ p \notin Editing \cup Looked
  BY AtFields, AwayKinds
<1>1. ASSUME Inspected(w) PROVE Away(w) /\ UNCHANGED provider
  <2>1. Leave(w, me[w].seen.rec, At(w, "read")) \/ Leave(w, me[w].seen.rec, Resting)
    BY <1>1 DEF Inspected
  <2> QED
    BY <1>a, <2>1, LeaveAway, RestingAway
<1>2. ASSUME ReadDraft(w) PROVE Away(w) /\ UNCHANGED provider
  <2> DEFINE mine == [At(w, "claim") EXCEPT !.ver = draft]
  <2>1. mine.pc = "claim"
    BY <1>a DEF Memories
  <2>2. Only(w, mine) \/ Only(w, Resting)
    BY <1>2 DEF ReadDraft
  <2> HIDE DEF mine
  <2> QED
    BY <1>a, <2>1, <2>2, OnlyAway, RestingAway
<1>3. ASSUME ClaimEnter(w) \/ UseEnter(w) \/ FailEnter(w) \/ LostEnter(w) PROVE Away(w) /\ UNCHANGED provider
  <2>1. PICK step \in {"claiming", "using", "failing", "losing"} : Enter(w, me[w].job, step, "claim")
    BY <1>3 DEF ClaimEnter, UseEnter, FailEnter, LostEnter
  <2>2. step \in Steps \ (Editing \cup Looked)
    BY AwayKinds
  <2> QED
    BY <2>1, <2>2, EnterAway DEF Enter
<1>4. ASSUME ClaimLeave(w) PROVE Away(w) /\ UNCHANGED provider
  <2> DEFINE mine == [At(w, "mark") EXCEPT !.ver = me[w].seen.rec.ver]
  <2>1. mine.pc = "mark"
    BY <1>a DEF Memories
  <2>2. \E next : Leave(w, next, mine) \/ Leave(w, next, Resting)
    BY <1>4 DEF ClaimLeave
  <2> HIDE DEF mine
  <2> QED
    BY <1>a, <2>1, <2>2, LeaveAway, RestingAway
<1>5. ASSUME NEW mine \in {At(w, "reserve"), At(w, "look"), At(w, "release"), At(w, "fail"), Resting},
             me' = [me EXCEPT ![w] = mine], UNCHANGED provider
      PROVE  Away(w) /\ UNCHANGED provider
  <2>1. mine.pc \notin Editing \cup Looked
    BY <1>a, RestingAway
  <2> QED
    BY <1>5, <2>1 DEF Away
<1>6. ASSUME Mark(w) \/ Reserve(w) \/ AnswerLost(w) \/ Release(w) \/ Unreserve(w) PROVE Away(w) /\ UNCHANGED provider
  BY <1>5, <1>6 DEF Mark, Reserve, AnswerLost, Release, Unreserve, Only
<1>7. ASSUME UseLeave(w) \/ FailLeave(w) \/ LostLeave(w) PROVE Away(w) /\ UNCHANGED provider
  <2>1. \E next : Leave(w, next, At(w, "unreserve")) \/ Leave(w, next, Resting)
    BY <1>7 DEF UseLeave, FailLeave, LostLeave
  <2> QED
    BY <1>a, <2>1, LeaveAway, RestingAway
<1> QED
  BY <1>1, <1>2, <1>3, <1>4, <1>6, <1>7 DEF Send

\* The person's calls, the sweep and giving up.
LEMMA RestAway ==
  ASSUME TypeOK, DraftInv, NEW w \in Worker, Person(w) \/ Sweep(w) \/ TimeOut(w)
  PROVE  Away(w) /\ UNCHANGED provider
<1>a. \A p \in {"challenge", "void", "approve", "sweep", "lost", "unreserve"} :
        At(w, p) \in Memories /\ At(w, p).pc = p /\ p \notin Editing \cup Looked
  BY AtFields, AwayKinds
<1>1. ASSUME ShowLeave(w) \/ ChallengeLeave(w) \/ ApproveLeave(w) \/ RevokeLeave(w) \/ StatusLeave(w)
      PROVE  Away(w) /\ UNCHANGED provider
  <2>1. \E next : \/ Leave(w, next, At(w, "challenge")) \/ Leave(w, next, At(w, "void")) \/ Leave(w, next, Resting)
    BY <1>1 DEF ShowLeave, ChallengeLeave, ApproveLeave, RevokeLeave, StatusLeave
  <2> QED
    BY <1>a, <2>1, LeaveAway, RestingAway
<1>2. ASSUME AnswerLeave(w) PROVE Away(w) /\ UNCHANGED provider
  <2> DEFINE mine == [At(w, "approve") EXCEPT !.ver = draft]
  <2>1. mine.pc = "approve"
    BY <1>a DEF Memories
  <2>2. \E next : Leave(w, next, mine) \/ Leave(w, next, Resting)
    BY <1>2 DEF AnswerLeave
  <2> HIDE DEF mine
  <2> QED
    BY <1>a, <2>1, <2>2, LeaveAway, RestingAway
<1>3. ASSUME NEW a, ChallengeEnter(w) \/ VoidEnter(w) \/ ApproveEnter(w) \/ SweepEnter(w, a)
      PROVE  Away(w) /\ UNCHANGED provider
  <2>1. \E b, action : \E step \in {"challenging", "revoking", "approving", "sweeping"} : Enter(w, b, step, action)
    BY <1>3 DEF ChallengeEnter, VoidEnter, ApproveEnter, SweepEnter
  <2>2. \A step \in {"challenging", "revoking", "approving", "sweeping"} : step \in Steps \ (Editing \cup Looked)
    BY AwayKinds
  <2> QED
    BY <2>1, <2>2, EnterAway DEF Enter
<1>4. ASSUME SweepList(w) PROVE Away(w) /\ UNCHANGED provider
  <2> DEFINE mine == [At(w, "sweep") EXCEPT !.todo = {a \in Approval : Derive(rec[a]).state \in Active}]
  <2>1. mine.pc = "sweep"
    BY <1>a DEF Memories
  <2>2. Only(w, mine)
    BY <1>4 DEF SweepList
  <2> HIDE DEF mine
  <2> QED
    BY <1>a, <2>1, <2>2, OnlyAway
<1>5. ASSUME SweepLeave(w) PROVE Away(w) /\ UNCHANGED provider
  <2> DEFINE mine == [At(w, "sweep") EXCEPT !.job = "none", !.todo = @ \ {me[w].job}]
  <2>1. mine.pc = "sweep"
    BY <1>a DEF Memories
  <2>2. \E next : Leave(w, next, mine)
    BY <1>5 DEF SweepLeave
  <2> HIDE DEF mine
  <2> QED
    BY <1>a, <2>1, <2>2, LeaveAway
<1>6. ASSUME NEW a \in Approval, SweepMiss(w, a) PROVE Away(w) /\ UNCHANGED provider
  <2> DEFINE mine == [me[w] EXCEPT !.todo = @ \ {a}]
  <2>1. mine.pc = "sweep"
    BY <1>6 DEF TypeOK, Memories, SweepMiss
  <2>2. me' = [me EXCEPT ![w] = mine] /\ UNCHANGED provider
    BY <1>6 DEF SweepMiss
  <2> HIDE DEF mine
  <2> QED
    BY <1>a, <2>1, <2>2 DEF Away
<1>7. ASSUME SweepEnd(w) PROVE Away(w) /\ UNCHANGED provider
  BY <1>7, RestingAway DEF SweepEnd, Away
<1>8. ASSUME TimeOut(w) PROVE Away(w) /\ UNCHANGED provider
  <2>1. Only(w, At(w, "lost")) \/ Only(w, At(w, "unreserve")) \/ Only(w, Resting)
    BY <1>8 DEF TimeOut
  <2> QED
    BY <1>a, <2>1, OnlyAway, RestingAway
<1> QED
  BY <1>1, <1>2, <1>3, <1>4, <1>5, <1>6, <1>7, <1>8 DEF Person, Sweep

\* A step of a call, by where it leads.
LEMMA CallDraft ==
  ASSUME TypeOK, BoundInv, VersionsKept, DraftInv, Steady, NEW w \in Worker, Begin(w) \/ Continue(w)
  PROVE  DraftInv'
<1>m. me[w] \in Memories /\ me[w].pc \notin Editing /\ draft' \in {draft'}
  BY DEF TypeOK, DraftInv
<1>q. ASSUME draft' = draft, sent' = sent, \A a \in Approval : wire'[a] = "asked" => wire[a] = "asked",
             NEW mine, me' = [me EXCEPT ![w] = mine], mine.pc \notin Editing, mine.pc \in Looked => draft \in {0, mine.ver}
      PROVE  DraftInv'
  BY <1>q, LookMove, DraftStep
<1>1. ASSUME Away(w), UNCHANGED provider PROVE DraftInv'
  BY <1>1, <1>q DEF Away, provider
<1>a. \A p \in {"fence", "call", "lost", "wait", "look", "accept", "release"} :
        At(w, p).pc = p /\ At(w, p).ver = me[w].ver /\ At(w, p) \in Memories /\ p \notin Editing
  BY AtFields, StepKinds DEF Editing
<1>2. ASSUME LastLook(w) PROVE DraftInv'
  <2>1. UNCHANGED provider /\ (me' = [me EXCEPT ![w] = At(w, "release")]
                               \/ (draft = me[w].ver /\ me' = [me EXCEPT ![w] = At(w, "fence")]))
    BY <1>2 DEF LastLook, StillBound, Only
  <2>2. CASE me' = [me EXCEPT ![w] = At(w, "release")]
    BY <1>a, <1>q, <2>1, <2>2, AwayKinds DEF provider
  <2>3. CASE draft = me[w].ver /\ me' = [me EXCEPT ![w] = At(w, "fence")]
    BY <1>a, <1>q, <2>1, <2>3 DEF provider
  <2> QED
    BY <2>1, <2>2, <2>3
<1>3. ASSUME FenceEnter(w) PROVE DraftInv'
  <2> DEFINE mine == [me[w] EXCEPT !.pc = "fencing", !.job = me[w].job, !.seen = Snapshot(me[w].job, "inspect")]
  <2>1. mine.pc = "fencing" /\ mine.ver = me[w].ver
    BY <1>m DEF Memories
  <2>2. me' = [me EXCEPT ![w] = mine] /\ UNCHANGED provider /\ draft \in {0, me[w].ver}
    BY <1>3 DEF FenceEnter, Enter, DraftInv, Looked
  <2> HIDE DEF mine
  <2> QED
    BY <1>q, <2>1, <2>2 DEF Editing, provider
<1>4. ASSUME FenceLeave(w) PROVE DraftInv'
  <2>1. PICK p \in {"call", "lost"} : me' = [me EXCEPT ![w] = At(w, p)]
    BY <1>4 DEF FenceLeave, Leave
  <2>2. UNCHANGED provider /\ draft \in {0, me[w].ver}
    BY <1>4 DEF FenceLeave, Leave, DraftInv, Looked
  <2> QED
    BY <1>a, <1>q, <2>1, <2>2 DEF provider
<1>5. ASSUME Call(w) PROVE DraftInv'
  <2>1. me' = [me EXCEPT ![w] = At(w, "wait")] /\ wire' = [wire EXCEPT ![me[w].job] = "asked"]
        /\ UNCHANGED <<draft, sent>> /\ me[w].pc = "call"
    BY <1>5 DEF Call
  <2>2. me[w].job \in Approval /\ rec[me[w].job].state # "none" /\ me[w].ver = rec[me[w].job].ver
    BY <2>1, StepKinds DEF TypeOK, HasJob, BoundInv, MemoryOK, Preparing
  <2>3. draft \in {0, rec[me[w].job].ver}
    BY <2>1, <2>2 DEF DraftInv, Looked
  <2>4. \A a \in Approval : wire'[a] = "asked" => wire[a] = "asked" \/ (rec[a].state # "none" /\ draft \in {0, rec[a].ver})
    BY <2>1, <2>2, <2>3 DEF TypeOK
  <2>5. \A v \in Worker : me'[v].pc \notin Editing /\ (me'[v].pc \in Looked => draft \in {0, me'[v].ver})
    BY <1>a, <2>1, LookMove, AwayKinds
  <2> QED
    BY <2>1, <2>4, <2>5, DraftStep
<1>6. ASSUME Answered(w) PROVE DraftInv'
  <2> DEFINE again == [At(w, "look") EXCEPT !.retries = @ + 1]
  <2>1. PICK mine \in {At(w, "accept"), Resting, again, At(w, "release")} : me' = [me EXCEPT ![w] = mine]
    BY <1>6 DEF Answered, AfterAnswer
  <2>2. again.pc = "look"
    BY <1>a DEF Memories
  <2> HIDE DEF again
  <2>3. mine.pc \notin Editing \cup Looked
    BY <1>a, <2>2, AwayKinds, RestingAway
  <2>4. UNCHANGED <<draft, sent>> /\ \A a \in Approval : wire'[a] = "asked" => wire[a] = "asked"
    BY <1>6 DEF Answered, TypeOK
  <2> QED
    BY <1>q, <2>1, <2>3, <2>4
<1>7. ~EditApply(w)
  BY <1>m DEF EditApply, Editing
<1> QED
  BY <1>1, <1>2, <1>3, <1>4, <1>5, <1>6, <1>7, BeginAway, SendAway, RestAway DEF Continue

LEMMA DraftInit == Init => DraftInv
<1> SUFFICES ASSUME Init PROVE DraftInv
  OBVIOUS
<1>1. \A w \in Worker : me[w].pc \notin Editing \cup Looked
  BY RestingAway DEF Init
<1>2. \A a \in Approval : wire[a] = "none" /\ sent[a] = {}
  BY DEF Init
<1> QED
  BY <1>1, <1>2 DEF DraftInv

LEMMA DraftNext == TypeOK /\ BoundInv /\ VersionsKept /\ Steady /\ DraftInv /\ [Next]_vars => DraftInv'
<1> SUFFICES ASSUME TypeOK, BoundInv, VersionsKept, Steady, DraftInv, [Next]_vars PROVE DraftInv'
  OBVIOUS
<1>q. ASSUME draft' \in {0, draft}, \A a \in Approval : wire'[a] = "asked" => wire[a] = "asked",
             \A a \in Approval : sent'[a] = sent[a] \/ (wire[a] = "asked" /\ draft # 0 /\ sent'[a] = sent[a] \cup {draft}),
             \A w \in Worker : (me'[w].pc = me[w].pc /\ me'[w].ver = me[w].ver) \/ me'[w].pc \notin Editing \cup Looked
      PROVE  DraftInv'
  <2>1. \A w \in Worker : me'[w].pc \notin Editing /\ (me'[w].pc \in Looked => draft \in {0, me'[w].ver})
    BY <1>q DEF DraftInv
  <2> QED
    BY <1>q, <2>1, DraftStep
<1>1. ASSUME NEW w \in Worker, Begin(w) \/ Continue(w) PROVE DraftInv'
  BY <1>1, CallDraft
<1>2. ASSUME NEW w \in Worker, Crash(w) PROVE DraftInv'
  <2>1. me' = [me EXCEPT ![w] = Resting] /\ UNCHANGED provider
    BY <1>2 DEF Crash
  <2> QED
    BY <1>q, <2>1, RestingAway DEF TypeOK, provider
<1>3. ASSUME (\E w \in Worker : BeatEnter(w) \/ BeatLeave(w)) \/ (\E a \in Approval : TakeOver(a)) \/ RemoveOwner \/ UNCHANGED vars
      PROVE  DraftInv'
  <2>1. UNCHANGED <<me, draft, wire, sent>>
    BY <1>3 DEF BeatEnter, BeatLeave, TakeOver, RemoveOwner, vars, provider
  <2> QED
    BY <1>q, <2>1
<1>4. ASSUME NEW a \in Approval, ProviderAccepts(a) PROVE DraftInv'
  <2>1. /\ me' = me /\ draft' \in {0, draft} /\ wire[a] = "asked" /\ draft # 0
        /\ sent' = [sent EXCEPT ![a] = @ \cup {draft}]
    BY <1>4 DEF ProviderAccepts, TypeOK
  <2>2. \A b \in Approval : wire'[b] = "asked" => wire[b] = "asked"
    <3>1. PICK answer \in {"ok", "noid"} : wire' = [wire EXCEPT ![a] = answer]
      BY <1>4 DEF ProviderAccepts
    <3>2. \A b \in Approval : wire'[b] = IF b = a THEN answer ELSE wire[b]
      BY <3>1 DEF TypeOK
    <3> QED
      BY <3>2
  <2>3. \A b \in Approval : sent'[b] = sent[b] \/ (wire[b] = "asked" /\ draft # 0 /\ sent'[b] = sent[b] \cup {draft})
    BY <2>1 DEF TypeOK
  <2> QED
    BY <1>q, <2>1, <2>2, <2>3
<1>5. ASSUME NEW a \in Approval, ProviderRefuses(a) PROVE DraftInv'
  <2>1. /\ UNCHANGED <<me, draft, sent>>
        /\ \E answer \in {"refused", "throttled"} : wire' = [wire EXCEPT ![a] = answer]
    BY <1>5 DEF ProviderRefuses
  <2>2. \A b \in Approval : wire'[b] = "asked" => wire[b] = "asked"
    BY <2>1 DEF TypeOK
  <2> QED
    BY <1>q, <2>1, <2>2
<1>6. ASSUME WebEdit PROVE DraftInv'
  <2>1. /\ UNCHANGED <<rec, wire, sent, me>>
        /\ \A w \in Worker : me[w].pc \notin Holding
        /\ \A a \in Approval : wire[a] # "asked"
    BY <1>6 DEF WebEdit, Steady, disk
  <2> QED
    BY <2>1 DEF DraftInv, Looked, Holding
<1>7. ASSUME Tick \/ StepBack PROVE DraftInv'
  <2>1. /\ UNCHANGED provider
        /\ \E d : me' = [w \in Worker |-> [me[w] EXCEPT !.seen.rec = Aged(@, d)]]
    BY <1>7 DEF Tick, StepBack, Clock
  <2>2. \A w \in Worker : me'[w].pc = me[w].pc /\ me'[w].ver = me[w].ver
    <3>1. PICK d : me' = [w \in Worker |-> [me[w] EXCEPT !.seen.rec = Aged(@, d)]]
      BY <2>1
    <3>2. ASSUME NEW m \in Memories, NEW q PROVE [m EXCEPT !.seen.rec = q].pc = m.pc /\ [m EXCEPT !.seen.rec = q].ver = m.ver
      BY DEF Memories
    <3> QED
      BY <3>1, <3>2 DEF TypeOK
  <2> QED
    BY <1>q, <2>1, <2>2 DEF provider
<1> QED
  BY <1>1, <1>2, <1>3, <1>4, <1>5, <1>6, <1>7 DEF Next

\* The version that goes out is the one the approval was prepared for, whatever calls,
\* crashes, retries and stalls there are, where nobody edits a draft under a send and the
\* suite's own draft edits are left out: the claim compares the draft with the record and
\* the last look before every attempt compares it again (sendApproved, claimForSend).
THEOREM SentIsBoundHolds == Spec => [](Steady => SentIsBound)
<1>1. Init => TypeOK /\ BoundInv /\ (Steady => DraftInv)
  BY InitType, BoundInit, DraftInit
<1>2. TypeOK /\ BoundInv /\ (Steady => DraftInv) /\ [Next]_vars => TypeOK' /\ BoundInv' /\ (Steady => DraftInv)'
  <2>1. Steady' <=> Steady
    BY DEF Steady
  <2> QED
    BY <2>1, NextType, BoundNext, DraftNext
<1>3. (Steady => DraftInv) => (Steady => SentIsBound)
  BY DEF DraftInv, SentIsBound
<1> QED
  BY <1>1, <1>2, <1>3, PTL DEF Spec

=============================================================================
