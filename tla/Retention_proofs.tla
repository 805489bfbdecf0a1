--------------------------- MODULE Retention_proofs ---------------------------
(***************************************************************************)
(* What holds of Retention for every set of approvals and processes, any      *)
(* number of faults and any ages: nothing acts twice, nothing goes without     *)
(* its row, nothing live is deleted, and batches keep their distance.          *)
(***************************************************************************)
EXTENDS Retention, TLAPS

Fields   == {"pc", "age", "behind", "list", "whole", "same", "done", "busy", "before"}
Deleting == {"unmark", "unlink"}
Records  == [state : Existing \cup {"none"}, lapsed : BOOLEAN, age : Int]

-----------------------------------------------------------------------------
(* The memories of batches *)

\* A memory with all its fields that deletes only what has a row.
Memory(m, rows) == DOMAIN m = Fields /\ (m.pc \in Deleting => Head(m.list) \in rows)

MemoriesOK == DOMAIN me = Worker /\ \A w \in Worker : Memory(me[w], audit)

LEMMA IdleMemory == \A rows : Memory(Idle, rows)
  BY DEF Idle, Fields, Memory, Deleting

LEMMA ForgetsMemory ==
  ASSUME NEW m, NEW rows, Memory(m, rows), NEW a
  PROVE  Memory(Forgets(m, a), rows) /\ Forgets(m, a).pc = m.pc /\ Forgets(m, a).age = m.age
  BY DEF Forgets, Fields, Memory

LEMMA ListedMemory ==
  ASSUME NEW m, NEW rows, Memory(m, rows)
  PROVE  Memory(Listed(m), rows) /\ Listed(m).pc = "next" /\ Listed(m).age = m.age
  BY DEF Listed, Fields, Memory, Deleting

LEMMA PassedMemory ==
  ASSUME NEW w \in Worker, NEW m, NEW rows, Memory(m, rows)
  PROVE  Memory(Passed(w, m), rows) /\ Passed(w, m).pc = "next" /\ Passed(w, m).age = m.age
  BY DEF Passed, Fields, Memory, Deleting

\* The ways in which a step changes memories leave memories.
LEMMA MemoryForms ==
  ASSUME MemoriesOK, audit \subseteq audit'
  PROVE  /\ me' = me => MemoriesOK'
         /\ \A m : \A w \in Worker : Memory(m, audit') /\ me' = [me EXCEPT ![w] = m] => MemoriesOK'
         /\ \A a : me' = Forget(a) => MemoriesOK'
         /\ \A a, m : \A w \in Worker : Memory(m, audit') /\ me' = [Forget(a) EXCEPT ![w] = m] => MemoriesOK'
<1>1. DOMAIN me = Worker /\ \A w \in Worker : Memory(me[w], audit')
  BY DEF MemoriesOK, Memory
<1>2. ASSUME NEW a
      PROVE  DOMAIN Forget(a) = Worker /\ \A w \in Worker : Memory(Forget(a)[w], audit')
  BY <1>1, ForgetsMemory DEF Forget
<1>3. me' = me => MemoriesOK'
  BY <1>1 DEF MemoriesOK
<1>4. ASSUME NEW m, NEW w \in Worker, Memory(m, audit'), me' = [me EXCEPT ![w] = m]
      PROVE  MemoriesOK'
  BY <1>1, <1>4 DEF MemoriesOK
<1>5. ASSUME NEW a, me' = Forget(a)
      PROVE  MemoriesOK'
  BY <1>2, <1>5 DEF MemoriesOK
<1>6. ASSUME NEW a, NEW m, NEW w \in Worker, Memory(m, audit'), me' = [Forget(a) EXCEPT ![w] = m]
      PROVE  MemoriesOK'
  <2>1. DOMAIN Forget(a) = Worker /\ \A v \in Worker : Memory(Forget(a)[v], audit')
    BY <1>2
  <2> HIDE DEF Forget
  <2> QED
    BY <1>6, <2>1 DEF MemoriesOK
<1> QED
  BY <1>3, <1>4, <1>5, <1>6

-----------------------------------------------------------------------------
(* Every claim acts once, and nothing goes without its row *)

TypesUsed ==
  /\ rec \in [Approval -> Records] /\ marker \in [Approval -> BOOLEAN]
  /\ claiming \in [Approval -> BOOLEAN] /\ acts \in [Approval -> Nat]

\* A claimed approval waits no more; one that was acted on has its record and its marker or a row.
UseOK(a) ==
  /\ acts[a] <= 1
  /\ claiming[a] => acts[a] = 0
  /\ claiming[a] \/ acts[a] > 0 => rec[a].state # "waiting" /\ (rec[a].state \in Existing \/ a \in audit)
  /\ acts[a] > 0 => marker[a] \/ a \in audit

UseInv == TypesUsed /\ MemoriesOK /\ \A a \in Approval : UseOK(a)

\* A step that makes no record wait, deletes none and adds neither claims nor acts.
LEMMA Harmless ==
  ASSUME UseInv, MemoriesOK', audit \subseteq audit',
         rec' \in [Approval -> Records], claiming' \in [Approval -> BOOLEAN],
         \A a \in Approval : /\ rec'[a].state = "waiting" => rec[a].state = "waiting"
                             /\ rec[a].state \in Existing => rec'[a].state \in Existing
                             /\ claiming'[a] => claiming[a],
         UNCHANGED <<marker, acts>>
  PROVE  UseInv'
  BY DEF UseInv, UseOK, TypesUsed

\* A record with another state, a lapse noted or not, and another age.
LEMMA StateEdit ==
  ASSUME NEW r \in Records, NEW s \in Existing
  PROVE  [r EXCEPT !.state = s] \in Records /\ [r EXCEPT !.state = s].state = s
  BY DEF Records

LEMMA LapseEdit ==
  ASSUME NEW r \in Records, NEW l \in BOOLEAN
  PROVE  [r EXCEPT !.lapsed = l] \in Records /\ [r EXCEPT !.lapsed = l].state = r.state
  BY DEF Records

LEMMA AgeEdit ==
  ASSUME NEW r \in Records, NEW x \in Int
  PROVE  [r EXCEPT !.age = x] \in Records /\ [r EXCEPT !.age = x].state = r.state
  BY DEF Records

LEMMA Ended == {"sending", "finished", "corrupt"} \subseteq Existing
  BY DEF Existing, Active

LEMMA AbsentType == Absent \in Records /\ Absent.state = "none" /\ Absent.state \notin Existing
<1>1. "none" \in Existing \cup {"none"} /\ 0 \in Int /\ FALSE \in BOOLEAN
  OBVIOUS
<1>2. Absent \in Records
  BY <1>1 DEF Records, Absent
<1> QED
  BY <1>2 DEF Absent, Existing, Active

LEMMA Finished ==
  ASSUME NEW r \in Records
  PROVE  [r EXCEPT !.state = "finished", !.age = 0] \in Records /\ [r EXCEPT !.state = "finished", !.age = 0].state = "finished"
<1> DEFINE f == [r EXCEPT !.state = "finished"]
<1>1. f \in Records /\ f.state = "finished"
  BY StateEdit, Ended
<1>2. [r EXCEPT !.state = "finished", !.age = 0] = [f EXCEPT !.age = 0]
  BY DEF Records
<1> HIDE DEF f
<1>3. [f EXCEPT !.age = 0] \in Records /\ [f EXCEPT !.age = 0].state = f.state
  BY <1>1, AgeEdit
<1> QED
  BY <1>1, <1>2, <1>3

\* The lapse and the age of a record change: its state stays.
LEMMA Dated ==
  ASSUME NEW r \in Records, NEW l \in BOOLEAN, NEW x \in Int
  PROVE  /\ [r EXCEPT !.lapsed = l, !.age = x] \in Records /\ [r EXCEPT !.lapsed = l, !.age = x].state = r.state
         /\ [r EXCEPT !.age = x, !.lapsed = l] \in Records /\ [r EXCEPT !.age = x, !.lapsed = l].state = r.state
<1> DEFINE d == [r EXCEPT !.lapsed = l]
           e == [d EXCEPT !.age = x]
<1>1. d \in Records /\ d.state = r.state
  BY LapseEdit
<1>2. [r EXCEPT !.lapsed = l, !.age = x] = e /\ [r EXCEPT !.age = x, !.lapsed = l] = e
  BY DEF Records
<1> HIDE DEF d
<1>3. e \in Records /\ e.state = d.state
  BY <1>1, AgeEdit
<1> HIDE DEF e
<1> QED
  BY <1>1, <1>2, <1>3

LEMMA RecordTypes ==
  ASSUME NEW r \in Records
  PROVE  /\ Derived(r) \in Records
         /\ Derived(r).state = "waiting" => r.state = "waiting"
         /\ r.state \in Existing => Derived(r).state \in Existing
<1>1. "finished" \in Existing
  BY Ended
<1>2. CASE r.lapsed
  <2> DEFINE f == [r EXCEPT !.state = "finished"]
  <2>1. f \in Records /\ f.state = "finished"
    BY <1>1, StateEdit
  <2>2. Derived(r) = [f EXCEPT !.lapsed = FALSE]
    BY <1>2 DEF Derived, Records
  <2> HIDE DEF f
  <2>3. Derived(r) \in Records /\ Derived(r).state = "finished"
    BY <2>1, <2>2, LapseEdit
  <2> QED
    BY <1>1, <2>3
<1>3. CASE ~r.lapsed
  BY <1>3 DEF Derived
<1> QED
  BY <1>2, <1>3

\* What a batch does short of removing a file, and every way it may fail.
LEMMA BatchHarmless ==
  ASSUME UseInv, NEW w \in Worker,
         \/ Look(w) \/ TryLock(w) \/ Begin(w) \/ LockLost(w) \/ Busy(w) \/ Acquire(w) \/ ReadRecord(w)
         \/ WriteRow(w) \/ Finish(w) \/ Save(w) \/ Late(w) \/ Fails(w) \/ Crash(w) \/ Stall(w)
  PROVE  UseInv'
<1> DEFINE m == me[w]
           a == Slot(w)
<1>1. /\ MemoriesOK /\ TypesUsed /\ Memory(m, audit)
      /\ \A rows : audit \subseteq rows => Memory(m, rows)
  BY DEF UseInv, MemoriesOK, Memory
<1>2. ASSUME \E x : me' = [me EXCEPT ![w] = x] /\ Memory(x, audit'), audit \subseteq audit',
             UNCHANGED <<rec, claiming, marker, acts>>
      PROVE  UseInv'
  BY <1>1, <1>2, MemoryForms, Harmless DEF TypesUsed
<1>3. ASSUME UNCHANGED files
      PROVE  audit' = audit /\ UNCHANGED <<rec, marker>>
  BY <1>3 DEF files
<1>4. ASSUME NEW pc \in {"lock", "state", "read", "save", "unlink"}, pc = "unlink" => m.pc = "unmark"
      PROVE  Memory([m EXCEPT !.pc = pc], audit)
  BY <1>1, <1>4 DEF Memory, Fields, Deleting
<1>5. CASE Look(w) \/ Acquire(w)
  BY <1>2, <1>3, <1>4, <1>5 DEF Look, Acquire, Goto
<1>6. CASE TryLock(w) \/ LockLost(w) \/ Finish(w)
  BY <1>2, <1>3, <1>4, <1>6, IdleMemory DEF TryLock, LockLost, Finish, Goto, Leave
<1>7. CASE Begin(w)
  BY <1>1, <1>2, <1>3, <1>7, IdleMemory, ListedMemory DEF Begin, Leave
<1>8. CASE Busy(w)
  <2>1. Memory([Passed(w, m) EXCEPT !.busy = TRUE, !.before = IF m.busy THEN m.before ELSE m.done], audit)
    <3>1. Memory(Passed(w, m), audit)
      BY <1>1, PassedMemory
    <3> QED
      BY <3>1 DEF Memory, Fields
  <2> QED
    BY <1>2, <1>3, <1>8, <2>1 DEF Busy
<1>9. CASE WriteRow(w)
  <2>1. audit' = audit \cup {a}
    BY <1>9 DEF WriteRow, RowWritten
  <2>2. Memory([m EXCEPT !.pc = "unmark"], audit')
    BY <1>1, <2>1 DEF Memory, Fields, Slot
  <2> QED
    BY <1>2, <1>9, <2>1, <2>2 DEF WriteRow, Goto
<1>10. CASE Save(w) \/ Crash(w)
  BY <1>2, <1>3, <1>10, IdleMemory DEF Save, Crash, Leave
<1>11. CASE Late(w)
  <2>1. Memory([m EXCEPT !.pc = "next", !.list = <<>>, !.whole = FALSE], audit)
    BY <1>1 DEF Memory, Fields, Deleting
  <2> QED
    BY <1>2, <1>3, <1>11, <2>1 DEF Late
<1>12. CASE Fails(w)
  BY <1>1, <1>2, <1>3, <1>12, IdleMemory, PassedMemory DEF Fails, Leave
<1>13. CASE Stall(w)
  BY <1>1, <1>3, <1>13, MemoryForms, Harmless DEF Stall, TypesUsed
<1>14. CASE ReadRecord(w)
  <2> DEFINE r == Derived(rec[a])
  <2>1. audit' = audit /\ rec' = [rec EXCEPT ![a] = r] /\ UNCHANGED <<marker, claiming, acts>> /\ rec[a].state \in Existing
    BY <1>14 DEF ReadRecord
  <2>2. rec' \in [Approval -> Records]
        /\ \A b \in Approval : /\ rec'[b].state = "waiting" => rec[b].state = "waiting"
                               /\ rec[b].state \in Existing => rec'[b].state \in Existing
    BY <1>1, <2>1, RecordTypes DEF TypesUsed
  <2>3. MemoriesOK'
    <3> DEFINE n == Passed(w, m)
    <3>1. Memory(n, audit) /\ Memory(Forgets(n, a), audit)
      BY <1>1, PassedMemory, ForgetsMemory
    <3>2. Memory([m EXCEPT !.pc = "audit"], audit)
      BY <1>1 DEF Memory, Fields, Deleting
    <3>3. Memory([Forget(a)[w] EXCEPT !.pc = "audit"], audit)
      <4>1. Memory(Forget(a)[w], audit)
        BY <1>1, ForgetsMemory DEF Forget
      <4> QED
        BY <4>1 DEF Memory, Fields, Deleting
    <3>4. \/ me' = [Forget(a) EXCEPT ![w] = [Forget(a)[w] EXCEPT !.pc = "audit"]]
          \/ me' = [me EXCEPT ![w] = [m EXCEPT !.pc = "audit"]]
          \/ me' = [Forget(a) EXCEPT ![w] = Forgets(n, a)]
          \/ me' = [me EXCEPT ![w] = n]
      BY <1>14 DEF ReadRecord
    <3> HIDE DEF n
    <3> QED
      BY <1>1, <2>1, <3>1, <3>2, <3>3, <3>4, MemoryForms
  <2> QED
    BY <1>1, <2>1, <2>2, <2>3, Harmless DEF TypesUsed
<1> QED
  BY <1>5, <1>6, <1>7, <1>8, <1>9, <1>10, <1>11, <1>12, <1>13, <1>14

\* The removals: a marker and a record go only once their row is there.
LEMMA Removals ==
  ASSUME UseInv, NEW w \in Worker, ReadLone(w) \/ Unmark(w) \/ Unlink(w)
  PROVE  UseInv'
<1> DEFINE m == me[w]
           a == Slot(w)
<1>1. MemoriesOK /\ TypesUsed /\ Memory(m, audit)
  BY DEF UseInv, MemoriesOK
<1>2. audit' = audit /\ UNCHANGED <<claiming, acts>>
  BY DEF ReadLone, Unmark, Unlink
<1>3. Memory(Forgets(Passed(w, m), a), audit)
  BY <1>1, PassedMemory, ForgetsMemory
<1>4. CASE ReadLone(w)
  <2>1. MemoriesOK'
    BY <1>1, <1>2, <1>3, <1>4, MemoryForms DEF ReadLone
  <2>2. rec' = rec /\ marker' = [marker EXCEPT ![a] = FALSE] /\ rec[a].state \notin Existing
    BY <1>4 DEF ReadLone
  <2> QED
    BY <1>1, <1>2, <2>1, <2>2 DEF UseInv, UseOK, TypesUsed
<1>5. CASE Unmark(w)
  <2>1. a \in audit
    BY <1>1, <1>5 DEF Unmark, At, Slot, Memory, Deleting
  <2>2. Memory([m EXCEPT !.pc = "unlink"], audit)
    BY <1>1, <2>1 DEF Memory, Fields, Slot
  <2>3. MemoriesOK'
    BY <1>1, <1>2, <1>5, <2>2, MemoryForms DEF Unmark, Goto
  <2>4. rec' = rec /\ marker' = [marker EXCEPT ![a] = FALSE]
    BY <1>5 DEF Unmark
  <2> QED
    BY <1>1, <1>2, <2>1, <2>3, <2>4 DEF UseInv, UseOK, TypesUsed
<1>6. CASE Unlink(w)
  <2>1. a \in audit
    BY <1>1, <1>6 DEF Unlink, At, Slot, Memory, Deleting
  <2>2. MemoriesOK'
    <3>1. \/ me' = [me EXCEPT ![w] = Passed(w, m)]
          \/ me' = [Forget(a) EXCEPT ![w] = Forgets(Passed(w, m), a)]
      BY <1>6 DEF Unlink
    <3>2. Memory(Passed(w, m), audit)
      BY <1>1, PassedMemory
    <3> QED
      BY <1>1, <1>2, <1>3, <3>1, <3>2, MemoryForms
  <2>3. rec' = [rec EXCEPT ![a] = Absent] /\ marker' = marker /\ Absent \in Records /\ Absent.state # "waiting"
    BY <1>6, AbsentType DEF Unlink
  <2> QED
    BY <1>1, <1>2, <2>1, <2>2, <2>3 DEF UseInv, UseOK, TypesUsed
<1> QED
  BY <1>4, <1>5, <1>6

\* Approvals are made, claimed, finished and looked at; claimants die; the clock moves.
LEMMA Others ==
  ASSUME UseInv,
         \/ \E a \in Approval : \/ Create(a) \/ Claim(a) \/ Mark(a) \/ Complete(a) \/ Lapse(a)
                                \/ Rot(a) \/ Hold(a) \/ Unhold(a) \/ ClaimantDies(a)
         \/ SetBack \/ Tick
  PROVE  UseInv'
<1>1. MemoriesOK /\ TypesUsed
  BY DEF UseInv
<1>2. ASSUME \/ me' = me \/ \E a : me' = Forget(a), audit' = audit
      PROVE  MemoriesOK'
  BY <1>1, <1>2, MemoryForms
<1>4. ASSUME NEW a \in Approval, Create(a) PROVE UseInv'
  <2>1. MemoriesOK' /\ rec' = [rec EXCEPT ![a].state = "waiting"] /\ UNCHANGED <<marker, claiming, acts, audit>>
        /\ acts[a] = 0 /\ ~claiming[a]
    BY <1>2, <1>4 DEF Create
  <2>2. rec' \in [Approval -> Records] /\ \A b \in Approval : b # a => rec'[b] = rec[b]
    BY <1>1, <2>1 DEF TypesUsed, Records, Existing, Active
  <2> QED
    BY <1>1, <2>1, <2>2 DEF UseInv, UseOK, TypesUsed
<1>5. ASSUME NEW a \in Approval, Claim(a) PROVE UseInv'
  <2>1. MemoriesOK' /\ UNCHANGED <<marker, acts, audit>>
        /\ claiming' = [claiming EXCEPT ![a] = TRUE] /\ rec[a].state = "waiting" /\ ~claiming[a]
    BY <1>2, <1>5 DEF Claim, Claimable
  <2>2. acts[a] = 0
    BY <1>1, <2>1 DEF UseInv, UseOK, TypesUsed
  <2>3. /\ rec' \in [Approval -> Records] /\ rec'[a].state \in {"finished", "sending"}
        /\ \A b \in Approval : b # a => rec'[b] = rec[b]
    <3>1. rec[a] \in Records /\ "finished" \in Existing /\ "sending" \in Existing
      BY <1>1, Ended DEF TypesUsed
    <3> DEFINE used == [rec[a] EXCEPT !.state = "finished", !.age = 0]
               sending == [rec[a] EXCEPT !.state = "sending"]
    <3>2. used \in Records /\ used.state = "finished"
      BY <3>1, Finished
    <3>3. sending \in Records /\ sending.state = "sending"
      BY <3>1, StateEdit
    <3>4. rec' = [rec EXCEPT ![a] = used] \/ rec' = [rec EXCEPT ![a] = sending]
      BY <1>5 DEF Claim
    <3> HIDE DEF used, sending
    <3> QED
      BY <1>1, <3>2, <3>3, <3>4 DEF TypesUsed
  <2> QED
    BY <1>1, <2>1, <2>2, <2>3 DEF UseInv, UseOK, TypesUsed, Existing, Active
<1>6. ASSUME NEW a \in Approval, Mark(a) PROVE UseInv'
  <2>1. MemoriesOK' /\ UNCHANGED <<rec, audit>> /\ claiming[a]
        /\ claiming' = [claiming EXCEPT ![a] = FALSE] /\ marker' = [marker EXCEPT ![a] = TRUE]
    BY <1>2, <1>6 DEF Mark
  <2>2. acts[a] = 0 /\ acts \in [Approval -> Nat] /\ acts' \in {acts, [acts EXCEPT ![a] = acts[a] + 1]}
    BY <1>1, <1>6, <2>1 DEF UseInv, UseOK, TypesUsed, Mark
  <2>3. /\ acts' \in [Approval -> Nat] /\ acts'[a] <= 1
        /\ \A b \in Approval : b # a => acts'[b] = acts[b]
    BY <2>2
  <2> QED
    BY <1>1, <2>1, <2>3 DEF UseInv, UseOK, TypesUsed
<1>7. ASSUME NEW a \in Approval, Complete(a) PROVE UseInv'
  <2>1. MemoriesOK' /\ rec' = [rec EXCEPT ![a] = [rec[a] EXCEPT !.state = "finished", !.age = 0]]
        /\ UNCHANGED <<marker, claiming, acts, audit>>
    BY <1>2, <1>7 DEF Complete
  <2>2. [rec[a] EXCEPT !.state = "finished", !.age = 0] \in Records /\ [rec[a] EXCEPT !.state = "finished", !.age = 0].state = "finished"
    BY <1>1, Finished DEF TypesUsed
  <2>3. rec' \in [Approval -> Records] /\ rec'[a].state = "finished" /\ \A b \in Approval : b # a => rec'[b] = rec[b]
    BY <1>1, <2>1, <2>2 DEF TypesUsed
  <2> QED
    BY <1>1, <2>1, <2>3, Harmless DEF TypesUsed, Existing
<1>8. ASSUME NEW a \in Approval, Lapse(a) PROVE UseInv'
  <2>1. MemoriesOK' /\ rec' = [rec EXCEPT ![a] = [rec[a] EXCEPT !.lapsed = TRUE, !.age = 0]]
        /\ UNCHANGED <<marker, claiming, acts, audit>>
    BY <1>2, <1>8 DEF Lapse
  <2>2. rec' \in [Approval -> Records] /\ \A b \in Approval : rec'[b].state = rec[b].state
    <3> DEFINE lapsed == [rec[a] EXCEPT !.lapsed = TRUE, !.age = 0]
    <3>0. rec \in [Approval -> Records] /\ rec[a] \in Records /\ TRUE \in BOOLEAN /\ 0 \in Int
      BY <1>1 DEF TypesUsed
    <3>1. lapsed \in Records /\ lapsed.state = rec[a].state
      BY <3>0, Dated, Zenon
    <3>2. rec' = [rec EXCEPT ![a] = lapsed]
      BY <2>1
    <3> HIDE DEF lapsed
    <3> QED
      BY <3>0, <3>1, <3>2
  <2> QED
    BY <1>1, <2>1, <2>2, Harmless DEF TypesUsed
<1>9. ASSUME NEW a \in Approval, Rot(a) PROVE UseInv'
  <2>1. MemoriesOK' /\ rec' = [rec EXCEPT ![a] = [Absent EXCEPT !.state = "corrupt"]]
        /\ UNCHANGED <<marker, claiming, acts, audit>>
    BY <1>2, <1>9 DEF Rot
  <2>2. [Absent EXCEPT !.state = "corrupt"] \in Records /\ [Absent EXCEPT !.state = "corrupt"].state = "corrupt"
    BY AbsentType, StateEdit, Ended
  <2>3. rec' \in [Approval -> Records] /\ rec'[a].state = "corrupt" /\ \A b \in Approval : b # a => rec'[b] = rec[b]
    BY <1>1, <2>1, <2>2 DEF TypesUsed
  <2> QED
    BY <1>1, <2>1, <2>3, Harmless DEF TypesUsed, Existing
<1>10. ASSUME NEW a \in Approval, Hold(a) \/ ClaimantDies(a) PROVE UseInv'
  <2>1. MemoriesOK' /\ UNCHANGED <<rec, marker, acts, audit>> /\ claiming' \in {claiming, [claiming EXCEPT ![a] = FALSE]}
    BY <1>2, <1>10 DEF Hold, ClaimantDies, files
  <2> QED
    BY <1>1, <2>1, Harmless DEF TypesUsed
<1>11. ASSUME NEW a \in Approval, Unhold(a) PROVE UseInv'
  <2>1. MemoriesOK' /\ rec' \in {rec, [rec EXCEPT ![a] = Derived(rec[a])]} /\ UNCHANGED <<marker, claiming, acts, audit>>
        /\ (rec' # rec => rec[a].lapsed)
    BY <1>2, <1>11 DEF Unhold
  <2>2. rec' \in [Approval -> Records]
        /\ \A b \in Approval : /\ rec'[b].state = "waiting" => rec[b].state = "waiting"
                               /\ rec[b].state \in Existing => rec'[b].state \in Existing
    BY <1>1, <2>1, RecordTypes DEF TypesUsed
  <2> QED
    BY <1>1, <2>1, <2>2, Harmless DEF TypesUsed
<1>12. CASE SetBack
  <2>1. UNCHANGED <<marker, claiming, acts, audit>>
    BY <1>12 DEF SetBack
  <2>2. \A x : \A w \in Worker : Memory([me[w] EXCEPT !.age = x], audit)
    BY <1>1 DEF MemoriesOK, Memory, Fields
  <2>3. MemoriesOK'
    BY <1>12, <2>1, <2>2 DEF MemoriesOK, SetBack
  <2>4. rec' \in [Approval -> Records] /\ \A b \in Approval : rec'[b].state = rec[b].state
    <3> DEFINE over(b) == rec[b].lapsed \/ rec[b].state = "waiting"
               set(b) == [rec[b] EXCEPT !.age = 0, !.lapsed = over(b)]
    <3>1. \A b \in Approval : rec[b] \in Records /\ over(b) \in BOOLEAN /\ 0 \in Int
      BY <1>1 DEF TypesUsed, Records
    <3> HIDE DEF over
    <3>2. \A b \in Approval : set(b) \in Records /\ set(b).state = rec[b].state
      BY <3>1, Dated, Zenon
    <3>3. rec' = [b \in Approval |-> set(b)]
      <4> USE DEF over
      <4>1. \A b \in Approval : [rec[b] EXCEPT !.age = 0, !.lapsed = @ \/ rec[b].state = "waiting"] = set(b)
        BY <3>1 DEF Records
      <4> QED
        BY <1>12, <4>1 DEF SetBack
    <3> HIDE DEF set
    <3> QED
      BY <3>2, <3>3
  <2> QED
    BY <1>1, <2>1, <2>3, <2>4, Harmless DEF TypesUsed
<1>13. CASE Tick
  <2>1. UNCHANGED <<marker, claiming, acts, audit>>
    BY <1>13 DEF Tick
  <2>2. \A x : \A w \in Worker : Memory([me[w] EXCEPT !.age = x], audit) /\ Memory(me[w], audit)
    BY <1>1 DEF MemoriesOK, Memory, Fields
  <2>3. MemoriesOK'
    <3> DEFINE moved(w) == IF me[w].pc \in {"idle", "lock", "state"} THEN me[w]
                           ELSE [me[w] EXCEPT !.age = Older(me[w].age, Interval)]
    <3>1. me' = [w \in Worker |-> moved(w)]
      BY <1>13 DEF Tick
    <3>2. \A w \in Worker : Memory(moved(w), audit)
      BY <2>2
    <3> HIDE DEF moved
    <3> QED
      BY <2>1, <3>1, <3>2 DEF MemoriesOK
  <2>4. \A b \in Approval : Older(rec[b].age, RetentionAge) \in Int
    BY <1>1 DEF TypesUsed, Records, Older
  <2>5. rec' \in [Approval -> Records] /\ \A b \in Approval : rec'[b].state = rec[b].state
    <3>1. \A b \in Approval : rec[b] \in Records
                              /\ rec'[b] \in {rec[b], [rec[b] EXCEPT !.age = Older(rec[b].age, RetentionAge)]}
      BY <1>1, <1>13 DEF Tick, TypesUsed
    <3>2. \A b \in Approval : rec'[b] \in Records /\ rec'[b].state = rec[b].state
      <4> SUFFICES ASSUME NEW b \in Approval
                   PROVE  rec'[b] \in Records /\ rec'[b].state = rec[b].state
        OBVIOUS
      <4> DEFINE older == [rec[b] EXCEPT !.age = Older(rec[b].age, RetentionAge)]
      <4>1. older \in Records /\ older.state = rec[b].state
        BY <2>4, <3>1, AgeEdit, Zenon
      <4>2. rec[b] \in Records /\ (rec'[b] = rec[b] \/ rec'[b] = older)
        BY <3>1
      <4> HIDE DEF older
      <4> QED
        BY <4>1, <4>2
    <3>3. DOMAIN rec' = Approval /\ rec' = [b \in Approval |-> rec'[b]]
      BY <1>13 DEF Tick
    <3> QED
      BY <3>2, <3>3
  <2> QED
    BY <1>1, <2>1, <2>3, <2>5, Harmless DEF TypesUsed
<1> QED
  BY <1>4, <1>5, <1>6, <1>7, <1>8, <1>9, <1>10, <1>11, <1>12, <1>13

LEMMA UseInvHolds == Spec => []UseInv
<1>1. Init => UseInv
  <2> SUFFICES ASSUME Init PROVE UseInv
    OBVIOUS
  <2>1. MemoriesOK
    BY IdleMemory DEF Init, MemoriesOK
  <2>2. Absent \in Records
    BY DEF Absent, Records
  <2> QED
    BY <2>1, <2>2 DEF Init, UseInv, UseOK, TypesUsed
<1>2. UseInv /\ [Next]_vars => UseInv'
  <2> SUFFICES ASSUME UseInv, [Next]_vars PROVE UseInv'
    OBVIOUS
  <2>1. CASE UNCHANGED vars
    <3>1. UNCHANGED <<rec, marker, audit, claiming, acts, me>>
      BY <2>1 DEF vars, files
    <3> QED
      BY <3>1 DEF UseInv, UseOK, TypesUsed, MemoriesOK
  <2>2. CASE Next
    BY <2>2, BatchHarmless, Removals, Others DEF Next, Batch
  <2> QED
    BY <2>1, <2>2
<1> QED
  BY <1>1, <1>2, PTL DEF Spec

\* An approval is acted on at most once, with any number of crashes, stalls and batches, although
\* maintenance removes the marker that says so.
THEOREM ActedOnceHolds == Spec => []ActedOnce
<1>1. UseInv => ActedOnce
  BY DEF UseInv, UseOK, ActedOnce
<1> QED
  BY <1>1, UseInvHolds, PTL

\* Nothing that was acted on loses its record or its marker without its durable row (prune writes
\* the row first), with any number of faults and with batches whose lock was taken over.
THEOREM RowBeforeGoneHolds == Spec => []RowBeforeGone
<1>1. UseInv => RowBeforeGone
  BY DEF UseInv, UseOK, TypesUsed, RowBeforeGone, HasFile
<1> QED
  BY <1>1, UseInvHolds, PTL
-----------------------------------------------------------------------------
(* Batches keep their distance *)

\* Where a process holds the lock, and where its attempt is on disk.
Holding(w) == me[w].pc \notin {"idle", "lock"}
Inside(w)  == me[w].pc \notin {"idle", "lock", "state"}

StateShape == DOMAIN state = {"age", "behind"}

\* Without a takeover and with a steady clock the file says when the last attempt was, one
\* process holds the lock, and time stands still while it works.
Kept ==
  /\ state.age = gap /\ gap \in 0..Interval
  /\ \A w \in Worker : me[w].age = 0 /\ (Holding(w) => mlock = LockOf(w)) /\ (Inside(w) => gap = 0)

Distance == StateShape /\ (excused \/ Kept)

\* A process goes on in its batch, comes out of it, or takes a first look.
Quiet(w) ==
  /\ me'[w].age = me[w].age
  /\ me'[w].pc = me[w].pc \/ me'[w].pc \in {"idle", "lock"} \/ (Inside(w) /\ Inside(w)')

\* No process begins a batch.
NoneBegins == \A w \in Worker : ~(At(w, "state") /\ me'[w].pc = "next")

LEMMA QuietDistance ==
  ASSUME Distance, StateShape', UNCHANGED <<ghost, mlock>>, state'.age = state.age, \A w \in Worker : Quiet(w)
  PROVE  Distance' /\ NoneBegins
<1>1. NoneBegins
  BY DEF NoneBegins, Quiet, At, Inside
<1>2. gap' = gap /\ excused' = excused
  BY DEF ghost
<1>3. CASE Kept
  <2>1. Kept'
    BY <1>2, <1>3 DEF Kept, Quiet, Holding, Inside, LockOf
  <2> QED
    BY <1>1, <2>1 DEF Distance
<1> QED
  BY <1>1, <1>2, <1>3 DEF Distance

\* A process ends or dies and lets its lock go; what the file says of the last attempt stays.
LEMMA LeaveDistance ==
  ASSUME Distance, MemoriesOK, NEW w \in Worker, me' = [me EXCEPT ![w] = Idle], StateShape', UNCHANGED ghost,
         \/ mlock' = (IF mlock.by = w THEN NoLock ELSE mlock)
         \/ mlock' = (IF mlock.by = w THEN Left ELSE mlock),
         Kept => state'.age = gap
  PROVE  Distance' /\ NoneBegins
<1>1. /\ DOMAIN me = Worker /\ me'[w] = Idle /\ Idle.pc = "idle" /\ Idle.age = 0
      /\ \A v \in Worker : v # w => me'[v] = me[v]
  BY DEF MemoriesOK, Idle
<1>2. NoneBegins
  BY <1>1 DEF NoneBegins, At
<1>3. gap' = gap /\ excused' = excused
  BY DEF ghost
<1>4. CASE Kept
  <2>1. \A v \in Worker : v # w /\ Holding(v) => mlock' = mlock /\ mlock = LockOf(v)
    BY <1>4 DEF Kept, LockOf
  <2>2. ~Holding(w)' /\ ~Inside(w)' /\ \A v \in Worker : v # w => (Holding(v)' = Holding(v)) /\ (Inside(v)' = Inside(v))
    BY <1>1 DEF Holding, Inside
  <2>3. Kept'
    BY <1>1, <1>3, <1>4, <2>1, <2>2 DEF Kept, LockOf
  <2> QED
    BY <1>2, <2>3 DEF Distance
<1> QED
  BY <1>2, <1>3, <1>4 DEF Distance

\* A record that is written is no longer behind the cursor; the last attempt stays.
LEMMA BehindAge ==
  ASSUME StateShape, \/ state' = state
                     \/ \E a : state' = [state EXCEPT !.behind = @ \ {a}]
  PROVE  StateShape' /\ state'.age = state.age
  BY DEF StateShape

\* The forms of a quiet step.
LEMMA QuietForms ==
  ASSUME MemoriesOK
  PROVE  /\ me' = me => \A w \in Worker : Quiet(w)
         /\ \A a : me' = Forget(a) => \A w \in Worker : Quiet(w)
         /\ \A m : \A w \in Worker :
              m.age = me[w].age /\ ((Inside(w) /\ m.pc \notin {"idle", "lock", "state"}) \/ m.pc \in {"idle", "lock"})
                /\ (me' = [me EXCEPT ![w] = m] \/ \E a : me' = [Forget(a) EXCEPT ![w] = m])
              => \A v \in Worker : Quiet(v)
<1>1. DOMAIN me = Worker /\ \A w \in Worker : Memory(me[w], audit)
  BY DEF MemoriesOK
<1>2. ASSUME NEW a
      PROVE  DOMAIN Forget(a) = Worker
             /\ \A w \in Worker : Forget(a)[w].pc = me[w].pc /\ Forget(a)[w].age = me[w].age
  BY <1>1, ForgetsMemory DEF Forget
<1>3. me' = me => \A w \in Worker : Quiet(w)
  BY DEF Quiet
<1>4. ASSUME NEW a, me' = Forget(a) PROVE \A w \in Worker : Quiet(w)
  BY <1>2, <1>4 DEF Quiet
<1>5. ASSUME NEW m, NEW w \in Worker, m.age = me[w].age,
             (Inside(w) /\ m.pc \notin {"idle", "lock", "state"}) \/ m.pc \in {"idle", "lock"},
             me' = [me EXCEPT ![w] = m] \/ \E a : me' = [Forget(a) EXCEPT ![w] = m]
      PROVE  \A v \in Worker : Quiet(v)
  <2>1. me'[w] = m /\ \A v \in Worker : v # w => me'[v].pc = me[v].pc /\ me'[v].age = me[v].age
    <3>1. CASE me' = [me EXCEPT ![w] = m]
      BY <1>1, <3>1
    <3>2. ASSUME NEW a, me' = [Forget(a) EXCEPT ![w] = m]
          PROVE  me'[w] = m /\ \A v \in Worker : v # w => me'[v].pc = me[v].pc /\ me'[v].age = me[v].age
      <4> HIDE DEF Forget
      <4> QED
        BY <1>2, <3>2
    <3> QED
      BY <1>5, <3>1, <3>2
  <2> QED
    BY <1>5, <2>1 DEF Quiet, Inside
<1> QED
  BY <1>3, <1>4, <1>5

\* People and claimants.
LEMMA PeopleSteps ==
  ASSUME UseInv, Distance, NEW a \in Approval,
         \/ Create(a) \/ Claim(a) \/ Mark(a) \/ Complete(a) \/ Lapse(a)
         \/ Rot(a) \/ Hold(a) \/ Unhold(a) \/ ClaimantDies(a)
  PROVE  Distance' /\ NoneBegins
<1>1. MemoriesOK /\ StateShape
  BY DEF UseInv, Distance
<1>2. UNCHANGED <<ghost, mlock>>
  BY DEF Create, Claim, Mark, Complete, Lapse, Rot, Hold, Unhold, ClaimantDies, locks
<1>3. state' = state \/ \E b : state' = [state EXCEPT !.behind = @ \ {b}]
  BY DEF Create, Claim, Mark, Complete, Lapse, Rot, Hold, Unhold, ClaimantDies, Touched
<1>4. me' = me \/ me' = Forget(a)
  BY DEF Create, Claim, Mark, Complete, Lapse, Rot, Hold, Unhold, ClaimantDies
<1>5. \A w \in Worker : Quiet(w)
  BY <1>1, <1>4, QuietForms
<1> QED
  BY <1>1, <1>2, <1>3, <1>5, BehindAge, QuietDistance

\* What a batch does between its attempt and its end.
LEMMA QuietSteps ==
  ASSUME UseInv, Distance, NEW w \in Worker,
         \/ Look(w) \/ Busy(w) \/ Acquire(w) \/ ReadLone(w) \/ ReadRecord(w) \/ WriteRow(w) \/ Unmark(w)
         \/ Unlink(w) \/ Late(w)
  PROVE  Distance' /\ NoneBegins
<1> DEFINE m == me[w]
           a == Slot(w)
           n == Passed(w, m)
<1>1. MemoriesOK /\ Memory(m, audit) /\ DOMAIN m = Fields /\ StateShape /\ DOMAIN me = Worker
  BY DEF UseInv, MemoriesOK, Memory, Distance
<1>2. n.pc = "next" /\ n.age = m.age /\ Forgets(n, a).pc = "next" /\ Forgets(n, a).age = m.age
  <2>1. Memory(n, audit) /\ n.pc = "next" /\ n.age = m.age
    BY <1>1, PassedMemory
  <2> HIDE DEF n
  <2> QED
    BY <2>1, ForgetsMemory
<1>3. ASSUME NEW x, x \in {"lock", "next", "read", "audit", "unmark", "unlink"}
      PROVE  [m EXCEPT !.pc = x].pc = x /\ [m EXCEPT !.pc = x].age = m.age
  BY <1>1, <1>3 DEF Fields
<1>4. UNCHANGED <<ghost, mlock>>
  BY DEF Look, Busy, Acquire, ReadLone, ReadRecord, WriteRow, Unmark, Unlink, Late, locks
<1>5. state' = state \/ \E b : state' = [state EXCEPT !.behind = @ \ {b}]
  BY DEF Look, Busy, Acquire, ReadLone, ReadRecord, WriteRow, Unmark, Unlink, Late, Touched
<1>6. SUFFICES \A v \in Worker : Quiet(v)
  BY <1>1, <1>4, <1>5, BehindAge, QuietDistance
<1>7. CASE Look(w) \/ Acquire(w) \/ WriteRow(w) \/ Unmark(w)
  <2> DEFINE f(x) == [m EXCEPT !.pc = x]
  <2>1. \E x \in {"lock", "read", "unmark", "unlink"} : me' = [me EXCEPT ![w] = f(x)] /\ (x = "lock" \/ Inside(w))
    BY <1>7 DEF Look, Acquire, WriteRow, Unmark, Goto, At, Inside
  <2>2. \A x \in {"lock", "read", "unmark", "unlink"} : f(x).pc = x /\ f(x).age = m.age
    BY <1>3
  <2> HIDE DEF f
  <2> QED
    BY <1>1, <2>1, <2>2, QuietForms
<1>8. CASE Busy(w)
  <2> DEFINE x == [n EXCEPT !.busy = TRUE, !.before = IF m.busy THEN m.before ELSE m.done]
  <2>1. DOMAIN n = Fields
    BY <1>1, PassedMemory DEF Memory
  <2> HIDE DEF n
  <2>2. x.pc = n.pc /\ x.age = n.age
    BY <2>1 DEF Fields
  <2> USE DEF n
  <2>3. me' = [me EXCEPT ![w] = x] /\ Inside(w)
    BY <1>8 DEF Busy, At, Inside
  <2> HIDE DEF x, n
  <2> QED
    BY <1>1, <1>2, <2>2, <2>3, QuietForms
<1>9. CASE ReadLone(w) \/ Unlink(w)
  <2>1. (me' = [me EXCEPT ![w] = n] \/ me' = [Forget(a) EXCEPT ![w] = Forgets(n, a)]) /\ Inside(w)
    BY <1>9 DEF ReadLone, Unlink, At, Inside
  <2> HIDE DEF n, a
  <2> QED
    BY <1>1, <1>2, <2>1, QuietForms
<1>10. CASE ReadRecord(w)
  <2> DEFINE y == [m EXCEPT !.pc = "audit"]
             z == [Forget(a)[w] EXCEPT !.pc = "audit"]
  <2>1. y.pc = "audit" /\ y.age = m.age
    BY <1>3
  <2>2. z.pc = "audit" /\ z.age = m.age
    <3>1. Forget(a)[w] = Forgets(m, a)
      BY DEF Forget
    <3>2. DOMAIN Forget(a)[w] = Fields /\ Forget(a)[w].age = m.age
      BY <1>1, <3>1, ForgetsMemory DEF Memory
    <3> HIDE DEF Forget
    <3> QED
      BY <3>2 DEF Fields
  <2>3. Inside(w)
    BY <1>10 DEF ReadRecord, At, Inside
  <2>4. \/ me' = [Forget(a) EXCEPT ![w] = z]
        \/ me' = [me EXCEPT ![w] = y]
        \/ me' = [Forget(a) EXCEPT ![w] = Forgets(n, a)]
        \/ me' = [me EXCEPT ![w] = n]
    BY <1>10 DEF ReadRecord
  <2> HIDE DEF n, y, z
  <2> QED
    BY <1>1, <1>2, <2>1, <2>2, <2>3, <2>4, QuietForms
<1>11. CASE Late(w)
  <2> DEFINE x == [m EXCEPT !.pc = "next", !.list = <<>>, !.whole = FALSE]
  <2>1. x.pc = "next" /\ x.age = m.age
    BY <1>1 DEF Fields
  <2>2. me' = [me EXCEPT ![w] = x] /\ Inside(w)
    BY <1>11 DEF Late, Inside
  <2> HIDE DEF x
  <2> QED
    BY <1>1, <2>1, <2>2, QuietForms
<1> QED
  BY <1>7, <1>8, <1>9, <1>10, <1>11

\* A batch ends, fails, loses its lock, is not due, or dies.
LEMMA LeavingSteps ==
  ASSUME UseInv, Distance, NEW w \in Worker, LockLost(w) \/ Finish(w) \/ Save(w) \/ Fails(w) \/ Crash(w)
  PROVE  Distance' /\ NoneBegins
<1> DEFINE m == me[w]
<1>1. MemoriesOK /\ Memory(m, audit) /\ DOMAIN m = Fields /\ StateShape /\ DOMAIN me = Worker
  BY DEF UseInv, MemoriesOK, Memory, Distance
<1>2. UNCHANGED ghost
  BY DEF LockLost, Finish, Save, Fails, Crash, ghost
<1>3. Kept => state.age = gap
  BY DEF Kept
<1>4. CASE LockLost(w) \/ Crash(w)
  <2>1. state' = state /\ me' = [me EXCEPT ![w] = Idle]
        /\ (mlock' = (IF mlock.by = w THEN NoLock ELSE mlock) \/ mlock' = (IF mlock.by = w THEN Left ELSE mlock))
    BY <1>4 DEF LockLost, Crash, Leave
  <2> QED
    BY <1>1, <1>2, <1>3, <2>1, LeaveDistance DEF StateShape
<1>5. CASE Finish(w)
  <2>1. CASE Leave(w)
    BY <1>1, <1>2, <1>3, <1>5, <2>1, LeaveDistance DEF Finish, Leave, StateShape
  <2>2. CASE Goto(w, "save") /\ UNCHANGED mlock
    <3> DEFINE x == [m EXCEPT !.pc = "save"]
    <3>1. x.pc = "save" /\ x.age = m.age
      BY <1>1 DEF Fields
    <3>2. me' = [me EXCEPT ![w] = x] /\ Inside(w) /\ state' = state /\ mlock' = mlock
      BY <1>5, <2>2 DEF Finish, Goto, At, Inside
    <3> HIDE DEF x
    <3>3. \A v \in Worker : Quiet(v)
      BY <1>1, <3>1, <3>2, QuietForms
    <3> QED
      BY <1>1, <1>2, <3>2, <3>3, QuietDistance DEF StateShape
  <2> QED
    BY <1>5, <2>1, <2>2 DEF Finish
<1>6. CASE Save(w)
  <2>1. state' = [age |-> m.age, behind |-> NextCursor(m)] /\ Leave(w) /\ Inside(w)
    BY <1>6 DEF Save, At, Inside
  <2>2. StateShape' /\ state'.age = m.age
    BY <2>1 DEF StateShape
  <2>3. Kept => state'.age = gap
    BY <2>1, <2>2 DEF Kept
  <2> QED
    BY <1>1, <1>2, <2>1, <2>2, <2>3, LeaveDistance DEF Leave
<1>7. CASE Fails(w)
  <2>1. state' = state
    BY <1>7 DEF Fails
  <2>2. CASE Leave(w)
    BY <1>1, <1>2, <1>3, <2>1, <2>2, LeaveDistance DEF Leave, StateShape
  <2>3. CASE Inside(w) /\ me' = [me EXCEPT ![w] = Passed(w, m)] /\ UNCHANGED mlock
    <3>1. Passed(w, m).pc = "next" /\ Passed(w, m).age = m.age
      BY <1>1, PassedMemory
    <3>2. \A v \in Worker : Quiet(v)
      <4> HIDE DEF Passed
      <4> QED
        BY <1>1, <2>3, <3>1, QuietForms
    <3> QED
      BY <1>1, <1>2, <2>1, <2>3, <3>2, QuietDistance DEF StateShape
  <2> QED
    BY <1>7, <2>2, <2>3 DEF Fails, Inside
<1> QED
  BY <1>4, <1>5, <1>6, <1>7

\* The lock is taken, the state read under it, the clock moves, a process is stopped.
LEMMA LockSteps ==
  ASSUME UseInv, Distance, MemoriesOK', NEW w \in Worker, TryLock(w) \/ Begin(w)
  PROVE  Distance' /\ (At(w, "state") /\ me'[w].pc = "next" => gap = Interval \/ excused)
         /\ \A v \in Worker : v # w => ~(At(v, "state") /\ me'[v].pc = "next")
<1> DEFINE m == me[w]
<1>1. MemoriesOK /\ Memory(m, audit) /\ DOMAIN m = Fields /\ StateShape /\ DOMAIN me = Worker
  BY DEF UseInv, MemoriesOK, Memory, Distance
<1>2. CASE UNCHANGED <<state, ghost>> /\ Leave(w)
  BY <1>1, <1>2, LeaveDistance DEF Leave, StateShape, Kept, NoneBegins
<1>3. ASSUME NEW x, me' = [me EXCEPT ![w] = x]
      PROVE  me'[w] = x /\ \A v \in Worker : v # w => me'[v] = me[v] /\ ~(At(v, "state") /\ me'[v].pc = "next")
  BY <1>1, <1>3 DEF At
<1>4. CASE TryLock(w) /\ (mlock.by = "free" \/ mlock.stale) /\ mlock' = LockOf(w) /\ Goto(w, "state")
  <2> DEFINE x == [m EXCEPT !.pc = "state"]
  <2>1. x.pc = "state" /\ x.age = m.age
    BY <1>1 DEF Fields
  <2>2. me' = [me EXCEPT ![w] = x] /\ state' = state /\ gap' = gap /\ excused' = excused
    BY <1>4 DEF TryLock, Goto, ghost
  <2> HIDE DEF x
  <2>3. CASE Kept
    <3>1. \A v \in Worker : ~Holding(v)
      BY <1>4, <2>3, NameAssumption DEF Kept, LockOf
    <3>2. \A v \in Worker : Holding(v)' => v = w
      BY <1>3, <2>2, <3>1 DEF Holding
    <3>3. \A v \in Worker : ~Inside(v)'
      BY <1>3, <2>1, <2>2, <3>1 DEF Holding, Inside
    <3>4. Kept'
      BY <1>3, <1>4, <2>1, <2>2, <2>3, <3>2, <3>3 DEF Kept, LockOf
    <3> QED
      BY <1>1, <1>3, <2>1, <2>2, <3>4 DEF Distance, StateShape
  <2> QED
    BY <1>1, <1>3, <2>1, <2>2, <2>3 DEF Distance, StateShape
<1>5. CASE Begin(w) /\ state.age # Future /\ DueAgain(state.age) /\ gap' = 0 /\ mlock' = mlock
           /\ state' = [state EXCEPT !.age = 0] /\ me' = [me EXCEPT ![w] = Listed(m)]
  <2>1. Listed(m).pc = "next" /\ Listed(m).age = m.age
    BY <1>1, ListedMemory
  <2>2. At(w, "state") /\ excused' = excused
    BY <1>5 DEF Begin
  <2>3. StateShape' /\ state'.age = 0
    BY <1>1, <1>5 DEF StateShape
  <2> HIDE DEF Listed
  <2>4. CASE Kept
    <3>1. gap = Interval
      BY <1>5, <2>4, BoundAssumption DEF Kept, DueAgain, NotDue
    <3>2. mlock = LockOf(w) /\ \A v \in Worker : v # w => ~Holding(v)
      BY <2>2, <2>4 DEF Kept, Holding, At, LockOf
    <3>3. me'[w] = Listed(m) /\ \A v \in Worker : v # w => me'[v] = me[v]
      BY <1>3, <1>5
    <3>4. \A v \in Worker : me'[v].age = 0
      BY <2>1, <2>4, <3>3 DEF Kept
    <3>5. \A v \in Worker : Holding(v)' => mlock' = LockOf(v)
      <4> SUFFICES ASSUME NEW v \in Worker, Holding(v)' PROVE mlock' = LockOf(v)
        BY DEF LockOf
      <4>1. v = w
        BY <3>2, <3>3 DEF Holding
      <4> QED
        BY <1>5, <3>2, <4>1
    <3>6. Kept'
      BY <1>5, <2>3, <3>4, <3>5, BoundAssumption DEF Kept, LockOf
    <3> QED
      BY <1>3, <1>5, <2>3, <3>1, <3>6 DEF Distance
  <2> QED
    BY <1>3, <1>5, <2>2, <2>3, <2>4 DEF Distance
<1>6. CASE Begin(w) /\ state.age = Future /\ Leave(w) /\ state' = [state EXCEPT !.age = 0] /\ gap' = gap
  <2>1. ~Kept
    BY <1>6, BoundAssumption DEF Kept, Future
  <2>2. StateShape' /\ excused' = excused
    BY <1>1, <1>6 DEF StateShape, Begin
  <2>3. me'[w] = Idle /\ Idle.pc = "idle"
    BY <1>3, <1>6 DEF Leave, Idle
  <2> QED
    BY <1>3, <1>6, <2>1, <2>2, <2>3 DEF Distance, Leave
<1>7. CASE TryLock(w)
  BY <1>2, <1>4, <1>7 DEF TryLock, ghost
<1>8. CASE Begin(w)
  BY <1>2, <1>5, <1>6, <1>8 DEF Begin, ghost
<1> QED
  BY <1>7, <1>8

LEMMA ClockSteps ==
  ASSUME UseInv, Distance, SetBack \/ Tick \/ \E w \in Worker : Stall(w)
  PROVE  Distance' /\ NoneBegins
<1>1. /\ MemoriesOK /\ DOMAIN me = Worker /\ StateShape
      /\ \A v \in Worker : DOMAIN me[v] = Fields
  BY DEF UseInv, MemoriesOK, Memory, Distance
<1>2. \A v \in Worker : me'[v].pc = me[v].pc
  <2>1. \A x : \A v \in Worker : [me[v] EXCEPT !.age = x].pc = me[v].pc
    BY <1>1 DEF Fields
  <2>2. CASE SetBack
    BY <2>1, <2>2 DEF SetBack
  <2>3. CASE Tick
    BY <2>1, <2>3 DEF Tick
  <2>4. CASE \E w \in Worker : Stall(w)
    BY <2>4 DEF Stall
  <2> QED
    BY <2>2, <2>3, <2>4
<1>3. NoneBegins
  BY <1>2 DEF NoneBegins, At
<1>4. StateShape'
  BY <1>1 DEF SetBack, Tick, Stall, StateShape
<1>5. CASE SetBack \/ \E w \in Worker : Stall(w)
  BY <1>3, <1>4, <1>5 DEF Distance, SetBack, Stall
<1>6. CASE Tick
  <2>1. gap' = Older(gap, Interval) /\ mlock' = mlock /\ excused' = excused
    BY <1>6 DEF Tick, locks
  <2>2. state'.age = Older(state.age, Interval)
    BY <1>1, <1>6 DEF Tick, StateShape
  <2>3. CASE Kept
    <3>1. \A v \in Worker : ~Holding(v)
      BY <1>6, <2>3 DEF Kept, Tick, Running, LockOf
    <3>2. \A v \in Worker : me'[v] = me[v]
      BY <1>1, <1>6, <3>1 DEF Tick, Holding
    <3>3. Older(gap, Interval) \in 0..Interval
      BY <2>3, BoundAssumption DEF Kept, Older
    <3>4. Kept'
      BY <2>1, <2>2, <2>3, <3>1, <3>2, <3>3 DEF Kept, Holding, Inside
    <3> QED
      BY <1>3, <1>4, <3>4 DEF Distance
  <2> QED
    BY <1>3, <1>4, <2>1, <2>3 DEF Distance
<1> QED
  BY <1>5, <1>6

LEMMA DistanceStep ==
  ASSUME UseInv, UseInv', Distance, [Next]_vars
  PROVE  Distance' /\ \A w \in Worker : At(w, "state") /\ me'[w].pc = "next" => gap = Interval \/ excused
<1>1. CASE UNCHANGED vars
  <2>1. UNCHANGED <<state, me, mlock, gap, excused>>
    BY <1>1 DEF vars, locks, ghost
  <2> QED
    BY <2>1 DEF Distance, StateShape, Kept, Holding, Inside, At
<1>2. CASE Next
  <2>1. MemoriesOK'
    BY DEF UseInv
  <2>2. ASSUME NEW w \in Worker, TryLock(w) \/ Begin(w)
        PROVE  Distance' /\ \A v \in Worker : At(v, "state") /\ me'[v].pc = "next" => gap = Interval \/ excused
    BY <2>1, <2>2, LockSteps
  <2>3. CASE Distance' /\ NoneBegins
    BY <2>3 DEF NoneBegins
  <2>4. ASSUME NEW a \in Approval,
               \/ Create(a) \/ Claim(a) \/ Mark(a) \/ Complete(a) \/ Lapse(a)
               \/ Rot(a) \/ Hold(a) \/ Unhold(a) \/ ClaimantDies(a)
        PROVE  Distance' /\ NoneBegins
    BY <2>4, PeopleSteps
  <2> QED
    BY <1>2, <2>2, <2>3, <2>4, QuietSteps, LeavingSteps, ClockSteps DEF Next, Batch
<1> QED
  BY <1>1, <1>2

\* Batches are an interval apart (runApprovalMaintenance commits the attempt before the first record
\* and looks again under the lock), with any number of processes and crashes, until a live batch
\* loses its lock or the clock goes back.
THEOREM NoStormHolds == Spec => NoStorm
<1>1. Init => Distance
  <2>1. Init => StateShape
    BY DEF Init, StateShape
  <2>2. Init => Kept
    <3> SUFFICES ASSUME Init PROVE Kept
      OBVIOUS
    <3>1. /\ state.age = Interval /\ gap = Interval /\ DOMAIN me = Worker
          /\ \A w \in Worker : me[w].age = 0 /\ me[w].pc = "idle"
      BY DEF Init, Idle
    <3> QED
      BY <3>1, BoundAssumption DEF Kept, Holding, Inside
  <2> QED
    BY <2>1, <2>2 DEF Distance
<1>2. UseInv /\ UseInv' /\ Distance /\ [Next]_vars => Distance'
  BY DistanceStep
<1>3. UseInv /\ UseInv' /\ Distance /\ [Next]_vars
      => [\A w \in Worker : At(w, "state") /\ me'[w].pc = "next" => gap = Interval \/ excused]_vars
  BY DistanceStep
<1> QED
  BY <1>1, <1>2, <1>3, UseInvHolds, PTL DEF Spec, NoStorm

-----------------------------------------------------------------------------
(* What is deleted *)

\* Where a batch works on a record, and where it has judged that record.
AtSlot == {"read", "audit", "unmark", "unlink"}
Judged == {"audit", "unmark", "unlink"}

\* The batch of w goes on with the record it works on, if with any.
Stays(w) == me'[w].pc = me[w].pc /\ me'[w].list = me[w].list

\* How the batch of w may come to work on a record, and on to deleting it.
Advances(w) ==
  \/ Stays(w)
  \/ me'[w].pc \notin AtSlot
  \/ /\ me'[w].list = me[w].list
     /\ \/ me'[w].pc = "read" /\ Acquire(w)
        \/ me[w].pc = "read" /\ me'[w].pc = "audit" /\ rec' = [rec EXCEPT ![Slot(w)] = Derived(@)]
           /\ Prunable(Derived(rec[Slot(w)])) /\ UNCHANGED <<rlock, trouble>>
        \/ me[w].pc \in Judged /\ me'[w].pc \in Judged /\ UNCHANGED <<rlock, trouble, rec>>

\* A step of a process that goes on to memory m leaves the others at their records.
LEMMA SlotForms ==
  ASSUME MemoriesOK
  PROVE  /\ me' = me => \A w \in Worker : Stays(w)
         /\ \A a : me' = Forget(a) => \A w \in Worker : Stays(w)
         /\ \A m : \A w \in Worker :
              (me' = [me EXCEPT ![w] = m] \/ \E a : me' = [Forget(a) EXCEPT ![w] = m])
                => me'[w] = m /\ \A v \in Worker : v # w => Stays(v)
<1>1. DOMAIN me = Worker /\ \A w \in Worker : DOMAIN me[w] = Fields
  BY DEF MemoriesOK, Memory
<1>2. ASSUME NEW a
      PROVE  DOMAIN Forget(a) = Worker /\ \A w \in Worker : Forget(a)[w].pc = me[w].pc /\ Forget(a)[w].list = me[w].list
  BY <1>1 DEF Forget, Forgets, Fields
<1>3. me' = me => \A w \in Worker : Stays(w)
  BY DEF Stays
<1>4. ASSUME NEW a, me' = Forget(a) PROVE \A w \in Worker : Stays(w)
  BY <1>2, <1>4 DEF Stays
<1>5. ASSUME NEW m, NEW w \in Worker, me' = [me EXCEPT ![w] = m]
      PROVE  me'[w] = m /\ \A v \in Worker : v # w => Stays(v)
  BY <1>1, <1>5 DEF Stays
<1>6. ASSUME NEW m, NEW w \in Worker, NEW a, me' = [Forget(a) EXCEPT ![w] = m]
      PROVE  me'[w] = m /\ \A v \in Worker : v # w => Stays(v)
  <2> HIDE DEF Forget
  <2> QED
    BY <1>2, <1>6 DEF Stays
<1> QED
  BY <1>3, <1>4, <1>5, <1>6

\* Every step of a batch, its failures and its death.
LEMMA BatchAdvances ==
  ASSUME UseInv, NEW w \in Worker, Batch(w) \/ Late(w) \/ Fails(w) \/ Crash(w) \/ Stall(w)
  PROVE  Advances(w) /\ \A v \in Worker : v # w => Stays(v)
<1> DEFINE m == me[w]
           a == Slot(w)
           n == Passed(w, m)
<1>1. MemoriesOK /\ Memory(m, audit) /\ DOMAIN m = Fields
  BY DEF UseInv, MemoriesOK, Memory
<1>2. Idle.pc \notin AtSlot /\ n.pc = "next" /\ Listed(m).pc = "next" /\ DOMAIN n = Fields /\ Forgets(n, a).pc = "next"
  <2>1. Memory(n, audit) /\ n.pc = "next" /\ Listed(m).pc = "next"
    BY <1>1, PassedMemory, ListedMemory
  <2> HIDE DEF n
  <2> QED
    BY <2>1, ForgetsMemory DEF Idle, AtSlot, Memory
<1>3. ASSUME NEW x, \/ me' = [me EXCEPT ![w] = x] \/ \E b : me' = [Forget(b) EXCEPT ![w] = x], x.pc \notin AtSlot
      PROVE  Advances(w) /\ \A v \in Worker : v # w => Stays(v)
  BY <1>1, <1>3, SlotForms DEF Advances
<1>4. ASSUME NEW pc, me' = [me EXCEPT ![w].pc = pc]
      PROVE  me'[w].pc = pc /\ me'[w].list = m.list /\ \A v \in Worker : v # w => Stays(v)
  <2> DEFINE x == [m EXCEPT !.pc = pc]
  <2>1. x.pc = pc /\ x.list = m.list
    BY <1>1 DEF Fields
  <2>2. me' = [me EXCEPT ![w] = x]
    BY <1>4
  <2> HIDE DEF x
  <2> QED
    BY <1>1, <2>1, <2>2, SlotForms
<1>5. CASE Look(w) \/ TryLock(w) \/ Begin(w) \/ LockLost(w) \/ Finish(w) \/ Save(w) \/ Crash(w)
  <2>1. CASE me' = [me EXCEPT ![w] = Idle] \/ me' = [me EXCEPT ![w] = Listed(m)]
    BY <1>2, <1>3, <2>1 DEF AtSlot
  <2>2. ASSUME NEW pc \in {"lock", "state", "save"}, me' = [me EXCEPT ![w].pc = pc]
        PROVE  Advances(w) /\ \A v \in Worker : v # w => Stays(v)
    BY <1>4, <2>2 DEF Advances, AtSlot
  <2> QED
    BY <1>5, <2>1, <2>2 DEF Look, TryLock, Begin, LockLost, Finish, Save, Crash, Leave, Goto
<1>6. CASE Busy(w)
  <2> DEFINE x == [n EXCEPT !.busy = TRUE, !.before = IF m.busy THEN m.before ELSE m.done]
  <2>1. me' = [me EXCEPT ![w] = x]
    BY <1>6 DEF Busy
  <2> HIDE DEF n
  <2>2. x.pc = "next"
    BY <1>2 DEF Fields
  <2> QED
    BY <1>3, <2>1, <2>2 DEF AtSlot
<1>7. CASE Acquire(w)
  BY <1>4, <1>7 DEF Acquire, Goto, Advances
<1>8. CASE ReadLone(w) \/ Unlink(w)
  <2>1. me' = [me EXCEPT ![w] = n] \/ me' = [Forget(a) EXCEPT ![w] = Forgets(n, a)]
    BY <1>8 DEF ReadLone, Unlink
  <2> HIDE DEF Forget, n
  <2> QED
    BY <1>2, <1>3, <2>1 DEF AtSlot
<1>9. CASE WriteRow(w) \/ Unmark(w)
  <2>1. /\ me' = [me EXCEPT ![w].pc = IF m.pc = "audit" THEN "unmark" ELSE "unlink"] /\ m.pc \in Judged
        /\ UNCHANGED <<rlock, trouble, rec>>
    BY <1>9 DEF WriteRow, Unmark, Goto, At, Judged, locks
  <2>2. me'[w].pc \in Judged /\ me'[w].list = m.list /\ \A v \in Worker : v # w => Stays(v)
    BY <1>4, <2>1 DEF Judged
  <2> QED
    BY <2>1, <2>2 DEF Advances
<1>10. CASE ReadRecord(w)
  <2>1. CASE me' = [me EXCEPT ![w] = n] \/ me' = [Forget(a) EXCEPT ![w] = Forgets(n, a)]
    <3> HIDE DEF Forget, n
    <3> QED
      BY <1>2, <1>3, <2>1 DEF AtSlot
  <2>2. CASE Prunable(Derived(rec[a])) /\ UNCHANGED rlock
             /\ me' = [(IF Derived(rec[a]) # rec[a] THEN Forget(a) ELSE me) EXCEPT ![w].pc = "audit"]
    <3>1. me[w].pc = "read" /\ rec' = [rec EXCEPT ![a] = Derived(rec[a])] /\ trouble' = trouble
      BY <1>10 DEF ReadRecord, At
    <3>3. me'[w].pc = "audit" /\ me'[w].list = m.list /\ \A v \in Worker : v # w => Stays(v)
      <4>1. CASE me' = [me EXCEPT ![w].pc = "audit"]
        BY <1>4, <4>1
      <4>2. CASE me' = [Forget(a) EXCEPT ![w].pc = "audit"]
        <5> DEFINE z == [Forget(a)[w] EXCEPT !.pc = "audit"]
        <5>1. z.pc = "audit" /\ z.list = m.list
          BY <1>1 DEF Forget, Forgets, Fields
        <5>2. me' = [Forget(a) EXCEPT ![w] = z]
          BY <4>2
        <5> HIDE DEF z, Forget
        <5> QED
          BY <1>1, <5>1, <5>2, SlotForms
      <4> QED
        BY <2>2, <4>1, <4>2
    <3> QED
      BY <2>2, <3>1, <3>3 DEF Advances
  <2> QED
    BY <1>10, <2>1, <2>2 DEF ReadRecord
<1>11. CASE Late(w)
  <2> DEFINE x == [m EXCEPT !.pc = "next", !.list = <<>>, !.whole = FALSE]
  <2>1. x.pc = "next"
    BY <1>1 DEF Fields
  <2>2. me' = [me EXCEPT ![w] = x]
    BY <1>11 DEF Late
  <2> HIDE DEF x
  <2> QED
    BY <1>3, <2>1, <2>2 DEF AtSlot
<1>12. CASE Fails(w)
  <2> HIDE DEF n
  <2>1. me' = [me EXCEPT ![w] = Idle] \/ me' = [me EXCEPT ![w] = n]
    BY <1>12 DEF Fails, Leave, n
  <2> QED
    BY <1>2, <1>3, <2>1 DEF AtSlot
<1>13. CASE Stall(w)
  BY <1>1, <1>13, SlotForms DEF Stall, Advances
<1> QED
  BY <1>5, <1>6, <1>7, <1>8, <1>9, <1>10, <1>11, <1>12, <1>13 DEF Batch

\* Nobody else moves a batch.
LEMMA OthersStay ==
  ASSUME UseInv,
         \/ \E a \in Approval : \/ Create(a) \/ Claim(a) \/ Mark(a) \/ Complete(a) \/ Lapse(a)
                                \/ Rot(a) \/ Hold(a) \/ Unhold(a) \/ ClaimantDies(a)
         \/ SetBack \/ Tick \/ UNCHANGED vars
  PROVE  \A w \in Worker : Stays(w)
<1>1. MemoriesOK /\ DOMAIN me = Worker /\ \A w \in Worker : DOMAIN me[w] = Fields
  BY DEF UseInv, MemoriesOK, Memory
<1>2. CASE me' = me \/ \E a : me' = Forget(a)
  BY <1>1, <1>2, SlotForms
<1>3. ASSUME NEW a \in Approval, \/ Create(a) \/ Claim(a) \/ Mark(a) \/ Complete(a) \/ Lapse(a)
                                 \/ Rot(a) \/ Hold(a) \/ Unhold(a) \/ ClaimantDies(a)
      PROVE  me' = me \/ \E b : me' = Forget(b)
  BY <1>3 DEF Create, Claim, Mark, Complete, Lapse, Rot, Hold, Unhold, ClaimantDies
<1>4. CASE SetBack \/ Tick
  <2>1. \A w \in Worker : me'[w] = me[w] \/ \E x : me'[w] = [me[w] EXCEPT !.age = x]
    BY <1>1, <1>4 DEF SetBack, Tick
  <2> QED
    BY <1>1, <2>1 DEF Stays, Fields
<1> QED
  BY <1>2, <1>3, <1>4 DEF vars

\* A record that is over: it finished, cannot be read, or is gone and will not come back.
Over(a) == rec[a].state \in {"finished", "corrupt"} \/ (rec[a].state = "none" /\ a \in audit)

\* The clock leaves the states of records alone.
LEMMA ClockStates ==
  ASSUME TypesUsed, SetBack \/ Tick, NEW a \in Approval
  PROVE  rec'[a].state = rec[a].state
<1>1. rec[a] \in Records /\ DOMAIN rec = Approval
  BY DEF TypesUsed
<1>2. CASE SetBack
  <2> DEFINE over == rec[a].lapsed \/ rec[a].state = "waiting"
             set  == [rec[a] EXCEPT !.age = 0, !.lapsed = over]
  <2>1. over \in BOOLEAN /\ 0 \in Int
    BY <1>1 DEF Records
  <2>2. rec'[a] = set
    BY <1>2 DEF SetBack
  <2> HIDE DEF over
  <2>3. set.state = rec[a].state
    BY <1>1, <2>1, Dated, Zenon
  <2> QED
    BY <2>2, <2>3
<1>3. CASE Tick
  <2> DEFINE older == [rec[a] EXCEPT !.age = Older(rec[a].age, RetentionAge)]
  <2>1. rec'[a] = rec[a] \/ rec'[a] = older
    BY <1>3 DEF Tick
  <2>2. Older(rec[a].age, RetentionAge) \in Int
    BY <1>1 DEF Records, Older
  <2>3. older.state = rec[a].state
    BY <1>1, <2>2, AgeEdit, Zenon
  <2> QED
    BY <2>1, <2>3
<1> QED
  BY <1>2, <1>3

\* What a claim, an outcome and a lapse write is a record.
LEMMA WrittenStates ==
  ASSUME TypesUsed, NEW b \in Approval, Claim(b) \/ Complete(b) \/ Lapse(b)
  PROVE  \E r : rec' = [rec EXCEPT ![b] = r] /\ r.state \in Existing
<1>1. rec[b] \in Records
  BY DEF TypesUsed
<1> DEFINE used    == [rec[b] EXCEPT !.state = "finished", !.age = 0]
           sending == [rec[b] EXCEPT !.state = "sending"]
           lapsed  == [rec[b] EXCEPT !.lapsed = TRUE, !.age = 0]
<1>2. used.state = "finished" /\ sending.state = "sending" /\ lapsed.state = rec[b].state
  BY <1>1 DEF Records
<1>3. \/ rec' = [rec EXCEPT ![b] = used] \/ rec' = [rec EXCEPT ![b] = sending]
      \/ (rec' = [rec EXCEPT ![b] = lapsed] /\ rec[b].state \in Existing)
  BY DEF Claim, Complete, Lapse, Existing
<1> HIDE DEF used, sending, lapsed
<1> QED
  BY <1>2, <1>3, Ended

\* What is over stays so: nothing waits, is claimed or is made again.
LEMMA OverStays ==
  ASSUME UseInv, UseInv', [Next]_vars, NEW a \in Approval, Over(a)
  PROVE  Over(a)'
<1>1. TypesUsed /\ MemoriesOK /\ audit \subseteq audit'
  <2>1. ASSUME NEW w \in Worker, Batch(w) \/ Late(w) \/ Fails(w) \/ Crash(w) \/ Stall(w) PROVE audit \subseteq audit'
    BY <2>1 DEF Batch, Look, TryLock, Begin, LockLost, Busy, Acquire, ReadLone, ReadRecord, WriteRow, RowWritten, Unmark,
                Unlink, Finish, Save, Late, Fails, Crash, Stall, files
  <2>2. ASSUME \/ \E b \in Approval : \/ Create(b) \/ Claim(b) \/ Mark(b) \/ Complete(b) \/ Lapse(b)
                                      \/ Rot(b) \/ Hold(b) \/ Unhold(b) \/ ClaimantDies(b)
               \/ SetBack \/ Tick \/ UNCHANGED vars
        PROVE  audit \subseteq audit'
    BY <2>2 DEF Create, Claim, Mark, Complete, Lapse, Rot, Hold, Unhold, ClaimantDies, SetBack, Tick, vars, files
  <2> QED
    BY <2>1, <2>2 DEF Next, UseInv
<1>2. ASSUME rec'[a].state = rec[a].state PROVE Over(a)'
  BY <1>1, <1>2 DEF Over
<1>3. ASSUME NEW r \in Records, r.state \in {"finished", "corrupt"} PROVE Derived(r).state \in {"finished", "corrupt"}
  BY <1>3 DEF Derived, Records
<1>4. ASSUME NEW w \in Worker, Batch(w) \/ Late(w) \/ Fails(w) \/ Crash(w) \/ Stall(w) PROVE Over(a)'
  <2>1. CASE UNCHANGED rec
    BY <1>2, <2>1
  <2>2. CASE ReadRecord(w)
    <3>1. rec' = [rec EXCEPT ![Slot(w)] = Derived(rec[Slot(w)])] /\ rec[Slot(w)].state \in Existing
      BY <2>2 DEF ReadRecord
    <3>2. CASE Slot(w) = a
      <4>1. rec[a].state \in {"finished", "corrupt"} /\ rec[a] \in Records /\ rec'[a] = Derived(rec[a])
        BY <1>1, <3>1, <3>2 DEF Over, TypesUsed, Existing, Active
      <4> QED
        BY <1>3, <4>1 DEF Over
    <3>3. CASE Slot(w) # a
      BY <1>1, <1>2, <3>1, <3>3 DEF TypesUsed
    <3> QED
      BY <3>2, <3>3
  <2>3. CASE Unlink(w)
    <3>1. rec' = [rec EXCEPT ![Slot(w)] = Absent] /\ Slot(w) \in audit /\ audit' = audit
      BY <1>1, <2>3 DEF Unlink, At, Slot, MemoriesOK, Memory, Deleting
    <3> QED
      BY <1>1, <1>2, <3>1, AbsentType DEF Over, TypesUsed
  <2> QED
    BY <1>4, <2>1, <2>2, <2>3 DEF Batch, Look, TryLock, Begin, LockLost, Busy, Acquire, ReadLone, WriteRow, Unmark, Finish, Save,
                                  Late, Fails, Crash, Stall, files
<1>5. ASSUME NEW b \in Approval, Create(b) \/ Claim(b) \/ Complete(b) \/ Lapse(b) PROVE Over(a)'
  <2>1. \E r : rec' = [rec EXCEPT ![b] = r]
    BY <1>5 DEF Create, Claim, Complete, Lapse
  <2>2. a # b
    BY <1>5, AbsentType DEF Create, Claim, Complete, Lapse, Claimable, Over, Active
  <2>3. rec'[a] = rec[a]
    BY <1>1, <2>1, <2>2 DEF TypesUsed
  <2> QED
    BY <1>2, <2>3
<1>6. ASSUME NEW b \in Approval, Rot(b) PROVE Over(a)'
  <2>1. rec' = [rec EXCEPT ![b] = [Absent EXCEPT !.state = "corrupt"]] /\ [Absent EXCEPT !.state = "corrupt"].state = "corrupt"
    BY <1>6 DEF Rot, Absent
  <2>2. CASE b = a
    BY <1>1, <2>1, <2>2 DEF Over, TypesUsed
  <2>3. CASE b # a
    BY <1>1, <1>2, <2>1, <2>3 DEF TypesUsed
  <2> QED
    BY <2>2, <2>3
<1>7. ASSUME NEW b \in Approval, Unhold(b) PROVE Over(a)'
  <2>1. rec' = rec \/ (rec' = [rec EXCEPT ![b] = Derived(rec[b])] /\ rec[b].lapsed)
    BY <1>7 DEF Unhold
  <2>2. CASE rec' = rec \/ b # a
    BY <1>1, <1>2, <2>1, <2>2 DEF TypesUsed
  <2>3. CASE rec' = [rec EXCEPT ![b] = Derived(rec[b])] /\ rec[b].lapsed /\ b = a
    <3>1. rec'[a].state = "finished"
      BY <1>1, <2>3 DEF TypesUsed, Derived, Records
    <3> QED
      BY <3>1 DEF Over
  <2> QED
    BY <2>1, <2>2, <2>3
<1>8. ASSUME NEW b \in Approval, Mark(b) \/ Hold(b) \/ ClaimantDies(b) PROVE Over(a)'
  BY <1>2, <1>8 DEF Mark, Hold, ClaimantDies, files
<1>9. ASSUME SetBack \/ Tick PROVE Over(a)'
  BY <1>1, <1>2, <1>9, ClockStates
<1>10. ASSUME UNCHANGED vars PROVE Over(a)'
  BY <1>2, <1>10 DEF vars, files
<1> QED
  BY <1>4, <1>5, <1>6, <1>7, <1>8, <1>9, <1>10 DEF Next

\* Whatever a batch judged is over.
JudgedInv == \A w \in Worker : me[w].pc \in Judged /\ Slot(w) \in Approval => Over(Slot(w))

LEMMA JudgedNext ==
  ASSUME UseInv, UseInv', JudgedInv, [Next]_vars
  PROVE  JudgedInv'
<1>1. SUFFICES ASSUME NEW w \in Worker, me'[w].pc \in Judged, Slot(w)' \in Approval
               PROVE  Over(Slot(w))'
  BY DEF JudgedInv
<1>2. Advances(w)
  <2>1. ASSUME NEW v \in Worker, Batch(v) \/ Late(v) \/ Fails(v) \/ Crash(v) \/ Stall(v) PROVE Advances(w)
    BY <2>1, BatchAdvances DEF Advances
  <2> QED
    BY <2>1, OthersStay DEF Next, Advances
<1>3. Slot(w)' = Slot(w)
  BY <1>1, <1>2 DEF Advances, Stays, Slot, Judged, AtSlot
<1>4. CASE me[w].pc \in Judged
  <2>1. Over(Slot(w))
    BY <1>1, <1>3, <1>4 DEF JudgedInv
  <2>2. \A a \in Approval : Over(a) => Over(a)'
    BY OverStays
  <2> QED
    BY <1>1, <1>3, <2>1, <2>2 DEF Over
<1>5. CASE me[w].pc \notin Judged
  <2>1. rec' = [rec EXCEPT ![Slot(w)] = Derived(rec[Slot(w)])] /\ Prunable(Derived(rec[Slot(w)]))
    BY <1>1, <1>2, <1>5 DEF Advances, Stays, Judged, AtSlot
  <2>2. rec'[Slot(w)].state = "finished"
    BY <1>1, <1>3, <2>1 DEF UseInv, TypesUsed, Prunable
  <2> QED
    BY <1>3, <2>2 DEF Over
<1> QED
  BY <1>4, <1>5

\* Nobody but the last step of a batch takes a record away.
LEMMA OnlyUnlinkDeletes ==
  ASSUME UseInv, [Next]_vars, NEW a \in Approval, rec[a].state \in Existing, rec'[a].state \notin Existing
  PROVE  \E w \in Worker : me[w].pc = "unlink" /\ Slot(w) = a
<1>1. \A w \in Worker : Unlink(w) => me[w].pc = "unlink" /\ rec' = [rec EXCEPT ![Slot(w)] = Absent]
  BY DEF Unlink, At
<1>2. ASSUME NEW w \in Worker,
             \/ Look(w) \/ TryLock(w) \/ Begin(w) \/ LockLost(w) \/ Busy(w) \/ Acquire(w) \/ ReadRecord(w) \/ ReadLone(w)
             \/ WriteRow(w) \/ Unmark(w) \/ Finish(w) \/ Save(w) \/ Late(w) \/ Fails(w) \/ Crash(w) \/ Stall(w)
      PROVE  FALSE
  <2>1. rec' = rec \/ (rec' = [rec EXCEPT ![Slot(w)] = Derived(rec[Slot(w)])])
    BY <1>2 DEF Look, TryLock, Begin, LockLost, Busy, Acquire, ReadRecord, ReadLone, WriteRow, Unmark, Finish, Save, Late, Fails,
                Crash, Stall, files
  <2>2. rec[a] \in Records /\ (rec'[a] = rec[a] \/ rec'[a] = Derived(rec[a]))
    BY <2>1 DEF UseInv, TypesUsed
  <2> QED
    BY <2>2, RecordTypes
<1>3. ASSUME \/ \E b \in Approval : \/ Create(b) \/ Claim(b) \/ Mark(b) \/ Complete(b) \/ Lapse(b)
                                    \/ Rot(b) \/ Hold(b) \/ Unhold(b) \/ ClaimantDies(b)
             \/ SetBack \/ Tick \/ UNCHANGED vars
      PROVE  FALSE
  <2>1. rec[a] \in Records
    BY DEF UseInv, TypesUsed
  <2>2. ASSUME NEW b \in Approval, Create(b) \/ Mark(b) \/ Hold(b) \/ ClaimantDies(b) PROVE FALSE
    BY <2>1, <2>2, AbsentType DEF Create, Mark, Hold, ClaimantDies, files, UseInv, TypesUsed
  <2>3. ASSUME NEW b \in Approval, Claim(b) \/ Complete(b) \/ Lapse(b) PROVE FALSE
    <3>1. PICK r : rec' = [rec EXCEPT ![b] = r] /\ r.state \in Existing
      BY <2>3, WrittenStates DEF UseInv
    <3> QED
      BY <3>1 DEF UseInv, TypesUsed
  <2>4. ASSUME NEW b \in Approval, Rot(b) PROVE FALSE
    <3>1. rec' = [rec EXCEPT ![b] = [Absent EXCEPT !.state = "corrupt"]] /\ [Absent EXCEPT !.state = "corrupt"].state = "corrupt"
      BY <2>4 DEF Rot, Absent
    <3> QED
      BY <2>1, <3>1, Ended DEF UseInv, TypesUsed
  <2>5. ASSUME NEW b \in Approval, Unhold(b) PROVE FALSE
    <3>1. rec'[a] = rec[a] \/ rec'[a] = Derived(rec[a])
      BY <2>5 DEF Unhold, UseInv, TypesUsed
    <3> QED
      BY <2>1, <3>1, RecordTypes
  <2>6. ASSUME SetBack \/ Tick PROVE FALSE
    BY <2>6, ClockStates DEF UseInv
  <2> QED
    BY <1>3, <2>2, <2>3, <2>4, <2>5, <2>6 DEF vars, files
<1>4. PICK w \in Worker : Unlink(w)
  BY <1>2, <1>3 DEF Next, Batch
<1>5. Slot(w) = a
  BY <1>1, <1>4 DEF UseInv, TypesUsed
<1> QED
  BY <1>1, <1>4, <1>5

LEMMA JudgedInvHolds == Spec => [](UseInv /\ JudgedInv)
<1>1. Init => JudgedInv
  BY DEF Init, JudgedInv, Idle, Judged
<1>2. UseInv /\ UseInv' /\ JudgedInv /\ [Next]_vars => JudgedInv'
  BY JudgedNext
<1> QED
  BY <1>1, <1>2, UseInvHolds, PTL DEF Spec

\* Whatever fails, and however often: a record that waits or is being sent is never deleted. A batch
\* deletes only what it read as finished under the record's lock, and what finished is never live again (prune).
NothingLiveDeleted ==
  [][\A a \in Approval : rec[a].state \in Existing /\ rec'[a].state \notin Existing => rec[a].state \notin Active]_vars

THEOREM NothingLiveDeletedHolds == Spec => NothingLiveDeleted
<1>1. UseInv /\ JudgedInv /\ [Next]_vars
      => [\A a \in Approval : rec[a].state \in Existing /\ rec'[a].state \notin Existing => rec[a].state \notin Active]_vars
  <2> SUFFICES ASSUME UseInv, JudgedInv, [Next]_vars, NEW a \in Approval, rec[a].state \in Existing, rec'[a].state \notin Existing
               PROVE  rec[a].state \notin Active
    OBVIOUS
  <2>1. PICK w \in Worker : me[w].pc = "unlink" /\ Slot(w) = a
    BY OnlyUnlinkDeletes
  <2>2. Over(a)
    BY <2>1 DEF JudgedInv, Judged
  <2> QED
    BY <2>2 DEF Over, Active, Existing
<1> QED
  BY <1>1, JudgedInvHolds, PTL DEF Spec, NothingLiveDeleted

-----------------------------------------------------------------------------
(* Records that rot *)

\* No record can be damaged under a batch whose locks were taken for abandoned: one of the two
\* never happens, or there is no second fault.
OneKind == "stall" \notin Faults \/ "rot" \notin Faults \/ MaxTrouble <= 1

RotsNoMore == "rot" \notin Faults \/ trouble >= MaxTrouble
Mine(w)    == rlock[Slot(w)] = LockOf(w)

\* A batch has the lock of the record it works on, or nothing rots any more; what it judged as
\* finished is not damaged since.
IntactInv ==
  /\ DOMAIN rlock = Approval /\ trouble \in Nat
  /\ \A w \in Worker : me[w].pc \in AtSlot /\ Slot(w) \in Approval => Mine(w) \/ RotsNoMore
  /\ \A w \in Worker : me[w].pc \in Judged /\ Slot(w) \in Approval => rec[Slot(w)].state # "corrupt"

\* Whoever may take the lock of a record does not take it from the batch that has it.
LEMMA NotOpen ==
  ASSUME NEW w \in Worker, Mine(w)
  PROVE  ~Open(Slot(w)) /\ rlock[Slot(w)].by = w /\ rlock[Slot(w)].by \notin {"user", "free", "dead"}
  BY NameAssumption DEF Mine, LockOf, Open

\* The lock stays with a batch that goes on with its record.
LEMMA LockStays ==
  ASSUME OneKind, UseInv, IntactInv, [Next]_vars, NEW w \in Worker, Slot(w) \in Approval, me'[w].pc \in AtSlot, Stays(w), Mine(w)
  PROVE  rlock'[Slot(w)] = LockOf(w) \/ RotsNoMore'
<1>1. ~Open(Slot(w)) /\ rlock[Slot(w)].by = w /\ rlock[Slot(w)] = LockOf(w) /\ DOMAIN rlock = Approval
      /\ w \notin {"user", "free", "dead"} /\ me[w].pc \in AtSlot
  BY NotOpen DEF Mine, IntactInv, Stays
<1>2. ASSUME NEW b \in Approval, Claim(b) \/ Complete(b) \/ Hold(b) \/ Unhold(b) PROVE rlock'[Slot(w)] = LockOf(w)
  <2>1. b # Slot(w) /\ \E l : rlock' = [rlock EXCEPT ![b] = l]
    BY <1>1, <1>2 DEF Claim, Complete, Hold, Unhold
  <2> QED
    BY <1>1, <2>1
<1>3. ASSUME NEW v \in Worker, v # w, Unlocked(v) = rlock' PROVE rlock'[Slot(w)] = LockOf(w)
  BY <1>1, <1>3 DEF Unlocked
<1>4. ASSUME NEW v \in Worker, Acquire(v) PROVE rlock'[Slot(w)] = LockOf(w)
  <2>1. Slot(v) # Slot(w)
    BY <1>1, <1>4 DEF Acquire
  <2> QED
    BY <1>1, <1>4, <2>1 DEF Acquire
<1>5. ASSUME NEW v \in Worker, Crash(v) PROVE rlock'[Slot(w)] = LockOf(w)
  <2>1. v # w
    <3>1. CASE v = w
      <4>1. me'[w] = Idle
        BY <1>5, <3>1 DEF Crash, UseInv, MemoriesOK
      <4> QED
        BY <4>1 DEF Idle, AtSlot
    <3> QED
      BY <3>1
  <2> QED
    BY <1>1, <1>5, <2>1 DEF Crash, Abandoned
<1>6. ASSUME NEW v \in Worker, Stall(v) PROVE rlock'[Slot(w)] = LockOf(w) \/ RotsNoMore'
  <2>1. "stall" \in Faults /\ trouble' = trouble + 1 /\ trouble < MaxTrouble
    BY <1>6 DEF Stall, Fault
  <2>2. trouble \in Nat /\ MaxTrouble \in Nat
    BY BoundAssumption DEF IntactInv
  <2>3. "rot" \notin Faults \/ trouble' >= MaxTrouble
    BY <2>1, <2>2 DEF OneKind
  <2> QED
    BY <2>3 DEF RotsNoMore
<1>7. ASSUME NEW v \in Worker, ReadLone(v) \/ ReadRecord(v) \/ Unlink(v) \/ Late(v) \/ Fails(v)
      PROVE  rlock'[Slot(w)] = LockOf(w)
  <2>1. rlock' = rlock \/ rlock' = Unlocked(v)
    BY <1>7 DEF ReadLone, ReadRecord, Unlink, Late, Fails
  <2>2. CASE v # w
    BY <1>1, <1>3, <2>1, <2>2
  <2>3. CASE v = w /\ rlock' = Unlocked(v)
    <3> DEFINE n == Passed(w, me[w])
    <3>1. MemoriesOK /\ Memory(me[w], audit) /\ DOMAIN me = Worker /\ DOMAIN me[w] = Fields
      BY DEF UseInv, MemoriesOK, Memory
    <3>2. Memory(n, audit) /\ n.pc = "next"
      BY <3>1, PassedMemory
    <3>3. me'[w].pc = "next" \/ rlock' = rlock
      <4> HIDE DEF n
      <4>1. Forgets(n, Slot(w)).pc = "next"
        BY <3>2, ForgetsMemory
      <4>2. DOMAIN Forget(Slot(w)) = Worker
        BY DEF Forget
      <4> DEFINE x == [me[w] EXCEPT !.pc = "next", !.list = <<>>, !.whole = FALSE]
      <4>3. x.pc = "next"
        BY <3>1 DEF Fields
      <4>4. \/ rlock' = rlock \/ me' = [Forget(Slot(w)) EXCEPT ![w] = Forgets(n, Slot(w))]
            \/ me' = [me EXCEPT ![w] = n] \/ me' = [me EXCEPT ![w] = x]
        BY <1>7, <2>3 DEF ReadLone, ReadRecord, Unlink, Late, Fails, n
      <4> HIDE DEF x, Forget
      <4> QED
        BY <3>1, <3>2, <4>1, <4>2, <4>3, <4>4
    <3> QED
      BY <1>1, <3>3 DEF AtSlot
  <2> QED
    BY <1>1, <2>1, <2>2, <2>3
<1>8. ASSUME \/ \E v \in Worker : \/ Look(v) \/ TryLock(v) \/ Begin(v) \/ LockLost(v) \/ Busy(v) \/ WriteRow(v)
                                  \/ Unmark(v) \/ Finish(v) \/ Save(v)
             \/ \E b \in Approval : Create(b) \/ Mark(b) \/ Lapse(b) \/ Rot(b) \/ ClaimantDies(b)
             \/ SetBack \/ Tick \/ UNCHANGED vars
      PROVE  rlock'[Slot(w)] = LockOf(w)
  <2>1. rlock' = rlock
    BY <1>8 DEF Look, TryLock, Begin, LockLost, Busy, WriteRow, Unmark, Finish, Save, Create, Mark, Lapse, Rot, ClaimantDies,
                SetBack, Tick, vars, locks
  <2> QED
    BY <1>1, <2>1
<1> QED
  BY <1>2, <1>4, <1>5, <1>6, <1>7, <1>8 DEF Next, Batch

\* Faults are counted, and locks are kept for approvals only.
LEMMA CountsNext ==
  ASSUME IntactInv, [Next]_vars
  PROVE  DOMAIN rlock' = Approval /\ trouble' \in Nat /\ trouble' >= trouble
<1>1. DOMAIN rlock = Approval /\ trouble \in Nat
  BY DEF IntactInv
<1>2. trouble' = trouble \/ trouble' = trouble + 1
  BY DEF Next, Batch, Look, TryLock, Begin, LockLost, Busy, Acquire, ReadLone, ReadRecord, WriteRow, Unmark, Unlink, Finish, Save,
         Late, Fails, Crash, Stall, Create, Claim, Mark, Complete, Lapse, Rot, Hold, Unhold, ClaimantDies, SetBack, Tick, Fault, vars
<1>3. \/ rlock' = rlock \/ (\E b, l : rlock' = [rlock EXCEPT ![b] = l]) \/ \E f : rlock' = [a \in Approval |-> f[a]]
  <2>1. ASSUME NEW v \in Worker, Batch(v) \/ Late(v) \/ Fails(v)
        PROVE  rlock' = rlock \/ \E b, l : rlock' = [rlock EXCEPT ![b] = l]
    BY <2>1 DEF Batch, Look, TryLock, Begin, LockLost, Busy, Acquire, ReadLone, ReadRecord, WriteRow, Unmark, Unlink, Finish, Save,
                Late, Fails, Unlocked, locks
  <2>2. ASSUME \/ \E b \in Approval : \/ Create(b) \/ Claim(b) \/ Mark(b) \/ Complete(b) \/ Lapse(b)
                                      \/ Rot(b) \/ Hold(b) \/ Unhold(b) \/ ClaimantDies(b)
               \/ SetBack \/ Tick \/ UNCHANGED vars
        PROVE  rlock' = rlock \/ \E b, l : rlock' = [rlock EXCEPT ![b] = l]
    BY <2>2 DEF Create, Claim, Mark, Complete, Lapse, Rot, Hold, Unhold, ClaimantDies, SetBack, Tick, vars, locks
  <2>3. ASSUME NEW v \in Worker, Crash(v) \/ Stall(v) PROVE \E f : rlock' = [a \in Approval |-> f[a]]
    <3>1. rlock' = [a \in Approval |-> rlock'[a]]
      BY <2>3 DEF Crash, Stall, Abandoned
    <3> QED
      BY <3>1
  <2> QED
    BY <2>1, <2>2, <2>3 DEF Next
<1> QED
  BY <1>1, <1>2, <1>3

\* Nothing but its own damage makes a record unreadable.
LEMMA OnlyRotCorrupts ==
  ASSUME UseInv, [Next]_vars, NEW a \in Approval, rec[a].state # "corrupt", rec'[a].state = "corrupt"
  PROVE  Rot(a)
<1>1. rec[a] \in Records /\ DOMAIN rec = Approval /\ TypesUsed
  BY DEF UseInv, TypesUsed
<1>2. Derived(rec[a]).state # "corrupt"
  BY <1>1 DEF Derived, Records
<1>3. ASSUME NEW w \in Worker, Batch(w) \/ Late(w) \/ Fails(w) \/ Crash(w) \/ Stall(w) PROVE FALSE
  <2>1. \/ rec' = rec \/ rec' = [rec EXCEPT ![Slot(w)] = Derived(rec[Slot(w)])] \/ rec' = [rec EXCEPT ![Slot(w)] = Absent]
    BY <1>3 DEF Batch, Look, TryLock, Begin, LockLost, Busy, Acquire, ReadRecord, ReadLone, WriteRow, Unmark, Unlink, Finish, Save,
                Late, Fails, Crash, Stall, files
  <2>2. rec'[a] \in {rec[a], Derived(rec[a]), Absent}
    BY <1>1, <2>1
  <2> QED
    BY <1>2, <2>2, AbsentType
<1>4. ASSUME NEW b \in Approval, Create(b) PROVE FALSE
  <2>1. rec' = [rec EXCEPT ![b].state = "waiting"] /\ rec[b] \in Records
    BY <1>1, <1>4 DEF Create, TypesUsed
  <2> QED
    BY <1>1, <2>1 DEF Records
<1>5. ASSUME NEW b \in Approval, Claim(b) \/ Complete(b) \/ Lapse(b) PROVE FALSE
  <2> DEFINE used    == [rec[b] EXCEPT !.state = "finished", !.age = 0]
             sending == [rec[b] EXCEPT !.state = "sending"]
             lapsed  == [rec[b] EXCEPT !.lapsed = TRUE, !.age = 0]
  <2>1. used.state = "finished" /\ sending.state = "sending" /\ lapsed.state = rec[b].state
    BY <1>1 DEF TypesUsed, Records
  <2>2. \/ rec' = [rec EXCEPT ![b] = used] \/ rec' = [rec EXCEPT ![b] = sending] \/ rec' = [rec EXCEPT ![b] = lapsed]
    BY <1>5 DEF Claim, Complete, Lapse
  <2> HIDE DEF used, sending, lapsed
  <2> QED
    BY <1>1, <2>1, <2>2
<1>6. ASSUME NEW b \in Approval, Mark(b) \/ Hold(b) \/ ClaimantDies(b) \/ Unhold(b) PROVE FALSE
  <2>1. rec' = rec \/ rec' = [rec EXCEPT ![b] = Derived(rec[b])]
    BY <1>6 DEF Mark, Hold, ClaimantDies, Unhold, files
  <2> QED
    BY <1>1, <1>2, <2>1
<1>7. ASSUME NEW b \in Approval, Rot(b) PROVE Rot(a)
  <2>1. b = a
    BY <1>1, <1>7 DEF Rot
  <2> QED
    BY <1>7, <2>1
<1>8. ASSUME SetBack \/ Tick \/ UNCHANGED vars PROVE FALSE
  BY <1>1, <1>8, ClockStates DEF vars, files
<1> QED
  BY <1>3, <1>4, <1>5, <1>6, <1>7, <1>8 DEF Next

LEMMA IntactNext ==
  ASSUME OneKind, UseInv, IntactInv, [Next]_vars
  PROVE  IntactInv'
<1>1. DOMAIN rlock = Approval /\ DOMAIN rlock' = Approval /\ trouble' \in Nat /\ trouble' >= trouble /\ trouble \in Nat
  BY CountsNext DEF IntactInv
<1>2. RotsNoMore => RotsNoMore'
  BY <1>1, BoundAssumption DEF RotsNoMore
<1>3. \A w \in Worker : Advances(w)
  <2>1. ASSUME NEW v \in Worker, Batch(v) \/ Late(v) \/ Fails(v) \/ Crash(v) \/ Stall(v) PROVE \A w \in Worker : Advances(w)
    BY <2>1, BatchAdvances DEF Advances
  <2> QED
    BY <2>1, OthersStay DEF Next, Advances
<1>4. ASSUME NEW w \in Worker, me'[w].pc \in AtSlot
      PROVE  Slot(w)' = Slot(w)
  BY <1>3, <1>4 DEF Advances, Stays, Slot
<1>5. ASSUME NEW w \in Worker, me'[w].pc \in AtSlot, Slot(w) \in Approval
      PROVE  rlock'[Slot(w)] = LockOf(w) \/ RotsNoMore'
  <2>1. CASE Stays(w)
    <3>1. me[w].pc \in AtSlot /\ (Mine(w) \/ RotsNoMore)
      BY <1>5, <2>1 DEF Stays, IntactInv
    <3> QED
      BY <1>2, <1>5, <2>1, <3>1, LockStays
  <2>2. CASE Acquire(w)
    BY <1>1, <1>5, <2>2 DEF Acquire
  <2>3. CASE me[w].pc \in AtSlot /\ UNCHANGED rlock
    BY <1>2, <1>5, <2>3 DEF IntactInv, Mine
  <2> QED
    BY <1>3, <1>5, <2>1, <2>2, <2>3 DEF Advances, Judged, AtSlot
<1>6. ASSUME NEW w \in Worker, me'[w].pc \in Judged, Slot(w) \in Approval
      PROVE  rec'[Slot(w)].state # "corrupt"
  <2>1. CASE me[w].pc \in Judged
    <3>1. rec[Slot(w)].state # "corrupt" /\ (Mine(w) \/ RotsNoMore)
      BY <1>6, <2>1 DEF IntactInv, Judged, AtSlot
    <3>2. ~Rot(Slot(w))
      BY <1>1, <3>1, NotOpen, BoundAssumption DEF Rot, Fault, RotsNoMore
    <3> QED
      BY <1>6, <3>1, <3>2, OnlyRotCorrupts
  <2>2. CASE me[w].pc \notin Judged
    <3>1. rec' = [rec EXCEPT ![Slot(w)] = Derived(rec[Slot(w)])] /\ Prunable(Derived(rec[Slot(w)]))
      BY <1>3, <1>6, <2>2 DEF Advances, Stays, Judged, AtSlot
    <3> QED
      BY <1>6, <3>1 DEF UseInv, TypesUsed, Prunable
  <2> QED
    BY <2>1, <2>2
<1>7. \A w \in Worker : me'[w].pc \in Judged => me'[w].pc \in AtSlot
  BY DEF Judged, AtSlot
<1> QED
  BY <1>1, <1>4, <1>5, <1>6, <1>7 DEF IntactInv, Mine, LockOf

\* A record that waits, is being sent or cannot be read is never deleted: between the read under the
\* record's lock and the deletion nobody else gets that lock, or nothing rots any more. With both a batch
\* stopped so long that its lock was taken over and a record damaged under it, the damaged record can go (prune).
THEOREM OnlyFinishedDeletedHolds == Spec /\ OneKind => OnlyFinishedDeleted
<1> SUFFICES ASSUME OneKind PROVE Spec => OnlyFinishedDeleted
  OBVIOUS
<1>1. Init => IntactInv
  <2> SUFFICES ASSUME Init PROVE IntactInv
    OBVIOUS
  <2>1. \A w \in Worker : me[w].pc = "idle"
    BY DEF Init, Idle
  <2> QED
    BY <2>1 DEF Init, IntactInv, AtSlot, Judged
<1>2. UseInv /\ IntactInv /\ [Next]_vars => IntactInv'
  BY IntactNext
<1>3. UseInv /\ JudgedInv /\ IntactInv /\ [Next]_vars
      => [\A a \in Approval : rec[a].state \in Existing /\ rec'[a].state \notin Existing => rec[a].state = "finished"]_vars
  <2> SUFFICES ASSUME UseInv, JudgedInv, IntactInv, [Next]_vars,
                      NEW a \in Approval, rec[a].state \in Existing, rec'[a].state \notin Existing
               PROVE  rec[a].state = "finished"
    OBVIOUS
  <2>1. PICK w \in Worker : me[w].pc = "unlink" /\ Slot(w) = a
    BY OnlyUnlinkDeletes
  <2>2. Over(a) /\ rec[a].state # "corrupt"
    BY <2>1 DEF JudgedInv, IntactInv, Judged
  <2> QED
    BY <2>2 DEF Over, Active, Existing
<1> QED
  BY <1>1, <1>2, <1>3, JudgedInvHolds, PTL DEF Spec, OnlyFinishedDeleted

=============================================================================
