------------------------ MODULE RetentionTypes_proofs ------------------------
(***************************************************************************)
(* The types of Retention: that the files of the directory are listed once    *)
(* each, whatever is made, touched and deleted under whose cursor, and that     *)
(* batches, cursors and locks keep theirs.  And the place of the cursor in the   *)
(* order: what it has passed are the oldest files.                               *)
(***************************************************************************)
EXTENDS Retention_proofs, FiniteSetTheorems

-----------------------------------------------------------------------------
(* The order of the files *)

\* Taking the file at place i out of a list leaves the others, in their order.
LEMMA RemoveAtPlaces ==
  ASSUME NEW S, NEW s \in Seq(S), NEW i \in DOMAIN s
  PROVE  /\ i \in 1..Len(s) /\ Len(s) \in Nat
         /\ RemoveAt(s, i) \in Seq(S) /\ DOMAIN RemoveAt(s, i) = 1..(Len(s) - 1)
         /\ \A j \in 1..(Len(s) - 1) : RemoveAt(s, i)[j] = IF j < i THEN s[j] ELSE s[j + 1]
<1> DEFINE front == SubSeq(s, 1, i - 1)
           back  == SubSeq(s, i + 1, Len(s))
           r     == front \o back
<1>1. i \in 1..Len(s) /\ Len(s) \in Nat /\ i \in Int
  OBVIOUS
<1>2. front \in Seq(S) /\ Len(front) = i - 1 /\ \A j \in 1..(i - 1) : front[j] = s[j]
  BY <1>1
<1>3. back \in Seq(S) /\ Len(back) = Len(s) - i /\ \A j \in 1..(Len(s) - i) : back[j] = s[i + j]
  BY <1>1
<1> HIDE DEF front, back
<1>4. r \in Seq(S) /\ Len(r) = Len(s) - 1 /\ DOMAIN r = 1..(Len(s) - 1)
  BY <1>1, <1>2, <1>3
<1>5. \A j \in 1..(Len(s) - 1) : r[j] = IF j < i THEN s[j] ELSE s[j + 1]
  BY <1>1, <1>2, <1>3
<1>6. RemoveAt(s, i) = r
  BY DEF RemoveAt, front, back
<1> QED
  BY <1>1, <1>4, <1>5, <1>6

\* Without doubles, that file is not there any more, and none of the others is missing.
LEMMA RemoveAtList ==
  ASSUME NEW S, NEW s \in Seq(S), IsInjective(s), NEW i \in DOMAIN s
  PROVE  /\ RemoveAt(s, i) \in Seq(S) /\ IsInjective(RemoveAt(s, i))
         /\ Range(RemoveAt(s, i)) = Range(s) \ {s[i]}
<1> DEFINE r == RemoveAt(s, i)
<1>1. i \in 1..Len(s) /\ Len(s) \in Nat /\ i \in Int
  OBVIOUS
<1>2. r \in Seq(S) /\ DOMAIN r = 1..(Len(s) - 1)
  BY RemoveAtPlaces
<1>3. \A j \in 1..(Len(s) - 1) : r[j] = IF j < i THEN s[j] ELSE s[j + 1]
  BY RemoveAtPlaces
<1> HIDE DEF r
<1>4. ASSUME NEW j \in DOMAIN r, NEW k \in DOMAIN r, r[j] = r[k]
      PROVE  j = k
  BY <1>1, <1>2, <1>3, <1>4 DEF IsInjective
<1>5. ASSUME NEW x \in Range(r)
      PROVE  x \in Range(s) \ {s[i]}
  <2>1. PICK j \in 1..(Len(s) - 1) : r[j] = x
    BY <1>2 DEF Range
  <2>2. PICK k \in 1..Len(s) : k # i /\ s[k] = x
    BY <1>1, <1>3, <2>1
  <2> QED
    BY <1>1, <2>2 DEF IsInjective, Range
<1>6. ASSUME NEW x \in Range(s), x # s[i]
      PROVE  x \in Range(r)
  <2>1. PICK k \in 1..Len(s) : s[k] = x /\ k # i
    BY <1>6 DEF Range
  <2>2. PICK j \in 1..(Len(s) - 1) : r[j] = x
    <3>1. CASE k < i
      BY <1>1, <1>3, <2>1, <3>1
    <3>2. CASE k > i
      <4>1. k - 1 \in 1..(Len(s) - 1) /\ ~(k - 1 < i) /\ (k - 1) + 1 = k
        BY <1>1, <3>2
      <4> QED
        BY <1>3, <2>1, <4>1
    <3> QED
      BY <1>1, <2>1, <3>1, <3>2
  <2> QED
    BY <1>2, <2>2 DEF Range
<1> QED
  BY <1>2, <1>4, <1>5, <1>6 DEF IsInjective, r

\* The order without a, and with a as the newest.
LEMMA Reordered ==
  ASSUME order \in Seq(Approval), IsInjective(order), NEW a
  PROVE  /\ Without(a) \in Seq(Approval) /\ IsInjective(Without(a)) /\ Range(Without(a)) = Range(order) \ {a}
         /\ a \in Approval => Newest(a) \in Seq(Approval) /\ IsInjective(Newest(a)) /\ Range(Newest(a)) = Range(order) \cup {a}
<1>1. Without(a) \in Seq(Approval) /\ IsInjective(Without(a)) /\ Range(Without(a)) = Range(order) \ {a}
  <2>1. CASE a \in Range(order)
    <3>1. \E i \in DOMAIN order : order[i] = a
      BY <2>1 DEF Range
    <3>2. Place(a) \in DOMAIN order /\ order[Place(a)] = a
      BY <3>1 DEF Place
    <3> QED
      BY <2>1, <3>2, RemoveAtList DEF Without
  <2>2. CASE a \notin Range(order)
    BY <2>2 DEF Without
  <2> QED
    BY <2>1, <2>2
<1>2. ASSUME a \in Approval
      PROVE  Newest(a) \in Seq(Approval) /\ IsInjective(Newest(a)) /\ Range(Newest(a)) = Range(order) \cup {a}
  <2> DEFINE r == Without(a)
             n == Append(r, a)
  <2>1. r \in Seq(Approval) /\ IsInjective(r) /\ Range(r) = Range(order) \ {a}
    BY <1>1
  <2> HIDE DEF r
  <2>2. n \in Seq(Approval) /\ Len(r) \in Nat /\ DOMAIN n = 1..(Len(r) + 1) /\ DOMAIN r = 1..Len(r)
        /\ n[Len(r) + 1] = a /\ \A i \in 1..Len(r) : n[i] = r[i]
    BY <1>2, <2>1
  <2>3. \A i \in 1..Len(r) : r[i] # a
    BY <2>1, <2>2 DEF Range
  <2>4. Newest(a) = n
    BY DEF Newest, r
  <2> HIDE DEF n
  <2>5. IsInjective(n)
    BY <2>1, <2>2, <2>3 DEF IsInjective
  <2>6. Range(n) = Range(r) \cup {a}
    <3>1. \A x \in Range(n) : x \in Range(r) \cup {a}
      BY <2>2 DEF Range
    <3>2. \A x \in Range(r) : x \in Range(n)
      BY <2>2 DEF Range
    <3>3. a \in Range(n)
      BY <2>2 DEF Range
    <3> QED
      BY <3>1, <3>2, <3>3
  <2>7. Range(n) = Range(order) \cup {a}
    <3>1. Range(n) = (Range(order) \ {a}) \cup {a}
      BY <2>1, <2>6
    <3> QED
      BY <3>1
  <2> QED
    BY <2>2, <2>4, <2>5, <2>7
<1> QED
  BY <1>1, <1>2

\* The files that a listing takes up are some of the directory.
LEMMA ListedFiles ==
  ASSUME order \in Seq(Approval), NEW m, DOMAIN m = Fields
  PROVE  Listed(m).list \in Seq(Approval)
<1> DEFINE from == Cardinality({i \in DOMAIN order : order[i] \in state.behind})
           to   == IF Len(order) < from + SlotLimit THEN Len(order) ELSE from + SlotLimit
<1>1. Len(order) \in Nat /\ DOMAIN order = 1..Len(order) /\ SlotLimit \in Nat
  BY BoundAssumption
<1>2. IsFiniteSet(1..Len(order))
  BY <1>1, FS_Interval
<1>3. from \in Nat
  BY <1>1, <1>2, FS_Subset, FS_CardinalityType
<1> HIDE DEF from
<1>4. from + 1 \in Nat /\ from + 1 >= 1 /\ to \in Int /\ to <= Len(order)
  BY <1>1, <1>3
<1> HIDE DEF to
<1>5. SubSeq(order, from + 1, to) \in Seq(Approval)
  BY <1>1, <1>4
<1>6. Listed(m).list = SubSeq(order, from + 1, to)
  BY DEF Listed, Fields, from, to
<1> QED
  BY <1>5, <1>6

-----------------------------------------------------------------------------
(* What a batch has in memory *)

Times == Future..Interval

\* The memory m of a batch: its time, the files it knows of, and a list that is not at its end while it
\* works on a record.
Fits(m) ==
  /\ DOMAIN m = Fields
  /\ m.age \in Times /\ m.list \in Seq(Approval) /\ (m.pc \in AtSlot => m.list # <<>>)
  /\ m.behind \subseteq Approval /\ m.done \subseteq Approval /\ m.before \subseteq Approval

AllFit == DOMAIN me = Worker /\ \A w \in Worker : Fits(me[w])

StateFits == DOMAIN state = {"age", "behind"} /\ state.age \in Times /\ state.behind \subseteq Approval

LEMMA TimeBounds ==
  /\ Interval \in Nat /\ Interval > 0 /\ Future = -1
  /\ 0 \in Times /\ Future \in Times /\ Interval \in Times /\ \A x \in Times : x \in Int /\ Older(x, Interval) \in Times
<1>1. Interval \in Nat /\ Interval > 0 /\ Future = -1
  BY BoundAssumption DEF Future
<1> QED
  BY <1>1 DEF Times, Older

LEMMA IdleFits == Fits(Idle)
<1>1. /\ DOMAIN Idle = Fields /\ Idle.age = 0 /\ Idle.list = <<>> /\ Idle.pc = "idle"
      /\ Idle.behind = {} /\ Idle.done = {} /\ Idle.before = {}
  BY DEF Idle, Fields
<1>2. <<>> \in Seq(Approval) /\ "idle" \notin AtSlot
  BY DEF AtSlot
<1> QED
  BY <1>1, <1>2, TimeBounds DEF Fits

LEMMA ForgetsFits ==
  ASSUME NEW m, Fits(m), NEW a
  PROVE  Fits(Forgets(m, a)) /\ Forgets(m, a).pc = m.pc
<1> DEFINE f == Forgets(m, a)
<1>1. /\ DOMAIN f = DOMAIN m /\ f.age = m.age /\ f.list = m.list /\ f.pc = m.pc
      /\ f.behind = m.behind \ {a} /\ f.done = m.done \ {a} /\ f.before = m.before \ {a}
  BY DEF Fits, Fields, Forgets
<1> HIDE DEF f
<1>2. Fits(f)
  BY <1>1 DEF Fits
<1> QED
  BY <1>1, <1>2 DEF f

LEMMA ListedFits ==
  ASSUME NEW m, Fits(m), order \in Seq(Approval), StateFits
  PROVE  Fits(Listed(m)) /\ Listed(m).pc = "next"
<1> DEFINE f == Listed(m)
<1>1. DOMAIN m = Fields
  BY DEF Fits
<1>2. f.list \in Seq(Approval)
  BY <1>1, ListedFiles
<1>3. DOMAIN f = Fields /\ f.age = m.age /\ f.pc = "next" /\ f.behind = state.behind /\ f.done = state.behind /\ f.before = m.before
  BY <1>1 DEF Listed, Fields
<1> HIDE DEF f
<1>4. Fits(f)
  BY <1>2, <1>3 DEF Fits, StateFits, AtSlot
<1> QED
  BY <1>3, <1>4 DEF f

\* The slot a batch is at is of an approval.
LEMMA SlotTypes ==
  ASSUME NEW w \in Worker, Fits(me[w]), me[w].list # <<>>
  PROVE  Slot(w) \in Approval /\ Tail(me[w].list) \in Seq(Approval)
  BY DEF Fits, Slot

LEMMA PassedFits ==
  ASSUME NEW w \in Worker, Fits(me[w]), me[w].list # <<>>
  PROVE  Fits(Passed(w, me[w])) /\ Passed(w, me[w]).pc = "next"
<1> DEFINE m == me[w]
           f == Passed(w, m)
<1>1. Slot(w) \in Approval /\ Tail(m.list) \in Seq(Approval) /\ DOMAIN m = Fields
  BY SlotTypes DEF Fits
<1>2. /\ DOMAIN f = Fields /\ f.age = m.age /\ f.list = Tail(m.list) /\ f.pc = "next"
      /\ f.behind = m.behind /\ f.done = m.done \cup ({Slot(w)} \cap m.same) /\ f.before = m.before
  BY <1>1 DEF Fields, Passed
<1>3. f.done \subseteq Approval
  BY <1>1, <1>2 DEF Fits
<1> HIDE DEF f
<1>4. Fits(f)
  BY <1>1, <1>2, <1>3 DEF Fits, AtSlot
<1> QED
  BY <1>2, <1>4 DEF f

LEMMA EditsFit ==
  ASSUME NEW m, Fits(m)
  PROVE  /\ \A pc : (pc \in AtSlot => m.list # <<>>) => Fits([m EXCEPT !.pc = pc])
         /\ \A d \in SUBSET Approval, b \in BOOLEAN : Fits([m EXCEPT !.busy = b, !.before = d])
         /\ Fits([m EXCEPT !.pc = "next", !.list = <<>>, !.whole = FALSE])
         /\ \A x \in Times : Fits([m EXCEPT !.age = x])
<1>1. DOMAIN m = Fields
  BY DEF Fits
<1>2. ASSUME NEW pc, pc \in AtSlot => m.list # <<>>
      PROVE  Fits([m EXCEPT !.pc = pc])
  BY <1>1, <1>2 DEF Fits, Fields
<1>3. ASSUME NEW d \in SUBSET Approval, NEW b \in BOOLEAN
      PROVE  Fits([m EXCEPT !.busy = b, !.before = d])
  BY <1>1 DEF Fits, Fields
<1>4. Fits([m EXCEPT !.pc = "next", !.list = <<>>, !.whole = FALSE])
  BY <1>1 DEF Fits, Fields, AtSlot
<1>5. ASSUME NEW x \in Times
      PROVE  Fits([m EXCEPT !.age = x])
  BY <1>1 DEF Fits, Fields
<1> QED
  BY <1>2, <1>3, <1>4, <1>5

\* The ways in which a step changes memories.
LEMMA FitForms ==
  ASSUME AllFit
  PROVE  /\ me' = me => AllFit'
         /\ \A a : me' = Forget(a) => AllFit'
         /\ \A m : \A w \in Worker :
              Fits(m) /\ (me' = [me EXCEPT ![w] = m] \/ \E a : me' = [Forget(a) EXCEPT ![w] = m]) => AllFit'
<1>1. DOMAIN me = Worker /\ \A w \in Worker : Fits(me[w])
  BY DEF AllFit
<1>2. ASSUME NEW a
      PROVE  DOMAIN Forget(a) = Worker /\ \A w \in Worker : Fits(Forget(a)[w])
  BY <1>1, ForgetsFits DEF Forget
<1>3. SUFFICES ASSUME DOMAIN me' = Worker, \A w \in Worker : Fits(me'[w]) PROVE AllFit'
  <2>1. (\A w \in Worker : Fits(me'[w])) => \A w \in Worker : Fits(me[w])'
    BY DEF Fits
  <2>2. ASSUME NEW m, NEW w \in Worker, Fits(m), me' = [me EXCEPT ![w] = m] \/ \E a : me' = [Forget(a) EXCEPT ![w] = m]
        PROVE  DOMAIN me' = Worker /\ \A v \in Worker : Fits(me'[v])
    <3>1. CASE me' = [me EXCEPT ![w] = m]
      BY <1>1, <2>2, <3>1
    <3>2. ASSUME NEW a, me' = [Forget(a) EXCEPT ![w] = m]
          PROVE  DOMAIN me' = Worker /\ \A v \in Worker : Fits(me'[v])
      <4> HIDE DEF Forget
      <4> QED
        BY <1>2, <2>2, <3>2
    <3> QED
      BY <2>2, <3>1, <3>2
  <2>3. ASSUME NEW a, me' = Forget(a)
        PROVE  DOMAIN me' = Worker /\ \A v \in Worker : Fits(me'[v])
    BY <1>2, <2>3
  <2> QED
    BY <1>1, <1>3, <2>1, <2>2, <2>3 DEF AllFit
<1> QED
  BY <1>3 DEF AllFit, Fits

MemInv == AllFit /\ StateFits /\ audit \subseteq Approval

\* The state after a write of a record, and after the write of an attempt.
LEMMA StateForms ==
  ASSUME StateFits
  PROVE  /\ state' = state => StateFits'
         /\ \A a : state' = [state EXCEPT !.behind = @ \ {a}] => StateFits'
         /\ \A x \in Times : state' = [state EXCEPT !.age = x] => StateFits'
         /\ \A x \in Times : \A b \in SUBSET Approval : state' = [age |-> x, behind |-> b] => StateFits'
  BY DEF StateFits

\* Every step of a batch, its failures and its death.
LEMMA BatchFits ==
  ASSUME MemInv, order \in Seq(Approval), NEW w \in Worker, Batch(w) \/ Late(w) \/ Fails(w) \/ Crash(w) \/ Stall(w)
  PROVE  MemInv'
<1> DEFINE m == me[w]
           a == Slot(w)
           n == Passed(w, m)
<1>1. AllFit /\ StateFits /\ Fits(m) /\ DOMAIN me = Worker /\ audit \subseteq Approval
  BY DEF MemInv, AllFit
<1>2. ASSUME NEW x, Fits(x), me' = [me EXCEPT ![w] = x] \/ \E b : me' = [Forget(b) EXCEPT ![w] = x]
      PROVE  AllFit'
  BY <1>1, <1>2, FitForms
<1>3. ASSUME NEW pc, me' = [me EXCEPT ![w].pc = pc], pc \in AtSlot => m.list # <<>>
      PROVE  AllFit'
  BY <1>1, <1>2, <1>3, EditsFit
<1>4. ASSUME UNCHANGED files
      PROVE  audit' = audit
  BY <1>4 DEF files
<1>5. m.pc \in AtSlot => m.list # <<>>
  BY <1>1 DEF Fits
<1>6. ASSUME state' = state \/ \E b : state' = [state EXCEPT !.behind = @ \ {b}], AllFit', audit' \subseteq Approval
      PROVE  MemInv'
  BY <1>1, <1>6, StateForms DEF MemInv
<1>7. CASE Look(w) \/ Acquire(w)
  <2>1. \E pc \in {"lock", "read"} : me' = [me EXCEPT ![w].pc = pc] /\ (pc = "read" => m.list # <<>>)
    BY <1>7 DEF Look, Acquire, Goto
  <2>2. AllFit'
    BY <1>3, <2>1 DEF AtSlot
  <2> QED
    BY <1>1, <1>4, <1>6, <1>7, <2>2 DEF Look, Acquire
<1>8. CASE TryLock(w) \/ LockLost(w) \/ Finish(w) \/ Crash(w)
  <2>1. me' = [me EXCEPT ![w] = Idle] \/ \E pc \in {"state", "save"} : me' = [me EXCEPT ![w].pc = pc]
    BY <1>8 DEF TryLock, LockLost, Finish, Crash, Goto, Leave
  <2>2. AllFit'
    BY <1>2, <1>3, <2>1, IdleFits DEF AtSlot
  <2> QED
    BY <1>1, <1>4, <1>6, <1>8, <2>2 DEF TryLock, LockLost, Finish, Crash
<1>9. CASE Begin(w)
  <2>1. AllFit'
    BY <1>1, <1>2, <1>9, IdleFits, ListedFits DEF Begin, Leave
  <2>2. StateFits'
    BY <1>1, <1>9, TimeBounds, StateForms DEF Begin
  <2> QED
    BY <1>1, <1>4, <1>9, <2>1, <2>2 DEF Begin, MemInv
<1>10. CASE Busy(w)
  <2> DEFINE b == IF m.busy THEN m.before ELSE m.done
             x == [n EXCEPT !.busy = TRUE, !.before = b]
  <2>1. Fits(n) /\ b \in SUBSET Approval
    BY <1>1, <1>10, PassedFits DEF Busy, Fits
  <2> HIDE DEF n, b
  <2>2. Fits(x)
    BY <2>1, EditsFit, Zenon
  <2>3. me' = [me EXCEPT ![w] = x]
    BY <1>10 DEF Busy, n, b
  <2> HIDE DEF x
  <2>4. AllFit'
    BY <1>2, <2>2, <2>3
  <2> QED
    BY <1>1, <1>4, <1>6, <1>10, <2>4 DEF Busy
<1>11. CASE ReadLone(w) \/ Unlink(w)
  <2>1. (me' = [me EXCEPT ![w] = n] \/ me' = [Forget(a) EXCEPT ![w] = Forgets(n, a)]) /\ m.list # <<>>
    BY <1>5, <1>11 DEF ReadLone, Unlink, At, AtSlot
  <2>2. Fits(n) /\ Fits(Forgets(n, a))
    BY <1>1, <2>1, PassedFits, ForgetsFits
  <2> HIDE DEF n
  <2>3. AllFit'
    BY <1>2, <2>1, <2>2
  <2> QED
    BY <1>1, <1>6, <1>11, <2>3 DEF ReadLone, Unlink
<1>12. CASE ReadRecord(w)
  <2>1. m.list # <<>> /\ audit' = audit /\ (state' = state \/ \E b : state' = [state EXCEPT !.behind = @ \ {b}])
    BY <1>5, <1>12 DEF ReadRecord, At, AtSlot, Touched
  <2>2. Fits(n) /\ Fits(Forgets(n, a)) /\ Fits([m EXCEPT !.pc = "audit"])
    BY <1>1, <2>1, PassedFits, ForgetsFits, EditsFit
  <2>3. Fits([Forget(a)[w] EXCEPT !.pc = "audit"])
    <3>1. Forget(a)[w] = Forgets(m, a) /\ Forgets(m, a).list = m.list
      BY <1>1 DEF Forget, Forgets, Fits, Fields
    <3>2. Fits(Forgets(m, a))
      BY <1>1, ForgetsFits
    <3> QED
      BY <2>1, <3>1, <3>2, EditsFit
  <2>4. \/ me' = [Forget(a) EXCEPT ![w] = [Forget(a)[w] EXCEPT !.pc = "audit"]]
        \/ me' = [me EXCEPT ![w] = [m EXCEPT !.pc = "audit"]]
        \/ me' = [Forget(a) EXCEPT ![w] = Forgets(n, a)]
        \/ me' = [me EXCEPT ![w] = n]
    BY <1>12 DEF ReadRecord
  <2> HIDE DEF n
  <2>5. AllFit'
    BY <1>2, <2>2, <2>3, <2>4
  <2> QED
    BY <1>1, <1>6, <2>1, <2>5
<1>13. CASE WriteRow(w) \/ Unmark(w)
  <2>1. m.list # <<>> /\ \E pc \in {"unmark", "unlink"} : me' = [me EXCEPT ![w].pc = pc]
    BY <1>5, <1>13 DEF WriteRow, Unmark, Goto, At, AtSlot
  <2>2. AllFit'
    BY <1>3, <2>1
  <2>3. audit' \subseteq Approval
    BY <1>1, <1>13, <2>1, SlotTypes DEF WriteRow, RowWritten, Unmark
  <2> QED
    BY <1>6, <1>13, <2>2, <2>3 DEF WriteRow, Unmark
<1>14. CASE Save(w)
  <2>1. AllFit'
    BY <1>2, <1>14, IdleFits DEF Save, Leave
  <2>2. NextCursor(m) \subseteq Approval /\ m.age \in Times
    BY <1>1 DEF NextCursor, Fits
  <2>3. StateFits'
    BY <1>1, <1>14, <2>2, StateForms DEF Save
  <2> QED
    BY <1>1, <1>4, <1>14, <2>1, <2>3 DEF Save, MemInv
<1>15. CASE Late(w)
  <2>1. AllFit'
    BY <1>1, <1>2, <1>15, EditsFit DEF Late
  <2> QED
    BY <1>1, <1>4, <1>6, <1>15, <2>1 DEF Late
<1>16. CASE Fails(w)
  <2>1. me' = [me EXCEPT ![w] = Idle] \/ (me' = [me EXCEPT ![w] = n] /\ m.pc \in AtSlot)
    BY <1>16 DEF Fails, Leave, AtSlot
  <2>2. m.pc \in AtSlot => Fits(n)
    BY <1>1, <1>5, PassedFits
  <2> HIDE DEF n
  <2>3. AllFit'
    BY <1>2, <2>1, <2>2, IdleFits
  <2> QED
    BY <1>1, <1>4, <1>6, <1>16, <2>3 DEF Fails
<1>17. CASE Stall(w)
  BY <1>1, <1>4, <1>6, <1>17, FitForms DEF Stall
<1> QED
  BY <1>7, <1>8, <1>9, <1>10, <1>11, <1>12, <1>13, <1>14, <1>15, <1>16, <1>17 DEF Batch

\* Everyone else's, and the clock's.
LEMMA OthersFit ==
  ASSUME MemInv,
         \/ \E a \in Approval : \/ Create(a) \/ Claim(a) \/ Mark(a) \/ Complete(a) \/ Lapse(a)
                                \/ Rot(a) \/ Hold(a) \/ Unhold(a) \/ ClaimantDies(a)
         \/ SetBack \/ Tick \/ UNCHANGED vars
  PROVE  MemInv'
<1>1. AllFit /\ StateFits /\ DOMAIN me = Worker /\ (\A w \in Worker : Fits(me[w])) /\ audit \subseteq Approval
  BY DEF MemInv, AllFit
<1>2. audit' = audit
  BY DEF Create, Claim, Mark, Complete, Lapse, Rot, Hold, Unhold, ClaimantDies, SetBack, Tick, vars, files
<1>3. ASSUME NEW a \in Approval, \/ Create(a) \/ Claim(a) \/ Mark(a) \/ Complete(a) \/ Lapse(a)
                                 \/ Rot(a) \/ Hold(a) \/ Unhold(a) \/ ClaimantDies(a)
      PROVE  MemInv'
  <2>1. me' = me \/ me' = Forget(a)
    BY <1>3 DEF Create, Claim, Mark, Complete, Lapse, Rot, Hold, Unhold, ClaimantDies
  <2>2. state' = state \/ \E b : state' = [state EXCEPT !.behind = @ \ {b}]
    BY <1>3 DEF Create, Claim, Mark, Complete, Lapse, Rot, Hold, Unhold, ClaimantDies, Touched
  <2> QED
    BY <1>1, <1>2, <2>1, <2>2, FitForms, StateForms DEF MemInv
<1>4. CASE SetBack \/ Tick
  <2>1. ASSUME NEW w \in Worker
        PROVE  me'[w] = me[w] \/ \E x \in Times : me'[w] = [me[w] EXCEPT !.age = x]
    <3>1. me[w].age \in Times
      BY <1>1 DEF Fits
    <3>2. CASE SetBack
      <4>1. me'[w] = [me[w] EXCEPT !.age = 0] \/ me'[w] = [me[w] EXCEPT !.age = Future]
        BY <3>2 DEF SetBack
      <4> QED
        BY <4>1, TimeBounds
    <3>3. CASE Tick
      <4>1. me'[w] = me[w] \/ me'[w] = [me[w] EXCEPT !.age = Older(me[w].age, Interval)]
        BY <3>3 DEF Tick
      <4> QED
        BY <3>1, <4>1, TimeBounds
    <3> QED
      BY <1>4, <3>2, <3>3
  <2>2. DOMAIN me' = Worker /\ \A w \in Worker : Fits(me'[w])
    <3>1. ASSUME NEW w \in Worker
          PROVE  Fits(me'[w])
      <4>1. Fits(me[w]) /\ \A x \in Times : Fits([me[w] EXCEPT !.age = x])
        BY <1>1, EditsFit
      <4> QED
        BY <2>1, <4>1
    <3>2. DOMAIN me' = Worker
      BY <1>4 DEF SetBack, Tick
    <3> QED
      BY <3>1, <3>2
  <2>3. AllFit'
    BY <2>2 DEF AllFit, Fits
  <2>4. \E x \in Times : state' = [state EXCEPT !.age = x]
    BY <1>1, <1>4, TimeBounds DEF SetBack, Tick, StateFits
  <2> QED
    BY <1>1, <1>2, <2>3, <2>4, StateForms DEF MemInv
<1>5. CASE UNCHANGED vars
  BY <1>1, <1>2, <1>5, FitForms, StateForms DEF vars, MemInv
<1> QED
  BY <1>3, <1>4, <1>5

-----------------------------------------------------------------------------
(* The directory and its order *)

\* Every id with a file is listed once.
OrderInv == order \in Seq(Approval) /\ IsInjective(order) /\ Range(order) = {a \in Approval : HasFile(a)}

LEMMA SameFiles ==
  ASSUME OrderInv, order' = order, \A b \in Approval : HasFile(b)' = HasFile(b)
  PROVE  OrderInv'
<1>1. {b \in Approval : HasFile(b)}' = {b \in Approval : HasFile(b)}
  OBVIOUS
<1> QED
  BY <1>1 DEF OrderInv

LEMMA NewestFile ==
  ASSUME OrderInv, NEW a \in Approval, order' = Newest(a), HasFile(a)', \A b \in Approval : b # a => HasFile(b)' = HasFile(b)
  PROVE  OrderInv'
<1>1. order' \in Seq(Approval) /\ IsInjective(order') /\ Range(order') = Range(order) \cup {a}
  BY Reordered DEF OrderInv
<1>2. {b \in Approval : HasFile(b)}' = {b \in Approval : HasFile(b)} \cup {a}
  OBVIOUS
<1> QED
  BY <1>1, <1>2 DEF OrderInv, IsInjective

LEMMA FileGone ==
  ASSUME OrderInv, NEW a \in Approval, order' = Without(a), ~HasFile(a)', \A b \in Approval : b # a => HasFile(b)' = HasFile(b)
  PROVE  OrderInv'
<1>1. order' \in Seq(Approval) /\ IsInjective(order') /\ Range(order') = Range(order) \ {a}
  BY Reordered DEF OrderInv
<1>2. {b \in Approval : HasFile(b)}' = {b \in Approval : HasFile(b)} \ {a}
  OBVIOUS
<1> QED
  BY <1>1, <1>2 DEF OrderInv, IsInjective

LEMMA OrderNext ==
  ASSUME UseInv, MemInv, OrderInv, [Next]_vars
  PROVE  OrderInv'
<1>1. /\ DOMAIN rec = Approval /\ DOMAIN marker = Approval /\ TypesUsed
      /\ \A a \in Approval : marker[a] \in BOOLEAN /\ rec[a] \in Records
  BY DEF UseInv, TypesUsed
<1>2. ASSUME NEW w \in Worker, me[w].pc \in AtSlot
      PROVE  Slot(w) \in Approval
  <2>1. Fits(me[w]) /\ me[w].list # <<>>
    BY <1>2 DEF MemInv, AllFit, Fits
  <2> QED
    BY <2>1, SlotTypes
<1>3. ASSUME UNCHANGED <<rec, marker, order>>
      PROVE  OrderInv'
  BY <1>3, SameFiles DEF HasFile
<1>4. ASSUME NEW a \in Approval, NEW r, rec' = [rec EXCEPT ![a] = r]
      PROVE  rec'[a] = r /\ \A b \in Approval : b # a => rec'[b] = rec[b]
  BY <1>1, <1>4
<1>5. ASSUME NEW a \in Approval, NEW r, rec' = [rec EXCEPT ![a] = r], r.state \in Existing, marker' = marker, order' = Newest(a)
      PROVE  OrderInv'
  BY <1>4, <1>5, NewestFile DEF HasFile
<1>6. ASSUME NEW w \in Worker, \/ Look(w) \/ TryLock(w) \/ Begin(w) \/ LockLost(w) \/ Busy(w) \/ Acquire(w) \/ WriteRow(w)
                               \/ Finish(w) \/ Save(w) \/ Late(w) \/ Fails(w) \/ Crash(w) \/ Stall(w)
      PROVE  OrderInv'
  BY <1>3, <1>6 DEF Look, TryLock, Begin, LockLost, Busy, Acquire, WriteRow, Finish, Save, Late, Fails, Crash, Stall, files
<1>7. ASSUME NEW a \in Approval, Create(a)
      PROVE  OrderInv'
  <2>1. rec' = [rec EXCEPT ![a] = [rec[a] EXCEPT !.state = "waiting"]] /\ marker' = marker /\ order' = Newest(a)
    BY <1>7 DEF Create, Touched
  <2>2. [rec[a] EXCEPT !.state = "waiting"].state \in Existing
    BY <1>1 DEF Records, Existing, Active
  <2> QED
    BY <1>5, <2>1, <2>2
<1>8. ASSUME NEW a \in Approval, Claim(a) \/ Complete(a)
      PROVE  OrderInv'
  <2>1. marker' = marker /\ order' = Newest(a)
    BY <1>8 DEF Claim, Complete, Touched
  <2>2. \E r : rec' = [rec EXCEPT ![a] = r] /\ r.state \in Existing
    BY <1>1, <1>8, WrittenStates
  <2> QED
    BY <1>5, <2>1, <2>2
<1>9. ASSUME NEW a \in Approval, Rot(a)
      PROVE  OrderInv'
  <2>1. /\ rec' = [rec EXCEPT ![a] = [Absent EXCEPT !.state = "corrupt"]] /\ marker' = marker /\ order' = Newest(a)
        /\ [Absent EXCEPT !.state = "corrupt"].state = "corrupt"
    BY <1>9 DEF Rot, Touched, Absent
  <2> QED
    BY <1>5, <2>1, Ended
<1>10. ASSUME NEW a \in Approval, Unhold(a)
       PROVE  OrderInv'
  <2>1. marker' = marker /\ \/ UNCHANGED <<rec, order>>
                            \/ rec[a].lapsed /\ rec' = [rec EXCEPT ![a] = Derived(rec[a])] /\ order' = Newest(a)
    BY <1>10 DEF Unhold, Touched
  <2>2. rec[a].lapsed => Derived(rec[a]).state = "finished"
    BY <1>1 DEF Derived, Records
  <2> QED
    BY <1>3, <1>5, <2>1, <2>2, Ended
<1>11. ASSUME NEW a \in Approval, Mark(a)
       PROVE  OrderInv'
  <2>1. rec' = rec /\ marker'[a] /\ \A b \in Approval : b # a => marker'[b] = marker[b]
    BY <1>1, <1>11 DEF Mark
  <2>2. CASE rec[a].state \in Existing
    <3>1. order' = order
      BY <1>11, <2>2 DEF Mark
    <3>2. \A b \in Approval : HasFile(b)' = HasFile(b)
      BY <1>1, <2>1, <2>2 DEF HasFile
    <3> QED
      BY <3>1, <3>2, SameFiles
  <2>3. CASE rec[a].state \notin Existing
    <3>1. order' = Newest(a)
      BY <1>11, <2>3 DEF Mark, Touched
    <3> QED
      BY <2>1, <3>1, NewestFile DEF HasFile
  <2> QED
    BY <2>2, <2>3
<1>12. ASSUME NEW a \in Approval, Hold(a) \/ ClaimantDies(a)
       PROVE  OrderInv'
  BY <1>3, <1>12 DEF Hold, ClaimantDies, files
<1>13. ASSUME NEW a \in Approval, Lapse(a)
       PROVE  OrderInv'
  <2>1. UNCHANGED <<marker, order>> /\ rec[a].state \in Existing
    BY <1>13 DEF Lapse, Existing
  <2>2. PICK r : rec' = [rec EXCEPT ![a] = r] /\ r.state \in Existing
    BY <1>1, <1>13, WrittenStates
  <2>3. \A b \in Approval : HasFile(b)' = HasFile(b)
    BY <1>4, <2>1, <2>2 DEF HasFile
  <2> QED
    BY <2>1, <2>3, SameFiles
<1>14. ASSUME SetBack \/ Tick
       PROVE  OrderInv'
  <2>1. UNCHANGED <<marker, order>> /\ \A b \in Approval : rec'[b].state = rec[b].state
    BY <1>1, <1>14, ClockStates DEF SetBack, Tick
  <2> QED
    BY <2>1, SameFiles DEF HasFile
<1>15. ASSUME NEW w \in Worker, ReadLone(w)
       PROVE  OrderInv'
  <2>1. /\ me[w].pc \in AtSlot /\ rec[Slot(w)].state \notin Existing /\ rec' = rec
        /\ marker' = [marker EXCEPT ![Slot(w)] = FALSE] /\ order' = Without(Slot(w))
    BY <1>15 DEF ReadLone, At, AtSlot
  <2>2. Slot(w) \in Approval
    BY <1>2, <2>1
  <2> QED
    BY <1>1, <2>1, <2>2, FileGone DEF HasFile
<1>16. ASSUME NEW w \in Worker, ReadRecord(w)
       PROVE  OrderInv'
  <2> DEFINE a == Slot(w)
             r == Derived(rec[a])
  <2>1. /\ me[w].pc \in AtSlot /\ rec[a].state \in Existing /\ marker' = marker /\ rec' = [rec EXCEPT ![a] = r]
        /\ r # rec[a] => order' = Newest(a)
        /\ r = rec[a] => order' = order
    BY <1>16 DEF ReadRecord, At, AtSlot, Touched
  <2>2. a \in Approval
    BY <1>2, <2>1
  <2>3. r.state \in Existing
    BY <1>1, <2>1, <2>2, RecordTypes
  <2>4. CASE r # rec[a]
    BY <1>5, <2>1, <2>2, <2>3, <2>4
  <2>5. CASE r = rec[a]
    <3>1. \A b \in Approval : rec'[b] = rec[b]
      BY <1>1, <2>1, <2>5
    <3> QED
      BY <2>1, <2>5, <3>1, SameFiles DEF HasFile
  <2> QED
    BY <2>4, <2>5
<1>17. ASSUME NEW w \in Worker, Unmark(w)
       PROVE  OrderInv'
  <2> DEFINE a == Slot(w)
  <2>1. /\ me[w].pc \in AtSlot /\ rec' = rec /\ marker' = [marker EXCEPT ![a] = FALSE]
        /\ order' = IF rec[a].state \in Existing THEN order ELSE Without(a)
    BY <1>17 DEF Unmark, At, AtSlot, Remaining
  <2>2. a \in Approval
    BY <1>2, <2>1
  <2>3. CASE rec[a].state \in Existing
    <3>1. \A b \in Approval : HasFile(b)' = HasFile(b)
      BY <1>1, <2>1, <2>2, <2>3 DEF HasFile
    <3> QED
      BY <2>1, <2>3, <3>1, SameFiles
  <2>4. CASE rec[a].state \notin Existing
    BY <1>1, <2>1, <2>2, <2>4, FileGone DEF HasFile
  <2> QED
    BY <2>3, <2>4
<1>18. ASSUME NEW w \in Worker, Unlink(w)
       PROVE  OrderInv'
  <2>0. PICK a \in Approval : a = Slot(w)
    BY <1>2, <1>18 DEF Unlink, At, AtSlot
  <2>1. /\ rec' = [rec EXCEPT ![a] = Absent] /\ marker' = marker
        /\ order' = IF rec[a].state \in Existing THEN (IF marker[a] THEN Newest(a) ELSE Without(a)) ELSE order
    BY <1>18, <2>0 DEF Unlink, Remaining
  <2>3. rec'[a].state \notin Existing /\ \A b \in Approval : b # a => rec'[b] = rec[b]
    BY <1>4, <2>1, AbsentType
  <2>4. HasFile(a)' = marker[a] /\ \A b \in Approval : b # a => HasFile(b)' = HasFile(b)
    BY <1>1, <2>1, <2>3 DEF HasFile
  <2>5. CASE rec[a].state \in Existing /\ marker[a]
    BY <2>1, <2>4, <2>5, NewestFile
  <2>6. CASE rec[a].state \in Existing /\ ~marker[a]
    BY <2>1, <2>4, <2>6, FileGone
  <2>7. CASE rec[a].state \notin Existing
    <3>1. HasFile(a)' = HasFile(a)
      BY <1>1, <2>4, <2>7 DEF HasFile
    <3> QED
      BY <2>1, <2>4, <2>7, <3>1, SameFiles
  <2> QED
    BY <1>1, <2>5, <2>6, <2>7
<1>19. ASSUME UNCHANGED vars
       PROVE  OrderInv'
  BY <1>3, <1>19 DEF vars, files
<1> QED
  BY <1>6, <1>7, <1>8, <1>9, <1>10, <1>11, <1>12, <1>13, <1>14, <1>15, <1>16, <1>17, <1>18, <1>19 DEF Next, Batch

-----------------------------------------------------------------------------
(* Ages, locks and counts *)

AgesInv == \A a \in Approval : rec[a].age \in 0..RetentionAge

LEMMA AgesNext ==
  ASSUME UseInv, AgesInv, [Next]_vars
  PROVE  AgesInv'
<1>1. /\ DOMAIN rec = Approval /\ RetentionAge \in Nat
      /\ \A a \in Approval : rec[a] \in Records /\ rec[a].age \in 0..RetentionAge
  BY BoundAssumption DEF UseInv, TypesUsed, AgesInv
<1>2. 0 \in 0..RetentionAge
  BY <1>1
<1>3. ASSUME NEW a, NEW r, rec' = [rec EXCEPT ![a] = r], a \in Approval => r.age \in 0..RetentionAge
      PROVE  AgesInv'
  BY <1>1, <1>3 DEF AgesInv
<1>4. ASSUME NEW r \in Records
      PROVE  Derived(r).age = r.age
  BY DEF Derived, Records
<1>5. ASSUME rec' = rec
      PROVE  AgesInv'
  BY <1>1, <1>5 DEF AgesInv
<1>6. ASSUME NEW a \in Approval, Create(a)
      PROVE  AgesInv'
  <2>1. rec' = [rec EXCEPT ![a] = [rec[a] EXCEPT !.state = "waiting"]]
    BY <1>6 DEF Create
  <2>2. [rec[a] EXCEPT !.state = "waiting"].age = rec[a].age
    BY <1>1 DEF Records
  <2> QED
    BY <1>1, <1>3, <2>1, <2>2
<1>7. ASSUME NEW a \in Approval, Claim(a) \/ Complete(a) \/ Lapse(a)
      PROVE  AgesInv'
  <2> DEFINE used    == [rec[a] EXCEPT !.state = "finished", !.age = 0]
             sending == [rec[a] EXCEPT !.state = "sending"]
             lapsed  == [rec[a] EXCEPT !.lapsed = TRUE, !.age = 0]
  <2>1. used.age = 0 /\ sending.age = rec[a].age /\ lapsed.age = 0
    BY <1>1 DEF Records
  <2>2. \/ rec' = [rec EXCEPT ![a] = used] \/ rec' = [rec EXCEPT ![a] = sending] \/ rec' = [rec EXCEPT ![a] = lapsed]
    BY <1>7 DEF Claim, Complete, Lapse
  <2> HIDE DEF used, sending, lapsed
  <2> QED
    BY <1>1, <1>2, <1>3, <2>1, <2>2
<1>8. ASSUME NEW a \in Approval, Rot(a)
      PROVE  AgesInv'
  <2>1. rec' = [rec EXCEPT ![a] = [Absent EXCEPT !.state = "corrupt"]] /\ [Absent EXCEPT !.state = "corrupt"].age = 0
    BY <1>8 DEF Rot, Absent
  <2> QED
    BY <1>2, <1>3, <2>1
<1>9. ASSUME NEW a \in Approval, Unhold(a)
      PROVE  AgesInv'
  <2>1. rec' = rec \/ rec' = [rec EXCEPT ![a] = Derived(rec[a])]
    BY <1>9 DEF Unhold
  <2> QED
    BY <1>1, <1>3, <1>4, <1>5, <2>1
<1>10. ASSUME NEW w \in Worker, ReadRecord(w) \/ Unlink(w)
       PROVE  AgesInv'
  <2>1. rec' = [rec EXCEPT ![Slot(w)] = Derived(rec[Slot(w)])] \/ rec' = [rec EXCEPT ![Slot(w)] = Absent]
    BY <1>10 DEF ReadRecord, Unlink
  <2>2. Absent.age = 0
    BY DEF Absent
  <2> QED
    BY <1>1, <1>2, <1>3, <1>4, <2>1, <2>2
<1>11. ASSUME SetBack
       PROVE  AgesInv'
  <2>1. ASSUME NEW a \in Approval
        PROVE  rec'[a].age = 0
    <3> DEFINE over == rec[a].lapsed \/ rec[a].state = "waiting"
    <3>1. rec'[a] = [rec[a] EXCEPT !.age = 0, !.lapsed = over]
      BY <1>11 DEF SetBack
    <3> HIDE DEF over
    <3> QED
      BY <1>1, <3>1 DEF Records
  <2> QED
    BY <1>2, <2>1 DEF AgesInv
<1>12. ASSUME Tick
       PROVE  AgesInv'
  <2>1. ASSUME NEW a \in Approval
        PROVE  rec'[a].age \in 0..RetentionAge
    <3>1. rec'[a] = rec[a] \/ rec'[a] = [rec[a] EXCEPT !.age = Older(rec[a].age, RetentionAge)]
      BY <1>12 DEF Tick
    <3>2. Older(rec[a].age, RetentionAge) \in 0..RetentionAge
      BY <1>1 DEF Older
    <3> QED
      BY <1>1, <3>1, <3>2 DEF Records
  <2> QED
    BY <2>1 DEF AgesInv
<1>13. ASSUME \/ \E w \in Worker : \/ Look(w) \/ TryLock(w) \/ Begin(w) \/ LockLost(w) \/ Busy(w) \/ Acquire(w)
                                   \/ ReadLone(w) \/ WriteRow(w) \/ Unmark(w) \/ Finish(w) \/ Save(w)
                                   \/ Late(w) \/ Fails(w) \/ Crash(w) \/ Stall(w)
              \/ \E a \in Approval : Mark(a) \/ Hold(a) \/ ClaimantDies(a)
              \/ UNCHANGED vars
       PROVE  AgesInv'
  BY <1>5, <1>13 DEF Look, TryLock, Begin, LockLost, Busy, Acquire, ReadLone, WriteRow, Unmark, Finish, Save, Late, Fails,
                     Crash, Stall, Mark, Hold, ClaimantDies, vars, files
<1> QED
  BY <1>6, <1>7, <1>8, <1>9, <1>10, <1>11, <1>12, <1>13 DEF Next, Batch

Locks(by) == [by : by, stale : BOOLEAN]

LockTypes ==
  /\ mlock \in Locks(Worker \cup {"free", "dead"})
  /\ rlock \in [Approval -> Locks(Worker \cup {"free", "dead", "user"})]

LEMMA LocksNext ==
  ASSUME LockTypes, [Next]_vars
  PROVE  LockTypes'
<1> DEFINE MLocks == Locks(Worker \cup {"free", "dead"})
           RLocks == Locks(Worker \cup {"free", "dead", "user"})
<1>1. mlock \in MLocks /\ rlock \in [Approval -> RLocks]
  BY DEF LockTypes
<1>2. /\ NoLock \in MLocks /\ NoLock \in RLocks /\ Left \in MLocks /\ Left \in RLocks /\ LockOf("user") \in RLocks
      /\ \A w \in Worker : LockOf(w) \in MLocks /\ LockOf(w) \in RLocks
  BY DEF NoLock, Left, LockOf, Locks
<1>3. (\A l \in MLocks : [l EXCEPT !.stale = TRUE] \in MLocks) /\ (\A l \in RLocks : [l EXCEPT !.stale = TRUE] \in RLocks)
  BY DEF Locks
<1> HIDE DEF MLocks, RLocks
<1>4. SUFFICES mlock' \in MLocks /\ rlock' \in [Approval -> RLocks]
  BY DEF LockTypes, MLocks, RLocks
<1>5. ASSUME NEW w \in Worker
      PROVE  Unlocked(w) \in [Approval -> RLocks]
  BY <1>1, <1>2 DEF Unlocked
<1>6. ASSUME NEW w \in Worker, TryLock(w) \/ Begin(w) \/ LockLost(w) \/ Finish(w) \/ Save(w)
      PROVE  mlock' \in MLocks /\ rlock' = rlock
  BY <1>1, <1>2, <1>6 DEF TryLock, Begin, LockLost, Finish, Save, Leave, locks
<1>7. ASSUME NEW w \in Worker, ReadLone(w) \/ ReadRecord(w) \/ Unlink(w) \/ Late(w) \/ Fails(w)
      PROVE  mlock' \in MLocks /\ (rlock' = rlock \/ rlock' = Unlocked(w))
  BY <1>1, <1>2, <1>7 DEF ReadLone, ReadRecord, Unlink, Late, Fails, Leave
<1>8. ASSUME NEW w \in Worker, Acquire(w)
      PROVE  mlock' = mlock /\ rlock' \in [Approval -> RLocks]
  BY <1>1, <1>2, <1>8 DEF Acquire
<1>9. ASSUME NEW w \in Worker, Look(w) \/ Busy(w) \/ WriteRow(w) \/ Unmark(w)
      PROVE  UNCHANGED <<mlock, rlock>>
  BY <1>9 DEF Look, Busy, WriteRow, Unmark, locks
<1>10. ASSUME NEW w \in Worker, Crash(w) \/ Stall(w)
       PROVE  mlock' \in MLocks /\ rlock' \in [Approval -> RLocks]
  BY <1>1, <1>2, <1>3, <1>10 DEF Crash, Stall, Abandoned
<1>11. ASSUME NEW a \in Approval, \/ Create(a) \/ Claim(a) \/ Mark(a) \/ Complete(a) \/ Lapse(a)
                                  \/ Rot(a) \/ Hold(a) \/ Unhold(a) \/ ClaimantDies(a)
       PROVE  mlock' = mlock /\ \/ rlock' = rlock
                                \/ rlock' = [rlock EXCEPT ![a] = NoLock]
                                \/ rlock' = [rlock EXCEPT ![a] = LockOf("user")]
  BY <1>11 DEF Create, Claim, Mark, Complete, Lapse, Rot, Hold, Unhold, ClaimantDies, locks
<1>12. ASSUME SetBack \/ Tick \/ UNCHANGED vars
       PROVE  UNCHANGED <<mlock, rlock>>
  BY <1>12 DEF SetBack, Tick, vars, locks
<1> QED
  BY <1>1, <1>2, <1>5, <1>6, <1>7, <1>8, <1>9, <1>10, <1>11, <1>12 DEF Next, Batch

Counts == gap \in 0..Interval /\ excused \in BOOLEAN /\ trouble \in 0..MaxTrouble

LEMMA BoundsNext ==
  ASSUME Counts, [Next]_vars
  PROVE  Counts'
<1>1. Interval \in Nat /\ MaxTrouble \in Nat /\ gap \in 0..Interval /\ trouble \in 0..MaxTrouble /\ excused \in BOOLEAN
  BY BoundAssumption DEF Counts
<1>2. trouble' = trouble \/ (trouble < MaxTrouble /\ trouble' = trouble + 1)
  BY DEF Next, Batch, Look, TryLock, Begin, LockLost, Busy, Acquire, ReadLone, ReadRecord, WriteRow, Unmark, Unlink, Finish, Save,
         Late, Fails, Crash, Stall, Create, Claim, Mark, Complete, Lapse, Rot, Hold, Unhold, ClaimantDies, SetBack, Tick, Fault, vars
<1>3. excused' = excused \/ excused' = TRUE
  BY DEF Next, Batch, Look, TryLock, Begin, LockLost, Busy, Acquire, ReadLone, ReadRecord, WriteRow, Unmark, Unlink, Finish, Save,
         Late, Fails, Crash, Stall, Create, Claim, Mark, Complete, Lapse, Rot, Hold, Unhold, ClaimantDies, SetBack, Tick, vars, ghost
<1>4. gap' = gap \/ gap' = 0 \/ gap' = Older(gap, Interval)
  BY DEF Next, Batch, Look, TryLock, Begin, LockLost, Busy, Acquire, ReadLone, ReadRecord, WriteRow, Unmark, Unlink, Finish, Save,
         Late, Fails, Crash, Stall, Create, Claim, Mark, Complete, Lapse, Rot, Hold, Unhold, ClaimantDies, SetBack, Tick, vars, ghost
<1>5. Older(gap, Interval) \in 0..Interval
  BY <1>1 DEF Older
<1>6. gap' \in 0..Interval /\ trouble' \in 0..MaxTrouble
  BY <1>1, <1>2, <1>4, <1>5
<1>7. excused' \in BOOLEAN
  BY <1>1, <1>3, Zenon
<1> QED
  BY <1>6, <1>7, Zenon DEF Counts

-----------------------------------------------------------------------------
TypeInv == UseInv /\ MemInv /\ OrderInv /\ AgesInv /\ LockTypes /\ Counts

LEMMA InitTypes == Init /\ UseInv => TypeInv
<1> SUFFICES ASSUME Init, UseInv PROVE TypeInv
  OBVIOUS
<1>1. \A a \in Approval : rec[a] = Absent /\ ~marker[a]
  BY DEF Init
<1>2. MemInv
  <2>1. AllFit
    <3>1. DOMAIN me = Worker /\ \A w \in Worker : me[w] = Idle
      BY DEF Init
    <3> QED
      BY <3>1, IdleFits DEF AllFit
  <2>2. StateFits /\ audit = {}
    BY TimeBounds DEF Init, StateFits
  <2> QED
    BY <2>1, <2>2 DEF MemInv
<1>3. OrderInv
  <2>1. {a \in Approval : HasFile(a)} = {}
    BY <1>1, AbsentType DEF HasFile
  <2>2. order = <<>>
    BY DEF Init
  <2>3. order \in Seq(Approval) /\ DOMAIN order = {}
    BY <2>2
  <2> QED
    BY <2>1, <2>3 DEF OrderInv, IsInjective, Range
<1>4. AgesInv
  <2>1. 0 \in 0..RetentionAge /\ Absent.age = 0
    BY BoundAssumption DEF Absent
  <2> QED
    BY <1>1, <2>1 DEF AgesInv
<1>5. LockTypes
  <2>1. NoLock \in Locks(Worker \cup {"free", "dead"}) /\ NoLock \in Locks(Worker \cup {"free", "dead", "user"})
    BY DEF NoLock, Locks
  <2> QED
    BY <2>1 DEF Init, LockTypes
<1>6. Counts
  <2>1. gap \in 0..Interval /\ trouble \in 0..MaxTrouble
    BY BoundAssumption DEF Init
  <2>2. excused \in BOOLEAN
    BY Zenon DEF Init
  <2> QED
    BY <2>1, <2>2, Zenon DEF Counts
<1> QED
  BY <1>2, <1>3, <1>4, <1>5, <1>6 DEF TypeInv

LEMMA TypeInvHolds == Spec => []TypeInv
<1>1. TypeInv /\ UseInv' /\ [Next]_vars => TypeInv'
  <2> SUFFICES ASSUME TypeInv, UseInv', [Next]_vars PROVE TypeInv'
    OBVIOUS
  <2>1. MemInv'
    BY BatchFits, OthersFit DEF TypeInv, OrderInv, Next
  <2> QED
    BY <2>1, OrderNext, AgesNext, LocksNext, BoundsNext DEF TypeInv
<1> QED
  BY <1>1, InitTypes, UseInvHolds, PTL DEF Spec

\* The files of the approvals directory are listed once each, oldest first, with nothing that is gone,
\* and cursors, batches and locks are those of approvals and processes (runBatch).
THEOREM TypeCorrect == Spec => []TypeOK
<1>1. TypeInv => TypeOK
  <2> SUFFICES ASSUME TypeInv PROVE TypeOK
    OBVIOUS
  <2>1. rec \in [Approval -> [state : Existing \cup {"none"}, lapsed : BOOLEAN, age : 0..RetentionAge]]
    BY DEF TypeInv, UseInv, TypesUsed, AgesInv, Records
  <2>2. \A w \in Worker : me[w].age \in Future..Interval /\ Range(me[w].list) \subseteq Approval
    <3>1. ASSUME NEW s \in Seq(Approval)
          PROVE  Range(s) \subseteq Approval
      BY DEF Range
    <3> QED
      BY <3>1 DEF TypeInv, MemInv, AllFit, Fits, Times
  <2> QED
    BY <2>1, <2>2 DEF TypeInv, UseInv, TypesUsed, MemInv, StateFits, Times, OrderInv, LockTypes, Locks, Counts, TypeOK
<1> QED
  BY <1>1, TypeInvHolds, PTL

-----------------------------------------------------------------------------
(* The cursor *)

\* In the order o, the listed files of S come first.
Oldest(o, S) == \A i, j \in DOMAIN o : i < j /\ o[j] \in S => o[i] \in S

\* What batch m has done before its k-th slot, of the files it listed that are still as they were.
Before(m, k) == m.done \cup {x \in m.same : \E l \in 1..(k - 1) : m.list[l] = x}

\* Batch m goes through the order from its start: what is older than a slot of it comes before that.
GoesThrough(o, m) ==
  /\ Oldest(o, m.done) /\ Oldest(o, m.before)
  /\ \A k \in DOMAIN m.list : \A i, j \in DOMAIN o :
       i < j /\ o[j] = m.list[k] /\ m.list[k] \in m.same => o[i] \in Before(m, k)

CursorInv == Oldest(order, state.behind) /\ \A w \in Worker : GoesThrough(order, me[w])

\* p is an order of files of o, with a taken out or become the newest.
Thins(o, p, a) ==
  \A i, j \in DOMAIN p : i < j /\ p[j] # a => p[i] # a /\ \E k, l \in DOMAIN o : k < l /\ o[k] = p[i] /\ o[l] = p[j]

LEMMA ThinForms ==
  ASSUME order \in Seq(Approval), IsInjective(order), NEW a \in Approval
  PROVE  Thins(order, Without(a), a) /\ Thins(order, Newest(a), a)
<1> DEFINE r == Without(a)
<1>1. r \in Seq(Approval) /\ Len(r) \in Nat /\ DOMAIN r = 1..Len(r)
      /\ Len(order) \in Nat /\ DOMAIN order = 1..Len(order) /\ a \notin Range(r)
  BY Reordered
<1>2. \A i, j \in DOMAIN r : i < j => \E k, l \in DOMAIN order : k < l /\ order[k] = r[i] /\ order[l] = r[j]
  <2>1. CASE a \in Range(order)
    <3>1. \E i \in DOMAIN order : order[i] = a
      BY <2>1 DEF Range
    <3>2. PICK p \in DOMAIN order : p = Place(a)
      BY <3>1 DEF Place
    <3>3. r = RemoveAt(order, p)
      BY <2>1, <3>2 DEF Without
    <3>4. p \in 1..Len(order) /\ DOMAIN r = 1..(Len(order) - 1)
          /\ \A j \in 1..(Len(order) - 1) : r[j] = IF j < p THEN order[j] ELSE order[j + 1]
      BY <3>3, RemoveAtPlaces
    <3> HIDE DEF r
    <3>5. ASSUME NEW i \in DOMAIN r, NEW j \in DOMAIN r, i < j
          PROVE  \E k, l \in DOMAIN order : k < l /\ order[k] = r[i] /\ order[l] = r[j]
      <4> DEFINE at(x) == IF x < p THEN x ELSE x + 1
      <4>1. at(i) \in DOMAIN order /\ at(j) \in DOMAIN order /\ at(i) < at(j)
        BY <1>1, <3>4, <3>5
      <4>2. order[at(i)] = r[i] /\ order[at(j)] = r[j]
        BY <1>1, <3>4, <3>5
      <4> HIDE DEF at
      <4> QED
        BY <4>1, <4>2
    <3> QED
      BY <3>5
  <2>2. CASE a \notin Range(order)
    BY <2>2 DEF Without
  <2> QED
    BY <2>1, <2>2
<1>3. Newest(a) = Append(r, a)
  BY DEF Newest
<1> HIDE DEF r
<1>4. \A i \in DOMAIN r : r[i] # a
  BY <1>1 DEF Range
<1>5. Thins(order, r, a)
  BY <1>2, <1>4 DEF Thins
<1>6. Thins(order, Newest(a), a)
  <2> DEFINE n == Append(r, a)
  <2>1. DOMAIN n = 1..(Len(r) + 1) /\ n[Len(r) + 1] = a /\ \A i \in 1..Len(r) : n[i] = r[i]
    BY <1>1
  <2> HIDE DEF n
  <2>2. ASSUME NEW i \in DOMAIN n, NEW j \in DOMAIN n, i < j, n[j] # a
        PROVE  i \in DOMAIN r /\ j \in DOMAIN r /\ n[i] = r[i] /\ n[j] = r[j]
    BY <1>1, <2>1, <2>2
  <2>3. Thins(order, n, a)
    BY <1>2, <1>4, <2>2 DEF Thins
  <2> QED
    BY <1>3, <2>3 DEF n
<1> QED
  BY <1>5, <1>6 DEF r

\* The first files stay first when a is taken out, and when it becomes the newest and is theirs no more.
LEMMA OldestThins ==
  ASSUME NEW o, NEW p, NEW a, Thins(o, p, a), NEW S, Oldest(o, S)
  PROVE  Oldest(p, S \ {a}) /\ (a \notin Range(p) => Oldest(p, S))
<1>1. ASSUME NEW i \in DOMAIN p, NEW j \in DOMAIN p, i < j, p[j] \in S, p[j] # a
      PROVE  p[i] \in S \ {a}
  <2>1. PICK k \in DOMAIN o, l \in DOMAIN o : k < l /\ o[k] = p[i] /\ o[l] = p[j]
    BY <1>1 DEF Thins
  <2>2. p[i] # a
    BY <1>1 DEF Thins
  <2> QED
    BY <1>1, <2>1, <2>2 DEF Oldest
<1>2. a \notin Range(p) => \A j \in DOMAIN p : p[j] # a
  BY DEF Range
<1> QED
  BY <1>1, <1>2 DEF Oldest

LEMMA ThroughThins ==
  ASSUME NEW o, NEW p, NEW a, Thins(o, p, a), NEW m, DOMAIN m = Fields, GoesThrough(o, m)
  PROVE  GoesThrough(p, Forgets(m, a)) /\ (a \notin Range(p) => GoesThrough(p, m))
<1> DEFINE f == Forgets(m, a)
<1>1. f.list = m.list /\ f.same = m.same \ {a} /\ f.done = m.done \ {a} /\ f.before = m.before \ {a}
  BY DEF Forgets, Fields
<1> HIDE DEF f
<1>2. Oldest(p, f.done) /\ Oldest(p, f.before)
  BY <1>1, OldestThins DEF GoesThrough
<1>3. ASSUME NEW k \in DOMAIN m.list, NEW i \in DOMAIN p, NEW j \in DOMAIN p, i < j, p[j] = m.list[k],
             m.list[k] \in m.same, p[j] # a
      PROVE  p[i] \in Before(m, k) /\ p[i] # a
  <2>1. PICK x \in DOMAIN o, y \in DOMAIN o : x < y /\ o[x] = p[i] /\ o[y] = p[j]
    BY <1>3 DEF Thins
  <2>2. p[i] # a
    BY <1>3 DEF Thins
  <2> QED
    BY <1>3, <2>1, <2>2 DEF GoesThrough
<1>4. \A k : \A x \in Before(m, k) : x # a => x \in Before(f, k)
  BY <1>1 DEF Before
<1>5. GoesThrough(p, f)
  BY <1>1, <1>2, <1>3, <1>4 DEF GoesThrough
<1>6. ASSUME a \notin Range(p)
      PROVE  GoesThrough(p, m)
  <2>1. \A j \in DOMAIN p : p[j] # a
    BY <1>6 DEF Range
  <2>2. Oldest(p, m.done) /\ Oldest(p, m.before)
    BY <1>6, OldestThins DEF GoesThrough
  <2> QED
    BY <1>3, <2>1, <2>2 DEF GoesThrough
<1> QED
  BY <1>5, <1>6 DEF f

\* As many files come first as there are of S.
LEMMA FirstFiles ==
  ASSUME order \in Seq(Approval), NEW S, Oldest(order, S)
  PROVE  LET n == Cardinality({i \in DOMAIN order : order[i] \in S})
         IN  n \in Nat /\ \A i \in DOMAIN order : order[i] \in S <=> i <= n
<1> DEFINE D == {i \in DOMAIN order : order[i] \in S}
           n == Cardinality(D)
<1>1. Len(order) \in Nat /\ DOMAIN order = 1..Len(order) /\ IsFiniteSet(1..Len(order))
  BY FS_Interval
<1>2. IsFiniteSet(D) /\ n \in Nat
  BY <1>1, FS_Subset, FS_CardinalityType
<1>3. ASSUME NEW i \in DOMAIN order, order[i] \in S
      PROVE  i <= n
  <2>1. 1..i \subseteq D
    BY <1>1, <1>3 DEF Oldest
  <2>2. i \in Int /\ 1 <= i /\ Cardinality(1..i) = i
    BY <1>1, FS_Interval
  <2> HIDE DEF D
  <2>3. Cardinality(1..i) <= Cardinality(D)
    BY <1>2, <2>1, FS_Subset
  <2> QED
    BY <2>2, <2>3
<1>4. ASSUME NEW i \in DOMAIN order, order[i] \notin S
      PROVE  ~(i <= n)
  <2>1. i \in Int /\ 1 <= i
    BY <1>1
  <2>2. D \subseteq 1..(i - 1)
    BY <1>1, <1>4, <2>1 DEF Oldest
  <2>3. IsFiniteSet(1..(i - 1)) /\ Cardinality(1..(i - 1)) = i - 1
    <3>1. 1 \in Int /\ i - 1 \in Int
      BY <2>1
    <3>2. IsFiniteSet(1..(i - 1)) /\ Cardinality(1..(i - 1)) = IF 1 > i - 1 THEN 0 ELSE (i - 1) - 1 + 1
      BY ONLY <3>1, FS_Interval, Zenon
    <3> QED
      BY <2>1, <3>2
  <2> HIDE DEF D
  <2>4. Cardinality(D) <= Cardinality(1..(i - 1))
    BY <2>2, <2>3, FS_Subset
  <2> QED
    BY <1>2, <2>1, <2>3, <2>4
<1> QED
  BY <1>2, <1>3, <1>4

\* A listing goes on where the cursor is, and leaves no file out.
LEMMA ThroughListed ==
  ASSUME order \in Seq(Approval), IsInjective(order), Oldest(order, state.behind), NEW m, DOMAIN m = Fields,
         GoesThrough(order, m)
  PROVE  GoesThrough(order, Listed(m))
<1> DEFINE from == Cardinality({i \in DOMAIN order : order[i] \in state.behind})
           to   == IF Len(order) < from + SlotLimit THEN Len(order) ELSE from + SlotLimit
           f    == Listed(m)
           s    == SubSeq(order, from + 1, to)
<1>1. from \in Nat /\ \A i \in DOMAIN order : order[i] \in state.behind <=> i <= from
  BY FirstFiles
<1>2. f.list = s /\ f.same = Range(order) /\ f.done = state.behind /\ f.before = m.before
  BY DEF Listed, Fields
<1>3. Len(order) \in Nat /\ DOMAIN order = 1..Len(order) /\ SlotLimit \in Nat
  BY BoundAssumption
<1> HIDE DEF from, f
<1>4. to \in Int /\ to <= Len(order)
  BY <1>1, <1>3
<1> HIDE DEF to
<1>5. ASSUME NEW k \in DOMAIN s
      PROVE  k \in Nat /\ 1 <= k /\ from + k \in DOMAIN order /\ s[k] = order[from + k] /\ \A l \in 1..k : l \in DOMAIN s
  BY <1>1, <1>3, <1>4, <1>5
<1> HIDE DEF s
<1>6. ASSUME NEW k \in DOMAIN s, NEW i \in DOMAIN order, NEW j \in DOMAIN order, i < j, order[j] = s[k]
      PROVE  order[i] \in Before(f, k)
  <2>1. j = from + k
    BY <1>5, <1>6 DEF IsInjective
  <2>2. CASE i <= from
    BY <1>1, <1>2, <2>2 DEF Before
  <2>3. CASE ~(i <= from)
    <3>1. i - from \in 1..(k - 1) /\ i - from \in DOMAIN s /\ from + (i - from) = i
      BY <1>1, <1>3, <1>5, <1>6, <2>1, <2>3
    <3>2. s[i - from] = order[i]
      BY <1>5, <3>1
    <3>3. order[i] \in Range(order)
      BY DEF Range
    <3> QED
      BY <1>2, <3>1, <3>2, <3>3 DEF Before
  <2> QED
    BY <2>2, <2>3
<1>7. Oldest(order, f.done) /\ Oldest(order, f.before)
  BY <1>2 DEF GoesThrough
<1> QED
  BY <1>2, <1>6, <1>7 DEF GoesThrough, f

\* A slot that is passed is behind the batch if it is as it was listed.
LEMMA ThroughPassed ==
  ASSUME NEW w \in Worker, Fits(me[w]), me[w].list # <<>>, NEW o, GoesThrough(o, me[w])
  PROVE  GoesThrough(o, Passed(w, me[w]))
<1> DEFINE m == me[w]
           f == Passed(w, m)
           h == Slot(w)
<1>1. f.list = Tail(m.list) /\ f.same = m.same /\ f.done = m.done \cup ({h} \cap m.same) /\ f.before = m.before
  BY DEF Passed, Fits, Fields
<1>2. /\ 1 \in DOMAIN m.list /\ h = m.list[1]
      /\ \A k \in DOMAIN Tail(m.list) : k \in Nat /\ 1 <= k /\ k + 1 \in DOMAIN m.list /\ Tail(m.list)[k] = m.list[k + 1]
      /\ \A l \in DOMAIN m.list : l \in Nat /\ (l > 1 => Tail(m.list)[l - 1] = m.list[l])
      /\ DOMAIN m.list = 1..Len(m.list) /\ Len(m.list) \in Nat
  BY DEF Fits, Slot
<1> HIDE DEF f, h
<1>3. Before(m, 1) = m.done
  BY DEF Before
<1>4. Oldest(o, f.done)
  BY <1>1, <1>2, <1>3 DEF GoesThrough, Oldest
<1>5. ASSUME NEW k \in DOMAIN Tail(m.list), NEW x \in Before(m, k + 1)
      PROVE  x \in Before(f, k)
  <2>1. CASE x \in m.done
    BY <1>1, <2>1 DEF Before
  <2>2. ASSUME x \in m.same, NEW l \in 1..k, m.list[l] = x
        PROVE  x \in Before(f, k)
    <3>1. CASE l = 1
      BY <1>1, <1>2, <2>2, <3>1 DEF Before
    <3>2. CASE l # 1
      <4>1. k \in Nat /\ k + 1 \in 1..Len(m.list)
        BY <1>2
      <4>2. l \in DOMAIN m.list /\ l > 1 /\ l - 1 \in 1..(k - 1)
        BY <1>2, <3>2, <4>1
      <4>3. Tail(m.list)[l - 1] = x
        BY <1>2, <2>2, <4>2
      <4> QED
        BY <1>1, <2>2, <4>2, <4>3 DEF Before
    <3> QED
      BY <3>1, <3>2
  <2>3. (k + 1) - 1 = k
    BY <1>2
  <2> QED
    BY <1>5, <2>1, <2>2, <2>3 DEF Before
<1>6. ASSUME NEW k \in DOMAIN f.list, NEW i \in DOMAIN o, NEW j \in DOMAIN o, i < j, o[j] = f.list[k], f.list[k] \in f.same
      PROVE  o[i] \in Before(f, k)
  <2>1. o[i] \in Before(m, k + 1)
    BY <1>1, <1>2, <1>6 DEF GoesThrough
  <2> QED
    BY <1>1, <1>5, <1>6, <2>1
<1>7. Oldest(o, f.before)
  BY <1>1 DEF GoesThrough
<1> QED
  BY <1>4, <1>6, <1>7 DEF GoesThrough, f

\* What else a batch does to its memory.
LEMMA ThroughEdits ==
  ASSUME NEW m, DOMAIN m = Fields, NEW o, GoesThrough(o, m)
  PROVE  /\ \A pc : GoesThrough(o, [m EXCEPT !.pc = pc])
         /\ \A x : GoesThrough(o, [m EXCEPT !.age = x])
         /\ \A b, d : Oldest(o, d) => GoesThrough(o, [m EXCEPT !.busy = b, !.before = d])
         /\ GoesThrough(o, [m EXCEPT !.pc = "next", !.list = <<>>, !.whole = FALSE])
<1>1. ASSUME NEW f, f.done = m.done, f.same = m.same, f.list = m.list \/ f.list = <<>>, Oldest(o, f.before)
      PROVE  GoesThrough(o, f)
  <2>1. CASE f.list = m.list
    <3>1. \A k : Before(f, k) = Before(m, k)
      BY <1>1, <2>1 DEF Before
    <3> QED
      BY <1>1, <2>1, <3>1 DEF GoesThrough
  <2>2. CASE f.list = <<>>
    <3>1. DOMAIN f.list = {}
      BY <2>2
    <3> QED
      BY <1>1, <3>1 DEF GoesThrough
  <2> QED
    BY <1>1, <2>1, <2>2
<1>2. Oldest(o, m.before)
  BY DEF GoesThrough
<1>3. ASSUME NEW pc
      PROVE  GoesThrough(o, [m EXCEPT !.pc = pc])
  <2> DEFINE f == [m EXCEPT !.pc = pc]
  <2>1. f.done = m.done /\ f.same = m.same /\ f.list = m.list /\ f.before = m.before
    BY DEF Fields
  <2> HIDE DEF f
  <2> QED
    BY <1>1, <1>2, <2>1 DEF f
<1>4. ASSUME NEW x
      PROVE  GoesThrough(o, [m EXCEPT !.age = x])
  <2> DEFINE f == [m EXCEPT !.age = x]
  <2>1. f.done = m.done /\ f.same = m.same /\ f.list = m.list /\ f.before = m.before
    BY DEF Fields
  <2> HIDE DEF f
  <2> QED
    BY <1>1, <1>2, <2>1 DEF f
<1>5. ASSUME NEW b, NEW d, Oldest(o, d)
      PROVE  GoesThrough(o, [m EXCEPT !.busy = b, !.before = d])
  <2> DEFINE f == [m EXCEPT !.busy = b, !.before = d]
  <2>1. f.done = m.done /\ f.same = m.same /\ f.list = m.list /\ f.before = d
    BY DEF Fields
  <2> HIDE DEF f
  <2>2. GoesThrough(o, f)
    BY <1>1, <1>5, <2>1
  <2> QED
    BY <2>2 DEF f
<1>6. GoesThrough(o, [m EXCEPT !.pc = "next", !.list = <<>>, !.whole = FALSE])
  <2> DEFINE f == [m EXCEPT !.pc = "next", !.list = <<>>, !.whole = FALSE]
  <2>1. f.done = m.done /\ f.same = m.same /\ f.list = <<>> /\ f.before = m.before
    BY DEF Fields
  <2> HIDE DEF f
  <2> QED
    BY <1>1, <1>2, <2>1 DEF f
<1> QED
  BY <1>3, <1>4, <1>5, <1>6

LEMMA IdleThrough == \A o : GoesThrough(o, Idle)
<1>1. Idle.done = {} /\ Idle.before = {} /\ Idle.list = <<>> /\ DOMAIN Idle.list = {}
  BY DEF Idle
<1> QED
  BY <1>1 DEF GoesThrough, Oldest

\* Another step of the file a: taken out of the order, or its newest file.
Reorders(a) == order' \in {Without(a), Newest(a)} /\ state' = [state EXCEPT !.behind = @ \ {a}]

\* The ways in which a step changes the order, the cursor and the memories.
LEMMA CursorForms ==
  ASSUME MemInv, OrderInv, CursorInv
  PROVE  /\ me' = me /\ order' = order /\ Oldest(order, state'.behind) => CursorInv'
         /\ \A x : \A w \in Worker :
              me' = [me EXCEPT ![w] = x] /\ order' = order /\ GoesThrough(order, x) /\ Oldest(order, state'.behind)
                => CursorInv'
         /\ \A a \in Approval : Reorders(a) /\ me' = Forget(a) => CursorInv'
         /\ \A x : \A w \in Worker, a \in Approval :
              Reorders(a) /\ me' = [Forget(a) EXCEPT ![w] = Forgets(x, a)] /\ DOMAIN x = Fields /\ GoesThrough(order, x)
                => CursorInv'
<1>1. /\ DOMAIN me = Worker /\ (\A w \in Worker : DOMAIN me[w] = Fields)
      /\ (\A w \in Worker : GoesThrough(order, me[w])) /\ Oldest(order, state.behind) /\ DOMAIN state = {"age", "behind"}
  BY DEF MemInv, AllFit, Fits, StateFits, CursorInv
<1>2. ASSUME Oldest(order', state'.behind), \A w \in Worker : GoesThrough(order', me'[w])
      PROVE  CursorInv'
  <2>1. Oldest(order, state.behind)' /\ \A w \in Worker : GoesThrough(order, me[w])'
    BY <1>2
  <2> QED
    BY <2>1 DEF CursorInv
<1>3. ASSUME me' = me, order' = order, Oldest(order, state'.behind)
      PROVE  CursorInv'
  BY <1>1, <1>2, <1>3
<1>4. ASSUME NEW x, NEW w \in Worker, me' = [me EXCEPT ![w] = x], order' = order, GoesThrough(order, x),
             Oldest(order, state'.behind)
      PROVE  CursorInv'
  BY <1>1, <1>2, <1>4
<1>5. ASSUME NEW a \in Approval, Reorders(a)
      PROVE  /\ Oldest(order', state'.behind)
             /\ \A m : DOMAIN m = Fields /\ GoesThrough(order, m) => GoesThrough(order', Forgets(m, a))
  <2>1. Thins(order, order', a)
    BY <1>5, ThinForms DEF Reorders, OrderInv
  <2>2. state'.behind = state.behind \ {a}
    BY <1>1, <1>5 DEF Reorders
  <2> QED
    BY <1>1, <2>1, <2>2, OldestThins, ThroughThins
<1>6. ASSUME NEW a \in Approval, Reorders(a), me' = Forget(a)
      PROVE  CursorInv'
  <2>1. \A w \in Worker : me'[w] = Forgets(me[w], a)
    BY <1>6 DEF Forget
  <2> QED
    BY <1>1, <1>2, <1>5, <1>6, <2>1
<1>7. ASSUME NEW x, NEW w \in Worker, NEW a \in Approval, Reorders(a), me' = [Forget(a) EXCEPT ![w] = Forgets(x, a)],
             DOMAIN x = Fields, GoesThrough(order, x)
      PROVE  CursorInv'
  <2>1. \A v \in Worker : me'[v] = IF v = w THEN Forgets(x, a) ELSE Forgets(me[v], a)
    BY <1>7 DEF Forget
  <2> QED
    BY <1>1, <1>2, <1>5, <1>7, <2>1
<1> QED
  BY <1>3, <1>4, <1>6, <1>7

LEMMA CursorNext ==
  ASSUME MemInv, OrderInv, CursorInv, [Next]_vars
  PROVE  CursorInv'
<1>1. /\ DOMAIN me = Worker /\ (\A w \in Worker : Fits(me[w]) /\ DOMAIN me[w] = Fields)
      /\ (\A w \in Worker : GoesThrough(order, me[w])) /\ Oldest(order, state.behind) /\ DOMAIN state = {"age", "behind"}
  BY DEF MemInv, AllFit, Fits, StateFits, CursorInv
<1>2. ASSUME NEW w \in Worker, NEW x, me' = [me EXCEPT ![w] = x], order' = order, state' = state, GoesThrough(order, x)
      PROVE  CursorInv'
  BY <1>1, <1>2, CursorForms
<1>3. ASSUME NEW w \in Worker, \E pc : me' = [me EXCEPT ![w].pc = pc], order' = order, state' = state
      PROVE  CursorInv'
  <2>1. PICK pc : me' = [me EXCEPT ![w].pc = pc]
    BY <1>3
  <2>2. GoesThrough(order, [me[w] EXCEPT !.pc = pc])
    BY <1>1, ThroughEdits
  <2>3. me' = [me EXCEPT ![w] = [me[w] EXCEPT !.pc = pc]]
    BY <2>1
  <2> QED
    BY <1>2, <1>3, <2>2, <2>3
<1>4. ASSUME NEW w \in Worker, me[w].list # <<>>
      PROVE  GoesThrough(order, Passed(w, me[w])) /\ DOMAIN Passed(w, me[w]) = Fields /\ Slot(w) \in Approval
  <2>1. Fits(Passed(w, me[w]))
    BY <1>1, <1>4, PassedFits
  <2> QED
    BY <1>1, <1>4, <2>1, ThroughPassed, SlotTypes DEF Fits
<1>5. ASSUME NEW w \in Worker, me[w].pc \in AtSlot
      PROVE  me[w].list # <<>>
  BY <1>1, <1>5 DEF Fits
<1>6. ASSUME NEW a \in Approval, \/ Create(a) \/ Claim(a) \/ Mark(a) \/ Complete(a) \/ Lapse(a)
                                 \/ Rot(a) \/ Hold(a) \/ Unhold(a) \/ ClaimantDies(a)
      PROVE  CursorInv'
  <2>1. (me' = me /\ order' = order /\ state' = state) \/ (Touched(a) /\ me' = Forget(a))
    BY <1>6 DEF Create, Claim, Mark, Complete, Lapse, Rot, Hold, Unhold, ClaimantDies, files
  <2>2. Touched(a) => Reorders(a)
    BY DEF Touched, Reorders
  <2> QED
    BY <1>1, <2>1, <2>2, CursorForms
<1>7. ASSUME NEW w \in Worker, Look(w) \/ TryLock(w) \/ LockLost(w) \/ Acquire(w) \/ WriteRow(w) \/ Finish(w) \/ Crash(w) \/ Stall(w)
      PROVE  CursorInv'
  <2>1. order' = order /\ state' = state
        /\ (me' = me \/ me' = [me EXCEPT ![w] = Idle] \/ \E pc : me' = [me EXCEPT ![w].pc = pc])
    BY <1>7 DEF Look, TryLock, LockLost, Acquire, WriteRow, Finish, Crash, Stall, Goto, Leave, files
  <2> QED
    BY <1>1, <1>2, <1>3, <2>1, IdleThrough, CursorForms
<1>8. ASSUME NEW w \in Worker, Begin(w)
      PROVE  CursorInv'
  <2>1. order' = order /\ (me' = [me EXCEPT ![w] = Idle] \/ me' = [me EXCEPT ![w] = Listed(me[w])])
        /\ state'.behind = state.behind
    BY <1>1, <1>8 DEF Begin, Leave, files
  <2>2. GoesThrough(order, Listed(me[w]))
    BY <1>1, ThroughListed DEF OrderInv
  <2> HIDE DEF Listed
  <2> QED
    BY <1>1, <2>1, <2>2, IdleThrough, CursorForms
<1>9. ASSUME NEW w \in Worker, Save(w)
      PROVE  CursorInv'
  <2>1. order' = order /\ me' = [me EXCEPT ![w] = Idle] /\ state'.behind = NextCursor(me[w])
    BY <1>9 DEF Save, Leave, files
  <2>2. Oldest(order, NextCursor(me[w]))
    <3>1. Oldest(order, {}) /\ Oldest(order, me[w].before) /\ Oldest(order, me[w].done)
      BY <1>1 DEF GoesThrough, Oldest
    <3> QED
      BY <3>1 DEF NextCursor
  <2> QED
    BY <2>1, <2>2, IdleThrough, CursorForms
<1>10. ASSUME NEW w \in Worker, Busy(w)
       PROVE  CursorInv'
  <2> DEFINE m == me[w]
             n == Passed(w, m)
             b == IF m.busy THEN m.before ELSE m.done
             x == [n EXCEPT !.busy = TRUE, !.before = b]
  <2>1. GoesThrough(order, n) /\ DOMAIN n = Fields /\ Oldest(order, b)
    BY <1>1, <1>4, <1>10 DEF Busy, GoesThrough
  <2>2. me' = [me EXCEPT ![w] = x] /\ order' = order /\ state' = state
    BY <1>10 DEF Busy, files
  <2> HIDE DEF n, b
  <2>3. GoesThrough(order, x)
    BY <2>1, ThroughEdits
  <2> HIDE DEF x
  <2> QED
    BY <1>2, <2>2, <2>3
<1>11. ASSUME NEW w \in Worker, ReadLone(w) \/ Unlink(w)
       PROVE  CursorInv'
  <2> DEFINE n == Passed(w, me[w])
  <2>1. me[w].list # <<>>
    BY <1>5, <1>11 DEF ReadLone, Unlink, At, AtSlot
  <2>2. PICK a \in Approval : a = Slot(w)
    BY <1>4, <2>1
  <2>3. \/ Reorders(a) /\ me' = [Forget(a) EXCEPT ![w] = Forgets(n, a)]
        \/ order' = order /\ state' = state /\ me' = [me EXCEPT ![w] = n]
    BY <1>11, <2>2 DEF ReadLone, Unlink, Reorders, Remaining
  <2>4. GoesThrough(order, n) /\ DOMAIN n = Fields
    BY <1>4, <2>1
  <2> HIDE DEF n
  <2> QED
    BY <1>2, <2>3, <2>4, CursorForms
<1>12. ASSUME NEW w \in Worker, ReadRecord(w)
       PROVE  CursorInv'
  <2> DEFINE m == me[w]
             n == Passed(w, m)
             x == [m EXCEPT !.pc = "audit"]
  <2>1. m.list # <<>>
    BY <1>5, <1>12 DEF ReadRecord, At, AtSlot
  <2>2. PICK a \in Approval : a = Slot(w)
    BY <1>4, <2>1
  <2>3. /\ \/ Touched(a) /\ (\/ me' = [Forget(a) EXCEPT ![w].pc = "audit"]
                             \/ me' = [Forget(a) EXCEPT ![w] = Forgets(n, a)])
           \/ order' = order /\ state' = state /\ (\/ me' = [me EXCEPT ![w].pc = "audit"]
                                                   \/ me' = [me EXCEPT ![w] = n])
    BY <1>12, <2>2 DEF ReadRecord
  <2>4. GoesThrough(order, n) /\ DOMAIN n = Fields
    BY <1>4, <2>1
  <2>5. GoesThrough(order, x) /\ DOMAIN x = Fields
    BY <1>1, ThroughEdits
  <2>6. [Forget(a) EXCEPT ![w].pc = "audit"] = [Forget(a) EXCEPT ![w] = Forgets(x, a)]
    <3>1. [Forgets(m, a) EXCEPT !.pc = "audit"] = Forgets(x, a)
      BY <1>1 DEF Forgets, Fields
    <3>2. Forget(a)[w] = Forgets(m, a)
      BY DEF Forget
    <3> QED
      BY <3>1, <3>2
  <2>7. Touched(a) => Reorders(a)
    BY DEF Touched, Reorders
  <2> HIDE DEF n, x
  <2> QED
    BY <1>2, <1>3, <2>3, <2>4, <2>5, <2>6, <2>7, CursorForms
<1>13. ASSUME NEW w \in Worker, Unmark(w)
       PROVE  CursorInv'
  <2> DEFINE x == [me[w] EXCEPT !.pc = "unlink"]
  <2>1. PICK a \in Approval : a = Slot(w)
    BY <1>4, <1>5, <1>13 DEF Unmark, At, AtSlot
  <2>2. me' = [me EXCEPT ![w] = x] /\ state' = state /\ (order' = order \/ order' = Without(a))
    BY <1>13, <2>1 DEF Unmark, Goto, Remaining
  <2>3. GoesThrough(order, x) /\ DOMAIN x = Fields
    BY <1>1, ThroughEdits
  <2> HIDE DEF x
  <2>4. CASE order' = Without(a)
    <3>1. Thins(order, order', a) /\ a \notin Range(order')
      BY <2>4, ThinForms, Reordered DEF OrderInv
    <3>2. Oldest(order', state'.behind) /\ GoesThrough(order', x) /\ \A v \in Worker : GoesThrough(order', me[v])
      BY <1>1, <2>2, <2>3, <3>1, OldestThins, ThroughThins
    <3>3. \A v \in Worker : GoesThrough(order', me'[v])
      BY <1>1, <2>2, <3>2
    <3> QED
      BY <3>2, <3>3 DEF CursorInv, GoesThrough, Oldest, Before
  <2> QED
    BY <1>2, <2>2, <2>3, <2>4
<1>14. ASSUME NEW w \in Worker, Late(w) \/ Fails(w)
       PROVE  CursorInv'
  <2> DEFINE x == [me[w] EXCEPT !.pc = "next", !.list = <<>>, !.whole = FALSE]
             n == Passed(w, me[w])
  <2>1. order' = order /\ state' = state
        /\ \/ me' = [me EXCEPT ![w] = x] \/ me' = [me EXCEPT ![w] = Idle]
           \/ me[w].list # <<>> /\ me' = [me EXCEPT ![w] = n]
    BY <1>5, <1>14 DEF Late, Fails, Leave, files, AtSlot
  <2>2. GoesThrough(order, x) /\ (me[w].list # <<>> => GoesThrough(order, n))
    BY <1>1, <1>4, ThroughEdits
  <2> HIDE DEF x, n
  <2> QED
    BY <1>2, <2>1, <2>2, IdleThrough
<1>15. ASSUME SetBack \/ Tick
       PROVE  CursorInv'
  <2>1. order' = order /\ state'.behind = state.behind
    BY <1>1, <1>15 DEF SetBack, Tick
  <2>2. ASSUME NEW v \in Worker
        PROVE  me'[v] = me[v] \/ \E x : me'[v] = [me[v] EXCEPT !.age = x]
    BY <1>15, <2>2 DEF SetBack, Tick
  <2>3. ASSUME NEW v \in Worker
        PROVE  GoesThrough(order', me'[v])
    <3>1. GoesThrough(order, me[v]) /\ \A x : GoesThrough(order, [me[v] EXCEPT !.age = x])
      BY <1>1, ThroughEdits
    <3> QED
      BY <2>1, <2>2, <3>1
  <2> QED
    BY <1>1, <2>1, <2>3 DEF CursorInv, GoesThrough, Oldest, Before
<1>16. CASE UNCHANGED vars
  BY <1>1, <1>16, CursorForms DEF vars, files
<1> QED
  BY <1>6, <1>7, <1>8, <1>9, <1>10, <1>11, <1>12, <1>13, <1>14, <1>15, <1>16 DEF Next, Batch

\* The cursor is a place in the directory's order: whatever is made, touched and deleted while a batch
\* runs, and whoever takes over from it, the files at or before the cursor are older than all the others,
\* so that a listing which goes on after that place leaves no file out (runBatch, compareSlots).
THEOREM CursorIsAPlace == Spec => []Oldest(order, state.behind)
<1>1. Init => CursorInv
  <2> SUFFICES ASSUME Init PROVE CursorInv
    OBVIOUS
  <2>1. state.behind = {} /\ \A w \in Worker : me[w] = Idle
    BY DEF Init
  <2> QED
    BY <2>1, IdleThrough DEF CursorInv, Oldest
<1>2. TypeInv /\ CursorInv /\ [Next]_vars => CursorInv'
  BY CursorNext DEF TypeInv
<1>3. CursorInv => Oldest(order, state.behind)
  BY DEF CursorInv
<1> QED
  BY <1>1, <1>2, <1>3, TypeInvHolds, PTL DEF Spec

=============================================================================
