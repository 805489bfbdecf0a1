-------------------------- MODULE SendPromise_proofs --------------------------
(***************************************************************************)
(* What the send gate keeps for every set of approvals and processes: the caps *)
(* of an hour and a day, whatever the clock does; and while its locks exclude,   *)
(* the promise SingleUse makes of the store and the fence a sweep leaves.          *)
(***************************************************************************)
EXTENDS SendBound_proofs, FiniteSetTheorems

-----------------------------------------------------------------------------
(* The caps of an hour and of a day *)

\* The approvals that have a slot, and the age up to which slots are told apart.
Slots   == {a \in Approval : held[a] # Unreserved}
Horizon == DayWindow + MaxBack - backs

\* No stretch of time of that length holds more than cap reservations, sent or not.
Capped(length, cap) ==
  \A from \in Int : from + length <= Horizon => Cardinality(Within(from, length)) <= cap

CapInv == IsFiniteSet(Slots) /\ Capped(HourWindow, PerHour) /\ Capped(DayWindow, PerDay)

\* Every step reserves a slot, gives some back, lets them age, or leaves the ledger alone.
LEMMA SlotSteps ==
  ASSUME [Next]_vars
  PROVE  \/ UNCHANGED <<held, backs>>
         \/ \E w \in Worker : Reserve(w)
         \/ \E w \in Worker : held' = [held EXCEPT ![me[w].job] = Unreserved] /\ backs' = backs
         \/ Tick \/ StepBack
<1>1. ASSUME NEW w \in Worker, Begin(w) PROVE UNCHANGED <<held, backs>>
  BY <1>1 DEF Begin, PrepareStart, SendStart, ShowEnter, AnswerEnter, RevokeEnter, StatusEnter, SetPolicy, EditCheck,
              Enter, Only, disk
<1>2. ASSUME NEW w \in Worker, Prepare(w) \/ EditApply(w) \/ TimeOut(w) PROVE UNCHANGED <<held, backs>>
  BY <1>2 DEF Prepare, PrepareRead, PrepareFit, PrepareRelabel, PrepareReread, PrepareCreate, EditApply, TimeOut, Only, disk
<1>3. ASSUME NEW w \in Worker, Send(w)
      PROVE  UNCHANGED <<held, backs>> \/ Reserve(w) \/ (held' = [held EXCEPT ![me[w].job] = Unreserved] /\ backs' = backs)
  BY <1>3 DEF Send, Inspected, ReadDraft, ClaimEnter, ClaimLeave, Mark, LastLook, FenceEnter, FenceLeave, Call, Answered,
              AnswerLost, UseEnter, UseLeave, Release, FailEnter, FailLeave, LostEnter, LostLeave, Unreserve,
              Enter, Leave, Only, disk
<1>4. ASSUME NEW w \in Worker, Person(w) \/ Sweep(w) PROVE UNCHANGED <<held, backs>>
  BY <1>4 DEF Person, ShowLeave, ChallengeEnter, ChallengeLeave, VoidEnter, AnswerLeave, ApproveEnter, ApproveLeave,
              RevokeLeave, StatusLeave, Sweep, SweepList, SweepLeave, SweepEnd, SweepEnter, SweepMiss, Enter, Leave, Only, disk
<1>5. ASSUME NEW w \in Worker, BeatEnter(w) \/ BeatLeave(w) \/ Crash(w) PROVE UNCHANGED <<held, backs>>
  BY <1>5 DEF BeatEnter, BeatLeave, Crash
<1>6. ASSUME (\E a \in Approval : ProviderAccepts(a) \/ ProviderRefuses(a) \/ TakeOver(a)) \/ WebEdit \/ RemoveOwner
             \/ UNCHANGED vars
      PROVE  UNCHANGED <<held, backs>>
  BY <1>6 DEF ProviderAccepts, ProviderRefuses, TakeOver, WebEdit, RemoveOwner, vars, disk
<1> QED
  BY <1>1, <1>2, <1>3, <1>4, <1>5, <1>6 DEF Next, Continue

\* Slots are finitely many, so that every set of them is counted by a number, and a
\* smaller set by a smaller number.
LEMMA FewSlots ==
  ASSUME IsFiniteSet(Slots), NEW S \in SUBSET Slots, NEW T \in SUBSET S
  PROVE  Cardinality(T) \in Nat /\ Cardinality(S) \in Nat /\ Cardinality(T) <= Cardinality(S)
<1>1. IsFiniteSet(S)
  BY FS_Subset
<1> QED
  BY <1>1, FS_Subset, FS_CardinalityType

LEMMA WithinSlots ==
  ASSUME NEW from, NEW length
  PROVE  Within(from, length) \subseteq Slots /\ Counted(length) \subseteq Slots
BY DEF Within, Counted, Slots

\* Slots stay finitely many: a step makes at most one.
LEMMA SlotsNext ==
  ASSUME TypeOK, SingleUseInv, IsFiniteSet(Slots), [Next]_vars
  PROVE  IsFiniteSet(Slots')
<1>1. ASSUME NEW a, Slots' \subseteq Slots \cup {a} PROVE IsFiniteSet(Slots')
  BY <1>1, FS_AddElement, FS_Subset
<1>2. ASSUME NEW w \in Worker, Reserve(w) PROVE Slots' \subseteq Slots \cup {me[w].job}
  BY <1>2 DEF Reserve, Only, disk, Slots, Unreserved, TypeOK
<1>3. ASSUME NEW w \in Worker, held' = [held EXCEPT ![me[w].job] = Unreserved] PROVE Slots' \subseteq Slots
  BY <1>3 DEF Slots, Unreserved, TypeOK
<1>4. ASSUME Tick \/ StepBack PROVE Slots' \subseteq Slots
  <2>1. \A a \in Approval : held'[a] = AgedSlot(held[a], 1) \/ held'[a] = AgedSlot(held[a], -1)
    BY <1>4 DEF Tick, StepBack, Clock
  <2> QED
    BY <2>1 DEF AgedSlot, Slots, Unreserved
<1>5. ASSUME held' = held PROVE Slots' = Slots
  BY <1>5 DEF Slots, Unreserved
<1> QED
  BY <1>1, <1>2, <1>3, <1>4, <1>5, SlotSteps

\* A stretch that a step fills no further.
LEMMA NoFuller ==
  ASSUME IsFiniteSet(Slots), NEW length \in Nat, NEW cap \in Nat, Capped(length, cap),
         NEW from \in Int, NEW before \in Int, before + length <= Horizon,
         Within(from, length)' \subseteq Within(before, length)
  PROVE  Cardinality(Within(from, length)') <= cap
<1>1. Cardinality(Within(before, length)) <= cap
  BY DEF Capped
<1> DEFINE S == Within(before, length)
           T == Within(from, length)'
<1>2. Cardinality(T) \in Nat /\ Cardinality(S) \in Nat /\ Cardinality(T) <= Cardinality(S)
  <2>1. S \subseteq Slots /\ T \subseteq S
    BY WithinSlots
  <2> HIDE DEF S, T
  <2> QED
    BY <2>1, FewSlots
<1> QED
  BY <1>1, <1>2

\* What the clock makes of the slots of a stretch: they were those of the stretch that
\* lay one tick earlier, or later.
LEMMA ClockShifts ==
  ASSUME TypeOK, SingleUseInv, NEW length \in Nat, NEW from \in Int, from + length <= Horizon'
  PROVE  /\ Tick => Horizon' = Horizon /\ Within(from, length)' \subseteq Within(from - 1, length)
         /\ StepBack => Horizon' = Horizon - 1 /\ Within(from, length)' \subseteq Within(from + 1, length)
<1>a. /\ DayWindow \in Nat /\ MaxBack \in Nat /\ backs \in 0..MaxBack
      /\ \A a \in Approval : held[a] \in Int /\ (held[a] = Unreserved \/ held[a] >= 0 - backs)
  BY LifetimeAssumption, BoundAssumption DEF TypeOK, SingleUseInv, ApprovalOK
<1>1. ASSUME Tick PROVE Horizon' = Horizon /\ Within(from, length)' \subseteq Within(from - 1, length)
  <2>1. Horizon' = Horizon
    BY <1>1 DEF Tick, Horizon
  <2>2. \A a \in Approval : held'[a] = AgedSlot(held[a], 1)
    BY <1>1 DEF Tick, Clock
  <2> QED
    BY <1>a, <2>1, <2>2 DEF Within, AgedSlot, Horizon, Unreserved
<1>2. ASSUME StepBack PROVE Horizon' = Horizon - 1 /\ Within(from, length)' \subseteq Within(from + 1, length)
  <2>1. Horizon' = Horizon - 1 /\ backs < MaxBack
    BY <1>a, <1>2 DEF StepBack, Horizon
  <2>2. \A a \in Approval : held'[a] = AgedSlot(held[a], -1)
    BY <1>2 DEF StepBack, Clock
  <2> QED
    BY <1>a, <2>1, <2>2 DEF Within, AgedSlot, Horizon, Unreserved
<1> QED
  BY <1>1, <1>2

\* A reservation is made only where the window that ends now has room, and every stretch
\* of that length that has the present in it lies within the window and the future,
\* which the window counts too.
LEMMA ReserveCapped ==
  ASSUME TypeOK, SingleUseInv, IsFiniteSet(Slots), NEW length \in Nat, NEW cap \in Nat, Capped(length, cap),
         NEW w \in Worker, Reserve(w), ~CapReached => Cardinality(Counted(length)) < cap
  PROVE  Capped(length, cap)'
<1> DEFINE a == me[w].job
<1>a. DayWindow \in Nat /\ MaxBack \in Nat /\ backs \in Nat
  BY LifetimeAssumption, BoundAssumption DEF TypeOK
<1>1. Horizon' = Horizon
  BY DEF Reserve, Only, Horizon
<1>2. CASE held' = held
  <2>1. \A from \in Int : Within(from, length)' = Within(from, length)
    BY <1>2 DEF Within, Unreserved
  <2> QED
    BY <1>1, <2>1 DEF Capped
<1>3. CASE held' # held
  <2>1. held' = [held EXCEPT ![a] = 0] /\ Cardinality(Counted(length)) < cap
    BY <1>3 DEF Reserve, Only, disk
  <2>2. SUFFICES ASSUME NEW from \in Int, from + length <= Horizon PROVE Cardinality(Within(from, length)') <= cap
    BY <1>1 DEF Capped
  <2>3. CASE 0 \notin from..(from + length - 1)
    <3>1. Within(from, length)' \subseteq Within(from, length)
      BY <2>1, <2>3 DEF Within, Unreserved, TypeOK
    <3> QED
      BY <2>2, <3>1, NoFuller
  <2>4. CASE 0 \in from..(from + length - 1)
    <3> DEFINE C == Counted(length)
    <3>1. Within(from, length)' \subseteq C \cup {a}
      BY <1>a, <2>1, <2>4 DEF Within, Counted, Unreserved, TypeOK
    <3>2. IsFiniteSet(C)
      BY WithinSlots, FS_Subset
    <3>3. /\ IsFiniteSet(C \cup {a}) /\ Cardinality(C) \in Nat /\ Cardinality(C \cup {a}) \in Nat
          /\ Cardinality(C \cup {a}) <= Cardinality(C) + 1
      <4> HIDE DEF C, a
      <4>1. IsFiniteSet(C \cup {a}) /\ (Cardinality(C \cup {a}) = Cardinality(C) \/ Cardinality(C \cup {a}) = Cardinality(C) + 1)
        BY <3>2, FS_AddElement
      <4>2. Cardinality(C) \in Nat /\ Cardinality(C \cup {a}) \in Nat
        BY <3>2, <4>1, FS_CardinalityType
      <4> QED
        BY <4>1, <4>2
    <3>4. /\ IsFiniteSet(Within(from, length)') /\ Cardinality(Within(from, length)') <= Cardinality(C \cup {a})
      BY <3>1, <3>3, FS_Subset
    <3>5. Cardinality(Within(from, length)') \in Nat
      BY <3>4, FS_CardinalityType
    <3> QED
      BY <2>1, <3>3, <3>4, <3>5
  <2> QED
    BY <2>3, <2>4
<1> QED
  BY <1>2, <1>3

\* The cap of either window is kept by every step.
LEMMA CappedNext ==
  ASSUME TypeOK, SingleUseInv, IsFiniteSet(Slots), [Next]_vars, NEW length \in Nat, NEW cap \in Nat, Capped(length, cap),
         ~CapReached => Cardinality(Counted(length)) < cap
  PROVE  Capped(length, cap)'
<1>a. DayWindow \in Nat /\ MaxBack \in Nat /\ backs \in Nat
  BY LifetimeAssumption, BoundAssumption DEF TypeOK
<1>1. ASSUME NEW w \in Worker, Reserve(w) PROVE Capped(length, cap)'
  BY <1>1, ReserveCapped
<1>2. ASSUME backs' = backs,
             held' = held \/ \E w \in Worker : held' = [held EXCEPT ![me[w].job] = Unreserved]
      PROVE  Capped(length, cap)'
  <2>1. Horizon' = Horizon
    BY <1>2 DEF Horizon
  <2>2. \A b \in Approval : held'[b] \in {held[b], Unreserved}
    BY <1>2 DEF TypeOK
  <2>3. \A from \in Int : Within(from, length)' \subseteq Within(from, length)
    BY <2>2 DEF Within, Unreserved
  <2> QED
    BY <2>1, <2>3, NoFuller DEF Capped
<1>3. ASSUME Tick PROVE Capped(length, cap)'
  <2> SUFFICES ASSUME NEW from \in Int, from + length <= Horizon' PROVE Cardinality(Within(from, length)') <= cap
    BY DEF Capped
  <2>1. Horizon' = Horizon /\ Within(from, length)' \subseteq Within(from - 1, length)
    BY <1>3, ClockShifts
  <2>2. from - 1 \in Int /\ (from - 1) + length <= Horizon
    BY <1>a, <2>1 DEF Horizon
  <2> QED
    BY <2>1, <2>2, NoFuller
<1>4. ASSUME StepBack PROVE Capped(length, cap)'
  <2> SUFFICES ASSUME NEW from \in Int, from + length <= Horizon' PROVE Cardinality(Within(from, length)') <= cap
    BY DEF Capped
  <2>1. Horizon' = Horizon - 1 /\ Within(from, length)' \subseteq Within(from + 1, length)
    BY <1>4, ClockShifts
  <2>2. from + 1 \in Int /\ (from + 1) + length <= Horizon
    BY <1>a, <2>1 DEF Horizon
  <2> QED
    BY <2>1, <2>2, NoFuller
<1> QED
  BY <1>1, <1>2, <1>3, <1>4, SlotSteps

LEMMA CapNext ==
  ASSUME TypeOK, SingleUseInv, CapInv, [Next]_vars
  PROVE  CapInv'
<1>1. HourWindow \in Nat /\ DayWindow \in Nat /\ PerHour \in Nat /\ PerDay \in Nat
  BY LifetimeAssumption, BoundAssumption
<1>2. Cardinality(Counted(HourWindow)) \in Nat /\ Cardinality(Counted(DayWindow)) \in Nat
  BY FewSlots, WithinSlots DEF CapInv
<1>3. ~CapReached => Cardinality(Counted(HourWindow)) < PerHour /\ Cardinality(Counted(DayWindow)) < PerDay
  BY <1>1, <1>2 DEF CapReached
<1>4. Capped(HourWindow, PerHour)' /\ Capped(DayWindow, PerDay)'
  BY <1>1, <1>3, CappedNext DEF CapInv
<1> QED
  BY <1>4, SlotsNext DEF CapInv

\* The reservations of every hour and of every day stay within the caps, the mails that
\* went out and those still under way (reserve).
LEMMA CapInvHolds == Spec => [](TypeOK /\ SingleUseInv /\ CapInv)
<1>1. Init => TypeOK /\ SingleUseInv /\ CapInv
  <2> SUFFICES ASSUME Init PROVE CapInv
    BY InitType, InitSafe
  <2>1. Slots = {} /\ \A from \in Int, length \in Nat : Within(from, length) = {}
    BY DEF Init, Slots, Within
  <2> QED
    BY <2>1, FS_EmptySet, LifetimeAssumption, BoundAssumption DEF CapInv, Capped
<1>2. TypeOK /\ SingleUseInv /\ CapInv /\ [Next]_vars => (TypeOK /\ SingleUseInv /\ CapInv)'
  BY NextType, NextSafe, CapNext
<1> QED
  BY <1>1, <1>2, PTL DEF Spec

\* No hour and no day of the ledger's time has more mails than its cap, however many
\* processes reserve and give back at once, and however often the clock is set back:
\* reserve counts what seems to lie in the future as well.
THEOREM CapsHoldAlways == Spec => []CapsHold
<1>1. TypeOK /\ SingleUseInv /\ CapInv => CapsHold
  <2> SUFFICES ASSUME TypeOK, CapInv PROVE CapsHold
    OBVIOUS
  <2>a. /\ HourWindow \in Nat /\ DayWindow \in Nat /\ PerHour \in Nat /\ PerDay \in Nat
        /\ MaxBack \in Nat /\ backs \in 0..MaxBack
    BY LifetimeAssumption, BoundAssumption DEF TypeOK
  <2>1. ASSUME NEW from \in Int, NEW length \in Nat, NEW cap \in Nat, Capped(length, cap), from + length <= DayWindow
        PROVE  Cardinality(Mailed(from, length)) <= cap
    <3>1. Cardinality(Within(from, length)) <= cap
      BY <2>a, <2>1 DEF Capped, Horizon
    <3>2. Mailed(from, length) \subseteq Within(from, length)
      BY DEF Mailed
    <3>3. /\ Cardinality(Mailed(from, length)) \in Nat /\ Cardinality(Within(from, length)) \in Nat
          /\ Cardinality(Mailed(from, length)) <= Cardinality(Within(from, length))
      BY <3>2, FewSlots, WithinSlots DEF CapInv
    <3> QED
      BY <3>1, <3>3
  <2>2. \A from \in (0 - MaxBack)..(DayWindow - HourWindow) : Cardinality(Mailed(from, HourWindow)) <= PerHour
    BY <2>a, <2>1 DEF CapInv
  <2>3. \A from \in (0 - MaxBack)..0 : Cardinality(Mailed(from, DayWindow)) <= PerDay
    BY <2>a, <2>1 DEF CapInv
  <2> QED
    BY <2>2, <2>3 DEF CapsHold
<1> QED
  BY <1>1, CapInvHolds, PTL

\* What the present clock shows for the last hour: the mails whose slot status counts.
Lately == {a \in Counted(HourWindow) : accepted[a] > 0}

\* While the clock was never set back, the mails of the last hour stay within the cap;
\* set back by no more than an hour in all, the last hour and the future that status
\* counts with it hold at most twice the cap (status, reserve).
THEOREM LastHourCapped ==
  Spec /\ HourWindow <= DayWindow
    => [](/\ backs = 0 => Cardinality(Lately) <= PerHour
          /\ backs <= HourWindow => Cardinality(Lately) <= 2 * PerHour)
<1> DEFINE P == /\ backs = 0 => Cardinality(Lately) <= PerHour
                /\ backs <= HourWindow => Cardinality(Lately) <= 2 * PerHour
<1> SUFFICES ASSUME HourWindow <= DayWindow PROVE Spec => []P
  OBVIOUS
<1>1. TypeOK /\ SingleUseInv /\ CapInv => P
  <2> SUFFICES ASSUME TypeOK, SingleUseInv, CapInv PROVE P
    OBVIOUS
  <2>a. /\ HourWindow \in Nat /\ DayWindow \in Nat /\ PerHour \in Nat /\ MaxBack \in Nat /\ backs \in 0..MaxBack
        /\ \A a \in Approval : held[a] \in Int /\ (held[a] = Unreserved \/ held[a] >= 0 - backs)
    BY LifetimeAssumption, BoundAssumption DEF TypeOK, SingleUseInv, ApprovalOK
  <2> DEFINE now    == Within(0, HourWindow)
             future == Within(0 - HourWindow, HourWindow)
  <2>1. /\ IsFiniteSet(now) /\ IsFiniteSet(future)
        /\ Cardinality(now) \in Nat /\ Cardinality(now) <= PerHour
        /\ Cardinality(future) \in Nat /\ Cardinality(future) <= PerHour
    <3>1. Cardinality(now) <= PerHour /\ Cardinality(future) <= PerHour
      BY <2>a DEF CapInv, Capped, Horizon
    <3>2. IsFiniteSet(now) /\ IsFiniteSet(future)
      BY WithinSlots, FS_Subset DEF CapInv
    <3> QED
      BY <3>1, <3>2, FS_CardinalityType
  <2>2. ASSUME backs = 0 PROVE Cardinality(Lately) <= PerHour
    <3>1. Lately \subseteq now
      BY <2>a, <2>2 DEF Lately, Counted, Within
    <3>2. Cardinality(Lately) \in Nat /\ Cardinality(Lately) <= Cardinality(now)
      BY <3>1, FewSlots, WithinSlots DEF CapInv
    <3> QED
      BY <2>a, <2>1, <3>2
  <2>3. ASSUME backs <= HourWindow PROVE Cardinality(Lately) <= 2 * PerHour
    <3>1. Lately \subseteq now \cup future
      BY <2>a, <2>3 DEF Lately, Counted, Within
    <3>2. /\ IsFiniteSet(now \cup future) /\ Cardinality(now \cup future) \in Nat
          /\ Cardinality(now \cup future) <= Cardinality(now) + Cardinality(future)
      <4> HIDE DEF now, future
      <4>1. /\ IsFiniteSet(now \cup future)
            /\ Cardinality(now \cup future) = Cardinality(now) + Cardinality(future) - Cardinality(now \cap future)
        BY <2>1, FS_Union
      <4>2. Cardinality(now \cap future) \in Nat /\ Cardinality(now \cup future) \in Nat
        BY <2>1, <4>1, FS_Intersection, FS_CardinalityType
      <4> QED
        BY <2>1, <4>1, <4>2
    <3>3. IsFiniteSet(Lately) /\ Cardinality(Lately) <= Cardinality(now \cup future)
      BY <3>1, <3>2, FS_Subset
    <3>4. Cardinality(Lately) \in Nat
      BY <3>3, FS_CardinalityType
    <3> QED
      BY <2>a, <2>1, <3>2, <3>3, <3>4
  <2> QED
    BY <2>2, <2>3
<1> QED
  BY <1>1, CapInvHolds, PTL

-----------------------------------------------------------------------------
(* Locks that exclude *)

\* No live holder's lock is taken over.
Exclusive == ~LockBreaks

\* What the clock or the configuration made of a record that was in state s.
Ahead(s, t) == t = s \/ (s \in Active /\ t \in {"expired", "revoked"}) \/ (s = "sending" /\ t = "unknown")

\* Whoever is inside a transition has the lock, and what it read is still there; an approval
\* that was claimed stays spent.
ExclInv ==
  /\ \A w \in Worker : me[w].pc \in Reading =>
       lock[me[w].job] = Main(w) /\ Ahead(rec[me[w].job].state, me[w].seen.rec.state)
  /\ \A w \in Worker : beat[w].on =>
       lock[beat[w].job] = Timer(w) /\ Ahead(rec[beat[w].job].state, beat[w].seen.rec.state)
  /\ \A a \in Approval : claim[a] # "none" => rec[a].state \in Spent
  /\ \A w \in Worker : me[w].pc = "mark" => rec[me[w].job].state \in Spent

\* Threads are told apart.
LEMMA Threads2 ==
  /\ \A v, w \in Worker : (Main(v) = Main(w) \/ Timer(v) = Timer(w)) => v = w
  /\ \A v, w \in Worker : Main(v) # Timer(w)
  /\ \A w \in Worker : Main(w) # Free /\ Timer(w) # Free /\ Main(w) # Orphan /\ Timer(w) # Orphan
  /\ Orphan # Free
BY DEF Main, Timer, Free, Orphan

LEMMA DeriveAhead == ASSUME NEW r \in Records PROVE Ahead(r.state, Derive(r).state)
<1>1. Ended(r, "expired").state = "expired" /\ Ended(r, "unknown").state = "unknown"
  BY EndedType DEF States
<1> QED
  BY <1>1 DEF Derive, Ahead

LEMMA SettleAhead == ASSUME NEW r \in Records, NEW live, NEW action PROVE Ahead(r.state, Settle(r, live, action).state)
<1> DEFINE d == Derive(r)
<1>1. d \in Records /\ Ahead(r.state, d.state)
  BY DeriveFollows, DeriveAhead DEF Follows
<1> HIDE DEF d
<1>2. Ended(d, "revoked").state = "revoked"
  BY <1>1, EndedType DEF States
<1>3. d.state \in Active => r.state = d.state
  BY <1>1 DEF Ahead, Active
<1> QED
  BY <1>1, <1>2, <1>3 DEF Settle, Revokes, Ahead, d

\* One call moves; what the other threads have locked is left alone.
LEMMA ExclMove ==
  ASSUME TypeOK, BoundInv, ExclInv, NEW w \in Worker, NEW mine, me' = [me EXCEPT ![w] = mine], beat' = beat,
         \A a \in Approval : lock[a] \notin {Free, Main(w)} /\ rec[a].state # "none"
                               => lock'[a] = lock[a] /\ rec'[a].state = rec[a].state,
         \A a \in Approval : rec[a].state \in Spent => rec'[a].state \in Spent,
         \A a \in Approval : claim'[a] # "none" => claim[a] # "none" \/ rec'[a].state \in Spent,
         mine.pc \in Reading => lock'[mine.job] = Main(w) /\ Ahead(rec'[mine.job].state, mine.seen.rec.state),
         mine.pc = "mark" => rec'[mine.job].state \in Spent
  PROVE  ExclInv'
<1>1. me'[w] = mine /\ \A v \in Worker \ {w} : me'[v] = me[v]
  BY DEF TypeOK
<1>2. \A v \in Worker : Main(v)' = Main(v) /\ Timer(v)' = Timer(v)
  BY DEF Main, Timer
<1>3. ASSUME NEW v \in Worker, me'[v].pc \in Reading
      PROVE  lock'[me'[v].job] = Main(v) /\ Ahead(rec'[me'[v].job].state, me'[v].seen.rec.state)
  <2>1. CASE v = w
    BY <1>1, <1>3, <2>1
  <2>2. CASE v # w
    <3>1. me'[v] = me[v] /\ me[v].pc \in Reading
      BY <1>1, <1>3, <2>2
    <3>2. me[v].job \in Approval /\ rec[me[v].job].state # "none"
      BY <3>1 DEF TypeOK, HasJob, Reading, BoundInv, MemoryOK, Preparing
    <3>3. lock[me[v].job] = Main(v) /\ Ahead(rec[me[v].job].state, me[v].seen.rec.state)
      BY <3>1 DEF ExclInv
    <3>4. Main(v) \notin {Free, Main(w)}
      BY <2>2, Threads2
    <3> QED
      BY <3>1, <3>2, <3>3, <3>4
  <2> QED
    BY <2>1, <2>2
<1>4. ASSUME NEW v \in Worker, beat[v].on
      PROVE  lock'[beat[v].job] = Timer(v) /\ Ahead(rec'[beat[v].job].state, beat[v].seen.rec.state)
  <2>1. beat[v].job \in Approval /\ rec[beat[v].job].state # "none"
    BY <1>4 DEF TypeOK, BoundInv, BeatOK
  <2>2. lock[beat[v].job] = Timer(v) /\ Ahead(rec[beat[v].job].state, beat[v].seen.rec.state)
    BY <1>4 DEF ExclInv
  <2>3. Timer(v) \notin {Free, Main(w)}
    BY Threads2
  <2> QED
    BY <2>1, <2>2, <2>3
<1>5. \A a \in Approval : claim'[a] # "none" => rec'[a].state \in Spent
  BY DEF ExclInv
<1>6. ASSUME NEW v \in Worker, me'[v].pc = "mark" PROVE rec'[me'[v].job].state \in Spent
  <2>1. CASE v = w
    BY <1>1, <1>6, <2>1
  <2>2. CASE v # w
    <3>1. me'[v] = me[v] /\ me[v].pc = "mark" /\ me[v].job \in Approval
      BY <1>1, <1>6, <2>2 DEF TypeOK, HasJob
    <3> QED
      BY <3>1 DEF ExclInv
  <2> QED
    BY <2>1, <2>2
<1> QED
  BY <1>2, <1>3, <1>4, <1>5, <1>6 DEF ExclInv

-----------------------------------------------------------------------------
(* The forms of a step *)

Sweeping == {"list", "sweep", "sweeping"}

\* w goes on under no lock and in no sweep; only the marker is made on the way.
Alone(w) ==
  /\ \E mine : me' = [me EXCEPT ![w] = mine] /\ mine.pc \notin Reading \cup Sweeping \cup {"mark"}
  /\ UNCHANGED <<rec, lock, beat, config, accepted, history>>
  /\ claim' = claim \/ Mark(w)

\* w locks a record and reads it.
Into(w) ==
  \E a \in Approval, step \in Reading : \E action :
    /\ Enter(w, a, step, action)
    /\ step = "sweeping" => SweepEnter(w, a)
    /\ step = "claiming" => action = "claim"

\* What a transition at p may make of a record it read in state s.
Decides(p, s, t) ==
  \/ t = s
  \/ s = "pending" /\ t = "approved"
  \/ s \in Active /\ t = "revoked"
  \/ p = "claiming" /\ s \in Active /\ t = "sending"
  \/ p = "using" /\ s \in {"sending", "unknown"} /\ t = "used"
  \/ p \in {"failing", "losing"} /\ s \in {"sending", "unknown"} /\ t = "failed"

\* w writes what it decided and unlocks.
Out(w) ==
  \E next \in Records : \E mine :
    /\ Leave(w, next, mine)
    /\ me[w].pc \in Reading /\ mine.pc \notin Reading \cup {"list"}
    /\ mine.pc = "sweep" => SweepLeave(w)
    /\ mine.pc = "mark" => mine.job = me[w].job /\ next.state = "sending" /\ me[w].seen.rec.state \in Active
    /\ Decides(me[w].pc, me[w].seen.rec.state, next.state)

LEMMA OnlyAlone ==
  ASSUME NEW w \in Worker, NEW mine, Only(w, mine), mine.pc \notin Reading \cup Sweeping \cup {"mark"}
  PROVE  Alone(w)
  BY DEF Only, Alone, disk, provider

\* The steps a call can be at under no lock, in no sweep.
LEMMA AloneKinds ==
  \A p \in {"idle", "resolved", "fit", "relabel", "reread", "bound", "edit", "read", "claim", "reserve", "look", "fence", "wait",
            "call", "accept", "release", "fail", "lost", "unreserve", "challenge", "void", "approve"} :
    p \in Steps /\ p \notin Reading \cup Sweeping \cup {"mark"}
BY DEF Steps, Reading, Sweeping, Holding

LEMMA RestingAlone == Resting.pc \notin Reading \cup Sweeping \cup {"mark"}
  BY AloneKinds DEF Resting

LEMMA BeginForms ==
  ASSUME TypeOK, NEW w \in Worker, Begin(w)
  PROVE  Alone(w) \/ Into(w) \/ \E p \in Policies : SetPolicy(w, p)
<1>1. ASSUME NEW a \in Approval, PrepareStart(w, a) PROVE Alone(w)
  <2> DEFINE mine == [Resting EXCEPT !.pc = "resolved", !.job = a,
                        !.seen.rec = [NoRecord EXCEPT !.route = config.policy, !.asked = config.epoch]]
  <2>1. mine.pc = "resolved" /\ Only(w, mine)
    BY <1>1 DEF Resting, PrepareStart
  <2> HIDE DEF mine
  <2> QED
    BY <2>1, OnlyAlone, AloneKinds
<1>2. ASSUME EditCheck(w) PROVE Alone(w)
  <2> DEFINE mine == [Resting EXCEPT !.pc = "edit"]
  <2>1. mine.pc = "edit" /\ Only(w, mine)
    BY <1>2 DEF Resting, EditCheck
  <2> HIDE DEF mine
  <2> QED
    BY <2>1, OnlyAlone, AloneKinds
<1>3. ASSUME NEW a \in Approval, SendStart(w, a) \/ ShowEnter(w, a) \/ AnswerEnter(w, a) \/ RevokeEnter(w, a) \/ StatusEnter(w, a)
      PROVE  Into(w)
  BY <1>3 DEF SendStart, ShowEnter, AnswerEnter, RevokeEnter, StatusEnter, Into, Reading
<1> QED
  BY <1>1, <1>2, <1>3 DEF Begin

LEMMA PrepareForms ==
  ASSUME TypeOK, NEW w \in Worker, Prepare(w) \/ EditApply(w)
  PROVE  Alone(w) \/ PrepareCreate(w)
<1>m. me[w] \in Memories
  BY DEF TypeOK
<1>1. ASSUME NEW p \in {"bound", "fit"}, Only(w, [me[w] EXCEPT !.pc = p, !.seen.rec.epoch = config.epoch, !.seen.rec.ver = draft])
      PROVE  Alone(w)
  <2> DEFINE mine == [me[w] EXCEPT !.pc = p, !.seen.rec.epoch = config.epoch, !.seen.rec.ver = draft]
  <2>1. mine.pc = p
    BY <1>m DEF Memories
  <2>2. Only(w, mine)
    BY <1>1
  <2> HIDE DEF mine
  <2> QED
    BY <2>1, <2>2, OnlyAlone, AloneKinds
<1>2. ASSUME Only(w, Resting) PROVE Alone(w)
  BY <1>2, OnlyAlone, RestingAlone
<1>3. ASSUME PrepareRead(w) PROVE Alone(w)
  BY <1>1, <1>2, <1>3 DEF PrepareRead
<1>4. ASSUME PrepareFit(w) PROVE Alone(w)
  <2> DEFINE mine == [me[w] EXCEPT !.pc = "relabel"]
  <2>1. mine.pc = "relabel"
    BY <1>m DEF Memories
  <2>2. Only(w, mine) \/ Only(w, Resting)
    BY <1>4 DEF PrepareFit
  <2> HIDE DEF mine
  <2> QED
    BY <1>2, <2>1, <2>2, OnlyAlone, AloneKinds
<1>5. ASSUME PrepareRelabel(w) PROVE Alone(w)
  <2> DEFINE mine == [me[w] EXCEPT !.pc = "reread"]
  <2>1. mine.pc = "reread"
    BY <1>m DEF Memories
  <2>2. me' = [me EXCEPT ![w] = mine] /\ UNCHANGED <<rec, claim, lock, beat, config, accepted, history>>
    BY <1>5 DEF PrepareRelabel, disk
  <2> HIDE DEF mine
  <2> QED
    BY <2>1, <2>2, AloneKinds DEF Alone
<1>6. ASSUME PrepareReread(w) PROVE Alone(w)
  <2> DEFINE mine == [me[w] EXCEPT !.pc = "bound", !.seen.rec.ver = draft]
  <2>1. mine.pc = "bound"
    BY <1>m DEF Memories
  <2>2. Only(w, mine) \/ Only(w, Resting)
    BY <1>6 DEF PrepareReread
  <2> HIDE DEF mine
  <2> QED
    BY <1>2, <2>1, <2>2, OnlyAlone, AloneKinds
<1>7. ASSUME EditApply(w) PROVE Alone(w)
  BY <1>7, RestingAlone DEF EditApply, disk, Alone
<1> QED
  BY <1>3, <1>4, <1>5, <1>6, <1>7 DEF Prepare

\* What each decision makes of a record.
LEMMA Decisions ==
  ASSUME NEW r \in Records
  PROVE  /\ Decides("revoking", r.state, Revoked(r).state) /\ Revoked(r) \in Records
         /\ Decides("using", r.state, Outcome(r, "used").state) /\ Outcome(r, "used") \in Records
         /\ \A p \in {"failing", "losing"} : Decides(p, r.state, Outcome(r, "failed").state)
         /\ Outcome(r, "failed") \in Records
         /\ Renew(r).state = r.state /\ Renew(r) \in Records
<1>1. /\ Ended(r, "revoked").state = "revoked" /\ Ended(r, "used").state = "used" /\ Ended(r, "failed").state = "failed"
      /\ Ended(r, "revoked") \in Records /\ Ended(r, "used") \in Records /\ Ended(r, "failed") \in Records
  BY EndedType DEF States
<1>2. [r EXCEPT !.age = 0] \in Records /\ [r EXCEPT !.age = 0].state = r.state
  BY SetAge
<1> QED
  BY <1>1, <1>2 DEF Revoked, Outcome, Renew, Decides

LEMMA ApproveDecides ==
  ASSUME NEW r \in Records, NEW ver \in Nat, NEW right \in BOOLEAN
  PROVE  Decides("approving", r.state, ApproveDecision(r, ver, right).state) /\ ApproveDecision(r, ver, right) \in Records
<1> DEFINE yes == [r EXCEPT !.state = "approved", !.yes = ver, !.code = FALSE, !.age = 0]
           tried == [r EXCEPT !.tries = r.tries + 1]
<1>1. yes.state = "approved" /\ yes \in Records
  BY ApprovedType
<1>2. tried \in Records /\ tried.state = r.state
  BY DEF Records
<1> HIDE DEF yes, tried
<1>3. Ended(r, "revoked").state = "revoked" /\ Ended(tried, "revoked").state = "revoked"
  BY <1>2, EndedType DEF States
<1>4. ApproveDecision(r, ver, right) \in Records
  BY ApproveFollows DEF Follows
<1>5. \/ ApproveDecision(r, ver, right) \in {r, tried}
      \/ r.state = "pending" /\ ApproveDecision(r, ver, right) \in {yes, Ended(r, "revoked"), Ended(tried, "revoked")}
  BY DEF ApproveDecision, yes, tried
<1> QED
  BY <1>1, <1>2, <1>3, <1>4, <1>5 DEF Decides, Active

LEMMA ClaimDecides ==
  ASSUME NEW r \in Records, NEW live \in Configs, NEW ver, NEW agrees \in BOOLEAN
  PROVE  LET q == ClaimDecision(r, live, ver, agrees) IN
         q \in Records /\ Decides("claiming", r.state, q.state)
<1> DEFINE q == [r EXCEPT !.state = "sending", !.age = 0]
<1>1. q.state = "sending" /\ Ended(r, "revoked").state = "revoked"
  BY BegunType, EndedType DEF States
<1> HIDE DEF q
<1>2. \/ r.state \in Active /\ ClaimDecision(r, live, ver, agrees) \in {Ended(r, "revoked"), r, q}
      \/ ClaimDecision(r, live, ver, agrees) = r
  BY DEF ClaimDecision, q
<1>3. ClaimDecision(r, live, ver, agrees) \in Records
  BY ClaimFollows DEF Follows
<1> QED
  BY <1>1, <1>2, <1>3 DEF Decides

\* A transition that decides this and goes on alone.
LEMMA LeaveOut ==
  ASSUME NEW w \in Worker, NEW next \in Records, NEW mine, Leave(w, next, mine), me[w].pc \in Reading,
         mine.pc \notin Reading \cup Sweeping \cup {"mark"}, Decides(me[w].pc, me[w].seen.rec.state, next.state)
  PROVE  Out(w)
  BY DEF Out, Sweeping

LEMMA SendForms ==
  ASSUME TypeOK, NEW w \in Worker, Send(w)
  PROVE  Alone(w) \/ Into(w) \/ Out(w)
<1> DEFINE r == me[w].seen.rec
<1>r. r \in Records /\ me[w].seen.live \in Configs /\ r.state = r.state
  BY DEF TypeOK, Memories, Seen
<1>a. \A p \in {"read", "claim", "reserve", "look", "fence", "call", "wait", "accept", "release", "fail", "lost", "unreserve"} :
        At(w, p) \in Memories /\ At(w, p).pc = p /\ p \notin Reading \cup Sweeping \cup {"mark"}
  BY AtFields, AloneKinds
<1>s. \A p : Decides(p, r.state, r.state)
  BY DEF Decides
<1>1. ASSUME Inspected(w) PROVE Out(w)
  <2>1. me[w].pc \in Reading /\ (Leave(w, r, At(w, "read")) \/ Leave(w, r, Resting))
    BY <1>1 DEF Inspected, Reading
  <2> QED
    BY <1>a, <1>r, <1>s, <2>1, LeaveOut, RestingAlone
<1>2. ASSUME ReadDraft(w) PROVE Alone(w)
  <2> DEFINE mine == [At(w, "claim") EXCEPT !.ver = draft]
  <2>1. mine.pc = "claim"
    BY <1>a DEF Memories
  <2>2. Only(w, mine) \/ Only(w, Resting)
    BY <1>2 DEF ReadDraft
  <2> HIDE DEF mine
  <2> QED
    BY <1>a, <2>1, <2>2, OnlyAlone, RestingAlone
<1>3. ASSUME ClaimEnter(w) \/ FenceEnter(w) \/ UseEnter(w) \/ FailEnter(w) \/ LostEnter(w) PROVE Into(w)
  <2>1. me[w].job \in Approval
    BY <1>3 DEF ClaimEnter, FenceEnter, UseEnter, FailEnter, LostEnter, TypeOK, HasJob
  <2>2. \E step \in {"claiming", "fencing", "using", "failing", "losing"} : \E action :
          Enter(w, me[w].job, step, action) /\ (step = "claiming" => action = "claim")
    BY <1>3 DEF ClaimEnter, FenceEnter, UseEnter, FailEnter, LostEnter
  <2>3. {"claiming", "fencing", "using", "failing", "losing"} \subseteq Reading
    BY DEF Reading
  <2> QED
    BY <2>1, <2>2, <2>3 DEF Into
<1>4. ASSUME ClaimLeave(w) PROVE Out(w)
  <2>1. PICK agrees \in BOOLEAN :
          LET next == ClaimDecision(r, me[w].seen.live, me[w].ver, agrees)
          IN  Leave(w, next, IF r.state \in Active /\ next.state = "sending"
                             THEN [At(w, "mark") EXCEPT !.ver = r.ver] ELSE Resting)
    BY <1>4 DEF ClaimLeave
  <2> DEFINE next == ClaimDecision(r, me[w].seen.live, me[w].ver, agrees)
             mine == [At(w, "mark") EXCEPT !.ver = r.ver]
  <2>2. next \in Records /\ Decides("claiming", r.state, next.state) /\ me[w].pc = "claiming"
    BY <1>4, <1>r, ClaimDecides DEF ClaimLeave
  <2>3. mine.pc = "mark" /\ mine.job = me[w].job
    BY AtFields DEF Steps, Memories
  <2>4. (Leave(w, next, mine) /\ r.state \in Active /\ next.state = "sending") \/ Leave(w, next, Resting)
    BY <2>1
  <2>5. "claiming" \in Reading /\ "mark" \notin Reading \cup {"list", "sweep"}
    BY DEF Reading
  <2> HIDE DEF next, mine
  <2>6. CASE Leave(w, next, mine) /\ r.state \in Active /\ next.state = "sending"
    BY <2>2, <2>3, <2>5, <2>6 DEF Out
  <2>7. CASE Leave(w, next, Resting)
    BY <2>2, <2>5, <2>7, LeaveOut, RestingAlone
  <2> QED
    BY <2>4, <2>6, <2>7
<1>5. ASSUME NEW p \in {"reserve", "look", "fence", "wait", "accept", "release", "fail"},
             me' = [me EXCEPT ![w] = At(w, p)],
             UNCHANGED <<rec, lock, beat, config, accepted, history>>, claim' = claim \/ Mark(w)
      PROVE  Alone(w)
  BY <1>5, <1>a DEF Alone
<1>6. ASSUME me' = [me EXCEPT ![w] = Resting], UNCHANGED <<rec, lock, beat, config, accepted, history>>, claim' = claim
      PROVE  Alone(w)
  BY <1>6, RestingAlone DEF Alone
<1>7. ASSUME Mark(w) \/ Reserve(w) \/ LastLook(w) \/ Call(w) \/ AnswerLost(w) \/ Release(w) \/ Unreserve(w) PROVE Alone(w)
  <2>1. UNCHANGED <<rec, lock, beat, config, accepted, history>> /\ (claim' = claim \/ Mark(w))
    BY <1>7 DEF Mark, Reserve, LastLook, Call, AnswerLost, Release, Unreserve, Only, disk, provider
  <2>2. \/ me' = [me EXCEPT ![w] = Resting] /\ claim' = claim
        \/ \E p \in {"reserve", "look", "fence", "wait", "release", "fail"} : me' = [me EXCEPT ![w] = At(w, p)]
    BY <1>7 DEF Mark, Reserve, LastLook, Call, AnswerLost, Release, Unreserve, Only, disk
  <2> QED
    BY <1>5, <1>6, <2>1, <2>2
<1>8. ASSUME FenceLeave(w) PROVE Out(w)
  <2>1. PICK p \in {"call", "lost"} : Leave(w, Renew(r), At(w, p))
    BY <1>8 DEF FenceLeave
  <2>2. me[w].pc \in Reading
    BY <1>8 DEF FenceLeave, Reading
  <2>3. Renew(r) \in Records /\ Decides(me[w].pc, r.state, Renew(r).state)
    BY <1>r, <1>s, Decisions
  <2> QED
    BY <1>a, <2>1, <2>2, <2>3, LeaveOut
<1>9. ASSUME Answered(w) PROVE Alone(w)
  <2> DEFINE again == [At(w, "look") EXCEPT !.retries = @ + 1]
  <2>1. /\ UNCHANGED <<rec, lock, beat, config, accepted, history>> /\ claim' = claim
        /\ \E mine \in {At(w, "accept"), Resting, again, At(w, "release")} : me' = [me EXCEPT ![w] = mine]
    BY <1>9 DEF Answered, AfterAnswer, disk
  <2>2. again.pc = "look"
    BY <1>a DEF Memories
  <2> HIDE DEF again
  <2>3. CASE me' = [me EXCEPT ![w] = again]
    BY <1>a, <2>1, <2>2, <2>3 DEF Alone
  <2> QED
    BY <1>5, <1>6, <2>1, <2>3
<1>10. ASSUME UseLeave(w) \/ FailLeave(w) \/ LostLeave(w) PROVE Out(w)
  <2>1. PICK s \in {"used", "failed"} :
          /\ Leave(w, Outcome(r, s), At(w, "unreserve")) \/ Leave(w, Outcome(r, s), Resting)
          /\ me[w].pc \in IF s = "used" THEN {"using"} ELSE {"failing", "losing"}
    BY <1>10 DEF UseLeave, FailLeave, LostLeave
  <2>2. me[w].pc \in Reading
    BY <2>1 DEF Reading
  <2>3. Outcome(r, s) \in Records /\ Decides(me[w].pc, r.state, Outcome(r, s).state)
    BY <1>r, <2>1, Decisions
  <2> QED
    BY <1>a, <2>1, <2>2, <2>3, LeaveOut, RestingAlone
<1> QED
  BY <1>1, <1>2, <1>3, <1>4, <1>7, <1>8, <1>9, <1>10 DEF Send

LEMMA PersonForms ==
  ASSUME TypeOK, NEW w \in Worker, Person(w) \/ TimeOut(w)
  PROVE  Alone(w) \/ Into(w) \/ Out(w)
<1> DEFINE r == me[w].seen.rec
<1>r. r \in Records /\ me[w].ver \in Nat
  BY DEF TypeOK, Memories, Seen
<1>a. \A p \in {"challenge", "void", "approve", "lost", "unreserve"} :
        At(w, p) \in Memories /\ At(w, p).pc = p /\ p \notin Reading \cup Sweeping \cup {"mark"}
  BY AtFields, AloneKinds
<1>s. \A p : Decides(p, r.state, r.state)
  BY DEF Decides
<1>1. ASSUME ShowLeave(w) PROVE Out(w)
  <2>1. /\ me[w].pc \in Reading
        /\ Leave(w, r, At(w, "challenge")) \/ Leave(w, r, At(w, "void")) \/ Leave(w, r, Resting)
    BY <1>1 DEF ShowLeave, Reading
  <2> QED
    BY <1>a, <1>r, <1>s, <2>1, LeaveOut, RestingAlone
<1>2. ASSUME ChallengeEnter(w) \/ VoidEnter(w) \/ ApproveEnter(w) PROVE Into(w)
  <2>1. me[w].job \in Approval
    BY <1>2 DEF ChallengeEnter, VoidEnter, ApproveEnter, TypeOK, HasJob
  <2>2. \E step \in {"challenging", "revoking", "approving"} : \E action : Enter(w, me[w].job, step, action)
    BY <1>2 DEF ChallengeEnter, VoidEnter, ApproveEnter
  <2>3. {"challenging", "revoking", "approving"} \subseteq Reading
    BY DEF Reading
  <2> QED
    BY <2>1, <2>2, <2>3 DEF Into
<1>3. ASSUME ChallengeLeave(w) PROVE Out(w)
  <2> DEFINE q == [r EXCEPT !.code = TRUE]
  <2>1. q \in Records /\ q.state = r.state
    BY <1>r, SetCode
  <2>2. me[w].pc \in Reading /\ (Leave(w, q, Resting) \/ Leave(w, r, Resting))
    BY <1>3 DEF ChallengeLeave, Reading
  <2> HIDE DEF q
  <2> QED
    BY <1>r, <1>s, <2>1, <2>2, LeaveOut, RestingAlone
<1>4. ASSUME AnswerLeave(w) PROVE Out(w)
  <2> DEFINE mine == [At(w, "approve") EXCEPT !.ver = draft]
  <2>1. mine.pc = "approve"
    BY <1>a DEF Memories
  <2>2. me[w].pc \in Reading /\ (Leave(w, r, mine) \/ Leave(w, r, Resting))
    BY <1>4 DEF AnswerLeave, Reading
  <2> HIDE DEF mine
  <2> QED
    BY <1>a, <1>r, <1>s, <2>1, <2>2, LeaveOut, RestingAlone
<1>5. ASSUME ApproveLeave(w) PROVE Out(w)
  <2>1. PICK right \in BOOLEAN : Leave(w, ApproveDecision(r, me[w].ver, right), Resting)
    BY <1>5 DEF ApproveLeave
  <2>2. me[w].pc = "approving" /\ me[w].pc \in Reading
    BY <1>5 DEF ApproveLeave, Reading
  <2> QED
    BY <1>r, <2>1, <2>2, ApproveDecides, LeaveOut, RestingAlone
<1>6. ASSUME RevokeLeave(w) \/ StatusLeave(w) PROVE Out(w)
  <2>1. /\ me[w].pc \in Reading
        /\ Leave(w, r, Resting) \/ (me[w].pc = "revoking" /\ Leave(w, Revoked(r), Resting))
    BY <1>6 DEF RevokeLeave, StatusLeave, Reading
  <2> QED
    BY <1>r, <1>s, <2>1, Decisions, LeaveOut, RestingAlone
<1>7. ASSUME TimeOut(w) PROVE Alone(w)
  <2>1. Only(w, At(w, "lost")) \/ Only(w, At(w, "unreserve")) \/ Only(w, Resting)
    BY <1>7 DEF TimeOut
  <2> QED
    BY <1>a, <2>1, OnlyAlone, RestingAlone
<1> QED
  BY <1>1, <1>2, <1>3, <1>4, <1>5, <1>6, <1>7 DEF Person

LEMMA SweepForms ==
  ASSUME TypeOK, NEW w \in Worker, Sweep(w)
  PROVE  Into(w) \/ Out(w) \/ SweepList(w) \/ SweepEnd(w) \/ \E a \in Approval : SweepMiss(w, a)
<1>1. ASSUME NEW a \in Approval, SweepEnter(w, a) PROVE Into(w)
  BY <1>1 DEF SweepEnter, Into, Reading
<1>2. ASSUME SweepLeave(w) PROVE Out(w)
  <2> DEFINE mine == [At(w, "sweep") EXCEPT !.job = "none", !.todo = @ \ {me[w].job}]
             r == me[w].seen.rec
  <2>1. mine.pc = "sweep"
    BY AtFields DEF Memories, Steps
  <2>2. Leave(w, Revoked(r), mine) /\ me[w].pc = "sweeping"
    BY <1>2 DEF SweepLeave
  <2>3. r \in Records
    BY DEF TypeOK, Memories, Seen
  <2>4. Revoked(r) \in Records /\ Decides("sweeping", r.state, Revoked(r).state)
    BY <2>3, Decisions DEF Decides
  <2>5. "sweeping" \in Reading /\ "sweep" \notin Reading \cup {"list", "mark"}
    BY DEF Reading
  <2> HIDE DEF mine
  <2> QED
    BY <1>2, <2>1, <2>2, <2>4, <2>5 DEF Out
<1> QED
  BY <1>1, <1>2 DEF Sweep

\* Every step is one of these.
LEMMA StepForms ==
  ASSUME TypeOK, [Next]_vars
  PROVE  \/ \E w \in Worker : \/ Alone(w) \/ Into(w) \/ Out(w) \/ PrepareCreate(w)
                              \/ SweepList(w) \/ SweepEnd(w) \/ (\E a \in Approval : SweepMiss(w, a))
                              \/ (\E p \in Policies : SetPolicy(w, p))
                              \/ BeatEnter(w) \/ BeatLeave(w) \/ Crash(w)
         \/ \E a \in Approval : ProviderAccepts(a) \/ TakeOver(a)
         \/ UNCHANGED <<disk, accepted, me, beat, history>> /\ config'.epoch = config.epoch
         \/ Tick \/ StepBack
<1>1. ASSUME NEW w \in Worker, Begin(w) \/ Continue(w)
      PROVE  \/ Alone(w) \/ Into(w) \/ Out(w) \/ PrepareCreate(w)
             \/ SweepList(w) \/ SweepEnd(w) \/ (\E a \in Approval : SweepMiss(w, a))
             \/ (\E p \in Policies : SetPolicy(w, p))
  BY <1>1, BeginForms, PrepareForms, SendForms, PersonForms, SweepForms DEF Continue
<1>2. ASSUME (\E a \in Approval : ProviderRefuses(a)) \/ WebEdit \/ RemoveOwner \/ UNCHANGED vars
      PROVE  UNCHANGED <<disk, accepted, me, beat, history>> /\ config'.epoch = config.epoch
  <2>1. UNCHANGED <<disk, accepted, me, beat, history>>
    BY <1>2 DEF ProviderRefuses, WebEdit, RemoveOwner, vars, provider
  <2>2. config' = config \/ config' = [config EXCEPT !.present = FALSE]
    BY <1>2 DEF ProviderRefuses, WebEdit, RemoveOwner, vars
  <2> QED
    BY <2>1, <2>2 DEF TypeOK, Configs
<1> QED
  BY <1>1, <1>2 DEF Next

-----------------------------------------------------------------------------
(* Every step keeps the locks exclusive *)

LEMMA AloneExcl ==
  ASSUME TypeOK, BoundInv, ExclInv, NEW w \in Worker, Alone(w)
  PROVE  ExclInv'
<1>1. PICK mine : me' = [me EXCEPT ![w] = mine] /\ mine.pc \notin Reading \cup Sweeping \cup {"mark"}
  BY DEF Alone
<1>2. \A a \in Approval : claim'[a] # "none" => claim[a] # "none" \/ rec'[a].state \in Spent
  <2>1. CASE claim' = claim
    BY <2>1
  <2>2. CASE Mark(w)
    <3>1. me[w].pc = "mark" /\ rec[me[w].job].state \in Spent
      BY <2>2 DEF Mark, ExclInv
    <3>2. rec' = rec /\ (claim' = claim \/ claim' = [claim EXCEPT ![me[w].job] = w])
      BY <2>2 DEF Mark, Only, disk
    <3> QED
      BY <3>1, <3>2 DEF TypeOK
  <2> QED
    BY <2>1, <2>2 DEF Alone
<1> QED
  BY <1>1, <1>2, ExclMove DEF Alone

LEMMA IntoExcl ==
  ASSUME TypeOK, BoundInv, ExclInv, NEW w \in Worker, Into(w)
  PROVE  ExclInv'
<1>1. PICK a \in Approval, step \in Reading : \E action : Enter(w, a, step, action)
  BY DEF Into
<1>2. PICK action : Enter(w, a, step, action)
  BY <1>1
<1> DEFINE mine == [me[w] EXCEPT !.pc = step, !.job = a, !.seen = Snapshot(a, action)]
           q == Settle(rec[a], config, action)
<1>3. mine.pc = step /\ mine.job = a /\ mine.seen.rec = q
  BY DEF TypeOK, Memories, Snapshot
<1>4. Ahead(rec[a].state, q.state)
  BY SettleAhead DEF TypeOK
<1>5. /\ me' = [me EXCEPT ![w] = mine] /\ beat' = beat /\ rec' = rec /\ claim' = claim
      /\ lock[a] = Free /\ lock' = [lock EXCEPT ![a] = Main(w)]
  BY <1>2 DEF Enter, Acquire
<1>6. step # "mark" /\ lock'[a] = Main(w) /\ \A b \in Approval : lock[b] # Free => lock'[b] = lock[b]
  BY <1>5 DEF Reading, TypeOK
<1> HIDE DEF mine, q
<1> QED
  BY <1>3, <1>4, <1>5, <1>6, ExclMove

\* What a transition makes of a spent record is spent.
LEMMA OutSpent ==
  ASSUME NEW p, NEW r, NEW s, NEW t, Ahead(r, s), Decides(p, s, t), r \in Spent
  PROVE  t \in Spent
  BY DEF Ahead, Decides, Spent, Active

LEMMA OutExcl ==
  ASSUME TypeOK, BoundInv, ExclInv, NEW w \in Worker, Out(w)
  PROVE  ExclInv'
<1> DEFINE a == me[w].job
           r == me[w].seen.rec
<1>1. PICK next \in Records :
        \E mine : /\ Leave(w, next, mine)
                  /\ me[w].pc \in Reading /\ mine.pc \notin Reading \cup {"list"}
                  /\ mine.pc = "mark" => mine.job = a /\ next.state = "sending" /\ r.state \in Active
                  /\ Decides(me[w].pc, r.state, next.state)
  BY DEF Out
<1>2. PICK mine : /\ Leave(w, next, mine)
                  /\ me[w].pc \in Reading /\ mine.pc \notin Reading \cup {"list"}
                  /\ mine.pc = "mark" => mine.job = a /\ next.state = "sending" /\ r.state \in Active
                  /\ Decides(me[w].pc, r.state, next.state)
  BY <1>1
<1>3. a \in Approval /\ lock[a] = Main(w) /\ Ahead(rec[a].state, r.state)
  BY <1>2 DEF TypeOK, HasJob, Reading, ExclInv
<1>4. /\ me' = [me EXCEPT ![w] = mine] /\ beat' = beat /\ claim' = claim
      /\ rec' = rec \/ rec' = [rec EXCEPT ![a] = next]
      /\ next # r => rec' = [rec EXCEPT ![a] = next]
      /\ lock' = [lock EXCEPT ![a] = Free]
  BY <1>2, <1>3 DEF Leave, Put
<1>5. \A b \in Approval : lock[b] \notin {Free, Main(w)} /\ rec[b].state # "none"
                            => lock'[b] = lock[b] /\ rec'[b].state = rec[b].state
  BY <1>3, <1>4 DEF TypeOK
<1>6. rec[a].state \in Spent => next.state \in Spent
  BY <1>2, <1>3, OutSpent
<1>7. \A b \in Approval : rec[b].state \in Spent => rec'[b].state \in Spent
  BY <1>3, <1>4, <1>6 DEF TypeOK
<1>8. mine.pc = "mark" => rec'[mine.job].state \in Spent
  <2> SUFFICES ASSUME mine.pc = "mark" PROVE rec'[mine.job].state \in Spent
    OBVIOUS
  <2>1. mine.job = a /\ next.state = "sending" /\ next # r
    BY <1>2 DEF Active
  <2>2. rec'[a] = next
    BY <1>3, <1>4, <2>1 DEF TypeOK
  <2> QED
    BY <2>1, <2>2 DEF Spent
<1> QED
  BY <1>2, <1>4, <1>5, <1>7, <1>8, ExclMove

LEMMA CreateExcl ==
  ASSUME TypeOK, BoundInv, ExclInv, NEW w \in Worker, PrepareCreate(w)
  PROVE  ExclInv'
<1> DEFINE a == me[w].job
<1>1. a \in Approval /\ rec[a].state = "none"
  BY DEF PrepareCreate, TypeOK, HasJob, BoundInv, MemoryOK, Preparing
<1>2. /\ me' = [me EXCEPT ![w] = Resting] /\ beat' = beat /\ claim' = claim /\ lock' = lock
      /\ \A b \in Approval : b # a => rec'[b] = rec[b]
  BY <1>1 DEF PrepareCreate, TypeOK
<1>3. "none" \notin Spent
  BY DEF Spent
<1> QED
  BY <1>1, <1>2, <1>3, RestingAlone, ExclMove

\* A call of the sweep's own, or one that sets the policy.
LEMMA OwnExcl ==
  ASSUME TypeOK, BoundInv, ExclInv, NEW w \in Worker,
         SweepList(w) \/ SweepEnd(w) \/ (\E a \in Approval : SweepMiss(w, a)) \/ (\E p \in Policies : SetPolicy(w, p))
  PROVE  ExclInv'
<1>1. ASSUME NEW mine, me' = [me EXCEPT ![w] = mine], mine.pc \in {"idle", "list", "sweep"},
             UNCHANGED <<rec, lock, claim, beat>>
      PROVE  ExclInv'
  <2>1. mine.pc \notin Reading \cup {"mark"}
    BY <1>1 DEF Reading
  <2> QED
    BY <1>1, <2>1, ExclMove
<1>2. ASSUME SweepList(w) PROVE ExclInv'
  <2> DEFINE mine == [At(w, "sweep") EXCEPT !.todo = {a \in Approval : Derive(rec[a]).state \in Active}]
  <2>1. mine.pc = "sweep"
    BY AtFields DEF Memories, Steps
  <2>2. Only(w, mine)
    BY <1>2 DEF SweepList
  <2> HIDE DEF mine
  <2> QED
    BY <1>1, <2>1, <2>2 DEF Only, disk
<1>3. ASSUME SweepEnd(w) PROVE ExclInv'
  BY <1>1, <1>3 DEF SweepEnd, disk, Resting
<1>4. ASSUME NEW a \in Approval, SweepMiss(w, a) PROVE ExclInv'
  <2> DEFINE mine == [me[w] EXCEPT !.todo = @ \ {a}]
  <2>1. mine.pc = "sweep"
    BY <1>4 DEF SweepMiss, TypeOK, Memories
  <2>2. me' = [me EXCEPT ![w] = mine] /\ UNCHANGED <<disk, beat>>
    BY <1>4 DEF SweepMiss
  <2> HIDE DEF mine
  <2> QED
    BY <1>1, <2>1, <2>2 DEF disk
<1>5. ASSUME NEW p \in Policies, SetPolicy(w, p) PROVE ExclInv'
  <2> DEFINE mine == [Resting EXCEPT !.pc = "list", !.ver = config.epoch + 1]
  <2>1. mine.pc = "list" /\ Resting.pc = "idle"
    BY DEF Resting
  <2>2. (me' = [me EXCEPT ![w] = mine] \/ me' = [me EXCEPT ![w] = Resting]) /\ UNCHANGED <<disk, beat>>
    BY <1>5 DEF SetPolicy
  <2> HIDE DEF mine
  <2> QED
    BY <1>1, <2>1, <2>2 DEF disk
<1> QED
  BY <1>2, <1>3, <1>4, <1>5

\* Timers and locks move, calls do not.
LEMMA TimerExcl ==
  ASSUME TypeOK, BoundInv, ExclInv, UNCHANGED <<me, claim>>,
         \A w \in Worker : me[w].pc \in Reading =>
           lock'[me[w].job] = lock[me[w].job] /\ rec'[me[w].job].state = rec[me[w].job].state,
         \A w \in Worker : beat'[w].on =>
           lock'[beat'[w].job] = Timer(w) /\ Ahead(rec'[beat'[w].job].state, beat'[w].seen.rec.state),
         \A a \in Approval : rec[a].state \in Spent => rec'[a].state \in Spent
  PROVE  ExclInv'
<1>1. \A v \in Worker : Main(v)' = Main(v) /\ Timer(v)' = Timer(v)
  BY DEF Main, Timer
<1>2. \A w \in Worker : me'[w].pc \in Reading =>
        lock'[me'[w].job] = Main(w) /\ Ahead(rec'[me'[w].job].state, me'[w].seen.rec.state)
  BY DEF ExclInv
<1>3. \A w \in Worker : me[w].pc = "mark" => me[w].job \in Approval
  BY DEF TypeOK, HasJob
<1>4. \A w \in Worker : me'[w].pc = "mark" => rec'[me'[w].job].state \in Spent
  BY <1>3 DEF ExclInv
<1>5. \A a \in Approval : claim'[a] # "none" => rec'[a].state \in Spent
  BY DEF ExclInv
<1> QED
  BY <1>1, <1>2, <1>4, <1>5 DEF ExclInv

LEMMA BeatExcl ==
  ASSUME TypeOK, BoundInv, ExclInv, NEW w \in Worker, BeatEnter(w) \/ BeatLeave(w)
  PROVE  ExclInv'
<1>j. \A v \in Worker : me[v].pc \in Reading => me[v].job \in Approval /\ lock[me[v].job] = Main(v)
  BY DEF TypeOK, HasJob, Reading, ExclInv
<1>b. \A v \in Worker : beat[v].on => /\ beat[v].job \in Approval /\ lock[beat[v].job] = Timer(v)
                                      /\ Ahead(rec[beat[v].job].state, beat[v].seen.rec.state)
  BY DEF TypeOK, ExclInv
<1>1. ASSUME BeatEnter(w) PROVE ExclInv'
  <2> DEFINE a == me[w].job
             q == Settle(rec[a], config, "inspect")
             b == [on |-> TRUE, job |-> a, seen |-> Snapshot(a, "inspect")]
  <2>1. a \in Approval
    BY <1>1 DEF BeatEnter, TypeOK, HasJob, Holding
  <2>2. b.on /\ b.job = a /\ b.seen.rec = q /\ Ahead(rec[a].state, q.state)
    BY <2>1, SettleAhead DEF Snapshot, TypeOK
  <2>3. /\ beat' = [beat EXCEPT ![w] = b] /\ rec' = rec /\ me' = me /\ claim' = claim
        /\ lock[a] = Free /\ lock' = [lock EXCEPT ![a] = Timer(w)]
    BY <1>1 DEF BeatEnter, Acquire
  <2> HIDE DEF b, q
  <2>4. lock'[a] = Timer(w) /\ \A c \in Approval : lock[c] # Free => lock'[c] = lock[c]
    BY <2>1, <2>3 DEF TypeOK
  <2>5. \A v \in Worker : beat'[v].on =>
          lock'[beat'[v].job] = Timer(v) /\ Ahead(rec'[beat'[v].job].state, beat'[v].seen.rec.state)
    <3>1. beat'[w] = b /\ \A v \in Worker \ {w} : beat'[v] = beat[v]
      BY <2>3 DEF TypeOK
    <3> QED
      BY <1>b, <2>2, <2>3, <2>4, <3>1, Threads2
  <2>6. \A v \in Worker : me[v].pc \in Reading => lock'[me[v].job] = lock[me[v].job]
    BY <1>j, <2>4, Threads2
  <2> QED
    BY <2>3, <2>5, <2>6, TimerExcl
<1>2. ASSUME BeatLeave(w) PROVE ExclInv'
  <2> DEFINE a == beat[w].job
             r == beat[w].seen.rec
             q == Renew(r)
  <2>1. a \in Approval /\ lock[a] = Timer(w) /\ Ahead(rec[a].state, r.state) /\ r \in Records
    BY <1>2, <1>b DEF BeatLeave, TypeOK, Beats, Seen
  <2>2. q.state = r.state
    BY <2>1, Decisions
  <2>3. /\ beat' = [beat EXCEPT ![w] = Quiet] /\ me' = me /\ claim' = claim
        /\ rec' = rec \/ rec' = [rec EXCEPT ![a] = q]
        /\ lock' = [lock EXCEPT ![a] = Free]
    BY <1>2, <2>1 DEF BeatLeave, Put
  <2> HIDE DEF q
  <2>4. \A c \in Approval : c # a => rec'[c] = rec[c] /\ lock'[c] = lock[c]
    BY <2>1, <2>3 DEF TypeOK
  <2>5. rec'[a].state \in {rec[a].state, r.state}
    BY <2>1, <2>2, <2>3 DEF TypeOK
  <2>6. \A c \in Approval : rec[c].state \in Spent => rec'[c].state \in Spent
    BY <2>1, <2>4, <2>5 DEF Ahead, Spent, Active
  <2>7. \A v \in Worker : beat'[v].on =>
          lock'[beat'[v].job] = Timer(v) /\ Ahead(rec'[beat'[v].job].state, beat'[v].seen.rec.state)
    <3>1. ~Quiet.on
      BY DEF Quiet
    <3>2. beat'[w] = Quiet /\ \A v \in Worker \ {w} : beat'[v] = beat[v]
      BY <2>3 DEF TypeOK
    <3>3. \A v \in Worker \ {w} : beat[v].on => beat[v].job # a
      BY <1>b, <2>1, Threads2
    <3> QED
      BY <1>b, <2>4, <3>1, <3>2, <3>3
  <2>8. \A v \in Worker : me[v].pc \in Reading => me[v].job # a
    BY <1>j, <2>1, Threads2
  <2>9. \A v \in Worker : me[v].pc \in Reading =>
          lock'[me[v].job] = lock[me[v].job] /\ rec'[me[v].job].state = rec[me[v].job].state
    BY <1>j, <2>4, <2>8
  <2> QED
    BY <2>3, <2>6, <2>7, <2>9, TimerExcl
<1> QED
  BY <1>1, <1>2

LEMMA CrashExcl ==
  ASSUME TypeOK, BoundInv, ExclInv, NEW w \in Worker, Crash(w)
  PROVE  ExclInv'
<1>1. /\ me' = [me EXCEPT ![w] = Resting] /\ beat' = [beat EXCEPT ![w] = Quiet] /\ rec' = rec /\ claim' = claim
      /\ \A a \in Approval : lock[a] \notin {Main(w), Timer(w)} => lock'[a] = lock[a]
  BY DEF Crash
<1>2. me'[w] = Resting /\ beat'[w] = Quiet /\ \A v \in Worker \ {w} : me'[v] = me[v] /\ beat'[v] = beat[v]
  BY <1>1 DEF TypeOK
<1>3. ~Quiet.on /\ Resting.pc \notin Reading \cup {"mark"}
  BY RestingAlone DEF Quiet
<1>4. \A v \in Worker \ {w} : /\ me[v].pc \in Reading => me[v].job \in Approval /\ lock'[me[v].job] = lock[me[v].job]
                              /\ beat[v].on => beat[v].job \in Approval /\ lock'[beat[v].job] = lock[beat[v].job]
  <2>1. \A v \in Worker : /\ me[v].pc \in Reading => me[v].job \in Approval /\ lock[me[v].job] = Main(v)
                          /\ beat[v].on => beat[v].job \in Approval /\ lock[beat[v].job] = Timer(v)
    BY DEF TypeOK, HasJob, Reading, ExclInv
  <2> QED
    BY <1>1, <2>1, Threads2
<1>5. \A v \in Worker : Main(v)' = Main(v) /\ Timer(v)' = Timer(v)
  BY DEF Main, Timer
<1> QED
  BY <1>1, <1>2, <1>3, <1>4, <1>5 DEF ExclInv

LEMMA TakeOverExcl ==
  ASSUME TypeOK, BoundInv, ExclInv, Exclusive, NEW a \in Approval, TakeOver(a)
  PROVE  ExclInv'
<1>1. /\ lock[a] = Orphan /\ lock' = [lock EXCEPT ![a] = Free] /\ UNCHANGED <<rec, claim, me, beat>>
  BY DEF TakeOver, Exclusive
<1>2. \A b \in Approval : b # a => lock'[b] = lock[b]
  BY <1>1 DEF TypeOK
<1>3. \A v \in Worker : /\ me[v].pc \in Reading => me[v].job \in Approval /\ lock[me[v].job] = Main(v)
                        /\ beat[v].on => /\ beat[v].job \in Approval /\ lock[beat[v].job] = Timer(v)
                                         /\ Ahead(rec[beat[v].job].state, beat[v].seen.rec.state)
  BY DEF TypeOK, HasJob, Reading, ExclInv
<1>4. \A v \in Worker : /\ me[v].pc \in Reading => lock'[me[v].job] = lock[me[v].job]
                        /\ beat[v].on => lock'[beat[v].job] = Timer(v)
  BY <1>1, <1>2, <1>3, Threads2
<1> QED
  BY <1>1, <1>3, <1>4, TimerExcl

\* The clock leaves states as they are.
LEMMA ClockStates ==
  ASSUME TypeOK, NEW d \in Int, Clock(d)
  PROVE  /\ \A a \in Approval : rec'[a] = Aged(rec[a], d) /\ rec'[a].state = rec[a].state
         /\ \A w \in Worker : /\ me'[w].pc = me[w].pc /\ me'[w].job = me[w].job /\ me'[w].ver = me[w].ver
                              /\ me'[w].todo = me[w].todo /\ me'[w].seen.rec.state = me[w].seen.rec.state
                              /\ me'[w].seen.live = me[w].seen.live
         /\ \A w \in Worker : /\ beat'[w].on = beat[w].on /\ beat'[w].job = beat[w].job
                              /\ beat'[w].seen.rec.state = beat[w].seen.rec.state
<1>1. \A a \in Approval : rec'[a] = Aged(rec[a], d) /\ rec'[a].state = rec[a].state
  BY AgedFollows DEF Clock, TypeOK
<1>2. ASSUME NEW w \in Worker
      PROVE  /\ me'[w].pc = me[w].pc /\ me'[w].job = me[w].job /\ me'[w].ver = me[w].ver
             /\ me'[w].todo = me[w].todo /\ me'[w].seen.rec.state = me[w].seen.rec.state
             /\ me'[w].seen.live = me[w].seen.live
  <2>1. me[w] \in Memories /\ me[w].seen \in Seen /\ me[w].seen.rec \in Records
    BY DEF TypeOK, Memories, Seen
  <2>2. me'[w] = [me[w] EXCEPT !.seen.rec = Aged(@, d)]
    BY DEF Clock
  <2>3. /\ me'[w].pc = me[w].pc /\ me'[w].job = me[w].job /\ me'[w].ver = me[w].ver /\ me'[w].todo = me[w].todo
        /\ me'[w].seen.rec = Aged(me[w].seen.rec, d) /\ me'[w].seen.live = me[w].seen.live
    BY <2>1, <2>2 DEF Memories, Seen
  <2> QED
    BY <2>1, <2>3, AgedFollows
<1>3. ASSUME NEW w \in Worker
      PROVE  /\ beat'[w].on = beat[w].on /\ beat'[w].job = beat[w].job
             /\ beat'[w].seen.rec.state = beat[w].seen.rec.state
  <2>1. beat[w] \in Beats /\ beat[w].seen \in Seen /\ beat[w].seen.rec \in Records
    BY DEF TypeOK, Beats, Seen
  <2>2. beat'[w] = [beat[w] EXCEPT !.seen.rec = Aged(@, d)]
    BY DEF Clock
  <2>3. beat'[w].on = beat[w].on /\ beat'[w].job = beat[w].job /\ beat'[w].seen.rec = Aged(beat[w].seen.rec, d)
    BY <2>1, <2>2 DEF Beats, Seen
  <2> QED
    BY <2>1, <2>3, AgedFollows
<1> QED
  BY <1>1, <1>2, <1>3

LEMMA ClockExcl ==
  ASSUME TypeOK, BoundInv, ExclInv, NEW d \in Int, Clock(d)
  PROVE  ExclInv'
<1>1. UNCHANGED <<lock, claim>>
  BY DEF Clock
<1>2. \A v \in Worker : Main(v)' = Main(v) /\ Timer(v)' = Timer(v)
  BY DEF Main, Timer
<1>3. \A v \in Worker : /\ me[v].pc \in Reading \cup {"mark"} => me[v].job \in Approval
                        /\ beat[v].on => beat[v].job \in Approval
  BY DEF TypeOK, HasJob, Reading
<1> QED
  BY <1>1, <1>2, <1>3, ClockStates DEF ExclInv

LEMMA ExclNext ==
  ASSUME TypeOK, BoundInv, ExclInv, Exclusive, [Next]_vars
  PROVE  ExclInv'
<1>1. ASSUME Tick \/ StepBack PROVE ExclInv'
  <2>1. Clock(1) \/ Clock(-1)
    BY <1>1 DEF Tick, StepBack
  <2> QED
    BY <2>1, ClockExcl
<1>2. ASSUME UNCHANGED <<disk, me, beat>> PROVE ExclInv'
  BY <1>2 DEF ExclInv, disk, Main, Timer
<1>3. ASSUME NEW a \in Approval, ProviderAccepts(a) PROVE ExclInv'
  BY <1>2, <1>3 DEF ProviderAccepts
<1> QED
  BY <1>1, <1>2, <1>3, StepForms, AloneExcl, IntoExcl, OutExcl, CreateExcl, OwnExcl, BeatExcl, CrashExcl, TakeOverExcl

-----------------------------------------------------------------------------
(* The promise *)

\* Where an approval stands, as the promise sees it.
Phases == [a \in Approval |-> Phase(rec[a])]

\* What one step may make of an approval's state, as far as the promise goes.
Goes(a, s, t) ==
  \/ t = s
  \/ s = "none" /\ t = "pending"
  \/ s \in Active /\ t \in Active \cup {"expired", "revoked", "sending"}
  \/ s = "sending" /\ t = "unknown"
  \/ accepted[a] = 1 /\ s \in {"sending", "unknown"} /\ t = "used"
  \/ accepted[a] = 0 /\ s \in {"sending", "unknown"} /\ t = "failed"

LEMMA PhaseMove ==
  ASSUME NEW a \in Approval, accepted' = accepted, \A b \in Approval : b # a => rec'[b].state = rec[b].state,
         Goes(a, rec[a].state, rec'[a].state)
  PROVE  Promise!Next \/ UNCHANGED <<Phases, accepted>>
<1> DEFINE f == Phase(rec[a])
           t == Phase(rec'[a])
<1>1. \A b \in Approval : b # a => Phase(rec'[b]) = Phase(rec[b])
  BY DEF Phase
<1>2. Phases' = [Phases EXCEPT ![a] = t] /\ Phases[a] = f
  BY <1>1 DEF Phases
<1>3. \/ t = f
      \/ f = "none" /\ t = "open"
      \/ f = "open" /\ t \in {"closed", "sending"}
      \/ f = "sending" /\ t = "unknown"
      \/ accepted[a] = 1 /\ f \in {"sending", "unknown"} /\ t = "used"
      \/ accepted[a] = 0 /\ f \in {"sending", "unknown"} /\ t = "failed"
  BY DEF Goes, Phase, Active
<1> HIDE DEF f, t
<1>4. CASE t = f
  BY <1>2, <1>4 DEF Phases
<1>5. CASE /\ t # f
  <2>1. \/ Promise!Prepare(a) \/ Promise!Close(a) \/ Promise!Spend(a) \/ Promise!Lose(a)
        \/ Promise!Use(a) \/ Promise!Fail(a)
    BY <1>2, <1>3, <1>5 DEF Phases, Promise!Move, Promise!Prepare, Promise!Close, Promise!Spend, Promise!Lose,
                            Promise!Use, Promise!Fail
  <2> QED
    BY <2>1 DEF Promise!Next
<1> QED
  BY <1>4, <1>5

LEMMA OutGoes ==
  ASSUME TypeOK, SingleUseInv, BoundInv, ExclInv, NEW w \in Worker, Out(w)
  PROVE  Promise!Next \/ UNCHANGED <<Phases, accepted>>
<1> DEFINE a == me[w].job
           r == me[w].seen.rec
<1>1. PICK next \in Records :
        \E mine : /\ Leave(w, next, mine)
                  /\ me[w].pc \in Reading /\ Decides(me[w].pc, r.state, next.state)
  BY DEF Out
<1>2. a \in Approval /\ lock[a] = Main(w) /\ Ahead(rec[a].state, r.state)
  BY <1>1 DEF TypeOK, HasJob, Reading, ExclInv
<1>3. (rec' = rec \/ rec' = [rec EXCEPT ![a] = next]) /\ accepted' = accepted
  BY <1>1 DEF Leave, Put, provider
<1>4. /\ me[w].pc = "using" => accepted[a] = 1
      /\ me[w].pc \in {"failing", "losing"} => accepted[a] = 0
  BY DEF SingleUseInv, WorkerOK, Accepted, NotSent, Asking
<1>5. Goes(a, rec[a].state, next.state)
  BY <1>1, <1>2, <1>4 DEF Goes, Decides, Ahead, Active
<1>6. rec'[a].state \in {rec[a].state, next.state} /\ \A b \in Approval : b # a => rec'[b] = rec[b]
  BY <1>2, <1>3 DEF TypeOK
<1>7. Goes(a, rec[a].state, rec'[a].state)
  BY <1>5, <1>6 DEF Goes
<1> QED
  BY <1>2, <1>3, <1>6, <1>7, PhaseMove

LEMMA BeatGoes ==
  ASSUME TypeOK, BoundInv, ExclInv, NEW w \in Worker, BeatLeave(w)
  PROVE  Promise!Next \/ UNCHANGED <<Phases, accepted>>
<1> DEFINE a == beat[w].job
           r == beat[w].seen.rec
           q == Renew(r)
<1>1. a \in Approval /\ Ahead(rec[a].state, r.state) /\ r \in Records
  BY DEF BeatLeave, TypeOK, ExclInv, Beats, Seen
<1>2. q.state = r.state
  BY <1>1, Decisions
<1>3. (rec' = rec \/ rec' = [rec EXCEPT ![a] = q]) /\ accepted' = accepted
  BY DEF BeatLeave, Put, provider
<1> HIDE DEF q
<1>4. rec'[a].state \in {rec[a].state, r.state} /\ \A b \in Approval : b # a => rec'[b] = rec[b]
  BY <1>1, <1>2, <1>3 DEF TypeOK
<1>5. Goes(a, rec[a].state, rec'[a].state)
  BY <1>1, <1>4 DEF Goes, Ahead
<1> QED
  BY <1>1, <1>3, <1>4, <1>5, PhaseMove

LEMMA CreateGoes ==
  ASSUME TypeOK, BoundInv, NEW w \in Worker, PrepareCreate(w)
  PROVE  Promise!Next \/ UNCHANGED <<Phases, accepted>>
<1> DEFINE a == me[w].job
<1>1. a \in Approval /\ rec[a].state = "none"
  BY DEF PrepareCreate, TypeOK, HasJob, BoundInv, MemoryOK, Preparing
<1>2. PICK route : rec' = [rec EXCEPT ![a] = [me[w].seen.rec EXCEPT !.state = "pending", !.route = route]]
  BY DEF PrepareCreate
<1>3. me[w].seen.rec \in Records /\ accepted' = accepted
  BY DEF TypeOK, Memories, Seen, PrepareCreate, provider
<1>4. rec'[a].state = "pending" /\ \A b \in Approval : b # a => rec'[b] = rec[b]
  BY <1>1, <1>2, <1>3 DEF TypeOK, Records
<1>5. Goes(a, rec[a].state, rec'[a].state)
  BY <1>1, <1>4 DEF Goes
<1> QED
  BY <1>1, <1>3, <1>4, <1>5, PhaseMove

\* The provider accepts only for an approval that is spent, not refused and not yet sent.
LEMMA MailGoes ==
  ASSUME TypeOK, SingleUseInv, ExclInv, NEW a \in Approval, ProviderAccepts(a)
  PROVE  Promise!Next
<1>1. rec' = rec /\ wire[a] = "asked" /\ accepted' = [accepted EXCEPT ![a] = @ + 1]
  BY DEF ProviderAccepts, disk
<1>2. accepted[a] = 0 /\ claim[a] # "none" /\ Truth(rec[a], a)
  BY <1>1 DEF SingleUseInv, ApprovalOK
<1>3. rec[a].state \in {"sending", "unknown"}
  BY <1>1, <1>2 DEF ExclInv, Truth, Dead, Spent
<1>4. Phases' = Phases /\ Phases[a] \in {"sending", "unknown"}
  BY <1>1, <1>3 DEF Phases, Phase, Active
<1>5. accepted' = [accepted EXCEPT ![a] = 1]
  BY <1>1, <1>2
<1>6. Promise!Mail(a)
  BY <1>2, <1>4, <1>5 DEF Promise!Mail, Phases
<1> QED
  BY <1>6 DEF Promise!Next

LEMMA InitExcl == Init => ExclInv
<1> SUFFICES ASSUME Init PROVE ExclInv
  OBVIOUS
<1>1. Resting.pc \notin Reading \cup {"mark"} /\ ~Quiet.on
  BY RestingAlone DEF Quiet
<1> QED
  BY <1>1 DEF Init, ExclInv

\* Whoever has a record's lock finds it as it was read, and an approval with a marker is spent,
\* as long as no live holder's lock is taken over (updateTransaction, #markClaimed).
THEOREM ExclInvHolds == Spec => [](Exclusive => ExclInv)
<1>1. Exclusive' <=> Exclusive
  BY DEF Exclusive
<1> QED
  BY <1>1, InitExcl, ExclNext, TypeCorrect, BoundInvHolds, PTL DEF Spec

\* The gate implements the promise: an approval goes forward only, is spent once, and what its
\* record says of the mail is true, for any number of approvals and processes, whatever crashes
\* or times out and wherever the clock is set to; as long as no live holder's lock is taken over.
THEOREM PromiseKept == Spec /\ Exclusive => KeepsPromise
<1>1. Init => Promise!Init
  <2> SUFFICES ASSUME Init PROVE Promise!Init
    OBVIOUS
  <2>1. \A a \in Approval : Phase(rec[a]) = "none"
    BY DEF Init, NoRecord, Phase, Active
  <2> QED
    BY <2>1 DEF Init, Promise!Init
<1>2. TypeOK /\ SingleUseInv /\ BoundInv /\ ExclInv /\ [Next]_vars
        => [Promise!Next]_<<[a \in Approval |-> Phase(rec[a])], accepted>>
  <2> SUFFICES ASSUME TypeOK, SingleUseInv, BoundInv, ExclInv, [Next]_vars
               PROVE  Promise!Next \/ UNCHANGED <<Phases, accepted>>
    BY DEF Phases
  <2>1. ASSUME rec' = rec, accepted' = accepted PROVE UNCHANGED <<Phases, accepted>>
    BY <2>1 DEF Phases
  <2>2. ASSUME NEW w \in Worker, \/ Alone(w) \/ Into(w) \/ SweepList(w) \/ SweepEnd(w)
                                 \/ (\E a \in Approval : SweepMiss(w, a)) \/ (\E p \in Policies : SetPolicy(w, p))
                                 \/ BeatEnter(w) \/ Crash(w)
        PROVE  rec' = rec /\ accepted' = accepted
    BY <2>2 DEF Alone, Into, Enter, SweepList, SweepEnd, SweepMiss, SetPolicy, BeatEnter, Crash, Only, disk, provider
  <2>3. ASSUME Tick \/ StepBack PROVE UNCHANGED <<Phases, accepted>>
    <3>1. (Clock(1) \/ Clock(-1)) /\ accepted' = accepted
      BY <2>3 DEF Tick, StepBack, Clock, provider
    <3>2. \A a \in Approval : rec'[a].state = rec[a].state
      BY <3>1, ClockStates
    <3>3. \A a \in Approval : Phase(rec'[a]) = Phase(rec[a])
      BY <3>2 DEF Phase
    <3> QED
      BY <3>1, <3>3 DEF Phases
  <2>4. ASSUME NEW a \in Approval, TakeOver(a) PROVE rec' = rec /\ accepted' = accepted
    BY <2>4 DEF TakeOver, provider
  <2>5. ASSUME UNCHANGED <<disk, accepted>> PROVE rec' = rec /\ accepted' = accepted
    BY <2>5 DEF disk
  <2> QED
    BY <2>1, <2>2, <2>3, <2>4, <2>5, StepForms, OutGoes, BeatGoes, CreateGoes, MailGoes
<1>3. Exclusive' <=> Exclusive
  BY DEF Exclusive
<1> QED
  BY <1>1, <1>2, <1>3, ExclInvHolds, BoundInvHolds, TypeCorrect, SingleUseHolds, PTL DEF Spec, KeepsPromise, Promise!Spec

-----------------------------------------------------------------------------
(* The fence *)

\* A claim that read an approval it may yet spend.
Deciding(m) == m.pc = "claiming" /\ m.seen.rec.state \in Active

\* The fence excepts a: the sweep reported it, or its time has run out.
Spares(M, R, a) == a \in M \/ R[a].age >= Life(R[a])
Excepted(a)     == Spares(missed, rec, a)

\* What a decides is bound to the epoch it read; a sweep of a later one has it on its list
\* as long as it runs, and does not end before it.
FenceInv ==
  /\ fenced <= config.epoch
  /\ \A v \in Worker : me[v].pc \in Sweeping => me[v].ver <= config.epoch
  /\ \A w \in Worker : Deciding(me[w]) =>
       LET a == me[w].job  e == me[w].seen.live.epoch IN
       /\ rec[a].epoch = e /\ rec[a].state \in Active /\ rec[a].age >= 0 /\ e <= config.epoch
       /\ fenced <= e \/ Excepted(a)
       /\ \A v \in Worker : me[v].pc \in {"sweep", "sweeping"} /\ me[v].ver > e
                              => a \in me[v].todo \/ Excepted(a)

\* The record of a is as it was, or older.
Kept(a) == /\ rec'[a].state = rec[a].state /\ rec'[a].epoch = rec[a].epoch /\ rec'[a].route = rec[a].route
           /\ rec'[a].age >= rec[a].age

LEMMA LifeNat == \A r : Life(r) \in Nat
  BY LifetimeAssumption DEF Life

LEMMA KeptExcepted ==
  ASSUME TypeOK, NEW a \in Approval, Kept(a), rec'[a].age \in Int, missed \subseteq missed', Excepted(a)
  PROVE  Spares(missed', rec', a)
<1>1. Life(rec'[a]) = Life(rec[a]) /\ Life(rec[a]) \in Nat
  BY LifeNat DEF Kept, Life
<1>2. rec[a].age \in Int
  BY DEF TypeOK, Records
<1> QED
  BY <1>1, <1>2 DEF Kept, Excepted, Spares

\* What a decision is about.
LEMMA DecidingJob ==
  ASSUME TypeOK, ExclInv, NEW w \in Worker, Deciding(me[w])
  PROVE  /\ me[w].job \in Approval /\ lock[me[w].job] = Main(w) /\ lock[me[w].job] # Free
         /\ me[w].seen.live.epoch \in Nat /\ rec[me[w].job].age \in Int
<1>1. me[w].pc \in Reading /\ me[w].pc \notin {"idle", "edit", "list", "sweep"}
  BY DEF Deciding, Reading
<1>2. me[w].job \in Approval /\ lock[me[w].job] = Main(w)
  BY <1>1 DEF TypeOK, HasJob, ExclInv
<1> QED
  BY <1>2, Threads2 DEF TypeOK, Memories, Seen, Configs, Records

\* No call moves, as far as the fence can tell.
LEMMA FenceStay ==
  ASSUME TypeOK, ExclInv, FenceInv, TypeOK', config'.epoch = config.epoch, fenced' = fenced, missed' = missed,
         \A w \in Worker : /\ me'[w].pc = me[w].pc /\ me'[w].job = me[w].job /\ me'[w].ver = me[w].ver
                           /\ me'[w].todo = me[w].todo /\ me'[w].seen.rec.state = me[w].seen.rec.state
                           /\ me'[w].seen.live = me[w].seen.live,
         \A w \in Worker : Deciding(me[w]) => Kept(me[w].job)
  PROVE  FenceInv'
<1>1. ASSUME NEW w \in Worker, Deciding(me'[w])
      PROVE  LET a == me'[w].job  e == me'[w].seen.live.epoch IN
             /\ rec'[a].epoch = e /\ rec'[a].state \in Active /\ rec'[a].age >= 0 /\ e <= config'.epoch
             /\ fenced' <= e \/ Spares(missed', rec', a)
             /\ \A v \in Worker : me'[v].pc \in {"sweep", "sweeping"} /\ me'[v].ver > e
                                    => a \in me'[v].todo \/ Spares(missed', rec', a)
  <2> DEFINE a == me[w].job
             e == me[w].seen.live.epoch
  <2>1. Deciding(me[w]) /\ me'[w].job = a /\ me'[w].seen.live.epoch = e
    BY <1>1 DEF Deciding
  <2>2. a \in Approval /\ Kept(a) /\ rec[a].age \in Int
    BY <2>1, DecidingJob
  <2>3. rec'[a].age \in Int
    BY <2>2 DEF TypeOK, Records
  <2>4. Excepted(a) => Spares(missed', rec', a)
    BY <2>2, <2>3, KeptExcepted
  <2>5. /\ rec[a].epoch = e /\ rec[a].state \in Active /\ rec[a].age >= 0 /\ e <= config.epoch
        /\ fenced <= e \/ Excepted(a)
        /\ \A v \in Worker : me[v].pc \in {"sweep", "sweeping"} /\ me[v].ver > e => a \in me[v].todo \/ Excepted(a)
    BY <2>1 DEF FenceInv
  <2>6. rec'[a].epoch = e /\ rec'[a].state \in Active /\ rec'[a].age >= 0
    BY <2>2, <2>3, <2>5 DEF Kept
  <2> QED
    BY <2>1, <2>4, <2>5, <2>6
<1>2. fenced' <= config'.epoch /\ \A v \in Worker : me'[v].pc \in Sweeping => me'[v].ver <= config'.epoch
  BY DEF FenceInv
<1> QED
  BY <1>1, <1>2 DEF FenceInv, Excepted

\* One call moves: it decides on what it just read, sweeps no less than before, or neither.
LEMMA FenceMove ==
  ASSUME TypeOK, ExclInv, FenceInv, NEW w \in Worker, NEW mine, me' = [me EXCEPT ![w] = mine], TypeOK',
         config'.epoch >= config.epoch, fenced' <= config'.epoch, missed \subseteq missed',
         \A v \in Worker \ {w} : Deciding(me[v]) => Kept(me[v].job),
         \A v \in Worker \ {w} : Deciding(me[v]) => fenced' <= me[v].seen.live.epoch \/ Excepted(me[v].job),
         mine.pc \in Sweeping => mine.ver <= config'.epoch,
         mine.pc \in {"sweep", "sweeping"} =>
           \A v \in Worker \ {w} : Deciding(me[v]) /\ mine.ver > me[v].seen.live.epoch
             => me[v].job \in mine.todo \/ Excepted(me[v].job) \/ me[v].job \in missed',
         Deciding(mine) =>
           /\ rec'[mine.job].epoch = mine.seen.live.epoch /\ rec'[mine.job].state \in Active /\ rec'[mine.job].age >= 0
           /\ mine.seen.live.epoch = config.epoch /\ config'.epoch = config.epoch
  PROVE  FenceInv'
<1>0. me'[w] = mine /\ \A v \in Worker \ {w} : me'[v] = me[v]
  BY DEF TypeOK
<1>n. /\ config.epoch \in Nat /\ config'.epoch \in Nat
      /\ \A v \in Worker : me[v].ver \in Nat /\ me'[v].ver \in Nat
  BY DEF TypeOK, Configs, Memories
<1>1. \A v \in Worker : me'[v].pc \in Sweeping => me'[v].ver <= config'.epoch
  BY <1>0, <1>n DEF FenceInv
<1>2. ASSUME NEW u \in Worker, Deciding(me'[u])
      PROVE  LET a == me'[u].job  e == me'[u].seen.live.epoch IN
             /\ rec'[a].epoch = e /\ rec'[a].state \in Active /\ rec'[a].age >= 0 /\ e <= config'.epoch
             /\ fenced' <= e \/ Spares(missed', rec', a)
             /\ \A v \in Worker : me'[v].pc \in {"sweep", "sweeping"} /\ me'[v].ver > e
                                    => a \in me'[v].todo \/ Spares(missed', rec', a)
  <2> DEFINE a == me'[u].job
             e == me'[u].seen.live.epoch
  <2>1. CASE u = w
    <3>1. /\ rec'[a].epoch = e /\ rec'[a].state \in Active /\ rec'[a].age >= 0
          /\ e = config.epoch /\ config'.epoch = config.epoch
      BY <1>0, <1>2, <2>1
    <3>2. \A v \in Worker : me'[v].pc \in {"sweep", "sweeping"} => me'[v].ver <= e
      BY <1>1, <3>1 DEF Sweeping
    <3> QED
      BY <1>n, <3>1, <3>2
  <2>2. CASE u # w
    <3>1. me'[u] = me[u] /\ Deciding(me[u])
      BY <1>0, <1>2, <2>2
    <3>2. a \in Approval /\ Kept(a) /\ rec[a].age \in Int /\ e \in Nat
      BY <2>2, <3>1, DecidingJob
    <3>3. rec'[a].age \in Int
      BY <3>2 DEF TypeOK, Records
    <3>4. Excepted(a) => Spares(missed', rec', a)
      BY <3>2, <3>3, KeptExcepted
    <3>5. /\ rec[a].epoch = e /\ rec[a].state \in Active /\ rec[a].age >= 0 /\ e <= config.epoch
          /\ \A v \in Worker : me[v].pc \in {"sweep", "sweeping"} /\ me[v].ver > e => a \in me[v].todo \/ Excepted(a)
      BY <3>1 DEF FenceInv
    <3>6. rec'[a].epoch = e /\ rec'[a].state \in Active /\ rec'[a].age >= 0
      BY <3>2, <3>3, <3>5 DEF Kept
    <3>7. fenced' <= e \/ Spares(missed', rec', a)
      BY <2>2, <3>1, <3>4
    <3>8. ASSUME NEW v \in Worker, me'[v].pc \in {"sweep", "sweeping"}, me'[v].ver > e
          PROVE  a \in me'[v].todo \/ Spares(missed', rec', a)
      <4>1. CASE v = w
        <5>1. a \in mine.todo \/ Excepted(a) \/ a \in missed'
          BY <1>0, <2>2, <3>1, <3>8, <4>1
        <5> QED
          BY <1>0, <3>4, <4>1, <5>1 DEF Spares
      <4>2. CASE v # w
        BY <1>0, <3>4, <3>5, <3>8, <4>2
      <4> QED
        BY <4>1, <4>2
    <3> QED
      BY <1>n, <3>2, <3>5, <3>6, <3>7, <3>8
  <2> QED
    BY <2>1, <2>2
<1> QED
  BY <1>1, <1>2 DEF FenceInv, Excepted

\* One call moves, and what other calls have locked is left alone.
LEMMA FenceQuiet ==
  ASSUME TypeOK, ExclInv, FenceInv, NEW w \in Worker, NEW mine, me' = [me EXCEPT ![w] = mine], TypeOK',
         config'.epoch = config.epoch, UNCHANGED history,
         \A a \in Approval : lock[a] \notin {Free, Main(w)} /\ rec[a].state # "none" => rec'[a] = rec[a],
         mine.pc \in Sweeping =>
           /\ mine.pc # "list" /\ me[w].pc \in {"sweep", "sweeping"} /\ mine.ver = me[w].ver
           /\ \A a \in Approval : lock[a] \notin {Free, Main(w)} /\ a \in me[w].todo => a \in mine.todo,
         Deciding(mine) =>
           /\ rec'[mine.job].epoch = mine.seen.live.epoch /\ rec'[mine.job].state \in Active /\ rec'[mine.job].age >= 0
           /\ mine.seen.live.epoch = config.epoch
  PROVE  FenceInv'
<1>1. ASSUME NEW v \in Worker \ {w}, Deciding(me[v])
      PROVE  /\ Kept(me[v].job) /\ (fenced' <= me[v].seen.live.epoch \/ Excepted(me[v].job))
             /\ lock[me[v].job] \notin {Free, Main(w)} /\ me[v].job \in Approval
  <2> DEFINE a == me[v].job
  <2>1. a \in Approval /\ lock[a] \notin {Free, Main(w)} /\ rec[a].age \in Int
    BY <1>1, DecidingJob, Threads2
  <2>2. rec[a].state \in Active /\ (fenced <= me[v].seen.live.epoch \/ Excepted(a))
    BY <1>1 DEF FenceInv
  <2>3. rec'[a] = rec[a]
    BY <2>1, <2>2 DEF Active
  <2> QED
    BY <2>1, <2>2, <2>3 DEF Kept, history
<1>2. /\ config.epoch \in Nat /\ config'.epoch >= config.epoch /\ fenced' <= config'.epoch /\ missed \subseteq missed'
  BY DEF TypeOK, Configs, FenceInv, history
<1>3. mine.pc \in Sweeping => mine.ver <= config'.epoch
  BY DEF FenceInv, Sweeping
<1>4. mine.pc \in {"sweep", "sweeping"} =>
        \A v \in Worker \ {w} : Deciding(me[v]) /\ mine.ver > me[v].seen.live.epoch
          => me[v].job \in mine.todo \/ Excepted(me[v].job) \/ me[v].job \in missed'
  BY <1>1 DEF FenceInv, Sweeping
<1> QED
  BY <1>1, <1>2, <1>3, <1>4, FenceMove

\* A claim that may go on read the record as it is, of the epoch it read.
LEMMA ClaimReads ==
  ASSUME NEW r \in Records, NEW live, Settle(r, live, "claim").state \in Active
  PROVE  r.state \in Active /\ r.age >= 0 /\ r.epoch = live.epoch
<1> DEFINE d == Derive(r)
<1>1. d \in Records
  BY DeriveFollows DEF Follows
<1>2. Ended(d, "revoked").state = "revoked" /\ Ended(r, "expired").state = "expired" /\ Ended(r, "unknown").state = "unknown"
  BY <1>1, EndedType DEF States
<1>3. ~Revokes(d, live, "claim") /\ d.state \in Active
  BY <1>2 DEF Settle, Active
<1>4. d = r /\ ~(r.age < 0) /\ r.age \in Int
  BY <1>2, <1>3 DEF Derive, Active, Records
<1> QED
  BY <1>3, <1>4 DEF Revokes

LEMMA IntoFence ==
  ASSUME TypeOK, ExclInv, FenceInv, TypeOK', NEW w \in Worker, Into(w)
  PROVE  FenceInv'
<1>1. PICK a \in Approval, step \in Reading :
        \E action : Enter(w, a, step, action) /\ (step = "sweeping" => SweepEnter(w, a))
                    /\ (step = "claiming" => action = "claim")
  BY DEF Into
<1>2. PICK action : Enter(w, a, step, action) /\ (step = "sweeping" => SweepEnter(w, a))
                    /\ (step = "claiming" => action = "claim")
  BY <1>1
<1> DEFINE mine == [me[w] EXCEPT !.pc = step, !.job = a, !.seen = Snapshot(a, action)]
           q == Settle(rec[a], config, action)
<1>3. /\ mine.pc = step /\ mine.job = a /\ mine.seen.rec = q /\ mine.seen.live = config /\ mine.ver = me[w].ver
      /\ mine.todo = me[w].todo
  BY DEF TypeOK, Memories, Snapshot
<1>4. me' = [me EXCEPT ![w] = mine] /\ UNCHANGED <<rec, config, history>>
  BY <1>2 DEF Enter
<1>5. step = "sweeping" => me[w].pc = "sweep"
  BY <1>2 DEF SweepEnter
<1>6. step # "sweep" /\ step # "list"
  BY DEF Reading
<1>7. Deciding(mine) => rec[a].state \in Active /\ rec[a].age >= 0 /\ rec[a].epoch = config.epoch
  BY <1>2, <1>3, ClaimReads DEF Deciding, TypeOK
<1> HIDE DEF mine, q
<1> QED
  BY <1>3, <1>4, <1>5, <1>6, <1>7, FenceQuiet DEF Sweeping

LEMMA OutFence ==
  ASSUME TypeOK, ExclInv, FenceInv, TypeOK', NEW w \in Worker, Out(w)
  PROVE  FenceInv'
<1> DEFINE a == me[w].job
<1>1. PICK next \in Records :
        \E mine : /\ Leave(w, next, mine)
                  /\ me[w].pc \in Reading /\ mine.pc \notin Reading \cup {"list"}
                  /\ (mine.pc = "sweep" => SweepLeave(w))
  BY DEF Out
<1>2. PICK mine : /\ Leave(w, next, mine)
                  /\ me[w].pc \in Reading /\ mine.pc \notin Reading \cup {"list"}
                  /\ (mine.pc = "sweep" => SweepLeave(w))
  BY <1>1
<1>3. a \in Approval /\ lock[a] = Main(w)
  BY <1>2 DEF TypeOK, HasJob, Reading, ExclInv
<1>4. /\ me' = [me EXCEPT ![w] = mine] /\ UNCHANGED <<config, history>>
      /\ rec' = rec \/ rec' = [rec EXCEPT ![a] = next]
  BY <1>2 DEF Leave, Put
<1>5. \A b \in Approval : lock[b] \notin {Free, Main(w)} => rec'[b] = rec[b]
  BY <1>3, <1>4 DEF TypeOK
<1>6. ~Deciding(mine) /\ mine.pc # "list" /\ mine.pc # "sweeping"
  BY <1>2 DEF Deciding, Reading
<1>7. ASSUME mine.pc = "sweep"
      PROVE  me[w].pc = "sweeping" /\ mine.ver = me[w].ver /\ mine.todo = me[w].todo \ {a}
  <2> DEFINE own == [At(w, "sweep") EXCEPT !.job = "none", !.todo = @ \ {me[w].job}]
  <2>1. me[w].pc = "sweeping" /\ me' = [me EXCEPT ![w] = own]
    BY <1>2, <1>7 DEF SweepLeave, Leave
  <2>2. mine = own
    BY <1>4, <2>1 DEF TypeOK
  <2>3. own.ver = me[w].ver /\ own.todo = me[w].todo \ {a}
    BY DEF At, TypeOK, Memories
  <2> QED
    BY <2>1, <2>2, <2>3
<1> QED
  BY <1>3, <1>4, <1>5, <1>6, <1>7, FenceQuiet DEF Sweeping

\* The steps of a sweep that lock nothing, and the policy's.
LEMMA OwnFence ==
  ASSUME TypeOK, ExclInv, FenceInv, TypeOK', NEW w \in Worker,
         SweepList(w) \/ SweepEnd(w) \/ (\E a \in Approval : SweepMiss(w, a)) \/ (\E p \in Policies : SetPolicy(w, p))
  PROVE  FenceInv'
<1>n. /\ config.epoch \in Nat /\ fenced \in Nat /\ me[w].ver \in Nat /\ fenced <= config.epoch
      /\ me[w].pc \in Sweeping => me[w].ver <= config.epoch
  BY DEF TypeOK, Configs, Memories, FenceInv
<1>d. ASSUME NEW v \in Worker, Deciding(me[v])
      PROVE  LET a == me[v].job  e == me[v].seen.live.epoch IN
             /\ a \in Approval /\ e \in Nat /\ rec[a].age \in Int
             /\ rec[a].state \in Active /\ rec[a].age >= 0
             /\ fenced <= e \/ Excepted(a)
             /\ me[w].pc \in {"sweep", "sweeping"} /\ me[w].ver > e => a \in me[w].todo \/ Excepted(a)
  BY <1>d, DecidingJob DEF FenceInv
<1>k. ASSUME rec' = rec, NEW v \in Worker, Deciding(me[v]) PROVE Kept(me[v].job)
  BY <1>d, <1>k DEF Kept
<1>r. Resting.pc \notin Sweeping /\ ~Deciding(Resting)
  BY DEF Resting, Sweeping, Deciding
<1>1. ASSUME SweepList(w) PROVE FenceInv'
  <2> DEFINE mine == [At(w, "sweep") EXCEPT !.todo = {a \in Approval : Derive(rec[a]).state \in Active}]
  <2>1. mine.pc = "sweep" /\ mine.ver = me[w].ver /\ mine.todo = {a \in Approval : Derive(rec[a]).state \in Active}
    BY DEF At, TypeOK, Memories
  <2>2. me' = [me EXCEPT ![w] = mine] /\ UNCHANGED <<rec, config, history>> /\ me[w].pc = "list"
    BY <1>1 DEF SweepList, Only, disk
  <2> HIDE DEF mine
  <2>3. ASSUME NEW v \in Worker, Deciding(me[v]) PROVE me[v].job \in mine.todo \/ Excepted(me[v].job)
    <3> DEFINE a == me[v].job
    <3>1. a \in Approval /\ rec[a].state \in Active /\ rec[a].age >= 0 /\ rec[a].age \in Int
      BY <1>d, <2>3
    <3>2. Life(rec[a]) \in Nat
      BY LifeNat
    <3>3. CASE rec[a].age >= Life(rec[a])
      BY <3>3 DEF Excepted, Spares
    <3>4. CASE ~(rec[a].age >= Life(rec[a]))
      <4>1. Derive(rec[a]) = rec[a]
        BY <3>1, <3>4 DEF Derive, Active
      <4> QED
        BY <2>1, <3>1, <4>1
    <3> QED
      BY <3>3, <3>4
  <2>4. ~Deciding(mine)
    BY <2>1 DEF Deciding
  <2>5. /\ config'.epoch >= config.epoch /\ fenced' <= config'.epoch /\ missed \subseteq missed'
        /\ mine.pc \in Sweeping => mine.ver <= config'.epoch
    BY <1>n, <2>1, <2>2 DEF Sweeping, history
  <2>6. \A v \in Worker \ {w} : Deciding(me[v]) => fenced' <= me[v].seen.live.epoch \/ Excepted(me[v].job)
    BY <1>d, <2>2 DEF history
  <2> QED
    BY <1>k, <2>2, <2>3, <2>4, <2>5, <2>6, FenceMove
<1>2. ASSUME SweepEnd(w) PROVE FenceInv'
  <2>1. /\ me' = [me EXCEPT ![w] = Resting] /\ UNCHANGED <<rec, config, missed>>
        /\ me[w].pc = "sweep" /\ me[w].todo = {} /\ (fenced' = fenced \/ fenced' = me[w].ver)
    BY <1>2 DEF SweepEnd, disk
  <2>2. fenced' <= config'.epoch /\ config'.epoch >= config.epoch
    BY <1>n, <2>1 DEF Sweeping
  <2>3. ASSUME NEW v \in Worker, Deciding(me[v])
        PROVE  fenced' <= me[v].seen.live.epoch \/ Excepted(me[v].job)
    BY <1>d, <1>n, <2>1, <2>3
  <2> QED
    BY <1>k, <1>r, <2>1, <2>2, <2>3, FenceMove DEF Sweeping
<1>3. ASSUME NEW b \in Approval, SweepMiss(w, b) PROVE FenceInv'
  <2> DEFINE mine == [me[w] EXCEPT !.todo = @ \ {b}]
  <2>1. me[w].pc = "sweep" /\ mine.pc = "sweep" /\ mine.ver = me[w].ver /\ mine.todo = me[w].todo \ {b}
    BY <1>3 DEF SweepMiss, TypeOK, Memories
  <2>2. me' = [me EXCEPT ![w] = mine] /\ UNCHANGED <<rec, config, fenced>> /\ missed' = missed \cup {b}
    BY <1>3 DEF SweepMiss, disk
  <2> HIDE DEF mine
  <2>3. ~Deciding(mine)
    BY <2>1 DEF Deciding
  <2>4. /\ config'.epoch >= config.epoch /\ fenced' <= config'.epoch /\ missed \subseteq missed'
        /\ mine.pc \in Sweeping => mine.ver <= config'.epoch
    BY <1>n, <2>1, <2>2 DEF Sweeping
  <2>5. ASSUME NEW v \in Worker, Deciding(me[v])
        PROVE  /\ fenced' <= me[v].seen.live.epoch \/ Excepted(me[v].job)
               /\ mine.ver > me[v].seen.live.epoch
                    => me[v].job \in mine.todo \/ Excepted(me[v].job) \/ me[v].job \in missed'
    BY <1>d, <2>1, <2>2, <2>5
  <2> QED
    BY <1>k, <2>2, <2>3, <2>4, <2>5, FenceMove
<1>4. ASSUME NEW p \in Policies, SetPolicy(w, p) PROVE FenceInv'
  <2> DEFINE mine == IF p = "never" THEN [Resting EXCEPT !.pc = "list", !.ver = config.epoch + 1] ELSE Resting
  <2>1. me' = [me EXCEPT ![w] = mine] /\ UNCHANGED <<rec, history>> /\ config' = NextConfig(p)
    BY <1>4 DEF SetPolicy, disk
  <2>2. config'.epoch = IF p = "never" THEN config.epoch + 1 ELSE config.epoch
    BY <2>1 DEF NextConfig, TypeOK, Configs
  <2>3. IF p = "never" THEN mine.pc = "list" /\ mine.ver = config.epoch + 1 ELSE mine = Resting
    BY DEF Resting
  <2> HIDE DEF mine
  <2>4. ~Deciding(mine) /\ mine.pc \notin {"sweep", "sweeping"}
    BY <1>r, <2>3 DEF Deciding, Sweeping
  <2>5. /\ config'.epoch >= config.epoch /\ fenced' <= config'.epoch /\ missed \subseteq missed'
        /\ mine.pc \in Sweeping => mine.ver <= config'.epoch
    BY <1>n, <1>r, <2>1, <2>2, <2>3 DEF history
  <2>6. \A v \in Worker \ {w} : Deciding(me[v]) => fenced' <= me[v].seen.live.epoch \/ Excepted(me[v].job)
    BY <1>d, <2>1 DEF history
  <2> QED
    BY <1>k, <2>1, <2>4, <2>5, <2>6, FenceMove
<1> QED
  BY <1>1, <1>2, <1>3, <1>4

\* Time only makes older what a claim decides on; the clock is not set back meanwhile.
LEMMA ClockFence ==
  ASSUME TypeOK, ExclInv, FenceInv, TypeOK', Tick \/ StepBack
  PROVE  FenceInv'
<1>1. PICK d \in {1, -1} : Clock(d) /\ (d = 1 \/ \A a \in Approval : lock[a] = Free)
  BY DEF Tick, StepBack
<1>2. ASSUME NEW w \in Worker, Deciding(me[w]) PROVE Kept(me[w].job)
  <2> DEFINE a == me[w].job
             r == rec[a]
  <2>1. a \in Approval /\ lock[a] # Free
    BY <1>2, DecidingJob
  <2>2. d = 1
    BY <1>1, <2>1
  <2>3. r \in Records /\ rec'[a] = Aged(r, 1) /\ rec'[a].state = r.state
    BY <1>1, <2>1, <2>2, ClockStates DEF TypeOK
  <2> HIDE DEF r
  <2>4. r.age \in Int /\ (Aged(r, 1) = r \/ Aged(r, 1) = [r EXCEPT !.age = r.age] \/ Aged(r, 1) = [r EXCEPT !.age = r.age + 1])
    BY <2>3 DEF Aged, Records
  <2>5. Aged(r, 1).epoch = r.epoch /\ Aged(r, 1).route = r.route /\ Aged(r, 1).age >= r.age
    BY <2>3, <2>4 DEF Records
  <2> QED
    BY <2>3, <2>5 DEF Kept, r
<1>3. UNCHANGED <<config, history>>
  BY <1>1 DEF Clock
<1>4. \A w \in Worker : /\ me'[w].pc = me[w].pc /\ me'[w].job = me[w].job /\ me'[w].ver = me[w].ver
                        /\ me'[w].todo = me[w].todo /\ me'[w].seen.rec.state = me[w].seen.rec.state
                        /\ me'[w].seen.live = me[w].seen.live
  BY <1>1, ClockStates
<1> QED
  BY <1>2, <1>3, <1>4, FenceStay DEF history

\* What a timer, the provider or a taken-over lock does is nothing to a claim that decides.
LEMMA AroundFence ==
  ASSUME TypeOK, BoundInv, ExclInv, FenceInv, TypeOK', UNCHANGED <<me, history>>, config'.epoch = config.epoch,
         rec' = rec \/ \E w \in Worker : BeatLeave(w)
  PROVE  FenceInv'
<1>1. ASSUME NEW w \in Worker, Deciding(me[w]) PROVE Kept(me[w].job)
  <2> DEFINE a == me[w].job
  <2>1. a \in Approval /\ lock[a] = Main(w) /\ rec[a].age \in Int
    BY <1>1, DecidingJob
  <2>2. rec'[a] = rec[a]
    <3>1. ASSUME NEW v \in Worker, BeatLeave(v) PROVE rec'[a] = rec[a]
      <4>1. beat[v].job \in Approval /\ lock[beat[v].job] = Timer(v)
        BY <3>1 DEF BeatLeave, TypeOK, ExclInv
      <4>2. a # beat[v].job
        BY <2>1, <4>1, Threads2
      <4> QED
        BY <2>1, <3>1, <4>1, <4>2 DEF BeatLeave, Put, TypeOK
    <3> QED
      BY <3>1
  <2> QED
    BY <2>1, <2>2 DEF Kept
<1> QED
  BY <1>1, FenceStay DEF history

LEMMA FenceNext ==
  ASSUME TypeOK, BoundInv, ExclInv, FenceInv, TypeOK', [Next]_vars
  PROVE  FenceInv'
<1>r. Resting.pc \notin Sweeping /\ ~Deciding(Resting)
  BY DEF Resting, Sweeping, Deciding
<1>1. ASSUME NEW w \in Worker, Alone(w) PROVE FenceInv'
  <2>1. PICK mine : me' = [me EXCEPT ![w] = mine] /\ mine.pc \notin Reading \cup Sweeping \cup {"mark"}
    BY <1>1 DEF Alone
  <2>2. ~Deciding(mine) /\ mine.pc \notin Sweeping
    BY <2>1 DEF Deciding, Reading
  <2> QED
    BY <1>1, <2>1, <2>2, FenceQuiet DEF Alone
<1>2. ASSUME NEW w \in Worker, PrepareCreate(w) PROVE FenceInv'
  <2> DEFINE a == me[w].job
  <2>1. a \in Approval /\ rec[a].state = "none"
    BY <1>2 DEF PrepareCreate, TypeOK, HasJob, BoundInv, MemoryOK, Preparing
  <2>2. me' = [me EXCEPT ![w] = Resting] /\ UNCHANGED <<config, history>> /\ \A b \in Approval : b # a => rec'[b] = rec[b]
    BY <1>2, <2>1 DEF PrepareCreate, TypeOK
  <2> QED
    BY <1>r, <2>1, <2>2, FenceQuiet
<1>3. ASSUME NEW w \in Worker, Crash(w) PROVE FenceInv'
  BY <1>3, <1>r, FenceQuiet DEF Crash
<1>4. ASSUME NEW w \in Worker, BeatEnter(w) \/ BeatLeave(w) PROVE FenceInv'
  <2>1. UNCHANGED <<me, config, history>> /\ (rec' = rec \/ BeatLeave(w))
    BY <1>4 DEF BeatEnter, BeatLeave
  <2> QED
    BY <2>1, AroundFence
<1>5. ASSUME NEW a \in Approval, ProviderAccepts(a) \/ TakeOver(a) PROVE FenceInv'
  <2>1. UNCHANGED <<rec, me, config, history>>
    BY <1>5 DEF ProviderAccepts, TakeOver, disk
  <2> QED
    BY <2>1, AroundFence
<1>6. ASSUME UNCHANGED <<disk, accepted, me, beat, history>>, config'.epoch = config.epoch PROVE FenceInv'
  BY <1>6, AroundFence DEF disk
<1> QED
  BY <1>1, <1>2, <1>3, <1>4, <1>5, <1>6, StepForms, IntoFence, OutFence, OwnFence, ClockFence

LEMMA InitFence == Init => FenceInv
<1> SUFFICES ASSUME Init PROVE FenceInv
  OBVIOUS
<1>1. Resting.pc \notin Sweeping /\ ~Deciding(Resting)
  BY DEF Resting, Sweeping, Deciding
<1> QED
  BY <1>1 DEF Init, FenceInv

\* Whatever starts sending was being decided on.
LEMMA StartsSending ==
  ASSUME TypeOK, BoundInv, ExclInv, [Next]_vars, NEW a \in Approval,
         rec[a].state # "sending", rec'[a].state = "sending"
  PROVE  \E w \in Worker : Deciding(me[w]) /\ me[w].job = a
<1>1. ASSUME rec' = rec PROVE FALSE
  BY <1>1
<1>2. ASSUME NEW w \in Worker, \/ Alone(w) \/ Into(w) \/ SweepList(w) \/ SweepEnd(w)
                               \/ (\E b \in Approval : SweepMiss(w, b)) \/ (\E p \in Policies : SetPolicy(w, p))
                               \/ BeatEnter(w) \/ Crash(w)
      PROVE  rec' = rec
  BY <1>2 DEF Alone, Into, Enter, SweepList, SweepEnd, SweepMiss, SetPolicy, BeatEnter, Crash, Only, disk
<1>3. ASSUME NEW b \in Approval, ProviderAccepts(b) \/ TakeOver(b) PROVE rec' = rec
  BY <1>3 DEF ProviderAccepts, TakeOver, disk
<1>4. ASSUME UNCHANGED <<disk, accepted, me, beat, history>> PROVE rec' = rec
  BY <1>4 DEF disk
<1>5. ASSUME Tick \/ StepBack PROVE FALSE
  <2>1. Clock(1) \/ Clock(-1)
    BY <1>5 DEF Tick, StepBack
  <2> QED
    BY <2>1, ClockStates
<1>6. ASSUME NEW w \in Worker, PrepareCreate(w) PROVE FALSE
  <2>1. me[w].job \in Approval /\ me[w].seen.rec \in Records
    BY <1>6 DEF PrepareCreate, TypeOK, HasJob, Memories, Seen
  <2>2. PICK route : rec' = [rec EXCEPT ![me[w].job] = [me[w].seen.rec EXCEPT !.state = "pending", !.route = route]]
    BY <1>6 DEF PrepareCreate
  <2>3. rec'[a].state \in {"pending", rec[a].state}
    BY <2>1, <2>2 DEF TypeOK, Records
  <2> QED
    BY <2>3
<1>7. ASSUME NEW w \in Worker, BeatLeave(w) PROVE FALSE
  <2> DEFINE r == beat[w].seen.rec
             q == Renew(r)
  <2>1. beat[w].job \in Approval /\ Ahead(rec[beat[w].job].state, r.state) /\ r \in Records
    BY <1>7 DEF BeatLeave, TypeOK, ExclInv, Beats, Seen
  <2>2. q.state = r.state
    BY <2>1, Decisions
  <2>3. rec' = rec \/ rec' = [rec EXCEPT ![beat[w].job] = q]
    BY <1>7 DEF BeatLeave, Put
  <2> HIDE DEF q
  <2>4. beat[w].job = a /\ r.state = "sending"
    BY <2>1, <2>2, <2>3 DEF TypeOK
  <2> QED
    BY <2>1, <2>4 DEF Ahead
<1>8. ASSUME NEW w \in Worker, Out(w) PROVE Deciding(me[w]) /\ me[w].job = a
  <2> DEFINE r == me[w].seen.rec
  <2>1. PICK next \in Records :
          \E mine : /\ Leave(w, next, mine)
                    /\ me[w].pc \in Reading /\ Decides(me[w].pc, r.state, next.state)
    BY <1>8 DEF Out
  <2>2. me[w].job \in Approval /\ Ahead(rec[me[w].job].state, r.state)
    BY <2>1 DEF TypeOK, HasJob, Reading, ExclInv
  <2>3. rec' = rec \/ rec' = [rec EXCEPT ![me[w].job] = next]
    BY <2>1 DEF Leave, Put
  <2>4. me[w].job = a /\ next.state = "sending"
    BY <2>2, <2>3 DEF TypeOK
  <2>5. r.state # "sending"
    BY <2>2, <2>4 DEF Ahead
  <2> QED
    BY <2>1, <2>4, <2>5 DEF Decides, Deciding
<1> QED
  BY <1>1, <1>2, <1>3, <1>4, <1>5, <1>6, <1>7, <1>8, StepForms

\* Once a sweep has ended, nothing of an earlier epoch starts sending, for any number of
\* approvals, processes and sweeps, whatever crashes in between, unless the sweep reported it
\* or its deadline passed while its claim was deciding; as long as no live holder's lock is
\* taken over (sweepFencedOwners, claimForSend).
THEOREM FenceKeeps == Spec /\ Exclusive => FenceHolds
<1>1. TypeOK /\ BoundInv /\ ExclInv /\ FenceInv /\ [Next]_vars
        => [\A a \in Approval :
              rec[a].state # "sending" /\ rec'[a].state = "sending"
                => \/ rec[a].epoch >= fenced
                   \/ a \in missed
                   \/ rec[a].age >= Life(rec[a])]_vars
  <2> SUFFICES ASSUME TypeOK, BoundInv, ExclInv, FenceInv, [Next]_vars, NEW a \in Approval,
                      rec[a].state # "sending", rec'[a].state = "sending"
               PROVE  \/ rec[a].epoch >= fenced
                      \/ a \in missed
                      \/ rec[a].age >= Life(rec[a])
    OBVIOUS
  <2>1. PICK w \in Worker : Deciding(me[w]) /\ me[w].job = a
    BY StartsSending
  <2>2. rec[a].epoch = me[w].seen.live.epoch /\ (fenced <= me[w].seen.live.epoch \/ Excepted(a))
    BY <2>1 DEF FenceInv
  <2>3. fenced \in Nat /\ rec[a].epoch \in Nat
    BY DEF TypeOK, Records
  <2> QED
    BY <2>2, <2>3 DEF Excepted, Spares
<1>2. TypeOK /\ TypeOK' /\ BoundInv /\ ExclInv /\ FenceInv /\ [Next]_vars => FenceInv'
  BY FenceNext
<1>3. Exclusive' <=> Exclusive
  BY DEF Exclusive
<1> QED
  BY <1>1, <1>2, <1>3, InitFence, ExclInvHolds, BoundInvHolds, TypeCorrect, PTL DEF Spec, FenceHolds

\* An approval that ended unspent, was used or failed stays so, and no mail goes out under it any more,
\* whoever holds what in memory (#transition, complete); as long as no live holder's lock is taken over.
EndIsFinal ==
  [][\A a \in Approval : Phase(rec[a]) \in {"closed", "used", "failed"} =>
       Phase(rec'[a]) = Phase(rec[a]) /\ accepted'[a] = accepted[a]]_vars

\* That is what SingleUse promises, which the gate implements (#transition).
THEOREM EndIsFinalHolds == Spec /\ Exclusive => EndIsFinal
<1> DEFINE Final == \A a \in Approval : Phase(rec[a]) \in {"closed", "used", "failed"} =>
                      Phase(rec'[a]) = Phase(rec[a]) /\ accepted'[a] = accepted[a]
<1>1. TypeOK /\ [Promise!Next]_<<[a \in Approval |-> Phase(rec[a])], accepted>> => Final
  <2> SUFFICES ASSUME TypeOK, [Promise!Next]_<<Phases, accepted>>, NEW a \in Approval, Phase(rec[a]) \in {"closed", "used", "failed"}
               PROVE  Phase(rec'[a]) = Phase(rec[a]) /\ accepted'[a] = accepted[a]
    BY DEF Phases
  <2>1. DOMAIN accepted = Approval /\ DOMAIN Phases = Approval /\ Phases[a] = Phase(rec[a]) /\ Phases'[a] = Phase(rec'[a])
    BY DEF TypeOK, Phases
  <2>2. ASSUME NEW b \in Approval, NEW from, NEW to, Promise!Move(b, from, to), from \cap {"closed", "used", "failed"} = {}
        PROVE  Phases' = [Phases EXCEPT ![b] = to] /\ accepted' = accepted /\ Phases[b] \in from
    BY <2>2 DEF Promise!Move, Phases
  <2>3. ASSUME NEW b \in Approval, NEW from, NEW to, Promise!Move(b, from, to), from \cap {"closed", "used", "failed"} = {}
        PROVE  Phases'[a] = Phases[a] /\ accepted'[a] = accepted[a]
    <3>1. b # a
      BY <2>1, <2>2, <2>3
    <3> HIDE DEF Phases
    <3> QED
      BY <2>1, <2>2, <2>3, <3>1
  <2>4. ASSUME NEW b \in Approval, Promise!Mail(b)
        PROVE  Phases'[a] = Phases[a] /\ accepted'[a] = accepted[a]
    <3>1. Phases' = Phases /\ accepted' = [accepted EXCEPT ![b] = 1] /\ Phases[b] \in {"sending", "unknown"}
      BY <2>4 DEF Promise!Mail, Phases
    <3>2. b # a
      BY <2>1, <3>1
    <3> QED
      BY <2>1, <3>1, <3>2
  <2>5. CASE UNCHANGED <<Phases, accepted>>
    BY <2>1, <2>5
  <2>6. ASSUME NEW b \in Approval,
               Promise!Prepare(b) \/ Promise!Close(b) \/ Promise!Spend(b) \/ Promise!Lose(b) \/ Promise!Use(b) \/ Promise!Fail(b)
        PROVE  Phases'[a] = Phases[a] /\ accepted'[a] = accepted[a]
    BY <2>3, <2>6 DEF Promise!Prepare, Promise!Close, Promise!Spend, Promise!Lose, Promise!Use, Promise!Fail
  <2> QED
    BY <2>1, <2>4, <2>5, <2>6 DEF Promise!Next
<1>2. TypeOK /\ [Promise!Next]_<<[a \in Approval |-> Phase(rec[a])], accepted>> => [Final]_vars
  BY <1>1
<1> QED
  BY <1>2, PromiseKept, TypeCorrect, PTL DEF KeepsPromise, Promise!Spec, EndIsFinal

=============================================================================
