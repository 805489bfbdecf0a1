------------------------ MODULE DeliveryClaim_proofs ------------------------
(***************************************************************************)
(* What holds of DeliveryClaim for every set of deliveries and calls and     *)
(* every value of the times and limits: its types, its safety invariants,     *)
(* and that it implements OrderedDelivery.                                    *)
(***************************************************************************)
EXTENDS DeliveryClaim, FiniteSetTheorems, TLAPS

-----------------------------------------------------------------------------
(* Types *)

Row  == [state : States, record : BOOLEAN, gen : Nat, seq : Nat, expires : Int,
         next : Nat, attempts : Nat, lease : Nat, dead : Nat]
Call == [pc : Steps, job : Delivery \cup {"none"}, now : Nat, try : Nat, lease : Nat,
         gen : Nat, deadline : Int, phase : Nat, outcome : {"none", "success", "failure"}]

\* Ending, releasing and withdrawing a row gives a row.
LEMMA RowTypes ==
  ASSUME NEW r \in Row
  PROVE  /\ \A s \in States : End(r, s) \in Row
         /\ Release(r) \in Row /\ Withdraw(r) \in Row
  BY DEF Row, States, Live, Dropped, End, Release, Withdraw

\* So do the settlement and a shorter retention.
LEMMA SettledType ==
  ASSUME NEW r \in Row, NEW c \in Call, NEW wait \in Nat, clock \in Nat
  PROVE  Settled(r, c, wait) \in Row
<1>1. DeadRetention \in Nat
  BY TimeAssumption
<1>2. /\ End(r, "retention-expired") \in Row /\ End(r, "cancelled") \in Row
      /\ End(r, "in-flight") \in Row /\ End(r, "delivered") \in Row
  BY RowTypes DEF States, Dropped
<1>3. ASSUME NEW t \in Nat
      PROVE  /\ [r EXCEPT !.state = "dead-lettered", !.lease = 0, !.next = 0, !.dead = t] \in Row
             /\ [r EXCEPT !.state = "retryable", !.lease = 0, !.next = t] \in Row
  BY DEF Row, States, Live
<1>4. (IF r.dead = 0 THEN clock + DeadRetention ELSE r.dead) \in Nat /\ clock + wait \in Nat
  BY <1>1 DEF Row
<1> QED
  BY <1>2, <1>3, <1>4 DEF Settled

LEMMA SoonerType ==
  ASSUME NEW r \in Row, clock \in Nat
  PROVE  Sooner(r) \in Row
<1>1. ASSUME NEW t \in Int
      PROVE  /\ [r EXCEPT !.expires = t] \in Row
             /\ [r EXCEPT !.expires = t, !.state = "retention-expired", !.record = FALSE, !.lease = 0] \in Row
  BY DEF Row, States, Dropped
<1>2. r.expires - 1 \in Int
  BY DEF Row
<1> QED
  BY <1>1, <1>2 DEF Sooner

LEMMA RestingType == Resting \in Call /\ Resting.pc = "idle"
  BY DEF Resting, Call, Steps

LEMMA AllWithdrawnType ==
  ASSUME row \in [Delivery -> Row]
  PROVE  AllWithdrawn \in [Delivery -> Row]
  BY RowTypes DEF AllWithdrawn

\* Releasing and cancelling a claim leave rows.
LEMMA ClaimRowTypes ==
  ASSUME row \in [Delivery -> Row], NEW c \in Call, c.job \in Delivery
  PROVE  /\ Released(c) \in [Delivery -> Row]
         /\ Cancelled(c) \in [Delivery -> Row]
         /\ AfterGate(c) \in [Delivery -> Row]
<1>1. Release(row[c.job]) \in Row /\ End(row[c.job], "cancelled") \in Row
  BY RowTypes DEF States, Dropped
<1> QED
  BY <1>1 DEF Released, Cancelled, AfterGate
-----------------------------------------------------------------------------
(* Type correctness *)

\* TypeOK in terms of Row and Call.
LEMMA TypeParts ==
  TypeOK <=>
    /\ clock \in Nat
    /\ switch \in [enabled : BOOLEAN, paused : BOOLEAN, gen : Nat]
    /\ lineage \in BOOLEAN /\ account \in BOOLEAN /\ barrier \in {"open", "closed"}
    /\ row \in [Delivery -> Row]
    /\ counter \in Nat
    /\ charge \in [Delivery -> Int]
    /\ call \in [Worker -> Call]
    /\ \A w \in Worker : call[w].pc # "idle" => call[w].job \in Delivery
    /\ written \in [Delivery -> Nat]
    /\ taken \in [Delivery -> SUBSET Nat]
  BY DEF TypeOK, Row, Call

\* What a call may become without touching anything but rows, and what rows it leaves.
LEMMA CallTypes ==
  ASSUME call \in [Worker -> Call], NEW w \in Worker, NEW m \in Call,
         \A v \in Worker : call[v].pc # "idle" => call[v].job \in Delivery,
         m.pc # "idle" => m.job \in Delivery,
         call' = [call EXCEPT ![w] = m]
  PROVE  /\ call' \in [Worker -> Call]
         /\ \A v \in Worker : call'[v].pc # "idle" => call'[v].job \in Delivery
  OBVIOUS

\* What a granted claim makes of its call and of its row.
GrantedCall(c, n, u, g, x) ==
  [c EXCEPT !.pc = "open", !.now = 0, !.try = n, !.lease = u, !.gen = g, !.deadline = x]
GrantedRow(r, n, u) == [r EXCEPT !.state = "disclosing", !.attempts = n, !.lease = u]

LEMMA GrantTypes ==
  ASSUME NEW c \in Call, NEW r \in Row, NEW n \in Nat, NEW u \in Nat, NEW g \in Nat, NEW x \in Int
  PROVE  /\ GrantedCall(c, n, u, g, x) \in Call /\ GrantedCall(c, n, u, g, x).job = c.job
         /\ GrantedRow(r, n, u) \in Row
  BY DEF GrantedCall, GrantedRow, Row, Call, States, Live, Steps

\* The call w goes on as some call.
Becomes(w) == \E m \in Call : (m.pc # "idle" => m.job \in Delivery) /\ call' = [call EXCEPT ![w] = m]

\* A call goes on and rows may change; the rest stays.
LEMMA WorkerStepTypes ==
  ASSUME TypeOK, NEW w \in Worker, Becomes(w),
         row' \in [Delivery -> Row],
         UNCHANGED <<clock, authority, counter>>,
         charge' \in [Delivery -> Int], written' \in [Delivery -> Nat],
         taken' \in [Delivery -> SUBSET Nat]
  PROVE  TypeOK'
<1>1. /\ call' \in [Worker -> Call]
      /\ \A v \in Worker : call'[v].pc # "idle" => call'[v].job \in Delivery
  BY CallTypes, TypeParts DEF Becomes
<1> QED
  BY <1>1, TypeParts DEF authority, TypeOK, Row, Call

\* Everything the dispatcher's calls do keeps the types.
LEMMA WorkTypes ==
  ASSUME TypeOK, NEW w \in Worker, Work(w)
  PROVE  TypeOK'
<1> DEFINE c == call[w]
<1>1. /\ c \in Call /\ clock \in Nat /\ row \in [Delivery -> Row] /\ counter \in Nat
      /\ charge \in [Delivery -> Int] /\ written \in [Delivery -> Nat]
      /\ taken \in [Delivery -> SUBSET Nat]
      /\ call \in [Worker -> Call]
      /\ c.pc # "idle" => c.job \in Delivery
  BY TypeParts
<1>2. /\ Resting \in Call /\ Resting.pc = "idle"
      /\ AllWithdrawn \in [Delivery -> Row]
      /\ c.job \in Delivery => /\ Released(c) \in [Delivery -> Row]
                               /\ Cancelled(c) \in [Delivery -> Row]
                               /\ AfterGate(c) \in [Delivery -> Row]
  BY <1>1, RestingType, AllWithdrawnType, ClaimRowTypes
<1>3. CASE Preflight(w)
  <2>1. [c EXCEPT !.pc = "claim"] \in Call /\ [c EXCEPT !.pc = "claim"].job = c.job
    BY <1>1 DEF Steps, Call
  <2>2. row' \in [Delivery -> Row]
    BY <1>1, <1>2, <1>3 DEF Preflight
  <2>3. call' = [call EXCEPT ![w] = [c EXCEPT !.pc = "claim"]] \/ call' = [call EXCEPT ![w] = Resting]
    BY <1>1, <1>3 DEF Preflight, Goto, Return
  <2>4. c.job \in Delivery
    BY <1>1, <1>3 DEF Preflight, At
  <2>5. Becomes(w)
    BY <1>2, <2>1, <2>3, <2>4 DEF Becomes
  <2> QED
    BY <1>1, <1>3, <2>2, <2>5, WorkerStepTypes DEF Preflight, peer
<1>4. CASE ClaimGranted(w)
  <2> DEFINE d     == c.job
             until == c.now + LeaseTime
             n     == row[d].attempts + 1
             r     == GrantedRow(row[d], n, until)
             m     == GrantedCall(c, n, until, row[d].gen, Deadline(until))
  <2>1. d \in Delivery /\ row[d] \in Row /\ n \in Nat /\ row[d].gen \in Nat
    BY <1>1, <1>4 DEF ClaimGranted, At, Row
  <2>2. until \in Nat /\ Deadline(until) \in Int
    BY <1>1, TimeAssumption DEF Deadline, Call
  <2>3. c.now \in Nat
    BY <1>1 DEF Call
  <2>4. r \in Row /\ m \in Call /\ m.job = d
    <3>1. c \in Call /\ row[d] \in Row /\ n \in Nat /\ until \in Nat /\ row[d].gen \in Nat /\ Deadline(until) \in Int
      BY <1>1, <2>1, <2>2
    <3>2. r \in Row
      BY <3>1, GrantTypes
    <3>3. m \in Call
      BY <3>1, GrantTypes
    <3>4. m.job = d
      BY <3>1 DEF GrantedCall, Call
    <3> QED
      BY <3>2, <3>3, <3>4
  <2>5. row' = [row EXCEPT ![d] = r] /\ call' = [call EXCEPT ![w] = m]
    BY <1>4 DEF ClaimGranted, GrantedCall, GrantedRow
  <2>6. charge' \in [Delivery -> Int]
    BY <1>1, <1>4, <2>1, <2>3 DEF ClaimGranted
  <2>7. row' \in [Delivery -> Row]
    BY <1>1, <2>4, <2>5
  <2>8. Becomes(w)
    BY <2>1, <2>4, <2>5 DEF Becomes
  <2> QED
    BY <1>1, <1>4, <2>6, <2>7, <2>8, WorkerStepTypes DEF ClaimGranted, peer
<1>5. CASE ClaimRefused(w)
  <2>1. c.job \in Delivery
    BY <1>1, <1>5 DEF ClaimRefused, At
  <2>2. End(row[c.job], "retention-expired") \in Row
    BY <1>1, <2>1, RowTypes DEF States, Dropped
  <2>3. row' \in [Delivery -> Row]
    BY <1>1, <1>5, <2>1, <2>2 DEF ClaimRefused
  <2>4. Becomes(w)
    BY <1>2, <1>5 DEF Becomes, ClaimRefused, Return
  <2> QED
    BY <1>1, <1>5, <2>3, <2>4, WorkerStepTypes DEF ClaimRefused, peer
<1>6. CASE Open(w)
  <2>1. /\ [c EXCEPT !.pc = "prepare", !.phase = 1] \in Call
        /\ [c EXCEPT !.pc = "prepare", !.phase = 1].job = c.job
    BY <1>1 DEF Steps, Call
  <2>2. row' \in [Delivery -> Row]
    BY <1>1, <1>2, <1>6 DEF Open, At
  <2>3. \/ call' = [call EXCEPT ![w] = [c EXCEPT !.pc = "prepare", !.phase = 1]]
        \/ call' = [call EXCEPT ![w] = Resting]
    BY <1>1, <1>6 DEF Open, Return
  <2>4. c.job \in Delivery
    BY <1>1, <1>6 DEF Open, At
  <2>5. Becomes(w)
    BY <1>2, <2>1, <2>3, <2>4 DEF Becomes
  <2> QED
    BY <1>1, <1>6, <2>2, <2>5, WorkerStepTypes DEF Open, peer
<1>7. CASE Prepare(w)
  <2>1. ASSUME NEW pc \in {"list", "final"}
        PROVE  [c EXCEPT !.pc = pc] \in Call /\ [c EXCEPT !.pc = pc].job = c.job
    BY <1>1 DEF Steps, Call
  <2>2. row' \in [Delivery -> Row]
    BY <1>1, <1>2, <1>7 DEF Prepare, At
  <2>3. \/ \E pc \in {"list", "final"} : call' = [call EXCEPT ![w] = [c EXCEPT !.pc = pc]]
        \/ call' = [call EXCEPT ![w] = Resting]
    BY <1>1, <1>7 DEF Prepare, Goto, Return
  <2>4. c.job \in Delivery
    BY <1>1, <1>7 DEF Prepare, At
  <2>5. Becomes(w)
    BY <1>2, <2>1, <2>3, <2>4 DEF Becomes
  <2> QED
    BY <1>1, <1>7, <2>2, <2>5, WorkerStepTypes DEF Prepare, peer
<1>8. CASE ChatList(w)
  <2>1. [c EXCEPT !.pc = "final"] \in Call /\ [c EXCEPT !.pc = "final"].job = c.job
    BY <1>1 DEF Steps, Call
  <2>2. row' \in [Delivery -> Row]
    BY <1>1, <1>2, <1>8 DEF ChatList, At
  <2>3. call' = [call EXCEPT ![w] = [c EXCEPT !.pc = "final"]] \/ call' = [call EXCEPT ![w] = Resting]
    BY <1>1, <1>8 DEF ChatList, Goto, Return
  <2>4. c.job \in Delivery
    BY <1>1, <1>8 DEF ChatList, At
  <2>5. Becomes(w)
    BY <1>2, <2>1, <2>3, <2>4 DEF Becomes
  <2> QED
    BY <1>1, <1>8, <2>2, <2>5, WorkerStepTypes DEF ChatList, peer
<1>9. CASE Gate(w)
  <2>1. ASSUME NEW pc \in {"net", "response"}
        PROVE  [c EXCEPT !.pc = pc] \in Call /\ [c EXCEPT !.pc = pc].job = c.job
    BY <1>1 DEF Steps, Call
  <2>2. row' \in [Delivery -> Row]
    BY <1>1, <1>2, <1>9 DEF Gate, At
  <2>3. \/ \E pc \in {"net", "response"} : call' = [call EXCEPT ![w] = [c EXCEPT !.pc = pc]]
        \/ call' = [call EXCEPT ![w] = Resting]
    BY <1>1, <1>9 DEF Gate, Goto, Return
  <2>4. c.job \in Delivery
    BY <1>1, <1>9 DEF Gate, At
  <2>5. written' \in [Delivery -> Nat]
    BY <1>1, <1>9, <2>4 DEF Gate, Call
  <2>6. Becomes(w)
    BY <1>2, <2>1, <2>3, <2>4 DEF Becomes
  <2> QED
    BY <1>1, <1>9, <2>2, <2>5, <2>6, WorkerStepTypes DEF Gate
<1>10. CASE Connected(w)
  <2>1. c.phase + 1 \in Nat
    BY <1>1 DEF Call
  <2>2. ASSUME NEW n \in Nat
        PROVE  [c EXCEPT !.pc = "prepare", !.phase = n] \in Call /\ [c EXCEPT !.pc = "prepare", !.phase = n].job = c.job
    BY <1>1 DEF Steps, Call
  <2>3. call' = [call EXCEPT ![w] = [c EXCEPT !.pc = "prepare", !.phase = c.phase + 1]]
    BY <1>1, <1>10 DEF Connected
  <2>4. c.job \in Delivery
    BY <1>1, <1>10 DEF Connected, At
  <2>5. Becomes(w)
    BY <2>1, <2>2, <2>3, <2>4 DEF Becomes
  <2> QED
    BY <1>1, <1>10, <2>5, WorkerStepTypes DEF Connected, store, peer
<1>11. CASE ConnectFails(w)
  <2>1. Becomes(w)
    BY <1>2, <1>11 DEF Becomes, ConnectFails, Return
  <2> QED
    BY <1>1, <1>11, <2>1, WorkerStepTypes DEF ConnectFails, store, peer
<1>12. CASE AnsweredYes(w)
  <2>1. /\ [c EXCEPT !.pc = "answered", !.outcome = "success"] \in Call
        /\ [c EXCEPT !.pc = "answered", !.outcome = "success"].job = c.job
    BY <1>1 DEF Steps, Call
  <2>2. call' = [call EXCEPT ![w] = [c EXCEPT !.pc = "answered", !.outcome = "success"]]
    BY <1>1, <1>12 DEF AnsweredYes
  <2>3. c.job \in Delivery /\ c.try \in Nat
    BY <1>1, <1>12 DEF AnsweredYes, At, Call
  <2>4. taken' \in [Delivery -> SUBSET Nat]
    BY <1>1, <1>12, <2>3 DEF AnsweredYes
  <2>5. Becomes(w)
    BY <2>1, <2>2, <2>3 DEF Becomes
  <2> QED
    BY <1>1, <1>12, <2>4, <2>5, WorkerStepTypes DEF AnsweredYes, store
<1>13. CASE AnsweredNo(w)
  <2>1. /\ [c EXCEPT !.pc = "answered", !.outcome = "failure"] \in Call
        /\ [c EXCEPT !.pc = "answered", !.outcome = "failure"].job = c.job
    BY <1>1 DEF Steps, Call
  <2>2. call' = [call EXCEPT ![w] = [c EXCEPT !.pc = "answered", !.outcome = "failure"]]
    BY <1>1, <1>13 DEF AnsweredNo
  <2>3. c.job \in Delivery
    BY <1>1, <1>13 DEF AnsweredNo, At
  <2>4. Becomes(w)
    BY <2>1, <2>2, <2>3 DEF Becomes
  <2> QED
    BY <1>1, <1>13, <2>4, WorkerStepTypes DEF AnsweredNo, store, peer
<1>14. CASE SettleReads(w)
  <2>1. [c EXCEPT !.pc = "settle"] \in Call /\ [c EXCEPT !.pc = "settle"].job = c.job
    BY <1>1 DEF Steps, Call
  <2>2. row' \in [Delivery -> Row]
    BY <1>1, <1>2, <1>14 DEF SettleReads, At
  <2>3. call' = [call EXCEPT ![w] = [c EXCEPT !.pc = "settle"]] \/ call' = [call EXCEPT ![w] = Resting]
    BY <1>1, <1>14 DEF SettleReads, Goto, Return
  <2>4. c.job \in Delivery
    BY <1>1, <1>14 DEF SettleReads, At
  <2>5. Becomes(w)
    BY <1>2, <2>1, <2>3, <2>4 DEF Becomes
  <2> QED
    BY <1>1, <1>14, <2>2, <2>5, WorkerStepTypes DEF SettleReads, peer
<1>15. CASE Settle(w)
  <2>1. c.job \in Delivery /\ row[c.job] \in Row
    BY <1>1, <1>15 DEF Settle, At
  <2>2. \A wait \in 1..MaxBackoff : Settled(row[c.job], c, wait) \in Row
    BY <1>1, <2>1, SettledType, TimeAssumption
  <2>3. row' \in [Delivery -> Row]
    BY <1>1, <1>15, <2>1, <2>2 DEF Settle
  <2>4. Becomes(w)
    BY <1>2, <1>15 DEF Becomes, Settle, Return
  <2> QED
    BY <1>1, <1>15, <2>3, <2>4, WorkerStepTypes DEF Settle, peer
<1> QED
  BY <1>3, <1>4, <1>5, <1>6, <1>7, <1>8, <1>9, <1>10, <1>11, <1>12, <1>13, <1>14, <1>15 DEF Work

\* So does everything around the dispatcher.
LEMMA AroundTypes ==
  ASSUME TypeOK,
         \/ \E w \in Worker, d \in Delivery : Start(w, d)
         \/ \E d \in Delivery : NewDelivery(d) \/ RetryNow(d) \/ Drop(d)
         \/ Sweep \/ PurgeRemoved \/ RemoveAccount \/ SetPaused \/ DisableAll \/ EnableAll
         \/ Revoke \/ Reset \/ Tighten \/ Crash \/ Tick
  PROVE  TypeOK'
<1>1. /\ row \in [Delivery -> Row] /\ call \in [Worker -> Call] /\ clock \in Nat /\ counter \in Nat
      /\ switch \in [enabled : BOOLEAN, paused : BOOLEAN, gen : Nat]
      /\ AllWithdrawn \in [Delivery -> Row]
  BY TypeParts, AllWithdrawnType
<1>2. ASSUME row' \in [Delivery -> Row], counter' \in Nat,
             UNCHANGED <<clock, authority, charge, call, peer>>
      PROVE  TypeOK'
  BY <1>2, TypeParts DEF TypeOK, Row, Call, authority, peer
<1>3. ASSUME switch' \in [enabled : BOOLEAN, paused : BOOLEAN, gen : Nat],
             lineage' \in BOOLEAN, account' \in BOOLEAN, barrier' \in {"open", "closed"},
             row' \in [Delivery -> Row],
             UNCHANGED <<clock, counter, charge, call, peer>>
      PROVE  TypeOK'
  BY <1>3, TypeParts DEF TypeOK, Row, Call, peer
<1>4. ASSUME NEW w \in Worker, NEW d \in Delivery, Start(w, d)
      PROVE  TypeOK'
  <2> DEFINE m == [Resting EXCEPT !.pc = "preflight", !.job = d, !.now = clock]
  <2>1. m \in Call /\ m.job \in Delivery
    BY <1>1, RestingType DEF Call, Steps, Resting
  <2>2. Becomes(w)
    BY <1>4, <2>1 DEF Becomes, Start
  <2> QED
    BY <1>1, <1>4, <2>2, TypeParts, WorkerStepTypes DEF Start, store, peer
<1>5. ASSUME NEW d \in Delivery, NewDelivery(d)
      PROVE  TypeOK'
  <2>1. ASSUME NEW g \in Nat, NEW s \in Nat, NEW x \in Int
        PROVE  [NoRow EXCEPT !.state = "queued", !.record = TRUE, !.gen = g, !.seq = s, !.expires = x] \in Row
    BY DEF NoRow, Row, States, Live
  <2>2. switch.gen \in Nat /\ clock + Retention \in Int /\ counter + 1 \in Nat
    BY <1>1, TimeAssumption
  <2>3. [NoRow EXCEPT !.state = "queued", !.record = TRUE, !.gen = switch.gen, !.seq = counter,
                      !.expires = clock + Retention] \in Row
    BY <1>1, <2>1, <2>2
  <2>4. row' \in [Delivery -> Row] /\ counter' \in Nat
    BY <1>1, <1>5, <2>2, <2>3 DEF NewDelivery
  <2> QED
    BY <1>2, <1>5, <2>4 DEF NewDelivery
<1>6. ASSUME NEW d \in Delivery, RetryNow(d)
      PROVE  TypeOK'
  <2>1. [row[d] EXCEPT !.next = clock] \in Row
    BY <1>1 DEF Row
  <2>2. row' \in [Delivery -> Row]
    BY <1>1, <1>6, <2>1 DEF RetryNow
  <2> QED
    BY <1>1, <1>2, <1>6, <2>2 DEF RetryNow
<1>7. ASSUME NEW d \in Delivery, Drop(d)
      PROVE  TypeOK'
  <2>1. row' \in [Delivery -> Row]
    BY <1>1, <1>7, RowTypes DEF Drop
  <2> QED
    BY <1>1, <1>2, <1>7, <2>1 DEF Drop
<1>8. CASE Sweep
  <2>1. \A d \in Delivery : End(row[d], "retention-expired") \in Row
    BY <1>1, RowTypes DEF States, Dropped
  <2>2. row' \in [Delivery -> Row]
    BY <1>1, <1>8, <2>1 DEF Sweep
  <2> QED
    BY <1>1, <1>2, <1>8, <2>2 DEF Sweep
<1>9. CASE PurgeRemoved
  BY <1>1, <1>2, <1>9 DEF PurgeRemoved
<1>10. CASE RemoveAccount \/ SetPaused \/ EnableAll \/ Reset
  <2>1. /\ lineage \in BOOLEAN /\ account \in BOOLEAN /\ barrier \in {"open", "closed"}
        /\ [switch EXCEPT !.paused = ~@] \in [enabled : BOOLEAN, paused : BOOLEAN, gen : Nat]
        /\ [switch EXCEPT !.enabled = TRUE] \in [enabled : BOOLEAN, paused : BOOLEAN, gen : Nat]
    BY <1>1, TypeParts
  <2> QED
    BY <1>1, <1>3, <1>10, <2>1 DEF RemoveAccount, SetPaused, EnableAll, Reset, store
<1>11. CASE DisableAll \/ Revoke
  <2>1. ASSUME NEW n \in Nat
        PROVE  [switch EXCEPT !.enabled = FALSE, !.gen = n] \in [enabled : BOOLEAN, paused : BOOLEAN, gen : Nat]
    BY <1>1
  <2>2. switch.gen + 1 \in Nat
    BY <1>1
  <2>3. /\ lineage \in BOOLEAN /\ account \in BOOLEAN /\ barrier \in {"open", "closed"}
        /\ [switch EXCEPT !.enabled = FALSE, !.gen = @ + 1] \in [enabled : BOOLEAN, paused : BOOLEAN, gen : Nat]
    BY <2>1, <2>2, TypeParts
  <2> QED
    BY <1>1, <1>3, <1>11, <2>3 DEF DisableAll, Revoke
<1>12. CASE Tighten
  <2>1. row' \in [Delivery -> Row]
    BY <1>1, <1>12, SoonerType DEF Tighten
  <2> QED
    BY <1>1, <1>2, <1>12, <2>1 DEF Tighten
<1>13. CASE Crash
  <2>1. call' \in [Worker -> Call] /\ \A w \in Worker : call'[w].pc = "idle"
    BY <1>13, RestingType DEF Crash
  <2> QED
    BY <1>13, <2>1, TypeParts DEF Crash, TypeOK, Row, Call, authority, store, peer
<1>14. CASE Tick
  <2>1. clock' \in Nat
    BY <1>1, <1>14 DEF Tick
  <2> QED
    BY <1>14, <2>1, TypeParts DEF Tick, TypeOK, Row, Call, authority, store, peer
<1> QED
  BY <1>4, <1>5, <1>6, <1>7, <1>8, <1>9, <1>10, <1>11, <1>12, <1>13, <1>14

\* Every variable keeps its type, for any deliveries and calls and any times and limits:
\* rows, claims and charges are only written in the shapes the code gives them.
THEOREM TypeCorrect == Spec => []TypeOK
<1>1. Init => TypeOK
  <2> SUFFICES ASSUME Init PROVE TypeOK
    OBVIOUS
  <2>1. NoRow \in Row
    BY DEF NoRow, Row, States
  <2>2. row \in [Delivery -> Row] /\ call \in [Worker -> Call] /\ \A w \in Worker : call[w].pc = "idle"
    BY <2>1, RestingType DEF Init
  <2> QED
    BY <2>2, TypeParts DEF Init, Uncharged
<1>2. TypeOK /\ [Next]_vars => TypeOK'
  <2> SUFFICES ASSUME TypeOK, [Next]_vars PROVE TypeOK'
    OBVIOUS
  <2>1. CASE UNCHANGED vars
    BY <2>1 DEF vars, authority, store, peer, TypeOK
  <2>2. CASE Next
    BY <2>2, WorkTypes, AroundTypes DEF Next
  <2> QED
    BY <2>1, <2>2
<1> QED
  BY <1>1, <1>2, PTL DEF Spec

-----------------------------------------------------------------------------
(* What a step of the daemon may be *)

\* A row stays, as far as its place, its claim and its content go, or ends undelivered,
\* or a dead letter loses its content.
Quiet(r, s) ==
  /\ s.seq = r.seq /\ s.attempts = r.attempts
  /\ \/ s.state = r.state /\ s.record = r.record /\ s.lease = r.lease
     \/ r.state \in Live /\ s.state \in Dropped /\ ~s.record
     \/ r.state = "dead-lettered" /\ s.state \in {"dead-lettered", "retention-expired"} /\ ~s.record

\* A call stays, ends, begins, or goes on with its claim.
Onward(c, m) ==
  \/ m = c \/ m = Resting
  \/ \E d \in Delivery : m = [Resting EXCEPT !.pc = "preflight", !.job = d, !.now = clock]
  \/ c.pc = "preflight" /\ m = [c EXCEPT !.pc = "claim"]
  \/ c.pc = "open" /\ m = [c EXCEPT !.pc = "prepare", !.phase = 1]
  \/ c.pc = "net" /\ ~Overdue /\ m = [c EXCEPT !.pc = "prepare", !.phase = @ + 1]
  \/ c.pc \in Unsent /\ \E pc \in Unsent : m = [c EXCEPT !.pc = pc]
  \/ c.pc = "response" /\ m = [c EXCEPT !.pc = "answered", !.outcome = "failure"]
  \/ c.pc = "answered" /\ m = [c EXCEPT !.pc = "settle"]

QuietStep ==
  /\ \A d \in Delivery : Quiet(row[d], row'[d])
  /\ \A w \in Worker : Onward(call[w], call'[w])
  /\ UNCHANGED <<clock, counter, charge, written, taken>>

\* The claim of w is given back.
ReleaseStep(w) ==
  /\ call[w].pc \in Unsent /\ IsCurrent(call[w])
  /\ row' = [row EXCEPT ![call[w].job] = Release(@)]
  /\ call' = [call EXCEPT ![w] = Resting]
  /\ UNCHANGED <<clock, counter, charge, written, taken>>

\* The request of w leaves.
WriteStep(w) ==
  /\ At(w, "final") /\ IsCurrent(call[w]) /\ Connects < call[w].phase
  /\ written' = [written EXCEPT ![call[w].job] = call[w].try]
  /\ call' = [call EXCEPT ![w].pc = "response"]
  /\ UNCHANGED <<clock, row, counter, charge, taken>>

LEMMA QuietRows ==
  ASSUME NEW r \in Row
  PROVE  /\ Quiet(r, r) /\ Quiet(r, Withdraw(r))
         /\ \A s \in Dropped : r.state \in Live => Quiet(r, End(r, s))
         /\ Due(r) => Quiet(r, End(r, "retention-expired"))
<1>1. Quiet(r, r)
  BY DEF Quiet
<1>2. Quiet(r, Withdraw(r))
  BY DEF Quiet, Withdraw, End, Row, Live, Dropped
<1>3. \A s \in Dropped : r.state \in Live => Quiet(r, End(r, s))
  BY DEF Quiet, End, Row
<1>4. Due(r) => Quiet(r, End(r, "retention-expired"))
  BY DEF Quiet, End, Row, Due, Dropped
<1> QED
  BY <1>1, <1>2, <1>3, <1>4

LEMMA SoonerQuiet ==
  ASSUME NEW r \in Row, r.state \in Live
  PROVE  Quiet(r, Sooner(r))
<1>1. ASSUME NEW t \in Int
      PROVE  /\ Quiet(r, [r EXCEPT !.expires = t])
             /\ Quiet(r, [r EXCEPT !.expires = t, !.state = "retention-expired", !.record = FALSE, !.lease = 0])
  BY DEF Quiet, Row, Dropped
<1>2. r.expires - 1 \in Int
  BY DEF Row
<1> QED
  BY <1>1, <1>2 DEF Sooner

\* A call w that goes on alone, with rows that stay or end, is a quiet step.
LEMMA QuietCall ==
  ASSUME TypeOK, NEW w \in Worker, NEW m,
         call' = [call EXCEPT ![w] = m], Onward(call[w], m),
         \A d \in Delivery : Quiet(row[d], row'[d]),
         UNCHANGED <<clock, counter, charge, written, taken>>
  PROVE  QuietStep
<1>1. \A v \in Worker : Onward(call[v], call'[v])
  BY TypeParts DEF Onward
<1> QED
  BY <1>1 DEF QuietStep

\* Rows a removed account's purge, a cancelled claim or nothing at all leaves.
LEMMA QuietFamilies ==
  ASSUME TypeOK
  PROVE  /\ \A d \in Delivery : Quiet(row[d], row[d])
         /\ \A d \in Delivery : Quiet(row[d], AllWithdrawn[d])
         /\ \A w \in Worker, d \in Delivery : call[w].job \in Delivery => Quiet(row[d], Cancelled(call[w])[d])
<1>1. \A d \in Delivery : row[d] \in Row
  BY TypeParts
<1>2. ASSUME NEW w \in Worker, NEW d \in Delivery, call[w].job \in Delivery
      PROVE  Quiet(row[d], Cancelled(call[w])[d])
  <2>1. CASE IsCurrent(call[w]) /\ d = call[w].job
    <3>1. row[d].state = "disclosing" /\ Cancelled(call[w])[d] = End(row[d], "cancelled")
      BY <2>1, TypeParts DEF IsCurrent, Cancelled
    <3> QED
      BY <1>1, <3>1, QuietRows DEF Live, Dropped
  <2>2. CASE ~(IsCurrent(call[w]) /\ d = call[w].job)
    <3>1. Cancelled(call[w])[d] = row[d]
      BY <2>2, TypeParts DEF Cancelled
    <3> QED
      BY <1>1, <3>1, QuietRows
  <2> QED
    BY <2>1, <2>2
<1> QED
  BY <1>1, <1>2, QuietRows DEF AllWithdrawn

\* A call that gives its claim back, if it still has it, returns.
LEMMA ReleaseForms ==
  ASSUME TypeOK, NEW w \in Worker, call[w].pc \in Unsent, call[w].job \in Delivery,
         row' = Released(call[w]), Return(w),
         UNCHANGED <<clock, counter, charge, written, taken>>
  PROVE  QuietStep \/ ReleaseStep(w)
<1>1. CASE IsCurrent(call[w])
  BY <1>1 DEF ReleaseStep, Released, Return
<1>2. CASE ~IsCurrent(call[w])
  <2>1. \A d \in Delivery : Quiet(row[d], row'[d])
    BY <1>2, QuietFamilies DEF Released
  <2>2. call' = [call EXCEPT ![w] = Resting] /\ Onward(call[w], Resting)
    BY DEF Return, Onward
  <2> QED
    BY <2>1, <2>2, QuietCall
<1> QED
  BY <1>1, <1>2

\* What a call does is a quiet step, or one of five that are not.
LEMMA WorkForms ==
  ASSUME TypeOK, NEW w \in Worker, Work(w)
  PROVE  QuietStep \/ ClaimGranted(w) \/ ReleaseStep(w) \/ WriteStep(w) \/ AnsweredYes(w) \/ Settle(w)
<1> DEFINE c == call[w]
<1>1. c \in Call /\ call \in [Worker -> Call] /\ row \in [Delivery -> Row] /\ (c.pc # "idle" => c.job \in Delivery)
  BY TypeParts
<1>2. ASSUME row' \in {row, AllWithdrawn}, Return(w), UNCHANGED <<clock, counter, charge, written, taken>>
      PROVE  QuietStep
  <2>1. \A d \in Delivery : Quiet(row[d], row'[d])
    BY <1>2, QuietFamilies
  <2>2. call' = [call EXCEPT ![w] = Resting] /\ Onward(c, Resting)
    BY <1>2 DEF Return, Onward
  <2> QED
    BY <1>2, <2>1, <2>2, QuietCall
<1>3. ASSUME NEW m, Onward(c, m), call' = [call EXCEPT ![w] = m],
             UNCHANGED <<clock, row, counter, charge, written, taken>>
      PROVE  QuietStep
  BY <1>3, QuietFamilies, QuietCall
<1>4. ASSUME c.pc \in Unsent, row' \in {row, Released(c)}, Return(w),
             UNCHANGED <<clock, counter, charge, written, taken>>
      PROVE  QuietStep \/ ReleaseStep(w)
  BY <1>1, <1>2, <1>4, ReleaseForms DEF Unsent
<1>5. ASSUME c.job \in Delivery, row' = Cancelled(c), Return(w),
             UNCHANGED <<clock, counter, charge, written, taken>>
      PROVE  QuietStep
  <2>1. \A d \in Delivery : Quiet(row[d], row'[d])
    BY <1>5, QuietFamilies
  <2>2. call' = [call EXCEPT ![w] = Resting] /\ Onward(c, Resting)
    BY <1>5 DEF Return, Onward
  <2> QED
    BY <1>5, <2>1, <2>2, QuietCall
<1>6. AfterGate(c) \in {row, Released(c)}
  BY DEF AfterGate
<1>7. CASE Preflight(w)
  <2>1. Onward(c, [c EXCEPT !.pc = "claim"])
    BY <1>7 DEF Onward, Preflight, At
  <2> QED
    BY <1>2, <1>3, <1>7, <2>1 DEF Preflight, Goto, peer
<1>8. CASE ClaimRefused(w)
  <2>1. c.job \in Delivery
    BY <1>1, <1>8 DEF ClaimRefused, At
  <2>2. \A d \in Delivery : Quiet(row[d], row'[d])
    BY <1>1, <1>8, <2>1, QuietRows DEF ClaimRefused, Dropped
  <2>3. call' = [call EXCEPT ![w] = Resting] /\ Onward(c, Resting)
    BY <1>8 DEF ClaimRefused, Return, Onward
  <2> QED
    BY <1>8, <2>2, <2>3, QuietCall DEF ClaimRefused, peer
<1>9. CASE Open(w)
  <2>1. Onward(c, [c EXCEPT !.pc = "prepare", !.phase = 1])
    BY <1>9 DEF Onward, Open, At
  <2>2. c.pc \in Unsent
    BY <1>9 DEF Open, At, Unsent
  <2> QED
    BY <1>3, <1>4, <1>9, <2>1, <2>2 DEF Open, peer
<1>10. CASE Prepare(w)
  <2>1. \A pc \in {"list", "final"} : Onward(c, [c EXCEPT !.pc = pc])
    BY <1>10 DEF Onward, Prepare, At, Unsent
  <2>2. c.pc \in Unsent
    BY <1>10 DEF Prepare, At, Unsent
  <2> QED
    BY <1>2, <1>3, <1>4, <1>6, <1>10, <2>1, <2>2 DEF Prepare, Goto, peer
<1>11. CASE ChatList(w)
  <2>1. Onward(c, [c EXCEPT !.pc = "final"])
    BY <1>11 DEF Onward, ChatList, At, Unsent
  <2>2. c.pc \in Unsent /\ c.job \in Delivery
    BY <1>1, <1>11 DEF ChatList, At, Unsent
  <2> QED
    BY <1>2, <1>3, <1>4, <1>5, <1>6, <1>11, <2>1, <2>2 DEF ChatList, Goto, peer
<1>12. CASE Gate(w)
  <2>1. Onward(c, [c EXCEPT !.pc = "net"])
    BY <1>12 DEF Onward, Gate, At, Unsent
  <2>2. c.pc \in Unsent /\ c.phase \in Nat
    BY <1>1, <1>12 DEF Gate, At, Unsent, Call
  <2>3. ASSUME GatePassed(c), Writes(c), written' = [written EXCEPT ![c.job] = c.try], Goto(w, "response"), UNCHANGED row
        PROVE  WriteStep(w)
    <3>1. Connects < c.phase /\ IsCurrent(c)
      BY <2>2, <2>3, LimitAssumption DEF Writes, GatePassed, GateOpen, Authorised
    <3> QED
      BY <1>12, <2>3, <3>1 DEF WriteStep, Gate, Goto
  <2> QED
    BY <1>3, <1>4, <1>6, <1>12, <2>1, <2>2, <2>3 DEF Gate, Goto, peer
<1>13. CASE Connected(w)
  <2>1. Onward(c, [c EXCEPT !.pc = "prepare", !.phase = @ + 1])
    BY <1>13 DEF Onward, Connected, At
  <2> QED
    BY <1>3, <1>13, <2>1 DEF Connected, store, peer
<1>14. CASE ConnectFails(w)
  BY <1>2, <1>14 DEF ConnectFails, store, peer
<1>15. CASE AnsweredNo(w)
  <2>1. Onward(c, [c EXCEPT !.pc = "answered", !.outcome = "failure"])
    BY <1>15 DEF Onward, AnsweredNo, At
  <2> QED
    BY <1>3, <1>15, <2>1 DEF AnsweredNo, store, peer
<1>16. CASE SettleReads(w)
  <2>1. Onward(c, [c EXCEPT !.pc = "settle"])
    BY <1>16 DEF Onward, SettleReads, At
  <2>2. c.job \in Delivery
    BY <1>1, <1>16 DEF SettleReads, At
  <2> QED
    BY <1>2, <1>3, <1>5, <1>16, <2>1, <2>2 DEF SettleReads, Goto, peer
<1> QED
  BY <1>7, <1>8, <1>9, <1>10, <1>11, <1>12, <1>13, <1>14, <1>15, <1>16 DEF Work

\* What happens around the dispatcher is a quiet step, a new delivery, or the passing of time.
LEMMA AroundForms ==
  ASSUME TypeOK,
         \/ \E w \in Worker, d \in Delivery : Start(w, d)
         \/ \E d \in Delivery : NewDelivery(d) \/ RetryNow(d) \/ Drop(d)
         \/ Sweep \/ PurgeRemoved \/ RemoveAccount \/ SetPaused \/ DisableAll \/ EnableAll
         \/ Revoke \/ Reset \/ Tighten \/ Crash \/ Tick
  PROVE  QuietStep \/ (\E d \in Delivery : NewDelivery(d)) \/ Tick
<1>1. call \in [Worker -> Call] /\ row \in [Delivery -> Row] /\ \A d \in Delivery : row[d] \in Row
  BY TypeParts
<1>2. ASSUME \A d \in Delivery : Quiet(row[d], row'[d]), call' = call,
             UNCHANGED <<clock, counter, charge, written, taken>>
      PROVE  QuietStep
  BY <1>2 DEF QuietStep, Onward
<1>3. ASSUME NEW w \in Worker, NEW d \in Delivery, Start(w, d)
      PROVE  QuietStep
  <2> DEFINE m == [Resting EXCEPT !.pc = "preflight", !.job = d, !.now = clock]
  <2>1. Onward(call[w], m)
    BY DEF Onward
  <2> QED
    BY <1>3, <2>1, QuietFamilies, QuietCall DEF Start, store, peer
<1>4. ASSUME NEW d \in Delivery, RetryNow(d) \/ Drop(d)
      PROVE  QuietStep
  <2>1. \A e \in Delivery : Quiet(row[e], row'[e])
    <3>1. CASE RetryNow(d)
      <4>1. Quiet(row[d], [row[d] EXCEPT !.next = clock])
        BY <1>1 DEF Quiet, Row
      <4> QED
        BY <1>1, <3>1, <4>1, QuietRows DEF RetryNow
    <3>2. CASE Drop(d)
      BY <1>1, <3>2, QuietRows DEF Drop
    <3> QED
      BY <1>4, <3>1, <3>2
  <2> QED
    BY <1>2, <1>4, <2>1 DEF RetryNow, Drop, peer
<1>5. CASE Sweep
  <2>1. \A d \in Delivery : Quiet(row[d], row'[d])
    BY <1>1, <1>5, QuietRows DEF Sweep
  <2> QED
    BY <1>2, <1>5, <2>1 DEF Sweep, peer
<1>6. CASE PurgeRemoved \/ DisableAll \/ Revoke
  BY <1>2, <1>6, QuietFamilies DEF PurgeRemoved, DisableAll, Revoke, peer
<1>7. CASE RemoveAccount \/ SetPaused \/ EnableAll \/ Reset
  BY <1>2, <1>7, QuietFamilies DEF RemoveAccount, SetPaused, EnableAll, Reset, store, peer
<1>8. CASE Tighten
  <2>1. \A d \in Delivery : Quiet(row[d], row'[d])
    BY <1>1, <1>8, QuietRows, SoonerQuiet DEF Tighten
  <2> QED
    BY <1>2, <1>8, <2>1 DEF Tighten, peer
<1>9. CASE Crash
  BY <1>9, QuietFamilies DEF Crash, QuietStep, Onward, store, peer
<1> QED
  BY <1>3, <1>4, <1>5, <1>6, <1>7, <1>8, <1>9

-----------------------------------------------------------------------------
(* The invariant *)

\* What a call that goes on keeps of its claim.
LEMMA OnwardKeeps ==
  ASSUME NEW c \in Call, NEW m, Onward(c, m)
  PROVE  /\ m.pc \in Claimed =>
              /\ c.pc \in Claimed /\ m.job = c.job /\ m.try = c.try
              /\ m.lease = c.lease /\ m.deadline = c.deadline
              /\ m.phase = c.phase \/ m.phase = 1 \/ ~Overdue
              /\ m.pc = "response" => m = c
              /\ m.pc \in Unsent => c.pc \in Unsent
              /\ m.pc \in Asked => c.pc \in Asked
              /\ m.pc \in {"answered", "settle"} /\ m.outcome = "success" =>
                   c.pc \in {"answered", "settle"} /\ c.outcome = "success"
         /\ m.pc \in {"preflight", "claim"} =>
              \/ m.now = clock /\ m.phase = 0
              \/ c.pc \in {"preflight", "claim"} /\ m.now = c.now /\ m.phase = c.phase
<1> USE DEF Call, Claimed, Steps, Unsent, Asked, Resting
<1>1. CASE m = c \/ m = Resting
  BY <1>1
<1>2. CASE \E d \in Delivery : m = [Resting EXCEPT !.pc = "preflight", !.job = d, !.now = clock]
  BY <1>2
<1>3. CASE c.pc = "preflight" /\ m = [c EXCEPT !.pc = "claim"]
  BY <1>3
<1>4. CASE c.pc = "open" /\ m = [c EXCEPT !.pc = "prepare", !.phase = 1]
  BY <1>4
<1>5. CASE c.pc = "net" /\ ~Overdue /\ m = [c EXCEPT !.pc = "prepare", !.phase = @ + 1]
  BY <1>5
<1>6. CASE c.pc \in Unsent /\ \E pc \in Unsent : m = [c EXCEPT !.pc = pc]
  BY <1>6
<1>7. CASE c.pc = "response" /\ m = [c EXCEPT !.pc = "answered", !.outcome = "failure"]
  BY <1>7
<1>8. CASE c.pc = "answered" /\ m = [c EXCEPT !.pc = "settle"]
  BY <1>8
<1> QED
  BY <1>1, <1>2, <1>3, <1>4, <1>5, <1>6, <1>7, <1>8 DEF Onward

\* While an overtaken call waits for its answer, its timer has run out.
LEMMA OvertakenIsOverdue ==
  ASSUME TypeOK, ClaimInv, NEW v \in Worker, At(v, "response"),
         call[v].try < row[call[v].job].attempts
  PROVE  Overdue
<1>1. call[v] \in Call /\ call[v].pc \in Claimed /\ clock \in Nat
  BY TypeParts DEF At, Claimed, Steps
<1>2. call[v].deadline < call[v].lease /\ call[v].lease <= clock
  BY <1>1 DEF ClaimInv, CallOK
<1>3. call[v].deadline <= clock
  BY <1>1, <1>2 DEF Call
<1> QED
  BY <1>3 DEF Overdue, At, OnNetwork

LEMMA QuietInv ==
  ASSUME TypeOK, ClaimInv, QuietStep
  PROVE  ClaimInv'
<1>1. /\ \A d \in Delivery : row[d] \in Row /\ Quiet(row[d], row'[d])
      /\ \A w \in Worker : call[w] \in Call /\ (call[w].pc # "idle" => call[w].job \in Delivery)
      /\ clock \in Nat /\ clock' = clock /\ counter' = counter
      /\ written' = written /\ taken' = taken
      /\ written \in [Delivery -> Nat]
  BY TypeParts DEF QuietStep
<1>2. ASSUME NEW d \in Delivery
      PROVE  /\ row'[d].seq = row[d].seq /\ row'[d].attempts = row[d].attempts
             /\ row'[d].state \in Live => row'[d].state = row[d].state /\ row'[d].lease = row[d].lease /\ row'[d].record = row[d].record
             /\ row'[d].state = "none" <=> row[d].state = "none"
             /\ row'[d].state = "delivered" => row[d].state = "delivered"
  BY <1>1 DEF Quiet, Live, Dropped
<1>3. HeadOnly'
  BY <1>1, <1>2 DEF ClaimInv, HeadOnly, InOrder, Earlier, Live
<1>4. ASSUME NEW d \in Delivery PROVE RowOK(d)'
  <2>1. RowOK(d)
    BY DEF ClaimInv
  <2>2. row'[d].record => row'[d].state \in Live \cup {"dead-lettered"}
    BY <1>1, <2>1 DEF RowOK, Quiet
  <2> QED
    BY <1>1, <1>2, <2>1, <2>2 DEF RowOK
<1>5. ASSUME NEW w \in Worker PROVE CallOK(w)'
  <2> DEFINE c == call[w]
             m == call'[w]
  <2>1. Onward(c, m) /\ CallOK(w) /\ c \in Call
    BY <1>1 DEF QuietStep, ClaimInv
  <2>2. m.pc \in {"preflight", "claim"} => m.now <= clock /\ m.phase = 0
    BY <1>1, <2>1, OnwardKeeps DEF CallOK
  <2>3. ASSUME m.pc \in Claimed
        PROVE  /\ c.pc \in Claimed /\ c.job \in Delivery /\ m.job = c.job /\ m.try = c.try
               /\ m.lease = c.lease /\ m.deadline = c.deadline
    BY <1>1, <2>1, <2>3, OnwardKeeps DEF Claimed
  <2>4. m.pc \in Claimed =>
          /\ 0 < m.try /\ m.try <= row'[m.job].attempts
          /\ m.deadline < m.lease
          /\ m.try < row'[m.job].attempts => m.lease <= clock
          /\ m.try = row'[m.job].attempts /\ row'[m.job].state \in Live =>
               row'[m.job].state = "disclosing" /\ row'[m.job].lease = m.lease
    BY <1>2, <2>1, <2>3 DEF CallOK
  <2>5. /\ m.pc \in Unsent => written[m.job] # m.try
        /\ m.pc \in Asked => m.try <= written[m.job]
        /\ m.pc = "response" => Connects < m.phase
        /\ m.pc \in {"answered", "settle"} /\ m.outcome = "success" => m.try \in taken[m.job]
    <3>1. m.pc \in Unsent \cup Asked => m.pc \in Claimed
      BY DEF Unsent, Asked, Claimed, Steps
    <3>2. m.pc \in {"answered", "settle", "response"} => m.pc \in Asked
      BY DEF Asked
    <3> QED
      BY <2>1, <2>3, <3>1, <3>2, OnwardKeeps DEF CallOK
  <2> QED
    BY <1>1, <2>2, <2>4, <2>5 DEF CallOK, At
<1>6. ASSUME NEW v \in Worker, NEW w \in Worker, v # w PROVE PairOK(v, w)'
  <2>1. /\ Onward(call[v], call'[v]) /\ Onward(call[w], call'[w])
        /\ PairOK(v, w) /\ CallOK(w)
    BY <1>6 DEF QuietStep, ClaimInv
  <2> SUFFICES ASSUME call'[v].pc \in Claimed, call'[w].pc \in Claimed, call'[v].job = call'[w].job
      PROVE /\ call'[v].try # call'[w].try
            /\ call'[v].pc = "response" /\ call'[v].try < call'[w].try => call'[w].phase <= 1
    BY DEF PairOK, At
  <2>2. /\ call[v].pc \in Claimed /\ call[w].pc \in Claimed /\ call[v].job = call[w].job
        /\ call'[v].try = call[v].try /\ call'[w].try = call[w].try
        /\ call'[w].phase = call[w].phase \/ call'[w].phase = 1 \/ ~Overdue
        /\ call'[v].pc = "response" => call'[v] = call[v]
    BY <1>1, <2>1, OnwardKeeps
  <2>3. call[v].try # call[w].try
    BY <2>1, <2>2 DEF PairOK
  <2>4. ASSUME call'[v].pc = "response", call'[v].try < call'[w].try
        PROVE  call'[w].phase <= 1
    <3>1. At(v, "response") /\ call[v].try < call[w].try
      BY <2>2, <2>4 DEF At
    <3>2. call[w].try <= row[call[w].job].attempts /\ call[w].job \in Delivery
      BY <1>1, <2>1, <2>2 DEF CallOK, Claimed
    <3>3. call[v].try < row[call[v].job].attempts
      BY <1>1, <2>2, <3>1, <3>2 DEF Call, Row
    <3>4. Overdue
      BY <3>1, <3>3, OvertakenIsOverdue
    <3>5. call[w].phase <= 1
      BY <2>1, <2>2, <3>1 DEF PairOK
    <3> QED
      BY <2>2, <3>4, <3>5
  <2> QED
    BY <2>2, <2>3, <2>4
<1> QED
  BY <1>3, <1>4, <1>5, <1>6 DEF ClaimInv

LEMMA TickInv ==
  ASSUME TypeOK, ClaimInv, Tick
  PROVE  ClaimInv'
<1>1. clock \in Nat /\ clock' = clock + 1 /\ row' = row /\ counter' = counter /\ call' = call /\ written' = written /\ taken' = taken
  BY TypeParts DEF Tick, store, peer
<1>2. \A w \in Worker : call[w].now \in Nat /\ call[w].lease \in Nat
  BY TypeParts DEF Call
<1>3. ASSUME NEW w \in Worker PROVE CallOK(w)'
  <2>1. CallOK(w)
    BY DEF ClaimInv
  <2> QED
    BY <1>1, <1>2, <2>1 DEF CallOK, At
<1>4. HeadOnly' /\ \A d \in Delivery : RowOK(d)'
  BY <1>1 DEF ClaimInv, HeadOnly, InOrder, Earlier, RowOK
<1>5. \A v, w \in Worker : v # w => PairOK(v, w)'
  BY <1>1 DEF ClaimInv, PairOK, At
<1> QED
  BY <1>3, <1>4, <1>5 DEF ClaimInv

\* A new delivery is last in the order.
LEMMA NewDeliveryInv ==
  ASSUME TypeOK, ClaimInv, NEW d \in Delivery, NewDelivery(d)
  PROVE  ClaimInv'
<1>1. /\ row \in [Delivery -> Row] /\ counter \in Nat /\ counter' = counter + 1
      /\ clock' = clock /\ call' = call /\ written' = written /\ taken' = taken
      /\ written \in [Delivery -> Nat]
      /\ \A w \in Worker : call[w].pc # "idle" => call[w].job \in Delivery
      /\ \A w \in Worker : call[w] \in Call
  BY TypeParts DEF NewDelivery, peer
<1>2. /\ row[d].state = "none" /\ row'[d].state = "queued" /\ row'[d].record
      /\ row'[d].seq = counter /\ row'[d].attempts = 0
      /\ \A e \in Delivery : e # d => row'[e] = row[e]
  BY <1>1 DEF NewDelivery, NoRow
<1>3. \A e \in Delivery : row[e].seq \in Nat /\ (row[e].state # "none" => row[e].seq < counter)
  BY <1>1 DEF ClaimInv, RowOK, Row
<1>4. HeadOnly'
  <2> SUFFICES ASSUME NEW e \in Delivery, row'[e].state = "disclosing",
                      NEW f \in Delivery, row'[f].state \in Live, row'[f].seq < row'[e].seq
               PROVE  FALSE
    BY DEF HeadOnly, InOrder, Earlier
  <2>1. e # d /\ row'[e] = row[e] /\ row[e].seq < counter
    BY <1>2, <1>3
  <2>2. f # d
    BY <1>1, <1>2, <1>3, <2>1
  <2> QED
    BY <1>2, <2>1, <2>2 DEF ClaimInv, HeadOnly, InOrder, Earlier
<1>5. row[d].attempts = 0 /\ written[d] = 0
  BY <1>1, <1>2 DEF ClaimInv, RowOK
<1>6. ASSUME NEW e \in Delivery PROVE RowOK(e)'
  BY <1>1, <1>2, <1>3, <1>5 DEF ClaimInv, RowOK, Live
<1>7. ASSUME NEW w \in Worker PROVE CallOK(w)'
  <2>1. CallOK(w)
    BY DEF ClaimInv
  <2>2. call[w].pc \in Claimed => call[w].job \in Delivery /\ call[w].job # d
    <3> SUFFICES ASSUME call[w].pc \in Claimed PROVE call[w].job \in Delivery /\ call[w].job # d
      OBVIOUS
    <3>1. call[w].job \in Delivery /\ 0 < call[w].try /\ call[w].try <= row[call[w].job].attempts
      BY <1>1, <2>1 DEF CallOK, Claimed
    <3> QED
      BY <1>1, <1>5, <3>1 DEF Call
  <2>3. call[w].pc \in Unsent \cup Asked \cup {"response", "answered", "settle"} => call[w].pc \in Claimed
    BY DEF Unsent, Asked, Claimed, Steps
  <2> QED
    BY <1>1, <1>2, <2>1, <2>2, <2>3 DEF CallOK
<1>8. \A v, w \in Worker : v # w => PairOK(v, w)'
  BY <1>1 DEF ClaimInv, PairOK, At
<1> QED
  BY <1>4, <1>6, <1>7, <1>8 DEF ClaimInv

\* A granted claim has a number of its own, and the claims before it have run out.
LEMMA GrantInv ==
  ASSUME TypeOK, ClaimInv, NEW w \in Worker, ClaimGranted(w)
  PROVE  ClaimInv'
<1> DEFINE c == call[w]
           d == c.job
           r == row[d]
           m == call'[w]
<1>1. /\ row \in [Delivery -> Row] /\ counter' = counter /\ clock' = clock /\ clock \in Nat
      /\ written' = written /\ taken' = taken /\ written \in [Delivery -> Nat]
      /\ \A v \in Worker : call[v] \in Call /\ (call[v].pc # "idle" => call[v].job \in Delivery)
      /\ call \in [Worker -> Call]
  BY TypeParts DEF ClaimGranted, peer
<1>2. c.pc = "claim" /\ d \in Delivery /\ c.now \in Nat /\ c.now <= clock /\ c.phase = 0 /\ r \in Row
  BY <1>1 DEF ClaimGranted, At, Call, ClaimInv, CallOK
<1>3. /\ Claimable(d, c.now)
      /\ row' = [row EXCEPT ![d] = GrantedRow(r, r.attempts + 1, c.now + LeaseTime)]
      /\ call' = [call EXCEPT ![w] = GrantedCall(c, r.attempts + 1, c.now + LeaseTime, r.gen, Deadline(c.now + LeaseTime))]
  BY DEF ClaimGranted, GrantedCall, GrantedRow
<1>4. /\ r.state \in Live /\ r.record /\ InOrder(d) /\ (r.state = "disclosing" => r.lease <= c.now)
  BY <1>3 DEF Claimable
<1>5. r.attempts \in Nat /\ r.lease \in Nat /\ c.now + LeaseTime \in Nat
  BY <1>2, TimeAssumption DEF Row
<1>6. /\ row'[d].state = "disclosing" /\ row'[d].record = r.record /\ row'[d].seq = r.seq
      /\ row'[d].attempts = r.attempts + 1 /\ row'[d].lease = c.now + LeaseTime
      /\ \A e \in Delivery : e # d => row'[e] = row[e]
  BY <1>1, <1>2, <1>3 DEF GrantedRow, Row
<1>7. /\ m.pc = "open" /\ m.try = r.attempts + 1 /\ m.lease = c.now + LeaseTime /\ m.job = d /\ m.phase = 0
      /\ m.deadline = Deadline(c.now + LeaseTime)
      /\ \A v \in Worker : v # w => call'[v] = call[v]
  BY <1>1, <1>2, <1>3 DEF GrantedCall, Call
<1>8. Deadline(c.now + LeaseTime) < c.now + LeaseTime
  BY <1>1, <1>5, TimeAssumption DEF Deadline
<1>9. HeadOnly'
  <2>1. \A e \in Delivery : row'[e].seq = row[e].seq /\ (row'[e].state \in Live => row[e].state \in Live)
    BY <1>4, <1>6
  <2>2. \A e \in Delivery : row'[e].state = "disclosing" => InOrder(e)
    BY <1>4, <1>6 DEF ClaimInv, HeadOnly
  <2> QED
    BY <2>1, <2>2 DEF HeadOnly, InOrder, Earlier
<1>10. ASSUME NEW e \in Delivery PROVE RowOK(e)'
  <2>1. RowOK(e)
    BY DEF ClaimInv
  <2>2. written[e] \in Nat
    BY <1>1
  <2>3. CASE e = d
    <3>1. r.seq < counter /\ written[d] <= r.attempts + 1
      BY <1>4, <1>5, <2>1, <2>2, <2>3 DEF RowOK, Live
    <3> QED
      BY <1>1, <1>4, <1>6, <2>3, <3>1 DEF RowOK, Live
  <2>4. CASE e # d
    BY <1>1, <1>6, <2>1, <2>4 DEF RowOK
  <2> QED
    BY <2>3, <2>4
<1>11. ASSUME NEW v \in Worker PROVE CallOK(v)'
  <2>1. CASE v = w
    <3>1. m.pc \in Claimed /\ m.pc \in Unsent /\ m.pc \notin Asked \cup {"preflight", "claim", "response", "answered", "settle"}
      BY <1>7 DEF Claimed, Steps, Unsent, Asked
    <3>2. written[d] <= r.attempts /\ written[d] \in Nat
      BY <1>1, <1>2 DEF ClaimInv, RowOK
    <3> QED
      BY <1>1, <1>5, <1>6, <1>7, <1>8, <2>1, <3>1, <3>2 DEF CallOK
  <2>2. CASE v # w
    <3>1. CallOK(v) /\ call'[v] = call[v] /\ call[v] \in Call
      BY <1>1, <1>7, <2>2 DEF ClaimInv
    <3>2. CASE call[v].pc \in Claimed /\ call[v].job = d
      <4>1. /\ 0 < call[v].try /\ call[v].try <= r.attempts
            /\ call[v].try < r.attempts => call[v].lease <= clock
            /\ call[v].try = r.attempts => r.state = "disclosing" /\ r.lease = call[v].lease
            /\ call[v].deadline < call[v].lease
        BY <1>4, <3>1, <3>2 DEF CallOK
      <4>2. call[v].try \in Nat /\ call[v].lease \in Nat
        BY <3>1 DEF Call
      <4>3. call[v].lease <= clock
        BY <1>1, <1>2, <1>4, <1>5, <4>1, <4>2
      <4>4. call[v].try < r.attempts + 1
        BY <1>5, <4>1, <4>2
      <4>5. call[v].pc \notin {"preflight", "claim"}
        BY <3>2 DEF Claimed
      <4> QED
        BY <1>1, <1>5, <1>6, <3>1, <3>2, <4>1, <4>2, <4>3, <4>4, <4>5 DEF CallOK
    <3>3. CASE call[v].pc \in Claimed /\ call[v].job # d
      <4>1. call[v].job \in Delivery
        BY <1>1, <3>3 DEF Claimed
      <4>2. row'[call[v].job] = row[call[v].job]
        BY <1>6, <3>3, <4>1
      <4> QED
        BY <1>1, <3>1, <4>2 DEF CallOK
    <3>4. CASE call[v].pc \notin Claimed
      <4>1. call[v].pc \notin Unsent \cup Asked \cup {"response", "answered", "settle"}
        BY <3>4 DEF Unsent, Asked, Claimed, Steps
      <4> QED
        BY <1>1, <3>1, <3>4, <4>1 DEF CallOK
    <3> QED
      BY <3>2, <3>3, <3>4
  <2> QED
    BY <2>1, <2>2
<1>12. ASSUME NEW u \in Worker, NEW v \in Worker, u # v PROVE PairOK(u, v)'
  <2>1. PairOK(u, v)
    BY <1>12 DEF ClaimInv
  <2>2. \A x \in Worker : x # w /\ call[x].pc \in Claimed /\ call[x].job = d => call[x].try <= r.attempts /\ call[x].try \in Nat
    BY <1>1 DEF ClaimInv, CallOK, Call
  <2>3. m.pc # "response"
    BY <1>7
  <2> QED
    BY <1>5, <1>7, <1>12, <2>1, <2>2, <2>3 DEF PairOK, At
<1> QED
  BY <1>9, <1>10, <1>11, <1>12 DEF ClaimInv

\* A call that still has its claim returns, and leaves a row that is no longer being sent.
GivesUp(w) ==
  LET c == call[w]
      s == row'[c.job]
  IN
  /\ c.pc \in Claimed /\ IsCurrent(c)
  /\ s.seq = row[c.job].seq /\ s.attempts = row[c.job].attempts
  /\ s.state \notin {"none", "disclosing"}
  /\ s.state \in Live => s.record
  /\ s.record => s.state \in Live \cup {"dead-lettered"}
  /\ s.state = "delivered" => s.attempts \in taken[c.job]
  /\ \A e \in Delivery : e # c.job => row'[e] = row[e]
  /\ call' = [call EXCEPT ![w] = Resting]
  /\ UNCHANGED <<clock, counter, charge, written, taken>>

\* The claims before it have run out, so nobody else counts on its row.
LEMMA GivesUpInv ==
  ASSUME TypeOK, ClaimInv, NEW w \in Worker, GivesUp(w)
  PROVE  ClaimInv'
<1> DEFINE c == call[w]
           d == c.job
<1>1. /\ row \in [Delivery -> Row] /\ counter' = counter /\ clock' = clock /\ clock \in Nat
      /\ written' = written /\ taken' = taken
      /\ \A v \in Worker : call[v] \in Call /\ (call[v].pc # "idle" => call[v].job \in Delivery)
      /\ call \in [Worker -> Call]
  BY TypeParts DEF GivesUp
<1>2. /\ c.pc \in Claimed /\ d \in Delivery /\ c.try = row[d].attempts /\ row[d].state = "disclosing"
      /\ row[d].attempts \in Nat
  BY <1>1 DEF GivesUp, IsCurrent, Claimed, Row
<1>3. /\ call'[w] = Resting
      /\ \A v \in Worker : v # w => call'[v] = call[v]
  BY <1>1 DEF GivesUp
<1>4. /\ row'[d].seq = row[d].seq /\ row'[d].attempts = row[d].attempts
      /\ row'[d].state \notin {"none", "disclosing"}
      /\ row'[d].state \in Live => row'[d].record
      /\ row'[d].record => row'[d].state \in Live \cup {"dead-lettered"}
      /\ row'[d].state = "delivered" => row'[d].attempts \in taken[d]
      /\ \A e \in Delivery : e # d => row'[e] = row[e]
  BY DEF GivesUp
<1>5. HeadOnly'
  <2>1. \A e \in Delivery : /\ row'[e].seq = row[e].seq
                            /\ row'[e].state \in Live => row[e].state \in Live
                            /\ row'[e].state = "disclosing" => row[e].state = "disclosing"
    BY <1>2, <1>4 DEF Live
  <2> QED
    BY <2>1 DEF ClaimInv, HeadOnly, InOrder, Earlier
<1>6. ASSUME NEW e \in Delivery PROVE RowOK(e)'
  <2>1. RowOK(e)
    BY DEF ClaimInv
  <2>2. CASE e = d
    BY <1>1, <1>2, <1>4, <2>1, <2>2 DEF RowOK
  <2>3. CASE e # d
    BY <1>1, <1>4, <2>1, <2>3 DEF RowOK
  <2> QED
    BY <2>2, <2>3
<1>7. ASSUME NEW v \in Worker PROVE CallOK(v)'
  <2>1. CASE v = w
    <3>1. call'[v].pc = "idle"
      BY <1>3, <2>1 DEF Resting
    <3> QED
      BY <3>1 DEF CallOK, Claimed, Steps, Unsent, Asked
  <2>2. CASE v # w
    <3>1. CallOK(v) /\ PairOK(v, w) /\ call'[v] = call[v]
      BY <1>3, <2>2 DEF ClaimInv
    <3>2. call[v].pc \in Claimed => call[v].job \in Delivery
      BY <1>1 DEF Claimed
    <3>3. CASE call[v].pc \in Claimed /\ call[v].job = d
      <4>1. call[v].try # row'[d].attempts
        BY <1>2, <1>4, <3>1, <3>3 DEF PairOK
      <4> QED
        BY <1>1, <1>4, <3>1, <3>3, <4>1 DEF CallOK
    <3>4. CASE call[v].pc \in Claimed /\ call[v].job # d
      <4>1. row'[call[v].job] = row[call[v].job]
        BY <1>4, <3>2, <3>4
      <4> QED
        BY <1>1, <3>1, <4>1 DEF CallOK
    <3>5. CASE call[v].pc \notin Claimed
      BY <1>1, <3>1, <3>5 DEF CallOK
    <3> QED
      BY <3>3, <3>4, <3>5
  <2> QED
    BY <2>1, <2>2
<1>8. ASSUME NEW u \in Worker, NEW v \in Worker, u # v PROVE PairOK(u, v)'
  <2>1. call'[w].pc \notin Claimed
    BY <1>3 DEF Resting, Claimed
  <2> QED
    BY <1>3, <1>8, <2>1 DEF ClaimInv, PairOK, At
<1> QED
  BY <1>5, <1>6, <1>7, <1>8 DEF ClaimInv

LEMMA ReleaseInv ==
  ASSUME TypeOK, ClaimInv, NEW w \in Worker, ReleaseStep(w)
  PROVE  ClaimInv'
<1> DEFINE c == call[w]
           d == c.job
<1>1. c.pc \in Claimed /\ d \in Delivery /\ row \in [Delivery -> Row] /\ row[d] \in Row
  BY TypeParts DEF ReleaseStep, Unsent, Claimed, Steps
<1>2. row[d].state = "disclosing" /\ row[d].record
  BY <1>1 DEF ReleaseStep, IsCurrent, ClaimInv, RowOK, Live
<1>3. /\ row'[d] = Release(row[d])
      /\ \A e \in Delivery : e # d => row'[e] = row[e]
  BY <1>1 DEF ReleaseStep
<1>4. /\ Release(row[d]).state = "queued" /\ Release(row[d]).record = row[d].record
      /\ Release(row[d]).seq = row[d].seq /\ Release(row[d]).attempts = row[d].attempts
  BY <1>1 DEF Release, Row
<1>5. GivesUp(w)
  BY <1>1, <1>2, <1>3, <1>4 DEF GivesUp, ReleaseStep, Live
<1> QED
  BY <1>5, GivesUpInv

\* A settled row is no longer being sent, and counts as delivered only after a success.
LEMMA SettledShape ==
  ASSUME NEW r \in Row, NEW c \in Call, NEW wait \in Nat, clock \in Nat, r.record
  PROVE  LET s == Settled(r, c, wait) IN
         /\ s.seq = r.seq /\ s.attempts = r.attempts
         /\ s.state \notin {"none", "disclosing"}
         /\ s.state \in Live => s.record
         /\ s.record => s.state \in Live \cup {"dead-lettered"}
         /\ s.state = "delivered" => c.outcome = "success"
<1> DEFINE Shape(s) == /\ s.seq = r.seq /\ s.attempts = r.attempts
                       /\ s.state \notin {"none", "disclosing"}
                       /\ s.state \in Live => s.record
                       /\ s.record => s.state \in Live \cup {"dead-lettered"}
                       /\ s.state = "delivered" => c.outcome = "success"
<1>1. ASSUME NEW x \in {"retention-expired", "cancelled", "in-flight"}
      PROVE  Shape(End(r, x))
  BY DEF End, Row, Live
<1>2. c.outcome = "success" => Shape(End(r, "delivered"))
  BY DEF End, Row, Live
<1>3. ASSUME NEW t
      PROVE  /\ Shape([r EXCEPT !.state = "dead-lettered", !.lease = 0, !.next = 0, !.dead = t])
             /\ Shape([r EXCEPT !.state = "retryable", !.lease = 0, !.next = t])
  BY DEF Row, Live
<1> HIDE DEF Shape
<1>4. Shape(Settled(r, c, wait))
  BY <1>1, <1>2, <1>3 DEF Settled
<1> QED
  BY <1>4 DEF Shape

LEMMA SettleInv ==
  ASSUME TypeOK, ClaimInv, NEW w \in Worker, Settle(w)
  PROVE  ClaimInv'
<1> DEFINE c == call[w]
           d == c.job
<1>1. /\ c.pc = "settle" /\ c.pc \in Claimed /\ d \in Delivery /\ c \in Call
      /\ row \in [Delivery -> Row] /\ row[d] \in Row /\ clock \in Nat
  BY TypeParts DEF Settle, At, Claimed, Steps
<1>2. PICK wait \in 1..MaxBackoff :
        row' = IF IsCurrent(c) THEN [row EXCEPT ![d] = Settled(@, c, wait)] ELSE row
  BY DEF Settle
<1>3. wait \in Nat
  BY TimeAssumption
<1>4. /\ call' = [call EXCEPT ![w] = Resting]
      /\ UNCHANGED <<clock, counter, charge, written, taken>>
  BY DEF Settle, Return, peer
<1>5. CASE IsCurrent(c)
  <2>1. row[d].record /\ row[d].attempts = c.try
    BY <1>1, <1>5 DEF IsCurrent, ClaimInv, RowOK, Live
  <2>2. c.outcome = "success" => row[d].attempts \in taken[d]
    BY <1>1, <2>1 DEF ClaimInv, CallOK
  <2>3. row'[d] = Settled(row[d], c, wait) /\ \A e \in Delivery : e # d => row'[e] = row[e]
    BY <1>1, <1>2, <1>5
  <2> DEFINE s == Settled(row[d], c, wait)
  <2>4. /\ s.seq = row[d].seq /\ s.attempts = row[d].attempts
        /\ s.state \notin {"none", "disclosing"}
        /\ s.state \in Live => s.record
        /\ s.record => s.state \in Live \cup {"dead-lettered"}
        /\ s.state = "delivered" => c.outcome = "success"
    BY <1>1, <1>3, <2>1, SettledShape
  <2>5. GivesUp(w)
    <3> HIDE DEF s
    <3>1. s.state = "delivered" => s.attempts \in taken[d]
      BY <2>2, <2>4
    <3>2. row'[d] = s
      BY <2>3 DEF s
    <3> QED
      BY <1>1, <1>4, <1>5, <2>3, <2>4, <3>1, <3>2 DEF GivesUp
  <2> QED
    BY <2>5, GivesUpInv
<1>6. CASE ~IsCurrent(c)
  <2>1. Onward(c, Resting) /\ \A e \in Delivery : Quiet(row[e], row'[e])
    BY <1>2, <1>6, QuietFamilies DEF Onward
  <2>2. QuietStep
    BY <1>4, <2>1, QuietCall
  <2> QED
    BY <2>2, QuietInv
<1> QED
  BY <1>5, <1>6

\* A request that leaves is its claim's first, and finds no older one waiting.
LEMMA WriteInv ==
  ASSUME TypeOK, ClaimInv, NEW w \in Worker, WriteStep(w)
  PROVE  ClaimInv'
<1> DEFINE c == call[w]
           d == c.job
<1>1. /\ row' = row /\ counter' = counter /\ clock' = clock /\ taken' = taken
      /\ written \in [Delivery -> Nat] /\ call \in [Worker -> Call]
      /\ \A e \in Delivery : row[e] \in Row
      /\ \A v \in Worker : call[v] \in Call /\ (call[v].pc # "idle" => call[v].job \in Delivery)
  BY TypeParts DEF WriteStep
<1>2. /\ c.pc = "final" /\ c.pc \in Claimed /\ d \in Delivery /\ c.try \in Nat /\ c.phase \in Nat
      /\ row[d].attempts = c.try /\ Connects < c.phase
  BY <1>1 DEF WriteStep, At, IsCurrent, Claimed, Steps, Call
<1>3. /\ written'[d] = c.try
      /\ \A e \in Delivery : e # d => written'[e] = written[e]
  BY <1>1, <1>2 DEF WriteStep
<1>4. /\ call'[w] = [c EXCEPT !.pc = "response"]
      /\ \A v \in Worker : v # w => call'[v] = call[v]
  BY <1>1 DEF WriteStep
<1>5. /\ call'[w].pc = "response" /\ call'[w].job = d /\ call'[w].try = c.try /\ call'[w].phase = c.phase
      /\ call'[w].lease = c.lease /\ call'[w].deadline = c.deadline
  BY <1>1, <1>4 DEF Call
<1>6. HeadOnly'
  BY <1>1 DEF ClaimInv, HeadOnly, InOrder, Earlier
<1>7. ASSUME NEW e \in Delivery PROVE RowOK(e)'
  <2>1. RowOK(e)
    BY DEF ClaimInv
  <2>2. written'[e] <= row[e].attempts
    BY <1>2, <1>3, <2>1 DEF RowOK
  <2> QED
    BY <1>1, <2>1, <2>2 DEF RowOK
<1>8. ASSUME NEW v \in Worker PROVE CallOK(v)'
  <2>1. CASE v = w
    <3>1. CallOK(w)
      BY DEF ClaimInv
    <3>2. /\ 0 < c.try /\ c.try <= row[d].attempts /\ c.deadline < c.lease
          /\ c.try < row[d].attempts => c.lease <= clock
          /\ c.try = row[d].attempts /\ row[d].state \in Live => row[d].state = "disclosing" /\ row[d].lease = c.lease
      BY <1>2, <3>1 DEF CallOK
    <3>3. c.try <= written'[d]
      BY <1>2, <1>3
    <3> QED
      BY <1>1, <1>2, <1>5, <2>1, <3>2, <3>3 DEF CallOK, Claimed, Steps, Unsent
  <2>2. CASE v # w
    <3>1. CallOK(v) /\ PairOK(v, w) /\ call'[v] = call[v]
      BY <1>4, <2>2 DEF ClaimInv
    <3>2. call[v].pc \in Unsent \cup Asked => call[v].pc \in Claimed /\ call[v].job \in Delivery
      BY <1>1 DEF Unsent, Asked, Claimed, Steps
    <3>3. call[v].pc \in Unsent => written'[call[v].job] # call[v].try
      <4>1. CASE call[v].job = d
        BY <1>2, <1>3, <3>1, <3>2, <4>1 DEF PairOK
      <4>2. CASE call[v].job # d
        BY <1>3, <3>1, <3>2, <4>2 DEF CallOK
      <4> QED
        BY <4>1, <4>2
    <3>4. call[v].pc \in Asked => call[v].try <= written'[call[v].job]
      <4>1. CASE call[v].job = d
        <5>1. call[v].pc \in Claimed => call[v].try <= row[d].attempts
          BY <3>1, <4>1 DEF CallOK
        <5> QED
          BY <1>2, <1>3, <3>2, <4>1, <5>1
      <4>2. CASE call[v].job # d
        BY <1>3, <3>1, <3>2, <4>2 DEF CallOK
      <4> QED
        BY <4>1, <4>2
    <3> QED
      BY <1>1, <3>1, <3>3, <3>4 DEF CallOK
  <2> QED
    BY <2>1, <2>2
<1>9. ASSUME NEW u \in Worker, NEW v \in Worker, u # v PROVE PairOK(u, v)'
  <2> SUFFICES ASSUME call'[u].pc \in Claimed, call'[v].pc \in Claimed, call'[u].job = call'[v].job
      PROVE /\ call'[u].try # call'[v].try
            /\ call'[u].pc = "response" /\ call'[u].try < call'[v].try => call'[v].phase <= 1
    BY DEF PairOK, At
  <2>1. PairOK(u, v) /\ PairOK(v, u)
    BY <1>9 DEF ClaimInv
  <2>2. \A x \in Worker : /\ call'[x].job = call[x].job /\ call'[x].try = call[x].try
                          /\ call'[x].phase = call[x].phase
                          /\ call'[x].pc \in Claimed => call[x].pc \in Claimed
                          /\ x # w => call'[x].pc = call[x].pc
    BY <1>2, <1>4, <1>5
  <2>3. call'[u].try # call'[v].try
    BY <2>1, <2>2 DEF PairOK
  <2>4. ASSUME call'[u].pc = "response", call'[u].try < call'[v].try
        PROVE  call'[v].phase <= 1
    <3>1. CASE u = w
      <4>1. call[v].try <= row[d].attempts
        BY <2>2, <3>1 DEF ClaimInv, CallOK
      <4>2. call[v].try \in Nat
        BY <1>1 DEF Call
      <4> QED
        BY <1>2, <2>2, <2>4, <3>1, <4>1, <4>2
    <3>2. CASE u # w
      BY <2>1, <2>2, <2>4, <3>2 DEF PairOK, At
    <3> QED
      BY <3>1, <3>2
  <2> QED
    BY <2>3, <2>4
<1> QED
  BY <1>6, <1>7, <1>8, <1>9 DEF ClaimInv

\* An answer only adds to what the peer took.
LEMMA AnsweredYesInv ==
  ASSUME TypeOK, ClaimInv, NEW w \in Worker, AnsweredYes(w)
  PROVE  ClaimInv'
<1> DEFINE c == call[w]
           d == c.job
<1>1. /\ row' = row /\ counter' = counter /\ clock' = clock /\ written' = written
      /\ taken \in [Delivery -> SUBSET Nat] /\ call \in [Worker -> Call]
      /\ \A v \in Worker : call[v] \in Call /\ (call[v].pc # "idle" => call[v].job \in Delivery)
  BY TypeParts DEF AnsweredYes, store
<1>2. c.pc = "response" /\ c.pc \in Claimed /\ d \in Delivery
  BY <1>1 DEF AnsweredYes, At, Claimed, Steps
<1>3. c.try \in taken'[d] /\ \A e \in Delivery : taken[e] \subseteq taken'[e]
  BY <1>1, <1>2 DEF AnsweredYes
<1>4. /\ call'[w] = [c EXCEPT !.pc = "answered", !.outcome = "success"]
      /\ \A v \in Worker : v # w => call'[v] = call[v]
  BY <1>1 DEF AnsweredYes
<1>5. /\ call'[w].pc = "answered" /\ call'[w].job = d /\ call'[w].try = c.try /\ call'[w].phase = c.phase
      /\ call'[w].lease = c.lease /\ call'[w].deadline = c.deadline
  BY <1>1, <1>4 DEF Call
<1>6. HeadOnly'
  BY <1>1 DEF ClaimInv, HeadOnly, InOrder, Earlier
<1>7. \A e \in Delivery : RowOK(e)'
  BY <1>1, <1>3 DEF ClaimInv, RowOK
<1>8. ASSUME NEW v \in Worker PROVE CallOK(v)'
  <2>1. CASE v = w
    <3>1. CallOK(w)
      BY DEF ClaimInv
    <3> QED
      BY <1>1, <1>2, <1>3, <1>5, <2>1, <3>1 DEF CallOK, Claimed, Steps, Unsent, Asked
  <2>2. CASE v # w
    <3>1. CallOK(v) /\ call'[v] = call[v]
      BY <1>4, <2>2 DEF ClaimInv
    <3>2. call[v].pc \in {"answered", "settle"} => call[v].job \in Delivery
      BY <1>1
    <3> QED
      BY <1>1, <1>3, <3>1, <3>2 DEF CallOK
  <2> QED
    BY <2>1, <2>2
<1>9. \A u, v \in Worker : u # v => PairOK(u, v)'
  <2>1. \A x \in Worker : /\ call'[x].job = call[x].job /\ call'[x].try = call[x].try
                          /\ call'[x].phase = call[x].phase
                          /\ call'[x].pc \in Claimed => call[x].pc \in Claimed
                          /\ call'[x].pc = "response" => call[x].pc = "response"
    BY <1>2, <1>4, <1>5
  <2> QED
    BY <2>1 DEF ClaimInv, PairOK, At
<1> QED
  BY <1>6, <1>7, <1>8, <1>9 DEF ClaimInv

-----------------------------------------------------------------------------
(* The safety of the claims *)

LEMMA ClaimStep == TypeOK /\ ClaimInv /\ [Next]_vars => ClaimInv'
<1> SUFFICES ASSUME TypeOK, ClaimInv, [Next]_vars PROVE ClaimInv'
  OBVIOUS
<1>1. CASE UNCHANGED vars
  <2>1. QuietStep
    BY <1>1, QuietFamilies DEF vars, store, peer, QuietStep, Onward
  <2> QED
    BY <2>1, QuietInv
<1>2. ASSUME NEW w \in Worker, Work(w) PROVE ClaimInv'
  BY <1>2, WorkForms, QuietInv, GrantInv, ReleaseInv, WriteInv, AnsweredYesInv, SettleInv
<1>3. CASE \/ \E w \in Worker, d \in Delivery : Start(w, d)
           \/ \E d \in Delivery : NewDelivery(d) \/ RetryNow(d) \/ Drop(d)
           \/ Sweep \/ PurgeRemoved \/ RemoveAccount \/ SetPaused \/ DisableAll \/ EnableAll
           \/ Revoke \/ Reset \/ Tighten \/ Crash \/ Tick
  BY <1>3, AroundForms, QuietInv, NewDeliveryInv, TickInv
<1> QED
  BY <1>1, <1>2, <1>3 DEF Next

\* Rows, claims and requests agree for any number of deliveries and calls: a claim that was
\* taken over has run out and owns no row, one that was not still owns it or the row ended.
THEOREM ClaimInvHolds == Spec => []ClaimInv
<1>1. Init => ClaimInv
  <2> SUFFICES ASSUME Init PROVE ClaimInv
    OBVIOUS
  <2>1. \A w \in Worker : call[w].pc = "idle"
    BY DEF Init, Resting
  <2>2. \A d \in Delivery : row[d].state = "none" /\ ~row[d].record /\ row[d].attempts = 0 /\ written[d] = 0
    BY DEF Init, NoRow
  <2>3. HeadOnly /\ \A d \in Delivery : RowOK(d)
    BY <2>2 DEF HeadOnly, RowOK, Live
  <2>4. (\A w \in Worker : CallOK(w)) /\ \A v, w \in Worker : v # w => PairOK(v, w)
    BY <2>1 DEF CallOK, PairOK, Claimed, Unsent, Asked
  <2> QED
    BY <2>3, <2>4 DEF ClaimInv
<1> QED
  BY <1>1, ClaimStep, TypeCorrect, PTL DEF Spec

\* Only the oldest row that has not ended is being sent, whatever is retried, recovered or released.
THEOREM HeadOnlyHolds == Spec => []HeadOnly
<1>1. ClaimInv => HeadOnly
  BY DEF ClaimInv
<1> QED
  BY <1>1, ClaimInvHolds, PTL

\* A row settled as delivered had the request of its newest claim taken by the peer.
THEOREM DeliveredMeansTakenHolds == Spec => []DeliveredMeansTaken
<1>1. ClaimInv => DeliveredMeansTaken
  BY DEF ClaimInv, RowOK, DeliveredMeansTaken
<1> QED
  BY <1>1, ClaimInvHolds, PTL

\* Every withdrawal, expiry, settlement and release keeps content exactly while it may be needed.
THEOREM ContentMatchesStateHolds == Spec => []ContentMatchesState
<1>1. ClaimInv => ContentMatchesState
  BY DEF ClaimInv, RowOK, ContentMatchesState
<1> QED
  BY <1>1, ClaimInvHolds, PTL

\* No two requests of one delivery wait for an answer at once: the deadline of each claim
\* falls before the end of its lease.
THEOREM OneRequestOutHolds == Spec => []OneRequestOut
<1>1. TypeOK /\ ClaimInv => OneRequestOut
  <2> SUFFICES ASSUME TypeOK, ClaimInv, NEW v \in Worker, NEW w \in Worker, At(v, "response"), At(w, "response"),
                      call[v].job = call[w].job, v # w
               PROVE  FALSE
    BY DEF OneRequestOut
  <2>1. call[v].pc \in Claimed /\ call[w].pc \in Claimed
    BY DEF At, Claimed, Steps
  <2>2. call[v].try # call[w].try /\ call[v].try \in Nat /\ call[w].try \in Nat
    BY <2>1, TypeParts DEF ClaimInv, PairOK, Call
  <2>3. Connects < call[v].phase /\ Connects < call[w].phase /\ call[v].phase \in Nat /\ call[w].phase \in Nat
    BY TypeParts DEF ClaimInv, CallOK, At, Call
  <2>4. call[v].phase <= 1 \/ call[w].phase <= 1
    <3>1. PairOK(v, w) /\ PairOK(w, v)
      BY DEF ClaimInv
    <3>2. call[v].try < call[w].try \/ call[w].try < call[v].try
      BY <2>2
    <3> QED
      BY <2>1, <3>1, <3>2 DEF PairOK
  <2> QED
    BY <2>3, <2>4, LimitAssumption
<1> QED
  BY <1>1, ClaimInvHolds, TypeCorrect, PTL

-----------------------------------------------------------------------------
(* The cap *)

Charged      == {d \in Delivery : charge[d] # Uncharged}
Since(n)     == {d \in Delivery : charge[d] # Uncharged /\ charge[d] > n - Window}
WindowTo(t)  == {d \in Delivery : charge[d] # Uncharged /\ charge[d] > t - Window /\ charge[d] <= t}
CapInv       == IsFiniteSet(Charged) /\ CapHolds

\* A first claim finds fewer than the cap in the window before it, and in every later one.
LEMMA GrantCap ==
  ASSUME TypeOK, CapInv, NEW w \in Worker, ClaimGranted(w)
  PROVE  CapInv'
<1> DEFINE d == call[w].job
           n == call[w].now
<1>1. /\ charge \in [Delivery -> Int] /\ d \in Delivery /\ n \in Nat /\ Window \in Nat /\ Cap \in Nat /\ MaxTime \in Nat
  BY TypeParts, TimeAssumption, LimitAssumption DEF ClaimGranted, At, Call
<1>2. CASE charge[d] # Uncharged
  <2>1. charge' = charge
    BY <1>2 DEF ClaimGranted
  <2> QED
    BY <2>1 DEF CapInv, Charged, CapHolds
<1>3. CASE charge[d] = Uncharged
  <2>1. charge' = [charge EXCEPT ![d] = n]
    BY <1>3 DEF ClaimGranted
  <2>2. n # Uncharged
    BY <1>1 DEF Uncharged
  <2>3. charge'[d] = n /\ \A e \in Delivery : e # d => charge'[e] = charge[e]
    BY <1>1, <2>1
  <2>4. IsFiniteSet(Charged) /\ Charged' = Charged \cup {d}
    BY <1>1, <2>2, <2>3 DEF CapInv, Charged
  <2>5. IsFiniteSet(Charged')
    BY <2>4, FS_AddElement
  <2>6. IsFiniteSet(Since(n)) /\ Cardinality(Since(n)) < Cap /\ d \notin Since(n)
    <3>1. Since(n) \subseteq Charged
      BY DEF Since, Charged
    <3>2. Cardinality(Since(n)) < Cap
      BY <1>3 DEF ClaimGranted, Claimable, UnderCap, Since
    <3> QED
      BY <1>3, <2>4, <3>1, <3>2, FS_Subset DEF Since
  <2>7. IsFiniteSet(Since(n) \cup {d}) /\ Cardinality(Since(n) \cup {d}) = Cardinality(Since(n)) + 1
        /\ Cardinality(Since(n)) \in Nat
    BY <2>6, FS_AddElement, FS_CardinalityType
  <2>8. ASSUME NEW t \in 0..MaxTime PROVE Cardinality(WindowTo(t)') <= Cap
    <3>1. CASE n <= t /\ t - Window < n
      <4>1. WindowTo(t)' \subseteq Since(n) \cup {d}
        <5> SUFFICES ASSUME NEW e \in Delivery, e # d, charge'[e] # Uncharged, charge'[e] > t - Window
                     PROVE  e \in Since(n)
          BY DEF WindowTo
        <5>1. charge[e] = charge'[e] /\ charge[e] \in Int /\ t \in Int /\ n <= t
          BY <1>1, <2>3, <3>1
        <5>2. charge[e] > n - Window
          BY <1>1, <5>1
        <5> QED
          BY <5>1, <5>2 DEF Since
      <4>2. Cardinality(WindowTo(t)') <= Cardinality(Since(n) \cup {d}) /\ Cardinality(WindowTo(t)') \in Nat
        BY <2>7, <4>1, FS_Subset, FS_CardinalityType
      <4> QED
        BY <1>1, <2>6, <2>7, <4>2
    <3>2. CASE ~(n <= t /\ t - Window < n)
      <4>1. WindowTo(t)' = WindowTo(t)
        BY <1>1, <1>3, <2>3, <3>2 DEF WindowTo
      <4>2. Cardinality(WindowTo(t)) <= Cap
        BY DEF CapInv, CapHolds, WindowTo
      <4> QED
        BY <4>1, <4>2
    <3> QED
      BY <3>1, <3>2
  <2>9. CapHolds'
    BY <2>8 DEF CapHolds, WindowTo
  <2> QED
    BY <2>5, <2>9 DEF CapInv
<1> QED
  BY <1>2, <1>3

\* In no window of the cap's length are more deliveries charged than the cap, however late
\* the claims commit that were stamped before their awaits.
THEOREM CapHoldsAlways == Spec => []CapHolds
<1>1. Init => CapInv
  <2> SUFFICES ASSUME Init PROVE CapInv
    OBVIOUS
  <2>1. Charged = {} /\ \A t : WindowTo(t) = {}
    BY DEF Init, Charged, WindowTo
  <2>2. IsFiniteSet({}) /\ Cardinality({}) = 0 /\ 0 <= Cap
    BY FS_EmptySet, LimitAssumption
  <2> QED
    BY <2>1, <2>2 DEF CapInv, CapHolds, WindowTo
<1>2. TypeOK /\ CapInv /\ [Next]_vars => CapInv'
  <2> SUFFICES ASSUME TypeOK, CapInv, [Next]_vars PROVE CapInv'
    OBVIOUS
  <2>1. ASSUME charge' = charge PROVE CapInv'
    BY <2>1 DEF CapInv, Charged, CapHolds
  <2>2. CASE UNCHANGED vars
    BY <2>1, <2>2 DEF vars, store
  <2>3. ASSUME NEW w \in Worker, Work(w) PROVE CapInv'
    <3>1. CASE ClaimGranted(w)
      BY <3>1, GrantCap
    <3>2. CASE ~ClaimGranted(w)
      <4>1. charge' = charge
        BY <2>3, <3>2, WorkForms DEF QuietStep, ReleaseStep, WriteStep, AnsweredYes, Settle, store
      <4> QED
        BY <2>1, <4>1
    <3> QED
      BY <3>1, <3>2
  <2>4. CASE \/ \E w \in Worker, d \in Delivery : Start(w, d)
             \/ \E d \in Delivery : NewDelivery(d) \/ RetryNow(d) \/ Drop(d)
             \/ Sweep \/ PurgeRemoved \/ RemoveAccount \/ SetPaused \/ DisableAll \/ EnableAll
             \/ Revoke \/ Reset \/ Tighten \/ Crash \/ Tick
    <3>1. charge' = charge
      BY <2>4, AroundForms DEF QuietStep, NewDelivery, Tick, store
    <3> QED
      BY <2>1, <3>1
  <2> QED
    BY <2>2, <2>3, <2>4 DEF Next
<1>3. CapInv => CapHolds
  BY DEF CapInv
<1> QED
  BY <1>1, <1>2, <1>3, TypeCorrect, PTL DEF Spec

-----------------------------------------------------------------------------
(* Late calls *)

\* A call that no longer has its claim writes no row, but for the purge of a removed account.
LEMMA LateWork ==
  ASSUME NEW w \in Worker, Work(w), call[w].pc \in Claimed, account, ~IsCurrent(call[w])
  PROVE  row' = row
<1> DEFINE c == call[w]
<1>1. Released(c) = row /\ Cancelled(c) = row /\ AfterGate(c) = row
  BY DEF Released, Cancelled, AfterGate
<1>2. ~Preflight(w) /\ ~ClaimGranted(w) /\ ~ClaimRefused(w)
  BY DEF Preflight, ClaimGranted, ClaimRefused, At, Claimed
<1>3. CASE Open(w) \/ Prepare(w) \/ ChatList(w) \/ Gate(w)
  BY <1>1, <1>3 DEF Open, Prepare, ChatList, Gate
<1>4. CASE Connected(w) \/ ConnectFails(w) \/ AnsweredYes(w) \/ AnsweredNo(w)
  BY <1>4 DEF Connected, ConnectFails, AnsweredYes, AnsweredNo, store
<1>5. CASE SettleReads(w) \/ Settle(w)
  BY <1>1, <1>5 DEF SettleReads, Settle
<1> QED
  BY <1>2, <1>3, <1>4, <1>5 DEF Work

\* A call's steps are its own.
LEMMA WorkIsOwn ==
  ASSUME call \in [Worker -> Call], NEW w \in Worker, Work(w), NEW v \in Worker, v # w
  PROVE  call'[v] = call[v]
<1>1. \E m : call' = [call EXCEPT ![w] = m]
  <2>1. CASE Preflight(w) \/ ClaimRefused(w) \/ Open(w) \/ Prepare(w)
    BY <2>1 DEF Preflight, ClaimRefused, Open, Prepare, Goto, Return
  <2>2. CASE ChatList(w) \/ Gate(w) \/ Connected(w) \/ ConnectFails(w)
    BY <2>2 DEF ChatList, Gate, Connected, ConnectFails, Goto, Return
  <2>3. CASE AnsweredYes(w) \/ AnsweredNo(w) \/ SettleReads(w) \/ Settle(w)
    BY <2>3 DEF AnsweredYes, AnsweredNo, SettleReads, Settle, Goto, Return
  <2>4. CASE ClaimGranted(w)
    BY <2>4 DEF ClaimGranted
  <2> QED
    BY <2>1, <2>2, <2>3, <2>4 DEF Work
<1> QED
  BY <1>1

\* A call whose claim was taken over, ended or given back changes no row any more, whatever
\* it still learns of its request.
THEOREM LateCallsHold == Spec => LateCallsChangeNothing
<1> DEFINE Late(w) ==
      LET c == call[w] IN
      /\ call'[w] # c /\ c.pc \in Claimed /\ account
      /\ row[c.job].state # "disclosing" \/ row[c.job].attempts # c.try
<1>1. TypeOK /\ [Next]_vars => [\A w \in Worker : Late(w) => row' = row]_vars
  <2> SUFFICES ASSUME TypeOK, Next, NEW w \in Worker, Late(w) PROVE row' = row
    OBVIOUS
  <2>1. call \in [Worker -> Call] /\ ~IsCurrent(call[w])
    BY TypeParts DEF IsCurrent
  <2>2. ASSUME NEW v \in Worker, Work(v) PROVE row' = row
    BY <2>1, <2>2, WorkIsOwn, LateWork
  <2>3. ASSUME NEW v \in Worker, NEW d \in Delivery, Start(v, d) PROVE row' = row
    BY <2>3 DEF Start, store
  <2>4. CASE \E d \in Delivery : NewDelivery(d) \/ RetryNow(d) \/ Drop(d)
    BY <2>4 DEF NewDelivery, RetryNow, Drop
  <2>5. CASE Sweep \/ PurgeRemoved \/ DisableAll \/ Revoke \/ Tighten
    BY <2>5 DEF Sweep, PurgeRemoved, DisableAll, Revoke, Tighten
  <2>6. CASE RemoveAccount \/ SetPaused \/ EnableAll \/ Reset \/ Crash \/ Tick
    BY <2>6 DEF RemoveAccount, SetPaused, EnableAll, Reset, Crash, Tick, store
  <2> QED
    BY <2>2, <2>3, <2>4, <2>5, <2>6 DEF Next
<1> QED
  BY <1>1, TypeCorrect, PTL DEF Spec, LateCallsChangeNothing

-----------------------------------------------------------------------------
(* The promise of an ordered, at-least-once delivery *)

Place == [d \in Delivery |-> IF row[d].state = "none" THEN 0 ELSE row[d].seq + 1]
Ended == {d \in Delivery : row[d].state \notin Live \cup {"none"}}
Done  == {d \in Delivery : row[d].state = "delivered"}

\* A step under which rows keep their place, and some end undelivered, gives those up.
LEMMA GiveUpStep ==
  ASSUME TypeOK,
         \A d \in Delivery :
           /\ row'[d].seq = row[d].seq
           /\ row'[d].state = "none" <=> row[d].state = "none"
           /\ row[d].state \in States \ (Live \cup {"none"}) => row'[d].state \notin Live
           /\ row'[d].state = "delivered" <=> row[d].state = "delivered",
         UNCHANGED peer
  PROVE  [Promise!Next]_(Promise!vars)
<1>1. Place' = Place /\ Done' = Done
  BY DEF Place, Done
<1>2. \A d \in Delivery : row[d].state \in States /\ row[d].seq \in Nat
  BY TypeParts DEF Row
<1>3. Ended \subseteq Ended'
  BY <1>2 DEF Ended
<1> DEFINE S == Ended' \ Ended
<1>4. /\ S \in SUBSET Promise!Waiting
      /\ Ended' = Ended \cup S
  <2>1. \A d \in S : d \in Delivery /\ row[d].state # "none" /\ Place[d] # 0
    BY <1>2 DEF Ended, Place, Live
  <2> QED
    BY <1>3, <2>1 DEF Promise!Waiting, Place, Ended
<1>5. CASE S = {}
  <2>1. Ended' = Ended
    BY <1>4, <1>5
  <2> QED
    BY <1>1, <2>1 DEF Promise!vars, Place, Done, Ended, peer
<1>6. CASE S # {}
  <2>1. Promise!GiveUp
    BY <1>1, <1>4, <1>6 DEF Promise!GiveUp, Place, Done, Ended, peer
  <2> QED
    BY <2>1 DEF Promise!Next
<1> QED
  BY <1>5, <1>6

\* A request leaves for the head of the order, under a number of its own.
LEMMA RequestStep ==
  ASSUME TypeOK, ClaimInv, NEW w \in Worker, WriteStep(w)
  PROVE  [Promise!Next]_(Promise!vars)
<1> DEFINE d == call[w].job
<1>1. /\ d \in Delivery /\ call[w].pc = "final" /\ call[w].pc \in Unsent /\ call[w].try \in Nat
      /\ written \in [Delivery -> Nat] /\ \A e \in Delivery : row[e].seq \in Nat /\ row[e].state \in States
  BY TypeParts DEF WriteStep, At, Unsent, Call, Row
<1>2. row[d].state = "disclosing" /\ row[d].attempts = call[w].try
  BY DEF WriteStep, IsCurrent
<1>3. written[d] < call[w].try
  <2>1. written[d] <= row[d].attempts /\ written[d] # call[w].try
    BY <1>1 DEF ClaimInv, RowOK, CallOK
  <2> QED
    BY <1>1, <1>2, <2>1
<1>4. \A e \in Delivery : row[e].state \in Live => row[d].seq <= row[e].seq
  BY <1>1, <1>2 DEF ClaimInv, HeadOnly, InOrder, Earlier
<1>5. d \in Promise!Waiting /\ \A e \in Promise!Waiting : Place[d] <= Place[e]
  <2>1. Promise!Waiting = {e \in Delivery : row[e].state \in Live}
    BY <1>1 DEF Promise!Waiting, Live
  <2> QED
    BY <1>1, <1>2, <1>4, <2>1 DEF Place, Live
<1>6. written' = [written EXCEPT ![d] = written'[d]] /\ written'[d] > written[d]
  <2>1. written' = [written EXCEPT ![d] = call[w].try]
    BY DEF WriteStep
  <2> QED
    BY <1>1, <1>3, <2>1
<1>7. row' = row /\ taken' = taken
  BY DEF WriteStep
<1>8. Promise!Request(d)
  BY <1>5, <1>6, <1>7 DEF Promise!Request, Place
<1> QED
  BY <1>1, <1>8 DEF Promise!Next

\* The peer takes a request that left.
LEMMA TakeStep ==
  ASSUME TypeOK, ClaimInv, NEW w \in Worker, AnsweredYes(w)
  PROVE  [Promise!Next]_(Promise!vars)
<1> DEFINE d == call[w].job
           n == call[w].try
<1>1. /\ d \in Delivery /\ call[w].pc = "response" /\ call[w].pc \in Asked /\ call[w].pc \in Claimed
      /\ n \in Nat /\ written[d] \in Nat
  BY TypeParts DEF AnsweredYes, At, Asked, Claimed, Steps, Call
<1>2. n \in 1..written[d]
  BY <1>1 DEF ClaimInv, CallOK
<1>3. taken' = [taken EXCEPT ![d] = @ \cup {n}] /\ row' = row /\ written' = written
  BY DEF AnsweredYes, store
<1>4. Promise!Take(d)
  BY <1>2, <1>3 DEF Promise!Take
<1> QED
  BY <1>1, <1>4 DEF Promise!Next

\* A row is settled as delivered for its newest request only.
LEMMA CompleteStep ==
  ASSUME TypeOK, ClaimInv, NEW w \in Worker, Settle(w)
  PROVE  [Promise!Next]_(Promise!vars)
<1> DEFINE c == call[w]
           d == c.job
<1>1. /\ c.pc = "settle" /\ c.pc \in Claimed /\ c.pc \in Asked /\ d \in Delivery /\ c \in Call
      /\ row \in [Delivery -> Row] /\ row[d] \in Row /\ clock \in Nat /\ written[d] \in Nat /\ c.try \in Nat
  BY TypeParts DEF Settle, At, Claimed, Asked, Steps, Call
<1>2. PICK wait \in 1..MaxBackoff :
        row' = IF IsCurrent(c) THEN [row EXCEPT ![d] = Settled(@, c, wait)] ELSE row
  BY DEF Settle
<1>3. wait \in Nat /\ UNCHANGED peer
  BY TimeAssumption DEF Settle
<1>4. CASE ~IsCurrent(c)
  BY <1>2, <1>3, <1>4, GiveUpStep DEF States, Live
<1>5. CASE IsCurrent(c)
  <2>1. row[d].record /\ row[d].attempts = c.try /\ row[d].state = "disclosing"
    BY <1>1, <1>5 DEF IsCurrent, ClaimInv, RowOK, Live
  <2>2. row'[d] = Settled(row[d], c, wait) /\ \A e \in Delivery : e # d => row'[e] = row[e]
    BY <1>1, <1>2, <1>5
  <2> DEFINE s == Settled(row[d], c, wait)
  <2>3. /\ s.seq = row[d].seq /\ s.state \notin {"none", "disclosing"}
        /\ s.state = "delivered" => c.outcome = "success"
    BY <1>1, <1>3, <2>1, SettledShape
  <2> HIDE DEF s
  <2>4. CASE s.state # "delivered"
    <3>1. \A e \in Delivery :
            /\ row'[e].seq = row[e].seq
            /\ row'[e].state = "none" <=> row[e].state = "none"
            /\ row[e].state \in States \ (Live \cup {"none"}) => row'[e].state \notin Live
            /\ row'[e].state = "delivered" <=> row[e].state = "delivered"
      BY <2>1, <2>2, <2>3, <2>4 DEF s, Live
    <3> QED
      BY <1>3, <3>1, GiveUpStep
  <2>5. CASE s.state = "delivered"
    <3>1. row'[d].seq = row[d].seq /\ row'[d].state = "delivered"
      BY <2>2, <2>3, <2>5 DEF s
    <3>2. written[d] \in taken[d]
      <4>1. c.try \in taken[d] /\ c.try <= written[d] /\ written[d] <= row[d].attempts
        BY <1>1, <2>3, <2>5 DEF ClaimInv, CallOK, RowOK
      <4> QED
        BY <1>1, <2>1, <4>1
    <3>3. /\ Place' = Place /\ Ended' = Ended \cup {d} /\ Done' = Done \cup {d}
          /\ d \in Promise!Waiting
      <4>1. Place' = Place
        BY <2>1, <2>2, <3>1 DEF Place
      <4>2. Ended' = Ended \cup {d} /\ Done' = Done \cup {d}
        BY <1>1, <2>1, <2>2, <3>1 DEF Ended, Done, Live
      <4>3. d \in Promise!Waiting
        BY <1>1, <2>1 DEF Promise!Waiting, Live, Row
      <4> QED
        BY <4>1, <4>2, <4>3
    <3>4. \E e \in Delivery : Promise!Complete(e)
      <4>1. PICK e \in Delivery : e = d
        BY <1>1
      <4> HIDE DEF d
      <4>2. Promise!Complete(e)
        BY <1>3, <3>2, <3>3, <4>1 DEF Promise!Complete, Place, Ended, Done, peer
      <4> QED
        BY <4>2
    <3>5. Promise!Next
      BY <3>4 DEF Promise!Next
    <3> QED
      BY <3>5
  <2> QED
    BY <2>4, <2>5
<1> QED
  BY <1>4, <1>5

\* A new delivery joins at the end of the order.
LEMMA JoinStep ==
  ASSUME TypeOK, ClaimInv, NEW d \in Delivery, NewDelivery(d)
  PROVE  [Promise!Next]_(Promise!vars)
<1>1. /\ row \in [Delivery -> Row] /\ counter \in Nat /\ row[d].state = "none"
      /\ \A e \in Delivery : row[e].seq \in Nat /\ (row[e].state # "none" => row[e].seq < counter)
  BY TypeParts DEF NewDelivery, ClaimInv, RowOK, Row
<1>2. /\ row'[d].state = "queued" /\ row'[d].seq = counter
      /\ \A e \in Delivery : e # d => row'[e] = row[e]
  BY <1>1 DEF NewDelivery, NoRow
<1>3. /\ Place' = [Place EXCEPT ![d] = Place'[d]] /\ Place'[d] = counter + 1 /\ Place[d] = 0
      /\ Ended' = Ended /\ Done' = Done
  <2>1. Place'[d] = counter + 1 /\ Place[d] = 0
    BY <1>1, <1>2 DEF Place
  <2>2. Place' = [Place EXCEPT ![d] = Place'[d]]
    BY <1>2 DEF Place
  <2>3. Ended' = Ended /\ Done' = Done
    BY <1>1, <1>2 DEF Ended, Done, Live
  <2> QED
    BY <2>1, <2>2, <2>3
<1>4. \A e \in Delivery : Place[e] < Place'[d]
  <2>1. \A e \in Delivery : Place[e] < counter + 1
    BY <1>1 DEF Place
  <2> QED
    BY <1>3, <2>1
<1>5. UNCHANGED <<written, taken>>
  BY DEF NewDelivery, peer
<1>6. Promise!Join(d)
  BY <1>3, <1>4, <1>5 DEF Promise!Join, Place, Ended, Done
<1> QED
  BY <1>6 DEF Promise!Next

\* The daemon implements the promise: requests leave in the order of the rows and under numbers
\* of their own, and a row counts as delivered once its newest request was taken, for any
\* number of deliveries and calls, whatever fails and whoever withdraws.
THEOREM OrderKept == Spec => KeepsOrder
<1>1. Init => Promise!Init
  BY DEF Init, Promise!Init, NoRow, Live
<1>2. TypeOK /\ ClaimInv /\ [Next]_vars => [Promise!Next]_(Promise!vars)
  <2> SUFFICES ASSUME TypeOK, ClaimInv, [Next]_vars PROVE [Promise!Next]_(Promise!vars)
    OBVIOUS
  <2>1. \A d \in Delivery : row[d].state \in States
    BY TypeParts DEF Row
  <2>2. ASSUME row' = row, UNCHANGED peer PROVE [Promise!Next]_(Promise!vars)
    BY <2>2 DEF Promise!vars, peer
  <2>3. CASE UNCHANGED vars
    BY <2>2, <2>3 DEF vars, store
  <2>4. CASE QuietStep
    <3>1. \A d \in Delivery :
            /\ row'[d].seq = row[d].seq
            /\ row'[d].state = "none" <=> row[d].state = "none"
            /\ row[d].state \in States \ (Live \cup {"none"}) => row'[d].state \notin Live
            /\ row'[d].state = "delivered" <=> row[d].state = "delivered"
      BY <2>4 DEF QuietStep, Quiet, Live, Dropped
    <3> QED
      BY <2>4, <3>1, GiveUpStep DEF QuietStep, peer
  <2>5. ASSUME NEW w \in Worker, ClaimGranted(w) \/ ReleaseStep(w) PROVE [Promise!Next]_(Promise!vars)
    <3> DEFINE d == call[w].job
    <3>1. d \in Delivery /\ row \in [Delivery -> Row] /\ UNCHANGED peer
      BY <2>5, TypeParts DEF ClaimGranted, ReleaseStep, At, Unsent, peer
    <3>2. row[d].state \in Live /\ row'[d].state \in Live /\ row'[d].seq = row[d].seq
      <4>1. CASE ClaimGranted(w)
        <5>1. row[d].state \in Live
          BY <4>1 DEF ClaimGranted, Claimable
        <5>2. ASSUME NEW n, NEW u PROVE GrantedRow(row[d], n, u).state = "disclosing" /\ GrantedRow(row[d], n, u).seq = row[d].seq
          BY <3>1 DEF GrantedRow, Row
        <5>3. row'[d] = GrantedRow(row[d], row[d].attempts + 1, call[w].now + LeaseTime)
          BY <3>1, <4>1 DEF ClaimGranted, GrantedRow
        <5> QED
          BY <5>1, <5>2, <5>3 DEF Live
      <4>2. CASE ReleaseStep(w)
        <5>1. row'[d] = Release(row[d]) /\ row[d].state = "disclosing"
          BY <3>1, <4>2 DEF ReleaseStep, IsCurrent
        <5> QED
          BY <3>1, <5>1 DEF Release, Row, Live
      <4> QED
        BY <2>5, <4>1, <4>2
    <3>3. \A e \in Delivery : e # d => row'[e] = row[e]
      BY <2>5, <3>1 DEF ClaimGranted, ReleaseStep
    <3>4. \A e \in Delivery :
            /\ row'[e].seq = row[e].seq
            /\ row'[e].state = "none" <=> row[e].state = "none"
            /\ row[e].state \in States \ (Live \cup {"none"}) => row'[e].state \notin Live
            /\ row'[e].state = "delivered" <=> row[e].state = "delivered"
      BY <3>2, <3>3 DEF Live
    <3> QED
      BY <3>1, <3>4, GiveUpStep
  <2>6. ASSUME NEW w \in Worker, Work(w) PROVE [Promise!Next]_(Promise!vars)
    BY <2>4, <2>5, <2>6, WorkForms, RequestStep, TakeStep, CompleteStep
  <2>7. CASE \/ \E w \in Worker, d \in Delivery : Start(w, d)
             \/ \E d \in Delivery : NewDelivery(d) \/ RetryNow(d) \/ Drop(d)
             \/ Sweep \/ PurgeRemoved \/ RemoveAccount \/ SetPaused \/ DisableAll \/ EnableAll
             \/ Revoke \/ Reset \/ Tighten \/ Crash \/ Tick
    <3>1. CASE Tick
      BY <2>2, <3>1 DEF Tick, store
    <3> QED
      BY <2>4, <2>7, <3>1, AroundForms, JoinStep
  <2> QED
    BY <2>3, <2>6, <2>7 DEF Next
<1> QED
  BY <1>1, <1>2, TypeCorrect, ClaimInvHolds, PTL DEF Spec, KeepsOrder, Promise!Spec

\* A delivery that ended, delivered, given up or withdrawn, stays ended, delivered or not as it was, and
\* no request for it leaves any more (dispatchOne, settleWebhookOutcome).
EndIsFinal ==
  [][\A d \in Delivery : row[d].state \notin Live \cup {"none"} =>
       /\ row'[d].state \notin Live \cup {"none"}
       /\ row'[d].state = "delivered" <=> row[d].state = "delivered"
       /\ written'[d] = written[d]]_vars

\* That is what OrderedDelivery promises, which the pipeline implements (dispatchOne).
THEOREM EndIsFinalHolds == Spec => EndIsFinal
<1> DEFINE Final == \A d \in Delivery : row[d].state \notin Live \cup {"none"} =>
                      /\ row'[d].state \notin Live \cup {"none"}
                      /\ row'[d].state = "delivered" <=> row[d].state = "delivered"
                      /\ written'[d] = written[d]
<1>1. TypeOK /\ [Promise!Next]_(Promise!vars) => Final
  <2> SUFFICES ASSUME TypeOK, [Promise!Next]_(Promise!vars), NEW d \in Delivery, row[d].state \notin Live \cup {"none"}
               PROVE  /\ row'[d].state \notin Live \cup {"none"}
                      /\ row'[d].state = "delivered" <=> row[d].state = "delivered"
                      /\ written'[d] = written[d]
    OBVIOUS
  <2> DEFINE ended == {e \in Delivery : row[e].state \notin Live \cup {"none"}}
             done  == {e \in Delivery : row[e].state = "delivered"}
  <2>1. d \in ended /\ DOMAIN written = Delivery
    BY DEF TypeOK
  <2>2. d \in ended' /\ (d \in done' <=> d \in done) /\ written'[d] = written[d]
    <3>1. CASE Promise!GiveUp
      BY <2>1, <3>1 DEF Promise!GiveUp, Promise!Waiting
    <3>2. ASSUME NEW e \in Delivery, Promise!Join(e) \/ Promise!Take(e)
          PROVE  ended' = ended /\ done' = done /\ written' = written
      BY <3>2 DEF Promise!Join, Promise!Take
    <3>3. ASSUME NEW e \in Delivery, Promise!Complete(e)
          PROVE  ended' = ended \cup {e} /\ done' = done \cup {e} /\ written' = written /\ e # d
      BY <2>1, <3>3 DEF Promise!Complete, Promise!Waiting
    <3>4. ASSUME NEW e \in Delivery, Promise!Request(e)
          PROVE  ended' = ended /\ done' = done /\ written'[d] = written[d]
      <4>1. ended' = ended /\ done' = done /\ e # d /\ \E n : written' = [written EXCEPT ![e] = n]
        BY <2>1, <3>4 DEF Promise!Request, Promise!Waiting
      <4> QED
        BY <2>1, <4>1
    <3>5. CASE UNCHANGED Promise!vars
      BY <2>1, <3>5 DEF Promise!vars
    <3> HIDE DEF ended, done
    <3> QED
      BY <2>1, <3>1, <3>2, <3>3, <3>4, <3>5 DEF Promise!Next
  <2> QED
    BY <2>2
<1>2. TypeOK /\ [Promise!Next]_(Promise!vars) => [Final]_vars
  BY <1>1
<1> QED
  BY <1>2, OrderKept, TypeCorrect, PTL DEF KeepsOrder, Promise!Spec, EndIsFinal

=============================================================================
