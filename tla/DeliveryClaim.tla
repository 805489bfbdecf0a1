--------------------------- MODULE DeliveryClaim ---------------------------
(***************************************************************************)
(* Webhook deliveries of the event daemon: the rows of one (rule, account,   *)
(* target), the calls that dispatch them, and everything that can withdraw   *)
(* them meanwhile.                                                           *)
(*                                                                          *)
(* A worker is one call of the dispatcher.  The tick runs its batch one by    *)
(* one, but the lapsed leases it recovers run side by side and outlive a tick *)
(* that fails, so several calls, even of one delivery, can be under way.       *)
(* A step is what runs between two awaits; a database transaction is one step. *)
(*                                                                          *)
(* An attempt's random id and lease token are the number of the claim: both   *)
(* are new with every claim and compared together.                            *)
(***************************************************************************)
EXTENDS Integers, FiniteSets

CONSTANTS
  Delivery,       \* delivery ids
  Worker,         \* calls of the dispatcher that may be under way at once
  Connects,       \* network phases before the write: DNS, TCP and TLS
  LeaseTime,      \* leaseMs
  Timeout,        \* attemptTimeoutMs
  Margin,         \* LEASE_MARGIN_MS
  Retention,      \* retention.deliveryMs
  DeadRetention,  \* retention.deadLetterMs
  MaxBackoff,     \* MAX_RETRY_BACKOFF_MS
  Cap,            \* deliveryRateCap of the rule
  Window,         \* the hour the cap counts over
  RetryLimit,     \* retryLimit of the target
  Controls,       \* what people do: of "pause", "disable", "revoke", "remove",
                  \*   "reset", "retry", "drop", "tighten"
  Faults,         \* what fails: of "connect", "peer", "fence", "open", "list", "crash"
  MaxClaims,      \* bound: claims of one delivery
  MaxTime         \* bound: the clock

ASSUME NameAssumption == "none" \notin Delivery
ASSUME TimeAssumption ==
  /\ LeaseTime \in Nat \ {0} /\ Timeout \in Nat /\ Margin \in Nat \ {0} /\ Retention \in Nat \ {0}
  /\ DeadRetention \in Nat /\ MaxBackoff \in Nat /\ Window \in Nat /\ MaxTime \in Nat
ASSUME LimitAssumption ==
  /\ Connects \in Nat \ {0} /\ Cap \in Nat \ {0} /\ RetryLimit \in Nat \ {0} /\ MaxClaims \in Nat

VARIABLES
  clock,
  switch,     \* event_settings: enabled, paused, switch_generation
  lineage,    \* the rule and target versions are not revoked
  account,    \* the account is in the configuration
  barrier,    \* the target's newest reset barrier: "open" or "closed"
  row,        \* deliveries: a row of each delivery
  counter,    \* delivery_order_counters.next_sequence
  charge,     \* delivery_cap_charges: when a delivery was charged, or Uncharged
  call,       \* each call's own memory: where it is and the claim it holds
  written,    \* history: the newest claim whose request bytes left
  taken       \* history: the claims whose request the peer answered with success

authority == <<switch, lineage, account, barrier>>
store     == <<row, counter, charge>>
peer      == <<written, taken>>
vars      == <<clock, authority, store, call, peer>>

-----------------------------------------------------------------------------
(* Rows *)

Live      == {"queued", "retryable", "disclosing"}
Dropped   == {"cancelled", "retention-expired", "in-flight"}
States    == {"none", "delivered", "dead-lettered"} \cup Live \cup Dropped
Uncharged == -1

NoRow == [state |-> "none", record |-> FALSE, gen |-> 0, seq |-> 0, expires |-> 0,
          next |-> 0, attempts |-> 0, lease |-> 0, dead |-> 0]

\* r ended as s: its content goes, and no lease or next try is left.
End(r, s) == [r EXCEPT !.state = s, !.record = FALSE, !.lease = 0, !.next = 0]

\* Mutant of Release: the row gets a state of its own, which nothing reads.
ReleaseUnknown(r) == [r EXCEPT !.state = "released", !.lease = 0]

Release(r) == [r EXCEPT !.state = "queued", !.lease = 0]

\* Mutant of Withdraw: a row that is being sent keeps its content.
WithdrawKeeping(r) ==
  CASE r.state = "disclosing"              -> [r EXCEPT !.state = "in-flight", !.lease = 0, !.next = 0]
    [] r.state \in {"queued", "retryable"} -> End(r, "cancelled")
    [] r.state = "dead-lettered"           -> [r EXCEPT !.record = FALSE]
    [] OTHER                               -> r

\* What every withdrawal of authority does to a row, in its own transaction: a
\* request that may be out cannot be recalled, and a dead letter's content goes.
Withdraw(r) ==
  CASE r.state = "disclosing"              -> End(r, "in-flight")
    [] r.state \in {"queued", "retryable"} -> End(r, "cancelled")
    [] r.state = "dead-lettered"           -> [r EXCEPT !.record = FALSE]
    [] OTHER                               -> r

AllWithdrawn == [d \in Delivery |-> Withdraw(row[d])]

\* Mutant of Due: a row that is being sent is left to its owner.
DueUnlessSending(r) ==
  \/ r.state \in {"queued", "retryable"} /\ r.expires <= clock
  \/ r.state = "dead-lettered" /\ r.dead <= clock

\* What the expiry sweep takes.
Due(r) ==
  \/ r.state \in Live /\ r.expires <= clock
  \/ r.state = "dead-lettered" /\ r.dead <= clock

\* Rows of before a disable never run under a later switch.
SwitchedOn(gen) == switch.enabled /\ switch.gen = gen

-----------------------------------------------------------------------------
(* Calls and claims *)

Resting == [pc |-> "idle", job |-> "none", now |-> 0, try |-> 0, lease |-> 0, gen |-> 0,
            deadline |-> 0, phase |-> 0, outcome |-> "none"]

Steps     == {"idle", "preflight", "claim", "open", "prepare", "list", "final", "net",
              "response", "answered", "settle"}
Claimed   == Steps \ {"idle", "preflight", "claim"}
OnNetwork == {"net", "response"}

At(w, pc) == call[w].pc = pc
Goto(w, pc) == call' = [call EXCEPT ![w].pc = pc]
Return(w) == call' = [call EXCEPT ![w] = Resting]

\* Mutant of IsCurrent: any attempt that is being sent will do.
IsSending(c) == row[c.job].state = "disclosing" /\ row[c.job].gen = c.gen

\* The claim c is the one its row holds: state, generation, attempt, lease.
IsCurrent(c) ==
  LET r == row[c.job] IN
  r.state = "disclosing" /\ r.gen = c.gen /\ r.attempts = c.try /\ r.lease = c.lease

\* A timer has run out and fires before any later network event is handled.
Overdue == \E w \in Worker : call[w].pc \in OnNetwork /\ call[w].deadline <= clock

\* Mutant of Deadline: the attempt's own time only.
DeadlineByTimeout(lease) == clock + Timeout

\* One deadline for all network phases, ahead of the lease's end.
Deadline(lease) ==
  IF clock + Timeout < lease - Margin THEN clock + Timeout ELSE lease - Margin

-----------------------------------------------------------------------------
(* The claim *)

Earlier(d) == \E e \in Delivery : row[e].state \in Live /\ row[e].seq < row[d].seq

\* Mutant of InOrder: only an earlier row that still waits is in the way.
InOrderOfWaiting(d) ==
  ~ \E e \in Delivery : row[e].state = "queued" /\ row[e].seq < row[d].seq

InOrder(d) == ~Earlier(d)

\* Mutant of UnderCap: one more than the cap.
UnderCapPlusOne(d, now) ==
  charge[d] = Uncharged => Cardinality({e \in Delivery : charge[e] # Uncharged /\ charge[e] > now - Window}) <= Cap

\* A delivery is charged with its first claim only.
UnderCap(d, now) ==
  charge[d] = Uncharged => Cardinality({e \in Delivery : charge[e] # Uncharged /\ charge[e] > now - Window}) < Cap

\* The checks of the claim's transaction; `now' was read before its awaits.
Claimable(d, now) ==
  /\ lineage
  /\ row[d].expires > now
  /\ row[d].state \in Live /\ row[d].record
  /\ SwitchedOn(row[d].gen) /\ ~switch.paused
  /\ row[d].state = "disclosing" => row[d].lease <= now
  /\ InOrder(d)
  /\ barrier = "open"
  /\ UnderCap(d, now)

\* The tick picks a delivery: a lapsed lease, or one whose next try has come.
Start(w, d) ==
  /\ At(w, "idle")
  /\ switch.enabled /\ ~switch.paused
  /\ \/ row[d].state = "disclosing" /\ row[d].lease <= clock
     \/ row[d].state \in {"queued", "retryable"} /\ row[d].next <= clock
  /\ row[d].attempts < MaxClaims
  /\ call' = [call EXCEPT ![w] = [Resting EXCEPT !.pc = "preflight", !.job = d, !.now = clock]]
  /\ UNCHANGED <<clock, authority, store, peer>>

\* The account and the disclosure are read before the transaction.
Preflight(w) ==
  /\ At(w, "preflight")
  /\ \/ account /\ Goto(w, "claim") /\ UNCHANGED row
     \/ ~account /\ row' = AllWithdrawn /\ Return(w)
     \/ "fence" \in Faults /\ Return(w) /\ UNCHANGED row
  /\ UNCHANGED <<clock, authority, counter, charge, peer>>

ClaimGranted(w) ==
  LET d == call[w].job
      r == row[d]
      until == call[w].now + LeaseTime
  IN
  /\ At(w, "claim")
  /\ Claimable(d, call[w].now)
  /\ row' = [row EXCEPT ![d] = [r EXCEPT !.state = "disclosing", !.attempts = r.attempts + 1, !.lease = until]]
  /\ charge' = IF charge[d] = Uncharged THEN [charge EXCEPT ![d] = call[w].now] ELSE charge
  /\ call' = [call EXCEPT ![w] = [@ EXCEPT !.pc = "open", !.now = 0, !.try = r.attempts + 1,
                                           !.lease = until, !.gen = r.gen, !.deadline = Deadline(until)]]
  /\ UNCHANGED <<clock, authority, counter, peer>>

\* A refused claim writes nothing, but an expired row ends.
ClaimRefused(w) ==
  LET d == call[w].job IN
  /\ At(w, "claim")
  /\ ~Claimable(d, call[w].now)
  /\ row' = IF lineage /\ row[d].expires <= call[w].now /\ row[d].state \in Live
            THEN [row EXCEPT ![d] = End(@, "retention-expired")]
            ELSE row
  /\ Return(w)
  /\ UNCHANGED <<clock, authority, counter, charge, peer>>

-----------------------------------------------------------------------------
(* The attempt: a gate before each network phase *)

\* Only the exact claim is released or cancelled.
Released(c) == IF IsCurrent(c) THEN [row EXCEPT ![c.job] = Release(@)] ELSE row
Cancelled(c) == IF IsCurrent(c) THEN [row EXCEPT ![c.job] = End(@, "cancelled")] ELSE row

Authorised(c) == IsCurrent(c) /\ row[c.job].expires > clock /\ SwitchedOn(c.gen) /\ lineage
Waits         == switch.paused \/ barrier = "closed"

GateOpen(c) == Authorised(c) /\ ~Waits
\* A gate that has to wait gives the claim back; one that lost its authority leaves the row alone.
AfterGate(c) == IF Authorised(c) /\ Waits THEN Released(c) ELSE row

\* The record is decrypted and the target loaded; what fails here frees the claim.
Open(w) ==
  /\ At(w, "open")
  /\ \/ /\ call' = [call EXCEPT ![w].pc = "prepare", ![w].phase = 1]
        /\ UNCHANGED row
     \/ /\ "open" \in Faults
        /\ row' = Released(call[w])
        /\ Return(w)
  /\ UNCHANGED <<clock, authority, counter, charge, peer>>

Writes(c) == c.phase > Connects

\* The reads before a gate that may wait: the disclosure and the account.
Prepare(w) ==
  /\ At(w, "prepare")
  /\ \/ /\ account
        /\ Goto(w, IF Writes(call[w]) /\ "list" \in Faults THEN "list" ELSE "final")
        /\ UNCHANGED row
     \/ ~account /\ row' = AllWithdrawn /\ Return(w)
     \/ "fence" \in Faults /\ row' = AfterGate(call[w]) /\ Return(w)
  /\ UNCHANGED <<clock, authority, counter, charge, peer>>

\* A WhatsApp delivery is written under the chat list's lock: a hidden chat
\* cancels it, an unreadable list puts it back, and the reads are done again.
ChatList(w) ==
  /\ At(w, "list")
  /\ \/ account /\ Goto(w, "final") /\ UNCHANGED row
     \/ ~account /\ row' = AllWithdrawn /\ Return(w)
     \/ "fence" \in Faults /\ row' = AfterGate(call[w]) /\ Return(w)
     \/ row' = Cancelled(call[w]) /\ Return(w)
     \/ row' = Released(call[w]) /\ Return(w)
  /\ UNCHANGED <<clock, authority, counter, charge, peer>>

\* Mutant of GatePassed: what the reads before it found still stands.
GateTrusted(c) == TRUE

GatePassed(c) == GateOpen(c)

\* The last gate and the step it guards are one synchronous turn.
Gate(w) ==
  LET c == call[w] IN
  /\ At(w, "final")
  /\ \/ /\ GatePassed(c) /\ ~Writes(c)
        /\ Goto(w, "net")
        /\ UNCHANGED <<row, written>>
     \/ /\ GatePassed(c) /\ Writes(c)
        /\ written' = [written EXCEPT ![c.job] = c.try]
        /\ Goto(w, "response")
        /\ UNCHANGED row
     \/ /\ ~GatePassed(c)
        /\ row' = AfterGate(c)
        /\ Return(w)
        /\ UNCHANGED written
  /\ UNCHANGED <<clock, authority, counter, charge, taken>>

\* A network phase ends in time.
Connected(w) ==
  /\ At(w, "net")
  /\ ~Overdue
  /\ call' = [call EXCEPT ![w].pc = "prepare", ![w].phase = @ + 1]
  /\ UNCHANGED <<clock, authority, store, peer>>

\* It fails or runs out of time: the call throws and its claim stays as it is.
ConnectFails(w) ==
  /\ At(w, "net")
  /\ "connect" \in Faults \/ call[w].deadline <= clock
  /\ Return(w)
  /\ UNCHANGED <<clock, authority, store, peer>>

\* The peer took the request and its answer comes in time.
AnsweredYes(w) ==
  LET c == call[w] IN
  /\ At(w, "response")
  /\ ~Overdue
  /\ taken' = [taken EXCEPT ![c.job] = @ \cup {c.try}]
  /\ call' = [call EXCEPT ![w].pc = "answered", ![w].outcome = "success"]
  /\ UNCHANGED <<clock, authority, store, written>>

\* A refusal, a broken connection or the deadline.
AnsweredNo(w) ==
  /\ At(w, "response")
  /\ "peer" \in Faults \/ call[w].deadline <= clock
  /\ call' = [call EXCEPT ![w].pc = "answered", ![w].outcome = "failure"]
  /\ UNCHANGED <<clock, authority, store, peer>>

-----------------------------------------------------------------------------
(* The settlement *)

\* Authority is read again after the answer; who lost it may only end the row.
SettleReads(w) ==
  /\ At(w, "answered")
  /\ \/ account /\ Goto(w, "settle") /\ UNCHANGED row
     \/ ~account /\ row' = AllWithdrawn /\ Return(w)
     \/ "fence" \in Faults /\ row' = Cancelled(call[w]) /\ Return(w)
  /\ UNCHANGED <<clock, authority, counter, charge, peer>>

\* What a current claim's outcome makes of its row; `wait' is the backoff.
Settled(r, c, wait) ==
  IF r.expires <= clock THEN End(r, "retention-expired")
  ELSE IF ~SwitchedOn(c.gen) \/ ~lineage
    THEN End(r, IF switch.enabled THEN "cancelled" ELSE "in-flight")
  ELSE IF c.outcome = "success" THEN End(r, "delivered")
  ELSE IF r.attempts >= RetryLimit
    THEN [r EXCEPT !.state = "dead-lettered", !.lease = 0, !.next = 0,
                   !.dead = IF r.dead = 0 THEN clock + DeadRetention ELSE r.dead]
  ELSE IF clock + wait >= r.expires THEN End(r, "retention-expired")
  ELSE [r EXCEPT !.state = "retryable", !.lease = 0, !.next = clock + wait]

\* A claim that is no longer current is discarded: its outcome changes nothing.
Settle(w) ==
  LET c == call[w] IN
  /\ At(w, "settle")
  /\ \E wait \in 1..MaxBackoff :
       row' = IF IsCurrent(c) THEN [row EXCEPT ![c.job] = Settled(@, c, wait)] ELSE row
  /\ Return(w)
  /\ UNCHANGED <<clock, authority, counter, charge, peer>>

-----------------------------------------------------------------------------
(* Around the dispatcher *)

\* A matched decision makes its delivery, with the next place in the order.
NewDelivery(d) ==
  /\ row[d].state = "none"
  /\ switch.enabled /\ ~switch.paused /\ lineage /\ account
  /\ clock + Retention <= MaxTime
  /\ row' = [row EXCEPT ![d] = [NoRow EXCEPT !.state = "queued", !.record = TRUE, !.gen = switch.gen,
                                             !.seq = counter, !.expires = clock + Retention]]
  /\ counter' = counter + 1
  /\ UNCHANGED <<clock, authority, charge, call, peer>>

\* The expiry sweep of every tick, whatever the switch.
Sweep ==
  /\ \E d \in Delivery : Due(row[d])
  /\ row' = [d \in Delivery |-> IF Due(row[d]) THEN End(row[d], "retention-expired") ELSE row[d]]
  /\ UNCHANGED <<clock, authority, counter, charge, call, peer>>

\* The tick purges what belongs to accounts that left the configuration.
PurgeRemoved ==
  /\ ~account
  /\ row # AllWithdrawn
  /\ row' = AllWithdrawn
  /\ UNCHANGED <<clock, authority, counter, charge, call, peer>>

RemoveAccount ==
  /\ "remove" \in Controls /\ account
  /\ account' = FALSE
  /\ UNCHANGED <<clock, switch, lineage, barrier, store, call, peer>>

SetPaused ==
  /\ "pause" \in Controls
  /\ switch' = [switch EXCEPT !.paused = ~@]
  /\ UNCHANGED <<clock, lineage, account, barrier, store, call, peer>>

DisableAll ==
  /\ "disable" \in Controls /\ switch.gen = 0
  /\ switch' = [switch EXCEPT !.enabled = FALSE, !.gen = @ + 1]
  /\ row' = AllWithdrawn
  /\ UNCHANGED <<clock, lineage, account, barrier, counter, charge, call, peer>>

\* An approved activation switches on again; it keeps the generation.
EnableAll ==
  /\ ~switch.enabled
  /\ switch' = [switch EXCEPT !.enabled = TRUE]
  /\ UNCHANGED <<clock, lineage, account, barrier, store, call, peer>>

Revoke ==
  /\ "revoke" \in Controls /\ lineage
  /\ lineage' = FALSE
  /\ row' = AllWithdrawn
  /\ UNCHANGED <<clock, switch, account, barrier, counter, charge, call, peer>>

\* A local reset closes the target until its notice is out.
Reset ==
  /\ "reset" \in Controls
  /\ barrier' = IF barrier = "open" THEN "closed" ELSE "open"
  /\ UNCHANGED <<clock, switch, lineage, account, store, call, peer>>

\* The operator asks for the next try now; the write fence reads the authority.
RetryNow(d) ==
  /\ "retry" \in Controls
  /\ account /\ lineage /\ SwitchedOn(row[d].gen)
  /\ row[d].state = "retryable" /\ row[d].attempts < RetryLimit /\ row[d].expires > clock
  /\ row' = [row EXCEPT ![d].next = clock]
  /\ UNCHANGED <<clock, authority, counter, charge, call, peer>>

\* The operator drops one: what waits is cancelled, a dead letter's content goes, and what is being sent stays.
Drop(d) ==
  /\ "drop" \in Controls
  /\ account /\ lineage /\ SwitchedOn(row[d].gen)
  /\ row[d].state \in {"queued", "retryable", "dead-lettered"}
  /\ row' = [row EXCEPT ![d] = Withdraw(@)]
  /\ UNCHANGED <<clock, authority, counter, charge, call, peer>>

\* A row's deadline under a retention shorter by one; one that has passed ends the row.
Sooner(r) ==
  IF r.expires - 1 > clock THEN [r EXCEPT !.expires = @ - 1]
  ELSE [r EXCEPT !.expires = @ - 1, !.state = "retention-expired", !.record = FALSE, !.lease = 0]

\* A replacement with a shorter retention moves the deadlines of its rule's live rows.
Tighten ==
  /\ "tighten" \in Controls
  /\ \E d \in Delivery : row[d].state \in Live
  /\ row' = [d \in Delivery |-> IF row[d].state \in Live THEN Sooner(row[d]) ELSE row[d]]
  /\ UNCHANGED <<clock, authority, counter, charge, call, peer>>

\* The daemon dies: its calls are gone, the database stays.
Crash ==
  /\ "crash" \in Faults
  /\ \E w \in Worker : ~At(w, "idle")
  /\ call' = [w \in Worker |-> Resting]
  /\ UNCHANGED <<clock, authority, store, peer>>

Tick ==
  /\ clock < MaxTime
  /\ ~Overdue
  /\ clock' = clock + 1
  /\ UNCHANGED <<authority, store, call, peer>>

-----------------------------------------------------------------------------
Init ==
  /\ clock = 0
  /\ switch = [enabled |-> TRUE, paused |-> FALSE, gen |-> 0]
  /\ lineage = TRUE
  /\ account = TRUE
  /\ barrier = "open"
  /\ row = [d \in Delivery |-> NoRow]
  /\ counter = 0
  /\ charge = [d \in Delivery |-> Uncharged]
  /\ call = [w \in Worker |-> Resting]
  /\ written = [d \in Delivery |-> 0]
  /\ taken = [d \in Delivery |-> {}]

\* What a call does on its own.
Work(w) ==
  \/ Preflight(w) \/ ClaimGranted(w) \/ ClaimRefused(w) \/ Open(w) \/ Prepare(w) \/ ChatList(w)
  \/ Gate(w) \/ Connected(w) \/ ConnectFails(w) \/ AnsweredYes(w) \/ AnsweredNo(w)
  \/ SettleReads(w) \/ Settle(w)

Next ==
  \/ \E w \in Worker : Work(w) \/ \E d \in Delivery : Start(w, d)
  \/ \E d \in Delivery : NewDelivery(d) \/ RetryNow(d) \/ Drop(d)
  \/ Sweep \/ PurgeRemoved \/ RemoveAccount \/ SetPaused \/ DisableAll \/ EnableAll
  \/ Revoke \/ Reset \/ Tighten \/ Crash \/ Tick

Spec == Init /\ [][Next]_vars

\* Calls go on, the tick sweeps, and time passes; people and faults owe nothing.
Fairness ==
  /\ \A w \in Worker : WF_vars(Work(w))
  /\ WF_vars(Sweep)
  /\ WF_vars(Tick)

FairSpec == Spec /\ Fairness

-----------------------------------------------------------------------------
(* Properties *)

\* The types of all variables: rows, calls and histories as the code keeps them.
TypeOK ==
  /\ clock \in Nat
  /\ switch \in [enabled : BOOLEAN, paused : BOOLEAN, gen : Nat]
  /\ lineage \in BOOLEAN /\ account \in BOOLEAN /\ barrier \in {"open", "closed"}
  /\ row \in [Delivery -> [state : States, record : BOOLEAN, gen : Nat, seq : Nat, expires : Int,
                           next : Nat, attempts : Nat, lease : Nat, dead : Nat]]
  /\ counter \in Nat
  /\ charge \in [Delivery -> Int]
  /\ call \in [Worker -> [pc : Steps, job : Delivery \cup {"none"}, now : Nat, try : Nat, lease : Nat,
                          gen : Nat, deadline : Int, phase : Nat, outcome : {"none", "success", "failure"}]]
  /\ \A w \in Worker : call[w].pc # "idle" => call[w].job \in Delivery
  /\ written \in [Delivery -> Nat]
  /\ taken \in [Delivery -> SUBSET Nat]

\* What is being sent is the oldest row that has not ended (hasEarlierDelivery):
\* retries, recovered leases and releases let no later delivery in.
HeadOnly == \A d \in Delivery : row[d].state = "disclosing" => InOrder(d)

\* A row counts as delivered only if the peer took the request of its newest claim:
\* a late answer settles nothing but its own attempt (settleWebhookOutcome).
DeliveredMeansTaken == \A d \in Delivery : row[d].state = "delivered" => row[d].attempts \in taken[d]

\* Two requests of one delivery never wait for their answers at once: the
\* deadline falls before the lease's end, after which another call may claim.
OneRequestOut ==
  \A v, w \in Worker :
    At(v, "response") /\ At(w, "response") /\ call[v].job = call[w].job => v = w

\* No window of the cap's length holds more first claims than the cap, though each
\* claim is stamped with a time read before its awaits (claimDeliveryInTransaction).
CapHolds ==
  \A t \in 0..MaxTime :
    Cardinality({d \in Delivery : charge[d] # Uncharged /\ charge[d] > t - Window /\ charge[d] <= t}) <= Cap

\* Content is kept exactly as long as it may still be sent or dead-lettered:
\* no withdrawal, expiry, settlement or release leaves some behind or loses it.
ContentMatchesState ==
  \A d \in Delivery : /\ row[d].state \in Live => row[d].record
                      /\ row[d].record => row[d].state \in Live \cup {"dead-lettered"}

\* A call whose claim was taken over, ended or given back changes no row any more
\* (releaseDeliveryClaim, settleWebhookOutcome); a removed account's purge is not its claim's doing.
LateCallsChangeNothing ==
  [][\A w \in Worker :
       LET c == call[w] IN
       /\ call'[w] # c /\ c.pc \in Claimed /\ account
       /\ row[c.job].state # "disclosing" \/ row[c.job].attempts # c.try
       => row' = row]_vars

\* The pipeline implements the ordered, at-least-once promise.
Promise == INSTANCE OrderedDelivery WITH
  place  <- [d \in Delivery |-> IF row[d].state = "none" THEN 0 ELSE row[d].seq + 1],
  ended  <- {d \in Delivery : row[d].state \notin Live \cup {"none"}},
  done   <- {d \in Delivery : row[d].state = "delivered"},
  newest <- written

\* Every step of the daemon is a step the promise allows: nothing is sent out of
\* order, nothing after it ended, and nothing ends as delivered without an answer.
KeepsOrder == Promise!Spec

\* Whatever fails and whoever stops it, a delivery ends: sent, given up or expired.
EveryDeliveryEnds ==
  \A d \in Delivery : row[d].state \in Live ~> row[d].state \notin Live

-----------------------------------------------------------------------------
(* Why they hold: the inductive invariant of the proofs *)

Unsent == {"open", "prepare", "list", "final", "net"}
Asked  == {"response", "answered", "settle"}

RowOK(d) ==
  LET r == row[d] IN
  /\ IF r.state = "none" THEN r.attempts = 0 ELSE r.seq < counter
  /\ r.state \in Live => r.record
  /\ r.record => r.state \in Live \cup {"dead-lettered"}
  /\ r.state = "delivered" => r.attempts \in taken[d]
  /\ written[d] <= r.attempts

\* A claim with a newer one after it has run out, and one without still owns its row or the row ended.
CallOK(w) ==
  LET c == call[w]
      r == row[c.job]
  IN
  /\ c.pc \in {"preflight", "claim"} => c.now <= clock /\ c.phase = 0
  /\ c.pc \in Claimed => /\ 0 < c.try /\ c.try <= r.attempts
                         /\ c.deadline < c.lease
                         /\ c.try < r.attempts => c.lease <= clock
                         /\ c.try = r.attempts /\ r.state \in Live => r.state = "disclosing" /\ r.lease = c.lease
  /\ c.pc \in Unsent => written[c.job] # c.try
  /\ c.pc \in Asked => c.try <= written[c.job]
  /\ c.pc = "response" => Connects < c.phase
  /\ c.pc \in {"answered", "settle"} /\ c.outcome = "success" => c.try \in taken[c.job]

\* Claims have numbers of their own, and while an older one of the same delivery waits for
\* its answer a newer one gets through no network phase.
PairOK(v, w) ==
  call[v].pc \in Claimed /\ call[w].pc \in Claimed /\ call[v].job = call[w].job =>
    /\ call[v].try # call[w].try
    /\ At(v, "response") /\ call[v].try < call[w].try => call[w].phase <= 1

\* Rows, claims and requests agree, whoever was taken over, withdrawn or restarted: the
\* inductive invariant behind the order, the settlement and the single request.
ClaimInv ==
  /\ HeadOnly
  /\ \A d \in Delivery : RowOK(d)
  /\ \A w \in Worker : CallOK(w)
  /\ \A v, w \in Worker : v # w => PairOK(v, w)
=============================================================================
