------------------------------- MODULE Takes -------------------------------
(***************************************************************************)
(* Taking one message: the take record that sessions, the person and the    *)
(* event service read, settle and write under its lock, with the approvals   *)
(* a session prepares and sends under its take.                              *)
(*                                                                          *)
(* Records of different messages share nothing, so one record is modelled.   *)
(* Times are kept as what is left of, or has passed of, each bound.          *)
(***************************************************************************)
EXTENDS Integers, FiniteSets

CONSTANTS
  Caller,     \* identities of sessions: see CallerAssumption
  Approval,   \* approvals of acts that answer the message
  Delivery,   \* a rule's deliveries of the message
  Lease,      \* TAKE_LEASE_MS
  OfferTime,  \* TAKE_OFFER_MS
  Wait,       \* offerWait: how long an offer waits for its window
  ActTime,    \* bound: ticks between a gate and what it allows, less than Lease
  MaxPerson   \* bound: the person's acts

\* A caller's window is the truth the code cannot see.
ASSUME CallerAssumption ==
  \A c \in Caller : /\ c.grouped \in BOOLEAN /\ c.parent \in BOOLEAN
                    /\ DOMAIN c = {"win", "process", "key", "grouped", "sid", "parent"}
\* Whoever shares a process, an agent window's key or a session id is in one window.
ASSUME WindowAssumption ==
  \A c, d \in Caller :
    c.process = d.process \/ (c.grouped /\ d.grouped /\ c.key = d.key) \/ (c.sid # "no id" /\ c.sid = d.sid)
      => c.win = d.win
ASSUME TimeAssumption ==
  /\ Lease \in Nat /\ OfferTime \in Nat \ {0} /\ Wait \in Nat \ {0} /\ ActTime \in Nat \ {0} /\ ActTime < Lease
  /\ MaxPerson \in Nat

VARIABLES
  rec,       \* the take record as its file holds it
  required,  \* takingFor(config, account).required
  alive,     \* windows whose parent process runs
  appr,      \* approvals: their state, who prepares or sends them, the pin
  cut,       \* history: approvals whose take was ended on purpose, or with its window
  item,      \* each delivery's item, waiting for its window
  acts       \* the person's acts so far

vars == <<rec, required, alive, appr, cut, item, acts>>

Windows == {c.win : c \in Caller}
Waiting == -1     \* an offer's time while its item still waits (until: null)
Person  == [person |-> TRUE]
Nobody  == [person |-> FALSE]
NoId    == "no id"

-----------------------------------------------------------------------------
(* Who is who *)

\* Mutant of SameSession: without both ids to compare, nothing tells two sessions apart.
SameSessionByIds(h, c) == h.sid = NoId \/ c.sid = NoId \/ h.sid = c.sid

\* Two session ids decide; else the same process, or one agent window's key.
SameSession(h, c) ==
  IF h.sid # NoId /\ c.sid # NoId THEN h.sid = c.sid
  ELSE h.process = c.process \/ (h.grouped /\ c.grouped /\ h.key = c.key)

\* An offer names a window by its session id and key.
OfferedTo(to, c) == IF to.sid # NoId /\ c.sid # NoId THEN to.sid = c.sid ELSE c.grouped /\ to.key = c.key

\* Mutant of RefreshedHolder: the newest caller replaces what was known.
NewestHolder(h, c) == c

\* What a command in the window's shell does not say of itself stays as it was known.
RefreshedHolder(h, c) ==
  LET keep == h.grouped /\ ~c.grouped
      key  == IF keep THEN h ELSE c
  IN [win |-> c.win, key |-> key.key, grouped |-> key.grouped, process |-> key.process,
      sid |-> IF c.sid # NoId THEN c.sid ELSE h.sid, parent |-> c.parent \/ h.parent]

-----------------------------------------------------------------------------
(* The record *)

Blank == [state |-> "none", holder |-> Nobody, to |-> Nobody, by |-> "none", left |-> 0, age |-> 0,
          pins |-> {}, named |-> FALSE]
Opened == [Blank EXCEPT !.state = "open"]

Session(r) == r.state \in {"taken", "done"} /\ r.holder # Person
HoldsIt(r, c) == Session(r) /\ SameSession(r.holder, c)

\* elsewhere: someone else has it, or what the record says cannot be read.
Elsewhere(r, c) ==
  \/ r.state = "unreadable"
  \/ r.state = "offered" /\ ~OfferedTo(r.to, c)
  \/ r.state \in {"taken", "done"} /\ ~HoldsIt(r, c)

\* Mutant of PinLive: an approved send no longer waits.
PinPending(p) == appr[p].st = "pending"

\* An approval that waits: pending, or approved and not claimed.
PinLive(p) == appr[p].st \in {"pending", "approved"}

\* A delivery's offer its window was never handed.
WaitOver(r) == r.left = Waiting /\ r.age >= Wait

OfferOver(r) == r.state = "offered" /\ (r.left = 0 \/ WaitOver(r))
LeaseOver(r) == r.state = "taken" /\ Session(r) /\ r.age >= Lease /\ {p \in r.pins : PinLive(p)} = {}
ParentGone(r) == r.state = "taken" /\ Session(r) /\ r.holder.parent /\ r.holder.win \notin alive

\* What has lapsed by now; a holder's parent is looked at only when probing.
Settle(r, probe) ==
  IF OfferOver(r) \/ LeaseOver(r) \/ (probe /\ ParentGone(r)) THEN Opened
  ELSE [r EXCEPT !.pins = {p \in @ : PinLive(p)}]

\* The approvals of the window whose session holds r.
Under(r) == IF Session(r) THEN {p \in Approval : appr[p].st \notin {"new", "over"} /\ appr[p].by.win = r.holder.win} ELSE {}

\* Those whose take settling ends because its window is gone.
Orphaned(probe) == IF probe /\ ParentGone(rec) /\ ~LeaseOver(rec) THEN Under(rec) ELSE {}

\* Under its lock: read, settled, decided and written; `ended` are cut from their take.
Update(next, ended, probe) ==
  /\ rec' = next
  /\ cut' = cut \cup ended \cup Orphaned(probe)

\* The windows an offer can name: an agent window's key, with its session id if it has one.
Target == {[sid |-> c.sid, key |-> c.key] : c \in {c \in Caller : c.grouped}}

-----------------------------------------------------------------------------
(* A session's acts *)

Runs(c) == c.win \in alive

\* Mutant of Renewed: what a gate lets through does not count as an act.
RenewedLater(r, c) == [r EXCEPT !.holder = RefreshedHolder(@, c), !.named = @ \/ c.parent]

\* The holder acted: the lease runs from now.
Renewed(r, c) == [r EXCEPT !.holder = RefreshedHolder(@, c), !.age = 0, !.named = @ \/ c.parent]

\* The first take wins; one's own is renewed, one's own done message is taken again.
Take(c) ==
  LET r == Settle(rec, TRUE) IN
  /\ Runs(c)
  /\ ~Elsewhere(r, c)
  /\ IF r.state = "taken"
     THEN Update(Renewed(r, c), {}, TRUE)
     ELSE Update([Blank EXCEPT !.state = "taken", !.holder = c, !.named = c.parent], {}, TRUE)
  /\ UNCHANGED <<required, alive, appr, item, acts>>

\* A refused call of a session, or its look at a message before housekeeping: what
\* settling found is written.
Meet ==
  /\ alive # {}
  /\ rec.state # "unreadable"
  /\ Update(Settle(rec, TRUE), {}, TRUE)
  /\ UNCHANGED <<required, alive, appr, item, acts>>

\* The holder, or the window an offer is for, hands it back.
HandBack(c) ==
  LET r == Settle(rec, TRUE) IN
  /\ Runs(c)
  /\ r.state \in {"offered", "taken"} /\ ~Elsewhere(r, c)
  /\ Update(Opened, Under(r), TRUE)
  /\ UNCHANGED <<required, alive, appr, item, acts>>

\* Mutant of Done: the pins stay.
DoneKeepingPins(r) == [r EXCEPT !.state = "done", !.age = 0]

Done(r) == [r EXCEPT !.state = "done", !.age = 0, !.pins = {}]

\* The holder marks it done: its pins go, others stay refused.
Finish(c) ==
  LET r == Settle(rec, TRUE) IN
  /\ Runs(c)
  /\ r.state = "taken" /\ HoldsIt(r, c)
  /\ Update(Done(r), {}, TRUE)
  /\ appr' = [p \in Approval |-> IF p \in Under(r) THEN [appr[p] EXCEPT !.marked = FALSE] ELSE appr[p]]
  /\ UNCHANGED <<required, alive, item, acts>>

\* The gate lets c through: it holds the message, which renews its lease and pins it, or
\* nobody else has it and no take is required.
Gate(c, pins) ==
  LET r == Settle(rec, TRUE) IN
  /\ ~Elsewhere(r, c)
  /\ HoldsIt(r, c) \/ ~required
  /\ rec' = IF HoldsIt(r, c) /\ r.state = "taken" THEN [Renewed(r, c) EXCEPT !.pins = @ \cup pins] ELSE r

Held(c) == HoldsIt(Settle(rec, TRUE), c)

New == [st |-> "new", by |-> Nobody, held |-> FALSE, age |-> 0, pinning |-> FALSE, marked |-> FALSE]

\* Preparing a send asks the gate, then makes the approval.
Prepare(c, p) ==
  /\ Runs(c)
  /\ appr[p].st = "new"
  /\ Gate(c, {})
  /\ cut' = cut \cup Orphaned(TRUE)
  /\ appr' = [appr EXCEPT ![p] = [New EXCEPT !.st = "pending", !.by = c, !.pinning = TRUE]]
  /\ UNCHANGED <<required, alive, item, acts>>

\* Once the approval exists the take is pinned by it, or not if the gate now refuses.
Pin(p) ==
  LET c == appr[p].by IN
  /\ appr[p].pinning
  /\ cut' = cut \cup Orphaned(TRUE)
  /\ \/ /\ Gate(c, {p})
        /\ appr' = [appr EXCEPT ![p].pinning = FALSE, ![p].marked = p \in rec'.pins]
     \/ /\ Elsewhere(Settle(rec, TRUE), c) \/ (~Held(c) /\ required)
        /\ rec' = Settle(rec, TRUE)
        /\ appr' = [appr EXCEPT ![p].pinning = FALSE]
  /\ UNCHANGED <<required, alive, item, acts>>

Approve(p) ==
  /\ appr[p].st = "pending"
  /\ appr' = [appr EXCEPT ![p].st = "approved"]
  /\ UNCHANGED <<rec, required, alive, cut, item, acts>>

Over(p) ==
  /\ appr' = [appr EXCEPT ![p] = [New EXCEPT !.st = "over"]]
  /\ cut' = cut \ {p}

\* The approval expires, or is revoked, before its claim.
Withdraw(p) ==
  /\ appr[p].st \in {"pending", "approved"} /\ ~appr[p].pinning
  /\ Over(p)
  /\ UNCHANGED <<rec, required, alive, item, acts>>

\* Executing it, from any session, asks the gate again and claims it: from here the
\* approval no longer holds its pin.
Execute(c, p) ==
  /\ Runs(c)
  /\ appr[p].st = "approved" /\ ~appr[p].pinning
  /\ Gate(c, {})
  /\ cut' = (cut \cup Orphaned(TRUE)) \ {p}
  /\ appr' = [appr EXCEPT ![p] = [New EXCEPT !.st = "sending", !.by = c, !.held = Held(c)]]
  /\ UNCHANGED <<required, alive, item, acts>>

Sent(p) ==
  /\ appr[p].st = "sending"
  /\ Over(p)
  /\ UNCHANGED <<rec, required, alive, item, acts>>

-----------------------------------------------------------------------------
(* The person's acts: no process is looked at, and an unreadable record is replaced *)

PersonActs ==
  /\ acts < MaxPerson
  /\ acts' = acts + 1

Release ==
  LET r == Settle(rec, FALSE) IN
  /\ PersonActs
  /\ r.state # "none"
  /\ Update(Opened, Under(r), FALSE)
  /\ UNCHANGED <<required, alive, appr, item>>

Give(to) ==
  LET r == Settle(rec, FALSE) IN
  /\ PersonActs
  /\ Update([Blank EXCEPT !.state = "offered", !.to = to, !.by = "person",
                          !.left = OfferTime], Under(r), FALSE)
  /\ UNCHANGED <<required, alive, appr, item>>

Keep ==
  LET r == Settle(rec, FALSE) IN
  /\ PersonActs
  /\ Update([Blank EXCEPT !.state = "taken", !.holder = Person], Under(r), FALSE)
  /\ UNCHANGED <<required, alive, appr, item>>

Configure ==
  /\ PersonActs
  /\ required' = ~required
  /\ UNCHANGED <<rec, alive, appr, cut, item>>

-----------------------------------------------------------------------------
(* The event service *)

\* A delivery committed, the service offers the message as well as it can.
\* It never takes the message from anyone: only one that is nobody's is offered.
Offer(d, to) ==
  LET r == Settle(rec, TRUE) IN
  /\ item[d] = "none"
  /\ item' = [item EXCEPT ![d] = "waiting"]
  /\ \/ /\ r.state \in {"none", "open"}
        /\ \E left \in {Waiting, OfferTime} :
             Update([Blank EXCEPT !.state = "offered", !.to = to, !.by = d,
                                  !.left = left], {}, TRUE)
     \/ /\ r.state \notin {"none", "open"}
        /\ Update(r, {}, TRUE)
  /\ UNCHANGED <<required, alive, appr, acts>>

\* The item is closed, dropped, or its lane bound to another window.
Close(d) ==
  /\ item[d] = "waiting"
  /\ item' = [item EXCEPT ![d] = "gone"]
  /\ UNCHANGED <<rec, required, alive, appr, cut, acts>>

\* Mutant of WaitingOfferOf: any waiting offer will do.
AnyWaitingOffer(r, d) == r.state = "offered" /\ r.left = Waiting

\* The waiting offer that delivery d made, and no other.
WaitingOfferOf(r, d) == r.state = "offered" /\ r.by = d /\ r.left = Waiting

\* The window was woken for d's item: its offer now runs.
HandOffer(d) ==
  LET r == Settle(rec, FALSE) IN
  /\ item[d] \in {"waiting", "gone"}
  /\ rec.state \notin {"none", "unreadable"}
  /\ Update(IF WaitingOfferOf(r, d) THEN [r EXCEPT !.left = OfferTime, !.age = 0] ELSE r, {}, FALSE)
  /\ UNCHANGED <<required, alive, appr, item, acts>>

\* d's item no longer waits: its offer lapses.
LapseOffer(d) ==
  LET r == Settle(rec, FALSE) IN
  /\ item[d] = "gone"
  /\ rec.state \notin {"none", "unreadable"}
  /\ Update(IF WaitingOfferOf(r, d) THEN Opened ELSE r, {}, FALSE)
  /\ UNCHANGED <<required, alive, appr, item, acts>>

\* The sweep writes every lapse down.
Lapse ==
  /\ rec.state = "offered" \/ (rec.state = "taken" /\ Session(rec))
  /\ Update(Settle(rec, TRUE), {}, TRUE)
  /\ UNCHANGED <<required, alive, appr, item, acts>>

-----------------------------------------------------------------------------
(* Failures and time *)

WindowDies(x) ==
  /\ alive' = alive \ {x}
  /\ UNCHANGED <<rec, required, appr, cut, item, acts>>

\* The record can no longer be read.
Rot ==
  /\ PersonActs
  /\ rec.state # "none"
  /\ Update([Blank EXCEPT !.state = "unreadable"], Under(rec), FALSE)
  /\ UNCHANGED <<required, alive, appr, item>>

\* Thirty days after it last changed a record reads as none, and is pruned: long after
\* every act and every approval of its time is over.
Prune ==
  /\ \A p \in Approval : appr[p].st \in {"new", "over"}
  /\ rec.state # "none"
  /\ Update(Blank, {}, FALSE)
  /\ UNCHANGED <<required, alive, appr, item, acts>>

\* A prepare takes less than a tick, and what a claim's gate let through ends within ActTime.
Tick ==
  /\ \A p \in Approval : ~appr[p].pinning /\ (appr[p].st = "sending" => appr[p].age < ActTime)
  /\ rec' = [rec EXCEPT
       !.left = IF rec.state = "offered" /\ @ > 0 THEN @ - 1 ELSE @,
       !.age = LET bound == CASE rec.state = "offered" /\ rec.left = Waiting -> Wait
                              [] rec.state = "taken" /\ Session(rec)         -> Lease
                              [] OTHER                                       -> 0
               IN IF @ < bound THEN @ + 1 ELSE @]
  /\ appr' = [p \in Approval |-> IF appr[p].st = "sending" THEN [appr[p] EXCEPT !.age = @ + 1] ELSE appr[p]]
  /\ UNCHANGED <<required, alive, cut, item, acts>>

-----------------------------------------------------------------------------
Init ==
  /\ rec = Blank
  /\ required = TRUE
  /\ alive = Windows
  /\ appr = [p \in Approval |-> New]
  /\ cut = {}
  /\ item = [d \in Delivery |-> "none"]
  /\ acts = 0

Next ==
  \/ \E c \in Caller :
       \/ Take(c) \/ HandBack(c) \/ Finish(c)
       \/ \E p \in Approval : Prepare(c, p) \/ Execute(c, p)
  \/ \E p \in Approval : Pin(p) \/ Approve(p) \/ Withdraw(p) \/ Sent(p)
  \/ \E to \in Target : Give(to) \/ \E d \in Delivery : Offer(d, to)
  \/ \E d \in Delivery : Close(d) \/ HandOffer(d) \/ LapseOffer(d)
  \/ \E x \in alive : WindowDies(x)
  \/ Meet \/ Release \/ Keep \/ Configure \/ Lapse \/ Rot \/ Prune \/ Tick

Spec == Init /\ [][Next]_vars

-----------------------------------------------------------------------------
(* Properties *)

\* The types of all variables, and the shape takeRecordOf gives a record in each state.
TypeOK ==
  /\ rec.state \in {"none", "open", "offered", "taken", "done", "unreadable"}
  /\ (rec.holder # Nobody) = (rec.state \in {"taken", "done"}) /\ (rec.to # Nobody) = (rec.state = "offered")
  /\ rec.left \in Waiting..OfferTime /\ rec.age \in Nat
  /\ rec.pins \subseteq Approval /\ (rec.pins # {} => rec.state = "taken" /\ Session(rec))
  /\ required \in BOOLEAN /\ alive \subseteq Windows /\ cut \subseteq Approval /\ acts \in 0..MaxPerson
  /\ \A p \in Approval : appr[p].st \in {"new", "pending", "approved", "sending", "over"}
  /\ \A d \in Delivery : item[d] \in {"none", "waiting", "gone"}

\* Two windows are never at once past the gate of an act under a take of the message, unless a
\* person, a hand-back or the end of a window ended the earlier take: no lease runs out under
\* an act, no shell or other session passes for the holder.
OneWindowActs ==
  \A p, q \in Approval :
    /\ appr[p].st = "sending" /\ appr[q].st = "sending"
    /\ appr[p].held /\ appr[q].held
    /\ appr[p].by.win # appr[q].by.win
    => p \in cut \/ q \in cut

\* While an approval prepared under a take waits, its window keeps the take, however long
\* the wait: only the window, its end, or the person takes it away.
PinHolds ==
  \A p \in Approval :
    appr[p].marked /\ p \notin cut => rec.state = "taken" /\ Session(rec) /\ rec.holder.win = appr[p].by.win

Service == Lapse \/ \E d \in Delivery : HandOffer(d) \/ LapseOffer(d) \/ \E to \in Target : Offer(d, to)

\* The event service takes a message from nobody: it ends a take or an offer whose time is
\* over or whose window is gone, or the waiting offer of an item that is itself gone.
ServiceTakesNothing ==
  [][Service /\ rec.state \in {"offered", "taken", "done", "unreadable"} =>
       \/ rec'.state = rec.state /\ rec'.holder = rec.holder /\ rec'.to = rec.to /\ rec'.by = rec.by
       \/ rec.state = "offered" /\ (rec.left = 0 \/ (rec.left = Waiting /\ rec.age >= Wait))
       \/ rec.state = "offered" /\ rec.left = Waiting /\ rec.by \in Delivery /\ item[rec.by] = "gone"
       \/ rec.state = "taken" /\ Session(rec) /\ (rec.age >= Lease \/ rec.holder.win \notin alive)]_vars

\* A sweep leaves nothing that holds others off past its time: no offer that is over, handed
\* to its window or not, and no take of a window that is gone, although commands in its
\* shell, which name no parent, renewed it, and although an approval still waits under it.
SweepEndsHolds ==
  [][Lapse => /\ rec.state = "offered" /\ (rec.left = 0 \/ (rec.left = Waiting /\ rec.age >= Wait)) => rec'.state = "open"
              /\ rec.state = "taken" /\ rec.named /\ rec.holder.win \notin alive => rec'.state = "open"]_vars
=============================================================================
