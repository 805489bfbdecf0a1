---------------------------- MODULE Takes_proofs ----------------------------
(***************************************************************************)
(* What holds of Takes for every set of callers, approvals and deliveries and  *)
(* every length of lease and offer: one window acts under a take, an approval   *)
(* that waits keeps its window's take, and the service takes from nobody.       *)
(***************************************************************************)
EXTENDS Takes, TLAPS

RecFields    == {"state", "holder", "to", "by", "left", "age", "pins", "named"}
ApprFields   == {"st", "by", "held", "age", "pinning", "marked"}
CallerFields == {"win", "process", "key", "grouped", "sid", "parent"}

-----------------------------------------------------------------------------
(* Who is who *)

\* What identifies h was said by callers of its window.
Known(h) ==
  /\ DOMAIN h = CallerFields /\ h.grouped \in BOOLEAN /\ h.parent \in BOOLEAN
  /\ \E c \in Caller : c.win = h.win /\ c.process = h.process
  /\ h.grouped => \E c \in Caller : c.win = h.win /\ c.grouped /\ c.key = h.key
  /\ h.sid # NoId => \E c \in Caller : c.win = h.win /\ c.sid = h.sid

LEMMA CallerKnown == \A c \in Caller : Known(c)
  BY CallerAssumption DEF Known, CallerFields

LEMMA KnownIsSession == \A h : Known(h) => h # Person /\ h # Nobody
<1>1. "win" \notin DOMAIN Person /\ "win" \notin DOMAIN Nobody
  BY DEF Person, Nobody
<1> QED
  BY <1>1 DEF Known, CallerFields

\* Nobody passes for a holder of another window.
LEMMA SameWindow ==
  ASSUME NEW h, Known(h), NEW c \in Caller, SameSession(h, c)
  PROVE  h.win = c.win
  BY WindowAssumption DEF SameSession, Known, NoId

LEMMA RefreshedKnown ==
  ASSUME NEW h, Known(h), NEW c \in Caller, h.win = c.win
  PROVE  /\ Known(RefreshedHolder(h, c)) /\ RefreshedHolder(h, c).win = h.win
         /\ RefreshedHolder(h, c).parent = (c.parent \/ h.parent)
<1> DEFINE n == RefreshedHolder(h, c)
<1>1. Known(c)
  BY CallerKnown
<1>2. DOMAIN n = CallerFields /\ n.win = c.win /\ n.parent = (c.parent \/ h.parent)
  BY DEF RefreshedHolder, CallerFields
<1>3. n.parent \in BOOLEAN
  BY <1>1, <1>2 DEF Known
<1>4. \/ n.key = h.key /\ n.grouped = h.grouped /\ n.process = h.process
      \/ n.key = c.key /\ n.grouped = c.grouped /\ n.process = c.process
  BY DEF RefreshedHolder
<1>5. n.sid = c.sid \/ n.sid = h.sid
  BY DEF RefreshedHolder
<1> HIDE DEF n
<1>6. n.grouped \in BOOLEAN
  BY <1>1, <1>4, Zenon DEF Known
<1>7. \E d \in Caller : d.win = n.win /\ d.process = n.process
  BY <1>2, <1>4 DEF Known
<1>8. n.grouped => \E d \in Caller : d.win = n.win /\ d.grouped /\ d.key = n.key
  BY <1>2, <1>4 DEF Known
<1>9. n.sid # NoId => \E d \in Caller : d.win = n.win /\ d.sid = n.sid
  BY <1>2, <1>5 DEF Known
<1>10. Known(n) /\ n.win = h.win
  BY <1>2, <1>3, <1>6, <1>7, <1>8, <1>9 DEF Known
<1> QED
  BY <1>2, <1>10, Zenon DEF n

-----------------------------------------------------------------------------
(* Records *)

States == {"none", "open", "offered", "taken", "done", "unreadable"}

\* A record as takeRecordOf shapes it.
RecordOK(r) ==
  /\ DOMAIN r = RecFields /\ r.state \in States
  /\ r.state \in {"taken", "done"} => r.holder = Person \/ Known(r.holder)
  /\ r.state \notin {"taken", "done"} => r.holder = Nobody
  /\ (r.to # Nobody) = (r.state = "offered")
  /\ r.left \in Waiting..OfferTime /\ r.age \in Nat
  /\ r.pins \subseteq Approval /\ (r.pins # {} => r.state = "taken" /\ Session(r))
  /\ r.named \in BOOLEAN
  /\ r.named /\ r.state = "taken" /\ Session(r) => r.holder.parent

\* An approval: by whom, and what pins it.
ApprovalOK(p) ==
  /\ DOMAIN appr[p] = ApprFields
  /\ appr[p].st \in {"new", "pending", "approved", "sending", "over"}
  /\ appr[p].st \in {"pending", "approved", "sending"} => appr[p].by \in Caller
  /\ appr[p].held \in BOOLEAN /\ appr[p].pinning \in BOOLEAN /\ appr[p].marked \in BOOLEAN
  /\ appr[p].pinning \/ appr[p].marked => PinLive(p)
  /\ appr[p].age \in Nat
  /\ appr[p].st = "sending" => appr[p].age <= ActTime

\* An approval that its window's take must carry.
Engaged(q) == appr[q].marked \/ (appr[q].st = "sending" /\ appr[q].held)

\* r is the take of q's window: pinned by q while it waits, younger than q's act.
Anchored(r, q) ==
  /\ Session(r) /\ r.holder.win = appr[q].by.win
  /\ appr[q].marked => r.state = "taken" /\ q \in r.pins
  /\ appr[q].st = "sending" /\ r.state = "taken" => r.age <= appr[q].age

TakesInv ==
  /\ RecordOK(rec)
  /\ DOMAIN appr = Approval /\ \A p \in Approval : ApprovalOK(p)
  /\ required \in BOOLEAN /\ alive \subseteq Windows /\ cut \subseteq Approval /\ acts \in 0..MaxPerson
  /\ DOMAIN item = Delivery /\ \A d \in Delivery : item[d] \in {"none", "waiting", "gone"}
  /\ \A q \in Approval : Engaged(q) /\ q \notin cut => Anchored(rec, q)

\* A record of a new state.
LEMMA FreshRecord ==
  ASSUME NEW r, DOMAIN r = RecFields, r.state \in States, r.left \in {0, Waiting, OfferTime}, r.age = 0, r.pins = {},
         r.named \in BOOLEAN,
         r.state \in {"taken", "done"} => r.holder = Person \/ Known(r.holder),
         r.state \notin {"taken", "done"} => r.holder = Nobody,
         (r.to # Nobody) = (r.state = "offered"),
         r.named /\ r.state = "taken" /\ Session(r) => r.holder.parent
  PROVE  RecordOK(r)
<1>1. r.left \in Waiting..OfferTime /\ r.age \in Nat
  BY TimeAssumption DEF Waiting
<1> QED
  BY <1>1 DEF RecordOK

LEMMA BlankFields ==
  /\ DOMAIN Blank = RecFields /\ Blank.state = "none" /\ Blank.holder = Nobody /\ Blank.to = Nobody
  /\ Blank.left = 0 /\ Blank.age = 0 /\ Blank.pins = {} /\ Blank.named = FALSE
  BY DEF Blank, RecFields

\* None, open, unreadable.
LEMMA BlankShapes ==
  /\ RecordOK(Blank) /\ RecordOK(Opened) /\ ~Session(Blank) /\ ~Session(Opened)
  /\ RecordOK([Blank EXCEPT !.state = "unreadable"]) /\ ~Session([Blank EXCEPT !.state = "unreadable"])
  /\ Blank.state = "none" /\ Opened.state = "open" /\ [Blank EXCEPT !.state = "unreadable"].state = "unreadable"
<1>1. ASSUME NEW s \in {"open", "unreadable"}, NEW r, r = [Blank EXCEPT !.state = s]
      PROVE  RecordOK(r) /\ ~Session(r) /\ r.state = s
  <2>1. /\ DOMAIN r = RecFields /\ r.state = s /\ r.holder = Nobody /\ r.to = Nobody
        /\ r.left = 0 /\ r.age = 0 /\ r.pins = {} /\ r.named = FALSE
    BY <1>1, BlankFields DEF RecFields
  <2>2. r.named \in BOOLEAN
    BY <2>1, Zenon
  <2> QED
    BY <2>1, <2>2, FreshRecord DEF Session, States
<1>2. RecordOK(Blank) /\ ~Session(Blank) /\ Blank.state = "none"
  <2>1. Blank.named \in BOOLEAN
    BY BlankFields, Zenon
  <2> QED
    BY <2>1, BlankFields, FreshRecord DEF Session, States
<1> QED
  BY <1>1, <1>2 DEF Opened

\* A take of a caller, of the person, an offer.
LEMMA TakenShape ==
  ASSUME NEW c \in Caller, NEW r, r = [Blank EXCEPT !.state = "taken", !.holder = c, !.named = c.parent]
  PROVE  RecordOK(r) /\ Session(r) /\ r.state = "taken" /\ r.holder = c /\ r.age = 0 /\ r.pins = {}
<1>1. /\ DOMAIN r = RecFields /\ r.state = "taken" /\ r.holder = c /\ r.to = Nobody
      /\ r.left = 0 /\ r.age = 0 /\ r.pins = {} /\ r.named = c.parent
  BY BlankFields DEF RecFields
<1>2. Known(c) /\ c # Person
  BY CallerKnown, KnownIsSession
<1>3. c.parent \in BOOLEAN
  BY <1>2 DEF Known
<1>4. r.named \in BOOLEAN /\ (r.named => r.holder.parent)
  BY <1>1, <1>3, Zenon
<1> QED
  BY <1>1, <1>2, <1>4, FreshRecord DEF Session, States

LEMMA KeptShape ==
  ASSUME NEW r, r = [Blank EXCEPT !.state = "taken", !.holder = Person]
  PROVE  RecordOK(r) /\ ~Session(r) /\ r.state = "taken"
<1>1. /\ DOMAIN r = RecFields /\ r.state = "taken" /\ r.holder = Person /\ r.to = Nobody
      /\ r.left = 0 /\ r.age = 0 /\ r.pins = {} /\ r.named = FALSE
  BY BlankFields DEF RecFields
<1>2. r.named \in BOOLEAN
  BY <1>1, Zenon
<1> QED
  BY <1>1, <1>2, FreshRecord DEF Session, States

LEMMA OfferedShape ==
  ASSUME NEW to \in Target, NEW by, NEW left \in {Waiting, OfferTime}, NEW r,
         r = [Blank EXCEPT !.state = "offered", !.to = to, !.by = by, !.left = left]
  PROVE  RecordOK(r) /\ ~Session(r) /\ r.state = "offered"
<1>1. /\ DOMAIN r = RecFields /\ r.state = "offered" /\ r.holder = Nobody /\ r.to = to
      /\ r.left = left /\ r.age = 0 /\ r.pins = {} /\ r.named = FALSE
  BY BlankFields DEF RecFields
<1>2. to # Nobody
  <2>1. "sid" \in DOMAIN to /\ "sid" \notin DOMAIN Nobody
    BY DEF Target, Nobody
  <2> QED
    BY <2>1
<1>3. r.named \in BOOLEAN
  BY <1>1, Zenon
<1> QED
  BY <1>1, <1>2, <1>3, FreshRecord DEF Session, States

-----------------------------------------------------------------------------
(* Settling, renewing *)

\* A record with other pins.
LEMMA PinnedShape ==
  ASSUME NEW r, RecordOK(r), NEW P \in SUBSET Approval, P # {} => r.state = "taken" /\ Session(r),
         NEW n, n = [r EXCEPT !.pins = P]
  PROVE  /\ RecordOK(n) /\ n.state = r.state /\ n.holder = r.holder /\ n.to = r.to /\ n.by = r.by
         /\ n.left = r.left /\ n.age = r.age /\ n.pins = P /\ (Session(n) <=> Session(r))
<1>1. /\ DOMAIN n = RecFields /\ n.state = r.state /\ n.holder = r.holder /\ n.to = r.to /\ n.by = r.by
      /\ n.left = r.left /\ n.age = r.age /\ n.pins = P
  BY DEF RecordOK, RecFields
<1>2. n.named = r.named
  BY DEF RecordOK, RecFields
<1>3. n.named \in BOOLEAN /\ (n.named => r.named)
  BY <1>2, Zenon DEF RecordOK
<1>4. Session(n) <=> Session(r)
  BY <1>1 DEF Session
<1>5. (n.to # Nobody) = (n.state = "offered")
  BY <1>1 DEF RecordOK
<1> QED
  BY <1>1, <1>3, <1>4, <1>5 DEF RecordOK

\* What the record says once it is settled, if it is not opened.
Trimmed == [rec EXCEPT !.pins = {p \in rec.pins : PinLive(p)}]

LEMMA TrimmedShape ==
  ASSUME RecordOK(rec)
  PROVE  /\ RecordOK(Trimmed) /\ (Session(Trimmed) <=> Session(rec))
         /\ Trimmed.state = rec.state /\ Trimmed.holder = rec.holder /\ Trimmed.to = rec.to /\ Trimmed.by = rec.by
         /\ Trimmed.left = rec.left /\ Trimmed.age = rec.age
         /\ Trimmed.pins = {p \in rec.pins : PinLive(p)}
<1> DEFINE P == {p \in rec.pins : PinLive(p)}
<1>1. P \subseteq rec.pins
  OBVIOUS
<1> HIDE DEF P
<1>2. P \in SUBSET Approval /\ (P # {} => rec.state = "taken" /\ Session(rec))
  BY <1>1 DEF RecordOK
<1>3. Trimmed = [rec EXCEPT !.pins = P]
  BY DEF Trimmed, P
<1> HIDE DEF Trimmed
<1>4. /\ RecordOK(Trimmed) /\ (Session(Trimmed) <=> Session(rec))
      /\ Trimmed.state = rec.state /\ Trimmed.holder = rec.holder /\ Trimmed.to = rec.to /\ Trimmed.by = rec.by
      /\ Trimmed.left = rec.left /\ Trimmed.age = rec.age /\ Trimmed.pins = P
  BY <1>2, <1>3, PinnedShape
<1> QED
  BY <1>4 DEF P

\* Settling opens what is over, cutting the approvals of a window that is gone, and else only trims.
LEMMA SettleForms ==
  ASSUME TakesInv, NEW probe \in BOOLEAN
  PROVE  LET r == Settle(rec, probe) IN
         /\ RecordOK(r)
         /\ r = Opened \/ r = Trimmed
         /\ OfferOver(rec) \/ LeaseOver(rec) \/ (probe /\ ParentGone(rec)) => r = Opened
         /\ ~(OfferOver(rec) \/ LeaseOver(rec) \/ (probe /\ ParentGone(rec))) => r = Trimmed
         /\ Orphaned(probe) \subseteq Approval
         /\ \A q \in Approval : Engaged(q) /\ q \notin cut \cup Orphaned(probe) => r = Trimmed /\ Anchored(r, q)
<1> DEFINE r == Settle(rec, probe)
<1>1. RecordOK(rec) /\ RecordOK(Trimmed) /\ RecordOK(Opened) /\ ~Session(Opened)
  BY TrimmedShape, BlankShapes DEF TakesInv
<1>2. r = Opened \/ r = Trimmed
  BY DEF Settle, Trimmed
<1>3. OfferOver(rec) \/ LeaseOver(rec) \/ (probe /\ ParentGone(rec)) => r = Opened
  BY DEF Settle
<1>4. ~(OfferOver(rec) \/ LeaseOver(rec) \/ (probe /\ ParentGone(rec))) => r = Trimmed
  BY DEF Settle, Trimmed
<1>5. Orphaned(probe) \subseteq Approval
  BY DEF Orphaned, Under
<1>6. ASSUME NEW q \in Approval, Engaged(q), q \notin cut \cup Orphaned(probe)
      PROVE  r = Trimmed /\ Anchored(r, q)
  <2>1. Anchored(rec, q) /\ ApprovalOK(q)
    BY <1>6 DEF TakesInv
  <2>2. Session(rec) /\ rec.state \in {"taken", "done"} /\ rec.holder.win = appr[q].by.win
    BY <2>1 DEF Anchored, Session
  <2>3. appr[q].st \in {"pending", "approved", "sending"}
    BY <1>6, <2>1 DEF Engaged, ApprovalOK, PinLive
  <2>4. q \in Under(rec)
    BY <2>2, <2>3 DEF Under
  <2>5. ~OfferOver(rec)
    BY <2>2 DEF OfferOver
  <2>6. ~LeaseOver(rec)
    <3>1. CASE appr[q].marked
      BY <2>1, <3>1 DEF Anchored, ApprovalOK, LeaseOver
    <3>2. CASE ~appr[q].marked
      BY <1>1, <1>6, <2>1, <3>2, TimeAssumption DEF Anchored, ApprovalOK, LeaseOver, Engaged, RecordOK
    <3> QED
      BY <3>1, <3>2
  <2>7. ~(probe /\ ParentGone(rec))
    BY <1>6, <2>4, <2>6 DEF Orphaned
  <2>8. r = Trimmed
    BY <2>5, <2>6, <2>7 DEF Settle, Trimmed
  <2>9. Anchored(Trimmed, q)
    BY <1>1, <2>1, TrimmedShape DEF Anchored, ApprovalOK
  <2> QED
    BY <2>8, <2>9
<1> QED
  BY <1>1, <1>2, <1>3, <1>4, <1>5, <1>6

\* The holder acts: the record stays its take, from now.
LEMMA RenewedShape ==
  ASSUME NEW r, RecordOK(r), NEW c \in Caller, HoldsIt(r, c), r.state = "taken"
  PROVE  LET n == Renewed(r, c) IN
         /\ RecordOK(n) /\ Session(n) /\ n.state = "taken" /\ n.age = 0 /\ n.pins = r.pins
         /\ r.holder.win = c.win /\ n.holder.win = c.win
<1>1. Known(r.holder) /\ SameSession(r.holder, c) /\ Session(r)
  BY DEF HoldsIt, Session, RecordOK
<1>2. r.holder.win = c.win
  BY <1>1, SameWindow
<1> DEFINE h == RefreshedHolder(r.holder, c)
<1>3. Known(h) /\ h.win = r.holder.win /\ h.parent = (c.parent \/ r.holder.parent)
  BY <1>1, <1>2, RefreshedKnown
<1>4. h # Person /\ h # Nobody
  BY <1>3, KnownIsSession
<1> HIDE DEF h
<1> DEFINE n == [r EXCEPT !.holder = h, !.age = 0, !.named = r.named \/ c.parent]
<1>5. /\ DOMAIN n = RecFields /\ n.state = r.state /\ n.holder = h /\ n.to = r.to /\ n.left = r.left
      /\ n.age = 0 /\ n.pins = r.pins
  BY DEF RecordOK, RecFields
<1>6. n.named = (r.named \/ c.parent)
  BY DEF RecordOK, RecFields
<1>7. n = Renewed(r, c)
  BY DEF Renewed, h
<1> HIDE DEF n
<1>8. n.named \in BOOLEAN /\ (n.named => n.holder.parent)
  <2>1. r.named \in BOOLEAN /\ c.parent \in BOOLEAN /\ r.holder.parent \in BOOLEAN /\ (r.named => r.holder.parent)
    BY <1>1, CallerAssumption DEF RecordOK, Known
  <2>2. n.named \in BOOLEAN /\ (n.named => r.named \/ c.parent)
    BY <1>6, Zenon
  <2>3. r.named \/ c.parent => h.parent
    BY <1>3, <2>1, Zenon
  <2> QED
    BY <1>5, <2>2, <2>3
<1>9. Session(n)
  BY <1>4, <1>5 DEF Session
<1>10. RecordOK(n)
  <2>1. n.left \in Waiting..OfferTime /\ n.age \in Nat /\ n.pins \subseteq Approval
    BY <1>5 DEF RecordOK
  <2>2. (n.to # Nobody) = (n.state = "offered")
    BY <1>5 DEF RecordOK
  <2> QED
    BY <1>3, <1>5, <1>8, <1>9, <2>1, <2>2 DEF RecordOK, States
<1> QED
  BY <1>2, <1>3, <1>5, <1>7, <1>9, <1>10

\* A record that is done.
LEMMA DoneShape ==
  ASSUME NEW r, RecordOK(r), r.state = "taken"
  PROVE  /\ RecordOK(Done(r)) /\ Done(r).state = "done" /\ Done(r).holder = r.holder
         /\ (Session(Done(r)) <=> Session(r))
<1> DEFINE n == Done(r)
<1>1. /\ DOMAIN n = RecFields /\ n.state = "done" /\ n.holder = r.holder /\ n.to = r.to
      /\ n.left = r.left /\ n.age = 0 /\ n.pins = {}
  BY DEF Done, RecordOK, RecFields
<1>2. n.named = r.named
  BY DEF Done, RecordOK, RecFields
<1> HIDE DEF n
<1>3. n.named \in BOOLEAN
  BY <1>2, Zenon DEF RecordOK
<1>4. Session(n) <=> Session(r)
  BY <1>1 DEF Session
<1>5. n.to = Nobody
  BY <1>1 DEF RecordOK
<1>6. RecordOK(n)
  BY <1>1, <1>3, <1>4, <1>5 DEF RecordOK, States
<1> QED
  BY <1>1, <1>4, <1>6 DEF n

-----------------------------------------------------------------------------
(* Steps that leave every approval as it is *)

Others == required' \in BOOLEAN /\ alive' \subseteq Windows /\ acts' \in 0..MaxPerson
          /\ DOMAIN item' = Delivery /\ \A d \in Delivery : item'[d] \in {"none", "waiting", "gone"}

LEMMA SameOthers == ASSUME TakesInv PROVE UNCHANGED <<required, alive, acts, item>> => Others
  BY DEF TakesInv, Others

LEMMA QuietApproval ==
  ASSUME NEW q \in Approval, appr'[q] = appr[q]
  PROVE  (Engaged(q)' <=> Engaged(q)) /\ (Anchored(rec, q)' <=> Anchored(rec', q)) /\ (ApprovalOK(q)' <=> ApprovalOK(q))
  BY DEF Engaged, Anchored, ApprovalOK, PinLive, Session

LEMMA RecordStep ==
  ASSUME TakesInv, Others, appr' = appr, RecordOK(rec'), cut' \subseteq Approval,
         \A q \in Approval : Engaged(q) /\ q \notin cut' => Anchored(rec', q)
  PROVE  TakesInv'
<1>1. RecordOK(rec)'
  BY DEF RecordOK, Session, Known
<1>2. \A q \in Approval : ApprovalOK(q)' /\ (Engaged(q)' /\ q \notin cut' => Anchored(rec, q)')
  BY QuietApproval DEF TakesInv
<1> QED
  BY <1>1, <1>2 DEF TakesInv, Others

\* What the gate lets through leaves a take of the caller's window, or the record as settled.
LEMMA GateForm ==
  ASSUME TakesInv, NEW c \in Caller, NEW P \in SUBSET Approval, Gate(c, P)
  PROVE  /\ RecordOK(rec')
         /\ \A q \in Approval : Engaged(q) /\ q \notin cut \cup Orphaned(TRUE) => Anchored(rec', q)
         /\ Held(c) => /\ Session(rec') /\ rec'.holder.win = c.win
                       /\ rec'.state = "taken" => rec'.age = 0 /\ P \subseteq rec'.pins
         /\ rec'.pins # {} => Held(c)
<1> DEFINE r == Settle(rec, TRUE)
<1>1. /\ RecordOK(r) /\ (r = Opened \/ r = Trimmed)
      /\ \A q \in Approval : Engaged(q) /\ q \notin cut \cup Orphaned(TRUE) => r = Trimmed /\ Anchored(r, q)
  BY SettleForms
<1>2. ~Elsewhere(r, c) /\ Held(c) = HoldsIt(r, c)
  BY DEF Gate, Held
<1> HIDE DEF r
<1>3. CASE HoldsIt(r, c) /\ r.state = "taken"
  <2> DEFINE m == Renewed(r, c)
             Q == r.pins \cup P
  <2>1. /\ RecordOK(m) /\ Session(m) /\ m.state = "taken" /\ m.age = 0 /\ m.pins = r.pins
        /\ r.holder.win = c.win /\ m.holder.win = c.win
    BY <1>1, <1>3, RenewedShape
  <2>2. rec' = [m EXCEPT !.pins = m.pins \cup P]
    BY <1>3 DEF Gate, r
  <2> HIDE DEF m
  <2>3. Q \in SUBSET Approval /\ rec' = [m EXCEPT !.pins = Q]
    BY <1>1, <2>1, <2>2 DEF RecordOK
  <2>4. /\ RecordOK(rec') /\ rec'.state = m.state /\ rec'.holder = m.holder /\ rec'.age = m.age /\ rec'.pins = Q
        /\ (Session(rec') <=> Session(m))
    <3> HIDE DEF Q
    <3> QED
      BY <2>1, <2>3, PinnedShape
  <2>5. ASSUME NEW q \in Approval, Engaged(q), q \notin cut \cup Orphaned(TRUE)
        PROVE  Anchored(rec', q)
    <3>1. Anchored(r, q) /\ ApprovalOK(q)
      BY <1>1, <2>5 DEF TakesInv
    <3> QED
      BY <2>1, <2>4, <3>1 DEF Anchored, ApprovalOK
  <2> QED
    BY <1>2, <1>3, <2>1, <2>4, <2>5
<1>4. CASE ~(HoldsIt(r, c) /\ r.state = "taken")
  <2>1. rec' = r
    BY <1>4 DEF Gate, r
  <2>2. HoldsIt(r, c) => Session(r) /\ r.holder.win = c.win /\ r.state # "taken"
    BY <1>1, <1>4, SameWindow DEF HoldsIt, Session, RecordOK
  <2>3. r.pins = {}
    BY <1>1, <1>2, <1>4 DEF RecordOK, Elsewhere
  <2> QED
    BY <1>1, <1>2, <2>1, <2>2, <2>3
<1> QED
  BY <1>3, <1>4

\* A take: of one's own, or of what nobody else has.
LEMMA TakeStep ==
  ASSUME TakesInv, NEW c \in Caller, Take(c)
  PROVE  TakesInv'
<1> DEFINE r == Settle(rec, TRUE)
<1>1. /\ RecordOK(r) /\ (r = Opened \/ r = Trimmed) /\ Orphaned(TRUE) \subseteq Approval
      /\ \A q \in Approval : Engaged(q) /\ q \notin cut \cup Orphaned(TRUE) => r = Trimmed /\ Anchored(r, q)
  BY SettleForms
<1>2. ~Elsewhere(r, c) /\ cut' = cut \cup Orphaned(TRUE) /\ appr' = appr /\ Others
  BY SameOthers DEF Take, Update
<1>3. \/ r.state = "taken" /\ rec' = Renewed(r, c)
      \/ r.state # "taken" /\ rec' = [Blank EXCEPT !.state = "taken", !.holder = c, !.named = c.parent]
  BY DEF Take, Update
<1> HIDE DEF r
<1>4. RecordOK(rec') /\ \A q \in Approval : Engaged(q) /\ q \notin cut' => Anchored(rec', q)
  <2>1. CASE r.state = "taken"
    <3>1. HoldsIt(r, c) /\ rec' = Renewed(r, c)
      BY <1>2, <1>3, <2>1 DEF Elsewhere
    <3>2. /\ RecordOK(rec') /\ Session(rec') /\ rec'.state = "taken" /\ rec'.age = 0 /\ rec'.pins = r.pins
          /\ rec'.holder.win = r.holder.win
      BY <1>1, <2>1, <3>1, RenewedShape
    <3>3. ASSUME NEW q \in Approval, Engaged(q), q \notin cut'
          PROVE  Anchored(rec', q)
      <4>1. Anchored(r, q) /\ ApprovalOK(q)
        BY <1>1, <1>2, <3>3 DEF TakesInv
      <4> QED
        BY <3>2, <4>1 DEF Anchored, ApprovalOK
    <3> QED
      BY <3>2, <3>3
  <2>2. CASE r.state # "taken"
    <3>1. RecordOK(rec') /\ Session(rec') /\ rec'.state = "taken" /\ rec'.holder = c /\ rec'.age = 0
      BY <1>3, <2>2, TakenShape
    <3>2. ASSUME NEW q \in Approval, Engaged(q), q \notin cut'
          PROVE  Anchored(rec', q)
      <4>1. Anchored(r, q) /\ ApprovalOK(q)
        BY <1>1, <1>2, <3>2 DEF TakesInv
      <4>2. Session(r) /\ r.state = "done" /\ ~appr[q].marked
        BY <2>2, <4>1 DEF Anchored, Session
      <4>3. HoldsIt(r, c)
        BY <1>2, <4>2 DEF Elsewhere
      <4>4. r.holder.win = c.win
        BY <1>1, <4>2, <4>3, SameWindow DEF HoldsIt, RecordOK, Session
      <4> QED
        BY <3>1, <4>1, <4>2, <4>4 DEF Anchored, ApprovalOK
    <3> QED
      BY <3>1, <3>2
  <2> QED
    BY <2>1, <2>2
<1>5. cut' \subseteq Approval
  BY <1>1, <1>2 DEF TakesInv
<1> QED
  BY <1>2, <1>4, <1>5, RecordStep

\* Settling, and nothing else.
LEMMA SettleStep ==
  ASSUME TakesInv, Others, appr' = appr, NEW probe \in BOOLEAN, rec' = Settle(rec, probe), cut' = cut \cup Orphaned(probe)
  PROVE  TakesInv'
<1>1. /\ RecordOK(rec') /\ Orphaned(probe) \subseteq Approval
      /\ \A q \in Approval : Engaged(q) /\ q \notin cut \cup Orphaned(probe) => Anchored(rec', q)
  BY SettleForms
<1>2. cut' \subseteq Approval
  BY <1>1 DEF TakesInv
<1> QED
  BY <1>1, <1>2, RecordStep

\* The acts that end a take cut every approval of its window.
LEMMA EndingStep ==
  ASSUME TakesInv, Others, appr' = appr, RecordOK(rec'), NEW probe \in BOOLEAN, NEW r,
         r = Settle(rec, probe) \/ r = rec, cut' = cut \cup Under(r) \cup Orphaned(probe)
  PROVE  TakesInv'
<1>1. /\ Orphaned(probe) \subseteq Approval
      /\ \A q \in Approval : Engaged(q) /\ q \notin cut \cup Orphaned(probe) => Anchored(r, q)
  BY SettleForms DEF TakesInv
<1>2. \A q \in Approval : Engaged(q) => appr[q].st \in {"pending", "approved", "sending"}
  BY DEF TakesInv, ApprovalOK, Engaged, PinLive
<1>3. \A q \in Approval : ~(Engaged(q) /\ q \notin cut')
  BY <1>1, <1>2 DEF Anchored, Under
<1>4. cut' \subseteq Approval
  BY <1>1 DEF TakesInv, Under
<1> QED
  BY <1>3, <1>4, RecordStep

\* Opened, given, kept, unreadable.
LEMMA PersonSteps ==
  ASSUME TakesInv,
         \/ \E c \in Caller : HandBack(c)
         \/ \E to \in Target : Give(to)
         \/ Release \/ Keep \/ Rot
  PROVE  TakesInv'
<1>1. Others
  <2>1. acts' = acts \/ (acts < MaxPerson /\ acts' = acts + 1)
    BY DEF HandBack, Give, Release, Keep, Rot, PersonActs
  <2>2. acts' \in 0..MaxPerson
    BY <2>1, TimeAssumption DEF TakesInv
  <2> QED
    BY <2>2 DEF Others, TakesInv, HandBack, Give, Release, Keep, Rot
<1>2. appr' = appr
  BY DEF HandBack, Give, Release, Keep, Rot
<1>3. CASE \E c \in Caller : HandBack(c)
  BY <1>1, <1>2, <1>3, BlankShapes, EndingStep DEF HandBack, Update
<1>4. CASE Release
  BY <1>1, <1>2, <1>4, BlankShapes, EndingStep DEF Release, Update
<1>5. CASE Rot
  BY <1>1, <1>2, <1>5, BlankShapes, EndingStep DEF Rot, Update
<1>6. CASE Keep
  <2>1. RecordOK(rec')
    BY <1>6, KeptShape DEF Keep, Update
  <2> QED
    BY <1>1, <1>2, <1>6, <2>1, EndingStep DEF Keep, Update
<1>7. ASSUME NEW to \in Target, Give(to) PROVE TakesInv'
  <2>1. RecordOK(rec')
    BY <1>7, OfferedShape DEF Give, Update
  <2> QED
    BY <1>1, <1>2, <1>7, <2>1, EndingStep DEF Give, Update
<1> QED
  BY <1>3, <1>4, <1>5, <1>6, <1>7

\* A record that no session has is nobody's anchor.
LEMMA FreeStep ==
  ASSUME TakesInv, Others, appr' = appr, RecordOK(rec'), NEW probe \in BOOLEAN,
         ~Session(Settle(rec, probe)), cut' = cut \cup Orphaned(probe)
  PROVE  TakesInv'
<1>1. /\ Orphaned(probe) \subseteq Approval
      /\ \A q \in Approval : ~(Engaged(q) /\ q \notin cut \cup Orphaned(probe))
  BY SettleForms DEF Anchored
<1>2. cut' \subseteq Approval
  BY <1>1 DEF TakesInv
<1> QED
  BY <1>1, <1>2, RecordStep

\* The event service.
LEMMA ServiceSteps ==
  ASSUME TakesInv,
         \/ \E d \in Delivery : Close(d) \/ HandOffer(d) \/ LapseOffer(d) \/ \E to \in Target : Offer(d, to)
         \/ Meet \/ Lapse
  PROVE  TakesInv'
<1>1. appr' = appr
  BY DEF Close, HandOffer, LapseOffer, Offer, Meet, Lapse
<1>2. Others
  BY DEF Others, TakesInv, Close, HandOffer, LapseOffer, Offer, Meet, Lapse
<1>3. CASE Meet \/ Lapse
  BY <1>1, <1>2, <1>3, SettleStep DEF Meet, Lapse, Update
<1>4. ASSUME NEW d \in Delivery, Close(d) PROVE TakesInv'
  <2>1. UNCHANGED <<rec, cut>>
    BY <1>4 DEF Close
  <2> QED
    BY <1>1, <1>2, <2>1, RecordStep DEF TakesInv
<1>5. ASSUME NEW d \in Delivery, NEW to \in Target, Offer(d, to) PROVE TakesInv'
  <2>1. CASE rec' = Settle(rec, TRUE) /\ cut' = cut \cup Orphaned(TRUE)
    BY <1>1, <1>2, <2>1, SettleStep
  <2>2. ASSUME Settle(rec, TRUE).state \in {"none", "open"}, cut' = cut \cup Orphaned(TRUE), NEW left \in {Waiting, OfferTime},
               rec' = [Blank EXCEPT !.state = "offered", !.to = to, !.by = d, !.left = left]
        PROVE  TakesInv'
    <3>1. RecordOK(rec')
      BY <2>2, OfferedShape
    <3>2. ~Session(Settle(rec, TRUE))
      BY <2>2 DEF Session
    <3> QED
      BY <1>1, <1>2, <2>2, <3>1, <3>2, FreeStep
  <2> QED
    BY <1>5, <2>1, <2>2 DEF Offer, Update
<1>6. ASSUME NEW d \in Delivery, HandOffer(d) \/ LapseOffer(d) PROVE TakesInv'
  <2> DEFINE r == Settle(rec, FALSE)
             n == [r EXCEPT !.left = OfferTime, !.age = 0]
  <2>1. cut' = cut \cup Orphaned(FALSE)
    BY <1>6 DEF HandOffer, LapseOffer, Update
  <2>2. \/ rec' = r
        \/ WaitingOfferOf(r, d) /\ (rec' = n \/ rec' = Opened)
    BY <1>6 DEF HandOffer, LapseOffer, Update
  <2>3. RecordOK(r)
    BY SettleForms
  <2>4. CASE rec' = r
    BY <1>1, <1>2, <2>1, <2>4, SettleStep
  <2>5. CASE WaitingOfferOf(r, d) /\ rec' \in {n, Opened}
    <3>1. r.state = "offered" /\ ~Session(r)
      BY <2>5 DEF WaitingOfferOf, Session
    <3> HIDE DEF r
    <3>2. /\ DOMAIN n = RecFields /\ n.state = r.state /\ n.holder = r.holder /\ n.to = r.to
          /\ n.left = OfferTime /\ n.age = 0 /\ n.pins = r.pins
      BY <2>3 DEF RecordOK, RecFields
    <3>3. n.named = r.named
      BY <2>3 DEF RecordOK, RecFields
    <3> HIDE DEF n
    <3>4. n.named \in BOOLEAN
      BY <2>3, <3>3, Zenon DEF RecordOK
    <3>5. n.left \in Waiting..OfferTime /\ n.age \in Nat
      BY <3>2, TimeAssumption DEF Waiting
    <3>6. RecordOK(n)
      BY <2>3, <3>1, <3>2, <3>4, <3>5 DEF RecordOK
    <3>7. RecordOK(rec')
      BY <2>5, <3>6, BlankShapes
    <3> QED
      BY <1>1, <1>2, <2>1, <3>1, <3>7, FreeStep DEF r
  <2> QED
    BY <2>2, <2>4, <2>5
<1> QED
  BY <1>3, <1>4, <1>5, <1>6

\* The configuration, the windows, and a record that is pruned long after.
LEMMA RestSteps ==
  ASSUME TakesInv, Configure \/ Prune \/ \E x \in alive : WindowDies(x)
  PROVE  TakesInv'
<1>1. appr' = appr
  BY DEF Configure, Prune, WindowDies
<1>2. Others
  <2>1. acts' = acts \/ (acts < MaxPerson /\ acts' = acts + 1)
    BY DEF Configure, Prune, WindowDies, PersonActs
  <2>2. acts' \in 0..MaxPerson
    BY <2>1, TimeAssumption DEF TakesInv
  <2> QED
    BY <2>2 DEF Others, TakesInv, Configure, Prune, WindowDies
<1>3. CASE UNCHANGED <<rec, cut>>
  BY <1>1, <1>2, <1>3, RecordStep DEF TakesInv
<1>4. CASE Prune
  <2>1. \A q \in Approval : ~Engaged(q)
    BY <1>4 DEF Prune, TakesInv, ApprovalOK, Engaged, PinLive
  <2>2. rec' = Blank /\ cut' = cut
    BY <1>4 DEF Prune, Update, Orphaned
  <2> QED
    BY <1>1, <1>2, <2>1, <2>2, BlankShapes, RecordStep DEF TakesInv
<1> QED
  BY <1>3, <1>4 DEF Configure, WindowDies

-----------------------------------------------------------------------------
(* Steps of one approval *)

\* An approval just made, over, or not made yet.
LEMMA MadeShape ==
  ASSUME NEW c, NEW x, x = [New EXCEPT !.st = "pending", !.by = c, !.pinning = TRUE]
  PROVE  /\ DOMAIN x = ApprFields /\ x.st = "pending" /\ x.by = c /\ x.age = 0
         /\ x.held \in BOOLEAN /\ x.pinning \in BOOLEAN /\ x.marked \in BOOLEAN /\ ~x.marked
<1>1. DOMAIN x = ApprFields /\ x.st = "pending" /\ x.by = c /\ x.age = 0
  BY DEF New, ApprFields
<1>2. x.held = FALSE /\ x.pinning = TRUE /\ x.marked = FALSE
  BY DEF New
<1> QED
  BY <1>1, <1>2, Zenon

LEMMA OverShape ==
  ASSUME NEW x, x = [New EXCEPT !.st = "over"] \/ x = New
  PROVE  /\ DOMAIN x = ApprFields /\ x.st \in {"over", "new"} /\ x.age = 0
         /\ x.held \in BOOLEAN /\ x.pinning \in BOOLEAN /\ x.marked \in BOOLEAN /\ ~x.pinning /\ ~x.marked
<1>1. DOMAIN x = ApprFields /\ x.st \in {"over", "new"} /\ x.age = 0
  BY DEF New, ApprFields
<1>2. x.held = FALSE /\ x.pinning = FALSE /\ x.marked = FALSE
  BY DEF New
<1> QED
  BY <1>1, <1>2, Zenon

\* One approval changes, the others stay under the take they need.
LEMMA ApprovalStep ==
  ASSUME TakesInv, Others, NEW p \in Approval, NEW x, appr' = [appr EXCEPT ![p] = x],
         RecordOK(rec'), cut' \subseteq Approval, ApprovalOK(p)',
         Engaged(p)' /\ p \notin cut' => Anchored(rec, p)',
         \A q \in Approval \ {p} : Engaged(q) /\ q \notin cut' => Anchored(rec', q)
  PROVE  TakesInv'
<1>1. RecordOK(rec)'
  BY DEF RecordOK, Session, Known
<1>2. DOMAIN appr' = Approval /\ \A q \in Approval \ {p} : appr'[q] = appr[q]
  BY DEF TakesInv
<1>3. \A q \in Approval \ {p} : ApprovalOK(q)' /\ (Engaged(q)' /\ q \notin cut' => Anchored(rec, q)')
  BY <1>2, QuietApproval DEF TakesInv
<1>4. \A q \in Approval : ApprovalOK(q)' /\ (Engaged(q)' /\ q \notin cut' => Anchored(rec, q)')
  BY <1>3
<1> QED
  BY <1>1, <1>2, <1>4 DEF TakesInv, Others

\* Preparing: nothing is pinned yet.
LEMMA PrepareStep ==
  ASSUME TakesInv, NEW c \in Caller, NEW p \in Approval, Prepare(c, p)
  PROVE  TakesInv'
<1> DEFINE x == [New EXCEPT !.st = "pending", !.by = c, !.pinning = TRUE]
<1>1. Gate(c, {}) /\ cut' = cut \cup Orphaned(TRUE) /\ appr' = [appr EXCEPT ![p] = x] /\ Others
  BY SameOthers DEF Prepare
<1>2. /\ DOMAIN x = ApprFields /\ x.st = "pending" /\ x.by = c /\ x.age = 0
      /\ x.held \in BOOLEAN /\ x.pinning \in BOOLEAN /\ x.marked \in BOOLEAN /\ ~x.marked
  BY MadeShape
<1> HIDE DEF x
<1>3. /\ RecordOK(rec') /\ Orphaned(TRUE) \subseteq Approval
      /\ \A q \in Approval : Engaged(q) /\ q \notin cut' => Anchored(rec', q)
  BY <1>1, GateForm, SettleForms
<1>4. appr'[p] = x
  BY <1>1 DEF TakesInv
<1>5. ApprovalOK(p)' /\ ~Engaged(p)'
  BY <1>2, <1>4 DEF ApprovalOK, Engaged, PinLive
<1>6. cut' \subseteq Approval
  BY <1>1, <1>3 DEF TakesInv
<1> QED
  BY <1>1, <1>3, <1>5, <1>6, ApprovalStep

\* Claiming: what the gate lets through under a take is younger than no act of it.
LEMMA ExecuteStep ==
  ASSUME TakesInv, NEW c \in Caller, NEW p \in Approval, Execute(c, p)
  PROVE  TakesInv'
<1> DEFINE x == [New EXCEPT !.st = "sending", !.by = c, !.held = Held(c)]
<1>1. Gate(c, {}) /\ cut' = (cut \cup Orphaned(TRUE)) \ {p} /\ appr' = [appr EXCEPT ![p] = x] /\ Others
  BY SameOthers DEF Execute
<1>2. /\ DOMAIN x = ApprFields /\ x.st = "sending" /\ x.by = c /\ x.age = 0
      /\ x.held \in BOOLEAN /\ x.pinning \in BOOLEAN /\ x.marked \in BOOLEAN
      /\ ~x.pinning /\ ~x.marked /\ (x.held => Held(c))
  <2> DEFINE b == Held(c)
  <2>1. b \in BOOLEAN
    BY DEF Held, HoldsIt
  <2>2. x = [New EXCEPT !.st = "sending", !.by = c, !.held = b]
    OBVIOUS
  <2> HIDE DEF b, x
  <2>3. /\ DOMAIN x = ApprFields /\ x.st = "sending" /\ x.by = c /\ x.age = 0
        /\ x.held \in BOOLEAN /\ x.pinning \in BOOLEAN /\ x.marked \in BOOLEAN
        /\ ~x.pinning /\ ~x.marked /\ (x.held => b)
    <3>1. DOMAIN x = ApprFields /\ x.st = "sending" /\ x.by = c /\ x.age = 0
      BY <2>2 DEF New, ApprFields
    <3>2. x.held = b /\ x.pinning = FALSE /\ x.marked = FALSE
      BY <2>2 DEF New
    <3> QED
      BY <2>1, <3>1, <3>2, Zenon
  <2> QED
    BY <2>3, Zenon DEF b
<1> HIDE DEF x
<1>3. /\ RecordOK(rec') /\ Orphaned(TRUE) \subseteq Approval
      /\ \A q \in Approval : Engaged(q) /\ q \notin cut \cup Orphaned(TRUE) => Anchored(rec', q)
      /\ Held(c) => Session(rec') /\ rec'.holder.win = c.win /\ (rec'.state = "taken" => rec'.age = 0)
  BY <1>1, GateForm, SettleForms
<1>4. appr'[p] = x
  BY <1>1 DEF TakesInv
<1>5. ApprovalOK(p)'
  BY <1>2, <1>4, TimeAssumption DEF ApprovalOK, PinLive
<1>6. Engaged(p)' => Anchored(rec, p)'
  BY <1>2, <1>3, <1>4 DEF Engaged, Anchored, Session
<1>7. cut' \subseteq Approval
  BY <1>1, <1>3 DEF TakesInv
<1>8. \A q \in Approval \ {p} : Engaged(q) /\ q \notin cut' => Anchored(rec', q)
  BY <1>1, <1>3
<1> QED
  BY <1>1, <1>3, <1>5, <1>6, <1>7, <1>8, ApprovalStep

\* Withdrawn, or sent: over.
LEMMA OverStep ==
  ASSUME TakesInv, NEW p \in Approval, Withdraw(p) \/ Sent(p)
  PROVE  TakesInv'
<1> DEFINE x == [New EXCEPT !.st = "over"]
<1>1. rec' = rec /\ cut' = cut \ {p} /\ appr' = [appr EXCEPT ![p] = x] /\ Others
  BY SameOthers DEF Withdraw, Sent, Over
<1>2. /\ DOMAIN x = ApprFields /\ x.st = "over" /\ x.age = 0
      /\ x.held \in BOOLEAN /\ x.pinning \in BOOLEAN /\ x.marked \in BOOLEAN /\ ~x.pinning /\ ~x.marked
  BY OverShape DEF New
<1> HIDE DEF x
<1>3. appr'[p] = x
  BY <1>1 DEF TakesInv
<1>4. ApprovalOK(p)' /\ ~Engaged(p)'
  BY <1>2, <1>3 DEF ApprovalOK, Engaged, PinLive
<1>5. RecordOK(rec') /\ cut' \subseteq Approval
  BY <1>1 DEF TakesInv
<1>6. \A q \in Approval \ {p} : Engaged(q) /\ q \notin cut' => Anchored(rec', q)
  BY <1>1 DEF TakesInv
<1> QED
  BY <1>1, <1>4, <1>5, <1>6, ApprovalStep

\* Approved: it waits as before.
LEMMA ApproveStep ==
  ASSUME TakesInv, NEW p \in Approval, Approve(p)
  PROVE  TakesInv'
<1> DEFINE x == [appr[p] EXCEPT !.st = "approved"]
<1>1. rec' = rec /\ cut' = cut /\ appr' = [appr EXCEPT ![p] = x] /\ appr[p].st = "pending" /\ Others
  BY SameOthers DEF Approve
<1>2. ApprovalOK(p)
  BY DEF TakesInv
<1>3. DOMAIN x = ApprFields /\ x.st = "approved" /\ x.by = appr[p].by /\ x.age = appr[p].age
  BY <1>2 DEF ApprovalOK, ApprFields
<1>4. x.held = appr[p].held /\ x.pinning = appr[p].pinning /\ x.marked = appr[p].marked
  BY <1>2 DEF ApprovalOK, ApprFields
<1> HIDE DEF x
<1>5. x.held \in BOOLEAN /\ x.pinning \in BOOLEAN /\ x.marked \in BOOLEAN /\ (x.marked => appr[p].marked)
  BY <1>2, <1>4, Zenon DEF ApprovalOK
<1>6. appr'[p] = x
  BY <1>1 DEF TakesInv
<1>7. ApprovalOK(p)'
  BY <1>1, <1>2, <1>3, <1>5, <1>6 DEF ApprovalOK, PinLive
<1>8. Engaged(p)' /\ p \notin cut' => Anchored(rec, p)'
  <2>1. Engaged(p)' => Engaged(p)
    BY <1>3, <1>5, <1>6 DEF Engaged
  <2>2. Engaged(p) /\ p \notin cut => Anchored(rec, p)
    BY DEF TakesInv
  <2> QED
    BY <1>1, <1>3, <1>5, <1>6, <2>1, <2>2 DEF Anchored, Session
<1>9. RecordOK(rec') /\ cut' \subseteq Approval /\ \A q \in Approval \ {p} : Engaged(q) /\ q \notin cut' => Anchored(rec', q)
  BY <1>1 DEF TakesInv
<1> QED
  BY <1>1, <1>7, <1>8, <1>9, ApprovalStep

\* Pinning: what is marked is among the pins of a take of its own window.
LEMMA PinStep ==
  ASSUME TakesInv, NEW p \in Approval, Pin(p)
  PROVE  TakesInv'
<1> DEFINE c == appr[p].by
<1>1. ApprovalOK(p) /\ DOMAIN appr = Approval
  BY DEF TakesInv
<1>2. appr[p].st \in {"pending", "approved"} /\ c \in Caller
  BY <1>1 DEF Pin, ApprovalOK, PinLive
<1>3. cut' = cut \cup Orphaned(TRUE) /\ Others
  BY SameOthers DEF Pin
<1>4. Orphaned(TRUE) \subseteq Approval /\ cut' \subseteq Approval
  BY <1>3, SettleForms DEF TakesInv
<1>5. ASSUME NEW m \in BOOLEAN, NEW x, x = [appr[p] EXCEPT !.pinning = FALSE, !.marked = m], appr' = [appr EXCEPT ![p] = x],
             RecordOK(rec'), m /\ p \notin cut' => Session(rec') /\ rec'.holder.win = c.win /\ p \in rec'.pins,
             \A q \in Approval : Engaged(q) /\ q \notin cut' => Anchored(rec', q)
      PROVE  TakesInv'
  <2>1. DOMAIN x = ApprFields /\ x.st = appr[p].st /\ x.by = c /\ x.age = appr[p].age
    BY <1>1, <1>5 DEF ApprovalOK, ApprFields
  <2>2. x.held = appr[p].held /\ x.pinning = FALSE /\ x.marked = m
    BY <1>1, <1>5 DEF ApprovalOK, ApprFields
  <2>3. x.held \in BOOLEAN /\ x.pinning \in BOOLEAN /\ x.marked \in BOOLEAN /\ ~x.pinning /\ (x.marked => m)
    BY <1>1, <1>5, <2>2, Zenon DEF ApprovalOK
  <2>4. appr'[p] = x
    BY <1>1, <1>5
  <2>5. ApprovalOK(p)'
    BY <1>1, <1>2, <2>1, <2>3, <2>4 DEF ApprovalOK, PinLive
  <2>6. rec'.pins # {} => rec'.state = "taken"
    BY <1>5 DEF RecordOK
  <2>7. Engaged(p)' /\ p \notin cut' => Anchored(rec, p)'
    BY <1>2, <1>5, <2>1, <2>3, <2>4, <2>6 DEF Engaged, Anchored, Session
  <2> QED
    BY <1>3, <1>4, <1>5, <2>5, <2>7, ApprovalStep
<1>6. CASE Gate(c, {p}) /\ appr' = [appr EXCEPT ![p].pinning = FALSE, ![p].marked = p \in rec'.pins]
  <2> DEFINE m == p \in rec'.pins
             x == [appr[p] EXCEPT !.pinning = FALSE, !.marked = m]
  <2>1. appr' = [appr EXCEPT ![p] = x]
    BY <1>1, <1>6
  <2>2. /\ RecordOK(rec') /\ \A q \in Approval : Engaged(q) /\ q \notin cut' => Anchored(rec', q)
        /\ rec'.pins # {} => Session(rec') /\ rec'.holder.win = c.win
    <3>1. {p} \in SUBSET Approval
      OBVIOUS
    <3>2. /\ RecordOK(rec') /\ \A q \in Approval : Engaged(q) /\ q \notin cut \cup Orphaned(TRUE) => Anchored(rec', q)
          /\ Held(c) => Session(rec') /\ rec'.holder.win = c.win
          /\ rec'.pins # {} => Held(c)
      BY <1>2, <1>6, <3>1, GateForm
    <3> QED
      BY <1>3, <3>2
  <2>3. m \in BOOLEAN /\ (m => Session(rec') /\ rec'.holder.win = c.win /\ p \in rec'.pins)
    BY <2>2
  <2>4. x = [appr[p] EXCEPT !.pinning = FALSE, !.marked = m]
    OBVIOUS
  <2> HIDE DEF m, x
  <2> QED
    BY <1>5, <2>1, <2>2, <2>3, <2>4
<1>7. CASE rec' = Settle(rec, TRUE) /\ appr' = [appr EXCEPT ![p].pinning = FALSE]
  <2> DEFINE m == appr[p].marked
             x == [appr[p] EXCEPT !.pinning = FALSE, !.marked = m]
  <2>1. x = [appr[p] EXCEPT !.pinning = FALSE]
    BY <1>1 DEF ApprovalOK, ApprFields
  <2>2. appr' = [appr EXCEPT ![p] = x]
    BY <1>1, <1>7, <2>1
  <2>3. RecordOK(rec') /\ \A q \in Approval : Engaged(q) /\ q \notin cut' => Anchored(rec', q)
    BY <1>3, <1>7, SettleForms
  <2>4. m \in BOOLEAN /\ (m => Engaged(p))
    BY <1>1 DEF ApprovalOK, Engaged
  <2>5. m /\ p \notin cut' => Session(rec') /\ rec'.holder.win = c.win /\ p \in rec'.pins
    BY <2>3, <2>4 DEF Anchored
  <2>6. x = [appr[p] EXCEPT !.pinning = FALSE, !.marked = m]
    OBVIOUS
  <2> HIDE DEF m, x
  <2> QED
    BY <1>5, <2>2, <2>3, <2>4, <2>5, <2>6
<1> QED
  BY <1>6, <1>7 DEF Pin

\* Done: the pins are gone, what was claimed under the take goes on.
LEMMA FinishStep ==
  ASSUME TakesInv, NEW c \in Caller, Finish(c)
  PROVE  TakesInv'
<1> DEFINE r == Settle(rec, TRUE)
           x(q) == [appr[q] EXCEPT !.marked = FALSE]
<1>1. /\ RecordOK(r) /\ Orphaned(TRUE) \subseteq Approval
      /\ \A q \in Approval : Engaged(q) /\ q \notin cut \cup Orphaned(TRUE) => Anchored(r, q)
  BY SettleForms
<1>2. /\ r.state = "taken" /\ HoldsIt(r, c) /\ rec' = Done(r) /\ cut' = cut \cup Orphaned(TRUE) /\ Others
      /\ appr' = [q \in Approval |-> IF q \in Under(r) THEN x(q) ELSE appr[q]]
  BY SameOthers DEF Finish, Update
<1> HIDE DEF r
<1>3. /\ RecordOK(rec') /\ rec'.state = "done" /\ rec'.holder = r.holder /\ Session(rec')
  BY <1>1, <1>2, DoneShape DEF HoldsIt
<1>4. RecordOK(rec)'
  BY <1>3 DEF RecordOK, Session, Known
<1>5. ASSUME NEW q \in Approval
      PROVE  ApprovalOK(q)' /\ (Engaged(q)' /\ q \notin cut' => Anchored(rec, q)')
  <2>1. ApprovalOK(q)
    BY DEF TakesInv
  <2>2. CASE q \in Under(r)
    <3>1. appr'[q] = x(q)
      BY <1>2, <2>2
    <3>2. DOMAIN x(q) = ApprFields /\ x(q).st = appr[q].st /\ x(q).by = appr[q].by /\ x(q).age = appr[q].age
      BY <2>1 DEF ApprovalOK, ApprFields
    <3>3. x(q).held = appr[q].held /\ x(q).pinning = appr[q].pinning /\ x(q).marked = FALSE
      BY <2>1 DEF ApprovalOK, ApprFields
    <3> HIDE DEF x
    <3>4. /\ x(q).held \in BOOLEAN /\ x(q).pinning \in BOOLEAN /\ x(q).marked \in BOOLEAN
          /\ ~x(q).marked /\ (x(q).held => appr[q].held) /\ (x(q).pinning => appr[q].pinning)
      BY <2>1, <3>3, Zenon DEF ApprovalOK
    <3>5. ApprovalOK(q)'
      BY <2>1, <3>1, <3>2, <3>4 DEF ApprovalOK, PinLive
    <3>6. Engaged(q)' /\ q \notin cut' => Anchored(r, q)
      BY <1>1, <1>2, <3>1, <3>2, <3>4 DEF Engaged
    <3>7. Engaged(q)' /\ q \notin cut' => Anchored(rec, q)'
      BY <1>3, <3>1, <3>2, <3>4, <3>6 DEF Anchored, Session
    <3> QED
      BY <3>5, <3>7
  <2>3. CASE q \notin Under(r)
    <3>1. appr'[q] = appr[q]
      BY <1>2, <2>3
    <3>2. Engaged(q) => appr[q].st \in {"pending", "approved", "sending"}
      BY <2>1 DEF ApprovalOK, Engaged, PinLive
    <3>3. ~(Engaged(q) /\ q \notin cut')
      BY <1>1, <1>2, <2>3, <3>2 DEF Anchored, Under
    <3> QED
      BY <2>1, <3>1, <3>3, QuietApproval
  <2> QED
    BY <2>2, <2>3
<1>6. cut' \subseteq Approval /\ DOMAIN appr' = Approval
  BY <1>1, <1>2 DEF TakesInv
<1> QED
  BY <1>2, <1>4, <1>5, <1>6 DEF TakesInv, Others

\* Time: a take is never older than the act it let through.
LEMMA TickStep ==
  ASSUME TakesInv, Tick
  PROVE  TakesInv'
<1> DEFINE x(q) == [appr[q] EXCEPT !.age = appr[q].age + 1]
<1>1. Others /\ cut' = cut
  BY SameOthers DEF Tick
<1>2. RecordOK(rec)
  BY DEF TakesInv
<1>3. /\ DOMAIN rec' = RecFields /\ rec'.state = rec.state /\ rec'.holder = rec.holder /\ rec'.to = rec.to
      /\ rec'.left \in Waiting..OfferTime /\ rec'.age \in {rec.age, rec.age + 1} /\ rec'.pins = rec.pins
  <2>1. /\ DOMAIN rec' = RecFields /\ rec'.state = rec.state /\ rec'.holder = rec.holder /\ rec'.to = rec.to
        /\ rec'.left \in {rec.left, rec.left - 1} /\ (rec'.left # rec.left => rec.left > 0)
        /\ rec'.age \in {rec.age, rec.age + 1} /\ rec'.pins = rec.pins
    BY <1>2 DEF Tick, RecordOK, RecFields
  <2> QED
    BY <1>2, <2>1, TimeAssumption DEF RecordOK, Waiting
<1>4. rec'.named = rec.named
  BY <1>2 DEF Tick, RecordOK, RecFields
<1>5. rec'.named \in BOOLEAN /\ (rec'.named => rec.named)
  BY <1>2, <1>4, Zenon DEF RecordOK
<1>6. (Session(rec') <=> Session(rec)) /\ (rec'.to # Nobody) = (rec'.state = "offered") /\ rec'.age \in Nat
  BY <1>2, <1>3 DEF Session, RecordOK
<1>7. RecordOK(rec')
  BY <1>2, <1>3, <1>5, <1>6 DEF RecordOK
<1>8. RecordOK(rec)'
  BY <1>7 DEF RecordOK, Session, Known
<1>9. ASSUME NEW q \in Approval
      PROVE  ApprovalOK(q)' /\ (Engaged(q)' /\ q \notin cut' => Anchored(rec, q)')
  <2>1. ApprovalOK(q) /\ (Engaged(q) /\ q \notin cut => Anchored(rec, q))
    BY DEF TakesInv
  <2>2. CASE appr[q].st = "sending"
    <3>1. appr'[q] = x(q) /\ appr[q].age < ActTime
      BY <2>2 DEF Tick
    <3>2. DOMAIN x(q) = ApprFields /\ x(q).st = appr[q].st /\ x(q).by = appr[q].by /\ x(q).age = appr[q].age + 1
      BY <2>1 DEF ApprovalOK, ApprFields
    <3>3. x(q).held = appr[q].held /\ x(q).pinning = appr[q].pinning /\ x(q).marked = appr[q].marked
      BY <2>1 DEF ApprovalOK, ApprFields
    <3> HIDE DEF x
    <3>4. /\ x(q).held \in BOOLEAN /\ x(q).pinning \in BOOLEAN /\ x(q).marked \in BOOLEAN
          /\ (x(q).marked => appr[q].marked) /\ (x(q).held => appr[q].held) /\ (x(q).pinning => appr[q].pinning)
      BY <2>1, <3>3, Zenon DEF ApprovalOK
    <3>5. ApprovalOK(q)'
      BY <2>1, <2>2, <3>1, <3>2, <3>4, TimeAssumption DEF ApprovalOK, PinLive
    <3>6. Engaged(q)' /\ q \notin cut' => Anchored(rec, q)
      BY <1>1, <2>1, <3>1, <3>2, <3>4 DEF Engaged
    <3>7. Engaged(q)' /\ q \notin cut' => Anchored(rec, q)'
      <4>1. Anchored(rec, q) /\ rec'.state = "taken" => rec'.age <= appr[q].age + 1
        BY <1>2, <1>3, <2>1, <2>2 DEF Anchored, RecordOK, ApprovalOK
      <4> QED
        BY <1>3, <1>6, <3>1, <3>2, <3>4, <3>6, <4>1 DEF Anchored, Session
    <3> QED
      BY <3>5, <3>7
  <2>3. CASE appr[q].st # "sending"
    <3>1. appr'[q] = appr[q]
      BY <2>3 DEF Tick
    <3>2. Anchored(rec, q) => Anchored(rec', q)
      BY <1>3, <1>6, <2>3 DEF Anchored
    <3> QED
      BY <1>1, <2>1, <3>1, <3>2, QuietApproval
  <2> QED
    BY <2>2, <2>3
<1>10. DOMAIN appr' = Approval /\ cut' \subseteq Approval
  BY <1>1 DEF Tick, TakesInv
<1> QED
  BY <1>1, <1>8, <1>9, <1>10 DEF TakesInv, Others

-----------------------------------------------------------------------------
(* The invariant *)

LEMMA InitTakesInv == Init => TakesInv
<1> SUFFICES ASSUME Init PROVE TakesInv
  OBVIOUS
<1>1. RecordOK(rec)
  BY BlankShapes DEF Init
<1>2. \A p \in Approval : appr[p] = New
  BY DEF Init
<1>3. /\ DOMAIN New = ApprFields /\ New.st = "new" /\ New.age = 0
      /\ New.held \in BOOLEAN /\ New.pinning \in BOOLEAN /\ New.marked \in BOOLEAN /\ ~New.pinning /\ ~New.marked
  BY OverShape DEF New
<1>4. \A p \in Approval : ApprovalOK(p) /\ ~Engaged(p)
  BY <1>2, <1>3 DEF ApprovalOK, Engaged, PinLive
<1> QED
  BY <1>1, <1>4, TimeAssumption DEF Init, TakesInv

LEMMA NextTakesInv == TakesInv /\ [Next]_vars => TakesInv'
<1> SUFFICES ASSUME TakesInv, [Next]_vars PROVE TakesInv'
  OBVIOUS
<1>1. CASE UNCHANGED vars
  <2>1. UNCHANGED <<rec, required, alive, appr, cut, item, acts>>
    BY <1>1 DEF vars
  <2>2. Others
    BY <2>1, SameOthers
  <2> QED
    BY <2>1, <2>2, RecordStep DEF TakesInv
<1>2. ASSUME NEW c \in Caller, Take(c) \/ HandBack(c) \/ Finish(c) PROVE TakesInv'
  BY <1>2, TakeStep, PersonSteps, FinishStep
<1>3. ASSUME NEW c \in Caller, NEW p \in Approval, Prepare(c, p) \/ Execute(c, p) PROVE TakesInv'
  BY <1>3, PrepareStep, ExecuteStep
<1>4. ASSUME NEW p \in Approval, Pin(p) \/ Approve(p) \/ Withdraw(p) \/ Sent(p) PROVE TakesInv'
  BY <1>4, PinStep, ApproveStep, OverStep
<1>5. ASSUME NEW to \in Target, Give(to) \/ \E d \in Delivery : Offer(d, to) PROVE TakesInv'
  BY <1>5, PersonSteps, ServiceSteps
<1>6. ASSUME NEW d \in Delivery, Close(d) \/ HandOffer(d) \/ LapseOffer(d) PROVE TakesInv'
  BY <1>6, ServiceSteps
<1>7. ASSUME Release \/ Keep \/ Rot PROVE TakesInv'
  BY <1>7, PersonSteps
<1>8. ASSUME Meet \/ Lapse PROVE TakesInv'
  BY <1>8, ServiceSteps
<1>9. ASSUME Configure \/ Prune \/ \E x \in alive : WindowDies(x) PROVE TakesInv'
  BY <1>9, RestSteps
<1> QED
  BY <1>1, <1>2, <1>3, <1>4, <1>5, <1>6, <1>7, <1>8, <1>9, TickStep DEF Next

\* Every reachable record is well formed, and every act or waiting approval is under its window's take.
THEOREM TakesInvHolds == Spec => []TakesInv
<1> QED
  BY InitTakesInv, NextTakesInv, PTL DEF Spec

-----------------------------------------------------------------------------
(* What follows from it *)

\* takeRecordOf's shapes: a holder exactly in a taken or done record, a target exactly in an
\* offered one, pins only in a session's take.
THEOREM TypeCorrect == Spec => []TypeOK
<1>1. TakesInv => TypeOK
  <2> SUFFICES ASSUME TakesInv PROVE TypeOK
    OBVIOUS
  <2>1. RecordOK(rec)
    BY DEF TakesInv
  <2>2. Person # Nobody
    <3>1. Person.person = TRUE /\ Nobody.person = FALSE
      BY DEF Person, Nobody
    <3>2. TRUE # FALSE
      BY Zenon
    <3> QED
      BY <3>1, <3>2, Zenon
  <2>3. (rec.holder # Nobody) = (rec.state \in {"taken", "done"})
    BY <2>1, <2>2, KnownIsSession DEF RecordOK
  <2>4. /\ rec.state \in {"none", "open", "offered", "taken", "done", "unreadable"}
        /\ (rec.to # Nobody) = (rec.state = "offered")
        /\ rec.left \in Waiting..OfferTime /\ rec.age \in Nat
        /\ rec.pins \subseteq Approval /\ (rec.pins # {} => rec.state = "taken" /\ Session(rec))
    BY <2>1 DEF RecordOK, States
  <2>5. \A p \in Approval : appr[p].st \in {"new", "pending", "approved", "sending", "over"}
    BY DEF TakesInv, ApprovalOK
  <2> QED
    BY <2>3, <2>4, <2>5 DEF TypeOK, TakesInv
<1> QED
  BY <1>1, TakesInvHolds, PTL

\* sendGate and the lease: two windows are never past it at once under a take of the message,
\* unless a take was ended on purpose or with its window.
THEOREM OneWindowActsHolds == Spec => []OneWindowActs
<1>1. TakesInv => OneWindowActs
  <2> SUFFICES ASSUME TakesInv, NEW p \in Approval, NEW q \in Approval,
                      appr[p].st = "sending", appr[q].st = "sending", appr[p].held, appr[q].held,
                      p \notin cut, q \notin cut
               PROVE  appr[p].by.win = appr[q].by.win
    BY Zenon DEF OneWindowActs
  <2>1. Engaged(p) /\ Engaged(q)
    BY DEF Engaged
  <2>2. Anchored(rec, p) /\ Anchored(rec, q)
    BY <2>1 DEF TakesInv
  <2> QED
    BY <2>2 DEF Anchored
<1> QED
  BY <1>1, TakesInvHolds, PTL

\* pinTake: a take is its window's for as long as an approval prepared under it waits.
THEOREM PinHoldsAlways == Spec => []PinHolds
<1>1. TakesInv => PinHolds
  <2> SUFFICES ASSUME TakesInv, NEW p \in Approval, appr[p].marked, p \notin cut
               PROVE  rec.state = "taken" /\ Session(rec) /\ rec.holder.win = appr[p].by.win
    BY Zenon DEF PinHolds
  <2>1. Engaged(p)
    BY DEF Engaged
  <2>2. Anchored(rec, p)
    BY <2>1 DEF TakesInv
  <2> QED
    BY <2>2 DEF Anchored
<1> QED
  BY <1>1, TakesInvHolds, PTL

\* What settling opens was over, by its time or with its window.
LEMMA OpenedWasOver ==
  ASSUME TakesInv, NEW probe \in BOOLEAN, Settle(rec, probe) # Trimmed
  PROVE  \/ rec.state = "offered" /\ (rec.left = 0 \/ (rec.left = Waiting /\ rec.age >= Wait))
         \/ rec.state = "taken" /\ Session(rec) /\ (rec.age >= Lease \/ rec.holder.win \notin alive)
<1>1. OfferOver(rec) \/ LeaseOver(rec) \/ (probe /\ ParentGone(rec))
  BY SettleForms
<1> QED
  BY <1>1 DEF OfferOver, WaitOver, LeaseOver, ParentGone

\* offer, hand and lapse of the event service take a message from nobody.
THEOREM ServiceTakesNothingHolds == Spec => ServiceTakesNothing
<1> DEFINE Kept == rec'.state = rec.state /\ rec'.holder = rec.holder /\ rec'.to = rec.to /\ rec'.by = rec.by
           Ended == \/ rec.state = "offered" /\ (rec.left = 0 \/ (rec.left = Waiting /\ rec.age >= Wait))
                    \/ rec.state = "offered" /\ rec.left = Waiting /\ rec.by \in Delivery /\ item[rec.by] = "gone"
                    \/ rec.state = "taken" /\ Session(rec) /\ (rec.age >= Lease \/ rec.holder.win \notin alive)
<1>1. ASSUME TakesInv, Service, rec.state \in {"offered", "taken", "done", "unreadable"}
      PROVE  Kept \/ Ended
  <2>1. /\ Trimmed.state = rec.state /\ Trimmed.holder = rec.holder /\ Trimmed.to = rec.to /\ Trimmed.by = rec.by
        /\ Trimmed.left = rec.left /\ RecordOK(Trimmed)
    BY <1>1, TrimmedShape DEF TakesInv
  <2>2. \A probe \in BOOLEAN : Settle(rec, probe) # Trimmed => Settle(rec, probe) = Opened /\ Ended
    BY <1>1, OpenedWasOver, SettleForms
  <2>3. ASSUME NEW probe \in BOOLEAN, rec' = Settle(rec, probe) PROVE Kept \/ Ended
    BY <2>1, <2>2, <2>3
  <2>4. CASE Lapse
    BY <2>3, <2>4 DEF Lapse, Update
  <2>5. ASSUME NEW d \in Delivery, NEW to \in Target, Offer(d, to) PROVE Kept \/ Ended
    <3>1. \/ Settle(rec, TRUE).state \in {"none", "open"}
          \/ rec' = Settle(rec, TRUE)
      BY <2>5 DEF Offer, Update
    <3>2. CASE Settle(rec, TRUE).state \in {"none", "open"}
      BY <1>1, <2>1, <2>2, <3>2
    <3> QED
      BY <2>3, <3>1, <3>2
  <2>6. ASSUME NEW d \in Delivery, HandOffer(d) \/ LapseOffer(d) PROVE Kept \/ Ended
    <3> DEFINE r == Settle(rec, FALSE)
    <3>1. \/ rec' = r
          \/ WaitingOfferOf(r, d) /\ rec' = [r EXCEPT !.left = OfferTime, !.age = 0]
          \/ WaitingOfferOf(r, d) /\ item[d] = "gone"
      BY <2>6 DEF HandOffer, LapseOffer, Update
    <3>2. CASE WaitingOfferOf(r, d)
      <4>1. r.state = "offered" /\ r.by = d /\ r.left = Waiting
        BY <3>2 DEF WaitingOfferOf
      <4>2. r = Trimmed
        BY <2>2, <4>1, BlankShapes
      <4> HIDE DEF r
      <4>3. CASE rec' = [r EXCEPT !.left = OfferTime, !.age = 0]
        <5>1. rec'.state = r.state /\ rec'.holder = r.holder /\ rec'.to = r.to /\ rec'.by = r.by
          BY <2>1, <4>2, <4>3 DEF RecordOK, RecFields
        <5> QED
          BY <2>1, <4>2, <5>1
      <4>4. CASE item[d] = "gone"
        BY <2>1, <4>1, <4>2, <4>4
      <4>5. CASE rec' = r
        BY <2>1, <4>2, <4>5
      <4> QED
        BY <3>1, <4>3, <4>4, <4>5
    <3> QED
      BY <2>3, <3>1, <3>2
  <2> QED
    BY <1>1, <2>4, <2>5, <2>6 DEF Service
<1>2. TakesInv /\ [Next]_vars =>
        [Service /\ rec.state \in {"offered", "taken", "done", "unreadable"} =>
           \/ rec'.state = rec.state /\ rec'.holder = rec.holder /\ rec'.to = rec.to /\ rec'.by = rec.by
           \/ rec.state = "offered" /\ (rec.left = 0 \/ (rec.left = Waiting /\ rec.age >= Wait))
           \/ rec.state = "offered" /\ rec.left = Waiting /\ rec.by \in Delivery /\ item[rec.by] = "gone"
           \/ rec.state = "taken" /\ Session(rec) /\ (rec.age >= Lease \/ rec.holder.win \notin alive)]_vars
  BY <1>1
<1> QED
  BY <1>2, TakesInvHolds, PTL DEF Spec, ServiceTakesNothing

\* lapseTakes: a sweep opens every offer that is over and every take whose window named its
\* parent once and is gone.
THEOREM SweepEndsHoldsAlways == Spec => SweepEndsHolds
<1>1. ASSUME TakesInv, Lapse,
             \/ rec.state = "offered" /\ (rec.left = 0 \/ (rec.left = Waiting /\ rec.age >= Wait))
             \/ rec.state = "taken" /\ rec.named /\ rec.holder.win \notin alive
      PROVE  rec'.state = "open"
  <2>1. OfferOver(rec) \/ ParentGone(rec)
    BY <1>1 DEF TakesInv, RecordOK, Lapse, OfferOver, WaitOver, ParentGone
  <2>2. rec' = Opened
    BY <1>1, <2>1, SettleForms DEF Lapse, Update
  <2> QED
    BY <2>2, BlankShapes
<1>2. TakesInv /\ [Next]_vars =>
        [Lapse => /\ rec.state = "offered" /\ (rec.left = 0 \/ (rec.left = Waiting /\ rec.age >= Wait)) => rec'.state = "open"
                  /\ rec.state = "taken" /\ rec.named /\ rec.holder.win \notin alive => rec'.state = "open"]_vars
  BY <1>1
<1> QED
  BY <1>2, TakesInvHolds, PTL DEF Spec, SweepEndsHolds

=============================================================================
