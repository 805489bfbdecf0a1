--------------------------- MODULE FileLock_proofs ---------------------------
(***************************************************************************)
(* What holds of FileLock for every number of processes: the types, and when  *)
(* no update is lost.  Holders are prompt in all of it.  Until a process dies    *)
(* nothing is taken over; after that, the takeover's move can take a live lock    *)
(* (the run lock_race shows what comes of it), which loses nothing if every        *)
(* move takes an abandoned file, or if there are two processes and none dies in     *)
(* the middle of a takeover.                                                         *)
(***************************************************************************)
EXTENDS FileLock, TLAPS

FileFields == {"token", "full", "copy", "age"}
Taking     == {"move", "judge", "restore", "restoreblank", "drop"}

-----------------------------------------------------------------------------
(* Types *)

LEMMA NoFileType == NoFile \in Files
  BY DEF NoFile, Files

\* What a step makes of a file: older, touched, written, put back as a copy.
LEMMA OlderType ==
  ASSUME NEW f \in Files
  PROVE  Older(f) \in Files /\ [f EXCEPT !.age = 0] \in Files
<1>1. [f EXCEPT !.age = 0] \in Files /\ [f EXCEPT !.age = f.age + 1] \in Files
  BY DEF Files
<1> QED
  BY <1>1 DEF Older

LEMMA FilledType ==
  ASSUME NEW f \in Files, NEW t
  PROVE  Filled(f, t) \in Files
<1>1. [f EXCEPT !.full = TRUE, !.age = 0] \in Files
  BY DEF Files
<1> QED
  BY <1>1 DEF Filled

LEMMA CopyType ==
  ASSUME NEW f \in Files, NEW b \in BOOLEAN
  PROVE  [f EXCEPT !.full = b, !.copy = TRUE, !.age = 0] \in Files
  BY DEF Files

Calls == [number : Nat, mode : {"wait", "try"}, attempts : {0, 1}]

LEMMA CallEdits ==
  ASSUME NEW c \in Calls, NEW m \in {"wait", "try"}
  PROVE  [number |-> c.number + 1, mode |-> m, attempts |-> 0] \in Calls /\ [c EXCEPT !.attempts = 1] \in Calls
  BY DEF Calls

LEMMA TypeStep == TypeOK /\ [Next]_vars => TypeOK'
<1> SUFFICES ASSUME TypeOK, [Next]_vars PROVE TypeOK'
  OBVIOUS
<1> DEFINE Pcs == {"idle", "open", "look", "pause", "move", "judge", "restore", "restoreblank", "drop"} \cup Holding
<1>1. /\ path \in Files /\ aside \in [Process -> Files] /\ pc \in [Process -> Pcs]
      /\ call \in [Process -> Calls] /\ read \in [Process -> Nat]
      /\ data \in Nat /\ done \in Nat /\ crashes \in Nat
  BY DEF TypeOK, Calls
<1>2. SUFFICES /\ path' \in Files /\ aside' \in [Process -> Files] /\ pc' \in [Process -> Pcs]
               /\ call' \in [Process -> Calls] /\ read' \in [Process -> Nat]
               /\ data' \in Nat /\ done' \in Nat /\ crashes' \in Nat
  BY DEF TypeOK, Calls
<1>3. {"write", "in", "out", "check", "unlink"} \subseteq Pcs
  BY DEF Holding
<1> HIDE DEF Pcs
<1>4. {"idle", "open", "look", "pause", "move", "judge", "restore", "restoreblank", "drop"} \subseteq Pcs
  BY DEF Pcs
<1>5. ASSUME NEW p \in Process, Start(p)
      PROVE  call' \in [Process -> Calls]
  <2>1. PICK m \in Modes : call' = [call EXCEPT ![p] = [number |-> call[p].number + 1, mode |-> m, attempts |-> 0]]
    BY <1>5 DEF Start
  <2>2. [number |-> call[p].number + 1, mode |-> m, attempts |-> 0] \in Calls
    BY <1>1, ModeAssumption, CallEdits
  <2> QED
    BY <1>1, <2>1, <2>2
<1>6. ASSUME NEW p \in Process, Attempted(p)
      PROVE  call' \in [Process -> Calls]
  <2>1. [call[p] EXCEPT !.attempts = 1] \in Calls
    BY <1>1, CallEdits
  <2> QED
    BY <1>1, <1>6, <2>1 DEF Attempted
<1>7. CASE \E p \in Process : Start(p) \/ Contended(p) \/ Look(p) \/ Pause(p) \/ MovedAlready(p) \/ Judge(p)
                             \/ Check(p) \/ GiveUp(p)
  BY <1>1, <1>3, <1>4, <1>5, <1>6, <1>7 DEF Start, Contended, Look, Pause, MovedAlready, Judge, Check, GiveUp, Go
<1>8. CASE \E p \in Process : Create(p)
  <2> SUFFICES ASSUME NEW p \in Process, Create(p)
               PROVE  path' \in Files /\ pc' \in [Process -> Pcs] /\ UNCHANGED <<aside, call, read, data, done, crashes>>
    BY <1>1, <1>8
  <2>1. Token(p) \in Process \X Nat
    BY <1>1 DEF Token, Calls
  <2>2. path' \in Files
    BY <2>1 DEF Create, Files
  <2> QED
    BY <1>1, <1>3, <2>2 DEF Create, Go
<1>9. CASE \E p \in Process : Write(p)
  BY <1>1, <1>3, <1>9, FilledType DEF Write, Go
<1>10. CASE \E p \in Process : Move(p) \/ Drop(p) \/ Unlink(p)
  BY <1>1, <1>4, <1>6, <1>10, NoFileType DEF Move, Drop, Unlink, Go
<1>11. CASE \E p \in Process : Restore(p)
  <2> SUFFICES ASSUME NEW p \in Process, Restore(p)
               PROVE  path' \in Files /\ pc' \in [Process -> Pcs] /\ UNCHANGED <<aside, call, read, data, done, crashes>>
    BY <1>1, <1>11
  <2>1. aside[p] \in Files /\ (pc[p] = "restore") \in BOOLEAN
    BY <1>1
  <2>2. path' \in Files
    <3>1. [aside[p] EXCEPT !.full = pc[p] = "restore", !.copy = TRUE, !.age = 0] \in Files
      BY <2>1, CopyType, Zenon
    <3>2. \/ path' = path
          \/ path' = aside[p]
          \/ path' = [aside[p] EXCEPT !.full = pc[p] = "restore", !.copy = TRUE, !.age = 0]
      BY DEF Restore
    <3> QED
      BY <1>1, <2>1, <3>1, <3>2
  <2> QED
    BY <1>1, <1>4, <2>2 DEF Restore, Go
<1>12. CASE \E p \in Process : WorkReads(p) \/ WorkWrites(p) \/ Crash(p)
  BY <1>1, <1>3, <1>4, <1>12, NoFileType DEF WorkReads, WorkWrites, Crash, Go
<1>13. CASE (\E p \in Process : Renew(p)) \/ Tick
  BY <1>1, <1>13, OlderType DEF Renew, Tick
<1>14. CASE UNCHANGED vars
  BY <1>1, <1>14 DEF vars
<1> QED
  BY <1>7, <1>8, <1>9, <1>10, <1>11, <1>12, <1>13, <1>14 DEF Next, Continue

LEMMA InitType == Init => TypeOK
  BY NoFileType DEF Init, TypeOK

\* Every variable keeps its type: in particular no step of a takeover leaves a path that is not a file.
THEOREM TypeCorrect == Spec => []TypeOK
  BY InitType, TypeStep, PTL DEF Spec
-----------------------------------------------------------------------------
(* Nobody has died and every holder is prompt *)

Calm == Prompt /\ crashes = 0

\* p holds the lock through the file at the path, which is young enough to be respected.
Owns(p) ==
  /\ pc[p] \in Holding /\ path.token = Token(p) /\ ~path.copy /\ path.age <= Stale
  /\ pc[p] # "write" => path.full

\* The path is free, or the file of the one process that holds the lock; nothing is taken over,
\* and what the holder has read is what is there.
CalmInv ==
  /\ \A p \in Process : pc[p] \notin Taking /\ aside[p] = NoFile
  /\ path = NoFile => \A p \in Process : pc[p] \notin Holding
  /\ path # NoFile => \E p \in Process : Owns(p) /\ \A q \in Process : pc[q] \in Holding => q = p
  /\ data = done
  /\ \A p \in Process : pc[p] = "out" => read[p] = data

LockInv == TypeOK /\ (Calm => CalmInv)

\* A step of one process that is not a holder leaves the rest as it is.
LEMMA OutsiderStep ==
  ASSUME TypeOK, CalmInv, NEW p \in Process, NEW x, pc' = [pc EXCEPT ![p] = x], pc[p] \notin Holding,
         x \notin Holding \cup Taking, UNCHANGED <<path, aside, data, done, read>>,
         \A q \in Process : q # p => call'[q] = call[q]
  PROVE  CalmInv'
<1>1. pc'[p] = x /\ \A q \in Process : q # p => pc'[q] = pc[q] /\ Token(q)' = Token(q)
  BY DEF TypeOK, Token
<1>2. \A q \in Process : (pc'[q] \in Holding) = (pc[q] \in Holding)
  BY <1>1
<1>3. \A q \in Process : Owns(q) => Owns(q)'
  BY <1>1 DEF Owns
<1> QED
  BY <1>1, <1>2, <1>3 DEF CalmInv, Taking, Holding

LEMMA CalmStep ==
  ASSUME TypeOK, TypeOK', Calm, crashes' = 0, CalmInv, [Next]_vars
  PROVE  CalmInv'
<1>0. Stale \in Nat /\ Prompt /\ crashes = 0 /\ crashes' = 0 /\ path \in Files
      /\ pc \in [Process -> {"idle", "open", "look", "pause", "move", "judge", "restore", "restoreblank", "drop"} \cup Holding]
  BY StaleAssumption DEF Calm, TypeOK
<1>1. ASSUME NEW p \in Process, NEW x, pc' = [pc EXCEPT ![p] = x]
      PROVE  pc'[p] = x /\ \A q \in Process : q # p => pc'[q] = pc[q]
  BY <1>0, <1>1
<1>2. ~Abandoned(path)
  BY <1>0 DEF Abandoned, CalmInv, Owns, Files
<1>3. ASSUME NEW p \in Process, call' = call
      PROVE  Token(p)' = Token(p)
  BY <1>3 DEF Token
<1>4. ASSUME NEW p \in Process,
             Start(p) \/ Contended(p) \/ Look(p) \/ Pause(p) \/ GiveUp(p)
      PROVE  CalmInv'
  <2>1. \A q \in Process : q # p => call'[q] = call[q]
    BY <1>4 DEF Start, Contended, Look, Pause, GiveUp, TypeOK
  <2>2. \E x \in {"idle", "open", "look", "pause"} : pc' = [pc EXCEPT ![p] = x]
    BY <1>2, <1>4 DEF Start, Contended, Look, Pause, GiveUp, Go
  <2>3. pc[p] \notin Holding /\ UNCHANGED <<path, aside, data, done, read>>
    BY <1>4 DEF Start, Contended, Look, Pause, GiveUp, Holding
  <2>4. {"idle", "open", "look", "pause"} \cap (Holding \cup Taking) = {}
    BY DEF Holding, Taking
  <2> QED
    BY <2>1, <2>2, <2>3, <2>4, OutsiderStep
<1>5. ASSUME NEW p \in Process, Create(p)
      PROVE  CalmInv'
  <2>1. /\ path = NoFile /\ pc' = [pc EXCEPT ![p] = "write"] /\ call' = call
        /\ path' = [token |-> Token(p), full |-> FALSE, copy |-> FALSE, age |-> 0]
        /\ UNCHANGED <<aside, data, done, read>>
    BY <1>5 DEF Create, Go
  <2>2. \A q \in Process : pc[q] \notin Holding
    BY <2>1 DEF CalmInv
  <2>3. Owns(p)'
    BY <1>0, <1>1, <1>3, <2>1 DEF Owns, Holding
  <2>4. \A q \in Process : pc'[q] \in Holding => q = p
    BY <1>1, <2>1, <2>2
  <2>5. path' # NoFile
    BY <2>1 DEF NoFile, Token
  <2> QED
    BY <1>1, <2>1, <2>3, <2>4, <2>5 DEF CalmInv, Taking
<1>6. ASSUME NEW p \in Process, pc[p] \in Holding
      PROVE  path # NoFile /\ Owns(p) /\ \A q \in Process : pc[q] \in Holding => q = p
  BY <1>6 DEF CalmInv
<1>7. ASSUME NEW p \in Process, Write(p)
      PROVE  CalmInv'
  <2>1. /\ pc' = [pc EXCEPT ![p] = "in"] /\ call' = call /\ pc[p] \in Holding /\ UNCHANGED <<data, done, read>>
        /\ path' = Filled(path, Token(p)) /\ aside' = [q \in Process |-> Filled(aside[q], Token(p))]
    BY <1>7 DEF Write, Go, Holding
  <2>2. path' = [path EXCEPT !.full = TRUE, !.age = 0]
    BY <1>6, <2>1 DEF Filled, Owns
  <2>3. /\ path'.full /\ path'.age = 0 /\ path'.token = path.token /\ path'.copy = path.copy
        /\ path' # NoFile
    BY <1>0, <2>2 DEF Files, NoFile
  <2>4. Owns(p)'
    BY <1>0, <1>1, <1>3, <1>6, <2>1, <2>3 DEF Owns, Holding
  <2>5. \A q \in Process : pc'[q] \in Holding => q = p
    BY <1>1, <1>6, <2>1
  <2>6. \A q \in Process : aside'[q] = NoFile
    BY <2>1 DEF Filled, CalmInv
  <2> QED
    BY <1>1, <2>1, <2>3, <2>4, <2>5, <2>6 DEF CalmInv, Taking
<1>8. ASSUME NEW p \in Process, WorkReads(p) \/ WorkWrites(p) \/ Check(p)
      PROVE  CalmInv'
  <2>1. pc[p] \in Holding \ {"write"} /\ UNCHANGED <<path, aside, call>>
    BY <1>8 DEF WorkReads, WorkWrites, Check, Holding
  <2>2. \E x \in {"out", "check", "unlink"} : pc' = [pc EXCEPT ![p] = x]
    BY <1>6, <1>8, <2>1 DEF WorkReads, WorkWrites, Check, Go, StillMine, Owns
  <2>3. Owns(p)' /\ path' # NoFile
    BY <1>1, <1>3, <1>6, <2>1, <2>2 DEF Owns, Holding
  <2>4. \A q \in Process : pc'[q] \in Holding => q = p
    BY <1>1, <1>6, <2>1, <2>2
  <2>5. \A q \in Process : pc'[q] \notin Taking
    BY <1>1, <2>2 DEF CalmInv, Taking
  <2>6. data' = done' /\ \A q \in Process : pc'[q] = "out" => read'[q] = data'
    <3>1. \A q \in Process : pc'[q] = "out" => q = p
      BY <2>4 DEF Holding
    <3>2. CASE WorkReads(p)
      BY <1>0, <1>1, <3>1, <3>2 DEF WorkReads, Go, CalmInv, TypeOK
    <3>3. CASE WorkWrites(p)
      BY <1>1, <3>1, <3>3 DEF WorkWrites, Go, CalmInv
    <3>4. CASE Check(p)
      BY <1>1, <3>1, <3>4 DEF Check, Go, CalmInv
    <3> QED
      BY <1>8, <3>2, <3>3, <3>4
  <2> QED
    BY <2>1, <2>3, <2>4, <2>5, <2>6 DEF CalmInv
<1>9. ASSUME NEW p \in Process, Unlink(p)
      PROVE  CalmInv'
  <2>1. pc' = [pc EXCEPT ![p] = "idle"] /\ path' = NoFile /\ pc[p] \in Holding /\ UNCHANGED <<aside, data, done, read>>
    BY <1>9 DEF Unlink, Go, Holding
  <2>2. \A q \in Process : pc'[q] \notin Holding \cup Taking
    BY <1>1, <1>6, <2>1 DEF CalmInv, Holding, Taking
  <2> QED
    BY <1>1, <2>1, <2>2 DEF CalmInv, Holding
<1>10. ASSUME NEW p \in Process, Renew(p)
      PROVE  CalmInv'
  <2>1. path' = [path EXCEPT !.age = 0] /\ pc[p] \in Holding /\ UNCHANGED <<aside, pc, call, read, data, done>>
    BY <1>10 DEF Renew, Holding
  <2>2. /\ path'.full = path.full /\ path'.age = 0 /\ path'.token = path.token /\ path'.copy = path.copy
    BY <1>0, <2>1 DEF Files
  <2>3. path' # NoFile
    BY <1>6, <2>1, <2>2 DEF Owns, NoFile, Token
  <2>4. Owns(p)'
    BY <1>0, <1>3, <1>6, <2>1, <2>2 DEF Owns
  <2> QED
    BY <1>6, <2>1, <2>3, <2>4 DEF CalmInv
<1>11. CASE Tick
  <2>1. path' = Older(path) /\ UNCHANGED <<pc, call, read, data, done>> /\ (Live(path) => path.age < Stale)
        /\ aside' = [q \in Process |-> Older(aside[q])]
    BY <1>0, <1>11 DEF Tick
  <2>2. \A q \in Process : aside'[q] = NoFile
    BY <2>1 DEF Older, CalmInv
  <2>3. CASE path = NoFile
    BY <2>1, <2>2, <2>3 DEF Older, CalmInv
  <2>4. CASE path # NoFile
    <3>1. PICK p \in Process : Owns(p) /\ \A q \in Process : pc[q] \in Holding => q = p
      BY <2>4 DEF CalmInv
    <3>2. path.age < Stale
      BY <2>1, <2>4, <3>1 DEF Live, Owns
    <3>3. path' = [path EXCEPT !.age = path.age + 1]
      BY <1>0, <2>1, <2>4, <3>2 DEF Older, Files
    <3>4. /\ path'.full = path.full /\ path'.age = path.age + 1 /\ path'.token = path.token
          /\ path'.copy = path.copy
      BY <1>0, <3>3 DEF Files
    <3>5. Owns(p)'
      BY <1>0, <1>3, <2>1, <3>1, <3>2, <3>4 DEF Owns, Files
    <3>6. path' # NoFile
      BY <1>0, <3>4 DEF NoFile, Files
    <3> QED
      BY <2>1, <2>2, <3>1, <3>5, <3>6 DEF CalmInv
  <2> QED
    BY <2>3, <2>4
<1>12. ASSUME NEW p \in Process
       PROVE  ~(Move(p) \/ MovedAlready(p) \/ Judge(p) \/ Restore(p) \/ Drop(p) \/ Crash(p))
  BY <1>0 DEF Move, MovedAlready, Judge, Restore, Drop, Crash, CalmInv, Taking
<1>13. CASE UNCHANGED vars
  BY <1>13 DEF vars, CalmInv, Owns, Token
<1> QED
  BY <1>4, <1>5, <1>7, <1>8, <1>9, <1>10, <1>11, <1>12, <1>13 DEF Next, Continue

LEMMA LockStep == LockInv /\ [Next]_vars => LockInv'
<1> SUFFICES ASSUME TypeOK, TypeOK', [Next]_vars, Calm => CalmInv, Calm' PROVE CalmInv'
  BY TypeStep DEF LockInv
<1>1. crashes' = crashes \/ crashes' = crashes + 1
  BY DEF Next, Continue, Start, Create, Contended, Write, Look, Pause, GiveUp, Move, MovedAlready, Judge, Restore,
         Drop, WorkReads, WorkWrites, Check, Unlink, Renew, Crash, Tick, vars
<1>2. Calm /\ crashes' = 0
  BY <1>1 DEF Calm, TypeOK
<1> QED
  BY <1>2, CalmStep

LEMMA LockInvHolds == Spec => []LockInv
<1>1. Init => LockInv
  BY InitType DEF Init, LockInv, CalmInv, Taking, Holding, NoFile
<1> QED
  BY <1>1, LockStep, PTL DEF Spec

\* No update is lost (lock.ts:197) for any number of processes and calls of either mode, as long as
\* no holder outstays Stale and nobody has died: no lock is taken for abandoned before the first crash.
THEOREM NoUpdateLostWhenCalm == Spec => [](Calm => NoUpdateLost)
<1>1. LockInv => (Calm => NoUpdateLost)
  BY DEF LockInv, CalmInv, NoUpdateLost
<1> QED
  BY <1>1, LockInvHolds, PTL

-----------------------------------------------------------------------------
(* After a crash: who holds the lock, and what the work has read *)

\* The steps of a takeover that has moved a file and has not finished with it.
Judging == {"judge", "restore", "restoreblank"}

OneHolder == \A p, q \in Process : pc[p] \in Holding /\ pc[q] \in Holding => p = q

ReadInv ==
  /\ data = done
  /\ \A p \in Process : pc[p] = "out" => read[p] = data

\* p's file is f, an original or a copy, still young enough to be respected.
Kept(f, p) == f # NoFile /\ f.token = Token(p) /\ f.age <= Stale

\* A process comes to hold the lock by its create alone, and holds it in one call.
LEMMA HoldersNext ==
  ASSUME TypeOK, TypeOK', [Next]_vars, NEW p \in Process, pc'[p] \in Holding
  PROVE  \/ pc[p] \in Holding /\ Token(p)' = Token(p)
         \/ Create(p)
<1>1. pc \in [Process -> {"idle", "open", "look", "pause", "move", "judge", "restore", "restoreblank", "drop"} \cup Holding]
  BY DEF TypeOK
<1>2. {"idle", "open", "look", "pause", "move", "judge", "restore", "restoreblank", "drop"} \cap Holding = {}
  BY DEF Holding
<1>3. ASSUME NEW q \in Process, Create(q)
      PROVE  Create(p) \/ (pc[p] \in Holding /\ Token(p)' = Token(p))
  BY <1>1, <1>3 DEF Create, Go, Token
<1>4. ASSUME NEW q \in Process, Start(q)
      PROVE  pc[p] \in Holding /\ Token(p)' = Token(p)
  <2>1. pc'[q] = "open" /\ pc' = [pc EXCEPT ![q] = "open"]
    BY <1>1, <1>4 DEF Start, Go
  <2>2. p # q /\ pc'[p] = pc[p]
    BY <1>1, <1>2, <2>1
  <2>3. call'[p] = call[p]
    BY <1>4, <2>2 DEF Start, TypeOK
  <2> QED
    BY <2>2, <2>3 DEF Token
<1>5. ASSUME NEW q \in Process, NEW x, pc' = [pc EXCEPT ![q] = x], x \notin Holding \/ pc[q] \in Holding
      PROVE  pc[p] \in Holding
  BY <1>1, <1>5
<1>6. ASSUME call' = call
      PROVE  Token(p)' = Token(p)
  BY <1>6 DEF Token
<1>7. ASSUME NEW q \in Process, Contended(q) \/ Look(q) \/ Pause(q) \/ GiveUp(q) \/ Move(q) \/ Judge(q) \/ Restore(q) \/ Crash(q)
      PROVE  pc[p] \in Holding /\ call' = call
  <2>1. call' = call
    BY <1>7 DEF Contended, Look, Pause, GiveUp, Move, Judge, Restore, Crash
  <2>2. \E x \in {"idle", "open", "look", "pause", "move", "judge", "restore", "restoreblank", "drop"} :
          pc' = [pc EXCEPT ![q] = x]
    BY <1>7 DEF Contended, Look, Pause, GiveUp, Move, Judge, Restore, Crash, Go
  <2> QED
    BY <1>2, <1>5, <2>1, <2>2
<1>8. ASSUME NEW q \in Process, MovedAlready(q) \/ Drop(q)
      PROVE  pc[p] \in Holding /\ Token(p)' = Token(p)
  <2>1. pc' = [pc EXCEPT ![q] = "open"] /\ call' = [call EXCEPT ![q].attempts = 1]
    BY <1>8 DEF MovedAlready, Drop, Attempted, Go
  <2>2. call'[p].number = call[p].number
    BY <2>1 DEF TypeOK
  <2> QED
    BY <1>2, <1>5, <2>1, <2>2 DEF Token
<1>9. ASSUME NEW q \in Process, Write(q) \/ WorkReads(q) \/ WorkWrites(q) \/ Check(q) \/ Unlink(q)
      PROVE  pc[p] \in Holding /\ call' = call
  <2>1. call' = call /\ pc[q] \in Holding /\ \E x : pc' = [pc EXCEPT ![q] = x]
    BY <1>9 DEF Write, WorkReads, WorkWrites, Check, Unlink, Go, Holding
  <2> QED
    BY <1>5, <2>1
<1>10. ASSUME Tick \/ (\E q \in Process : Renew(q)) \/ UNCHANGED vars
       PROVE  pc[p] \in Holding /\ call' = call
  BY <1>10 DEF Tick, Renew, vars
<1> QED
  BY <1>3, <1>4, <1>6, <1>7, <1>8, <1>9, <1>10 DEF Next, Continue

\* The first read under the lock is current at its write if there is one holder.
LEMMA ReadNext ==
  ASSUME TypeOK, TypeOK', [Next]_vars, OneHolder, ReadInv
  PROVE  ReadInv'
<1>1. pc \in [Process -> {"idle", "open", "look", "pause", "move", "judge", "restore", "restoreblank", "drop"} \cup Holding]
  BY DEF TypeOK
<1>2. ASSUME NEW p \in Process, WorkReads(p)
      PROVE  ReadInv'
  BY <1>1, <1>2 DEF WorkReads, Go, ReadInv, TypeOK
<1>3. ASSUME NEW p \in Process, WorkWrites(p)
      PROVE  ReadInv'
  <2>1. \A q \in Process : pc[q] = "out" => q = p
    BY <1>3 DEF WorkWrites, OneHolder, Holding
  <2>2. pc' = [pc EXCEPT ![p] = "check"] /\ data' = read[p] + 1 /\ done' = done + 1 /\ pc[p] = "out"
    BY <1>3 DEF WorkWrites, Go
  <2>3. \A q \in Process : pc'[q] # "out"
    BY <1>1, <2>1, <2>2
  <2> QED
    BY <2>2, <2>3 DEF ReadInv
<1>4. ASSUME NEW p \in Process, Crash(p)
      PROVE  ReadInv'
  BY <1>1, <1>4 DEF Crash, Go, ReadInv, TypeOK
<1>5. ASSUME NEW p \in Process, NEW x, pc' = [pc EXCEPT ![p] = x], x # "out", UNCHANGED <<data, done, read>>
      PROVE  ReadInv'
  BY <1>1, <1>5 DEF ReadInv
<1>6. ASSUME NEW p \in Process,
             \/ Start(p) \/ Create(p) \/ Contended(p) \/ Write(p) \/ Look(p) \/ Pause(p) \/ GiveUp(p) \/ Move(p)
             \/ MovedAlready(p) \/ Judge(p) \/ Restore(p) \/ Drop(p) \/ Check(p) \/ Unlink(p)
      PROVE  ReadInv'
  <2>1. UNCHANGED <<data, done, read>>
    BY <1>6 DEF Start, Create, Contended, Write, Look, Pause, GiveUp, Move, MovedAlready, Judge, Restore, Drop, Check,
                Unlink
  <2>2. \E x : x # "out" /\ pc' = [pc EXCEPT ![p] = x]
    BY <1>6 DEF Start, Create, Contended, Write, Look, Pause, GiveUp, Move, MovedAlready, Judge, Restore, Drop, Check,
                Unlink, Go
  <2> QED
    BY <1>5, <2>1, <2>2
<1>7. ASSUME Tick \/ (\E p \in Process : Renew(p)) \/ UNCHANGED vars
      PROVE  ReadInv'
  BY <1>7 DEF Tick, Renew, vars, ReadInv
<1> QED
  BY <1>2, <1>3, <1>4, <1>6, <1>7 DEF Next, Continue

\* g is what is made of f while its process holds the lock: nothing, the write of its body, a touch, a
\* put-back as a copy, and, while the holder is prompt, time.
Tended(f, g) ==
  \/ g = f
  \/ \E t : g = Filled(f, t)
  \/ g = [f EXCEPT !.age = 0]
  \/ \E b \in BOOLEAN : g = [f EXCEPT !.full = b, !.copy = TRUE, !.age = 0]
  \/ f.age < Stale /\ g = Older(f)

\* A kept file stays one through all of it.
LEMMA KeptStays ==
  ASSUME NEW f \in Files, NEW p \in Process, Kept(f, p), Token(p)' = Token(p), NEW g, Tended(f, g)
  PROVE  Kept(g, p)'
<1>1. Stale \in Nat /\ f.age \in Nat /\ f.token = Token(p) /\ f.age <= Stale /\ Token(p) # <<>> /\ f # NoFile
  BY StaleAssumption DEF Kept, Files, Token
<1>2. SUFFICES g.token = f.token /\ g.age \in Nat /\ g.age <= Stale
  <2>1. NoFile.token = <<>>
    BY DEF NoFile
  <2> QED
    BY <1>1, <2>1 DEF Kept
<1>3. CASE g = f
  BY <1>1, <1>3
<1>4. CASE g = [f EXCEPT !.age = 0]
  BY <1>1, <1>4 DEF Files
<1>5. CASE g = [f EXCEPT !.full = TRUE, !.age = 0]
  BY <1>1, <1>5 DEF Files
<1>6. ASSUME NEW b \in BOOLEAN, g = [f EXCEPT !.full = b, !.copy = TRUE, !.age = 0]
      PROVE  g.token = f.token /\ g.age = 0
  BY <1>6 DEF Files
<1>7. ASSUME f.age < Stale, g = Older(f)
      PROVE  g.token = f.token /\ g.age = f.age + 1
  <2>1. g = [f EXCEPT !.age = f.age + 1]
    BY <1>1, <1>7 DEF Older
  <2> QED
    BY <2>1 DEF Files
<1>8. ASSUME NEW t, g = Filled(f, t)
      PROVE  g = f \/ g = [f EXCEPT !.full = TRUE, !.age = 0]
  BY <1>8 DEF Filled
<1>9. 0 \in Nat /\ 0 <= Stale /\ (f.age < Stale => f.age + 1 \in Nat /\ f.age + 1 <= Stale)
  BY <1>1
<1>10. CASE \E t : g = Filled(f, t)
  BY <1>3, <1>5, <1>8, <1>10
<1>11. CASE (\E b \in BOOLEAN : g = [f EXCEPT !.full = b, !.copy = TRUE, !.age = 0]) \/ (f.age < Stale /\ g = Older(f))
  BY <1>6, <1>7, <1>9, <1>11, Zenon
<1> QED
  BY <1>3, <1>4, <1>10, <1>11, Zenon DEF Tended

\* What is kept of a process that holds the lock is live, and not abandoned.
LEMMA KeptLive ==
  ASSUME NEW f \in Files, NEW p \in Process, Kept(f, p), pc[p] \in Holding
  PROVE  Live(f) /\ ~Abandoned(f)
  BY StaleAssumption DEF Kept, Live, Abandoned, Files

\* No file becomes of none, and no other file is kept of the process of one.
LEMMA NoFileStays ==
  /\ \A t : Filled(NoFile, t) = NoFile
  /\ Older(NoFile) = NoFile
  BY DEF Filled, Older

-----------------------------------------------------------------------------
(* Two processes, none of which dies in the middle of a takeover *)

Two == \E a, b \in Process : Process = {a, b}

\* No process dies between the move of a takeover and the put-back or the drop of what it moved.
TakeoversWhole == \A p \in Process : Crash(p) => pc[p] \notin Judging

\* p's lock is at the path, or with the other, who has moved it and puts it back.
Held(p) ==
  \/ Kept(path, p)
  \/ path = NoFile /\ \E q \in Process : q # p /\ pc[q] \in Judging /\ Kept(aside[q], p)

HeldInv == OneHolder /\ ReadInv /\ \A p \in Process : pc[p] \in Holding => Held(p)

\* A step keeps the lock of a process that goes on holding it.
LEMMA HeldStays ==
  ASSUME TypeOK, TypeOK', Prompt, Two, HeldInv, [Next]_vars, TakeoversWhole,
         NEW p \in Process, pc[p] \in Holding, pc'[p] \in Holding, Token(p)' = Token(p)
  PROVE  Held(p)'
<1>0. /\ Stale \in Nat /\ path \in Files /\ aside \in [Process -> Files] /\ Held(p)
      /\ pc \in [Process -> {"idle", "open", "look", "pause", "move", "judge", "restore", "restoreblank", "drop"} \cup Holding]
  BY StaleAssumption DEF TypeOK, HeldInv
<1>1. \A q \in Process : pc[q] \in Holding => q = p
  BY DEF HeldInv, OneHolder
<1>2. ASSUME NEW q \in Process, NEW r \in Process, q # p, r # p
      PROVE  q = r
  BY <1>2 DEF Two
<1>3. Judging \cap Holding = {} /\ \A q \in Process : pc[q] \in Judging => q # p
  BY DEF Judging, Holding
<1>4. ASSUME NEW q \in Process, NEW x, pc' = [pc EXCEPT ![q] = x], aside' = aside, path' = path,
             pc[q] \notin Judging \/ x \in Judging
      PROVE  Held(p)'
  <2>1. CASE Kept(path, p)
    BY <1>0, <1>4, <2>1, KeptStays DEF Held, Tended
  <2>2. CASE path = NoFile /\ \E r \in Process : r # p /\ pc[r] \in Judging /\ Kept(aside[r], p)
    <3>1. PICK r \in Process : r # p /\ pc[r] \in Judging /\ Kept(aside[r], p)
      BY <2>2
    <3>2. pc'[r] \in Judging
      BY <1>0, <1>4, <3>1
    <3>3. Kept(aside[r], p)'
      BY <1>0, <1>4, <3>1, KeptStays DEF Tended
    <3> QED
      BY <1>4, <2>2, <3>1, <3>2, <3>3 DEF Held
  <2> QED
    BY <1>0, <2>1, <2>2 DEF Held
<1>5. ASSUME NEW q \in Process,
             \/ Start(q) \/ Contended(q) \/ Look(q) \/ Pause(q) \/ GiveUp(q) \/ MovedAlready(q)
             \/ WorkReads(q) \/ WorkWrites(q) \/ Check(q)
      PROVE  Held(p)'
  <2>1. aside' = aside /\ path' = path /\ \E x : pc' = [pc EXCEPT ![q] = x]
    BY <1>5 DEF Start, Contended, Look, Pause, GiveUp, MovedAlready, WorkReads, WorkWrites, Check, Go
  <2>2. pc[q] \notin Judging
    BY <1>5 DEF Start, Contended, Look, Pause, GiveUp, MovedAlready, WorkReads, WorkWrites, Check, Judging
  <2> QED
    BY <1>4, <2>1, <2>2
<1>6. ASSUME NEW q \in Process, Create(q)
      PROVE  Held(p)'
  <2>1. path = NoFile /\ pc[q] = "open"
    BY <1>6 DEF Create
  <2>2. PICK r \in Process : r # p /\ pc[r] \in Judging
    BY <1>0, <2>1 DEF Held, Kept
  <2>3. q # r /\ q # p
    BY <2>1, <2>2 DEF Judging, Holding
  <2> QED
    BY <1>2, <2>2, <2>3
<1>7. ASSUME NEW q \in Process, Write(q)
      PROVE  Held(p)'
  <2>1. q = p /\ path' = Filled(path, Token(q)) /\ \A r \in Process : aside'[r] = Filled(aside[r], Token(q))
    BY <1>1, <1>7 DEF Write, Holding
  <2>2. \A r \in Process : r # p => pc'[r] = pc[r]
    BY <1>0, <1>7, <2>1 DEF Write, Go
  <2>3. CASE Kept(path, p)
    BY <1>0, <2>1, <2>3, KeptStays DEF Held, Tended
  <2>4. CASE path = NoFile /\ \E r \in Process : r # p /\ pc[r] \in Judging /\ Kept(aside[r], p)
    <3>1. PICK r \in Process : r # p /\ pc[r] \in Judging /\ Kept(aside[r], p)
      BY <2>4
    <3>2. Kept(aside[r], p)'
      BY <1>0, <2>1, <3>1, KeptStays DEF Tended
    <3>3. path' = NoFile
      BY <2>1, <2>4, NoFileStays
    <3> QED
      BY <2>2, <3>1, <3>2, <3>3 DEF Held
  <2> QED
    BY <1>0, <2>3, <2>4 DEF Held
<1>8. ASSUME NEW q \in Process, Move(q)
      PROVE  Held(p)'
  <2>1. /\ path # NoFile /\ path' = NoFile /\ aside' = [aside EXCEPT ![q] = path] /\ pc' = [pc EXCEPT ![q] = "judge"]
        /\ q # p
    BY <1>8 DEF Move, Go, Holding
  <2>2. Kept(path, p)
    BY <1>0, <2>1 DEF Held
  <2>3. aside'[q] = path /\ pc'[q] \in Judging
    BY <1>0, <2>1 DEF Judging
  <2>4. Kept(aside[q], p)'
    BY <1>0, <2>2, <2>3, KeptStays DEF Tended
  <2> QED
    BY <2>1, <2>3, <2>4 DEF Held
<1>9. ASSUME NEW q \in Process, Judge(q)
      PROVE  Held(p)'
  <2>1. aside' = aside /\ path' = path /\ q # p /\ pc[q] = "judge"
    BY <1>9 DEF Judge, Holding
  <2>2. CASE Kept(path, p)
    BY <1>0, <2>1, <2>2, KeptStays DEF Held, Tended
  <2>3. CASE path = NoFile /\ \E r \in Process : r # p /\ pc[r] \in Judging /\ Kept(aside[r], p)
    <3>1. Kept(aside[q], p)
      BY <1>2, <2>1, <2>3
    <3>2. ~Abandoned(aside[q])
      BY <1>0, <3>1, KeptLive
    <3>3. \E x \in Judging : pc' = [pc EXCEPT ![q] = x]
      BY <1>9, <3>2 DEF Judge, Go, Judging
    <3> QED
      BY <1>4, <2>1, <3>3
  <2> QED
    BY <1>0, <2>2, <2>3 DEF Held
<1>10. ASSUME NEW q \in Process, Restore(q)
       PROVE  Held(p)'
  <2>1. aside' = aside /\ q # p /\ pc[q] \in Judging
    BY <1>10 DEF Restore, Holding, Judging
  <2>2. CASE Kept(path, p)
    <3>1. path' = path
      BY <1>10, <2>2 DEF Restore, Kept
    <3> QED
      BY <1>0, <2>2, <3>1, KeptStays DEF Held, Tended
  <2>3. CASE path = NoFile /\ \E r \in Process : r # p /\ pc[r] \in Judging /\ Kept(aside[r], p)
    <3>1. Kept(aside[q], p)
      BY <1>2, <2>1, <2>3
    <3>2. (pc[q] = "restore") \in BOOLEAN
      OBVIOUS
    <3>3. \/ path' = aside[q]
          \/ path' = [aside[q] EXCEPT !.full = pc[q] = "restore", !.copy = TRUE, !.age = 0]
      BY <1>10, <2>3 DEF Restore
    <3>4. Tended(aside[q], path')
      BY <3>2, <3>3, Zenon DEF Tended
    <3>5. Kept(path, p)'
      BY <1>0, <3>1, <3>4, KeptStays
    <3> QED
      BY <3>5 DEF Held
  <2> QED
    BY <1>0, <2>2, <2>3 DEF Held
<1>11. ASSUME NEW q \in Process, Drop(q) \/ Crash(q)
       PROVE  Held(p)'
  <2>1. /\ path' = path /\ aside' = [aside EXCEPT ![q] = NoFile] /\ pc[q] \notin Judging
        /\ \E x : pc' = [pc EXCEPT ![q] = x]
    BY <1>11 DEF Drop, Crash, Go, Judging, TakeoversWhole
  <2>2. CASE Kept(path, p)
    BY <1>0, <2>1, <2>2, KeptStays DEF Held, Tended
  <2>3. CASE path = NoFile /\ \E r \in Process : r # p /\ pc[r] \in Judging /\ Kept(aside[r], p)
    <3>1. PICK r \in Process : r # p /\ pc[r] \in Judging /\ Kept(aside[r], p)
      BY <2>3
    <3>2. aside'[r] = aside[r] /\ pc'[r] = pc[r]
      BY <1>0, <2>1, <3>1
    <3>3. Kept(aside[r], p)'
      BY <1>0, <3>1, <3>2, KeptStays DEF Tended
    <3> QED
      BY <2>1, <2>3, <3>1, <3>2, <3>3 DEF Held
  <2> QED
    BY <1>0, <2>2, <2>3 DEF Held
<1>12. ASSUME NEW q \in Process, Unlink(q)
       PROVE  FALSE
  BY <1>0, <1>1, <1>12 DEF Unlink, Go, Holding
<1>13. ASSUME NEW q \in Process, Renew(q)
       PROVE  Held(p)'
  <2>1. path # NoFile /\ path' = [path EXCEPT !.age = 0]
    BY <1>13 DEF Renew
  <2> QED
    BY <1>0, <2>1, KeptStays DEF Held, Tended
<1>14. ASSUME Tick
       PROVE  Held(p)'
  <2>1. /\ \A f \in {path} \cup {aside[r] : r \in Process} : Live(f) => f.age < Stale
        /\ path' = Older(path) /\ pc' = pc /\ \A r \in Process : aside'[r] = Older(aside[r])
    BY <1>14 DEF Tick
  <2>2. CASE Kept(path, p)
    BY <1>0, <2>1, <2>2, KeptStays, KeptLive DEF Held, Tended
  <2>3. CASE path = NoFile /\ \E r \in Process : r # p /\ pc[r] \in Judging /\ Kept(aside[r], p)
    <3>1. PICK r \in Process : r # p /\ pc[r] \in Judging /\ Kept(aside[r], p)
      BY <2>3
    <3>2. aside[r] \in Files /\ aside[r].age < Stale
      BY <1>0, <2>1, <3>1, KeptLive
    <3>3. Kept(aside[r], p)'
      BY <2>1, <3>1, <3>2, KeptStays DEF Tended
    <3>4. path' = NoFile
      BY <2>1, <2>3, NoFileStays
    <3> QED
      BY <2>1, <3>1, <3>3, <3>4 DEF Held
  <2> QED
    BY <1>0, <2>2, <2>3 DEF Held
<1>15. ASSUME UNCHANGED vars
       PROVE  Held(p)'
  BY <1>0, <1>15 DEF vars, Held, Kept
<1> QED
  BY <1>5, <1>6, <1>7, <1>8, <1>9, <1>10, <1>11, <1>12, <1>13, <1>14, <1>15 DEF Next, Continue

LEMMA HeldStep ==
  ASSUME TypeOK, TypeOK', Prompt, Two, HeldInv, [Next]_vars, TakeoversWhole
  PROVE  HeldInv'
<1>1. ReadInv'
  BY ReadNext DEF HeldInv
<1>2. ASSUME NEW p \in Process, Create(p)
      PROVE  /\ Held(p)'
             /\ \A q \in Process : pc'[q] \in Holding => q = p
  <2>1. /\ path = NoFile /\ pc' = [pc EXCEPT ![p] = "write"] /\ call' = call /\ pc[p] = "open"
        /\ path' = [token |-> Token(p), full |-> FALSE, copy |-> FALSE, age |-> 0]
    BY <1>2 DEF Create, Go
  <2>2. ASSUME NEW q \in Process, pc[q] \in Holding
        PROVE  FALSE
    <3>1. PICK r \in Process : r # q /\ pc[r] \in Judging
      BY <2>1, <2>2 DEF HeldInv, Held, Kept
    <3>2. p # q /\ p # r
      BY <2>1, <2>2, <3>1 DEF Judging, Holding
    <3> QED
      BY <3>1, <3>2 DEF Two
  <2>3. \A q \in Process : pc'[q] \in Holding => q = p
    BY <2>1, <2>2 DEF TypeOK
  <2>4. Token(p)' = Token(p) /\ path'.token = Token(p) /\ path'.age = 0 /\ Token(p) # <<>>
    BY <2>1 DEF Token
  <2>5. path' # NoFile
    BY <2>4 DEF NoFile
  <2>6. Kept(path, p)'
    BY <2>4, <2>5, StaleAssumption DEF Kept
  <2> QED
    BY <2>3, <2>6 DEF Held
<1>3. CASE \E p \in Process : Create(p)
  BY <1>1, <1>2, <1>3 DEF HeldInv, OneHolder
<1>4. CASE ~ \E p \in Process : Create(p)
  <2>1. ASSUME NEW p \in Process, pc'[p] \in Holding
        PROVE  pc[p] \in Holding /\ Token(p)' = Token(p)
    BY <1>4, <2>1, HoldersNext
  <2>2. \A p \in Process : pc'[p] \in Holding => Held(p)'
    BY <2>1, HeldStays
  <2>3. OneHolder'
    BY <2>1 DEF HeldInv, OneHolder
  <2> QED
    BY <1>1, <2>2, <2>3 DEF HeldInv
<1> QED
  BY <1>3, <1>4

LEMMA InitHeld == Init => HeldInv
  BY DEF Init, HeldInv, OneHolder, ReadInv, Holding

\* No update of two processes is lost (lock.ts:197), however often they die, as long as no holder
\* outstays Stale and neither dies with the other's lock moved aside: a live lock that the takeover
\* (lock.ts:115) moved comes back before anybody else can make one.
THEOREM NoUpdateLostOfTwo ==
  ASSUME Prompt, Two
  PROVE  Spec /\ [][TakeoversWhole]_vars => []NoUpdateLost
<1>1. Init => TypeOK /\ HeldInv
  BY InitType, InitHeld
<1>2. TypeOK /\ HeldInv /\ [Next]_vars /\ [TakeoversWhole]_vars => (TypeOK /\ HeldInv)'
  <2> SUFFICES ASSUME TypeOK, HeldInv, [Next]_vars, [TakeoversWhole]_vars PROVE (TypeOK /\ HeldInv)'
    OBVIOUS
  <2>1. TypeOK'
    BY TypeStep
  <2>2. CASE TakeoversWhole
    BY <2>1, <2>2, HeldStep
  <2>3. CASE UNCHANGED vars
    BY <2>1, <2>3 DEF vars, HeldInv, OneHolder, ReadInv, Held, Kept, Token
  <2> QED
    BY <2>2, <2>3
<1>3. HeldInv => NoUpdateLost
  BY DEF HeldInv, ReadInv, NoUpdateLost
<1> QED
  BY <1>1, <1>2, <1>3, PTL DEF Spec

\* The first crash finds no takeover under way, and there is one crash.
LEMMA OneCrash ==
  ASSUME Prompt, MaxCrashes <= 1
  PROVE  Spec => [][TakeoversWhole]_vars
<1>1. LockInv /\ [Next]_vars => [TakeoversWhole]_vars
  <2> SUFFICES ASSUME LockInv, NEW p \in Process, Crash(p) PROVE pc[p] \notin Judging
    BY DEF TakeoversWhole
  <2>1. crashes = 0
    BY BoundAssumption DEF Crash, LockInv, TypeOK
  <2>2. CalmInv
    BY <2>1 DEF LockInv, Calm
  <2> QED
    BY <2>2 DEF CalmInv, Taking, Judging
<1> QED
  BY <1>1, LockInvHolds, PTL DEF Spec

\* What the run of two processes and one crash checks, whatever the calls, their modes and Stale: no
\* update is lost (lock.ts:197).
THEOREM NoUpdateLostOfTwoOnce ==
  ASSUME Prompt, Two, MaxCrashes <= 1
  PROVE  Spec => []NoUpdateLost
  BY NoUpdateLostOfTwo, OneCrash, PTL

-----------------------------------------------------------------------------
(* Any number of processes, where a move takes nothing but an abandoned lock *)

\* The lock a takeover moves is the one it looked at, or another that is abandoned by then.
MovesAbandoned == \A p \in Process : Move(p) => Abandoned(path)

\* The file f is of no call that has not been made.
Past(f) == \A r \in Process, n \in Nat : f.token = <<r, n>> => n <= call[r].number

\* Every holder's lock is at the path; a file there is of a holder or of a call that is over, one moved
\* aside of a call that is over, and is abandoned when it is judged.
PlaceInv ==
  /\ \A p \in Process : pc[p] \in Holding => Kept(path, p)
  /\ Past(path) /\ \A p \in Process : Past(aside[p])
  /\ \A r \in Process : path.token = Token(r) => pc[r] \in Holding \cup {"idle"}
  /\ \A p, r \in Process : aside[p].token = Token(r) => pc[r] = "idle"
  /\ \A p \in Process : pc[p] \notin {"restore", "restoreblank"}
  /\ \A p \in Process : pc[p] = "judge" => Abandoned(aside[p])
  /\ ReadInv

LEMMA PlacedAlone == TypeOK /\ PlaceInv => OneHolder
  BY DEF PlaceInv, OneHolder, Kept, Token

\* A step that leaves the path and every call alone, and of the files moved aside may remove its own.
LEMMA PlaceFrame ==
  ASSUME TypeOK, PlaceInv, ReadInv', NEW p \in Process, NEW x, pc' = [pc EXCEPT ![p] = x], path' = path,
         \A r \in Process : call'[r].number = call[r].number,
         \A q \in Process : aside'[q] = aside[q] \/ (q = p /\ aside'[q] = NoFile),
         pc[p] # "idle", pc[p] \in Holding => x \in Holding \cup {"idle"}, pc[p] \notin Holding => x \notin Holding,
         x \notin Judging
  PROVE  PlaceInv'
<1>0. pc'[p] = x /\ (\A q \in Process : q # p => pc'[q] = pc[q]) /\ Stale \in Nat
  BY StaleAssumption DEF TypeOK
<1>1. \A r \in Process : Token(r)' = Token(r)
  BY DEF Token
<1>2. \A q \in Process : aside'[q].token = aside[q].token \/ (q = p /\ aside'[q].token = <<>>)
  BY DEF NoFile
<1>3. \A r \in Process : Token(r) # <<>>
  BY DEF Token
<1>4. ASSUME NEW q \in Process, pc'[q] \in Holding
      PROVE  Kept(path, q)'
  BY <1>0, <1>1, <1>4 DEF PlaceInv, Kept
<1>5. Past(path)' /\ \A q \in Process : Past(aside[q])'
  BY <1>2 DEF PlaceInv, Past
<1>6. \A r \in Process : path'.token = Token(r)' => pc'[r] \in Holding \cup {"idle"}
  BY <1>0, <1>1 DEF PlaceInv
<1>7. \A q, r \in Process : aside'[q].token = Token(r)' => pc'[r] = "idle"
  BY <1>0, <1>1, <1>2, <1>3 DEF PlaceInv
<1>8. \A q \in Process : pc'[q] \notin {"restore", "restoreblank"}
  BY <1>0 DEF PlaceInv, Judging
<1>9. \A q \in Process : pc'[q] = "judge" => Abandoned(aside[q])'
  BY <1>0 DEF PlaceInv, Judging, Abandoned
<1> QED
  BY <1>4, <1>5, <1>6, <1>7, <1>8, <1>9 DEF PlaceInv

\* A step that leaves every step of a call, and every file's token, as it is.
LEMMA PlaceAged ==
  ASSUME TypeOK, PlaceInv, ReadInv', pc' = pc, call' = call, path'.token = path.token,
         \A q \in Process : aside'[q].token = aside[q].token,
         \A q \in Process : Abandoned(aside[q]) => Abandoned(aside'[q]),
         \A q \in Process : pc[q] \in Holding => Kept(path, q)'
  PROVE  PlaceInv'
<1>1. \A r \in Process : Token(r)' = Token(r)
  BY DEF Token
<1>2. Past(path)' /\ \A q \in Process : Past(aside[q])'
  BY DEF PlaceInv, Past
<1>3. \A q \in Process : pc'[q] = "judge" => Abandoned(aside[q])'
  BY DEF PlaceInv, Abandoned
<1> QED
  BY <1>1, <1>2, <1>3 DEF PlaceInv

LEMMA PlaceStep ==
  ASSUME TypeOK, TypeOK', Prompt, PlaceInv, [Next]_vars, MovesAbandoned
  PROVE  PlaceInv'
<1>0. /\ Stale \in Nat /\ path \in Files /\ aside \in [Process -> Files]
      /\ pc \in [Process -> {"idle", "open", "look", "pause", "move", "judge", "restore", "restoreblank", "drop"} \cup Holding]
      /\ OneHolder
  BY StaleAssumption, PlacedAlone DEF TypeOK
<1>1. ReadInv'
  BY <1>0, ReadNext DEF PlaceInv
<1>2. ASSUME NEW p \in Process, NEW x, pc' = [pc EXCEPT ![p] = x]
      PROVE  pc'[p] = x /\ \A q \in Process : q # p => pc'[q] = pc[q]
  BY <1>0, <1>2
<1>3. \A r \in Process : Token(r) # <<>> /\ \A q \in Process : Token(q) = Token(r) => q = r
  BY DEF Token
<1>4. ASSUME NEW p \in Process, Contended(p) \/ Look(p) \/ Pause(p) \/ GiveUp(p) \/ MovedAlready(p) \/ Judge(p)
      PROVE  PlaceInv'
  <2>1. /\ pc[p] \in {"open", "look", "pause", "move", "judge"} /\ path' = path /\ aside' = aside
        /\ \A r \in Process : call'[r].number = call[r].number
    BY <1>4 DEF Contended, Look, Pause, GiveUp, MovedAlready, Judge, Attempted, TypeOK
  <2>2. \E x \in {"idle", "open", "look", "pause", "move", "drop"} : pc' = [pc EXCEPT ![p] = x]
    BY <1>4 DEF Contended, Look, Pause, GiveUp, MovedAlready, Judge, Go, PlaceInv
  <2>3. /\ {"idle", "open", "look", "pause", "move", "drop"} \cap (Holding \cup Judging) = {}
        /\ "idle" \notin {"open", "look", "pause", "move", "judge"}
        /\ {"open", "look", "pause", "move", "judge"} \cap Holding = {}
    BY DEF Holding, Judging
  <2> QED
    BY <1>1, <2>1, <2>2, <2>3, PlaceFrame
<1>5. ASSUME NEW p \in Process, WorkReads(p) \/ WorkWrites(p) \/ Check(p)
      PROVE  PlaceInv'
  <2>1. pc[p] \in Holding /\ path' = path /\ aside' = aside /\ call' = call
    BY <1>5 DEF WorkReads, WorkWrites, Check, Holding
  <2>2. \E x \in {"idle", "out", "check", "unlink"} : pc' = [pc EXCEPT ![p] = x]
    BY <1>5 DEF WorkReads, WorkWrites, Check, Go
  <2>3. "idle" \notin Holding /\ {"out", "check", "unlink"} \subseteq Holding
        /\ {"idle", "out", "check", "unlink"} \cap Judging = {}
    BY DEF Holding, Judging
  <2> QED
    BY <1>1, <2>1, <2>2, <2>3, PlaceFrame
<1>6. ASSUME NEW p \in Process, Drop(p) \/ Crash(p)
      PROVE  PlaceInv'
  <2>1. /\ pc[p] # "idle" /\ path' = path /\ aside' = [aside EXCEPT ![p] = NoFile]
        /\ \A r \in Process : call'[r].number = call[r].number
        /\ pc' = [pc EXCEPT ![p] = "idle"] \/ (pc[p] = "drop" /\ pc' = [pc EXCEPT ![p] = "open"])
    BY <1>6 DEF Drop, Crash, Attempted, TypeOK, Go
  <2>2. \A q \in Process : aside'[q] = aside[q] \/ (q = p /\ aside'[q] = NoFile)
    BY <1>0, <2>1
  <2>3. {"idle", "open", "drop"} \cap (Holding \cup Judging) = {}
    BY DEF Holding, Judging
  <2> QED
    BY <1>1, <2>1, <2>2, <2>3, PlaceFrame
<1>7. ASSUME NEW p \in Process, Start(p)
      PROVE  PlaceInv'
  <2>1. pc[p] = "idle" /\ pc' = [pc EXCEPT ![p] = "open"] /\ UNCHANGED <<path, aside>>
    BY <1>7 DEF Start, Go
  <2>2. PICK m \in Modes : call' = [call EXCEPT ![p] = [number |-> call[p].number + 1, mode |-> m, attempts |-> 0]]
    BY <1>7 DEF Start
  <2>3. /\ call[p].number \in Nat /\ call'[p].number = call[p].number + 1
        /\ \A r \in Process : r # p => call'[r] = call[r]
    BY <2>2 DEF TypeOK
  <2>4. \A r \in Process : r # p => Token(r)' = Token(r)
    BY <2>3 DEF Token
  <2>5. Token(p)' = <<p, call[p].number + 1>>
    BY <2>3 DEF Token
  <2>6. path.token # Token(p)' /\ \A q \in Process : aside[q].token # Token(p)'
    BY <2>3, <2>5 DEF PlaceInv, Past
  <2>7. Past(path)' /\ \A q \in Process : Past(aside[q])'
    <3>1. \A r \in Process : call[r].number \in Nat /\ call[r].number <= call'[r].number /\ call'[r].number \in Nat
      BY <2>3 DEF TypeOK
    <3> QED
      BY <2>1, <3>1 DEF PlaceInv, Past
  <2>8. \A q \in Process : pc'[q] \in Holding => q # p /\ pc[q] \in Holding
    BY <1>2, <2>1 DEF Holding
  <2>9. \A q \in Process : pc'[q] \in Holding => Kept(path, q)'
    BY <2>1, <2>4, <2>8 DEF PlaceInv, Kept
  <2>10. \A r \in Process : path'.token = Token(r)' => pc'[r] \in Holding \cup {"idle"}
    BY <1>2, <2>1, <2>4, <2>6 DEF PlaceInv
  <2>11. \A q, r \in Process : aside'[q].token = Token(r)' => pc'[r] = "idle"
    BY <1>2, <2>1, <2>4, <2>6 DEF PlaceInv
  <2>12. \A q \in Process : pc'[q] \notin {"restore", "restoreblank"} /\ (pc'[q] = "judge" => Abandoned(aside[q])')
    BY <1>2, <2>1 DEF PlaceInv, Abandoned
  <2> QED
    BY <1>1, <2>7, <2>9, <2>10, <2>11, <2>12 DEF PlaceInv
<1>8. ASSUME NEW p \in Process, Create(p)
      PROVE  PlaceInv'
  <2>1. /\ path = NoFile /\ pc' = [pc EXCEPT ![p] = "write"] /\ call' = call /\ pc[p] = "open" /\ aside' = aside
        /\ path' = [token |-> Token(p), full |-> FALSE, copy |-> FALSE, age |-> 0]
    BY <1>8 DEF Create, Go
  <2>2. \A r \in Process : Token(r)' = Token(r)
    BY <2>1 DEF Token
  <2>3. \A q \in Process : pc[q] \notin Holding
    BY <2>1 DEF PlaceInv, Kept
  <2>4. path'.token = Token(p) /\ path'.age = 0 /\ path' # NoFile
    BY <1>3, <2>1 DEF NoFile
  <2>5. \A q \in Process : pc'[q] \in Holding => Kept(path, q)'
    BY <1>0, <1>2, <2>1, <2>2, <2>3, <2>4 DEF Kept
  <2>6. Past(path)' /\ \A q \in Process : Past(aside[q])'
    <3>1. Past(path)'
      BY <2>1, <2>4 DEF Past, Token, TypeOK
    <3> QED
      BY <2>1, <3>1 DEF PlaceInv, Past
  <2>7. \A r \in Process : path'.token = Token(r)' => pc'[r] \in Holding \cup {"idle"}
    BY <1>2, <1>3, <2>1, <2>2, <2>4 DEF Holding
  <2>8. \A q, r \in Process : aside'[q].token = Token(r)' => pc'[r] = "idle"
    BY <1>2, <2>1, <2>2 DEF PlaceInv
  <2>9. \A q \in Process : pc'[q] \notin {"restore", "restoreblank"} /\ (pc'[q] = "judge" => Abandoned(aside[q])')
    BY <1>2, <2>1 DEF PlaceInv, Abandoned
  <2> QED
    BY <1>1, <2>5, <2>6, <2>7, <2>8, <2>9 DEF PlaceInv
<1>9. ASSUME NEW p \in Process, Write(p)
      PROVE  PlaceInv'
  <2>1. /\ path' = Filled(path, Token(p)) /\ \A q \in Process : aside'[q] = Filled(aside[q], Token(p))
        /\ pc[p] = "write" /\ pc' = [pc EXCEPT ![p] = "in"] /\ call' = call
    BY <1>9 DEF Write, Go
  <2>2. \A r \in Process : Token(r)' = Token(r)
    BY <2>1 DEF Token
  <2>3. \A q \in Process : aside'[q] = aside[q]
    BY <2>1 DEF PlaceInv, Filled
  <2>4. \A q \in Process : pc'[q] \in Holding => q = p
    BY <1>0, <1>2, <2>1 DEF OneHolder, Holding
  <2>5. Kept(path, p)
    BY <2>1 DEF PlaceInv, Holding
  <2>6. Kept(path, p)'
    BY <1>0, <2>1, <2>2, <2>5, KeptStays DEF Tended
  <2>7. path'.token = path.token
    BY <2>2, <2>5, <2>6 DEF Kept
  <2>8. Past(path)' /\ \A q \in Process : Past(aside[q])'
    BY <2>1, <2>3, <2>7 DEF PlaceInv, Past
  <2>9. \A r \in Process : path'.token = Token(r)' => pc'[r] \in Holding \cup {"idle"}
    BY <1>2, <2>1, <2>2, <2>7 DEF PlaceInv, Holding
  <2>10. \A q, r \in Process : aside'[q].token = Token(r)' => pc'[r] = "idle"
    BY <1>2, <2>1, <2>2, <2>3 DEF PlaceInv
  <2>11. \A q \in Process : pc'[q] \notin {"restore", "restoreblank"} /\ (pc'[q] = "judge" => Abandoned(aside[q])')
    BY <1>2, <2>1, <2>3 DEF PlaceInv, Abandoned
  <2> QED
    BY <1>1, <2>4, <2>6, <2>8, <2>9, <2>10, <2>11 DEF PlaceInv
<1>10. ASSUME NEW p \in Process, Move(p)
       PROVE  PlaceInv'
  <2>1. /\ path # NoFile /\ path' = NoFile /\ aside' = [aside EXCEPT ![p] = path] /\ pc' = [pc EXCEPT ![p] = "judge"]
        /\ Abandoned(path) /\ call' = call /\ pc[p] = "move"
    BY <1>10 DEF Move, Go, MovesAbandoned
  <2>2. \A r \in Process : Token(r)' = Token(r)
    BY <2>1 DEF Token
  <2>3. \A q \in Process : pc[q] \notin Holding
    BY <1>0, <2>1, KeptLive DEF PlaceInv
  <2>4. \A q \in Process : pc'[q] \notin Holding
    BY <1>2, <2>1, <2>3 DEF Holding
  <2>5. aside'[p] = path /\ \A q \in Process : q # p => aside'[q] = aside[q]
    BY <1>0, <2>1
  <2>6. path'.token = <<>>
    BY <2>1 DEF NoFile
  <2>7. Past(path)' /\ \A q \in Process : Past(aside[q])'
    <3>1. Past(path)'
      BY <2>6 DEF Past
    <3> QED
      BY <2>1, <2>5, <3>1 DEF PlaceInv, Past
  <2>8. \A r \in Process : path'.token # Token(r)'
    BY <1>3, <2>2, <2>6
  <2>9. \A q, r \in Process : aside'[q].token = Token(r)' => pc'[r] = "idle"
    <3>1. \A q, r \in Process : aside'[q].token = Token(r) => pc[r] = "idle"
      BY <2>3, <2>5 DEF PlaceInv
    <3> QED
      BY <1>2, <2>1, <2>2, <3>1
  <2>10. \A q \in Process : pc'[q] \notin {"restore", "restoreblank"}
    BY <1>2, <2>1 DEF PlaceInv
  <2>11. \A q \in Process : pc'[q] = "judge" => Abandoned(aside[q])'
    BY <1>2, <2>1, <2>5 DEF PlaceInv, Abandoned
  <2> QED
    BY <1>1, <2>4, <2>7, <2>8, <2>9, <2>10, <2>11 DEF PlaceInv
<1>11. ASSUME NEW p \in Process, Restore(p)
       PROVE  FALSE
  BY <1>11 DEF Restore, PlaceInv
<1>12. ASSUME NEW p \in Process, Unlink(p)
       PROVE  PlaceInv'
  <2>1. path' = NoFile /\ pc' = [pc EXCEPT ![p] = "idle"] /\ pc[p] \in Holding /\ UNCHANGED <<aside, call>>
    BY <1>12 DEF Unlink, Go, Holding
  <2>2. \A r \in Process : Token(r)' = Token(r)
    BY <2>1 DEF Token
  <2>3. \A q \in Process : pc'[q] \notin Holding
    BY <1>0, <1>2, <2>1 DEF OneHolder, Holding
  <2>4. path'.token = <<>>
    BY <2>1 DEF NoFile
  <2>5. Past(path)' /\ \A q \in Process : Past(aside[q])'
    <3>1. Past(path)'
      BY <2>4 DEF Past
    <3> QED
      BY <2>1, <3>1 DEF PlaceInv, Past
  <2>6. \A r \in Process : path'.token # Token(r)'
    BY <1>3, <2>2, <2>4
  <2>7. \A q, r \in Process : aside'[q].token = Token(r)' => pc'[r] = "idle"
    BY <1>2, <2>1, <2>2 DEF PlaceInv
  <2>8. \A q \in Process : pc'[q] \notin {"restore", "restoreblank"} /\ (pc'[q] = "judge" => Abandoned(aside[q])')
    BY <1>2, <2>1 DEF PlaceInv, Abandoned
  <2> QED
    BY <1>1, <2>3, <2>5, <2>6, <2>7, <2>8 DEF PlaceInv
<1>13. ASSUME NEW p \in Process, Renew(p)
       PROVE  PlaceInv'
  <2>1. path' = [path EXCEPT !.age = 0] /\ pc[p] \in Holding /\ UNCHANGED <<aside, pc, call>>
    BY <1>13 DEF Renew, Holding
  <2>2. path'.token = path.token
    BY <1>0, <2>1 DEF Files
  <2>3. \A q \in Process : pc[q] \in Holding => Kept(path, q)'
    BY <1>0, <2>1, KeptStays DEF Tended, PlaceInv, Token
  <2> QED
    BY <1>1, <2>1, <2>2, <2>3, PlaceAged
<1>14. ASSUME Tick
       PROVE  PlaceInv'
  <2>1. /\ Live(path) => path.age < Stale
        /\ path' = Older(path) /\ pc' = pc /\ call' = call /\ \A r \in Process : aside'[r] = Older(aside[r])
    BY <1>14 DEF Tick
  <2>2. \A f \in Files : Older(f).token = f.token
    BY DEF Older, Files
  <2>3. \A f \in Files : Abandoned(f) => Older(f) = f
    BY <1>0 DEF Older, Abandoned, Files
  <2>4. \A q \in Process : pc[q] \in Holding => Kept(path, q)'
    BY <1>0, <2>1, KeptLive, KeptStays DEF Tended, PlaceInv, Token
  <2> QED
    BY <1>0, <1>1, <2>1, <2>2, <2>3, <2>4, PlaceAged
<1>15. ASSUME UNCHANGED vars
       PROVE  PlaceInv'
  BY <1>0, <1>15 DEF vars, PlaceInv, Past, Kept, Token, Abandoned, ReadInv
<1> QED
  BY <1>4, <1>5, <1>6, <1>7, <1>8, <1>9, <1>10, <1>11, <1>12, <1>13, <1>14, <1>15 DEF Next, Continue

LEMMA InitPlace == Init => PlaceInv
<1> SUFFICES ASSUME Init PROVE PlaceInv
  OBVIOUS
<1>1. path.token = <<>> /\ (\A p \in Process : aside[p].token = <<>> /\ pc[p] = "idle") /\ ReadInv
  BY DEF Init, NoFile, ReadInv
<1>2. \A p \in Process : Token(p) # <<>> /\ pc[p] \notin Holding
  BY <1>1 DEF Token, Holding
<1> QED
  BY <1>1, <1>2 DEF PlaceInv, Past

\* For any number of processes and crashes no update is lost (lock.ts:197) as long as no holder outstays
\* Stale and a takeover (lock.ts:115) moves nothing but an abandoned lock: between its look and its move
\* nobody else has taken the lock over and made a new one.  That window, which the run of three
\* processes goes through, is the one way an update is lost.
THEOREM NoUpdateLostWithoutRace ==
  ASSUME Prompt
  PROVE  Spec /\ [][MovesAbandoned]_vars => []NoUpdateLost
<1>1. Init => TypeOK /\ PlaceInv
  BY InitType, InitPlace
<1>2. TypeOK /\ PlaceInv /\ [Next]_vars /\ [MovesAbandoned]_vars => (TypeOK /\ PlaceInv)'
  <2> SUFFICES ASSUME TypeOK, PlaceInv, [Next]_vars, [MovesAbandoned]_vars PROVE (TypeOK /\ PlaceInv)'
    OBVIOUS
  <2>1. TypeOK'
    BY TypeStep
  <2>2. CASE MovesAbandoned
    BY <2>1, <2>2, PlaceStep
  <2>3. CASE UNCHANGED vars
    BY <2>1, <2>3 DEF vars, PlaceInv, Past, Kept, Token, Abandoned, ReadInv
  <2> QED
    BY <2>2, <2>3
<1>3. PlaceInv => NoUpdateLost
  BY DEF PlaceInv, ReadInv, NoUpdateLost
<1> QED
  BY <1>1, <1>2, <1>3, PTL DEF Spec

=============================================================================
