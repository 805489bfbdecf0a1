------------------------------ MODULE FileLock ------------------------------
(***************************************************************************)
(* The lock file every read-modify-write of the store goes through, at the  *)
(* level of its file operations: the exclusive create and the write of its  *)
(* body, the look at a holder's age, the takeover of an abandoned lock       *)
(* (move aside, look again, put back or drop), the token check and the       *)
(* unlink of a release.  A process can die between any two of them.          *)
(*                                                                          *)
(* A file's age is the time since the fresher of its declared time and its   *)
(* modification time.                                                        *)
(***************************************************************************)
EXTENDS Naturals, FiniteSets

CONSTANTS
  Process,     \* slots for live processes; a crashed one's slot is reused
  Stale,       \* staleMs: a lock older than this counts as abandoned
  Prompt,      \* no live holder keeps its lock past Stale
  Modes,       \* of "wait" (withFileLock) and "try" (tryFileLock)
  Renews,      \* renewMs is given: holders touch the lock while they work
  MaxCalls,    \* bound: calls made in each slot
  MaxCrashes   \* bound: how many processes die

ASSUME StaleAssumption  == Stale \in Nat
ASSUME SwitchAssumption == Prompt \in BOOLEAN /\ Renews \in BOOLEAN
ASSUME ModeAssumption   == Modes \subseteq {"wait", "try"}
ASSUME BoundAssumption  == MaxCalls \in Nat /\ MaxCrashes \in Nat

VARIABLES
  path,     \* the lock file, or NoFile
  aside,    \* the file each process has moved aside, or NoFile
  pc,       \* where each process is in its call
  call,     \* each slot's call: its number, its mode and its attempts
  read,     \* what the work under the lock has read
  data,     \* what the lock protects: a counter every call adds one to
  done,     \* history: how many calls added theirs
  crashes   \* how many processes died

vars == <<path, aside, pc, call, read, data, done, crashes>>

NoFile   == [token |-> <<>>, full |-> FALSE, copy |-> FALSE, age |-> 0]
Token(p) == <<p, call[p].number>>

\* The steps in which a process holds the lock it created.
Holding == {"write", "in", "out", "check", "unlink"}

-----------------------------------------------------------------------------
(* Taking the lock *)

\* Mutant of Abandoned: a lock without a body is never taken for abandoned.
AbandonedIfReadable(file) == file # NoFile /\ file.full /\ file.age > Stale

\* A lock whose body was never written is judged by the file's own time.
Abandoned(file) == file # NoFile /\ file.age > Stale

Go(p, step) == pc' = [pc EXCEPT ![p] = step]

Start(p) ==
  /\ pc[p] = "idle" /\ call[p].number < MaxCalls
  /\ \E mode \in Modes :
       call' = [call EXCEPT ![p] = [number |-> @.number + 1, mode |-> mode, attempts |-> 0]]
  /\ Go(p, "open")
  /\ UNCHANGED <<path, aside, read, data, done, crashes>>

\* open(wx): the file is made, and has no body yet; ...
Create(p) ==
  /\ pc[p] = "open" /\ path = NoFile
  /\ path' = [token |-> Token(p), full |-> FALSE, copy |-> FALSE, age |-> 0]
  /\ Go(p, "write")
  /\ UNCHANGED <<aside, call, read, data, done, crashes>>

\* ... or it is there: look at its age, or leave, on a try's second attempt.
Contended(p) ==
  /\ pc[p] = "open" /\ path # NoFile
  /\ Go(p, IF call[p].mode = "try" /\ call[p].attempts > 0 THEN "idle" ELSE "look")
  /\ UNCHANGED <<path, aside, call, read, data, done, crashes>>

\* f with its body written, if it is the file of token t and not a copy of it.
Filled(f, t) == IF f # NoFile /\ f.token = t /\ ~f.copy THEN [f EXCEPT !.full = TRUE, !.age = 0] ELSE f

\* The body goes through the handle, wherever the file has been moved to.
Write(p) ==
  /\ pc[p] = "write"
  /\ path' = Filled(path, Token(p))
  /\ aside' = [q \in Process |-> Filled(aside[q], Token(p))]
  /\ Go(p, "in")
  /\ UNCHANGED <<call, read, data, done, crashes>>

\* readLock and isStale: take over, wait, or (a try) leave.
Look(p) ==
  /\ pc[p] = "look"
  /\ Go(p, IF Abandoned(path) THEN "move" ELSE IF call[p].mode = "wait" THEN "pause" ELSE "idle")
  /\ UNCHANGED <<path, aside, call, read, data, done, crashes>>

Pause(p) ==
  /\ pc[p] = "pause"
  /\ Go(p, "open")
  /\ UNCHANGED <<path, aside, call, read, data, done, crashes>>

\* LOCK_TIMEOUT: the deadline or the overall limit has passed.
GiveUp(p) ==
  /\ pc[p] = "pause"
  /\ Go(p, "idle")
  /\ UNCHANGED <<path, aside, call, read, data, done, crashes>>

-----------------------------------------------------------------------------
(* takeOverStale *)

\* Mutant of Attempted: the attempts are not bounded.
AttemptedAgain(p) == call' = [call EXCEPT ![p].attempts = @ + 1]

\* p's call after a takeover, however it went: the next attempt.
Attempted(p) == call' = [call EXCEPT ![p].attempts = 1]

\* The rename takes whatever is at the path by now; ...
Move(p) ==
  /\ pc[p] = "move" /\ path # NoFile
  /\ aside' = [aside EXCEPT ![p] = path]
  /\ path' = NoFile
  /\ Go(p, "judge")
  /\ UNCHANGED <<call, read, data, done, crashes>>

MovedAlready(p) ==
  /\ pc[p] = "move" /\ path = NoFile
  /\ Go(p, "open")
  /\ Attempted(p)
  /\ UNCHANGED <<path, aside, read, data, done, crashes>>

\* Mutant of Judge: what was moved is dropped unseen.
JudgeTrusting(p) ==
  /\ pc[p] = "judge"
  /\ Go(p, "drop")
  /\ UNCHANGED <<path, aside, call, read, data, done, crashes>>

\* ... so what was moved is judged again; ...
Judge(p) ==
  /\ pc[p] = "judge"
  /\ Go(p, IF Abandoned(aside[p]) THEN "drop" ELSE IF aside[p].full THEN "restore" ELSE "restoreblank")
  /\ UNCHANGED <<path, aside, call, read, data, done, crashes>>

\* ... a live lock goes back, if nobody made another, by a link or written again
\* with the body that was read, which may not have been there yet; ...
Restore(p) ==
  /\ pc[p] \in {"restore", "restoreblank"}
  /\ path' \in IF path # NoFile THEN {path}
               ELSE {aside[p], [aside[p] EXCEPT !.full = pc[p] = "restore", !.copy = TRUE, !.age = 0]}
  /\ Go(p, "drop")
  /\ UNCHANGED <<aside, call, read, data, done, crashes>>

\* ... and the moved file is removed.
Drop(p) ==
  /\ pc[p] = "drop"
  /\ aside' = [aside EXCEPT ![p] = NoFile]
  /\ Go(p, "open")
  /\ Attempted(p)
  /\ UNCHANGED <<path, read, data, done, crashes>>

-----------------------------------------------------------------------------
(* The work, and the release *)

WorkReads(p) ==
  /\ pc[p] = "in"
  /\ read' = [read EXCEPT ![p] = data]
  /\ Go(p, "out")
  /\ UNCHANGED <<path, aside, call, data, done, crashes>>

WorkWrites(p) ==
  /\ pc[p] = "out"
  /\ data' = read[p] + 1
  /\ done' = done + 1
  /\ read' = [read EXCEPT ![p] = 0]
  /\ Go(p, "check")
  /\ UNCHANGED <<path, aside, call, crashes>>

\* Whether the lock file names p's call: an empty or another's file does not.
StillMine(p) == path # NoFile /\ path.full /\ path.token = Token(p)

Check(p) ==
  /\ pc[p] = "check"
  /\ Go(p, IF StillMine(p) THEN "unlink" ELSE "idle")
  /\ UNCHANGED <<path, aside, call, read, data, done, crashes>>

\* rm: whatever is there by now.
Unlink(p) ==
  /\ pc[p] = "unlink"
  /\ path' = NoFile
  /\ Go(p, "idle")
  /\ UNCHANGED <<aside, call, read, data, done, crashes>>

\* The renewal touches whatever file is at the path.
Renew(p) ==
  /\ Renews /\ pc[p] \in {"in", "out"} /\ path # NoFile
  /\ path' = [path EXCEPT !.age = 0]
  /\ UNCHANGED <<aside, pc, call, read, data, done, crashes>>

-----------------------------------------------------------------------------
(* Crashes and time *)

\* The process dies: its files stay, the one it moved aside for good.
Crash(p) ==
  /\ pc[p] # "idle" /\ crashes < MaxCrashes
  /\ crashes' = crashes + 1
  /\ aside' = [aside EXCEPT ![p] = NoFile]
  /\ read' = [read EXCEPT ![p] = 0]
  /\ Go(p, "idle")
  /\ UNCHANGED <<path, call, data, done>>

Older(f) == IF f # NoFile /\ f.age <= Stale THEN [f EXCEPT !.age = @ + 1] ELSE f

\* Whether f is the file of a process that holds the lock.
Live(f) == f # NoFile /\ \E p \in Process : pc[p] \in Holding /\ f.token = Token(p)

Tick ==
  /\ Prompt => \A f \in {path} \cup {aside[p] : p \in Process} : Live(f) => f.age < Stale
  /\ path' = Older(path)
  /\ aside' = [p \in Process |-> Older(aside[p])]
  /\ UNCHANGED <<pc, call, read, data, done, crashes>>

-----------------------------------------------------------------------------
Init ==
  /\ path = NoFile
  /\ aside = [p \in Process |-> NoFile]
  /\ pc = [p \in Process |-> "idle"]
  /\ call = [p \in Process |-> [number |-> 0, mode |-> "wait", attempts |-> 0]]
  /\ read = [p \in Process |-> 0]
  /\ data = 0
  /\ done = 0
  /\ crashes = 0

Continue(p) ==
  \/ Create(p) \/ Contended(p) \/ Write(p) \/ Look(p) \/ Pause(p)
  \/ Move(p) \/ MovedAlready(p) \/ Judge(p) \/ Restore(p) \/ Drop(p)
  \/ WorkReads(p) \/ WorkWrites(p) \/ Check(p) \/ Unlink(p)

Next ==
  \/ \E p \in Process : Start(p) \/ Continue(p) \/ GiveUp(p) \/ Renew(p) \/ Crash(p)
  \/ Tick

Spec == Init /\ [][Next]_vars

\* A live process goes on, and time passes.  Nobody has to give up.
FairSpec == Spec /\ WF_vars(Tick) /\ \A p \in Process : WF_vars(Continue(p))

-----------------------------------------------------------------------------
(* Properties *)

Files == [token : (Process \X Nat) \cup {<<>>}, full : BOOLEAN, copy : BOOLEAN, age : Nat]

\* Every variable keeps its type; a call makes at most one takeover before the
\* attempt that a try must not exceed.
TypeOK ==
  /\ path \in Files
  /\ aside \in [Process -> Files]
  /\ pc \in [Process -> {"idle", "open", "look", "pause", "move", "judge", "restore", "restoreblank", "drop"} \cup Holding]
  /\ call \in [Process -> [number : Nat, mode : {"wait", "try"}, attempts : {0, 1}]]
  /\ read \in [Process -> Nat]
  /\ data \in Nat /\ done \in Nat /\ crashes \in Nat

\* lock.ts:197 "every read-modify-write of those goes through here so no update is
\* lost": every addition that was made is in the counter.
NoUpdateLost == data = done

\* A caller that does not give up gets the lock: no crash leaves a lock that is
\* waited for without end, a file whose body was never written included, and no
\* lock put back after its holder left is either.
WaitersServed ==
  \A p \in Process :
    (pc[p] = "open" /\ call[p].mode = "wait") ~> (pc[p] \in Holding \cup {"idle"})
=============================================================================
