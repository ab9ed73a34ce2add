----------------------------- MODULE SpinedLock -----------------------------
(***************************************************************************)
(* The per-ticket lock file (spined/lock.ts): acquireLock and release of    *)
(* the spined processes, and the peek of spine-prepare before it reseeds    *)
(* the ledger (spined/prepare.ts).                                          *)
(*                                                                         *)
(* Processes share nothing but the file system, so every system call is a   *)
(* step, and a process may be killed between any two.  A process is its     *)
(* pid; pids are not reused (a reused pid makes the lock look alive, which  *)
(* only refuses).  Every process creates at most one file at the lock's     *)
(* path, so a file is named by its creator.                                 *)
(***************************************************************************)
EXTENDS Naturals, FiniteSets

CONSTANTS
  Procs,    \* the spined processes
  None      \* no file

ASSUME NoneAssumption == None \notin Procs

VARIABLES
  file,       \* the creator of the file at spined.lock, or None
  written,    \* the creators whose file has its contents (else: unreadable)
  pc,         \* pc[p]: where process p is
  held,       \* held[p]: the pid that p read from the lock, or None
  prep,       \* where spine-prepare --force is
  peeked,     \* the pid that spine-prepare read, or None
  displaced,  \* auxiliary: a takeover moved a file it had not judged stale
  disturbed   \* auxiliary: an owner released its lock, or a process was killed

vars == <<file, written, pc, held, prep, peeked, displaced, disturbed>>

Acquiring == {"creating", "writing", "reading", "probing", "renaming",
              "recreating"}

Steps == Acquiring \cup {"new", "holding", "unlinking", "refused", "gone"}

\* isPidAlive.
Alive(p) == pc[p] \in Steps \ {"new", "refused", "gone"}

Goto(p, step) == pc' = [pc EXCEPT ![p] = step]

-----------------------------------------------------------------------------
(* acquireLock.                                                            *)

Start(p) ==
  /\ pc[p] = "new"
  /\ Goto(p, "creating")
  /\ UNCHANGED <<file, written, held, prep, peeked, displaced, disturbed>>

CreateOverwriting(p) ==
  /\ pc[p] = "creating"
  /\ file' = p
  /\ Goto(p, "writing")
  /\ UNCHANGED <<written, held, prep, peeked, displaced, disturbed>>

\* tryCreate: O_CREAT | O_EXCL.
Create(p) ==
  /\ pc[p] = "creating"
  /\ IF file = None
     THEN file' = p /\ Goto(p, "writing")
     ELSE file' = file /\ Goto(p, "reading")
  /\ UNCHANGED <<written, held, prep, peeked, displaced, disturbed>>

\* The pid is written through the descriptor, wherever the file is by now.
Write(p) ==
  /\ pc[p] = "writing"
  /\ written' = written \cup {p}
  /\ Goto(p, "holding")
  /\ UNCHANGED <<file, held, prep, peeked, displaced, disturbed>>

\* readLockPid: an absent or unreadable file is a refusal.
Read(p) ==
  /\ pc[p] = "reading"
  /\ IF file \in written
     THEN held' = [held EXCEPT ![p] = file] /\ Goto(p, "probing")
     ELSE held' = held /\ Goto(p, "refused")
  /\ UNCHANGED <<file, written, prep, peeked, displaced, disturbed>>

ProbeRefusing(p) ==
  /\ pc[p] = "probing"
  /\ Goto(p, "refused")
  /\ UNCHANGED <<file, written, held, prep, peeked, displaced, disturbed>>

Probe(p) ==
  /\ pc[p] = "probing"
  /\ Goto(p, IF Alive(held[p]) THEN "refused" ELSE "renaming")
  /\ UNCHANGED <<file, written, held, prep, peeked, displaced, disturbed>>

\* takeOverStaleLock: ENOENT is a lost race.  The rename takes whatever file is
\* at the path now.
TakeOver(p) ==
  /\ pc[p] = "renaming"
  /\ file' = None
  /\ Goto(p, IF file = None THEN "refused" ELSE "recreating")
  /\ displaced' = (displaced \/ file \notin {None, held[p]})
  /\ UNCHANGED <<written, held, prep, peeked, disturbed>>

\* The second tryCreate.
Recreate(p) ==
  /\ pc[p] = "recreating"
  /\ IF file = None
     THEN file' = p /\ Goto(p, "writing")
     ELSE file' = file /\ Goto(p, "refused")
  /\ UNCHANGED <<written, held, prep, peeked, displaced, disturbed>>

-----------------------------------------------------------------------------
(* release, and death.                                                     *)

\* release() reads the lock, and removes it when the pid is its own.
Release(p) ==
  /\ pc[p] = "holding"
  /\ Goto(p, IF file = p THEN "unlinking" ELSE "gone")
  /\ disturbed' = TRUE
  /\ UNCHANGED <<file, written, held, prep, peeked, displaced>>

Unlink(p) ==
  /\ pc[p] = "unlinking"
  /\ file' = None
  /\ Goto(p, "gone")
  /\ UNCHANGED <<written, held, prep, peeked, displaced, disturbed>>

\* SIGKILL, or the container goes.
Die(p) ==
  /\ Alive(p)
  /\ Goto(p, "gone")
  /\ disturbed' = TRUE
  /\ UNCHANGED <<file, written, held, prep, peeked, displaced>>

-----------------------------------------------------------------------------
(* spine-prepare --force on a ticket that has a ledger.                    *)

\* isLockPotentiallyLive: no file is fine, an unreadable one is a refusal.
Peek ==
  /\ prep = "peeking"
  /\ prep' = CASE file = None -> "setup"
               [] file \in written -> "probing"
               [] OTHER -> "refused"
  /\ peeked' = IF file \in written THEN file ELSE None
  /\ UNCHANGED <<file, written, pc, held, displaced, disturbed>>

PeekProbe ==
  /\ prep = "probing"
  /\ prep' = IF Alive(peeked) THEN "refused" ELSE "setup"
  /\ UNCHANGED <<file, written, pc, held, peeked, displaced, disturbed>>

\* The worktrees are set up (a wait for the worker daemon), then the fresh
\* ledger replaces the old one.
SeedLedger ==
  /\ prep = "setup"
  /\ prep' = "seeded"
  /\ UNCHANGED <<file, written, pc, held, peeked, displaced, disturbed>>

-----------------------------------------------------------------------------
\* There may be a lock file that a dead process left, readable or not.
Init ==
  /\ \E dead \in SUBSET Procs :
       /\ Cardinality(dead) <= 1
       /\ pc = [p \in Procs |-> IF p \in dead THEN "gone" ELSE "new"]
       /\ file \in IF dead = {} THEN {None} ELSE dead
       /\ written \in SUBSET dead
  /\ held = [p \in Procs |-> None]
  /\ prep = "peeking"
  /\ peeked = None
  /\ displaced = FALSE
  /\ disturbed = FALSE

Acquire(p) ==
  \/ Start(p) \/ Create(p) \/ Write(p) \/ Read(p) \/ Probe(p) \/ TakeOver(p)
  \/ Recreate(p)

Next ==
  \/ \E p \in Procs : Acquire(p) \/ Release(p) \/ Unlink(p) \/ Die(p)
  \/ Peek \/ PeekProbe \/ SeedLedger

Spec == Init /\ [][Next]_vars

-----------------------------------------------------------------------------
(* Properties.                                                             *)

\* The values each variable takes.
TypeOK ==
  /\ file \in Procs \cup {None}
  /\ written \in SUBSET Procs
  /\ pc \in [Procs -> Steps]
  /\ held \in [Procs -> Procs \cup {None}]
  /\ prep \in {"peeking", "probing", "setup", "seeded", "refused"}
  /\ peeked \in Procs \cup {None}
  /\ displaced \in BOOLEAN
  /\ disturbed \in BOOLEAN

\* lock.ts: "two processes racing to create it can never both succeed", and a
\* stale lock is taken over by one process.  So it is, over kills, restarts and
\* racing starts, except after a takeover whose rename hit a file other than
\* the one it had judged stale.
ExclusiveUnlessDisplaced ==
  ~displaced => \A p, q \in Procs : pc[p] = "holding" /\ pc[q] = "holding" => p = q

\* While a daemon holds the lock, whoever reads the lock file finds the pid of
\* that daemon, which is alive: a start is refused, and so is spine-prepare.  As
\* there is one file, there is one holder.
HolderIsVisible ==
  ~displaced => \A p \in Procs : pc[p] = "holding" => file = p /\ p \in written

\* Fail-closed does not become fail-always: when the file that the last run left
\* is absent or readable, and nobody is killed and nobody releases, racing
\* starts do not all refuse each other.
SomeoneWins ==
  ~disturbed /\ (\A p \in Procs : pc[p] \notin Acquiring)
             /\ (\E p \in Procs : pc[p] = "refused")
             /\ (file # None => file \in written)
    => \E p \in Procs : pc[p] = "holding"

-----------------------------------------------------------------------------
(* The inductive invariant behind exclusion.                               *)

\* A process that created the lock finds it in place until it removes it.
OwnInv ==
  ~displaced => \A p \in Procs :
    pc[p] \in {"writing", "holding", "unlinking"} => file = p

\* An owner has written its pid, and a takeover begins with a dead pid.
StaleInv ==
  \A p \in Procs :
    /\ pc[p] \in {"holding", "unlinking"} => p \in written
    /\ pc[p] \in {"probing", "renaming"} => held[p] \in written
    /\ pc[p] = "renaming" => pc[held[p]] = "gone"

\* A pid is written by its process.
WrittenInv ==
  \A p \in written : pc[p] \in {"holding", "unlinking", "gone"}

IInv == TypeOK /\ OwnInv /\ StaleInv /\ WrittenInv

-----------------------------------------------------------------------------
(* The inductive invariant behind SomeoneWins: as long as nobody is killed  *)
(* and nobody releases.                                                    *)

\* Who has created the lock or is about to.
Winning == {"writing", "holding", "recreating"}

\* A file belongs to who created it, or was left by the last run; while there is
\* none, nobody has read one yet, or who took it away is about to create the next.
FileInv ==
  /\ \A p \in Procs : pc[p] # "unlinking"
  /\ file # None => pc[file] \in {"writing", "holding", "gone"}
  /\ file = None =>
       \/ \A p \in Procs : pc[p] \in {"new", "creating", "gone"}
       \/ \E p \in Procs : pc[p] = "recreating"
  /\ (\E p \in Procs : pc[p] = "recreating") /\ file # None => pc[file] # "gone"

\* Who refuses does so for another, or for an unreadable file of the last run.
RefusalInv ==
  (\E p \in Procs : pc[p] = "refused") =>
    \/ \E p \in Procs : pc[p] \in Winning
    \/ file # None /\ file \notin written /\ pc[file] = "gone"

WinInv == ~disturbed => FileInv /\ RefusalInv
=============================================================================
