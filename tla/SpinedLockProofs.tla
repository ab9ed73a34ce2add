-------------------------- MODULE SpinedLockProofs --------------------------
(***************************************************************************)
(* Exclusion by the lock file, for any number of processes.                *)
(***************************************************************************)
EXTENDS SpinedLock, TLAPS

\* Every variable keeps to the values TypeOK lists.
LEMMA NextTypeOK == TypeOK /\ [Next]_vars => TypeOK'
<1> SUFFICES ASSUME TypeOK, [Next]_vars PROVE TypeOK'
  OBVIOUS
<1> USE DEF TypeOK, Steps, Acquiring, Goto
<1>1. ASSUME NEW p \in Procs, Acquire(p) PROVE TypeOK'
  BY <1>1 DEF Acquire, Start, Create, Write, Read, Probe, TakeOver, Recreate
<1>2. ASSUME NEW p \in Procs, Release(p) \/ Unlink(p) \/ Die(p) PROVE TypeOK'
  BY <1>2 DEF Release, Unlink, Die
<1>3. CASE Peek \/ PeekProbe \/ SeedLedger
  BY <1>3 DEF Peek, PeekProbe, SeedLedger
<1>4. CASE UNCHANGED vars
  BY <1>4 DEF vars
<1> QED
  BY <1>1, <1>2, <1>3, <1>4 DEF Next

\* The inductive invariant holds initially: a file of an earlier run belongs to
\* a process that is gone.
LEMMA InitIInv == Init => IInv
  BY DEF Init, IInv, TypeOK, OwnInv, StaleInv, WrittenInv, Steps, Acquiring

\* No step makes two owners, or an owner of a file that is not in place: a
\* takeover that displaced nothing moved the file of a dead process.
LEMMA NextIInv == IInv /\ [Next]_vars => IInv'
<1> SUFFICES ASSUME IInv, [Next]_vars PROVE IInv'
  OBVIOUS
<1>1. TypeOK'
  BY NextTypeOK DEF IInv
<1>2. ASSUME NEW p \in Procs, Acquire(p) PROVE OwnInv' /\ StaleInv' /\ WrittenInv'
  <2> USE NoneAssumption
      DEF IInv, TypeOK, OwnInv, StaleInv, WrittenInv, Goto
  <2>1. CASE Start(p)
    BY <2>1 DEF Start
  <2>2. CASE Create(p)
    BY <2>2 DEF Create
  <2>3. CASE Write(p)
    BY <2>3 DEF Write
  <2>4. CASE Read(p)
    BY <2>4 DEF Read
  <2>5. CASE Probe(p)
    BY <2>5 DEF Probe, Alive, Steps, Acquiring
  <2>6. CASE TakeOver(p)
    BY <2>6 DEF TakeOver
  <2>7. CASE Recreate(p)
    BY <2>7 DEF Recreate
  <2> QED
    BY <1>2, <2>1, <2>2, <2>3, <2>4, <2>5, <2>6, <2>7 DEF Acquire
<1>3. ASSUME NEW p \in Procs, Release(p) \/ Unlink(p) \/ Die(p)
      PROVE  OwnInv' /\ StaleInv' /\ WrittenInv'
  BY <1>3, NoneAssumption
  DEF IInv, TypeOK, OwnInv, StaleInv, WrittenInv, Goto, Release, Unlink, Die,
      Alive, Steps, Acquiring
<1>4. CASE Peek \/ PeekProbe \/ SeedLedger \/ UNCHANGED vars
  <2>1. UNCHANGED <<file, written, pc, held, displaced>>
    BY <1>4 DEF Peek, PeekProbe, SeedLedger, vars
  <2> QED
    BY <1>1, <2>1 DEF IInv, OwnInv, StaleInv, WrittenInv
<1> QED
  BY <1>1, <1>2, <1>3, <1>4 DEF Next, IInv

\* The lock file belongs to the one process that holds it.
THEOREM Invariance == Spec => []IInv
<1> QED
  BY InitIInv, NextIInv, PTL DEF Spec

\* Two daemons hold the lock only after a takeover moved a file that it had not
\* judged stale.
THEOREM Exclusive == Spec => []ExclusiveUnlessDisplaced
<1>1. IInv => ExclusiveUnlessDisplaced
  BY DEF IInv, OwnInv, ExclusiveUnlessDisplaced
<1> QED
  BY <1>1, Invariance, PTL

\* The pid of the daemon that holds the lock is there to read.
THEOREM Visible == Spec => []HolderIsVisible
<1>1. IInv => HolderIsVisible
  BY DEF IInv, OwnInv, StaleInv, HolderIsVisible
<1> QED
  BY <1>1, Invariance, PTL

-----------------------------------------------------------------------------
(* Racing starts.                                                          *)

\* At the start nobody has refused, and a file is of the last run.
LEMMA InitWinInv == Init => WinInv
<1> SUFFICES ASSUME Init PROVE FileInv /\ RefusalInv
  BY DEF WinInv
<1>1. PICK dead \in SUBSET Procs :
        /\ pc = [p \in Procs |-> IF p \in dead THEN "gone" ELSE "new"]
        /\ file \in IF dead = {} THEN {None} ELSE dead
  BY DEF Init
<1>2. \A p \in Procs : pc[p] \in {"gone", "new"}
  BY <1>1
<1>3. file # None => pc[file] = "gone"
  BY <1>1
<1>4. QED
  BY <1>2, <1>3 DEF FileInv, RefusalInv

\* One step of one process, in words of where it was and where it goes.
LEMMA GotoOnly ==
  ASSUME TypeOK, NEW p \in Procs, NEW step \in Steps, Goto(p, step)
  PROVE  pc'[p] = step /\ \A q \in Procs : q # p => pc'[q] = pc[q]
  BY DEF TypeOK, Goto

\* While nobody is killed and nobody releases, a refusal has a reason that lasts.
LEMMA NextWinInv == IInv /\ WinInv /\ [Next]_vars => WinInv'
<1> SUFFICES ASSUME IInv, WinInv, [Next]_vars, ~disturbed' PROVE FileInv' /\ RefusalInv'
  BY DEF WinInv
<1>0. TypeOK /\ StaleInv /\ WrittenInv
  BY DEF IInv
<1>1. CASE Peek \/ PeekProbe \/ SeedLedger \/ UNCHANGED vars
  <2>1. UNCHANGED <<file, written, pc, disturbed>>
    BY <1>1 DEF Peek, PeekProbe, SeedLedger, vars
  <2>2. QED
    BY <2>1 DEF WinInv, FileInv, RefusalInv
<1>2. ASSUME NEW p \in Procs, Release(p) \/ Die(p) PROVE FALSE
  BY <1>2 DEF Release, Die
<1>3. ASSUME NEW p \in Procs, Acquire(p) \/ Unlink(p) PROVE FileInv' /\ RefusalInv'
  <2>0. FileInv /\ RefusalInv /\ (file # None => file \in Procs)
    BY <1>0, <1>3 DEF WinInv, TypeOK, Acquire, Start, Create, Write, Read, Probe, TakeOver,
       Recreate, Unlink
  <2>1. ~Unlink(p)
    BY <2>0 DEF Unlink, FileInv
  <2> USE DEF Steps, Acquiring
  <2>2. CASE Start(p)
    <3>1. /\ pc[p] = "new" /\ pc'[p] = "creating" /\ UNCHANGED <<file, written>>
          /\ \A q \in Procs : q # p => pc'[q] = pc[q]
      BY <1>0, <2>2, GotoOnly DEF Start
    <3>2. QED
      BY <2>0, <3>1 DEF FileInv, RefusalInv, Winning
  <2>3. CASE Create(p)
    <3>1. /\ pc[p] = "creating" /\ UNCHANGED written
          /\ IF file = None THEN file' = p /\ pc'[p] = "writing"
             ELSE file' = file /\ pc'[p] = "reading"
          /\ \A q \in Procs : q # p => pc'[q] = pc[q]
      BY <1>0, <2>3, GotoOnly DEF Create
    <3>2. QED
      BY <2>0, <3>1, NoneAssumption DEF FileInv, RefusalInv, Winning
  <2>4. CASE Write(p)
    <3>1. /\ pc[p] = "writing" /\ pc'[p] = "holding" /\ written' = written \cup {p}
          /\ file' = file /\ \A q \in Procs : q # p => pc'[q] = pc[q]
      BY <1>0, <2>4, GotoOnly DEF Write
    <3>2. QED
      BY <2>0, <3>1 DEF FileInv, RefusalInv, Winning
  <2>5. CASE Read(p)
    <3>1. /\ pc[p] = "reading" /\ UNCHANGED <<file, written>>
          /\ IF file \in written THEN pc'[p] = "probing" ELSE pc'[p] = "refused"
          /\ \A q \in Procs : q # p => pc'[q] = pc[q]
      BY <1>0, <2>5, GotoOnly DEF Read
    <3>2. FileInv'
      BY <2>0, <3>1 DEF FileInv
    <3>3. CASE file \in written
      BY <2>0, <3>1, <3>2, <3>3 DEF RefusalInv, Winning
    <3>4. CASE file = None
      <4>1. PICK q \in Procs : pc[q] = "recreating"
        BY <2>0, <3>1, <3>4 DEF FileInv
      <4>2. pc'[q] = "recreating"
        BY <3>1, <4>1
      <4>3. QED
        BY <3>2, <4>2 DEF RefusalInv, Winning
    <3>5. CASE file # None /\ file \notin written
      <4>1. file \in Procs /\ pc[file] \in {"writing", "holding", "gone"} /\ file # p
        BY <2>0, <3>1, <3>5 DEF FileInv
      <4>2. pc'[file] = pc[file]
        BY <3>1, <4>1
      <4>3. QED
        BY <3>1, <3>2, <3>5, <4>1, <4>2 DEF RefusalInv, Winning
    <3>6. QED
      BY <3>2, <3>3, <3>4, <3>5
  <2>6. CASE Probe(p)
    <3>1. /\ pc[p] = "probing" /\ UNCHANGED <<file, written>>
          /\ IF Alive(held[p]) THEN pc'[p] = "refused" ELSE pc'[p] = "renaming"
          /\ \A q \in Procs : q # p => pc'[q] = pc[q]
      BY <1>0, <2>6, GotoOnly DEF Probe
    <3>2. FileInv'
      BY <2>0, <3>1 DEF FileInv
    <3>3. CASE Alive(held[p])
      <4>1. held[p] \in Procs /\ pc[held[p]] = "holding" /\ held[p] # p
        BY <1>0, <2>0, <3>1, <3>3 DEF StaleInv, WrittenInv, FileInv, Alive, TypeOK
      <4>2. pc'[held[p]] = "holding"
        BY <3>1, <4>1
      <4>3. QED
        BY <3>2, <4>1, <4>2 DEF RefusalInv, Winning
    <3>4. CASE ~Alive(held[p])
      BY <2>0, <3>1, <3>2, <3>4 DEF RefusalInv, Winning
    <3>5. QED
      BY <3>3, <3>4
  <2>7. CASE TakeOver(p)
    <3>1. /\ pc[p] = "renaming" /\ file' = None /\ UNCHANGED written
          /\ IF file = None THEN pc'[p] = "refused" ELSE pc'[p] = "recreating"
          /\ \A q \in Procs : q # p => pc'[q] = pc[q]
      BY <1>0, <2>7, GotoOnly DEF TakeOver
    <3>2. PICK q \in Procs : pc'[q] = "recreating"
      <4>1. CASE file = None
        <5>1. PICK q \in Procs : pc[q] = "recreating"
          BY <2>0, <3>1, <4>1 DEF FileInv
        <5>2. QED
          BY <3>1, <5>1
      <4>2. CASE file # None
        BY <3>1, <4>2
      <4>3. QED
        BY <4>1, <4>2
    <3>3. \A r \in Procs : pc'[r] # "unlinking"
      BY <2>0, <3>1 DEF FileInv
    <3>4. QED
      BY <3>1, <3>2, <3>3 DEF FileInv, RefusalInv, Winning
  <2>8. CASE Recreate(p)
    <3>1. /\ pc[p] = "recreating" /\ UNCHANGED written
          /\ IF file = None THEN file' = p /\ pc'[p] = "writing"
             ELSE file' = file /\ pc'[p] = "refused"
          /\ \A q \in Procs : q # p => pc'[q] = pc[q]
      BY <1>0, <2>8, GotoOnly DEF Recreate
    <3>2. CASE file = None
      BY <2>0, <3>1, <3>2, NoneAssumption DEF FileInv, RefusalInv, Winning
    <3>3. CASE file # None
      <4>1. file \in Procs /\ pc[file] \in {"writing", "holding"} /\ file # p
        BY <2>0, <3>1, <3>3 DEF FileInv
      <4>2. pc'[file] = pc[file] /\ file' = file
        BY <3>1, <3>3, <4>1
      <4>3. FileInv'
        BY <2>0, <3>1, <3>3, <4>1, <4>2 DEF FileInv
      <4>4. RefusalInv'
        BY <4>1, <4>2 DEF RefusalInv, Winning
      <4>5. QED
        BY <4>3, <4>4
    <3>4. QED
      BY <3>2, <3>3
  <2>9. QED
    BY <1>3, <2>1, <2>2, <2>3, <2>4, <2>5, <2>6, <2>7, <2>8 DEF Acquire
<1>4. QED
  BY <1>1, <1>2, <1>3 DEF Next

\* lock.ts fails closed, and still: any number of racing starts do not all refuse,
\* unless a process is killed or releases meanwhile, or the last run left an
\* unreadable file.
THEOREM NotAllRefuse == Spec => []SomeoneWins
<1>1. Spec => []WinInv
  BY InitWinInv, NextWinInv, Invariance, PTL DEF Spec
<1>2. WinInv => SomeoneWins
  <2> SUFFICES ASSUME WinInv, ~disturbed, \A p \in Procs : pc[p] \notin Acquiring,
                      \E p \in Procs : pc[p] = "refused", file # None => file \in written
               PROVE  \E p \in Procs : pc[p] = "holding"
    BY DEF SomeoneWins
  <2>1. \E p \in Procs : pc[p] \in Winning
    BY DEF WinInv, RefusalInv
  <2>2. QED
    BY <2>1 DEF Winning, Acquiring
<1>3. QED
  BY <1>1, <1>2, PTL
=============================================================================
