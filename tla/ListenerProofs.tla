--------------------------- MODULE ListenerProofs ---------------------------
(***************************************************************************)
(* What TLAPS proves of Listener, for every set of connections and of      *)
(* answers.                                                                *)
(***************************************************************************)
EXTENDS Listener, TLAPS

\* Before the first connection everything is in order.
LEMMA InitIInv == Init => IInv
  BY ListenerAssumption
  DEF Init, IInv, TypeOK, OwnerInv, SoleInv, AnswerInv, NoLateResult, Active

\* Every callback keeps the flag with the connection that raised it.
LEMMA NextIInv == IInv /\ [Next]_vars => IInv'
<1> SUFFICES ASSUME IInv, [Next]_vars PROVE IInv'
  OBVIOUS
<1> USE ListenerAssumption
        DEF IInv, TypeOK, OwnerInv, SoleInv, AnswerInv, NoLateResult, Active,
            Reply, Goto, Release
<1>1. CASE UNCHANGED vars
  BY <1>1 DEF vars
<1>2. ASSUME NEW c \in Conns, Accept(c) PROVE IInv'
  BY <1>2 DEF Accept
<1>3. ASSUME NEW c \in Conns, RefuseBusy(c) PROVE IInv'
  BY <1>3 DEF RefuseBusy
<1>4. ASSUME NEW c \in Conns, GiveUpReading(c) PROVE IInv'
  BY <1>4 DEF GiveUpReading
<1>5. ASSUME NEW c \in Conns, Broken(c) PROVE IInv'
  BY <1>5 DEF Broken
<1>6. ASSUME NEW c \in Conns, Closed(c) PROVE IInv'
  BY <1>6 DEF Closed
<1>7. ASSUME NEW c \in Conns, Malformed(c) PROVE IInv'
  BY <1>7 DEF Malformed
<1>8. ASSUME NEW c \in Conns, Dispatch(c) PROVE IInv'
  BY <1>8 DEF Dispatch
<1>9. ASSUME NEW c \in Conns, BudgetExpires(c) PROVE IInv'
  BY <1>9 DEF BudgetExpires
<1>10. ASSUME NEW c \in Conns, ClientGone(c) PROVE IInv'
  BY <1>10 DEF ClientGone
<1>11. ASSUME NEW c \in Conns, NEW result \in Results, HandlerEnds(c, result)
       PROVE IInv'
  BY <1>11 DEF HandlerEnds
<1>12. QED
  BY <1>1, <1>2, <1>3, <1>4, <1>5, <1>6, <1>7, <1>8, <1>9, <1>10, <1>11
  DEF Next, Reading, Handling

-----------------------------------------------------------------------------
\* The inductive invariant holds in every reachable state.
THEOREM Invariance == Spec => []IInv
  BY InitIInv, NextIInv, PTL DEF Spec

\* server.ts's "SERIAL by construction", as far as it goes: two connections are
\* read or handled at once only after a second release.
THEOREM SerialHandling == Spec => []SerialUnlessRereleased
<1>1. IInv => SerialUnlessRereleased
  BY DEF IInv, SoleInv, SerialUnlessRereleased
<1>2. QED
  BY <1>1, Invariance, PTL

\* A daemon that answers "busy" has a connection to be busy with.
THEOREM BusyForAReason == Spec => []BusyIsOwned
<1>1. IInv => BusyIsOwned
  BY DEF IInv, TypeOK, OwnerInv, BusyIsOwned
<1>2. QED
  BY <1>1, Invariance, PTL

\* The result of a handler that was given up reaches nobody.
THEOREM NoContradictoryAnswer == Spec => []NoLateResult
<1>1. IInv => NoLateResult
  BY DEF IInv
<1>2. QED
  BY <1>1, Invariance, PTL
=============================================================================
