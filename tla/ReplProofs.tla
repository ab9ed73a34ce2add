----------------------------- MODULE ReplProofs -----------------------------
(***************************************************************************)
(* What TLAPS proves of Repl, for any number of messages and of turns.     *)
(***************************************************************************)
EXTENDS Repl, SequenceTheorems, TLAPS

\* A question that waits its turn leaves the one on the terminal alone.
LEMMA AskKeeps ==
  ASSUME NEW now \in {"chat", "gate", None}, NEW waiters \in Seq({"chat", "gate"}),
         NEW q \in {"chat", "gate"}
  PROVE  /\ Ask(now, waiters, q).shown \in {"chat", "gate", None}
         /\ Ask(now, waiters, q).asking \in Seq({"chat", "gate"})
         /\ now # None => Ask(now, waiters, q).shown = now
  BY DEF Ask

\* The next question in line is a question, and the rest of the line stays.
LEMMA AnsweredType ==
  ASSUME asking \in Seq({"chat", "gate"})
  PROVE  /\ Answered.shown \in {"chat", "gate", None}
         /\ Answered.asking \in Seq({"chat", "gate"})
  BY DEF Answered

\* What is taken from the buffer was next in what has been said.
LEMMA TakeFirst ==
  ASSUME NEW S, NEW done \in Seq(S), NEW rest \in Seq(S), rest # <<>>
  PROVE  Append(done, Head(rest)) \o Tail(rest) = done \o rest
  OBVIOUS

\* What is put into the buffer is said last.
LEMMA PutLast ==
  ASSUME NEW S, NEW done \in Seq(S), NEW rest \in Seq(S), NEW e \in S
  PROVE  done \o Append(rest, e) = Append(done \o rest, e)
  OBVIOUS

-----------------------------------------------------------------------------
(* The queue of messages.                                                  *)

QueueType ==
  /\ buffered \in Seq(Message) /\ heard \in Seq(Message) /\ said \in Seq(Message)
  /\ waiting \in BOOLEAN /\ queueEnd \in BOOLEAN /\ inputEnd \in BOOLEAN

QueueOK == QueueType /\ NothingSaidIsLost /\ QueueInv

\* A message that is pushed is heard or buffered, behind all that was said before.
LEMMA PushKeeps ==
  ASSUME QueueOK, NEW message \in Message, Push(message), UNCHANGED <<queueEnd, inputEnd>>
  PROVE  QueueOK' /\ Len(heard') >= Len(heard)
<1>0. /\ heard \in Seq(Message) /\ buffered \in Seq(Message) /\ said \in Seq(Message)
      /\ heard \o buffered = said
      /\ waiting => buffered = <<>>
      /\ inputEnd => buffered = <<>> /\ queueEnd
      /\ waiting => ~queueEnd
  BY DEF QueueOK, QueueType, NothingSaidIsLost, QueueInv
<1>1. CASE queueEnd
  BY <1>0, <1>1 DEF QueueOK, QueueType, NothingSaidIsLost, QueueInv, Push
<1>2. CASE ~queueEnd
  <2>1. said' = Append(said, message) /\ waiting' = FALSE /\ ~inputEnd'
    BY <1>0, <1>2 DEF Push
  <2>2. heard' \o buffered' = said' /\ heard' \in Seq(Message) /\ buffered' \in Seq(Message)
        /\ Len(heard') >= Len(heard)
    <3>1. CASE waiting
      <4>1. heard' = Append(heard, message) /\ buffered' = <<>>
        BY <1>0, <1>2, <3>1 DEF Push
      <4>2. heard = said
        BY <1>0, <3>1, ConcatEmptySeq
      <4>3. Append(heard, message) \in Seq(Message)
            /\ Len(Append(heard, message)) = Len(heard) + 1
        BY <1>0
      <4>4. Append(heard, message) \o <<>> = Append(heard, message)
        BY <4>3, ConcatEmptySeq
      <4>5. Len(heard) \in Nat
        BY <1>0
      <4>6. QED
        BY <2>1, <4>1, <4>2, <4>3, <4>4, <4>5
    <3>2. CASE ~waiting
      <4>1. heard' = heard /\ buffered' = Append(buffered, message)
        BY <1>2, <3>2 DEF Push
      <4>2. heard \o Append(buffered, message) = Append(heard \o buffered, message)
        <5>1. heard \in Seq(Message) /\ buffered \in Seq(Message) /\ message \in Message
          BY <1>0
        <5>2. QED
          BY <5>1, PutLast
      <4>3. Append(buffered, message) \in Seq(Message) /\ Len(heard) \in Nat
        BY <1>0
      <4>4. QED
        BY <1>0, <2>1, <4>1, <4>2, <4>3
    <3>3. QED
      BY <3>1, <3>2
  <2>3. said' \in Seq(Message)
    BY <1>0, <2>1
  <2>4. queueEnd' \in BOOLEAN /\ inputEnd' \in BOOLEAN /\ waiting' \in BOOLEAN
    BY <2>1 DEF QueueOK, QueueType
  <2>5. QED
    BY <2>1, <2>2, <2>3, <2>4 DEF QueueOK, QueueType, NothingSaidIsLost, QueueInv
<1>3. QED
  BY <1>1, <1>2

\* A message that is fetched was the next one to be heard.
LEMMA FetchKeeps ==
  ASSUME QueueOK, Fetch
  PROVE  QueueOK' /\ Len(heard') >= Len(heard)
<1>0. /\ heard \in Seq(Message) /\ buffered \in Seq(Message) /\ said \in Seq(Message)
      /\ heard \o buffered = said
      /\ inputEnd => queueEnd
  BY DEF QueueOK, QueueType, NothingSaidIsLost, QueueInv
<1>1. CASE buffered # <<>>
  <2>1. /\ heard' = Append(heard, Head(buffered)) /\ buffered' = Tail(buffered)
        /\ said' = said /\ ~waiting' /\ ~inputEnd'
        /\ waiting' = waiting /\ inputEnd' = inputEnd /\ queueEnd' = queueEnd
    BY <1>1 DEF Fetch
  <2>2. heard' \o buffered' = said
    BY <1>0, <1>1, <2>1, TakeFirst
  <2>3. Head(buffered) \in Message /\ Tail(buffered) \in Seq(Message)
    BY <1>0, <1>1
  <2>4. heard' \in Seq(Message) /\ Len(heard') = Len(heard) + 1 /\ Len(heard) \in Nat
    BY <1>0, <2>1, <2>3
  <2>5. QED
    BY <1>0, <2>1, <2>2, <2>3, <2>4
    DEF QueueOK, QueueType, NothingSaidIsLost, QueueInv
<1>2. CASE buffered = <<>>
  <2>1. UNCHANGED <<buffered, heard, said, queueEnd>>
    BY <1>2 DEF Fetch
  <2>2. \/ queueEnd /\ inputEnd' = TRUE /\ waiting' = waiting /\ ~waiting
        \/ ~queueEnd /\ waiting' = TRUE /\ inputEnd' = inputEnd
    BY <1>2 DEF Fetch
  <2>3. QueueType'
    BY <2>1, <2>2 DEF QueueOK, QueueType
  <2>4. NothingSaidIsLost'
    BY <1>0, <1>2, <2>1 DEF NothingSaidIsLost
  <2>5. QueueInv'
    BY <1>0, <1>2, <2>1, <2>2 DEF QueueInv
  <2>6. Len(heard) \in Nat
    BY <1>0
  <2>7. QED
    BY <2>1, <2>3, <2>4, <2>5, <2>6 DEF QueueOK
<1>3. QED
  BY <1>1, <1>2

\* In every step the queue keeps what was said and the session hears.
LEMMA QueueStep ==
  ASSUME IInv, [Next]_vars
  PROVE  QueueOK' /\ Len(heard') >= Len(heard)
<1> DEFINE Kept == UNCHANGED <<buffered, waiting, queueEnd, inputEnd, heard, said>>
<1>0. QueueOK
  BY DEF IInv, TypeOK, QueueOK, QueueType
<1>1. CASE Kept
  BY <1>0, <1>1 DEF QueueOK, QueueType, NothingSaidIsLost, QueueInv
<1>2. CASE EnterMessage
  <2>1. Len(said) \in Nat /\ Len(said) <= MaxLines
    BY <1>0, <1>2 DEF EnterMessage, QueueOK, QueueType
  <2>2. said # <<>>
    BY DEF IInv, SaidInv
  <2>3. Len(said) \in Message
    BY <1>0, <2>1, <2>2, ReplAssumption DEF Message, QueueOK, QueueType
  <2>4. QED
    BY <1>0, <1>2, <2>3, PushKeeps DEF EnterMessage
<1>3. CASE Quit \/ Leave
  <2>1. /\ UNCHANGED <<buffered, heard, said>>
        /\ queueEnd' = TRUE /\ waiting' = FALSE /\ inputEnd' = (inputEnd \/ waiting)
    BY <1>3 DEF Quit, Leave, EndQueue
  <2>2. QueueType'
    BY <1>0, <2>1 DEF QueueOK, QueueType
  <2>3. NothingSaidIsLost'
    BY <1>0, <2>1 DEF QueueOK, NothingSaidIsLost, QueueInv
  <2>4. QueueInv'
    BY <2>1 DEF QueueInv
  <2>5. Len(heard) \in Nat
    BY <1>0 DEF QueueOK, QueueType
  <2>6. QED
    BY <2>1, <2>2, <2>3, <2>4, <2>5 DEF QueueOK
<1>4. CASE Fetch
  BY <1>0, <1>4, FetchKeeps
<1>5. ASSUME Next, ~EnterMessage, ~Quit, ~Leave, ~Fetch PROVE Kept
  BY <1>5
  DEF Next, Human, Enter, Model, System, BeginLine, EnterBlank, EnterAnswer, Eof, BeginTurn,
      EndTurn, CallWork, CallEnd, CallGate, WorkReturns, PumpStops, StreamEnds,
      StreamBreaks, queue, session
<1>6. QED
  BY <1>1, <1>2, <1>3, <1>4, <1>5 DEF vars, queue, session

-----------------------------------------------------------------------------
(* The terminal, the calls, and the end.                                   *)

Question == {"chat", "gate", None}

TerminalOK ==
  /\ shown \in Question /\ begun \in Question /\ asking \in Seq({"chat", "gate"})
  /\ closed \in BOOLEAN /\ loop \in {"prompting", "left"}
  /\ LineIsForItsQuestion /\ TerminalInv

\* No step leaves a half-typed line to another question than its own.
LEMMA TerminalStep == ASSUME IInv, [Next]_vars PROVE TerminalOK'
<1>0. TerminalOK /\ call \in Gates \cup {"work", "publish", None}
  BY DEF IInv, TypeOK, TerminalOK, Question
<1> USE <1>0, ReplAssumption
        DEF TerminalOK, Question, LineIsForItsQuestion, TerminalInv
<1> DEFINE Kept == UNCHANGED <<shown, asking, begun, closed, loop>>
<1>1. CASE Kept
  BY <1>1
<1>2. ASSUME Close PROVE TerminalOK'
  BY <1>2 DEF Close
<1>3. CASE BeginLine
  BY <1>3 DEF BeginLine, process
<1>4. CASE EnterMessage \/ EnterBlank
  <2>1. CASE ended
    BY <1>2, <1>4, <2>1 DEF EnterMessage, EnterBlank
  <2>2. CASE ~ended
    <3>1. /\ AskNow(Ask(Answered.shown, Answered.asking, "chat"))
          /\ begun' = None /\ UNCHANGED <<closed, loop>>
      BY <1>4, <2>2 DEF EnterMessage, EnterBlank
    <3>2. shown = "chat"
      BY <1>4 DEF EnterMessage, EnterBlank
    <3>3. /\ Ask(Answered.shown, Answered.asking, "chat").shown \in Question
          /\ Ask(Answered.shown, Answered.asking, "chat").asking \in Seq({"chat", "gate"})
      BY AnsweredType, AskKeeps
    <3>4. QED
      BY <3>1, <3>2, <3>3 DEF AskNow
  <2>3. QED
    BY <2>1, <2>2
<1>5. CASE Quit \/ Eof
  BY <1>2, <1>5 DEF Quit, Eof
<1>6. ASSUME NEW yes \in BOOLEAN, EnterAnswer(yes) PROVE TerminalOK'
  <2>1. begun' = None /\ UNCHANGED <<closed, loop>> /\ shown = "gate"
    BY <1>6 DEF EnterAnswer, process
  <2>2. shown' \in Question /\ asking' \in Seq({"chat", "gate"})
    <3>1. CASE yes /\ call = "caveat"
      <4>1. AskNow(Ask(Answered.shown, Answered.asking, "gate"))
        BY <1>6, <3>1 DEF EnterAnswer
      <4>2. QED
        BY <4>1, AnsweredType, AskKeeps DEF AskNow
    <3>2. CASE ~(yes /\ call = "caveat")
      BY <1>6, <3>2, AnsweredType DEF EnterAnswer, AskNow
    <3>3. QED
      BY <3>1, <3>2
  <2>3. QED
    BY <2>1, <2>2
<1>7. ASSUME NEW gate \in Gates, CallGate(gate) PROVE TerminalOK'
  <2>1. AskNow(Ask(shown, asking, "gate")) /\ UNCHANGED <<begun, closed, loop>> /\ ~closed
    BY <1>7 DEF CallGate, process
  <2>2. /\ Ask(shown, asking, "gate").shown \in Question
        /\ Ask(shown, asking, "gate").asking \in Seq({"chat", "gate"})
        /\ shown # None => Ask(shown, asking, "gate").shown = shown
    BY AskKeeps
  <2>3. QED
    BY <2>1, <2>2 DEF AskNow
<1>8. CASE PumpStops
  BY <1>1, <1>2, <1>8 DEF PumpStops, terminal
<1>9. ASSUME Next, ~BeginLine, ~Enter, ~Eof, ~PumpStops,
             ~\E gate \in Gates : CallGate(gate)
      PROVE  Kept
  BY <1>9
  DEF Next, Human, Model, System, Fetch, BeginTurn, EndTurn, CallWork, CallEnd,
      WorkReturns, StreamEnds, Leave, StreamBreaks, terminal, process
<1>10. QED
  BY <1>1, <1>3, <1>4, <1>5, <1>6, <1>7, <1>8, <1>9
  DEF vars, terminal, process, Enter

CallOK ==
  /\ call \in Gates \cup {"work", "publish", None}
  /\ exited \in {"no", "yes", "crashed"} /\ pump \in {"draining", "over"}
  /\ ended \in BOOLEAN /\ turn \in BOOLEAN
  /\ ExitLeavesNothingRunning /\ CallInv

\* A call is in flight only while a turn of the session is in progress.
LEMMA CallStep == ASSUME IInv, [Next]_vars PROVE CallOK'
<1>0. CallOK
  BY DEF IInv, TypeOK, CallOK
<1> USE <1>0, ReplAssumption DEF CallOK, ExitLeavesNothingRunning, CallInv, Gates
<1>1. CASE UNCHANGED <<call, exited, pump, ended, turn>>
  BY <1>1
<1>2. ASSUME Close PROVE call' \in {call, None}
  BY <1>2 DEF Close
<1>3. CASE EnterMessage \/ EnterBlank \/ Quit \/ Eof
  <2>1. UNCHANGED <<exited, pump, ended, turn>>
    BY <1>3 DEF EnterMessage, EnterBlank, Quit, Eof, session
  <2>2. call' \in {call, None}
    BY <1>2, <1>3 DEF EnterMessage, EnterBlank, Quit, Eof
  <2>3. QED
    BY <2>1, <2>2
<1>4. ASSUME NEW yes \in BOOLEAN, EnterAnswer(yes) PROVE CallOK'
  <2>1. UNCHANGED <<exited, pump, ended, turn>>
    BY <1>4 DEF EnterAnswer, process, session
  <2>2. \/ call = "caveat" /\ call' = "final"
        \/ call = "final" /\ call' = "publish"
        \/ call' = None
    BY <1>4 DEF EnterAnswer
  <2>3. QED
    BY <2>1, <2>2
<1>5. CASE WorkReturns
  BY <1>5 DEF WorkReturns, process, session
<1>6. CASE BeginTurn \/ EndTurn
  BY <1>6 DEF BeginTurn, EndTurn, process, executor
<1>7. ASSUME CallWork \/ CallEnd \/ \E gate \in Gates : CallGate(gate) PROVE CallOK'
  <2>1. Accepts /\ UNCHANGED <<exited, pump, turn>>
    BY <1>7 DEF CallWork, CallEnd, CallGate, process, session
  <2>2. \/ call' \in Gates \cup {"work"} /\ ended' = ended
        \/ call' = call /\ ended' = TRUE
    BY <1>7 DEF CallWork, CallEnd, CallGate
  <2>3. exited = "no" /\ pump = "draining" /\ turn /\ ~ended /\ call = None
    BY <2>1 DEF Accepts, Alive, Running
  <2>4. CASE call' \in Gates \cup {"work"} /\ ended' = ended
    BY <2>1, <2>3, <2>4
  <2>5. CASE call' = call /\ ended' = TRUE
    BY <2>1, <2>3, <2>5
  <2>6. QED
    BY <2>2, <2>4, <2>5
<1>8. CASE PumpStops
  <2>1. UNCHANGED <<exited, ended>> /\ pump' = "over" /\ turn' = FALSE /\ ended
    BY <1>8 DEF PumpStops
  <2>2. call' \in {call, None}
    BY <1>2, <1>8 DEF PumpStops
  <2>3. QED
    BY <2>1, <2>2
<1>9. CASE StreamEnds
  BY <1>9 DEF StreamEnds, executor, session
<1>10. CASE Leave
  BY <1>10 DEF Leave, executor
<1>11. CASE StreamBreaks
  BY <1>11 DEF StreamBreaks, executor, session
<1>12. CASE BeginLine \/ Fetch
  BY <1>1, <1>12 DEF BeginLine, Fetch, process, executor, session
<1>13. QED
  BY <1>1, <1>3, <1>4, <1>5, <1>6, <1>7, <1>8, <1>9, <1>10, <1>11, <1>12
  DEF Next, Human, Enter, Model, System, vars, process, executor, session

\* The session begins no more turns than it has heard messages.
LEMMA TurnsStep ==
  ASSUME IInv, [Next]_vars, Len(heard') >= Len(heard), heard' \in Seq(Message)
  PROVE  turns' \in 0 .. Len(heard')
<1>0. turns \in 0 .. Len(heard) /\ heard \in Seq(Message)
  BY DEF IInv, TypeOK
<1>1. CASE UNCHANGED turns
  BY <1>0, <1>1
<1>2. CASE BeginTurn
  BY <1>0, <1>2 DEF BeginTurn
<1>3. ASSUME Next, ~BeginTurn PROVE UNCHANGED turns
  BY <1>3
  DEF Next, Human, Enter, Model, System, BeginLine, EnterMessage, EnterBlank, Quit,
      EnterAnswer, Eof, EndTurn, CallWork, CallEnd, CallGate, Fetch, WorkReturns,
      PumpStops, StreamEnds, Leave, StreamBreaks, session
<1>4. QED
  BY <1>1, <1>2, <1>3 DEF vars, session

\* What has been said is never taken back.
LEMMA SaidStep == ASSUME IInv, [Next]_vars PROVE SaidInv'
<1>0. SaidInv /\ said \in Seq(Message)
  BY DEF IInv, TypeOK
<1>1. CASE UNCHANGED said
  BY <1>0, <1>1 DEF SaidInv
<1>2. CASE EnterMessage
  BY <1>0, <1>2 DEF EnterMessage, Push, SaidInv
<1>3. ASSUME Next, ~EnterMessage PROVE UNCHANGED said
  BY <1>3
  DEF Next, Human, Enter, Model, System, BeginLine, EnterBlank, Quit, EnterAnswer, Eof,
      BeginTurn, EndTurn, CallWork, CallEnd, CallGate, Fetch, WorkReturns, PumpStops,
      StreamEnds, Leave, StreamBreaks
<1>4. QED
  BY <1>1, <1>2, <1>3 DEF vars

-----------------------------------------------------------------------------
\* The chat begins in order.
LEMMA InitIInv == Init => IInv
<1> SUFFICES ASSUME Init PROVE IInv
  OBVIOUS
<1>1. Context \in Message
  BY DEF Message
<1>2. <<>> \o <<Context>> = <<Context>> /\ <<Context>> # <<>>
  BY <1>1
<1>3. buffered \in Seq(Message) /\ heard \in Seq(Message) /\ said \in Seq(Message)
  BY <1>1 DEF Init
<1>4. turns \in 0 .. Len(heard) /\ asking \in Seq({"chat", "gate"})
  BY DEF Init
<1>5. QED
  BY <1>2, <1>3, <1>4, ReplAssumption
  DEF Init, IInv, TypeOK, NothingSaidIsLost, SaidInv, QueueInv, LineIsForItsQuestion,
      TerminalInv, ExitLeavesNothingRunning, CallInv, Gates

\* Every step keeps the queue, the terminal and the calls in order.
LEMMA NextIInv == IInv /\ [Next]_vars => IInv'
<1> SUFFICES ASSUME IInv, [Next]_vars PROVE IInv'
  OBVIOUS
<1>1. QueueOK' /\ Len(heard') >= Len(heard)
  BY QueueStep
<1>2. TerminalOK' /\ CallOK' /\ SaidInv'
  BY TerminalStep, CallStep, SaidStep
<1>3. turns' \in 0 .. Len(heard')
  BY <1>1, TurnsStep DEF QueueOK, QueueType
<1>4. TypeOK'
  BY <1>1, <1>2, <1>3 DEF TypeOK, QueueOK, QueueType, TerminalOK, Question, CallOK
<1>5. QED
  BY <1>1, <1>2, <1>4 DEF IInv, QueueOK, TerminalOK, CallOK

\* The inductive invariant holds in every reachable state.
THEOREM Invariance == Spec => []IInv
  BY InitIInv, NextIInv, PTL DEF Spec

\* session.ts: the session hears all that the human has said, in order, also what was
\* still queued when "/quit" ended the session.
THEOREM AllIsHeard == Spec => []NothingSaidIsLost
<1>1. IInv => NothingSaidIsLost
  BY DEF IInv
<1>2. QED
  BY <1>1, Invariance, PTL

\* repl.ts: a line that was begun under one question never answers another.
THEOREM GatesNeverRace == Spec => []LineIsForItsQuestion
<1>1. IInv => LineIsForItsQuestion
  BY DEF IInv
<1>2. QED
  BY <1>1, Invariance, PTL

\* repl.ts, run(): the process leaves on its own only when no call is in flight.
THEOREM ExitIsClean == Spec => []ExitLeavesNothingRunning
<1>1. IInv => ExitLeavesNothingRunning
  BY DEF IInv
<1>2. QED
  BY <1>1, Invariance, PTL
=============================================================================
