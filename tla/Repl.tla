--------------------------------- MODULE Repl ---------------------------------
(***************************************************************************)
(* The chat on the terminal (spine/repl.ts) and the session of the model   *)
(* behind it (spine/session.ts), over the executor's three answers: busy,  *)
(* ended, or the call's result.                                            *)
(*                                                                         *)
(* One readline interface serves the chat prompt, which is always asked    *)
(* again, and the gates: ask_human, and the one or two questions before a  *)
(* publish.  The questions wait for each other in a queue, and the human   *)
(* sees the first of it.  What is entered at the chat prompt goes through  *)
(* a queue of messages to the session, which reads it when it likes.       *)
(*                                                                         *)
(* A callback and the continuations it resumes are one step.  Auxiliary    *)
(* state, read by no guard of the program: begun and said.                 *)
(***************************************************************************)
EXTENDS Naturals, Sequences

CONSTANTS
  MaxLines,  \* bound: the messages that the human enters
  Context,   \* the system context, which is the first message
  None       \* no question, no call

Gates == {"ask_human", "caveat", "final"}

ASSUME ReplAssumption ==
  /\ MaxLines \in Nat
  /\ Context \notin 1 .. MaxLines
  /\ None \notin Gates \cup {"chat", "gate", "work", "publish"}

VARIABLES
  shown,     \* the question on the terminal: "chat", "gate", or None
  asking,    \* the questions that wait behind it
  begun,     \* auxiliary: the question that the line being typed was begun under
  closed,    \* the readline interface is closed
  loop,      \* run(): "prompting", or "left" when the input loop is behind it
  exited,    \* the process: "no", "yes", or "crashed"
  call,      \* the tool call in flight, or None
  ended,     \* done() or abort() has been called
  buffered,  \* createUserQueue: messages pushed and not yet taken
  waiting,   \* createUserQueue: a next() waits for a message
  queueEnd,  \* createUserQueue: end() has been called
  inputEnd,  \* the session has been told that there are no more messages
  heard,     \* the messages that the session has taken
  turns,     \* the turns begun, one for a message
  turn,      \* a turn is in progress
  pump,      \* run(): "draining" the session's stream, or "over"
  said       \* auxiliary: the messages pushed

terminal == <<shown, asking, begun, closed>>
process  == <<loop, exited, pump>>
executor == <<call, ended>>
queue    == <<buffered, waiting, queueEnd>>
session  == <<inputEnd, heard, turns, turn>>
vars     == <<terminal, process, executor, queue, session, said>>

Running == exited = "no"

Alive == Running /\ pump = "draining"

-----------------------------------------------------------------------------
(* The terminal.                                                           *)

AskInFront(now, waiters, q) == [shown |-> q, asking |-> <<now>> \o waiters]

AskUnlocked(now, waiters, q) ==
  [shown |-> IF now = None THEN q ELSE now, asking |-> waiters]

\* askLine and withLock: a question waits for all that were asked before it.
Ask(now, waiters, q) ==
  IF now = None THEN [shown |-> q, asking |-> waiters]
  ELSE [shown |-> now, asking |-> Append(waiters, q)]

\* What is on the terminal once the question there is answered.
Answered ==
  IF asking = <<>> THEN [shown |-> None, asking |-> <<>>]
  ELSE [shown |-> Head(asking), asking |-> Tail(asking)]

AskNow(t) ==
  /\ shown' = t.shown
  /\ asking' = t.asking

\* 'close': every question is answered with "", which is no, and the input loop ends.
Close ==
  /\ closed' = TRUE
  /\ shown' = None
  /\ asking' = <<>>
  /\ begun' = None
  /\ loop' = "left"
  /\ call' = IF call \in Gates THEN None ELSE call

\* The human starts to type under what is on the terminal.
BeginLine ==
  /\ Running
  /\ shown # None
  /\ begun = None
  /\ begun' = shown
  /\ UNCHANGED <<shown, asking, closed, process, executor, queue, session, said>>

-----------------------------------------------------------------------------
(* The queue of messages.                                                  *)

\* push: to the next() that waits, or into the buffer.
Push(message) ==
  IF queueEnd
  THEN UNCHANGED <<buffered, waiting, heard, said>>
  ELSE /\ said' = Append(said, message)
       /\ waiting' = FALSE
       /\ IF waiting
          THEN heard' = Append(heard, message) /\ UNCHANGED buffered
          ELSE buffered' = Append(buffered, message) /\ UNCHANGED heard

\* end: a next() that waits is told.
EndQueue ==
  /\ queueEnd' = TRUE
  /\ waiting' = FALSE
  /\ inputEnd' = (inputEnd \/ waiting)

FetchEndFirst ==
  /\ Alive
  /\ ~waiting
  /\ ~inputEnd
  /\ IF queueEnd THEN inputEnd' = TRUE /\ UNCHANGED <<heard, buffered, waiting>>
     ELSE IF buffered # <<>>
     THEN /\ heard' = Append(heard, Head(buffered))
          /\ buffered' = Tail(buffered)
          /\ UNCHANGED <<waiting, inputEnd>>
     ELSE waiting' = TRUE /\ UNCHANGED <<heard, buffered, inputEnd>>
  /\ UNCHANGED <<terminal, process, executor, queueEnd, turns, turn, said>>

\* next(): what is buffered comes before the end.
Fetch ==
  /\ Alive
  /\ ~waiting
  /\ ~inputEnd
  /\ IF buffered # <<>>
     THEN /\ heard' = Append(heard, Head(buffered))
          /\ buffered' = Tail(buffered)
          /\ UNCHANGED <<waiting, inputEnd>>
     ELSE IF queueEnd THEN inputEnd' = TRUE /\ UNCHANGED <<heard, buffered, waiting>>
     ELSE waiting' = TRUE /\ UNCHANGED <<heard, buffered, inputEnd>>
  /\ UNCHANGED <<terminal, process, executor, queueEnd, turns, turn, said>>

-----------------------------------------------------------------------------
(* What the human enters.                                                  *)

\* At the chat prompt: the message is pushed, and the prompt is asked again, or the
\* loop ends because the model has ended the session meanwhile.
EnterMessage ==
  /\ Running
  /\ shown = "chat"
  /\ begun # None
  /\ Len(said) <= MaxLines
  /\ Push(Len(said))
  /\ IF ended THEN Close
     ELSE /\ AskNow(Ask(Answered.shown, Answered.asking, "chat"))
          /\ begun' = None
          /\ UNCHANGED <<closed, loop, call>>
  /\ UNCHANGED <<exited, pump, ended, queueEnd, inputEnd, turns, turn>>

\* A blank line is ignored.
EnterBlank ==
  /\ Running
  /\ shown = "chat"
  /\ begun # None
  /\ IF ended THEN Close
     ELSE /\ AskNow(Ask(Answered.shown, Answered.asking, "chat"))
          /\ begun' = None
          /\ UNCHANGED <<closed, loop, call>>
  /\ UNCHANGED <<exited, pump, ended, queue, session, said>>

\* "/quit".
Quit ==
  /\ Running
  /\ shown = "chat"
  /\ begun # None
  /\ EndQueue
  /\ Close
  /\ UNCHANGED <<exited, pump, ended, buffered, heard, turns, turn, said>>

\* At a gate: of two gates before a publish, the second is asked behind whatever
\* waits by then.  "y" at the last one publishes.
EnterAnswer(yes) ==
  /\ Running
  /\ shown = "gate"
  /\ begun # None
  /\ begun' = None
  /\ IF yes /\ call = "caveat"
     THEN /\ call' = "final"
          /\ AskNow(Ask(Answered.shown, Answered.asking, "gate"))
     ELSE /\ call' = IF yes /\ call = "final" THEN "publish" ELSE None
          /\ AskNow(Answered)
  /\ UNCHANGED <<closed, process, ended, queue, session, said>>

\* End of input, or Ctrl-C at the prompt.
Eof ==
  /\ Running
  /\ ~closed
  /\ Close
  /\ UNCHANGED <<exited, pump, ended, queue, session, said>>

Enter == EnterMessage \/ EnterBlank \/ Quit \/ \E yes \in BOOLEAN : EnterAnswer(yes)

-----------------------------------------------------------------------------
(* The session: the model takes its turns and calls the executor's tools.  *)

BeginTurn ==
  /\ Alive
  /\ ~turn
  /\ turns < Len(heard)
  /\ turn' = TRUE
  /\ turns' = turns + 1
  /\ UNCHANGED <<terminal, process, executor, queue, inputEnd, heard, said>>

\* dispatch: a call is refused once the session has ended, and while another call
\* is in flight.
Accepts == Alive /\ turn /\ ~ended /\ call = None

\* ask_human, or request_publish for which the gate of the spine is open.  After
\* the end of input the answer is "" at once.
CallGate(gate) ==
  /\ Accepts
  /\ ~closed
  /\ call' = gate
  /\ AskNow(Ask(shown, asking, "gate"))
  /\ UNCHANGED <<begun, closed, process, ended, queue, session, said>>

\* run_worker, run_tests, review_diff or plan_repo.
CallWork ==
  /\ Accepts
  /\ call' = "work"
  /\ UNCHANGED <<terminal, process, ended, queue, session, said>>

WorkReturns ==
  /\ Running
  /\ call \in {"work", "publish"}
  /\ call' = None
  /\ UNCHANGED <<terminal, process, ended, queue, session, said>>

\* done or abort.
CallEnd ==
  /\ Accepts
  /\ ended' = TRUE
  /\ UNCHANGED <<terminal, process, call, queue, session, said>>

\* A turn ends when all its calls have their results.
EndTurn ==
  /\ Alive
  /\ turn
  /\ ~ended
  /\ call = None
  /\ turn' = FALSE
  /\ UNCHANGED <<terminal, process, executor, queue, inputEnd, heard, turns, said>>

-----------------------------------------------------------------------------
(* run(): the pump, and the end.                                           *)

PumpStopsQuietly ==
  /\ Alive
  /\ ended
  /\ pump' = "over"
  /\ turn' = FALSE
  /\ UNCHANGED <<terminal, loop, exited, executor, queue, inputEnd, heard, turns, said>>

\* The first message of the stream after done or abort: the session is cut off, and
\* the chat prompt, if it still stands, is released.
PumpStops ==
  /\ Alive
  /\ ended
  /\ pump' = "over"
  /\ turn' = FALSE
  /\ IF closed THEN UNCHANGED <<terminal, loop, call>> ELSE Close
  /\ UNCHANGED <<exited, ended, queue, inputEnd, heard, turns, said>>

\* The stream ends: the session has no more messages to come, and none left.
StreamEnds ==
  /\ Alive
  /\ ~turn
  /\ inputEnd
  /\ turns = Len(heard)
  /\ pump' = "over"
  /\ UNCHANGED <<terminal, loop, exited, executor, queue, session, said>>

\* run() has awaited the pump.
Leave ==
  /\ Running
  /\ loop = "left"
  /\ pump = "over"
  /\ exited' = "yes"
  /\ EndQueue
  /\ UNCHANGED <<terminal, loop, pump, executor, buffered, heard, turns, turn, said>>

\* The stream breaks: nothing catches the pump's rejection, and the process dies.
StreamBreaks ==
  /\ Alive
  /\ exited' = "crashed"
  /\ UNCHANGED <<terminal, loop, pump, executor, queue, session, said>>

-----------------------------------------------------------------------------
Init ==
  /\ shown = "chat"
  /\ asking = <<>>
  /\ begun = None
  /\ closed = FALSE
  /\ loop = "prompting"
  /\ exited = "no"
  /\ call = None
  /\ ended = FALSE
  /\ buffered = <<Context>>
  /\ waiting = FALSE
  /\ queueEnd = FALSE
  /\ inputEnd = FALSE
  /\ heard = <<>>
  /\ turns = 0
  /\ turn = FALSE
  /\ pump = "draining"
  /\ said = <<Context>>

Human == BeginLine \/ Enter \/ Eof

Model ==
  \/ BeginTurn \/ EndTurn
  \/ CallWork \/ CallEnd \/ \E gate \in Gates : CallGate(gate)

System == Fetch \/ WorkReturns \/ PumpStops \/ StreamEnds \/ Leave

Next == Human \/ Model \/ System \/ StreamBreaks

Spec == Init /\ [][Next]_vars

\* The code and the SDK go on.  The model takes up what it is told and comes to the
\* end of every turn, whatever it calls in between.  Nothing is assumed of a human.
Fairness ==
  /\ WF_vars(Fetch) /\ WF_vars(WorkReturns) /\ WF_vars(PumpStops)
  /\ WF_vars(StreamEnds) /\ WF_vars(Leave)
  /\ WF_vars(BeginTurn) /\ SF_vars(EndTurn)

FairSpec == Spec /\ Fairness

-----------------------------------------------------------------------------
(* Properties.                                                             *)

Message == 1 .. MaxLines \cup {Context}

\* The values each variable takes.
TypeOK ==
  /\ shown \in {"chat", "gate", None}
  /\ asking \in Seq({"chat", "gate"})
  /\ begun \in {"chat", "gate", None}
  /\ loop \in {"prompting", "left"}
  /\ exited \in {"no", "yes", "crashed"}
  /\ call \in Gates \cup {"work", "publish", None}
  /\ closed \in BOOLEAN /\ ended \in BOOLEAN /\ turn \in BOOLEAN
  /\ buffered \in Seq(Message) /\ heard \in Seq(Message) /\ said \in Seq(Message)
  /\ waiting \in BOOLEAN /\ queueEnd \in BOOLEAN /\ inputEnd \in BOOLEAN
  /\ turns \in 0 .. Len(heard)
  /\ pump \in {"draining", "over"}

\* session.ts: "the session ends after its current turn".  What the human has said,
\* the session hears: every message, in the order in which it was entered, and also
\* what was still in the queue when "/quit" ended it.
NothingSaidIsLost ==
  /\ heard \o buffered = said
  /\ inputEnd => buffered = <<>>

\* repl.ts: "an ask_human gate can never race the chat prompt for the same terminal
\* line".  A line answers the question it was begun under: what is half typed for
\* the chat never answers a gate that opens meanwhile, and so never publishes.
LineIsForItsQuestion == begun # None => shown = begun

\* When the REPL leaves on its own, no worker step, publish or question is in
\* flight: the ledger has the outcome of all of them.
ExitLeavesNothingRunning == exited = "yes" => call = None

\* Once the human has entered "/quit", or the model has called done or abort, the
\* process ends, although nobody types another line, and whatever the session was
\* in the middle of.
EndsWhenTold == queueEnd \/ ended ~> ~Running

\* A gate does not wait for ever behind the chat prompt: if the human keeps on
\* entering lines, of any kind, or leaves the terminal, it gets an answer.
GateIsAnswered ==
  []<><<Enter>>_vars \/ <>closed => (call \in Gates ~> call \notin Gates \/ ~Running)

-----------------------------------------------------------------------------
(* The inductive invariant, by what it is about.                           *)

\* The system context is said before anything else.
SaidInv == said # <<>>

\* A next() waits only while there is nothing to take and more to come.
QueueInv ==
  /\ waiting => buffered = <<>> /\ ~queueEnd
  /\ inputEnd => queueEnd

\* Once the terminal is closed there is no question on it, and the loop is left.
TerminalInv ==
  /\ closed => shown = None
  /\ closed <=> loop = "left"

\* A call is in flight only within a turn of a session that goes on.
CallInv ==
  /\ call # None => turn /\ ~ended /\ pump = "draining"
  /\ exited = "yes" => pump = "over"

IInv ==
  /\ TypeOK
  /\ NothingSaidIsLost /\ SaidInv /\ QueueInv
  /\ LineIsForItsQuestion /\ TerminalInv
  /\ ExitLeavesNothingRunning /\ CallInv
=============================================================================
