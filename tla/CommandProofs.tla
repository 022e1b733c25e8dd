---------------------------- MODULE CommandProofs ----------------------------
(***************************************************************************)
(* Proofs about CallCommand.  The command is a caller of Session, so that  *)
(* SInv of SessionProofs holds in it; WhereInv relates the place in the    *)
(* command to the place in the session, and SentInv what was sent.         *)
(*                                                                         *)
(* The second half proves that cmd_call is never in a deadlock of its own  *)
(* nor turns for ever by itself: its steps and the work of the session     *)
(* make one measure.                                                       *)
(***************************************************************************)
EXTENDS CallCommand, SessionProofs

Before == {"descriptors", "messages", "method", "session"}

WhereInv ==
    /\ cmd \in Before \cup {"terminated"} => user = "closed"
    /\ cmd = "starting" => user \in {"starting", "refused", "spawned", "ready"}
    /\ cmd \in {"menu", "load", "close"} => user = "ready"
    /\ cmd = "sending" => user \in {"announced", "sending", "ready"}
    /\ cmd = "closing" => user \in {"closing", "joined", "finishing", "closed"}
    /\ cmd = "returned" => user \in {"closed", "refused"}
    /\ cmd \in {"method", "session", "starting"} => args.files # 0

SentInv ==
    /\ cmd \in Before \cup {"starting"} => sent = 0
    /\ cmd \in {"menu", "load"} /\ TakesOneMessage => sent = 0
    /\ TakesOneMessage => sent <= 1
    /\ cmd = "sending" => sent >= 1
    /\ cmd \in {"menu", "close", "closing"} /\ sent = 0 => chosen \notin args.readable

CInv ==
    /\ SInv
    /\ CommandTypeOK
    /\ WhereInv
    /\ SentInv

LEMMA CommandInitHolds == CommandInit => CInv
<1> SUFFICES ASSUME CommandInit
             PROVE  CInv
  OBVIOUS
<1>1. SInv
  BY SessionInitHolds DEF CommandInit
<1>2. CommandTypeOK
  <2>1. args.files \in Nat
    BY CallCommandAssumption DEF CommandInit, Args
  <2> QED
    BY <1>1, <2>1 DEF SInv, CommandTypeOK, CommandInit, CommandSteps
<1> QED
  BY <1>1, <1>2 DEF CommandInit, CInv, WhereInv, SentInv, SessionInit, Before

LEMMA CommandStepIsSession == [CommandNext]_commandVars => [SessionNext]_allVars
<1> SUFFICES ASSUME [CommandNext]_commandVars
             PROVE  [SessionNext]_allVars
  OBVIOUS
<1> USE DEF SessionNext
<1>1. CASE CommandProceeds
  BY <1>1 DEF CommandProceeds, LoadDescriptors, ReadMessages, FindMethod,
     StartSession, Started, LoadMessage, MessageSent, CloseSession, Return
<1>2. CASE Choose \/ Quit
  BY <1>2 DEF Choose, Quit
<1>3. CASE UserReturns \/ ReadThreadNext \/ In(Inside)
  BY <1>3 DEF In
<1>4. CASE UNCHANGED commandVars
  BY <1>4 DEF commandVars
<1> QED
  BY <1>1, <1>2, <1>3, <1>4 DEF CommandNext

\* the steps inside the session leave the command where it is, and send
\* nothing; a function comes back to where it was called
LEMMA InsideStep ==
    ASSUME CInv,
           \/ UserReturns /\ UNCHANGED cmdVars
           \/ ReadThreadNext /\ UNCHANGED cmdVars
           \/ In(Inside) /\ UNCHANGED cmdVars
           \/ UNCHANGED commandVars
    PROVE  (WhereInv /\ SentInv)'
<1> USE DEF CInv
<1>1. UNCHANGED <<sent, cmdVars>>
  BY DEF UserReturns, Spawn, DidStart, SendWrites, SendReturns, Join,
     CloseFinishes, DidClose, ReadThreadNext, ReadBegins, ReadGives, DidReceive,
     ReadLoopExits, In, sessionVars, commandVars, allVars
<1>2. SentInv'
  BY <1>1 DEF SentInv, cmdVars, TakesOneMessage, CallType
<1>3. CASE UserReturns
  <2>1. WhereInv /\ cmd \in CommandSteps /\ cmd' = cmd /\ args' = args
    BY <1>1 DEF CommandTypeOK, cmdVars
  <2> USE DEF WhereInv, Before, CommandSteps
  <2>2. CASE Spawn \/ DidStart
    BY <1>2, <2>1, <2>2 DEF Spawn, DidStart
  <2>3. CASE SendWrites \/ SendReturns
    BY <1>2, <2>1, <2>3 DEF SendWrites, SendReturns
  <2>4. CASE Join \/ CloseFinishes \/ DidClose
    BY <1>2, <2>1, <2>4 DEF Join, CloseFinishes, DidClose
  <2> QED
    BY <1>2, <1>3, <2>2, <2>3, <2>4 DEF UserReturns
<1>4. CASE ~UserReturns
  <2>1. user' = user
    BY <1>4 DEF ReadThreadNext, ReadBegins, ReadGives, DidReceive,
       ReadLoopExits, In, sessionVars, commandVars, allVars
  <2> QED
    BY <1>1, <1>2, <2>1 DEF WhereInv, cmdVars
<1> QED
  BY <1>2, <1>3, <1>4

LEMMA CommandPartsStep ==
    CInv /\ [CommandNext]_commandVars => (WhereInv /\ SentInv)'
<1> SUFFICES ASSUME CInv, [CommandNext]_commandVars
             PROVE  (WhereInv /\ SentInv)'
  OBVIOUS
<1>0. /\ WhereInv
      /\ SentInv
      /\ sent \in Nat
      /\ args.descriptors \in {"unreadable", "malformed", "good"}
      /\ 0 \notin args.readable
  <2>1. 0 \notin args.readable
        /\ args.descriptors \in {"unreadable", "malformed", "good"}
    BY DEF CInv, CommandTypeOK, Args
  <2> QED
    BY <2>1 DEF CInv, CommandTypeOK, SessionTypeOK
<1> USE DEF WhereInv, SentInv, Before, TakesOneMessage, CallType
<1>1. CASE LoadDescriptors \/ ReadMessages \/ FindMethod
  BY <1>0, <1>1 DEF LoadDescriptors, ReadMessages, FindMethod, allVars, sessionVars
<1>2. CASE StartSession
  BY <1>0, <1>2 DEF StartSession, Start
<1>3. CASE Started
  BY <1>0, <1>3 DEF Started, allVars, sessionVars
<1>4. CASE Choose \/ Quit
  BY <1>0, <1>4 DEF Choose, Quit, allVars, sessionVars
<1>5. CASE LoadMessage
  <2>1. CASE chosen \in args.readable
    BY <1>0, <1>5, <2>1 DEF LoadMessage, SendMessage
  <2>2. CASE chosen \notin args.readable
    BY <1>0, <1>5, <2>2 DEF LoadMessage, allVars, sessionVars
  <2> QED
    BY <2>1, <2>2
<1>6. CASE MessageSent
  BY <1>0, <1>6 DEF MessageSent, allVars, sessionVars
<1>7. CASE CloseSession
  BY <1>0, <1>7 DEF CloseSession, Close
<1>8. CASE Return
  BY <1>0, <1>8 DEF Return, allVars, sessionVars
<1> QED
  BY <1>1, <1>2, <1>3, <1>4, <1>5, <1>6, <1>7, <1>8, InsideStep
     DEF CommandNext, CommandProceeds

LEMMA CommandTypeStep ==
    CInv /\ [CommandNext]_commandVars => (SInv /\ CommandTypeOK)'
<1> SUFFICES ASSUME CInv, [CommandNext]_commandVars
             PROVE  (SInv /\ CommandTypeOK)'
  OBVIOUS
<1>1. SInv'
  BY CommandStepIsSession, SessionStep DEF CInv
<1>2. cmd \in CommandSteps /\ args \in Args /\ chosen \in 0..args.files
      /\ args.files \in Nat
  BY CallCommandAssumption DEF CInv, CommandTypeOK, Args
<1>3. cmd' \in CommandSteps /\ args' = args /\ chosen' \in 0..args.files
  <2> USE DEF CommandSteps
  <2>0. args.descriptors \in {"unreadable", "malformed", "good"}
    BY DEF CInv, CommandTypeOK, Args
  <2>1. CASE LoadDescriptors \/ ReadMessages \/ FindMethod \/ StartSession
    BY <1>2, <2>0, <2>1 DEF LoadDescriptors, ReadMessages, FindMethod,
       StartSession
  <2>5. CASE MessageSent \/ CloseSession \/ Return \/ Quit \/ LoadMessage
    BY <1>2, <2>5 DEF MessageSent, CloseSession, Return, Quit, LoadMessage
  <2>2. CASE Choose
    BY <1>2, <2>2 DEF Choose
  <2>3. CASE Started
    <3>1. args.files # 0
      BY <2>3 DEF Started, CInv, WhereInv
    <3> QED
      BY <1>2, <2>3, <3>1 DEF Started
  <2>4. CASE UNCHANGED cmdVars
    BY <1>2, <2>4 DEF cmdVars
  <2> QED
    BY <2>1, <2>2, <2>3, <2>4, <2>5 DEF CommandNext, CommandProceeds,
       commandVars, cmdVars
<1> QED
  BY <1>1, <1>2, <1>3 DEF SInv, CommandTypeOK

LEMMA CommandInductive == CommandSpec => []CInv
<1>1. CInv /\ [CommandNext]_commandVars => CInv'
  BY CommandTypeStep, CommandPartsStep DEF CInv
<1> QED
  BY <1>1, CommandInitHolds, PTL DEF CommandSpec

-----------------------------------------------------------------------------
(* The command is a user of Session: what is proved of SessionSpec holds   *)
(* of it.                                                                  *)
THEOREM CommandRunsSession == CommandSpec => SessionSpec
<1>1. CommandInit => SessionInit
  BY DEF CommandInit
<1> QED
  BY <1>1, CommandStepIsSession, PTL DEF CommandSpec, SessionSpec

(* Whichever return it takes, the command leaves no thread and nothing in  *)
(* flight behind, for any server, network, arguments and user.             *)
THEOREM CommandReturnsClean == CommandSpec => []ReturnsClean
<1>1. CInv => ReturnsClean
  <2> SUFFICES ASSUME CInv, cmd = "returned"
               PROVE  /\ read_thread = "none"
                      /\ writer = "out"
                      /\ \A t \in Tags : ~InFlight(t)
    BY DEF ReturnsClean
  <2>1. user \in {"closed", "refused"}
    BY DEF CInv, WhereInv
  <2> QED
    BY <2>1, SInvIsSafe DEF CInv, SafeToDestroy
<1> QED
  BY <1>1, CommandInductive, PTL

(* A method that takes one message gets at most one.                       *)
THEOREM CommandSendsOne == CommandSpec => []UnaryGetsOneMessage
<1>1. CInv => UnaryGetsOneMessage
  BY DEF CInv, SentInv, UnaryGetsOneMessage, TakesOneMessage, CallType,
     CommandTypeOK, Args
<1> QED
  BY <1>1, CommandInductive, PTL

(* A call is closed with nothing sent only when the file could not be      *)
(* read, or the user chose none.                                           *)
THEOREM CommandKnowsEmptyCalls == CommandSpec => []EmptyCallIsKnown
<1>1. CInv => EmptyCallIsKnown
  BY DEF CInv, SentInv, EmptyCallIsKnown
<1> QED
  BY <1>1, CommandInductive, PTL

(* Every variable of CallCommand keeps its type (CommandTypeOK).           *)
THEOREM CommandTypeCorrect == CommandSpec => []CommandTypeOK
<1>1. CInv => CommandTypeOK
  BY DEF CInv
<1> QED
  BY <1>1, CommandInductive, PTL

-----------------------------------------------------------------------------
(* The two safety halves of CommandEnds: nothing but the menu waits, and   *)
(* nothing but the menu turns for ever.                                    *)

\* what of the command goes on by itself; Choose and Quit are the user's
CommandGoesOn ==
    \/ cmd \in {"descriptors", "messages", "method"}
    \/ cmd = "session" /\ Alive /\ calls < MaxCalls
    \/ cmd = "starting" /\ user \in {"refused", "ready"}
    \/ cmd = "load" /\ (chosen \in args.readable => Alive /\ sent < MaxWrites)
    \/ cmd = "sending" /\ user = "ready"
    \/ cmd = "close" /\ Alive
    \/ cmd = "closing" /\ user = "closed"
    \/ GoesOn

Waits == Alive /\ cmd \notin {"menu", "returned", "terminated"}

\* the bounds leave room for the one call and for the message being loaded
RoomInv ==
    /\ cmd \in Before => calls = 0
    /\ cmd = "load" => sent < MaxWrites

\* the steps that cmd_call has left, with the work each gives the session
StepsLeft ==
    CASE cmd = "descriptors" -> 46
      [] cmd = "messages"    -> 45
      [] cmd = "method"      -> 44
      [] cmd = "session"     -> 43
      [] cmd = "starting"    -> 31
      [] cmd = "load"        -> 30
      [] cmd = "sending"     -> 19
      [] cmd = "menu"        -> 18
      [] cmd = "close"       -> 17
      [] cmd = "closing"     -> 1
      [] OTHER               -> 0

CommandWork == StepsLeft + Work

\* the user, the server, and gpr_cv_wait when it returns without a signal
Outside == Choose \/ In(Library(ServerResponds)) \/ In(SpuriousWakeup)

LEMMA RoomStep ==
    ASSUME MaxWrites > 0
    PROVE  CInv /\ RoomInv /\ [CommandNext]_commandVars => RoomInv'
<1> SUFFICES ASSUME CInv, RoomInv, [CommandNext]_commandVars
             PROVE  RoomInv'
  OBVIOUS
<1> USE DEF RoomInv, Before
<1>1. CASE LoadDescriptors \/ ReadMessages \/ FindMethod
  <2>1. args.descriptors \in {"unreadable", "malformed", "good"}
    BY DEF CInv, CommandTypeOK, Args
  <2> QED
    BY <1>1, <2>1 DEF LoadDescriptors, ReadMessages, FindMethod, allVars, vars,
                      cliVars
<1>2. CASE StartSession
  BY <1>2 DEF StartSession
<1>3. CASE Started
  BY <1>3 DEF Started, CInv, SentInv, allVars, sessionVars
<1>4. CASE Choose \/ Quit
  BY <1>4 DEF Choose, Quit, allVars, sessionVars
<1>5. CASE LoadMessage \/ MessageSent \/ CloseSession \/ Return
  BY <1>5 DEF LoadMessage, MessageSent, CloseSession, Return
<1>6. ASSUME UNCHANGED <<cmd, calls, sent>>
      PROVE  RoomInv'
  BY <1>6
<1>7. CASE UNCHANGED cmdVars /\ (UserReturns \/ ReadThreadNext)
  BY <1>6, <1>7 DEF cmdVars, UserReturns, Spawn, Constructed, DidStart,
     SendWrites, EnterWrite, SendReturns, Join, CloseFinishes, EnterFinish,
     DidClose, Finished, ReadThreadNext, ReadBegins, EnterRead, ReadGives,
     ReaderReturns, DidReceive, ReadLoopExits, callVars, vars, cliVars
<1>8. CASE UNCHANGED cmdVars /\ In(Inside)
  BY <1>6, <1>8 DEF cmdVars, In, Inside, WriterNext, WriterIssues,
     WriterResets, WriterChecks, WriterRelocks, SpuriousWakeup, ReaderTakes,
     ReaderNotifies, ReaderTakesAgain, ReaderEnds, ReaderDrains, LibraryNext,
     Library, callVars, cliVars, sessionVars
<1>9. CASE UNCHANGED commandVars
  BY <1>6, <1>9 DEF commandVars, cmdVars, allVars, vars, cliVars, sessionVars
<1> QED
  BY <1>1, <1>2, <1>3, <1>4, <1>5, <1>7, <1>8, <1>9
     DEF CommandNext, CommandProceeds

\* while cmd_call waits for a function of the session, that function goes on
LEMMA OnlyTheSessionHangs ==
    ASSUME MaxCalls > 0
    PROVE  CInv /\ RoomInv /\ OnlyStuckCallsHang =>
               (Waits => CommandGoesOn \/ (InCall /\ Stuck))
<1> SUFFICES ASSUME CInv, RoomInv, OnlyStuckCallsHang, Waits, ~CommandGoesOn
             PROVE  InCall /\ Stuck
  OBVIOUS
<1>1. cmd \in {"session", "starting", "sending", "closing"}
  BY DEF Waits, CommandGoesOn, CInv, CommandTypeOK, CommandSteps, RoomInv
<1>2. cmd # "session"
  BY CliCallAssumption DEF Waits, CommandGoesOn, RoomInv, Before
<1>3. InCall
  BY <1>1, <1>2 DEF CommandGoesOn, InCall, CInv, WhereInv
<1> QED
  BY <1>3 DEF OnlyStuckCallsHang, Waits, CommandGoesOn

(* cmd_call never waits for what nobody will do: unless its user is asked, *)
(* a step of it, of the session or of the library is due, or it is inside  *)
(* a call that Stuck tells.                                                *)
THEOREM CommandDoesNotDeadlock ==
    ASSUME MaxCalls > 0, MaxWrites > 0
    PROVE  CommandSpec => [](Waits => CommandGoesOn \/ (InCall /\ Stuck))
<1>1. CommandInit => RoomInv
  BY DEF CommandInit, SessionInit, Init, RoomInv, Before
<1>2. CommandSpec => []OnlyStuckCallsHang
  BY CommandRunsSession, SessionDoesNotDeadlock, PTL
<1>3. CommandSpec => []RoomInv
  BY <1>1, CommandInductive, RoomStep, PTL DEF CommandSpec
<1> QED
  BY <1>2, <1>3, CommandInductive, OnlyTheSessionHangs, PTL

(* With a server, a deadline and a network that leave the RPC open until   *)
(* the half-close, cmd_call hangs nowhere.                                 *)
THEOREM UndisturbedCommandGoesOn ==
    ASSUME MaxCalls > 0, MaxWrites > 0, ~EarlyEnd, ChecksStart
    PROVE  CommandSpec => [](Waits => CommandGoesOn)
<1>1. (InCall => GoesOn) => (InCall /\ Stuck => CommandGoesOn)
  BY DEF CommandGoesOn
<1> QED
  BY <1>1, CommandRunsSession, UndisturbedSessionGoesOn,
     CommandDoesNotDeadlock, PTL

LEMMA WorkUnchanged == UNCHANGED allVars => Work' = Work
<1> SUFFICES ASSUME UNCHANGED allVars
             PROVE  Work' = Work
  OBVIOUS
<1>1. UserWork' = UserWork /\ WriterWork' = WriterWork
      /\ ReadThreadWork' = ReadThreadWork /\ ReaderWork' = ReaderWork
  BY DEF UserWork, WriterWork, ReadThreadWork, ReaderWork, allVars, vars,
         cliVars, sessionVars, readVars
<1>2. QueueWork' = QueueWork /\ PeerWork' = PeerWork
  BY DEF QueueWork, OpWork, PeerWork, Ended, allVars, vars, grpcVars
<1> QED
  BY <1>1, <1>2, Zenon DEF Work

\* what a call of start, send_message or close adds
LEMMA StartGives ==
    ASSUME SInv, Start
    PROVE  \A v, v2 \in Nat : v = Work /\ v2 = Work' => v2 <= v + 11
<1>1. TypeOK /\ TypeOK'
  <2>1. SessionNext
    BY DEF SessionNext
  <2> QED
    BY <2>1, StepKeepsIInv DEF SInv, IInv
<1>2. user \in {"closed", "refused"} /\ read_thread = "none" /\ writer = "out"
  BY SInvIsSafe DEF Start, SafeToDestroy
<1>3. UserWork' = 5 /\ WriterWork' = 0 /\ ReadThreadWork' = 0 /\ ReaderWork' = 0
  BY <1>2 DEF Start, EnterConstructor, UserWork, WriterWork, ReadThreadWork,
              ReaderWork
<1>4. QueueWork' = 5
  BY DEF Start, EnterConstructor, GrpcFresh, QueueWork, OpWork, Tags, TagStart,
         TagWrite, TagRead, TagWritesDone, TagFinish
<1>5. PeerWork' = 1
  BY DEF Start, EnterConstructor, GrpcFresh, PeerWork, Ended, Statuses
<1> QED
  BY <1>3, <1>4, <1>5 DEF Work

LEMMA SendGives ==
    ASSUME SInv, user = "ready", SendMessage
    PROVE  \A v, v2 \in Nat : v = Work /\ v2 = Work' => v2 <= v + 10
<1>1. WorkParts
  BY WorkIsNatural DEF SInv, IInv
<1>2. SUFFICES
        ASSUME NEW v \in Nat, NEW v2 \in Nat,
               NEW w \in Nat, w = WriterWork, NEW d \in Nat, d = ReadThreadWork,
               NEW r \in Nat, r = ReaderWork, NEW q \in Nat, q = QueueWork,
               NEW p \in Nat, p = PeerWork,
               v = 0 + w + d + r + q + p, v2 = 10 + w + d + r + q + p
        PROVE  v2 <= v + 10
  <2>1. UserWork = 0 /\ UserWork' = 10
    BY DEF SendMessage, UserWork
  <2>2. WriterWork' = WriterWork /\ ReadThreadWork' = ReadThreadWork
        /\ ReaderWork' = ReaderWork
    BY DEF SendMessage, WriterWork, ReadThreadWork, ReaderWork, vars, cliVars,
           readVars
  <2>3. QueueWork' = QueueWork /\ PeerWork' = PeerWork
    BY DEF SendMessage, QueueWork, OpWork, PeerWork, Ended, vars, grpcVars
  <2>4. /\ Work = 0 + WriterWork + ReadThreadWork + ReaderWork + QueueWork
                      + PeerWork
        /\ Work' = 10 + WriterWork + ReadThreadWork + ReaderWork + QueueWork
                      + PeerWork
    BY <2>1, <2>2, <2>3, Zenon DEF Work
  <2> QED
    BY <1>1, <1>2, <2>4 DEF WorkParts
<1> QED
  BY <1>2

LEMMA CloseGives ==
    ASSUME SInv, user = "ready", Close
    PROVE  \A v, v2 \in Nat : v = Work /\ v2 = Work' => v2 <= v + 15
<1>1. WorkParts
  BY WorkIsNatural DEF SInv, IInv
<1>2. SUFFICES
        ASSUME NEW v \in Nat, NEW v2 \in Nat,
               NEW w \in Nat, w = WriterWork, NEW d \in Nat, d = ReadThreadWork,
               NEW r \in Nat, r = ReaderWork, NEW q \in Nat, q = QueueWork,
               NEW p \in Nat, p = PeerWork,
               v = 0 + w + d + r + q + p, v2 = 7 + 8 + d + r + q + p
        PROVE  v2 <= v + 15
  <2>1. UserWork = 0 /\ UserWork' = 7 /\ WriterWork' = 8
    BY DEF Close, EnterWrite, UserWork, WriterWork
  <2>2. ReadThreadWork' = ReadThreadWork /\ ReaderWork' = ReaderWork
    BY DEF Close, EnterWrite, ReadThreadWork, ReaderWork, readVars
  <2>3. QueueWork' = QueueWork /\ PeerWork' = PeerWork
    BY DEF Close, EnterWrite, QueueWork, OpWork, PeerWork, Ended, grpcVars
  <2>4. /\ Work = 0 + WriterWork + ReadThreadWork + ReaderWork + QueueWork
                      + PeerWork
        /\ Work' = 7 + 8 + ReadThreadWork + ReaderWork + QueueWork + PeerWork
    BY <2>1, <2>2, <2>3, Zenon DEF Work
  <2> QED
    BY <1>1, <1>2, <2>4 DEF WorkParts
<1> QED
  BY <1>2

\* inside the session, the session's measure is all there is
LEMMA InsideUsesWork ==
    ASSUME CInv, UNCHANGED cmdVars, ~Outside,
           UserReturns \/ ReadThreadNext \/ In(Inside)
    PROVE  UNCHANGED allVars \/ (Work' < Work /\ Work' >= 0)
<1>1. user' = user \/ user \notin {"closed", "refused", "ready"}
  BY DEF UserReturns, Spawn, DidStart, SendWrites, SendReturns, Join,
         CloseFinishes, DidClose, ReadThreadNext, ReadBegins, ReadGives,
         DidReceive, ReadLoopExits, In, sessionVars
<1>2. ~Start /\ ~SendMessage /\ ~Close
  BY <1>1 DEF Start, SendMessage, Close, MayCall
<1>3. [SessionNext]_allVars
  BY DEF SessionNext, In
<1> QED
  BY <1>2, <1>3, SessionWork DEF CInv, Given, Outside

LEMMA CommandWorkStep ==
    CInv /\ [CommandNext]_commandVars =>
        \/ Outside
        \/ UNCHANGED commandVars
        \/ CommandWork' < CommandWork /\ CommandWork' >= 0
<1> SUFFICES ASSUME CInv, CommandNext, ~Outside, ~(UNCHANGED commandVars)
             PROVE  CommandWork' < CommandWork /\ CommandWork' >= 0
  OBVIOUS
<1>1. Work \in Nat /\ Work' \in Nat
  <2>1. TypeOK /\ TypeOK'
    BY CommandStepIsSession, StepKeepsIInv DEF CInv, SInv, IInv
  <2>2. WorkParts /\ WorkParts'
    <3>1. TypeOK' => WorkParts'
      BY WorkIsNatural, PTL
    <3> QED
      BY <2>1, <3>1, WorkIsNatural
  <2>3. \A u, w, d, r, q, p \in Nat : u + w + d + r + q + p \in Nat
    OBVIOUS
  <2> QED
    BY <2>2, <2>3 DEF WorkParts, Work
<1>2. StepsLeft \in Nat /\ StepsLeft' \in Nat
  BY DEF StepsLeft
<1>3. SUFFICES ASSUME NEW v \in Nat, v = Work, NEW v2 \in Nat, v2 = Work',
                      NEW s \in Nat, s = StepsLeft, NEW s2 \in Nat, s2 = StepsLeft'
               PROVE  s2 + v2 < s + v
  <2>1. \A s, v \in Nat : s + v >= 0
    OBVIOUS
  <2> QED
    BY <1>1, <1>2, <2>1 DEF CommandWork
<1>4. UNCHANGED allVars => v2 = v
  BY <1>3, WorkUnchanged
<1>5. CASE LoadDescriptors \/ ReadMessages \/ FindMethod
  <2>1. s2 + 1 <= s
    <3>1. args.descriptors \in {"unreadable", "malformed", "good"}
      BY DEF CInv, CommandTypeOK, Args
    <3> QED
      BY <1>3, <1>5, <3>1 DEF LoadDescriptors, ReadMessages, FindMethod, StepsLeft
  <2>2. v2 = v
    BY <1>4, <1>5 DEF LoadDescriptors, ReadMessages, FindMethod
  <2> QED
    BY <2>1, <2>2
<1>6. CASE StartSession
  <2>1. s2 + 12 <= s
    BY <1>3, <1>6 DEF StartSession, StepsLeft
  <2>2. v2 <= v + 11
    BY <1>3, <1>6, StartGives DEF StartSession, CInv
  <2> QED
    BY <2>1, <2>2
<1>7. CASE Started \/ MessageSent \/ Quit \/ Return
  <2>1. s2 + 1 <= s
    BY <1>3, <1>7 DEF Started, MessageSent, Quit, Return, StepsLeft
  <2>2. v2 = v
    BY <1>4, <1>7 DEF Started, MessageSent, Quit, Return
  <2> QED
    BY <2>1, <2>2
<1>8. CASE LoadMessage
  <2>1. CASE chosen \in args.readable
    <3>1. s2 + 11 <= s
      BY <1>3, <1>8, <2>1 DEF LoadMessage, StepsLeft
    <3>2. SendMessage /\ user = "ready"
      BY <1>8, <2>1 DEF LoadMessage, CInv, WhereInv
    <3>3. v2 <= v + 10
      BY <1>3, <3>2, SendGives DEF CInv
    <3> QED
      BY <3>1, <3>3
  <2>2. CASE chosen \notin args.readable
    <3>1. s2 + 1 <= s
      BY <1>3, <1>8, <2>2 DEF LoadMessage, StepsLeft
    <3>2. v2 = v
      BY <1>4, <1>8, <2>2 DEF LoadMessage
    <3> QED
      BY <3>1, <3>2
  <2> QED
    BY <2>1, <2>2
<1>9. CASE CloseSession
  <2>1. s2 + 16 <= s
    BY <1>3, <1>9 DEF CloseSession, StepsLeft
  <2>2. v2 <= v + 15
    BY <1>3, <1>9, CloseGives DEF CloseSession, CInv, WhereInv
  <2> QED
    BY <2>1, <2>2
<1>10. CASE UNCHANGED cmdVars /\ (UserReturns \/ ReadThreadNext \/ In(Inside))
  <2>1. s2 = s
    BY <1>3, <1>10 DEF cmdVars, StepsLeft
  <2>2. Work' < Work
    BY <1>10, InsideUsesWork DEF commandVars
  <2>3. v2 < v
    BY <1>3, <2>2
  <2> QED
    BY <2>1, <2>3
<1> QED
  BY <1>5, <1>6, <1>7, <1>8, <1>9, <1>10
     DEF CommandNext, CommandProceeds, Outside

(* Nor does cmd_call turn for ever: each step uses up what the last choice *)
(* of the user, response or wakeup left to do.                             *)
THEOREM CommandDoesNotLivelock ==
    CommandSpec => [][\/ Outside
                      \/ CommandWork' < CommandWork /\ CommandWork' >= 0]_commandVars
<1>1. CInv /\ [CommandNext]_commandVars =>
          [\/ Outside
           \/ CommandWork' < CommandWork /\ CommandWork' >= 0]_commandVars
  BY CommandWorkStep
<1> QED
  BY <1>1, CommandInductive, PTL DEF CommandSpec

=============================================================================
