---------------------------- MODULE SessionProofs ----------------------------
(***************************************************************************)
(* Proofs about Session, for every value of its constants: the session     *)
(* keeps the calling rules of CliCall, so that what is proved of CliCall   *)
(* holds inside it, and implements CallPromise when its caller heeds the   *)
(* result of start.                                                        *)
(*                                                                         *)
(* The inductive invariant SInv takes CliCall's over and adds how the      *)
(* caller, the read thread and the call move together, and where each      *)
(* response and the metadata is.                                           *)
(*                                                                         *)
(* The second half proves what safety can say of CallsReturn: a call under *)
(* way is never blocked but in the ways of Stuck (UnderWay and WritesInv   *)
(* say what has been asked for), and every step of it uses work up.        *)
(***************************************************************************)
EXTENDS Session, CliCallProofs

(* The caller and the phase of the call.                                   *)
UserInv ==
    /\ user = "closed" => phase \in {"none", "finished"}
    /\ user = "starting" => phase = "starting"
    /\ user = "refused" => phase = "refused"
    /\ user \in {"spawned", "ready", "joined"} => phase = "open"
    /\ user \in {"announced", "sending", "closing"} =>
           phase = "open" \/ (phase = "refused" /\ ~ChecksStart)
    /\ user = "finishing" => phase = "finishing"

(* The caller and its write.  On a refused call nobody ends a write.       *)
WriteInv ==
    /\ writer # "out" => user \in {"sending", "closing"}
    /\ user = "sending" => writer_tag = TagWrite
    /\ user = "closing" => writer_tag = TagWritesDone
    /\ half_closed => user \in {"closing", "joined", "finishing", "closed"}
    /\ user = "closing" /\ writer # "locking" => half_closed
    /\ user = "joined" => half_closed
    /\ phase = "refused" /\ user \in {"sending", "closing"} => writer # "out"
    /\ phase = "refused" /\ writer \in {"check", "waiting", "woken"} =>
           ~write_done

(* The read thread lives while the call is open, until it is joined.       *)
ReadInv ==
    /\ read_thread # "none" => phase = "open" /\ user # "joined"
    /\ phase = "open" /\ read_thread = "none" => reader = "done"
    /\ read_thread \in {"calling", "delivering"} => reader = "out"
    /\ read_thread = "reading" => reader # "out"
    /\ read_thread = "exited" => reader = "done"

(* Every response is on its way, in the hand of the read thread or given   *)
(* to the delegate, and a read that ends an RPC with status ok leaves none *)
(* behind.                                                                 *)
InHand ==
    IF op[TagRead] = "ok" \/ reader = "message" \/ read_thread = "delivering"
    THEN 1 ELSE 0

DeliverInv ==
    /\ received + inbox + InHand = responses
    /\ rpc = "ok" /\ op[TagRead] = "failed" => inbox = 0
    /\ rpc = "ok" /\ reader \in {"ended", "drain", "done"} => inbox = 0
    /\ AllDelivered

(* What the status of the RPC says about the start and the end of a call.  *)
RpcInv ==
    /\ phase = "none" => rpc = "idle"
    /\ phase = "starting" /\ op[TagStart] = "pending" => rpc = "idle"
    /\ op[TagStart] = "failed" => rpc = "error"
    /\ phase = "refused" => rpc = "error"
    /\ outcome # "none" => user = "closed" /\ Ended

(* The read thread asks for the metadata until it was given to the         *)
(* delegate, and holds it only while it delivers.                          *)
MetaInv ==
    /\ read_thread # "none" =>
           (want_meta <=> ~(server_meta /\ received > 0))
    /\ user = "starting" => received = 0
    /\ incoming <=> read_thread = "delivering" /\ want_meta /\ server_meta
    /\ MetadataOnce

SInv ==
    /\ IInv
    /\ SessionTypeOK
    /\ UserInv
    /\ WriteInv
    /\ ReadInv
    /\ DeliverInv
    /\ RpcInv
    /\ MetaInv

-----------------------------------------------------------------------------
LEMMA SessionInitHolds == SessionInit => SInv
<1> SUFFICES ASSUME SessionInit
             PROVE  SInv
  OBVIOUS
<1>1. IInv
  BY InitHolds DEF SessionInit
<1> USE DEF SessionInit, Init, GrpcInit
<1>2. op[TagRead] = "idle" /\ op[TagStart] = "idle"
  BY DEF Tags, TagRead, TagStart
<1>3. SessionTypeOK
  BY <1>1 DEF IInv, SessionTypeOK, UserSteps
<1>4. UserInv /\ WriteInv /\ ReadInv /\ MetaInv
  BY DEF UserInv, WriteInv, ReadInv, MetaInv, MetadataOnce
<1>5. DeliverInv /\ RpcInv
  BY <1>2 DEF DeliverInv, RpcInv, InHand, AllDelivered
<1> QED
  BY <1>1, <1>3, <1>4, <1>5 DEF SInv

(* Every step of the session is a step of CliCall whose caller keeps the   *)
(* calling rules.                                                          *)
LEMMA StepIsCliCall == SInv /\ [SessionNext]_allVars => [Next]_vars
<1> SUFFICES ASSUME SInv, [SessionNext]_allVars
             PROVE  [Next]_vars
  OBVIOUS
<1> USE DEF SInv, UserInv, WriteInv, ReadInv
<1>1. CASE Start
  BY <1>1 DEF Start, Next, Construct, MayConstruct
<1>2. CASE SendMessage \/ DidStart \/ SendReturns \/ Join
  BY <1>2 DEF SendMessage, DidStart, SendReturns, Join
<1>3. CASE Close
  BY <1>3 DEF Close, MayCall, Next, BeginWrite, MayWrite, WriteTags
<1>4. CASE Spawn
  BY <1>4 DEF Spawn, Next
<1>5. CASE SendWrites
  BY <1>5 DEF SendWrites, Next, BeginWrite, MayWrite, WriteTags
<1>6. CASE CloseFinishes
  BY <1>6 DEF CloseFinishes, Next, BeginFinish, MayFinish
<1>7. CASE DidClose
  BY <1>7 DEF DidClose, Next
<1>8. CASE ReadBegins
  BY <1>8 DEF ReadBegins, Next, BeginRead, MayRead
<1>9. CASE ReadGives
  BY <1>9 DEF ReadGives, Next, ReaderNext
<1>10. CASE DidReceive \/ ReadLoopExits
  BY <1>10 DEF DidReceive, ReadLoopExits
<1>11. CASE Inside
  BY <1>11 DEF Inside, Next, ReaderNext
<1>12. CASE UNCHANGED allVars
  BY <1>12 DEF allVars
<1> QED
  BY <1>1, <1>2, <1>3, <1>4, <1>5, <1>6, <1>7, <1>8, <1>9, <1>10, <1>11, <1>12
     DEF SessionNext, UserReturns, ReadThreadNext

(* The invariant of CliCall, primed, for the lemmas below.                 *)
LEMMA StepKeepsIInv == SInv /\ [SessionNext]_allVars => IInv'
  BY StepIsCliCall, StepHolds DEF SInv

(* One lemma for each part: only the steps that touch its variables need   *)
(* an argument.                                                            *)
LEMMA TypeStep == SInv /\ [SessionNext]_allVars => SessionTypeOK'
<1> SUFFICES ASSUME SInv, [SessionNext]_allVars
             PROVE  SessionTypeOK'
  OBVIOUS
<1>0. TypeOK /\ TypeOK' /\ SessionTypeOK
  BY StepKeepsIInv DEF SInv, IInv
<1> USE DEF SessionTypeOK, UserSteps, Statuses
<1>1. CASE Start
  BY <1>0, <1>1 DEF Start
<1>2. CASE Spawn
  BY <1>0, <1>2 DEF Spawn
<1>3. CASE SendMessage
  BY <1>0, <1>3 DEF SendMessage, readVars
<1>4. CASE DidStart \/ SendWrites \/ SendReturns \/ Close \/ CloseFinishes
  BY <1>0, <1>4 DEF DidStart, SendWrites, SendReturns, Close, CloseFinishes,
                    readVars
<1>5. CASE DidClose
  <2>1. reader = "done" /\ Ended
    BY <1>5 DEF SInv, IInv, UserInv, PhaseInv, EndInv, DidClose
  <2> QED
    BY <1>0, <1>5, <2>1 DEF DidClose, readVars, Ended
<1>6. CASE Join \/ ReadBegins \/ ReadLoopExits
  BY <1>0, <1>6 DEF Join, ReadBegins, ReadLoopExits
<1>7. CASE ReadGives
  BY <1>0, <1>7 DEF ReadGives
<1>8. CASE DidReceive
  <2>1. received' \in Nat /\ meta_given' \in Nat
    BY <1>0, <1>8 DEF DidReceive
  <2>2. want_meta' \in BOOLEAN /\ incoming' \in BOOLEAN
    BY <1>0, <1>8, Zenon DEF DidReceive
  <2> QED
    BY <1>0, <1>8, <2>1, <2>2 DEF DidReceive
<1>9. CASE UNCHANGED sessionVars
  BY <1>0, <1>9 DEF sessionVars, readVars
<1> QED
  BY <1>1, <1>2, <1>3, <1>4, <1>5, <1>6, <1>7, <1>8, <1>9
     DEF SessionNext, UserReturns, ReadThreadNext, allVars

LEMMA MetaStep == SInv /\ [SessionNext]_allVars => MetaInv'
<1> SUFFICES ASSUME SInv, [SessionNext]_allVars
             PROVE  MetaInv'
  OBVIOUS
<1>0. SessionTypeOK /\ MetaInv
  BY DEF SInv
<1> USE DEF MetaInv, MetadataOnce
<1>1. CASE Start
  BY <1>0, <1>1 DEF Start, SInv, ReadInv, UserInv
<1>2. CASE Spawn
  BY <1>0, <1>2 DEF Spawn, SInv, ReadInv, UserInv
<1>3. CASE Join \/ ReadBegins \/ ReadLoopExits
  BY <1>0, <1>3 DEF Join, ReadBegins, ReadLoopExits
<1>4. CASE ReadGives
  BY <1>0, <1>4 DEF ReadGives
<1>5. CASE DidReceive
  <2>1. received \in Nat /\ received' = received + 1 /\ received' > 0
    BY <1>0, <1>5 DEF DidReceive, SessionTypeOK
  <2>2. user' # "starting"
    BY <1>5 DEF DidReceive, SInv, ReadInv, UserInv
  <2>3. incoming' = FALSE /\ want_meta' <=> ~server_meta'
    BY <1>0, <1>5 DEF DidReceive, SessionTypeOK
  <2>4. meta_given' = IF server_meta' THEN 1 ELSE 0
    BY <1>0, <1>5, <2>1 DEF DidReceive, SessionTypeOK
  <2> QED
    BY <1>5, <2>1, <2>2, <2>3, <2>4 DEF DidReceive
<1>6. CASE UNCHANGED <<server_meta, readVars>> /\ user' # "starting"
  BY <1>0, <1>6 DEF readVars
<1>7. CASE UNCHANGED <<server_meta, readVars, user>>
  BY <1>0, <1>7 DEF readVars
<1> QED
  BY <1>1, <1>2, <1>3, <1>4, <1>5, <1>6, <1>7
     DEF SessionNext, UserReturns, ReadThreadNext, allVars, sessionVars,
         DidStart, SendMessage, SendWrites, SendReturns, Close,
         CloseFinishes, DidClose

(* The caller, the writer and the read thread.                             *)
LEMMA ControlStep ==
    SInv /\ [SessionNext]_allVars => (UserInv /\ WriteInv /\ ReadInv)'
<1> SUFFICES ASSUME SInv, [SessionNext]_allVars
             PROVE  (UserInv /\ WriteInv /\ ReadInv)'
  OBVIOUS
<1>0. TypeOK /\ PhaseInv /\ SlotInv
  BY DEF SInv, IInv
<1> USE DEF SInv, UserInv, WriteInv, ReadInv, SessionTypeOK, UserSteps,
            PhaseInv, WriteTags, TagWrite, TagWritesDone
<1>1. CASE Start
  BY <1>0, <1>1 DEF Start, EnterConstructor, GrpcFresh
<1>2. CASE Spawn
  BY <1>0, <1>2 DEF Spawn, Constructed, callVars
<1>3. CASE DidStart \/ SendReturns
  BY <1>0, <1>3 DEF DidStart, SendReturns, vars, grpcVars, cliVars, readVars
<1>4. CASE SendMessage
  BY <1>0, <1>4 DEF SendMessage, MayCall, vars, grpcVars, cliVars, readVars
<1>5. CASE SendWrites
  BY <1>0, <1>5 DEF SendWrites, EnterWrite, grpcVars, readVars
<1>6. CASE Close
  BY <1>0, <1>6 DEF Close, MayCall, EnterWrite, grpcVars, readVars
<1>7. CASE Join
  BY <1>0, <1>7 DEF Join, vars, grpcVars, cliVars
<1>8. CASE CloseFinishes
  BY <1>0, <1>8 DEF CloseFinishes, EnterFinish, callVars, readVars
<1>9. CASE DidClose
  BY <1>0, <1>9 DEF DidClose, Finished, callVars, readVars
<1>10. CASE ReadBegins
  BY <1>0, <1>10 DEF ReadBegins, EnterRead, callVars
<1>11. CASE ReadGives
  BY <1>0, <1>11 DEF ReadGives, ReaderReturns, grpcVars
<1>12. CASE DidReceive \/ ReadLoopExits
  BY <1>0, <1>12 DEF DidReceive, ReadLoopExits, vars, grpcVars, cliVars
<1>13. CASE Inside /\ UNCHANGED sessionVars
  <2> USE <1>0, <1>13 DEF sessionVars, readVars
  <2>1. CASE WriterIssues
    <3>1. writer_tag = TagWritesDone <=> user = "closing"
      BY <2>1 DEF WriterIssues
    <3>2. half_closed' = (user = "closing")
      BY <2>1, <3>1, Zenon DEF WriterIssues
    <3> QED
      BY <2>1, <3>2 DEF WriterIssues
  <2>2. CASE WriterResets \/ WriterChecks \/ WriterRelocks \/ SpuriousWakeup
    BY <2>2 DEF WriterResets, WriterChecks, WriterRelocks, SpuriousWakeup,
                grpcVars
  <2>3. CASE ReaderTakes \/ ReaderTakesAgain
    BY <2>3 DEF ReaderTakes, ReaderTakesAgain, AfterNext, callVars
  <2>4. CASE ReaderNotifies \/ ReaderEnds
    BY <2>4 DEF ReaderNotifies, ReaderEnds, Signal, grpcVars
  <2>5. CASE ReaderDrains
    BY <2>5 DEF ReaderDrains, Signal, callVars
  <2>6. CASE LibraryNext
    BY <2>6 DEF LibraryNext, Library, GrpcNext, StartCompletes,
                WriteCompletes, ReadCompletes, FinishCompletes,
                ServerResponds, RpcEnds, cliVars
  <2> QED
    BY <2>1, <2>2, <2>3, <2>4, <2>5, <2>6 DEF Inside, WriterNext
<1>14. CASE UNCHANGED allVars
  BY <1>0, <1>14 DEF allVars, vars, grpcVars, cliVars, sessionVars, readVars
<1> QED
  BY <1>1, <1>2, <1>3, <1>4, <1>5, <1>6, <1>7, <1>8, <1>9, <1>10, <1>11,
     <1>12, <1>13, <1>14
     DEF SessionNext, UserReturns, ReadThreadNext

(* The status of the RPC.                                                  *)
LEMMA StatusStep == SInv /\ [SessionNext]_allVars => RpcInv'
<1> SUFFICES ASSUME SInv, [SessionNext]_allVars
             PROVE  RpcInv'
  OBVIOUS
<1>0. TypeOK /\ PhaseInv /\ EndInv /\ NextGetsItsOwn
  BY DEF SInv, IInv
<1> USE DEF SInv, RpcInv, UserInv, Ended, Statuses, InFlight, TypeOK,
            GrpcTypeOK, Tags, TagStart
<1>1. CASE Start
  BY <1>0, <1>1 DEF Start, EnterConstructor, GrpcFresh
<1>2. CASE Spawn
  BY <1>0, <1>2 DEF Spawn, Constructed, NextEvent, callVars, NextGetsItsOwn
<1>3. CASE DidClose
  BY <1>0, <1>3 DEF DidClose, Finished, NextEvent, callVars, PhaseInv, EndInv
<1>4. CASE LibraryNext /\ UNCHANGED sessionVars
  BY <1>0, <1>4 DEF LibraryNext, Library, GrpcNext, StartCompletes,
     WriteCompletes, ReadCompletes, FinishCompletes, ServerResponds, RpcEnds,
     Complete, cliVars, sessionVars, NextGetsItsOwn, WriteTags, TagWrite,
     TagWritesDone, TagRead, TagFinish
<1>5. ASSUME UNCHANGED <<rpc, outcome>>, op'[TagStart] = op[TagStart],
             phase' = phase \/ phase' = "finishing",
             user' = user \/ outcome = "none"
      PROVE  RpcInv'
  BY <1>0, <1>5
<1>6. CASE UserReturns \/ SendMessage \/ Close
  <2> USE <1>0, <1>5 DEF vars, grpcVars, cliVars
  <2>1. CASE DidStart \/ SendMessage \/ SendReturns \/ Join
    BY <2>1 DEF DidStart, SendMessage, MayCall, SendReturns, Join
  <2>2. CASE SendWrites \/ Close
    BY <2>2 DEF SendWrites, Close, MayCall, EnterWrite
  <2>3. CASE CloseFinishes
    BY <2>3 DEF CloseFinishes, EnterFinish, StartOp, callVars, TagFinish
  <2> QED
    BY <1>2, <1>3, <1>6, <2>1, <2>2, <2>3 DEF UserReturns
<1>7. CASE ReadThreadNext
  BY <1>0, <1>5, <1>7 DEF ReadThreadNext, ReadBegins, ReadGives, DidReceive,
     ReadLoopExits, EnterRead, ReaderReturns, StartOp, TagRead, vars,
     grpcVars, cliVars, callVars
<1>8. CASE Inside /\ UNCHANGED sessionVars
  <2> USE <1>0, <1>5, <1>8 DEF sessionVars
  <2>1. CASE WriterNext \/ SpuriousWakeup
    BY <2>1 DEF WriterNext, WriterIssues, WriterResets, WriterChecks,
                WriterRelocks, SpuriousWakeup, StartOp, grpcVars, WriteTags,
                TagWrite, TagWritesDone
  <2>2. CASE ReaderTakes \/ ReaderTakesAgain \/ ReaderDrains
    BY <2>2 DEF ReaderTakes, ReaderTakesAgain, ReaderDrains, NextEvent,
                callVars, NextGetsItsOwn, PhaseInv
  <2>3. CASE ReaderNotifies \/ ReaderEnds
    BY <2>3 DEF ReaderNotifies, ReaderEnds, grpcVars
  <2> QED
    BY <1>4, <2>1, <2>2, <2>3 DEF Inside
<1>9. CASE UNCHANGED allVars
  BY <1>5, <1>9 DEF allVars, vars, grpcVars, cliVars, sessionVars
<1> QED
  BY <1>1, <1>6, <1>7, <1>8, <1>9 DEF SessionNext

(* The responses.                                                          *)
LEMMA DeliverStep == SInv /\ [SessionNext]_allVars => DeliverInv'
<1> SUFFICES ASSUME SInv, [SessionNext]_allVars
             PROVE  DeliverInv'
  OBVIOUS
<1>0. SessionTypeOK /\ TypeOK /\ PhaseInv /\ SlotInv /\ EndInv
  BY DEF SInv, IInv
<1>t. received \in Nat /\ inbox \in Nat /\ responses \in Nat
  BY <1>0 DEF SessionTypeOK, TypeOK, GrpcTypeOK
<1>o. op \in [Tags -> {"idle", "pending", "ok", "failed"}]
  BY <1>0 DEF TypeOK, GrpcTypeOK
<1> USE DEF SInv, DeliverInv, InHand, AllDelivered
\* a step that leaves the responses where they are
<1>1. ASSUME UNCHANGED <<rpc, inbox, responses, received, outcome>>,
             UNCHANGED InHand,
             op'[TagRead] = "failed" => op[TagRead] = "failed",
             reader' \in {"ended", "drain", "done"} =>
                 reader \in {"ended", "drain", "done"} \/ op[TagRead] = "failed"
      PROVE  DeliverInv'
  BY <1>1
<1>2. CASE Start
  BY <1>0, <1>2 DEF Start, EnterConstructor, GrpcFresh, ReadInv, UserInv,
                    Tags, TagRead, TagStart
<1>3. CASE DidClose
  <2>1. op[TagRead] = "idle" /\ reader = "done" /\ read_thread = "none"
    BY <1>0, <1>3 DEF DidClose, Finished, PhaseInv, SlotInv, InFlight, ReadInv
  <2>2. op'[TagRead] = "idle"
    BY <1>3, <1>o, <2>1 DEF DidClose, Finished, NextEvent, Tags, TagRead
  <2> QED
    BY <1>3, <1>t, <2>1, <2>2 DEF DidClose, Finished, callVars, readVars
<1>4. CASE DidReceive
  <2>1. reader = "out" /\ op[TagRead] = "idle"
    BY <1>0, <1>4 DEF DidReceive, ReadInv, SlotInv, InFlight
  <2>2. outcome = "none"
    BY <1>0, <1>4 DEF DidReceive, ReadInv, RpcInv, UserInv
  <2> QED
    BY <1>4, <1>t, <2>1, <2>2 DEF DidReceive, vars, grpcVars, cliVars
<1>5. CASE Library(ReadCompletes) /\ UNCHANGED sessionVars
  <2>1. /\ reader # "message" /\ read_thread # "delivering"
        /\ op[TagRead] = "pending"
    BY <1>0, <1>5 DEF Library, ReadCompletes, Complete, SlotInv, InFlight,
                      ReadInv
  <2>2. CASE /\ inbox > 0 /\ inbox' = inbox - 1
             /\ op' = [op EXCEPT ![TagRead] = "ok"]
    BY <1>0, <1>5, <1>t, <1>o, <2>1, <2>2 DEF Library, ReadCompletes,
       sessionVars, readVars, cliVars, Tags, TagRead, SlotInv, InFlight
  <2>3. CASE /\ rpc = "error" \/ (rpc = "ok" /\ inbox = 0)
             /\ op' = [op EXCEPT ![TagRead] = "failed"]
             /\ UNCHANGED inbox
    BY <1>5, <1>t, <1>o, <2>1, <2>3 DEF Library, ReadCompletes,
       sessionVars, readVars, cliVars, Tags, TagRead
  <2> QED
    BY <1>5, <2>2, <2>3 DEF Library, ReadCompletes, Complete
<1>6. CASE Library(ServerResponds) /\ UNCHANGED sessionVars
  <2>1. outcome = "none" /\ rpc = "live"
    BY <1>6 DEF Library, ServerResponds, RpcInv, Ended, Statuses
  <2> QED
    BY <1>6, <1>t, <2>1 DEF Library, ServerResponds, sessionVars, readVars,
                            cliVars
<1>7. CASE Library(RpcEnds) /\ UNCHANGED sessionVars
  <2>1. op[TagRead] # "failed" /\ reader \notin {"ended", "drain", "done"}
    BY <1>0, <1>7 DEF Library, RpcEnds, EndInv, Ended, Statuses
  <2> QED
    BY <1>7, <1>t, <2>1 DEF Library, RpcEnds, sessionVars, readVars, cliVars
<1>8. CASE Library(StartCompletes) /\ UNCHANGED sessionVars
  <2>1. op'[TagRead] = op[TagRead] /\ rpc' # "ok"
    BY <1>8, <1>o DEF Library, StartCompletes, Complete, Tags, TagRead,
                      TagStart
  <2> QED
    BY <1>8, <1>t, <2>1 DEF Library, StartCompletes, sessionVars, readVars,
                            cliVars
<1>9. CASE Library(WriteCompletes \/ FinishCompletes) /\ UNCHANGED sessionVars
  <2>1. op'[TagRead] = op[TagRead]
    BY <1>9, <1>o DEF Library, WriteCompletes, FinishCompletes, Complete,
       Tags, TagRead, WriteTags, TagWrite, TagWritesDone, TagFinish
  <2> QED
    BY <1>1, <1>9, <2>1 DEF Library, WriteCompletes, FinishCompletes,
       sessionVars, readVars, cliVars
<1>10. CASE UserReturns \/ SendMessage \/ Close
  <2>1. CASE DidStart \/ SendMessage \/ SendReturns
    BY <1>1, <2>1 DEF DidStart, SendMessage, SendReturns, vars, grpcVars,
                      cliVars, readVars
  <2>2. CASE SendWrites \/ Close
    BY <1>1, <2>2 DEF SendWrites, Close, EnterWrite, grpcVars, readVars
  <2>3. CASE Join
    BY <1>1, <2>3 DEF Join, vars, grpcVars, cliVars
  <2>4. CASE CloseFinishes
    <3>1. op'[TagRead] = op[TagRead]
      BY <1>o, <2>4 DEF CloseFinishes, EnterFinish, StartOp, Tags, TagRead,
                        TagFinish
    <3> QED
      BY <1>1, <2>4, <3>1 DEF CloseFinishes, EnterFinish, callVars, readVars
  <2>5. CASE Spawn
    <3>1. op[TagRead] = "idle" /\ reader = "out" /\ read_thread = "none"
      BY <1>0, <2>5 DEF Spawn, UserInv, PhaseInv, SlotInv, InFlight, ReadInv
    <3>2. op'[TagRead] = "idle"
      BY <1>o, <2>5, <3>1 DEF Spawn, Constructed, NextEvent, Tags, TagRead
    <3> QED
      BY <1>1, <2>5, <3>1, <3>2 DEF Spawn, Constructed, callVars
  <2> QED
    BY <1>3, <1>10, <2>1, <2>2, <2>3, <2>4, <2>5 DEF UserReturns
<1>11. CASE ReadThreadNext
  <2>1. CASE ReadBegins
    <3>1. op[TagRead] = "idle" /\ op'[TagRead] = "pending"
      BY <1>0, <1>o, <2>1 DEF ReadBegins, EnterRead, StartOp, SlotInv,
         InFlight, ReadInv, Tags, TagRead
    <3> QED
      BY <1>1, <2>1, <3>1 DEF ReadBegins, EnterRead, callVars, ReadInv
  <2>2. CASE ReadGives
    BY <1>1, <2>2 DEF ReadGives, ReaderReturns, grpcVars
  <2>3. CASE ReadLoopExits
    BY <1>1, <2>3 DEF ReadLoopExits, vars, grpcVars, cliVars
  <2> QED
    BY <1>4, <1>11, <2>1, <2>2, <2>3 DEF ReadThreadNext
<1>12. CASE Inside /\ UNCHANGED sessionVars
  <2> USE <1>12 DEF sessionVars, readVars
  <2>1. CASE WriterIssues
    <3>1. op'[TagRead] = op[TagRead]
      BY <1>0, <1>o, <2>1 DEF WriterIssues, StartOp, TypeOK, WriteTags, Tags,
                              TagRead, TagWrite, TagWritesDone
    <3> QED
      BY <1>1, <2>1, <3>1 DEF WriterIssues
  <2>2. CASE WriterResets \/ WriterChecks \/ WriterRelocks \/ SpuriousWakeup
    BY <1>1, <2>2 DEF WriterResets, WriterChecks, WriterRelocks,
                      SpuriousWakeup, grpcVars
  <2>3. CASE ReaderTakes \/ ReaderTakesAgain
    <3>1. PICK t \in Tags : NextEvent(t) /\ AfterNext(t)
      BY <2>3 DEF ReaderTakes, ReaderTakesAgain
    <3>2. /\ read_thread # "delivering" /\ reader \in {"next", "nextagain"}
          /\ UNCHANGED callVars
      BY <2>3 DEF ReaderTakes, ReaderTakesAgain, ReadInv
    <3>3. CASE t # TagRead
      BY <1>1, <1>o, <3>1, <3>2, <3>3 DEF NextEvent, AfterNext, callVars, Tags,
                                          TagRead
    <3>4. CASE t = TagRead
      BY <1>1, <1>o, <3>1, <3>2, <3>4 DEF NextEvent, AfterNext, callVars, Tags,
                                          TagRead
    <3> QED
      BY <3>3, <3>4
  <2>4. CASE ReaderNotifies
    BY <1>1, <2>4 DEF ReaderNotifies, grpcVars
  <2>5. CASE ReaderEnds
    BY <1>1, <2>5 DEF ReaderEnds, grpcVars
  <2>6. CASE ReaderDrains
    <3>1. op[TagRead] = "idle" /\ reader = "drain"
      BY <1>0, <2>6 DEF ReaderDrains, SlotInv, InFlight
    <3>2. op'[TagRead] = "idle"
      BY <1>o, <2>6, <3>1 DEF ReaderDrains, NextEvent, Tags, TagRead
    <3> QED
      BY <1>1, <2>6, <3>1, <3>2 DEF ReaderDrains, callVars
  <2> QED
    BY <1>5, <1>6, <1>7, <1>8, <1>9, <2>1, <2>2, <2>3, <2>4, <2>5, <2>6
       DEF Inside, WriterNext, LibraryNext, GrpcNext, Library
<1>13. CASE UNCHANGED allVars
  BY <1>1, <1>13 DEF allVars, vars, grpcVars, cliVars, sessionVars, readVars
<1> QED
  BY <1>2, <1>10, <1>11, <1>12, <1>13 DEF SessionNext

LEMMA SessionStep == SInv /\ [SessionNext]_allVars => SInv'
  BY StepKeepsIInv, TypeStep, ControlStep, StatusStep, DeliverStep, MetaStep
     DEF SInv

LEMMA SessionInductive == SessionSpec => []SInv
  BY SessionStep, SessionInitHolds, PTL DEF SessionSpec

LEMMA SInvIsSafe == SInv => SafeToDestroy
<1> SUFFICES ASSUME SInv, user \in {"closed", "refused"}
             PROVE  /\ read_thread = "none"
                    /\ writer = "out"
                    /\ write_mu = "free"
                    /\ \A t \in Tags : ~InFlight(t)
  BY DEF SafeToDestroy
<1>1. phase \in {"none", "refused", "finished"}
  BY DEF SInv, UserInv
<1>2. writer = "out" /\ read_thread = "none"
  BY <1>1 DEF SInv, WriteInv, ReadInv
<1>3. write_mu = "free"
  BY <1>1, <1>2 DEF SInv, IInv, TypeOK, MutexInv, PhaseInv
<1>4. ASSUME NEW t \in Tags, InFlight(t)
      PROVE  FALSE
  BY <1>1, <1>2, <1>4 DEF SInv, IInv, NextGetsItsOwn, SlotInv, WriterBusy
<1> QED
  BY <1>2, <1>3, <1>4

-----------------------------------------------------------------------------
(* The theorems.                                                           *)

(* Session keeps the calling rules of CliCall, so that every theorem of    *)
(* CliCallProofs holds of the call inside a session.                       *)
THEOREM SessionHonoursCliCall == SessionSpec => HonoursCliCall
<1>1. SessionInit => Init
  BY DEF SessionInit
<1> QED
  BY <1>1, StepIsCliCall, SessionInductive, PTL
     DEF SessionSpec, HonoursCliCall, Spec

(* Every variable of the session keeps its type.                           *)
THEOREM SessionTypeCorrect == SessionSpec => []SessionTypeOK
<1>1. SInv => SessionTypeOK
  BY DEF SInv
<1> QED
  BY <1>1, SessionInductive, PTL

(* After close, or a refused start, nothing of the call is left: no        *)
(* thread, no lock, no operation in flight.                                *)
THEOREM SessionIsSafeToDestroy == SessionSpec => []SafeToDestroy
  BY SInvIsSafe, SessionInductive, PTL

(* The metadata of the server reaches the delegate with the first response *)
(* and never again.                                                        *)
THEOREM MetadataIsGivenOnce == SessionSpec => []MetadataOnce
<1>1. SInv => MetadataOnce
  BY DEF SInv, MetaInv
<1> QED
  BY <1>1, SessionInductive, PTL

(* A call that close reports as ok has had all its responses delivered.    *)
THEOREM ResponsesAreDelivered == SessionSpec => []AllDelivered
<1>1. SInv => AllDelivered
  BY DEF SInv, DeliverInv
<1> QED
  BY <1>1, SessionInductive, PTL

(* Session implements CallPromise for a caller that heeds the result of    *)
(* start.                                                                  *)
THEOREM SessionKeepsPromise ==
    ASSUME ChecksStart
    PROVE  SessionSpec => KeepsPromise
<1> USE DEF Promise!Next, Promise!promiseVars
<1>1. SessionInit => Promise!Init
  BY DEF SessionInit, Init, GrpcInit, Promise!Init
<1>2. SInv /\ [SessionNext]_allVars => [Promise!Next]_Promise!promiseVars
  <2> SUFFICES ASSUME SInv, [SessionNext]_allVars
               PROVE  [Promise!Next]_Promise!promiseVars
    OBVIOUS
  <2> USE DEF vars, grpcVars, cliVars, callVars, readVars, sessionVars
  <2>1. CASE Start
    BY <2>1 DEF Start, EnterConstructor, GrpcFresh, Promise!Start
  <2>2. CASE Spawn
    BY <2>2 DEF Spawn, Constructed, Promise!Started
  <2>3. CASE SendMessage
    BY <2>3 DEF SendMessage, MayCall, Promise!Send
  <2>4. CASE SendReturns
    BY <2>4 DEF SendReturns, Promise!Sent
  <2>5. CASE Close
    BY <2>5 DEF Close, MayCall, EnterWrite, Promise!Close
  <2>6. CASE DidClose
    <3>1. outcome' \in {"ok", "error"}
      BY <2>6 DEF DidClose, Finished, SInv, IInv, UserInv, PhaseInv, EndInv,
                  Ended, Statuses
    <3>2. AllDelivered'
      BY DeliverStep DEF DeliverInv
    <3> QED
      BY <2>6, <3>1, <3>2 DEF DidClose, Finished, AllDelivered,
                              Promise!Closed
  <2>7. CASE DidReceive
    <3>1. user \in {"spawned", "ready", "announced", "sending", "closing"}
      BY <2>7 DEF DidReceive, SInv, SessionTypeOK, UserSteps, UserInv, ReadInv
    <3>2. received + inbox + 1 = responses /\ inbox \in Nat /\ received \in Nat
      BY <2>7 DEF DidReceive, SInv, IInv, TypeOK, GrpcTypeOK, SessionTypeOK,
                  DeliverInv, InHand
    <3>3. received < responses
      BY <3>2
    <3> QED
      BY <2>7, <3>1, <3>3 DEF DidReceive, Promise!Receive
  <2>8. CASE Library(ServerResponds) /\ UNCHANGED sessionVars
    <3>1. rpc = "live"
      BY <2>8 DEF Library, ServerResponds
    <3>2. phase \in {"starting", "open"}
      BY <3>1 DEF SInv, IInv, TypeOK, Phases, RpcInv, PhaseInv, EndInv, Ended,
                  Statuses
    <3>3. user \in {"starting", "spawned", "ready", "announced", "sending",
                    "closing", "joined"}
      BY <3>2 DEF SInv, SessionTypeOK, UserSteps, UserInv
    <3> QED
      BY <2>8, <3>3 DEF Library, ServerResponds, Promise!Respond
  <2>9. CASE UNCHANGED <<responses, sent, received, outcome, user>>
    BY <2>9
  <2>10. CASE DidStart \/ SendWrites \/ Join \/ CloseFinishes
    BY <2>10 DEF DidStart, SendWrites, EnterWrite, Join, CloseFinishes,
                 EnterFinish
  <2>11. CASE ReadBegins \/ ReadGives \/ ReadLoopExits
    BY <2>9, <2>11 DEF ReadBegins, EnterRead, ReadGives, ReaderReturns,
                       ReadLoopExits
  <2>12. CASE Inside /\ UNCHANGED sessionVars
    BY <2>8, <2>9, <2>12 DEF Inside, WriterNext, WriterIssues, WriterResets,
       WriterChecks, WriterRelocks, SpuriousWakeup, ReaderTakes,
       ReaderNotifies, ReaderTakesAgain, ReaderEnds, ReaderDrains,
       LibraryNext, GrpcNext, Library, StartCompletes, WriteCompletes,
       ReadCompletes, FinishCompletes, RpcEnds
  <2>13. CASE UNCHANGED allVars
    BY <2>9, <2>13 DEF allVars
  <2> QED
    BY <2>1, <2>2, <2>3, <2>4, <2>5, <2>6, <2>7, <2>10, <2>11, <2>12, <2>13
       DEF SessionNext, UserReturns, ReadThreadNext
<1> QED
  BY <1>1, <1>2, SessionInductive, PTL
     DEF SessionSpec, KeepsPromise, Promise!Spec

-----------------------------------------------------------------------------
(* No deadlock.                                                            *)

(* What is under way has been asked for: the constructor and Finish wait   *)
(* for an operation that was started, an open call has reached the peer    *)
(* and its read thread was spawned.                                        *)
UnderWay ==
    /\ phase = "starting" => InFlight(TagStart)
    /\ phase = "finishing" => InFlight(TagFinish)
    /\ op[TagStart] = "ok" \/ phase = "open" => rpc # "idle"
    /\ user \in {"spawned", "ready", "announced", "sending", "closing"} =>
           phase = "refused" \/ read_thread # "none"

(* Each message that session_did_send announced is written once.           *)
WritesInv ==
    /\ sent <= MaxWrites
    /\ user = "starting" => writes = 0 /\ sent = 0
    /\ user \in {"refused", "spawned", "ready"} => writes = sent
    /\ user = "announced" => writes + 1 = sent
    /\ user = "sending" =>
           IF writer = "locking" THEN writes + 1 = sent ELSE writes = sent

LEMMA UnderWayInit == SessionInit => UnderWay /\ WritesInv
BY CliCallAssumption DEF SessionInit, Init, GrpcInit, UnderWay, WritesInv,
   Tags, TagStart

LEMMA UnderWayStep == SInv /\ UnderWay /\ [SessionNext]_allVars => UnderWay'
<1> SUFFICES ASSUME SInv, UnderWay, [SessionNext]_allVars
             PROVE  UnderWay'
  OBVIOUS
<1>0. TypeOK /\ PhaseInv /\ NextGetsItsOwn /\ UserInv /\ ReadInv
  BY DEF SInv, IInv
<1> USE DEF UnderWay, InFlight, TypeOK, GrpcTypeOK, Tags, TagStart, TagFinish
<1>1. CASE Start
  BY <1>0, <1>1 DEF Start, EnterConstructor, GrpcFresh
<1>2. CASE Spawn
  BY <1>0, <1>2 DEF Spawn, Constructed, NextEvent, callVars, NextGetsItsOwn
<1>3. CASE DidClose
  BY <1>0, <1>3 DEF DidClose, Finished, NextEvent, callVars, NextGetsItsOwn
<1>4. CASE CloseFinishes
  BY <1>0, <1>4 DEF CloseFinishes, EnterFinish, StartOp, callVars
<1>5. CASE Join
  BY <1>0, <1>5 DEF Join, vars, grpcVars, cliVars
<1>6. CASE LibraryNext /\ UNCHANGED sessionVars
  BY <1>0, <1>6 DEF LibraryNext, Library, GrpcNext, StartCompletes,
     WriteCompletes, ReadCompletes, FinishCompletes, ServerResponds, RpcEnds,
     Complete, cliVars, sessionVars, readVars, WriteTags, TagWrite,
     TagWritesDone, TagRead, Statuses
<1>7. ASSUME UNCHANGED <<rpc, phase>>,
             op'[TagStart] = op[TagStart], op'[TagFinish] = op[TagFinish],
             read_thread' = read_thread \/ read_thread' # "none",
             user' = user \/ user \in {"spawned", "ready", "announced",
                                       "sending"} \/ phase = "refused"
      PROVE  UnderWay'
  BY <1>0, <1>7 DEF UserInv
<1>8. CASE DidStart \/ SendMessage \/ SendReturns \/ SendWrites \/ Close
  BY <1>0, <1>7, <1>8 DEF DidStart, SendMessage, SendReturns, SendWrites,
     Close, MayCall, EnterWrite, vars, grpcVars, cliVars, readVars, UserInv
<1>9. CASE ReadThreadNext
  BY <1>0, <1>7, <1>9 DEF ReadThreadNext, ReadBegins, ReadGives, DidReceive,
     ReadLoopExits, EnterRead, ReaderReturns, StartOp, TagRead, vars,
     grpcVars, cliVars, callVars
<1>10. CASE Inside /\ UNCHANGED sessionVars
  <2> USE <1>0, <1>7, <1>10 DEF sessionVars, readVars
  <2>1. CASE WriterNext \/ SpuriousWakeup
    BY <2>1 DEF WriterNext, WriterIssues, WriterResets, WriterChecks,
                WriterRelocks, SpuriousWakeup, StartOp, grpcVars, WriteTags,
                TagWrite, TagWritesDone
  <2>2. CASE ReaderTakes \/ ReaderTakesAgain \/ ReaderDrains
    BY <2>2 DEF ReaderTakes, ReaderTakesAgain, ReaderDrains, NextEvent,
                callVars, NextGetsItsOwn, PhaseInv
  <2>3. CASE ReaderNotifies \/ ReaderEnds
    BY <2>3 DEF ReaderNotifies, ReaderEnds, grpcVars
  <2> QED
    BY <1>6, <2>1, <2>2, <2>3 DEF Inside
<1>11. CASE UNCHANGED allVars
  BY <1>7, <1>11 DEF allVars, vars, grpcVars, cliVars, sessionVars, readVars
<1> QED
  BY <1>1, <1>2, <1>3, <1>4, <1>5, <1>8, <1>9, <1>10, <1>11
     DEF SessionNext, UserReturns

LEMMA WritesStep == SInv /\ WritesInv /\ [SessionNext]_allVars => WritesInv'
<1> SUFFICES ASSUME SInv, WritesInv, [SessionNext]_allVars
             PROVE  WritesInv'
  OBVIOUS
<1>0. sent \in Nat /\ writes \in Nat /\ MaxWrites \in Nat
  BY CliCallAssumption DEF SInv, IInv, TypeOK, SessionTypeOK
<1> USE DEF WritesInv
<1>1. CASE Start
  BY <1>0, <1>1 DEF Start, EnterConstructor
<1>2. CASE Spawn
  BY <1>0, <1>2 DEF Spawn, Constructed
<1>3. CASE SendMessage
  BY <1>0, <1>3 DEF SendMessage, MayCall, vars, cliVars
<1>4. CASE SendWrites
  <2>1. writes + 1 = sent
    BY <1>0, <1>4 DEF SendWrites
  <2> QED
    BY <1>0, <1>4, <2>1 DEF SendWrites, EnterWrite
<1>5. CASE SendReturns \/ DidStart
  BY <1>0, <1>5 DEF SendReturns, DidStart, vars, cliVars
<1>6. CASE Close \/ Join \/ CloseFinishes \/ DidClose
  BY <1>0, <1>6 DEF Close, Join, CloseFinishes, DidClose
<1>7. CASE ReadThreadNext
  BY <1>0, <1>7 DEF ReadThreadNext, ReadBegins, ReadGives, DidReceive,
     ReadLoopExits, EnterRead, ReaderReturns, vars, cliVars
<1>8. CASE WriterIssues /\ UNCHANGED sessionVars
  BY <1>0, <1>8 DEF WriterIssues, sessionVars, SInv, WriteInv
<1>9. CASE Inside /\ ~WriterIssues /\ UNCHANGED sessionVars
  BY <1>0, <1>9 DEF Inside, WriterNext, WriterResets, WriterChecks,
     WriterRelocks, SpuriousWakeup, ReaderTakes, ReaderNotifies, Signal,
     ReaderTakesAgain, ReaderEnds, ReaderDrains, LibraryNext, Library,
     cliVars, sessionVars
<1>10. CASE UNCHANGED allVars
  BY <1>10 DEF allVars, vars, cliVars, sessionVars
<1> QED
  BY <1>1, <1>2, <1>3, <1>4, <1>5, <1>6, <1>7, <1>8, <1>9, <1>10
     DEF SessionNext, UserReturns

LEMMA GoingOnHolds == SessionSpec => [](SInv /\ UnderWay /\ WritesInv)
  BY SessionInitHolds, UnderWayInit, SessionStep, UnderWayStep, WritesStep, PTL
     DEF SessionSpec

(* An operation that is in flight is pending or posted.                    *)
LEMMA PendingOrPosted ==
    ASSUME TypeOK, NEW t \in Tags, InFlight(t), ~Posted
    PROVE  op[t] = "pending"
BY DEF TypeOK, GrpcTypeOK, InFlight, Posted

(* The threads and the library cannot all be blocked but for the two ways  *)
(* of Stuck: by the mutex, the reader would hold it at the last cq_.Next;  *)
(* by write_done_, the write would have been met and not signalled; by the *)
(* queue, a read on an RPC that has ended would be neither met nor failed. *)
LEMMA NobodyWaitsForEver ==
    SInv /\ UnderWay /\ WritesInv => OnlyStuckCallsHang
<1> SUFFICES ASSUME SInv, UnderWay, WritesInv, InCall, Alive, ~GoesOn
             PROVE  Stuck
  BY DEF OnlyStuckCallsHang
<1>1. ~CallerGoesOn /\ ~ThreadsGoOn /\ ~LibraryGoesOn
  BY DEF GoesOn
<1>2. TypeOK /\ SessionTypeOK
  BY DEF SInv, IInv
<1>3. ASSUME WriteInFlight
      PROVE  Posted
  <2>1. PICK t \in WriteTags : InFlight(t)
    BY <1>3 DEF WriteInFlight
  <2>2. t \in Tags
    BY DEF WriteTags, Tags, TagWrite, TagWritesDone
  <2> QED
    BY <1>1, <1>2, <2>1, <2>2, PendingOrPosted DEF LibraryGoesOn
<1>4. CASE reader = "drain"
  BY <1>1, <1>3, <1>4 DEF ThreadsGoOn, Stuck
<1>5. CASE reader # "drain"
  <2>1. write_mu = "free" /\ writer \in {"out", "waiting"}
    BY <1>1, <1>2, <1>5 DEF ThreadsGoOn, TypeOK, WriterSteps, SInv, IInv,
                            MutexInv
  <2>2. reader \notin {"notify", "ended"}
    BY <1>1, <2>1 DEF ThreadsGoOn
  <2>3. CASE writer = "waiting"
    <3>1. ~write_done /\ writes > 0
      BY <2>3 DEF SInv, IInv, FlagInv, WriterBusy
    <3>2. Posted
      BY <1>3, <2>2, <3>1 DEF SInv, IInv, FlagInv
    <3>3. reader \in {"out", "message", "done"}
      BY <1>1, <1>2, <1>5, <2>2, <3>2 DEF ThreadsGoOn, TypeOK, ReaderSteps
    <3>4. user \in {"sending", "closing"}
      BY <2>3 DEF SInv, WriteInv
    <3>5. phase = "refused" \/ read_thread # "none"
      BY <3>4 DEF UnderWay
    <3>6. reader = "out" \/ reader = "message" => phase = "refused"
      BY <1>1, <1>2, <3>5 DEF ThreadsGoOn, SessionTypeOK, SInv, ReadInv
    <3> QED
      BY <2>3, <3>3, <3>6 DEF Stuck
  <2>4. CASE writer = "out"
    <3>1. user \notin {"spawned", "joined", "sending", "announced"}
      BY <1>1, <1>2, <2>4, CliCallAssumption
         DEF CallerGoesOn, WritesInv, TypeOK, SessionTypeOK
    <3>2. user # "starting"
      <4> SUFFICES ASSUME user = "starting"
                   PROVE  FALSE
        OBVIOUS
      <4>1. InFlight(TagStart) /\ ~Posted
        BY <1>1 DEF CallerGoesOn, UnderWay, SInv, UserInv
      <4> QED
        BY <1>1, <1>2, <4>1, PendingOrPosted DEF LibraryGoesOn, Tags, TagStart
    <3>3. user # "finishing"
      <4> SUFFICES ASSUME user = "finishing"
                   PROVE  FALSE
        OBVIOUS
      <4>1. InFlight(TagFinish) /\ ~Posted
        BY <1>1 DEF CallerGoesOn, UnderWay, SInv, UserInv
      <4>2. Ended
        BY DEF SInv, IInv, UserInv, PhaseInv, EndInv
      <4> QED
        BY <1>1, <1>2, <4>1, <4>2, PendingOrPosted
           DEF LibraryGoesOn, Tags, TagFinish
    <3>4. user = "closing"
      BY <1>2, <3>1, <3>2, <3>3 DEF InCall, SessionTypeOK, UserSteps
    <3>5. phase = "open" /\ half_closed
      BY <2>4, <3>4 DEF SInv, UserInv, WriteInv
    <3>6. read_thread = "reading"
      BY <1>1, <1>2, <2>4, <3>4, <3>5
         DEF UnderWay, CallerGoesOn, ThreadsGoOn, SessionTypeOK
    <3>7. reader \in {"next", "nextagain"} /\ ~Posted
      BY <1>1, <1>2, <1>5, <2>2, <3>6
         DEF ThreadsGoOn, TypeOK, ReaderSteps, SInv, ReadInv
    <3>8. op[TagRead] = "pending"
      BY <1>2, <3>7, PendingOrPosted
         DEF SInv, IInv, SlotInv, Tags, TagRead
    <3>9. Ended
      BY <1>1, <1>2, <3>5
         DEF LibraryGoesOn, UnderWay, Ended, Statuses, TypeOK, GrpcTypeOK
    <3> QED
      BY <1>1, <3>8, <3>9 DEF LibraryGoesOn
  <2> QED
    BY <2>1, <2>3, <2>4
<1> QED
  BY <1>4, <1>5

-----------------------------------------------------------------------------
(* No livelock.                                                            *)

(* The parts of Work are natural numbers.  The proofs below give each a    *)
(* name before they calculate with it.                                     *)
WorkParts ==
    /\ UserWork \in Nat
    /\ WriterWork \in Nat
    /\ ReadThreadWork \in Nat
    /\ ReaderWork \in Nat
    /\ QueueWork \in Nat
    /\ PeerWork \in Nat

LEMMA WorkIsNatural == TypeOK => WorkParts
<1> SUFFICES ASSUME TypeOK
             PROVE  WorkParts
  OBVIOUS
<1>1. QueueWork \in Nat
  BY DEF QueueWork, OpWork
<1>2. PeerWork \in Nat
  BY DEF PeerWork, TypeOK, GrpcTypeOK
<1> QED
  BY <1>1, <1>2 DEF WorkParts, UserWork, WriterWork, ReadThreadWork, ReaderWork

(* An operation changes the work of the queue by its own.                  *)
LEMMA QueueChanges ==
    ASSUME TypeOK, NEW t \in Tags, NEW x, op' = [op EXCEPT ![t] = x]
    PROVE  QueueWork' + OpWork(t) = QueueWork + OpWork(t)'
<1>1. \A u \in Tags : u # t => OpWork(u)' = OpWork(u)
  BY DEF OpWork, TypeOK, GrpcTypeOK
<1>2. \A u \in Tags : OpWork(u) \in Nat /\ OpWork(u)' \in Nat
  BY DEF OpWork
<1> QED
  BY <1>1, <1>2 DEF QueueWork, Tags, TagStart, TagWrite, TagRead,
                    TagWritesDone, TagFinish

LEMMA StartOpWork ==
    ASSUME TypeOK, NEW t \in Tags, StartOp(t)
    PROVE  \A q, q2 \in Nat :
               q = QueueWork /\ q2 = QueueWork' => q2 <= q + 5
<1>1. SUFFICES ASSUME NEW q \in Nat, q = QueueWork,
                      NEW q2 \in Nat, q2 = QueueWork',
                      NEW k \in Nat, k = OpWork(t),
                      NEW k2 \in Nat, k2 = OpWork(t)'
               PROVE  q2 <= q + 5
  BY DEF OpWork
<1>2. k2 = 5
  BY <1>1 DEF OpWork, StartOp, TypeOK, GrpcTypeOK
<1>3. q2 + k = q + k2
  <2>1. QueueWork' + OpWork(t) = QueueWork + OpWork(t)'
    BY QueueChanges DEF StartOp
  <2> QED
    BY <1>1, <2>1, Zenon
<1> QED
  BY <1>2, <1>3

LEMMA NextEventWork ==
    ASSUME TypeOK, NEW t \in Tags, NextEvent(t)
    PROVE  \A q, q2 \in Nat :
               q = QueueWork /\ q2 = QueueWork' =>
                   /\ q2 + 4 <= q
                   /\ t = TagRead /\ op[t] = "ok" => q2 + 9 <= q
<1>1. SUFFICES ASSUME NEW q \in Nat, q = QueueWork,
                      NEW q2 \in Nat, q2 = QueueWork',
                      NEW k \in Nat, k = OpWork(t),
                      NEW k2 \in Nat, k2 = OpWork(t)'
               PROVE  /\ q2 + 4 <= q
                      /\ t = TagRead /\ op[t] = "ok" => q2 + 9 <= q
  BY DEF OpWork
<1>2. k2 = 0
  BY <1>1 DEF OpWork, NextEvent, TypeOK, GrpcTypeOK
<1>3. q2 + k = q + k2
  <2>1. QueueWork' + OpWork(t) = QueueWork + OpWork(t)'
    BY QueueChanges DEF NextEvent
  <2> QED
    BY <1>1, <2>1, Zenon
<1>4. CASE t = TagRead /\ op[t] = "ok"
  <2>1. k = 9
    BY <1>1, <1>4 DEF OpWork
  <2>2. q2 + 9 <= q /\ q2 + 4 <= q
    BY <1>2, <1>3, <2>1
  <2> QED
    BY <2>2
<1>5. CASE ~(t = TagRead /\ op[t] = "ok")
  <2>1. k = 4
    BY <1>1, <1>5 DEF OpWork, NextEvent
  <2>2. q2 + 4 <= q
    BY <1>2, <1>3, <2>1
  <2> QED
    BY <1>5, <2>2
<1> QED
  BY <1>4, <1>5

LEMMA CompleteWork ==
    ASSUME TypeOK, NEW t \in Tags, NEW result \in {"ok", "failed"},
           Complete(t, result)
    PROVE  \A q, q2 \in Nat :
               q = QueueWork /\ q2 = QueueWork' =>
                   IF t = TagRead /\ result = "ok" THEN q2 <= q + 4
                                                  ELSE q2 + 1 <= q
<1>1. SUFFICES ASSUME NEW q \in Nat, q = QueueWork,
                      NEW q2 \in Nat, q2 = QueueWork',
                      NEW k \in Nat, k = OpWork(t),
                      NEW k2 \in Nat, k2 = OpWork(t)'
               PROVE  IF t = TagRead /\ result = "ok" THEN q2 <= q + 4
                                                     ELSE q2 + 1 <= q
  BY DEF OpWork
<1>2. k = 5
  BY <1>1 DEF OpWork, Complete
<1>3. q2 + k = q + k2
  <2>1. QueueWork' + OpWork(t) = QueueWork + OpWork(t)'
    BY QueueChanges DEF Complete
  <2> QED
    BY <1>1, <2>1, Zenon
<1>4. CASE t = TagRead /\ result = "ok"
  <2>1. k2 = 9
    BY <1>1, <1>4 DEF OpWork, Complete, TypeOK, GrpcTypeOK
  <2>2. q2 <= q + 4
    BY <1>2, <1>3, <2>1
  <2> QED
    BY <1>4, <2>2
<1>5. CASE ~(t = TagRead /\ result = "ok")
  <2>1. k2 = 4
    BY <1>1, <1>5 DEF OpWork, Complete, TypeOK, GrpcTypeOK
  <2>2. q2 + 1 <= q
    BY <1>2, <1>3, <2>1
  <2> QED
    BY <1>5, <2>2
<1> QED
  BY <1>4, <1>5

(* Every step but the given ones uses up more than it sets off.            *)
LEMMA SessionWork ==
    SInv /\ [SessionNext]_allVars =>
        Given \/ UNCHANGED allVars \/ (Work' < Work /\ Work' >= 0)
<1>1. SUFFICES ASSUME SInv, SessionNext, ~Given
               PROVE  Work' < Work /\ Work' >= 0
  OBVIOUS
<1>2. TypeOK /\ TypeOK' /\ SessionTypeOK
  BY <1>1, StepKeepsIInv DEF SInv, IInv
<1>3. WorkParts /\ WorkParts'
  <2>1. TypeOK' => WorkParts'
    BY WorkIsNatural, PTL
  <2> QED
    BY <1>2, <2>1, WorkIsNatural
<1>4. SUFFICES
        ASSUME NEW u \in Nat,  NEW u2 \in Nat, u = UserWork, u2 = UserWork',
               NEW w \in Nat,  NEW w2 \in Nat, w = WriterWork,
                                               w2 = WriterWork',
               NEW d \in Nat,  NEW d2 \in Nat, d = ReadThreadWork,
                                               d2 = ReadThreadWork',
               NEW r \in Nat,  NEW r2 \in Nat, r = ReaderWork,
                                               r2 = ReaderWork',
               NEW q \in Nat,  NEW q2 \in Nat, q = QueueWork, q2 = QueueWork',
               NEW p \in Nat,  NEW p2 \in Nat, p = PeerWork, p2 = PeerWork'
        PROVE  u2 + w2 + d2 + r2 + q2 + p2 < u + w + d + r + q + p
  <2>1. \A u, w, d, r, q, p \in Nat : u + w + d + r + q + p >= 0
    OBVIOUS
  <2> QED
    BY <1>3, <2>1 DEF WorkParts, Work
<1>5. /\ UNCHANGED user => u2 = u
      /\ UNCHANGED writer => w2 = w
      /\ UNCHANGED read_thread => d2 = d
      /\ UNCHANGED reader => r2 = r
      /\ UNCHANGED op => q2 = q
      /\ UNCHANGED <<inbox, rpc>> => p2 = p
  BY <1>4 DEF UserWork, WriterWork, ReadThreadWork, ReaderWork, QueueWork,
              OpWork, PeerWork, Ended
<1>10. CASE Spawn
  <2>1. PICK t \in Tags : NextEvent(t)
    BY <1>10 DEF Spawn, Constructed
  <2>2. q2 + 4 <= q
    BY <1>2, <1>4, <2>1, NextEventWork
  <2>3. u2 + 4 <= u
    BY <1>4, <1>10 DEF Spawn, UserWork
  <2>4. d2 <= d + 7
    BY <1>4, <1>10 DEF Spawn, ReadThreadWork
  <2>5. w2 = w /\ r2 = r /\ p2 = p
    BY <1>5, <1>10 DEF Spawn, Constructed, callVars
  <2> QED
    BY <2>2, <2>3, <2>4, <2>5
<1>11. CASE DidStart \/ SendReturns
  <2>1. u2 + 1 <= u
    BY <1>4, <1>11 DEF DidStart, SendReturns, UserWork
  <2>2. w2 = w /\ d2 = d /\ r2 = r /\ q2 = q /\ p2 = p
    BY <1>5, <1>11 DEF DidStart, SendReturns, vars, grpcVars, cliVars, readVars
  <2> QED
    BY <2>1, <2>2
<1>12. CASE SendWrites
  <2>1. u2 + 9 <= u /\ w2 <= w + 8
    BY <1>4, <1>12 DEF SendWrites, EnterWrite, UserWork, WriterWork
  <2>2. d2 = d /\ r2 = r /\ q2 = q /\ p2 = p
    BY <1>5, <1>12 DEF SendWrites, EnterWrite, grpcVars, readVars
  <2> QED
    BY <2>1, <2>2
<1>13. CASE Join
  <2>1. u2 + 1 <= u /\ d2 <= d
    BY <1>4, <1>13 DEF Join, UserWork, ReadThreadWork
  <2>2. w2 = w /\ r2 = r /\ q2 = q /\ p2 = p
    BY <1>5, <1>13 DEF Join, vars, grpcVars, cliVars
  <2> QED
    BY <2>1, <2>2
<1>14. CASE CloseFinishes
  <2>1. u2 + 6 <= u
    BY <1>4, <1>14 DEF CloseFinishes, UserWork
  <2>2. q2 <= q + 5
    BY <1>2, <1>4, <1>14, StartOpWork
       DEF CloseFinishes, EnterFinish, Tags, TagFinish
  <2>3. w2 = w /\ d2 = d /\ r2 = r /\ p2 = p
    BY <1>5, <1>14 DEF CloseFinishes, EnterFinish, callVars, readVars
  <2> QED
    BY <2>1, <2>2, <2>3
<1>15. CASE DidClose
  <2>1. PICK t \in Tags : NextEvent(t)
    BY <1>15 DEF DidClose, Finished
  <2>2. q2 + 4 <= q
    BY <1>2, <1>4, <2>1, NextEventWork
  <2>3. u2 <= u
    BY <1>4, <1>15 DEF DidClose, UserWork
  <2>4. w2 = w /\ d2 = d /\ r2 = r /\ p2 = p
    BY <1>5, <1>15 DEF DidClose, Finished, callVars, readVars
  <2> QED
    BY <2>2, <2>3, <2>4
<1>16. CASE ReadBegins
  <2>1. d2 + 6 <= d /\ r2 <= r
    BY <1>4, <1>16 DEF ReadBegins, EnterRead, ReadThreadWork, ReaderWork
  <2>2. q2 <= q + 5
    BY <1>2, <1>4, <1>16, StartOpWork DEF ReadBegins, EnterRead, Tags, TagRead
  <2>3. u2 = u /\ w2 = w /\ p2 = p
    BY <1>5, <1>16 DEF ReadBegins, EnterRead, callVars
  <2> QED
    BY <2>1, <2>2, <2>3
<1>17. CASE ReadGives
  <2>1. d2 <= d + 7 /\ r2 + 8 <= r
    BY <1>4, <1>17 DEF ReadGives, ReaderReturns, ReadThreadWork, ReaderWork
  <2>2. u2 = u /\ w2 = w /\ q2 = q /\ p2 = p
    BY <1>5, <1>17 DEF ReadGives, ReaderReturns, grpcVars
  <2> QED
    BY <2>1, <2>2
<1>18. CASE DidReceive \/ ReadLoopExits
  <2>1. d2 + 1 <= d
    BY <1>4, <1>18 DEF DidReceive, ReadLoopExits, ReadThreadWork
  <2>2. u2 = u /\ w2 = w /\ r2 = r /\ q2 = q /\ p2 = p
    BY <1>5, <1>18 DEF DidReceive, ReadLoopExits, vars, grpcVars, cliVars
  <2> QED
    BY <2>1, <2>2
<1>19. CASE WriterIssues /\ UNCHANGED sessionVars
  <2>1. w2 + 6 <= w
    BY <1>4, <1>19 DEF WriterIssues, WriterWork
  <2>2. writer_tag \in Tags
    BY <1>2 DEF TypeOK, WriteTags, Tags, TagWrite, TagWritesDone
  <2>3. q2 <= q + 5
    BY <1>2, <1>4, <1>19, <2>2, StartOpWork DEF WriterIssues
  <2>4. u2 = u /\ d2 = d /\ r2 = r /\ p2 = p
    BY <1>5, <1>19 DEF WriterIssues, sessionVars, readVars
  <2> QED
    BY <2>1, <2>3, <2>4
<1>20. CASE (WriterResets \/ WriterChecks \/ WriterRelocks)
               /\ UNCHANGED sessionVars
  <2>1. w2 + 1 <= w
    BY <1>4, <1>20 DEF WriterResets, WriterChecks, WriterRelocks, WriterWork
  <2>2. u2 = u /\ d2 = d /\ r2 = r /\ q2 = q /\ p2 = p
    BY <1>5, <1>20 DEF WriterResets, WriterChecks, WriterRelocks, grpcVars,
                       sessionVars, readVars
  <2> QED
    BY <2>1, <2>2
<1>21. CASE (ReaderTakes \/ ReaderTakesAgain) /\ UNCHANGED sessionVars
  <2>1. PICK t \in Tags : NextEvent(t) /\ AfterNext(t)
    BY <1>21 DEF ReaderTakes, ReaderTakesAgain
  <2>2. w2 = w /\ d2 = d /\ u2 = u /\ p2 = p
    BY <1>5, <1>21 DEF ReaderTakes, ReaderTakesAgain, callVars, sessionVars,
                       readVars
  <2>3. CASE t = TagRead /\ op[t] = "ok"
    <3>1. q2 + 9 <= q
      BY <1>2, <1>4, <2>1, <2>3, NextEventWork
    <3>2. r2 <= r + 8
      BY <1>4, <2>1, <2>3 DEF AfterNext, ReaderWork
    <3> QED
      BY <2>2, <3>1, <3>2
  <2>4. CASE ~(t = TagRead /\ op[t] = "ok")
    <3>1. q2 + 4 <= q
      BY <1>2, <1>4, <2>1, NextEventWork
    <3>2. r2 <= r + 3
      BY <1>4, <2>1, <2>4 DEF AfterNext, ReaderWork
    <3> QED
      BY <2>2, <3>1, <3>2
  <2> QED
    BY <2>3, <2>4
<1>22. CASE ReaderNotifies /\ UNCHANGED sessionVars
  <2>1. r2 + 3 <= r /\ w2 <= w + 2
    BY <1>4, <1>22 DEF ReaderNotifies, Signal, ReaderWork, WriterWork
  <2>2. u2 = u /\ d2 = d /\ q2 = q /\ p2 = p
    BY <1>5, <1>22 DEF ReaderNotifies, grpcVars, sessionVars, readVars
  <2> QED
    BY <2>1, <2>2
<1>23. CASE ReaderEnds /\ UNCHANGED sessionVars
  <2>1. r2 + 1 <= r
    BY <1>4, <1>23 DEF ReaderEnds, ReaderWork
  <2>2. u2 = u /\ w2 = w /\ d2 = d /\ q2 = q /\ p2 = p
    BY <1>5, <1>23 DEF ReaderEnds, grpcVars, sessionVars, readVars
  <2> QED
    BY <2>1, <2>2
<1>24. CASE ReaderDrains /\ UNCHANGED sessionVars
  <2>1. PICK t \in Tags : NextEvent(t)
    BY <1>24 DEF ReaderDrains
  <2>2. q2 + 4 <= q
    BY <1>2, <1>4, <2>1, NextEventWork
  <2>3. r2 <= r /\ w2 <= w + 2
    BY <1>4, <1>24 DEF ReaderDrains, Signal, ReaderWork, WriterWork
  <2>4. u2 = u /\ d2 = d /\ p2 = p
    BY <1>5, <1>24 DEF ReaderDrains, callVars, sessionVars, readVars
  <2> QED
    BY <2>2, <2>3, <2>4
<1>25. CASE LibraryNext /\ UNCHANGED sessionVars
  <2>1. u2 = u /\ w2 = w /\ d2 = d /\ r2 = r
    BY <1>5, <1>25 DEF LibraryNext, Library, cliVars, sessionVars, readVars
  <2>2. CASE StartCompletes
    <3>1. q2 + 1 <= q
      <4>1. PICK result \in {"ok", "failed"} : Complete(TagStart, result)
        BY <2>2 DEF StartCompletes
      <4>2. TagStart \in Tags /\ TagStart # TagRead
        BY DEF Tags, TagStart, TagRead
      <4> QED
        BY <1>2, <1>4, <4>1, <4>2, CompleteWork
    <3>2. rpc = "idle"
      BY <1>1, <2>2 DEF StartCompletes, Complete, SInv, RpcInv, IInv,
         NextGetsItsOwn, InFlight, Tags, TagStart, TagRead, WriteTags,
         TagWrite, TagWritesDone, TagFinish
    <3>3. p2 <= p
      BY <1>2, <1>4, <2>2, <3>2
         DEF StartCompletes, PeerWork, Ended, Statuses, TypeOK, GrpcTypeOK
    <3> QED
      BY <2>1, <3>1, <3>3
  <2>3. CASE WriteCompletes \/ FinishCompletes
    <3>1. q2 + 1 <= q
      <4>1. PICK t \in WriteTags \cup {TagFinish}, result \in {"ok", "failed"} :
                Complete(t, result)
        BY <2>3 DEF WriteCompletes, FinishCompletes
      <4>2. t \in Tags /\ t # TagRead
        BY DEF Tags, WriteTags, TagWrite, TagWritesDone, TagFinish, TagRead
      <4> QED
        BY <1>2, <1>4, <4>1, <4>2, CompleteWork
    <3>2. p2 = p
      BY <1>5, <2>3 DEF WriteCompletes, FinishCompletes
    <3> QED
      BY <2>1, <3>1, <3>2
  <2>4. CASE ReadCompletes
    <3>1. CASE inbox > 0 /\ Complete(TagRead, "ok") /\ inbox' = inbox - 1
      <4>1. q2 <= q + 4
        BY <1>2, <1>4, <3>1, CompleteWork DEF Tags, TagRead
      <4>2. p2 + 5 <= p
        BY <1>2, <1>4, <2>4, <3>1
           DEF ReadCompletes, PeerWork, Ended, TypeOK, GrpcTypeOK
      <4> QED
        BY <2>1, <4>1, <4>2
    <3>2. CASE Complete(TagRead, "failed") /\ UNCHANGED inbox
      <4>1. TagRead \in Tags /\ "failed" \in {"ok", "failed"}
        BY DEF Tags, TagRead
      <4>2. q2 + 1 <= q
        BY <1>2, <1>4, <3>2, <4>1, CompleteWork
      <4>3. p2 = p
        BY <1>5, <2>4, <3>2 DEF ReadCompletes
      <4> QED
        BY <2>1, <4>2, <4>3
    <3> QED
      BY <2>4, <3>1, <3>2 DEF ReadCompletes
  <2>5. CASE RpcEnds
    <3>1. q2 = q
      BY <1>5, <2>5 DEF RpcEnds
    <3>2. p2 + 1 <= p
      BY <1>2, <1>4, <2>5
         DEF RpcEnds, PeerWork, Ended, Statuses, TypeOK, GrpcTypeOK
    <3> QED
      BY <2>1, <3>1, <3>2
  <2>6. ~ServerResponds
    BY <1>1, <1>25 DEF Given, In, Library, LibraryNext
  <2> QED
    BY <1>25, <2>2, <2>3, <2>4, <2>5, <2>6 DEF LibraryNext, Library, GrpcNext
<1>26. ~Start /\ ~SendMessage /\ ~Close
       /\ ~(SpuriousWakeup /\ UNCHANGED sessionVars)
  BY <1>1 DEF Given, In
<1> QED
  BY <1>1, <1>10, <1>11, <1>12, <1>13, <1>14, <1>15, <1>16, <1>17, <1>18,
     <1>19, <1>20, <1>21, <1>22, <1>23, <1>24, <1>25, <1>26
     DEF SessionNext, UserReturns, ReadThreadNext, Inside, WriterNext

-----------------------------------------------------------------------------
(* start, send_message and close never wait in a deadlock of the caller,   *)
(* the read thread, the mutex and the queue: while one of them is under    *)
(* way something goes on, or the call is one that Stuck tells.             *)
THEOREM SessionDoesNotDeadlock == SessionSpec => []OnlyStuckCallsHang
  BY NobodyWaitsForEver, GoingOnHolds, PTL

(* Nor do they turn for ever: every step of the session, of CliCall and of *)
(* the library uses up what the last call, response or wakeup gave them to *)
(* do.                                                                     *)
THEOREM SessionDoesNotLivelock == SessionSpec => WorkIsUsedUp
<1>1. SInv /\ [SessionNext]_allVars
          => [Given \/ (Work' < Work /\ Work' >= 0)]_allVars
  BY SessionWork
<1> QED
  BY <1>1, SessionInductive, PTL DEF SessionSpec, WorkIsUsedUp

(* With a server, a deadline and a network that leave the RPC open until   *)
(* the half-close, and a caller that heeds the result of start, nothing is *)
(* left of either: whenever a call is under way, it goes on.               *)
THEOREM UndisturbedSessionGoesOn ==
    ASSUME ~EarlyEnd, ChecksStart
    PROVE  SessionSpec => [](InCall => GoesOn)
<1>1. SInv /\ UnderWay /\ WritesInv /\ ~early /\ Alive /\ (Stuck => phase = "refused")
          => (InCall => GoesOn)
  <2> SUFFICES ASSUME SInv, UnderWay, WritesInv, ~early, Alive,
                      Stuck => phase = "refused", InCall, ~GoesOn
               PROVE  FALSE
    OBVIOUS
  <2>1. phase = "refused"
    BY NobodyWaitsForEver DEF OnlyStuckCallsHang
  <2>2. user = "refused"
    BY <2>1 DEF SInv, SessionTypeOK, UserSteps, UserInv
  <2> QED
    BY <2>2 DEF InCall
<1>2. SessionSpec => [](~early /\ Alive /\ (Stuck => phase = "refused"))
  BY SessionHonoursCliCall, UndisturbedCallsAreSafe, PTL DEF HonoursCliCall
<1> QED
  BY <1>1, <1>2, GoingOnHolds, PTL

=============================================================================
