---------------------------- MODULE CliCallProofs ----------------------------
(***************************************************************************)
(* Proofs about CliCall, for every value of its constants.  The inductive  *)
(* invariant IInv has one part per concern: where the threads can be in    *)
(* each phase, who holds the mutex, which operations can be in flight,     *)
(* what write_done_ says, and how the RPC can have ended.                  *)
(***************************************************************************)
EXTENDS CliCall, TLAPS

WriterBusy == writer \in {"issued", "check", "waiting", "woken"}

(* No thread is inside the call but between construction and Finish.       *)
PhaseInv ==
    /\ phase \in {"none", "starting", "refused"} => reader = "out"
    /\ phase \in {"none", "starting"} => writer = "out"
    /\ phase = "refused" /\ ChecksStart => writer = "out"
    /\ phase \in {"finishing", "finished"} => writer = "out" /\ reader = "done"

(* write_mu_ is held exactly around the critical sections.                 *)
MutexInv ==
    /\ write_mu = "writer" <=> writer \in {"issued", "check"}
    /\ write_mu = "reader" <=> reader = "drain"

(* One Read is in flight while the reader waits for it; the only write in  *)
(* flight is the one the writer waits for.                                 *)
SlotInv ==
    /\ InFlight(TagRead) <=> reader \in {"next", "notify", "nextagain"}
    /\ \A t \in WriteTags : InFlight(t) => t = writer_tag /\ WriterBusy
    /\ reader = "notify" => WriterBusy /\ ~WriteInFlight
    /\ op[TagFinish] # "failed"

(* What write_done_ tells: when it is up, the write of the writer has been *)
(* met; when it is down after a write, that write has not been signalled.  *)
FlagInv ==
    /\ WriterBusy => writes > 0
    /\ (writer \in {"check", "waiting", "woken"} /\ write_done) =>
           ~WriteInFlight /\ reader # "notify"
    /\ (writer = "waiting" \/ (reader = "drain" /\ Alive)) => ~write_done
    /\ (writes > 0 /\ (~write_done \/ writer = "issued") /\ Alive) =>
           WriteInFlight \/ reader = "notify"

(* An operation fails only on an RPC that is over, and an RPC that was     *)
(* open is over either early or after the half-close, which is the last    *)
(* write.                                                                  *)
EndInv ==
    /\ \A t \in WriteTags \cup {TagRead} : op[t] = "failed" => Ended
    /\ reader \in {"ended", "drain", "done"} => Ended
    /\ (Ended /\ ~early /\ ~half_closed) =>
           \/ phase = "starting" /\ op[TagStart] = "failed"
           \/ phase = "refused"
    /\ half_closed =>
           /\ writer_tag = TagWritesDone
           /\ writer # "locking"
           /\ writes > 0
    /\ (reader = "done" /\ ~early) => write_done /\ writer # "issued"
    /\ AbortsOnlyAfterEarlyEnd

IInv ==
    /\ TypeOK
    /\ NextGetsItsOwn
    /\ PhaseInv
    /\ MutexInv
    /\ SlotInv
    /\ FlagInv
    /\ EndInv

-----------------------------------------------------------------------------
LEMMA InitHolds == Init => IInv
<1> SUFFICES ASSUME Init
             PROVE  IInv
  OBVIOUS
<1> USE DEF Init, GrpcInit, InFlight, WriteInFlight
<1>1. op \in [Tags -> {"idle"}] /\ \A t \in Tags : ~InFlight(t)
  OBVIOUS
<1>2. WriteTags \subseteq Tags /\ {TagRead, TagFinish} \subseteq Tags
  BY DEF WriteTags, Tags, TagWrite, TagRead, TagWritesDone, TagFinish
<1>3. TypeOK
  BY <1>1 DEF TypeOK, GrpcTypeOK, Phases, WriterSteps, ReaderSteps, Aborts,
              WriteTags, Tags
<1>4. NextGetsItsOwn /\ PhaseInv /\ MutexInv
  BY <1>1 DEF NextGetsItsOwn, PhaseInv, MutexInv
<1>5. SlotInv /\ FlagInv
  BY <1>1, <1>2 DEF SlotInv, FlagInv, WriterBusy
<1>6. EndInv
  BY <1>1, <1>2 DEF EndInv, AbortsOnlyAfterEarlyEnd, Ended, Statuses
<1> QED
  BY <1>3, <1>4, <1>5, <1>6 DEF IInv

(* Every step of Next preserves the invariant.                             *)
LEMMA StepHolds == IInv /\ [Next]_vars => IInv'
<1> SUFFICES ASSUME IInv, [Next]_vars
             PROVE  IInv'
  OBVIOUS
<1> USE DEF IInv, TypeOK, GrpcTypeOK, NextGetsItsOwn, PhaseInv, MutexInv,
            SlotInv, FlagInv, EndInv, AbortsOnlyAfterEarlyEnd, InFlight,
            WriteInFlight, WriterBusy, Ended, Alive, Tags, WriteTags,
            Statuses, Phases, WriterSteps, ReaderSteps, Aborts, TagStart,
            TagWrite, TagRead, TagWritesDone, TagFinish
<1>1. CASE Construct
  <2>1. /\ op' \in [Tags -> {"idle", "pending", "ok", "failed"}]
        /\ \A t \in Tags : InFlight(t)' => t = TagStart /\ op'[t] = "pending"
        /\ rpc' = "idle" /\ ~half_closed' /\ ~early'
        /\ inbox' \in Nat /\ responses' \in Nat
        /\ half_closed' \in BOOLEAN /\ early' \in BOOLEAN
    BY <1>1 DEF Construct, MayConstruct, EnterConstructor, GrpcFresh
  <2>2. TypeOK'
    BY <1>1, <2>1 DEF Construct, MayConstruct, EnterConstructor
  <2>5. NextGetsItsOwn'
    BY <1>1, <2>1 DEF Construct, MayConstruct, EnterConstructor
  <2>6. PhaseInv' /\ MutexInv'
    BY <1>1 DEF Construct, MayConstruct, EnterConstructor
  <2>3. SlotInv' /\ FlagInv'
    BY <1>1, <2>1 DEF Construct, MayConstruct, EnterConstructor, GrpcFresh
  <2>4. EndInv'
    BY <1>1, <2>1 DEF Construct, MayConstruct, EnterConstructor, GrpcFresh
  <2> QED
    BY <2>2, <2>3, <2>4, <2>5, <2>6
<1>2. CASE Constructed
  BY <1>2 DEF Constructed, NextEvent, callVars
<1>3. ASSUME NEW t \in WriteTags, BeginWrite(t)
      PROVE  IInv'
  BY <1>3 DEF BeginWrite, MayWrite, EnterWrite, grpcVars
<1>4. CASE WriterIssues
  <2>0. op' \in [Tags -> {"idle", "pending", "ok", "failed"}]
    BY <1>4 DEF WriterIssues, StartOp
  <2>1. TypeOK'
    BY <1>4, <2>0 DEF WriterIssues
  <2>5. NextGetsItsOwn'
    BY <1>4 DEF WriterIssues, StartOp
  <2>6. PhaseInv' /\ MutexInv'
    BY <1>4 DEF WriterIssues
  <2>2. SlotInv'
    BY <1>4 DEF WriterIssues, StartOp
  <2>3. FlagInv'
    BY <1>4 DEF WriterIssues, StartOp
  <2>4. EndInv'
    BY <1>4 DEF WriterIssues, StartOp
  <2> QED
    BY <2>1, <2>2, <2>3, <2>4, <2>5, <2>6
<1>5. CASE WriterResets
  <2>1. TypeOK' /\ NextGetsItsOwn' /\ PhaseInv' /\ MutexInv'
    BY <1>5 DEF WriterResets, grpcVars
  <2>2. SlotInv'
    BY <1>5 DEF WriterResets, grpcVars
  <2>3. FlagInv'
    BY <1>5 DEF WriterResets, grpcVars
  <2>4. EndInv'
    BY <1>5 DEF WriterResets, grpcVars
  <2> QED
    BY <2>1, <2>2, <2>3, <2>4
<1>6. CASE WriterChecks
  BY <1>6 DEF WriterChecks, grpcVars
<1>7. CASE WriterRelocks
  BY <1>7 DEF WriterRelocks, grpcVars
<1>8. CASE SpuriousWakeup
  BY <1>8 DEF SpuriousWakeup, grpcVars
<1>9. CASE BeginRead
  BY <1>9 DEF BeginRead, MayRead, EnterRead, StartOp, callVars
<1>10. CASE ReaderTakes
  BY <1>10 DEF ReaderTakes, NextEvent, AfterNext, callVars
<1>11. CASE ReaderNotifies
  BY <1>11 DEF ReaderNotifies, Signal, grpcVars
<1>12. CASE ReaderTakesAgain
  BY <1>12 DEF ReaderTakesAgain, NextEvent, AfterNext, callVars
<1>13. CASE ReaderReturns
  BY <1>13 DEF ReaderReturns, grpcVars
<1>14. CASE ReaderEnds
  BY <1>14 DEF ReaderEnds, grpcVars
<1>15. CASE ReaderDrains
  <2>1. TypeOK'
    BY <1>15 DEF ReaderDrains, NextEvent, Signal, callVars
  <2>5. NextGetsItsOwn'
    BY <1>15 DEF ReaderDrains, NextEvent, Signal, callVars
  <2>6. PhaseInv' /\ MutexInv'
    BY <1>15 DEF ReaderDrains, NextEvent, Signal, callVars
  <2>2. SlotInv'
    BY <1>15 DEF ReaderDrains, NextEvent, Signal, callVars
  <2>3. FlagInv'
    BY <1>15 DEF ReaderDrains, NextEvent, Signal, callVars
  <2>4. EndInv'
    BY <1>15 DEF ReaderDrains, NextEvent, Signal, callVars
  <2> QED
    BY <2>1, <2>2, <2>3, <2>4, <2>5, <2>6
<1>16. CASE BeginFinish
  BY <1>16 DEF BeginFinish, MayFinish, EnterFinish, StartOp, callVars
<1>17. CASE Finished
  BY <1>17 DEF Finished, NextEvent, callVars
<1>18. CASE Library(StartCompletes)
  BY <1>18 DEF Library, StartCompletes, Complete, cliVars
<1>19. CASE Library(WriteCompletes)
  BY <1>19 DEF Library, WriteCompletes, Complete, cliVars
<1>20. CASE Library(ReadCompletes)
  BY <1>20 DEF Library, ReadCompletes, Complete, cliVars
<1>21. CASE Library(FinishCompletes)
  BY <1>21 DEF Library, FinishCompletes, Complete, cliVars
<1>22. CASE Library(ServerResponds)
  BY <1>22 DEF Library, ServerResponds, cliVars
<1>23. CASE Library(RpcEnds)
  <2>1. TypeOK' /\ NextGetsItsOwn' /\ PhaseInv' /\ MutexInv'
    BY <1>23 DEF Library, RpcEnds, cliVars
  <2>2. SlotInv'
    BY <1>23 DEF Library, RpcEnds, cliVars
  <2>3. FlagInv'
    BY <1>23 DEF Library, RpcEnds, cliVars
  <2>4. EndInv'
    BY <1>23 DEF Library, RpcEnds, cliVars
  <2> QED
    BY <2>1, <2>2, <2>3, <2>4
<1>24. CASE UNCHANGED vars
  BY <1>24 DEF vars, grpcVars, cliVars
<1> QED
  BY <1>1, <1>2, <1>3, <1>4, <1>5, <1>6, <1>7, <1>8, <1>9, <1>10, <1>11,
     <1>12, <1>13, <1>14, <1>15, <1>16, <1>17, <1>18, <1>19, <1>20, <1>21,
     <1>22, <1>23, <1>24
     DEF Next, WriterNext, ReaderNext, LibraryNext, GrpcNext, Library

LEMMA Inductive == Spec => []IInv
  BY InitHolds, StepHolds, PTL DEF Spec

-----------------------------------------------------------------------------
(* The theorems: what CliCall guarantees for any number of calls, writes   *)
(* and responses, whoever ends the RPC and whenever.                       *)

(* Every variable keeps its type.                                          *)
THEOREM TypeCorrect == Spec => []TypeOK
<1>1. IInv => TypeOK
  BY DEF IInv
<1> QED
  BY <1>1, Inductive, PTL

(* WriteAndWait and WritesDoneAndWait return only when their operation has *)
(* been taken off the queue.                                               *)
THEOREM WritesComplete == Spec => []WriteReturnsCompleted
<1>1. IInv => WriteReturnsCompleted
  BY DEF IInv, SlotInv, WriterBusy, WriteReturnsCompleted, WriteInFlight
<1> QED
  BY <1>1, Inductive, PTL

(* No wakeup of a parked writer is lost.                                   *)
THEOREM NoLostWakeup == Spec => []ParkedWriterIsWoken
<1>1. IInv => ParkedWriterIsWoken
  BY DEF IInv, SlotInv, FlagInv, WriterBusy, ParkedWriterIsWoken, Alive,
         WriteInFlight
<1> QED
  BY <1>1, Inductive, PTL

(* Every cq_.Next of the code can meet only the completions it is meant    *)
(* for; Finish in particular meets its own.                                *)
THEOREM TagsAreSeparate == Spec => []NextGetsItsOwn
<1>1. IInv => NextGetsItsOwn
  BY DEF IInv
<1> QED
  BY <1>1, Inductive, PTL

(* No GPR_ASSERT fails on a call whose RPC outlives the half-close, and    *)
(* the one in Finish never does.                                           *)
THEOREM AssertionsHold == Spec => []AbortsOnlyAfterEarlyEnd
<1>1. IInv => AbortsOnlyAfterEarlyEnd
  BY DEF IInv, EndInv
<1> QED
  BY <1>1, Inductive, PTL

(* write_done_ misleads the read that ends the call only before the first  *)
(* write.                                                                  *)
THEOREM FlagIsAccurate == Spec => []BlindDrainOnlyBeforeFirstWrite
<1>1. IInv => BlindDrainOnlyBeforeFirstWrite
  <2> SUFFICES ASSUME IInv, reader = "drain", Alive, ~WriteInFlight
               PROVE  writes = 0
    BY DEF BlindDrainOnlyBeforeFirstWrite
  <2>1. ~write_done
    BY DEF IInv, FlagInv
  <2>2. ~(writes > 0)
    BY <2>1 DEF IInv, FlagInv
  <2> QED
    BY <2>2 DEF IInv, TypeOK
<1> QED
  BY <1>1, Inductive, PTL

(* No thread is left waiting for ever on a call that was started and whose *)
(* RPC outlives the half-close.                                            *)
THEOREM NobodyIsStuck == Spec => []StuckOnlyAfterEarlyEnd
<1>1. IInv => StuckOnlyAfterEarlyEnd
  <2> SUFFICES ASSUME IInv, ~early, phase # "refused"
               PROVE  ~Stuck
    BY DEF StuckOnlyAfterEarlyEnd
  <2>1. ~(writer = "waiting" /\ reader = "done")
    BY DEF IInv, EndInv, FlagInv
  <2>2. ASSUME reader = "drain"
        PROVE  WriteInFlight
    <3>1. Alive
      BY DEF IInv, EndInv, AbortsOnlyAfterEarlyEnd, Alive
    <3>2. Ended /\ phase # "starting"
      BY <2>2 DEF IInv, EndInv, PhaseInv
    <3>3. writes > 0
      BY <3>2 DEF IInv, EndInv
    <3> QED
      BY <2>2, <3>1, <3>3 DEF IInv, FlagInv
  <2> QED
    BY <2>1, <2>2 DEF Stuck
<1> QED
  BY <1>1, Inductive, PTL

(* The library never has two writes of one call.                           *)
THEOREM WritesAreSerial == Spec => OneWriteAtATime
<1>1. IInv /\ [Next]_vars => [writes' = writes + 1 => ~WriteInFlight]_vars
  <2> SUFFICES ASSUME IInv, Next, writes' = writes + 1
               PROVE  ~WriteInFlight
    OBVIOUS
  <2>1. writes \in Nat
    BY DEF IInv, TypeOK
  <2>2. CASE WriterIssues
    BY <2>2 DEF WriterIssues, IInv, SlotInv, WriterBusy, WriteInFlight
  <2>3. CASE Construct
    BY <2>1, <2>3 DEF Construct, EnterConstructor
  <2>4. CASE UNCHANGED writes
    BY <2>1, <2>4
  <2>5. WriterIssues \/ Construct \/ UNCHANGED writes
    BY DEF Next, WriterNext, ReaderNext, LibraryNext, Library, cliVars,
           Constructed, BeginWrite, EnterWrite, WriterResets, WriterChecks,
           WriterRelocks, SpuriousWakeup, BeginRead, EnterRead, ReaderTakes,
           ReaderNotifies, ReaderTakesAgain, ReaderReturns, ReaderEnds,
           ReaderDrains, BeginFinish, EnterFinish, Finished
  <2> QED
    BY <2>2, <2>3, <2>4, <2>5
<1> QED
  BY <1>1, Inductive, PTL DEF Spec, OneWriteAtATime

(* An RPC that only ends after the half-close never ends early.            *)
LEMMA NeverEarly ==
    ASSUME ~EarlyEnd
    PROVE  Spec => []~early
<1>1. Init => ~early
  BY DEF Init, GrpcInit
<1>2. ~early /\ [Next]_vars => ~early'
  <2> SUFFICES ASSUME ~early, [Next]_vars
               PROVE  ~early'
    OBVIOUS
  <2>1. CASE Construct
    BY <2>1 DEF Construct, EnterConstructor, GrpcFresh
  <2>2. CASE LibraryNext
    BY <2>2 DEF LibraryNext, Library, GrpcNext, StartCompletes,
       WriteCompletes, ReadCompletes, FinishCompletes, ServerResponds, RpcEnds
  <2>3. CASE UNCHANGED early
    BY <2>3
  <2> QED
    BY <2>1, <2>2, <2>3 DEF Next, Constructed, BeginWrite, EnterWrite,
       WriterNext, WriterIssues, WriterResets, WriterChecks, WriterRelocks,
       SpuriousWakeup, BeginRead, EnterRead, ReaderNext, ReaderTakes,
       ReaderNotifies, ReaderTakesAgain, ReaderReturns, ReaderEnds,
       ReaderDrains, BeginFinish, EnterFinish, Finished, callVars, grpcVars,
       vars
<1> QED
  BY <1>1, <1>2, PTL DEF Spec

(* Where the server, the deadline and the network leave the RPC open until *)
(* the half-close, no assertion of cli_call.cc fails, the one about what   *)
(* the ending read waits for (DrainedIsNoWrite) included, and no thread    *)
(* gets stuck on a call that was opened.                                   *)
THEOREM UndisturbedCallsAreSafe ==
    ASSUME ~EarlyEnd
    PROVE  Spec => [](~early /\ Alive /\ (Stuck => phase = "refused"))
<1>1. AbortsOnlyAfterEarlyEnd /\ StuckOnlyAfterEarlyEnd /\ ~early
          => ~early /\ Alive /\ (Stuck => phase = "refused")
  BY DEF AbortsOnlyAfterEarlyEnd, StuckOnlyAfterEarlyEnd, Alive
<1> QED
  BY <1>1, NeverEarly, AssertionsHold, NobodyIsStuck, PTL

THEOREM UndisturbedCallsDrainNoWrite ==
    ASSUME ~EarlyEnd
    PROVE  Spec => []DrainedIsNoWrite
<1>1. Alive => DrainedIsNoWrite
  BY DEF Alive, DrainedIsNoWrite
<1> QED
  BY <1>1, UndisturbedCallsAreSafe, PTL

=============================================================================
