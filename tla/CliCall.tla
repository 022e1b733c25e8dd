------------------------------- MODULE CliCall -------------------------------
(***************************************************************************)
(* grpc::testing::CliCall (src/src/vendor/cli_call.{h,cc}): one RPC with   *)
(* generic messages, driven by two threads.                                *)
(*                                                                         *)
(*   the writer  the caller's thread: constructs the call, runs            *)
(*               WriteAndWait, WritesDoneAndWait and Finish;               *)
(*   the reader  runs ReadAndMaybeNotifyWrite in a loop.                   *)
(*                                                                         *)
(* Only the reader takes completions off the queue while both run.  The    *)
(* writer starts its operation and parks on write_cv_ until the reader has *)
(* met the completion and set write_done_; write_mu_ guards the flag.      *)
(*                                                                         *)
(* The class leaves its calling rules to its callers.  Each entry point is *)
(* therefore two operators: Enter... is what the code does, May... is what *)
(* a caller has to ensure before it calls.                                 *)
(*                                                                         *)
(* The GPR_ASSERTs abort the process: aborted records which one, and no    *)
(* step follows.  cq_.Next returns false only after a Shutdown that the    *)
(* code never calls, so cq_result is always true.                          *)
(***************************************************************************)
EXTENDS GrpcCall

CONSTANTS
    MaxCalls,     \* bound: calls constructed in a behaviour
    MaxWrites,    \* bound: messages written on one call
    ChecksStart   \* does the caller refrain from using a call whose
                  \* finish_status is false?

ASSUME CliCallAssumption ==
    /\ MaxCalls \in Nat
    /\ MaxWrites \in Nat
    /\ ChecksStart \in BOOLEAN

VARIABLES
    phase,        \* progress of the call object: constructor, use, Finish
    write_mu,     \* "free", or the thread that holds write_mu_
    write_done,   \* write_done_
    writer,       \* where the writer is in Write[sDone]AndWait
    writer_tag,   \* the tag of its operation: TagWrite or TagWritesDone
    reader,       \* where the reader is in ReadAndMaybeNotifyWrite
    aborted,      \* "no", or the GPR_ASSERT that failed
    calls,        \* calls constructed
    writes        \* Writes and WritesDones started on this call

cliVars == <<phase, write_mu, write_done, writer, writer_tag, reader, aborted,
             calls, writes>>
vars == <<grpcVars, cliVars>>

(* An operation of CliCall changes the library's state only through op,    *)
(* except for WritesDone, which also half-closes the call.                 *)
callVars == <<rpc, inbox, responses, half_closed, early>>

Phases == {"none", "starting", "refused", "open", "finishing", "finished"}

\* check is the test of the while loop, waiting is inside gpr_cv_wait with
\* the mutex released, woken is inside it on the way to re-acquire the mutex
WriterSteps == {"out", "locking", "issued", "check", "waiting", "woken"}

\* next and nextagain block in cq_.Next, notify and ended are about to lock
\* write_mu_, drain is the cq_.Next under the mutex, message returns true
\* and done returns false
ReaderSteps == {"out", "next", "notify", "nextagain", "message", "ended",
                "drain", "done"}

Aborts == {"no", "write_failed", "write_after_end", "finish_failed"}

TypeOK ==
    /\ GrpcTypeOK
    /\ phase \in Phases
    /\ write_mu \in {"free", "writer", "reader"}
    /\ write_done \in BOOLEAN
    /\ writer \in WriterSteps
    /\ writer_tag \in WriteTags
    /\ reader \in ReaderSteps
    /\ aborted \in Aborts
    /\ calls \in Nat
    /\ writes \in Nat

Alive == aborted = "no"

\* gpr_cv_signal
Signal == writer' = IF writer = "waiting" THEN "woken" ELSE writer

\* the loop condition got_tag # tag(3), and what follows the loop
AfterNext(t) ==
    reader' = IF t # TagRead THEN "notify"
              ELSE IF op[t] = "ok" THEN "message" ELSE "ended"

-----------------------------------------------------------------------------
(* Faulty variants of the operations below.  No specification uses them:   *)
(* each stands for a bug that the properties of this module must notice    *)
(* when it replaces the operation it is named after.                       *)

\* write_done_ = false is missing
WriterResetsNothing ==
    /\ Alive
    /\ writer = "issued"
    /\ writer' = "check"
    /\ UNCHANGED <<grpcVars, phase, write_mu, write_done, writer_tag, reader,
                   aborted, calls, writes>>

\* the mutex is not released when the write is done
WriterChecksKeepsLock ==
    /\ Alive
    /\ writer = "check"
    /\ write_mu' = IF write_done THEN write_mu ELSE "free"
    /\ writer' = IF write_done THEN "out" ELSE "waiting"
    /\ UNCHANGED <<grpcVars, phase, write_done, writer_tag, reader, aborted,
                   calls, writes>>

\* the flag is set without the mutex
ReaderNotifiesUnlocked ==
    /\ Alive
    /\ reader = "notify"
    /\ write_done' = TRUE
    /\ Signal
    /\ reader' = "nextagain"
    /\ UNCHANGED <<grpcVars, phase, write_mu, writer_tag, aborted, calls,
                   writes>>

\* the flag is not set
ReaderNotifiesSignalOnly ==
    /\ Alive
    /\ reader = "notify"
    /\ write_mu = "free"
    /\ Signal
    /\ reader' = "nextagain"
    /\ UNCHANGED <<grpcVars, phase, write_mu, write_done, writer_tag, aborted,
                   calls, writes>>

\* return false without waiting for the pending write
ReaderEndsAtOnce ==
    /\ Alive
    /\ reader = "ended"
    /\ reader' = "done"
    /\ UNCHANGED <<grpcVars, phase, write_mu, write_done, writer, writer_tag,
                   aborted, calls, writes>>

\* GPR_ASSERT(got_tag == tag(2))
ReaderDrainsOnlyWrites ==
    /\ Alive
    /\ reader = "drain"
    /\ \E t \in Tags :
          /\ NextEvent(t)
          /\ aborted' = IF t # TagWrite THEN "write_after_end" ELSE aborted
    /\ write_done' = TRUE
    /\ Signal
    /\ write_mu' = "free"
    /\ reader' = "done"
    /\ UNCHANGED <<callVars, phase, writer_tag, calls, writes>>

\* Finish without joining the reader
MayFinishUnjoined == phase = "open" /\ writer = "out" /\ half_closed

-----------------------------------------------------------------------------
(* The constructor and the destructor of the call it replaces.             *)

\* write_done_ has no initialiser: the new object starts with either value
EnterConstructor ==
    /\ Alive
    /\ calls < MaxCalls
    /\ phase' = "starting"
    /\ GrpcFresh
    /\ write_mu' = "free"
    /\ write_done' \in BOOLEAN
    /\ reader' = "out"
    /\ calls' = calls + 1
    /\ writes' = 0
    /\ UNCHANGED <<writer, writer_tag, aborted>>

\* the call that is replaced, and destroyed, is not in use
MayConstruct == phase \in {"none", "refused", "finished"} /\ writer = "out"

Construct == MayConstruct /\ EnterConstructor

\* cq_.Next in the constructor, and finish_status = ok
Constructed ==
    /\ Alive
    /\ phase = "starting"
    /\ \E t \in Tags :
          /\ NextEvent(t)
          /\ phase' = IF op[t] = "ok" THEN "open" ELSE "refused"
    /\ UNCHANGED <<callVars, write_mu, write_done, writer, writer_tag, reader,
                   aborted, calls, writes>>

-----------------------------------------------------------------------------
(* WriteAndWait (t = TagWrite) and WritesDoneAndWait (t = TagWritesDone).  *)

EnterWrite(t) ==
    /\ Alive
    /\ t = TagWrite => writes < MaxWrites
    /\ writer' = "locking"
    /\ writer_tag' = t
    /\ UNCHANGED <<grpcVars, phase, write_mu, write_done, reader, aborted,
                   calls, writes>>

\* one write at a time, on a call that was started and not half-closed
MayWrite ==
    /\ phase = "open" \/ (phase = "refused" /\ ~ChecksStart)
    /\ writer = "out"
    /\ ~half_closed

BeginWrite(t) == MayWrite /\ EnterWrite(t)

\* gpr_mu_lock, then call_->Write / call_->WritesDone
WriterIssues ==
    /\ Alive
    /\ writer = "locking"
    /\ write_mu = "free"
    /\ write_mu' = "writer"
    /\ StartOp(writer_tag)
    /\ half_closed' = (writer_tag = TagWritesDone)
    /\ writer' = "issued"
    /\ writes' = writes + 1
    /\ UNCHANGED <<rpc, inbox, responses, early, phase, write_done,
                   writer_tag, reader, aborted, calls>>

WriterResets ==
    /\ Alive
    /\ writer = "issued"
    /\ write_done' = FALSE
    /\ writer' = "check"
    /\ UNCHANGED <<grpcVars, phase, write_mu, writer_tag, reader, aborted,
                   calls, writes>>

\* either way the mutex is released: by gpr_mu_unlock or by gpr_cv_wait
WriterChecks ==
    /\ Alive
    /\ writer = "check"
    /\ write_mu' = "free"
    /\ writer' = IF write_done THEN "out" ELSE "waiting"
    /\ UNCHANGED <<grpcVars, phase, write_done, writer_tag, reader, aborted,
                   calls, writes>>

\* gpr_cv_wait may return without a signal
SpuriousWakeup ==
    /\ Alive
    /\ writer = "waiting"
    /\ writer' = "woken"
    /\ UNCHANGED <<grpcVars, phase, write_mu, write_done, writer_tag, reader,
                   aborted, calls, writes>>

WriterRelocks ==
    /\ Alive
    /\ writer = "woken"
    /\ write_mu = "free"
    /\ write_mu' = "writer"
    /\ writer' = "check"
    /\ UNCHANGED <<grpcVars, phase, write_done, writer_tag, reader, aborted,
                   calls, writes>>

-----------------------------------------------------------------------------
(* ReadAndMaybeNotifyWrite.                                                *)

EnterRead ==
    /\ Alive
    /\ StartOp(TagRead)
    /\ reader' = "next"
    /\ UNCHANGED <<callVars, phase, write_mu, write_done, writer, writer_tag,
                   aborted, calls, writes>>

\* one reader, and not again after it returned false
MayRead == phase = "open" /\ reader = "out"

BeginRead == MayRead /\ EnterRead

\* the first cq_.Next: a write that failed is not asserted about here
ReaderTakes ==
    /\ Alive
    /\ reader = "next"
    /\ \E t \in Tags : NextEvent(t) /\ AfterNext(t)
    /\ UNCHANGED <<callVars, phase, write_mu, write_done, writer, writer_tag,
                   aborted, calls, writes>>

ReaderNotifies ==
    /\ Alive
    /\ reader = "notify"
    /\ write_mu = "free"
    /\ write_done' = TRUE
    /\ Signal
    /\ reader' = "nextagain"
    /\ UNCHANGED <<grpcVars, phase, write_mu, writer_tag, aborted, calls,
                   writes>>

\* cq_.Next in the loop, with GPR_ASSERT(ok) when the tag is tag(2)
ReaderTakesAgain ==
    /\ Alive
    /\ reader = "nextagain"
    /\ \E t \in Tags :
          /\ NextEvent(t)
          /\ AfterNext(t)
          /\ aborted' = IF t = TagWrite /\ op[t] = "failed"
                        THEN "write_failed" ELSE aborted
    /\ UNCHANGED <<callVars, phase, write_mu, write_done, writer, writer_tag,
                   calls, writes>>

\* return true with the message and, when asked for, the initial metadata
ReaderReturns ==
    /\ Alive
    /\ reader = "message"
    /\ reader' = "out"
    /\ UNCHANGED <<grpcVars, phase, write_mu, write_done, writer, writer_tag,
                   aborted, calls, writes>>

\* the Read failed: lock, and wait for the write that seems to be pending
ReaderEnds ==
    /\ Alive
    /\ reader = "ended"
    /\ write_mu = "free"
    /\ \/ write_done /\ reader' = "done" /\ UNCHANGED write_mu
       \/ ~write_done /\ reader' = "drain" /\ write_mu' = "reader"
    /\ UNCHANGED <<grpcVars, phase, write_done, writer, writer_tag, aborted,
                   calls, writes>>

\* cq_.Next with the mutex held, and GPR_ASSERT(got_tag != tag(2))
ReaderDrains ==
    /\ Alive
    /\ reader = "drain"
    /\ \E t \in Tags :
          /\ NextEvent(t)
          /\ \/ /\ t = TagWrite
                /\ aborted' = "write_after_end"
                /\ UNCHANGED <<write_mu, write_done, writer, reader>>
             \/ /\ t # TagWrite
                /\ write_done' = TRUE
                /\ Signal
                /\ write_mu' = "free"
                /\ reader' = "done"
                /\ UNCHANGED aborted
    /\ UNCHANGED <<callVars, phase, writer_tag, calls, writes>>

-----------------------------------------------------------------------------
(* Finish.                                                                 *)

EnterFinish ==
    /\ Alive
    /\ StartOp(TagFinish)
    /\ phase' = "finishing"
    /\ UNCHANGED <<callVars, write_mu, write_done, writer, writer_tag, reader,
                   aborted, calls, writes>>

\* Finish takes a completion itself, so it may run only when the write side
\* is closed and the reader takes no more
MayFinish == phase = "open" /\ writer = "out" /\ half_closed /\ reader = "done"

BeginFinish == MayFinish /\ EnterFinish

\* cq_.Next in Finish and its GPR_ASSERT(ok)
Finished ==
    /\ Alive
    /\ phase = "finishing"
    /\ \E t \in Tags :
          /\ NextEvent(t)
          /\ aborted' = IF op[t] = "ok" THEN aborted ELSE "finish_failed"
    /\ phase' = "finished"
    /\ UNCHANGED <<callVars, write_mu, write_done, writer, writer_tag, reader,
                   calls, writes>>

-----------------------------------------------------------------------------

Init ==
    /\ GrpcInit
    /\ phase = "none"
    /\ write_mu = "free"
    /\ write_done = FALSE
    /\ writer = "out"
    /\ writer_tag = TagWrite
    /\ reader = "out"
    /\ aborted = "no"
    /\ calls = 0
    /\ writes = 0

WriterNext == WriterIssues \/ WriterResets \/ WriterChecks \/ WriterRelocks

ReaderNext ==
    \/ ReaderTakes
    \/ ReaderNotifies
    \/ ReaderTakesAgain
    \/ ReaderReturns
    \/ ReaderEnds
    \/ ReaderDrains

Library(A) == Alive /\ A /\ UNCHANGED cliVars

LibraryNext == Library(GrpcNext)

Next ==
    \/ Construct
    \/ Constructed
    \/ \E t \in WriteTags : BeginWrite(t)
    \/ WriterNext
    \/ SpuriousWakeup
    \/ BeginRead
    \/ ReaderNext
    \/ BeginFinish
    \/ Finished
    \/ LibraryNext

Spec == Init /\ [][Next]_vars

(* Fairness.  A thread that can run does run, and the library completes    *)
(* what was started.  Neither the peer's answers nor the caller's next     *)
(* WriteAndWait is owed; the next ReadAndMaybeNotifyWrite is ("must be     *)
(* used with"), and the peer ends a call that was half-closed.  The reader *)
(* gets a mutex that keeps coming free: without that, a writer woken       *)
(* spuriously for ever could keep it out.                                  *)
Fairness ==
    /\ WF_vars(Constructed)
    /\ WF_vars(WriterNext)
    /\ WF_vars(BeginRead)
    /\ WF_vars(ReaderNext)
    /\ SF_vars(ReaderNotifies)
    /\ SF_vars(ReaderEnds)
    /\ WF_vars(Finished)
    /\ WF_vars(Library(StartCompletes))
    /\ WF_vars(Library(WriteCompletes))
    /\ WF_vars(Library(ReadCompletes))
    /\ WF_vars(Library(FinishCompletes))
    /\ WF_vars(Library(half_closed /\ RpcEnds))

FairSpec == Spec /\ Fairness

-----------------------------------------------------------------------------
(* Safety.                                                                 *)

(* WriteAndWait and WritesDoneAndWait return only when the operation they  *)
(* started has left the queue: no signal, spurious wakeup or leftover of   *)
(* an earlier write releases the writer too soon.                          *)
WriteReturnsCompleted == writer \in {"out", "locking"} => ~WriteInFlight

(* No lost wakeup: whenever the writer is parked, the flag is down and     *)
(* either its operation has still to be taken off the queue or the reader  *)
(* has taken it and is on its way to signal.                               *)
ParkedWriterIsWoken ==
    (writer = "waiting" /\ Alive) =>
        ~write_done /\ (InFlight(writer_tag) \/ reader = "notify")

(* Each cq_.Next can only be handed what it expects: the constructor sees  *)
(* the start of the call, the read loop reads and writes, Finish its own   *)
(* completion and never one left behind by the read or the write side.     *)
NextGetsItsOwn ==
    \A t \in Tags : InFlight(t) =>
        \/ phase = "starting" /\ t = TagStart
        \/ phase = "open" /\ t \in {TagWrite, TagRead, TagWritesDone}
        \/ phase = "refused" /\ ~ChecksStart /\ t \in WriteTags
        \/ phase = "finishing" /\ t = TagFinish

(* No GPR_ASSERT of the code fails on a call whose RPC outlives the        *)
(* client's half-close; the one about Finish never fails at all.           *)
AbortsOnlyAfterEarlyEnd ==
    aborted # "no" => early /\ aborted # "finish_failed"

(* A thread is stuck when it waits for a completion that is not coming or  *)
(* that nobody will take.  That needs a refused call or an RPC that the    *)
(* server, the deadline or the network ended before the half-close.        *)
Stuck ==
    \/ writer = "waiting" /\ (phase = "refused" \/ reader = "done")
    \/ reader = "drain" /\ ~WriteInFlight

StuckOnlyAfterEarlyEnd == Stuck => early \/ phase = "refused"

(* The read that ends the call waits for a write that is not there only on *)
(* the strength of the uninitialised write_done_: once a write was started *)
(* the flag is accurate.                                                   *)
BlindDrainOnlyBeforeFirstWrite ==
    (reader = "drain" /\ Alive /\ ~WriteInFlight) => writes = 0

(* An assertion of the code as it stands, cli_call.cc:188: what the ending *)
(* read waits for is not a Write.  It holds when the RPC outlives the      *)
(* half-close (AbortsOnlyAfterEarlyEnd) and is refuted otherwise.          *)
DrainedIsNoWrite == aborted # "write_after_end"

(* gRPC allows one outstanding write per call, and WriteAndWait hands the  *)
(* library its buffer: no write is started while another is in flight.     *)
OneWriteAtATime == [][writes' = writes + 1 => ~WriteInFlight]_vars

-----------------------------------------------------------------------------
(* Liveness, under FairSpec.                                               *)

(* A write on an open call returns, as the comment of WriteAndWait has it  *)
(* (cli_call.h:75).  It does not if the RPC ends before the half-close.    *)
WriteReturns ==
    (writer = "locking" /\ phase = "open") ~> (writer = "out" \/ ~Alive)

(* Once the RPC is over, the reader drains the responses and returns       *)
(* false, except where it aborts or waits blindly (see above).             *)
ReaderSeesTheEnd ==
    (phase = "open" /\ Ended) ~>
        \/ reader = "done"
        \/ ~Alive
        \/ reader = "drain" /\ ~WriteInFlight

=============================================================================
