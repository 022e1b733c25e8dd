------------------------------- MODULE Session -------------------------------
(***************************************************************************)
(* auxl::grpc::Session (src/src/session.{hpp,cpp}): the caller's thread,   *)
(* which runs start, send_message and close, and read_thread_, which runs  *)
(* read_response, around one CliCall at a time.                            *)
(*                                                                         *)
(* The session calls CliCall through Enter..., without the May... half:    *)
(* that it keeps CliCall's calling rules is the property HonoursCliCall.   *)
(* The counters of the callbacks stand for the delegate; a session without *)
(* one does the same and tells nobody.                                     *)
(***************************************************************************)
EXTENDS CliCall

VARIABLES
    user,         \* where the caller is in start, send_message and close
    read_thread,  \* where read_response is, "none" when not joinable
    server_meta,  \* does the server send initial metadata on this call?
    want_meta,    \* receive_initial_metadata
    incoming,     \* is incoming_meta_data non-empty?
    sent,         \* calls of session_did_send
    received,     \* calls of session_did_receive
    meta_given,   \* those that carried metadata
    outcome       \* the status session_did_close was called with, or "none"

readVars == <<read_thread, want_meta, incoming, received, meta_given>>
sessionVars == <<user, server_meta, sent, outcome, readVars>>
allVars == <<vars, sessionVars>>

UserSteps == {"closed", "starting", "refused", "spawned", "ready",
              "announced", "sending", "closing", "joined", "finishing"}

SessionTypeOK ==
    /\ TypeOK
    /\ user \in UserSteps
    /\ read_thread \in {"none", "calling", "reading", "delivering", "exited"}
    /\ server_meta \in BOOLEAN
    /\ want_meta \in BOOLEAN
    /\ incoming \in BOOLEAN
    /\ sent \in Nat
    /\ received \in Nat
    /\ meta_given \in Nat
    /\ outcome \in Statuses \cup {"none"}

\* may the caller call send_message or close?
MayCall == user = "ready" \/ (user = "refused" /\ ~ChecksStart)

-----------------------------------------------------------------------------
(* Faulty variants of the operations below, used by no specification: bugs *)
(* that the properties of this module must notice.                         *)

\* the thread is spawned before finish_status is looked at
SpawnUnchecked ==
    /\ user = "starting"
    /\ Constructed
    /\ user' = IF phase' = "open" THEN "spawned" ELSE "refused"
    /\ read_thread' = "calling"
    /\ want_meta' = TRUE
    /\ incoming' = FALSE
    /\ UNCHANGED <<server_meta, sent, received, meta_given, outcome>>

\* send_message does not wait for its write
SendReturnsEarly ==
    /\ Alive
    /\ user = "sending"
    /\ user' = "ready"
    /\ UNCHANGED <<vars, server_meta, sent, outcome, readVars>>

\* close joins the read thread without half-closing first
CloseJoinsOnly ==
    /\ Alive
    /\ MayCall
    /\ user' = "closing"
    /\ UNCHANGED <<vars, server_meta, sent, outcome, readVars>>

\* close detaches the thread instead of joining it
JoinDetaches ==
    /\ Alive
    /\ user = "closing"
    /\ writer = "out"
    /\ user' = "joined"
    /\ UNCHANGED <<vars, server_meta, sent, outcome, readVars>>

\* receive_initial_metadata stays true
DidReceiveAsksAgain ==
    /\ Alive
    /\ read_thread = "delivering"
    /\ received' = received + 1
    /\ meta_given' = IF incoming THEN meta_given + 1 ELSE meta_given
    /\ incoming' = FALSE
    /\ read_thread' = "calling"
    /\ UNCHANGED <<vars, user, server_meta, want_meta, sent, outcome>>

\* "do ... while": the delegate is called once more at the end
ReadLoopExitsLate ==
    /\ Alive
    /\ read_thread = "reading"
    /\ reader = "done"
    /\ read_thread' = "exited"
    /\ received' = received + 1
    /\ UNCHANGED <<vars, user, server_meta, want_meta, incoming, sent,
                   meta_given, outcome>>

\* the result of ReadAndMaybeNotifyWrite is not looked at
ReadLoopGoesOn ==
    /\ Alive
    /\ read_thread = "reading"
    /\ reader = "done"
    /\ read_thread' = "calling"
    /\ UNCHANGED <<vars, user, server_meta, want_meta, incoming, sent,
                   received, meta_given, outcome>>

-----------------------------------------------------------------------------
(* The caller.                                                             *)

\* start: the new CliCall
Start ==
    /\ user \in {"closed", "refused"}
    /\ EnterConstructor
    /\ user' = "starting"
    /\ server_meta' \in BOOLEAN
    /\ sent' = 0
    /\ received' = 0
    /\ meta_given' = 0
    /\ outcome' = "none"
    /\ UNCHANGED <<read_thread, want_meta, incoming>>

\* start: return false, or spawn read_thread_
Spawn ==
    /\ user = "starting"
    /\ Constructed
    /\ IF phase' = "open"
       THEN /\ user' = "spawned"
            /\ read_thread' = "calling"
            /\ want_meta' = TRUE
            /\ incoming' = FALSE
       ELSE /\ user' = "refused"
            /\ UNCHANGED <<read_thread, want_meta, incoming>>
    /\ UNCHANGED <<server_meta, sent, received, meta_given, outcome>>

\* start: session_did_start, and return true
DidStart ==
    /\ Alive
    /\ user = "spawned"
    /\ user' = "ready"
    /\ UNCHANGED <<vars, server_meta, sent, outcome, readVars>>

\* send_message: session_did_send comes before the write
SendMessage ==
    /\ Alive
    /\ MayCall
    /\ sent < MaxWrites
    /\ user' = "announced"
    /\ sent' = sent + 1
    /\ UNCHANGED <<vars, server_meta, outcome, readVars>>

SendWrites ==
    /\ user = "announced"
    /\ EnterWrite(TagWrite)
    /\ user' = "sending"
    /\ UNCHANGED <<server_meta, sent, outcome, readVars>>

SendReturns ==
    /\ Alive
    /\ user = "sending"
    /\ writer = "out"
    /\ user' = "ready"
    /\ UNCHANGED <<vars, server_meta, sent, outcome, readVars>>

\* close: WritesDoneAndWait
Close ==
    /\ MayCall
    /\ EnterWrite(TagWritesDone)
    /\ user' = "closing"
    /\ UNCHANGED <<server_meta, sent, outcome, readVars>>

\* close: read_thread_.join()
Join ==
    /\ Alive
    /\ user = "closing"
    /\ writer = "out"
    /\ read_thread = "exited"
    /\ user' = "joined"
    /\ read_thread' = "none"
    /\ UNCHANGED <<vars, server_meta, sent, outcome, want_meta, incoming,
                   received, meta_given>>

\* close: Finish
CloseFinishes ==
    /\ user = "joined"
    /\ EnterFinish
    /\ user' = "finishing"
    /\ UNCHANGED <<server_meta, sent, outcome, readVars>>

\* close: Finish returns the status of the RPC, and session_did_close
DidClose ==
    /\ user = "finishing"
    /\ Finished
    /\ user' = "closed"
    /\ outcome' = rpc
    /\ UNCHANGED <<server_meta, sent, readVars>>

-----------------------------------------------------------------------------
(* read_response.                                                          *)

ReadBegins ==
    /\ read_thread = "calling"
    /\ EnterRead
    /\ read_thread' = "reading"
    /\ UNCHANGED <<user, server_meta, want_meta, incoming, sent, received,
                   meta_given, outcome>>

\* the metadata is copied only when receive_initial_metadata asks for it
ReadGives ==
    /\ read_thread = "reading"
    /\ ReaderReturns
    /\ read_thread' = "delivering"
    /\ incoming' = IF want_meta THEN server_meta ELSE incoming
    /\ UNCHANGED <<user, server_meta, want_meta, sent, received, meta_given,
                   outcome>>

\* session_did_receive, and the end of the loop's body
DidReceive ==
    /\ Alive
    /\ read_thread = "delivering"
    /\ received' = received + 1
    /\ meta_given' = IF incoming THEN meta_given + 1 ELSE meta_given
    /\ want_meta' = (want_meta /\ ~incoming)
    /\ incoming' = FALSE
    /\ read_thread' = "calling"
    /\ UNCHANGED <<vars, user, server_meta, sent, outcome>>

\* ReadAndMaybeNotifyWrite returned false
ReadLoopExits ==
    /\ Alive
    /\ read_thread = "reading"
    /\ reader = "done"
    /\ read_thread' = "exited"
    /\ UNCHANGED <<vars, user, server_meta, want_meta, incoming, sent,
                   received, meta_given, outcome>>

-----------------------------------------------------------------------------

SessionInit ==
    /\ Init
    /\ user = "closed"
    /\ read_thread = "none"
    /\ server_meta = FALSE
    /\ want_meta = FALSE
    /\ incoming = FALSE
    /\ sent = 0
    /\ received = 0
    /\ meta_given = 0
    /\ outcome = "none"

\* the threads inside CliCall, and the library; ReaderReturns is ReadGives
Inside ==
    \/ WriterNext
    \/ SpuriousWakeup
    \/ ReaderTakes
    \/ ReaderNotifies
    \/ ReaderTakesAgain
    \/ ReaderEnds
    \/ ReaderDrains
    \/ LibraryNext

UserReturns ==
    \/ Spawn
    \/ DidStart
    \/ SendWrites
    \/ SendReturns
    \/ Join
    \/ CloseFinishes
    \/ DidClose

ReadThreadNext == ReadBegins \/ ReadGives \/ DidReceive \/ ReadLoopExits

SessionNext ==
    \/ Start
    \/ SendMessage
    \/ Close
    \/ UserReturns
    \/ ReadThreadNext
    \/ Inside /\ UNCHANGED sessionVars

SessionSpec == SessionInit /\ [][SessionNext]_allVars

(* Every function that was entered goes on; the caller owes no next call.  *)
(* The rest is CliCall's fairness.                                         *)
In(A) == A /\ UNCHANGED sessionVars

SessionFairness ==
    /\ WF_allVars(UserReturns)
    /\ WF_allVars(ReadThreadNext)
    /\ WF_allVars(In(WriterNext))
    /\ WF_allVars(In(ReaderTakes \/ ReaderTakesAgain \/ ReaderDrains))
    /\ SF_allVars(In(ReaderNotifies))
    /\ SF_allVars(In(ReaderEnds))
    /\ WF_allVars(In(Library(StartCompletes)))
    /\ WF_allVars(In(Library(WriteCompletes)))
    /\ WF_allVars(In(Library(ReadCompletes)))
    /\ WF_allVars(In(Library(FinishCompletes)))
    /\ WF_allVars(In(Library(half_closed /\ RpcEnds)))

SessionFairSpec == SessionSpec /\ SessionFairness

-----------------------------------------------------------------------------
(* Properties.                                                             *)

(* The session keeps the calling rules of CliCall: it never writes twice   *)
(* at a time or after the half-close, never reads after the end, replaces  *)
(* a call only when no thread is in it, and calls Finish only after the    *)
(* writes are done and the read thread is joined.                          *)
HonoursCliCall == Spec

(* The session keeps its promise to its user and the delegate (module      *)
(* CallPromise): responses one by one, only those the server sent, none    *)
(* before the call is open or after close reported its end.                *)
Promise == INSTANCE CallPromise WITH
    stage <- CASE user \in {"closed", "starting", "refused"} -> user
               [] user \in {"spawned", "ready", "announced", "sending"} ->
                      "active"
               [] user \in {"closing", "joined", "finishing"} -> "closing",
    sending <- user \in {"announced", "sending"}

KeepsPromise == Promise!Spec

(* Where the caller may destroy the session or start it again, after close *)
(* or a refused start, no thread is left, the mutex is free and nothing is *)
(* in flight that would complete into freed memory.                        *)
SafeToDestroy ==
    user \in {"closed", "refused"} =>
        /\ read_thread = "none"
        /\ writer = "out"
        /\ write_mu = "free"
        /\ \A t \in Tags : ~InFlight(t)

(* Whatever the thread that reads and the one that closes do, the metadata *)
(* of the server is handed over with the first response and never again.   *)
MetadataOnce ==
    meta_given = IF server_meta /\ received > 0 THEN 1 ELSE 0

(* When close reports "ok", every response the server sent has been given  *)
(* to the delegate, the last one included.                                 *)
AllDelivered == outcome = "ok" => received = responses

(* start, send_message and close return, unless an assertion failed or the *)
(* RPC ended before the half-close.                                        *)
InCall == user \notin {"closed", "refused", "ready"}

CallsReturn == InCall ~> (~InCall \/ ~Alive \/ early)

(* What can go on by itself, with no next call of the caller and no answer *)
(* of the server: the guards of the steps that SessionFairness is about.   *)
Posted == \E t \in Tags : op[t] \in {"ok", "failed"}

CallerGoesOn ==
    \/ user \in {"starting", "finishing"} /\ Posted
    \/ user \in {"spawned", "joined"}
    \/ user = "announced" /\ writes < MaxWrites
    \/ user = "sending" /\ writer = "out"
    \/ user = "closing" /\ writer = "out" /\ read_thread = "exited"

ThreadsGoOn ==
    \/ writer \in {"locking", "woken"} /\ write_mu = "free"
    \/ writer \in {"issued", "check"}
    \/ read_thread \in {"calling", "delivering"}
    \/ read_thread = "reading" /\ reader \in {"message", "done"}
    \/ reader \in {"next", "nextagain", "drain"} /\ Posted
    \/ reader \in {"notify", "ended"} /\ write_mu = "free"

LibraryGoesOn ==
    \/ \E t \in WriteTags \cup {TagStart} : op[t] = "pending"
    \/ op[TagRead] = "pending" /\ (inbox > 0 \/ Ended)
    \/ op[TagFinish] = "pending" /\ Ended
    \/ half_closed /\ rpc = "live"

GoesOn == Alive /\ (CallerGoesOn \/ ThreadsGoOn \/ LibraryGoesOn)

(* No deadlock of the caller, the read thread, the mutex and the queue:    *)
(* while start, send_message or close is under way something goes on, and  *)
(* the call that does not come back is one that Stuck tells.               *)
OnlyStuckCallsHang == (InCall /\ Alive) => (GoesOn \/ Stuck)

(* No livelock: what the session and the library have left to do, in steps *)
(* yet to be taken and weighed by what each of them sets off.              *)
UserWork ==
    CASE user = "starting"  -> 5
      [] user = "spawned"   -> 1
      [] user = "announced" -> 10
      [] user = "sending"   -> 1
      [] user = "closing"   -> 7
      [] user = "joined"    -> 6
      [] OTHER              -> 0

WriterWork ==
    CASE writer = "locking"             -> 8
      [] writer \in {"issued", "woken"} -> 2
      [] writer = "check"               -> 1
      [] OTHER                          -> 0

ReadThreadWork ==
    CASE read_thread = "calling"    -> 7
      [] read_thread = "reading"    -> 1
      [] read_thread = "delivering" -> 8
      [] OTHER                      -> 0

ReaderWork ==
    CASE reader = "notify"  -> 3
      [] reader = "message" -> 8
      [] reader = "ended"   -> 2
      [] reader = "drain"   -> 1
      [] OTHER              -> 0

OpWork(t) ==
    CASE op[t] = "idle"                 -> 0
      [] op[t] = "pending"              -> 5
      [] op[t] = "ok" /\ t = TagRead    -> 9
      [] OTHER                          -> 4

QueueWork == OpWork(TagStart) + OpWork(TagWrite) + OpWork(TagRead)
                 + OpWork(TagWritesDone) + OpWork(TagFinish)

PeerWork == 5 * inbox + (IF Ended THEN 0 ELSE 1)

Work == UserWork + WriterWork + ReadThreadWork + ReaderWork + QueueWork
            + PeerWork

(* What comes from outside: a next call of the caller, a response, a       *)
(* return of gpr_cv_wait without a signal.  Every other step uses work up, *)
(* so that none of the loops can turn for ever: not the read loop, not the *)
(* queue loop in ReadAndMaybeNotifyWrite, not the wait for write_done_.    *)
Given ==
    \/ Start
    \/ SendMessage
    \/ Close
    \/ In(Library(ServerResponds))
    \/ In(SpuriousWakeup)

WorkIsUsedUp == [][Given \/ (Work' < Work /\ Work' >= 0)]_allVars

=============================================================================
