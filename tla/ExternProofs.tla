----------------------------- MODULE ExternProofs -----------------------------
(***************************************************************************)
(* Proofs about ExternApi.  Every step of the C interface is a step of     *)
(* Session or leaves it alone, so what SessionProofs establishes holds     *)
(* here too; ExternInv adds what the interface keeps track of.             *)
(***************************************************************************)
EXTENDS ExternApi, SessionProofs

InCallNow == user \notin {"closed", "refused"}

(* While a client keeps the rules, what a call in progress points to is    *)
(* there.                                                                  *)
RulesInv ==
    broken = {} =>
        /\ fault = "none"
        /\ (InCallNow /\ tells) =>
               handle.descriptor # "gone" /\ handle.delegate # "gone"

(* Nothing has happened before create_session.                             *)
FreshInv ==
    handle.session = "none" =>
        user = "closed" /\ outcome = "none" /\ given = 0 /\ entries = 0
            /\ received = 0 /\ ~replying

(* What the client was handed is what the session received, or nothing.    *)
GivenInv ==
    /\ given = IF tells /\ typed THEN received ELSE 0
    /\ entries = IF tells /\ typed /\ meta_given = 1 THEN MetaEntries ELSE 0

(* A callback that calls back keeps the read thread out of CliCall, and so *)
(* the flag that its write waits for is not set again.                     *)
ReplyInv ==
    replying =>
        /\ read_thread = "delivering"
        /\ user \in {"announced", "sending", "closing"}
        /\ user # "announced" => writer # "out"
        /\ writer \in {"check", "waiting", "woken"} => ~write_done

ExternInv ==
    /\ SInv
    /\ handle \in [Objects -> {"none", "live", "null", "gone"}]
    /\ RulesInv
    /\ FreshInv
    /\ GivenInv
    /\ ReplyInv

LEMMA ExternInitHolds == ExternInit => ExternInv
<1> SUFFICES ASSUME ExternInit
             PROVE  ExternInv
  OBVIOUS
<1>1. SInv
  BY SessionInitHolds DEF ExternInit
<1> QED
  BY <1>1 DEF ExternInit, ExternInv, RulesInv, FreshInv, GivenInv, ReplyInv,
     InCallNow, SessionInit, Objects

(* The interface runs the session as it is.                                *)
LEMMA StepIsSession == [ExternNext]_apiVars => [SessionNext]_allVars
<1> SUFFICES ASSUME [ExternNext]_apiVars
             PROVE  [SessionNext]_allVars
  OBVIOUS
<1>1. CASE ClientNext
  BY <1>1 DEF ClientNext, CreateConnection, CreateDescriptor, CreateSession,
     CreateMessage, ReadDescriptor, FreeConnection, FreeDescriptor,
     DropDelegate, FreeMessage, FreeSession, SessionStart, OutOfOrder,
     SessionSend, SessionClose, SessionNext
<1>2. CASE Replies
  BY <1>2 DEF Replies, SessionNext
<1>3. CASE FunctionReturns
  BY <1>3 DEF FunctionReturns, SaysStarted, SendComesBack, SaysClosed,
     SessionNext, UserReturns
<1>4. CASE CallbackNext
  BY <1>4 DEF CallbackNext, GivesResponse, SessionNext, ReadThreadNext
<1>5. CASE Runs /\ In(Inside) /\ UNCHANGED externVars
  BY <1>5 DEF In, SessionNext
<1>6. CASE UNCHANGED apiVars
  BY <1>6 DEF apiVars
<1> QED
  BY <1>1, <1>2, <1>3, <1>4, <1>5, <1>6 DEF ExternNext

(* Outside of a call the read thread is not there.                         *)
LEMMA NoThread ==
    SInv /\ user \in {"closed", "refused"} => read_thread = "none"
  BY DEF SInv, UserInv, ReadInv

LEMMA HandleStep ==
    ExternInv /\ [ExternNext]_apiVars
        => handle' \in [Objects -> {"none", "live", "null", "gone"}]
<1> SUFFICES ASSUME ExternInv, [ExternNext]_apiVars
             PROVE  handle' \in [Objects -> {"none", "live", "null", "gone"}]
  OBVIOUS
<1> USE DEF ExternInv, externVars, Becomes, Objects
<1>1. CASE ClientNext
  BY <1>1 DEF ClientNext, CreateConnection, CreateDescriptor, CreateSession,
     CreateMessage, ReadDescriptor, FreeConnection, FreeDescriptor,
     DropDelegate, FreeMessage, FreeSession, SessionStart, OutOfOrder,
     SessionSend, SessionClose
<1>2. CASE ~ClientNext
  BY <1>2 DEF ExternNext, apiVars, Replies, FunctionReturns, SaysStarted,
     SendComesBack, SaysClosed, CallbackNext, GivesResponse
<1> QED
  BY <1>1, <1>2

(* What a client does outside of the session's functions: the call in      *)
(* progress, if any, keeps what it needs, or a rule is broken.             *)
LEMMA RulesStep == ExternInv /\ [ExternNext]_apiVars => RulesInv'
<1> SUFFICES ASSUME ExternInv, [ExternNext]_apiVars, broken' = {}
             PROVE  /\ fault' = "none"
                    /\ (InCallNow /\ tells)' =>
                           /\ handle'.descriptor # "gone"
                           /\ handle'.delegate # "gone"
  BY DEF RulesInv
<1> USE DEF Breaks, Faults, Gone, Tells, Becomes, Objects, InCallNow
<1>0. /\ handle \in [Objects -> {"none", "live", "null", "gone"}]
      /\ RulesInv
      /\ FreshInv
      /\ SInv
  BY DEF ExternInv
<1>1. broken = {}
  BY DEF ExternNext, ClientNext, CreateConnection, CreateDescriptor,
     CreateSession, CreateMessage, ReadDescriptor, FreeConnection,
     FreeDescriptor, DropDelegate, FreeMessage, FreeSession, SessionStart,
     OutOfOrder, SessionSend, SessionClose, Replies, FunctionReturns,
     SaysStarted, SendComesBack, SaysClosed, CallbackNext, GivesResponse,
     apiVars, externVars
<1>2. /\ fault = "none"
      /\ (InCallNow /\ tells) =>
             handle.descriptor # "gone" /\ handle.delegate # "gone"
  BY <1>0, <1>1 DEF RulesInv
<1>3. CASE CreateConnection \/ CreateMessage \/ ReadDescriptor
           \/ FreeConnection \/ FreeMessage \/ CreateDescriptor
  BY <1>3, <1>0, <1>1, <1>2 DEF CreateConnection, CreateMessage,
     ReadDescriptor, FreeConnection, FreeMessage, CreateDescriptor, allVars,
     sessionVars
<1>4. CASE CreateSession
  <2>1. user' = "closed"
    BY <1>4, <1>0 DEF CreateSession, FreshInv, allVars, sessionVars
  <2> QED
    BY <2>1, <1>4, <1>2 DEF CreateSession
<1>5. CASE FreeDescriptor \/ DropDelegate
  <2>1. ~(CallOpen /\ tells) \/ handle.delegate = "live"
    BY <1>5, <1>0, <1>1 DEF FreeDescriptor, DropDelegate
  <2>2. user \in {"closed", "refused", "ready"} /\ user' = user /\ tells' = tells
        /\ fault' = fault
    BY <1>5 DEF FreeDescriptor, DropDelegate, Idle, allVars, sessionVars
  <2>3. CASE FreeDescriptor
    BY <2>2, <2>3, <1>0, <1>1, <1>2 DEF FreeDescriptor, CallOpen
  <2>4. CASE DropDelegate
    BY <2>2, <2>4, <1>0, <1>1, <1>2 DEF DropDelegate, CallOpen
  <2> QED
    BY <1>5, <2>3, <2>4
<1>6. CASE FreeSession
  <2>1. ~CallOpen
    BY <1>6, <1>1 DEF FreeSession
  <2>2. read_thread = "none"
    BY <2>1, <1>6, <1>0, NoThread DEF FreeSession, Idle, CallOpen
  <2> QED
    BY <2>2, <1>6, <1>0, <1>2 DEF FreeSession, allVars, sessionVars
<1>7. CASE SessionStart
  BY <1>7, <1>1, <1>2 DEF SessionStart
<1>8. CASE OutOfOrder
  BY <1>8 DEF OutOfOrder
<1>9. CASE SessionSend
  BY <1>9, <1>0, <1>1, <1>2 DEF SessionSend, CallOpen
<1>10. CASE SessionClose
  BY <1>10, <1>2 DEF SessionClose, CallOpen, externVars
<1>11. CASE Replies
  BY <1>11 DEF Replies
<1>12. CASE FunctionReturns
  <2>1. InCallNow
    BY <1>12 DEF FunctionReturns, SaysStarted, SendComesBack, SaysClosed,
       DidStart, SendReturns, DidClose, Spawn, SendWrites, Join, CloseFinishes
  <2> QED
    BY <2>1, <1>12, <1>2 DEF FunctionReturns, SaysStarted, SendComesBack,
       SaysClosed, externVars
<1>13. CASE CallbackNext
  <2>1. InCallNow /\ user' = user
    BY <1>13, <1>0, NoThread DEF CallbackNext, GivesResponse, DidReceive,
       ReadBegins, ReadGives, ReadLoopExits
  <2> QED
    BY <2>1, <1>13, <1>2 DEF CallbackNext, GivesResponse, externVars
<1>14. CASE Runs /\ In(Inside) /\ UNCHANGED externVars
  BY <1>14, <1>2 DEF In, sessionVars, externVars
<1>15. CASE UNCHANGED apiVars
  BY <1>15, <1>2 DEF apiVars, allVars, sessionVars, externVars
<1> QED
  BY <1>3, <1>4, <1>5, <1>6, <1>7, <1>8, <1>9, <1>10, <1>11, <1>12, <1>13,
     <1>14, <1>15 DEF ExternNext, ClientNext

\* no step of a call comes before create_session
LEMMA FreshStep == ExternInv /\ [ExternNext]_apiVars => FreshInv'
<1> SUFFICES ASSUME ExternInv, [ExternNext]_apiVars, handle'.session = "none"
             PROVE  (user = "closed" /\ outcome = "none" /\ given = 0
                        /\ entries = 0 /\ received = 0 /\ ~replying)'
  BY DEF FreshInv
<1> USE DEF Becomes, Objects
<1>0. handle \in [Objects -> {"none", "live", "null", "gone"}] /\ FreshInv /\ SInv
  BY DEF ExternInv
<1>1. handle.session = "none"
  BY <1>0 DEF ExternNext, ClientNext, CreateConnection, CreateDescriptor,
     CreateSession, CreateMessage, ReadDescriptor, FreeConnection,
     FreeDescriptor, DropDelegate, FreeMessage, FreeSession, SessionStart,
     OutOfOrder, SessionSend, SessionClose, Replies, FunctionReturns,
     SaysStarted, SendComesBack, SaysClosed, CallbackNext, GivesResponse,
     apiVars, externVars
<1>2. user = "closed" /\ outcome = "none" /\ given = 0 /\ entries = 0
         /\ received = 0 /\ ~replying /\ read_thread = "none"
  BY <1>0, <1>1, NoThread DEF FreshInv
<1>3. CASE ClientNext
  <2>1. CASE SessionStart \/ SessionSend \/ SessionClose \/ CreateSession
    BY <1>0, <1>1, <1>2, <2>1 DEF SessionStart, SessionSend, SessionClose,
       CallOpen, CreateSession
  <2>2. CASE CreateConnection \/ CreateDescriptor \/ CreateMessage
             \/ ReadDescriptor \/ OutOfOrder
    <3>1. UNCHANGED <<allVars, given, entries, replying>>
      BY <2>2 DEF CreateConnection, CreateDescriptor, CreateMessage,
         ReadDescriptor, OutOfOrder
    <3> QED
      BY <1>2, <3>1 DEF allVars, sessionVars, readVars
  <2>3. CASE FreeConnection \/ FreeDescriptor \/ DropDelegate
             \/ FreeMessage \/ FreeSession
    BY <1>2, <2>3 DEF FreeConnection, FreeDescriptor, DropDelegate,
       FreeMessage, FreeSession, allVars, sessionVars, readVars
  <2> QED
    BY <1>3, <2>1, <2>2, <2>3 DEF ClientNext
<1>4. CASE Replies \/ FunctionReturns \/ CallbackNext
  BY <1>2, <1>4 DEF Replies, FunctionReturns, SaysStarted, SendComesBack,
     SaysClosed, CallbackNext, GivesResponse, DidStart, SendReturns, DidClose,
     Spawn, SendWrites, Join, CloseFinishes, DidReceive, ReadBegins, ReadGives,
     ReadLoopExits, CallOpen
<1>5. CASE (Runs /\ In(Inside) /\ UNCHANGED externVars) \/ UNCHANGED apiVars
  BY <1>2, <1>5 DEF In, apiVars, allVars, sessionVars, readVars, externVars
<1> QED
  BY <1>3, <1>4, <1>5 DEF ExternNext

(* The client is told of a response exactly when the session is.           *)
LEMMA GivenStep == ExternInv /\ [ExternNext]_apiVars => GivenInv'
<1> SUFFICES ASSUME ExternInv, [ExternNext]_apiVars
             PROVE  GivenInv'
  OBVIOUS
<1> USE DEF GivenInv
<1>0. /\ GivenInv
      /\ FreshInv
      /\ MetaInv
      /\ received \in Nat
      /\ server_meta \in BOOLEAN
      /\ meta_given = IF server_meta /\ received > 0 THEN 1 ELSE 0
      /\ MetaEntries \in Nat
  BY ExternApiAssumption DEF ExternInv, SInv, SessionTypeOK, MetaInv, MetadataOnce
<1>1. CASE CreateSession
  BY <1>0, <1>1 DEF CreateSession, FreshInv, allVars, sessionVars, readVars
<1>2. CASE SessionStart
  BY <1>2 DEF SessionStart, Start
<1>3. CASE GivesResponse
  <2>1. incoming => meta_given = 0
    BY <1>0, <1>3 DEF GivesResponse, DidReceive, MetaInv
  <2>2. Pushed(MetaEntries, MetaEntries) = MetaEntries
    BY <1>0 DEF Pushed
  <2>3. received' = received + 1
        /\ meta_given' = IF incoming THEN meta_given + 1 ELSE meta_given
    BY <1>3 DEF GivesResponse, DidReceive
  <2>4. CASE tells /\ typed
    BY <1>0, <1>3, <2>1, <2>2, <2>3, <2>4 DEF GivesResponse
  <2>5. CASE ~(tells /\ typed)
    BY <1>0, <1>3, <2>5 DEF GivesResponse
  <2> QED
    BY <2>4, <2>5
<1>4. CASE CreateConnection \/ CreateDescriptor \/ CreateMessage
           \/ ReadDescriptor \/ FreeConnection \/ FreeDescriptor
           \/ DropDelegate \/ FreeMessage \/ FreeSession \/ OutOfOrder
  <2>1. UNCHANGED <<tells, typed, given, entries, allVars>>
    BY <1>4 DEF CreateConnection, CreateDescriptor, CreateMessage,
       ReadDescriptor, FreeConnection, FreeDescriptor, DropDelegate,
       FreeMessage, FreeSession, OutOfOrder
  <2> QED
    BY <1>0, <2>1 DEF allVars, sessionVars, readVars
<1>5. CASE SessionSend \/ SessionClose \/ Replies
  <2>1. UNCHANGED <<tells, typed, given, entries, readVars>>
    BY <1>5 DEF SessionSend, SessionClose, Replies, SendMessage, Close,
       externVars
  <2> QED
    BY <1>0, <2>1 DEF readVars
<1>6. CASE FunctionReturns
  BY <1>0, <1>6 DEF FunctionReturns, SaysStarted, SendComesBack, SaysClosed,
     DidStart, SendReturns, DidClose, Spawn, SendWrites, Join, CloseFinishes,
     readVars, externVars
<1>7. CASE Runs /\ (ReadBegins \/ ReadGives \/ ReadLoopExits) /\ UNCHANGED externVars
  BY <1>0, <1>7 DEF ReadBegins, ReadGives, ReadLoopExits, externVars
<1>8. CASE (Runs /\ In(Inside) /\ UNCHANGED externVars) \/ UNCHANGED apiVars
  BY <1>0, <1>8 DEF In, apiVars, allVars, sessionVars, readVars, externVars
<1> QED
  BY <1>1, <1>2, <1>3, <1>4, <1>5, <1>6, <1>7, <1>8
     DEF ExternNext, ClientNext, CallbackNext

(* Only the reader sets write_done, and it is out until the callback is    *)
(* back.                                                                   *)
LEMMA ReplyStep == ExternInv /\ [ExternNext]_apiVars => ReplyInv'
<1> SUFFICES ASSUME ExternInv, [ExternNext]_apiVars, replying'
             PROVE  (/\ read_thread = "delivering"
                     /\ user \in {"announced", "sending", "closing"}
                     /\ user # "announced" => writer # "out"
                     /\ writer \in {"check", "waiting", "woken"} => ~write_done)'
  BY DEF ReplyInv
<1> USE DEF ReplyInv, Idle, CallOpen
<1>0. /\ ReplyInv
      /\ FreshInv
      /\ ReadInv
      /\ WriteInv
  BY DEF ExternInv, SInv
<1>1. CASE Replies
  <2>1. CASE SendMessage
    BY <1>0, <1>1, <2>1 DEF Replies, SendMessage, WriteInv, vars, cliVars, readVars
  <2>2. CASE Close
    BY <1>0, <1>1, <2>2 DEF Replies, Close, EnterWrite, readVars
  <2> QED
    BY <1>1, <2>1, <2>2 DEF Replies
<1>2. CASE ClientNext
  <2>1. replying' = replying /\ ~replying
    BY <1>2 DEF ClientNext, CreateConnection, CreateDescriptor, CreateSession,
       CreateMessage, ReadDescriptor, FreeConnection, FreeDescriptor,
       DropDelegate, FreeMessage, FreeSession, SessionStart, OutOfOrder,
       SessionSend, SessionClose, externVars
  <2> QED
    BY <2>1
<1>3. CASE ~Replies /\ ~ClientNext
  <2>1. /\ replying
        /\ read_thread = "delivering"
        /\ user \in {"announced", "sending", "closing"}
        /\ user # "announced" => writer # "out"
        /\ writer \in {"check", "waiting", "woken"} => ~write_done
        /\ reader = "out"
    BY <1>0, <1>3 DEF ExternNext, FunctionReturns, SaysStarted, SendComesBack,
       SaysClosed, CallbackNext, GivesResponse, apiVars, externVars, ReadInv
  <2>2. CASE FunctionReturns
    <3>1. SendWrites
      BY <2>1, <2>2 DEF FunctionReturns, SaysStarted, DidStart, SendComesBack,
         SaysClosed, Spawn, Join, CloseFinishes
    <3> QED
      BY <2>1, <3>1 DEF SendWrites, EnterWrite, readVars
  <2>3. CASE CallbackNext
    BY <2>1, <2>3 DEF CallbackNext, GivesResponse, ReadBegins, ReadGives,
       ReadLoopExits
  <2>4. CASE Runs /\ In(Inside) /\ UNCHANGED externVars
    <3>1. UNCHANGED <<user, read_thread>>
      BY <2>4 DEF In, sessionVars, readVars
    <3>2. CASE WriterNext
      BY <2>1, <3>1, <3>2 DEF WriterNext, WriterIssues, WriterResets,
         WriterChecks, WriterRelocks
    <3>3. CASE SpuriousWakeup
      BY <2>1, <3>1, <3>3 DEF SpuriousWakeup
    <3>4. CASE LibraryNext
      BY <2>1, <3>1, <3>4 DEF LibraryNext, Library, cliVars
    <3> QED
      BY <2>1, <2>4, <3>2, <3>3, <3>4 DEF In, Inside, ReaderTakes,
         ReaderNotifies, ReaderTakesAgain, ReaderEnds, ReaderDrains
  <2>5. CASE UNCHANGED apiVars
    BY <2>1, <2>5 DEF apiVars, allVars, vars, cliVars, sessionVars, readVars
  <2> QED
    BY <1>3, <2>2, <2>3, <2>4, <2>5 DEF ExternNext
<1> QED
  BY <1>1, <1>2, <1>3

LEMMA ExternStep == ExternInv /\ [ExternNext]_apiVars => ExternInv'
<1> SUFFICES ASSUME ExternInv, [ExternNext]_apiVars
             PROVE  ExternInv'
  OBVIOUS
<1>1. SInv'
  BY StepIsSession, SessionStep DEF ExternInv
<1> QED
  BY <1>1, HandleStep, RulesStep, FreshStep, GivenStep, ReplyStep DEF ExternInv

LEMMA ExternInductive == ExternSpec => []ExternInv
  BY ExternInitHolds, ExternStep, PTL DEF ExternSpec

-----------------------------------------------------------------------------
(* The C interface is a user of Session: what is proved of SessionSpec     *)
(* holds of it.                                                            *)
THEOREM ExternRunsSession == ExternSpec => SessionSpec
<1>1. ExternInit => SessionInit
  BY DEF ExternInit
<1> QED
  BY <1>1, StepIsSession, PTL DEF ExternSpec, SessionSpec

(* For every client, server and network, and however many calls: a client  *)
(* that keeps the rules reaches nothing that is gone.                      *)
THEOREM ClientRulesSuffice == ExternSpec => []RulesSuffice
<1>1. ExternInv => RulesSuffice
  BY DEF ExternInv, RulesInv, RulesSuffice
<1> QED
  BY <1>1, ExternInductive, PTL

(* A call that was closed with "ok" gave the client all that the server    *)
(* sent, or nothing when the output type is unknown.                       *)
THEOREM ClientIsGivenAll == ExternSpec => []ClientHasAll
<1>1. ExternInv => ClientHasAll
  <2> SUFFICES ASSUME ExternInv, outcome = "ok", tells, user = "closed"
               PROVE  /\ given = IF typed THEN responses ELSE 0
                      /\ entries = IF typed /\ server_meta /\ responses > 0
                                   THEN MetaEntries ELSE 0
    BY DEF ClientHasAll
  <2>1. received = responses
    BY DEF ExternInv, SInv, DeliverInv, AllDelivered
  <2>2. meta_given = IF server_meta /\ received > 0 THEN 1 ELSE 0
    BY DEF ExternInv, SInv, MetaInv, MetadataOnce
  <2> QED
    BY <2>1, <2>2 DEF ExternInv, GivenInv
<1> QED
  BY <1>1, ExternInductive, PTL

(* The read thread and its callbacks stay between start and close.         *)
THEOREM CallbacksComeInCalls == ExternSpec => NoLateCallback
<1>1. ExternInv /\ [ExternNext]_apiVars =>
          ((user \in {"closed", "refused"} /\ user' = user) =>
              UNCHANGED <<given, received, read_thread>>)
  <2> SUFFICES ASSUME ExternInv, [ExternNext]_apiVars,
                      user \in {"closed", "refused"}, user' = user
               PROVE  UNCHANGED <<given, received, read_thread>>
    OBVIOUS
  <2>1. read_thread = "none"
    BY NoThread DEF ExternInv
  <2>2. ~CallbackNext /\ ~FunctionReturns
    BY <2>1 DEF CallbackNext, GivesResponse, DidReceive, ReadBegins, ReadGives,
       ReadLoopExits, FunctionReturns, SaysStarted, SendComesBack, SaysClosed,
       DidStart, SendReturns, DidClose, Spawn, SendWrites, Join, CloseFinishes
  <2>3. ~Replies /\ ~SessionStart /\ ~SessionSend /\ ~SessionClose
    BY DEF Replies, SessionStart, Start, SessionSend, SessionClose, CallOpen
  <2>4. CASE ClientNext
    BY <2>3, <2>4 DEF ClientNext, CreateConnection, CreateDescriptor,
       CreateSession, CreateMessage, ReadDescriptor, FreeConnection,
       FreeDescriptor, DropDelegate, FreeMessage, FreeSession, OutOfOrder,
       allVars, sessionVars, readVars
  <2>5. CASE (Runs /\ In(Inside) /\ UNCHANGED externVars) \/ UNCHANGED apiVars
    BY <2>5 DEF In, apiVars, allVars, sessionVars, readVars, externVars
  <2> QED
    BY <2>2, <2>3, <2>4, <2>5 DEF ExternNext
<1> QED
  BY <1>1, ExternInductive, PTL DEF ExternSpec, NoLateCallback

(* A callback that calls session_send_message or session_close never gets  *)
(* back from it.                                                           *)
THEOREM RepliesPark == ExternSpec => ReplyParks
<1>1. ExternInv /\ [ExternNext]_apiVars => (replying => replying')
  <2> SUFFICES ASSUME ExternInv, [ExternNext]_apiVars, replying
               PROVE  replying'
    OBVIOUS
  <2>1. \/ user \in {"announced", "sending", "closing"} /\ writer # "out"
        \/ user = "announced"
    BY DEF ExternInv, ReplyInv
  <2>2. ~SendReturns /\ ~DidClose
    BY <2>1 DEF SendReturns, DidClose
  <2> QED
    BY <2>2 DEF ExternNext, ClientNext, CreateConnection, CreateDescriptor,
       CreateSession, CreateMessage, ReadDescriptor, FreeConnection,
       FreeDescriptor, DropDelegate, FreeMessage, FreeSession, SessionStart,
       OutOfOrder, SessionSend, SessionClose, Replies, Idle, FunctionReturns,
       SaysStarted, SendComesBack, SaysClosed, CallbackNext, GivesResponse,
       apiVars, externVars
<1> QED
  BY <1>1, ExternInductive, PTL DEF ExternSpec, ReplyParks

(* The types that no other part of the invariant gives.                    *)
ClientTypes ==
    /\ tells \in BOOLEAN
    /\ typed \in BOOLEAN
    /\ replying \in BOOLEAN
    /\ broken \subseteq Rules
    /\ fault \in {"none", "dangling", "null_pointer", "no_call", "terminated"}

LEMMA ClientTypesStep == ClientTypes /\ [ExternNext]_apiVars => ClientTypes'
<1> SUFFICES ASSUME ClientTypes, [ExternNext]_apiVars
             PROVE  ClientTypes'
  OBVIOUS
<1> USE DEF ClientTypes
<1>1. CASE CreateConnection \/ CreateDescriptor \/ CreateSession \/ CreateMessage
  BY <1>1 DEF CreateConnection, CreateDescriptor, CreateSession, CreateMessage,
     Faults, Breaks, Rules
<1>2. CASE ReadDescriptor \/ FreeConnection \/ FreeDescriptor \/ DropDelegate
  BY <1>2 DEF ReadDescriptor, FreeConnection, FreeDescriptor, DropDelegate,
     Faults, Breaks, Rules
<1>3. CASE FreeMessage \/ FreeSession \/ OutOfOrder
  BY <1>3 DEF FreeMessage, FreeSession, OutOfOrder, Faults, Breaks, Rules
<1>4. CASE SessionStart \/ SessionSend
  BY <1>4 DEF SessionStart, SessionSend, Faults, Rules
<1>5. CASE SaysStarted \/ SaysClosed \/ SendComesBack \/ GivesResponse \/ Replies
  BY <1>5 DEF SaysStarted, SaysClosed, SendComesBack, GivesResponse, Replies,
     Tells, Faults, Breaks, Rules
<1>6. CASE UNCHANGED externVars
  BY <1>6 DEF externVars
<1>7. CASE UNCHANGED apiVars
  BY <1>7 DEF apiVars, externVars
<1> QED
  BY <1>1, <1>2, <1>3, <1>4, <1>5, <1>6, <1>7
     DEF ExternNext, ClientNext, FunctionReturns, CallbackNext, SessionClose

(* Every variable of ExternApi keeps its type (ExternTypeOK).              *)
THEOREM ExternTypeCorrect == ExternSpec => []ExternTypeOK
<1>1. ExternInit => ClientTypes
  BY DEF ExternInit, ClientTypes
<1>2. ExternInv /\ ClientTypes => ExternTypeOK
  <2> SUFFICES ASSUME ExternInv, ClientTypes
               PROVE  ExternTypeOK
    OBVIOUS
  <2>1. SessionTypeOK /\ received \in Nat /\ MetaEntries \in Nat
    BY ExternApiAssumption DEF ExternInv, SInv, SessionTypeOK
  <2>2. given \in 0..received /\ entries \in 0..MetaEntries
    BY <2>1 DEF ExternInv, GivenInv
  <2> QED
    BY <2>1, <2>2 DEF ExternInv, ClientTypes, ExternTypeOK
<1> QED
  BY <1>1, <1>2, ExternInductive, ClientTypesStep, PTL DEF ExternSpec

\* a callback that calls back breaks a rule, and rules stay broken
LEMMA RepliesBreakRules ==
    (replying => broken # {}) /\ [ExternNext]_apiVars =>
        (replying => broken # {})'
<1> SUFFICES ASSUME replying => broken # {}, [ExternNext]_apiVars
             PROVE  replying' => broken' # {}
  OBVIOUS
<1>1. CASE Replies
  BY <1>1 DEF Replies, Breaks
<1>2. ASSUME UNCHANGED replying, broken \subseteq broken'
      PROVE  replying' => broken' # {}
  BY <1>2
<1>3. CASE ClientNext
  BY <1>2, <1>3 DEF ClientNext, CreateConnection, CreateDescriptor,
     CreateSession, CreateMessage, ReadDescriptor, FreeConnection,
     FreeDescriptor, DropDelegate, FreeMessage, FreeSession, SessionStart,
     OutOfOrder, SessionSend, SessionClose, Breaks, externVars
<1>4. CASE FunctionReturns
  BY <1>2, <1>4 DEF FunctionReturns, SaysStarted, SendComesBack, SaysClosed,
     externVars
<1>5. CASE CallbackNext
  BY <1>2, <1>5 DEF CallbackNext, GivesResponse, externVars
<1>6. CASE UNCHANGED externVars \/ UNCHANGED apiVars
  BY <1>2, <1>6 DEF apiVars, externVars
<1> QED
  BY <1>1, <1>3, <1>4, <1>5, <1>6 DEF ExternNext

(* With a server, a deadline and a network that leave the RPC open until   *)
(* the half-close, a client that keeps the rules hangs in none of the      *)
(* functions: nothing it needs is gone, no callback waits for itself, and  *)
(* while session_start, session_send_message or session_close is under     *)
(* way, the session goes on.                                               *)
THEOREM RulesLetTheClientGoOn ==
    ASSUME ~EarlyEnd, ChecksStart
    PROVE  ExternSpec => [](broken = {} =>
               Alive /\ fault = "none" /\ ~replying /\ (InCall => GoesOn))
<1>1. ExternInit => (replying => broken # {})
  BY DEF ExternInit
<1>2. ExternSpec => [](replying => broken # {})
  BY <1>1, RepliesBreakRules, PTL DEF ExternSpec
<1>3. ExternInv /\ (replying => broken # {})
          => (broken = {} => fault = "none" /\ ~replying)
  BY DEF ExternInv, RulesInv
<1>4. SessionSpec => []Alive
  BY SessionHonoursCliCall, UndisturbedCallsAreSafe, PTL DEF HonoursCliCall
<1> QED
  BY <1>2, <1>3, <1>4, ExternInductive, ExternRunsSession,
     UndisturbedSessionGoesOn, PTL

=============================================================================
