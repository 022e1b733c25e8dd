------------------------------ MODULE ExternApi ------------------------------
(***************************************************************************)
(* The C interface (src/src/extern/tool.cpp) and ExternSessionDelegate     *)
(* (extern_session_delegate.hpp) around one Session: a client that calls   *)
(* the functions of tool.h in any order on one thread, while the read      *)
(* thread calls back into the client, the descriptor and the struct        *)
(* MSessionDelegate.                                                       *)
(*                                                                         *)
(* The interface hands out bare pointers and keeps some of its own; what   *)
(* they point to is the client's to keep alive.  Each act against one of   *)
(* the rules below is recorded in broken, with no effect of its own; the   *)
(* first access to something that is gone, or not there, is the fault,     *)
(* after which nothing is known of the process.                            *)
(***************************************************************************)
EXTENDS Session

CONSTANT MetaEntries   \* entries of the server's initial metadata, when sent

ASSUME ExternApiAssumption == MetaEntries \in Nat

VARIABLES
    handle,    \* the client's objects: "none", "live", "null" or "gone"
    tells,     \* was create_session given a delegate?
    typed,     \* is its output_type_name a type of the descriptor?
    given,     \* calls of session_did_recieve on this call
    entries,   \* metadata entries handed over with them
    replying,  \* is that callback itself in session_send_message or _close?
    broken,    \* rules the client has broken (history)
    fault      \* "none", or what went wrong

externVars == <<handle, tells, typed, given, entries, replying, broken, fault>>
apiVars == <<allVars, externVars>>

Objects == {"connection", "descriptor", "delegate", "session", "message"}

Rules ==
    {"connection_until_started",  \* alive up to the last session_start
     "descriptor_while_open",     \* alive while a call is open, and for
                                  \* every message made and error read
     "delegate_with_session",     \* alive from create_session to the last
                                  \* session_close
     "session_closed_first",      \* session_close before free_session
     "start_then_close",          \* send and close only on an open call,
                                  \* start only when none is open, nothing
                                  \* after free_session
     "message_not_null",          \* sent, freed: only what was made
     "reply_later"}               \* no send or close from a callback

ExternTypeOK ==
    /\ SessionTypeOK
    /\ handle \in [Objects -> {"none", "live", "null", "gone"}]
    /\ tells \in BOOLEAN
    /\ typed \in BOOLEAN
    /\ given \in 0..received
    /\ entries \in 0..MetaEntries
    /\ replying \in BOOLEAN
    /\ broken \subseteq Rules
    /\ fault \in {"none", "dangling", "null_pointer", "no_call", "terminated"}

\* a call is open for the client from start's 0 to its session_close
CallOpen == user = "ready"

\* the client's thread is in none of the functions
Idle == Alive /\ fault = "none" /\ ~replying /\ user \in {"closed", "refused", "ready"}

Runs == Alive /\ fault = "none"

Breaks(wrong, rule) == broken' = IF wrong THEN broken \cup {rule} ELSE broken

Faults(wrong, f) == fault' = IF wrong THEN f ELSE fault

Becomes(o, state) == handle' = [handle EXCEPT ![o] = state]

Gone(objects) == \E o \in objects : handle[o] = "gone"

\* the callbacks of ExternSessionDelegate read these
Tells(objects) == Faults(tells /\ Gone(objects), "dangling")

-----------------------------------------------------------------------------
(* create_metadata(size), then metadata_push for each of n entries.        *)

\* faulty variant: the comparison of metadata_push is strict
PushedStrictly(size, n) == IF n < size THEN n ELSE IF size = 0 THEN 0 ELSE size - 1

Pushed(size, n) == IF n <= size THEN n ELSE size

-----------------------------------------------------------------------------
(* Objects of the client.                                                  *)

CreateConnection ==
    /\ Idle
    /\ handle.connection = "none"
    /\ Becomes("connection", "live")
    /\ UNCHANGED <<allVars, tells, typed, given, entries, replying, broken,
                   fault>>

\* asks the server through the connection, when there is one
CreateDescriptor ==
    /\ Idle
    /\ handle.descriptor = "none"
    /\ Becomes("descriptor", "live")
    /\ Faults(Gone({"connection"}), "dangling")
    /\ Breaks(Gone({"connection"}), "connection_until_started")
    /\ UNCHANGED <<allVars, tells, typed, given, entries, replying>>

\* keeps the three pointers, and looks at none; the struct of the delegate
\* was made before
CreateSession ==
    /\ Idle
    /\ handle.session = "none"
    /\ handle.connection # "none"
    /\ handle.descriptor # "none"
    /\ \E t \in BOOLEAN :
          /\ tells' = t
          /\ handle' = [handle EXCEPT !.session = "live",
                                      !.delegate = IF t THEN "live" ELSE "none"]
    /\ typed' \in BOOLEAN
    /\ UNCHANGED <<allVars, given, entries, replying, broken, fault>>

\* descriptor_create_message_from_json: a null handle for an unknown type
CreateMessage ==
    /\ Idle
    /\ handle.message \in {"none", "gone", "null"}
    /\ handle.descriptor # "none"
    /\ \E m \in {"live", "null"} : Becomes("message", m)
    /\ Faults(Gone({"descriptor"}), "dangling")
    /\ Breaks(Gone({"descriptor"}), "descriptor_while_open")
    /\ UNCHANGED <<allVars, tells, typed, given, entries, replying>>

\* descriptor_to_json, or the errors that descriptor_get_errors pointed to
ReadDescriptor ==
    /\ Idle
    /\ Gone({"descriptor"})
    /\ Faults(TRUE, "dangling")
    /\ Breaks(TRUE, "descriptor_while_open")
    /\ UNCHANGED <<allVars, handle, tells, typed, given, entries, replying>>

FreeConnection ==
    /\ Idle
    /\ handle.connection = "live"
    /\ Becomes("connection", "gone")
    /\ UNCHANGED <<allVars, tells, typed, given, entries, replying, broken,
                   fault>>

FreeDescriptor ==
    /\ Idle
    /\ handle.descriptor = "live"
    /\ Becomes("descriptor", "gone")
    /\ Breaks(CallOpen /\ tells, "descriptor_while_open")
    /\ UNCHANGED <<allVars, tells, typed, given, entries, replying, fault>>

\* the struct belongs to the client; in the test it is on its stack
DropDelegate ==
    /\ Idle
    /\ handle.delegate = "live"
    /\ Becomes("delegate", "gone")
    /\ Breaks(CallOpen, "delegate_with_session")
    /\ UNCHANGED <<allVars, tells, typed, given, entries, replying, fault>>

\* a message looks at its type when it is destroyed; delete takes nullptr
FreeMessage ==
    /\ Idle
    /\ handle.message \in {"live", "null"}
    /\ Becomes("message", "gone")
    /\ LET wrong == handle.message = "live" /\ Gone({"descriptor"})
       IN  Faults(wrong, "dangling") /\ Breaks(wrong, "descriptor_while_open")
    /\ UNCHANGED <<allVars, tells, typed, given, entries, replying>>

\* ~Session destroys read_thread_: std::terminate when it was not joined
FreeSession ==
    /\ Idle
    /\ handle.session = "live"
    /\ Becomes("session", "gone")
    /\ Faults(read_thread # "none", "terminated")
    /\ Breaks(CallOpen, "session_closed_first")
    /\ UNCHANGED <<allVars, tells, typed, given, entries, replying>>

-----------------------------------------------------------------------------
(* The session.                                                            *)

\* session_start, with a method that the descriptor has; with another it
\* returns -1 and touches only the descriptor
SessionStart ==
    /\ Idle
    /\ handle.session = "live"
    /\ Start
    /\ LET lost == Gone({"connection", "descriptor"})
       IN  Faults(lost, "dangling")
    /\ broken' = broken
         \cup (IF Gone({"connection"}) THEN {"connection_until_started"} ELSE {})
         \cup (IF Gone({"descriptor"}) THEN {"descriptor_while_open"} ELSE {})
         \cup (IF Gone({"delegate"}) THEN {"delegate_with_session"} ELSE {})
    /\ given' = 0
    /\ entries' = 0
    /\ UNCHANGED <<handle, tells, typed, replying>>

\* a second start assigns to a joinable read_thread_; send and close reach
\* a call that is not there, refused or finished; or the session is gone
OutOfOrder ==
    /\ Idle
    /\ \/ handle.session = "live" /\ CallOpen /\ Faults(TRUE, "terminated")
       \/ handle.session = "live" /\ ~CallOpen /\ Faults(TRUE, "no_call")
       \/ handle.session = "gone" /\ Faults(TRUE, "dangling")
    /\ Breaks(TRUE, "start_then_close")
    /\ UNCHANGED <<allVars, handle, tells, typed, given, entries, replying>>

\* session_send_message serializes *msg, then session_did_send
SessionSend ==
    /\ Idle
    /\ CallOpen
    /\ handle.session = "live"
    /\ handle.message \in {"live", "null", "gone"}
    /\ SendMessage
    /\ fault' = CASE handle.message = "null" -> "null_pointer"
                  [] handle.message = "gone" \/ Gone({"descriptor"}) -> "dangling"
                  [] tells /\ Gone({"delegate"}) -> "dangling"
                  [] OTHER -> fault
    /\ broken' = broken
         \cup (IF handle.message # "live" THEN {"message_not_null"} ELSE {})
         \cup (IF Gone({"descriptor"}) THEN {"descriptor_while_open"} ELSE {})
    /\ UNCHANGED <<handle, tells, typed, given, entries, replying>>

SessionClose ==
    /\ Idle
    /\ CallOpen
    /\ handle.session = "live"
    /\ Close
    /\ UNCHANGED externVars

\* did_start: a callback on the client's thread
SaysStarted ==
    /\ Runs
    /\ DidStart
    /\ Tells({"delegate"})
    /\ UNCHANGED <<handle, tells, typed, given, entries, replying, broken>>

\* session_did_close makes a response of the status and the metadata
SaysClosed ==
    /\ Runs
    /\ DidClose
    /\ Tells({"delegate"})
    /\ replying' = FALSE
    /\ UNCHANGED <<handle, tells, typed, given, entries, broken>>

\* session_send_message returns, to the client or to its callback
SendComesBack ==
    /\ Runs
    /\ SendReturns
    /\ replying' = FALSE
    /\ UNCHANGED <<handle, tells, typed, given, entries, broken, fault>>

-----------------------------------------------------------------------------
(* The read thread.                                                        *)

\* create_message, create_metadata, metadata_push and session_did_recieve;
\* a response of an unknown type is dropped
GivesResponse ==
    /\ Runs
    /\ ~replying
    /\ DidReceive
    /\ Tells({"descriptor", "delegate"})
    /\ IF tells /\ typed
       THEN /\ given' = given + 1
            /\ entries' = entries + (IF incoming THEN Pushed(MetaEntries, MetaEntries)
                                     ELSE 0)
       ELSE UNCHANGED <<given, entries>>
    /\ UNCHANGED <<handle, tells, typed, replying, broken>>

\* the callback calls session_send_message or session_close while the
\* client's thread leaves the session alone
Replies ==
    /\ Idle
    /\ tells /\ typed
    /\ ~Gone({"descriptor", "delegate"})
    /\ read_thread = "delivering"
    /\ CallOpen
    /\ \/ handle.message = "live" /\ SendMessage
       \/ Close
    /\ replying' = TRUE
    /\ Breaks(TRUE, "reply_later")
    /\ UNCHANGED <<handle, tells, typed, given, entries, fault>>

-----------------------------------------------------------------------------

ExternInit ==
    /\ SessionInit
    /\ handle = [o \in Objects |-> "none"]
    /\ tells = FALSE
    /\ typed = FALSE
    /\ given = 0
    /\ entries = 0
    /\ replying = FALSE
    /\ broken = {}
    /\ fault = "none"

ClientNext ==
    \/ CreateConnection
    \/ CreateDescriptor
    \/ CreateSession
    \/ CreateMessage
    \/ ReadDescriptor
    \/ FreeConnection
    \/ FreeDescriptor
    \/ DropDelegate
    \/ FreeMessage
    \/ FreeSession
    \/ SessionStart
    \/ OutOfOrder
    \/ SessionSend
    \/ SessionClose

FunctionReturns ==
    \/ SaysStarted
    \/ SendComesBack
    \/ SaysClosed
    \/ /\ Runs
       /\ Spawn \/ SendWrites \/ Join \/ CloseFinishes
       /\ UNCHANGED externVars

CallbackNext ==
    \/ GivesResponse
    \/ /\ Runs
       /\ ReadBegins \/ ReadGives \/ ReadLoopExits
       /\ UNCHANGED externVars

ExternNext ==
    \/ ClientNext
    \/ Replies
    \/ FunctionReturns
    \/ CallbackNext
    \/ Runs /\ In(Inside) /\ UNCHANGED externVars

ExternSpec == ExternInit /\ [][ExternNext]_apiVars

-----------------------------------------------------------------------------
(* The rules are all that a client has to keep: while it keeps them, no    *)
(* callback and no function reaches an object that is gone or was never    *)
(* there, whenever the read thread runs.  In particular the connection may *)
(* go once the call is started, and everything once it is closed.          *)
RulesSuffice == fault # "none" => broken # {}

(* After a close that reported "ok" the client has had every response of   *)
(* the server, and its initial metadata in full with the first of them,    *)
(* unless it named an unknown output type: then it has had nothing at all. *)
ClientHasAll ==
    (outcome = "ok" /\ tells /\ user = "closed") =>
        /\ given = IF typed THEN responses ELSE 0
        /\ entries = IF typed /\ server_meta /\ responses > 0
                     THEN MetaEntries ELSE 0

(* No callback runs when no call is open: none before session_start, and   *)
(* none after session_close has returned or session_start has refused.     *)
NoLateCallback ==
    [][(user \in {"closed", "refused"} /\ user' = user) =>
           (UNCHANGED <<given, received, read_thread>>)]_apiVars

(* A callback that sends or closes never comes back: nobody is left to     *)
(* take the completion it waits for off the queue.                         *)
ReplyParks == [][replying => replying']_apiVars

=============================================================================
