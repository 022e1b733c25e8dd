----------------------------- MODULE CallPromise -----------------------------
(***************************************************************************)
(* What auxl::grpc::Session promises to the code that uses it, without the *)
(* read thread, the mutex or the completion queue (src/src/session.hpp):   *)
(*                                                                         *)
(*   - start either refuses, or opens the call for sending;                *)
(*   - responses reach the delegate one by one, none that the server did   *)
(*     not send, and only from start to the report of close;               *)
(*   - close reports a status once; "ok" only if nothing is left to        *)
(*     deliver.                                                            *)
(***************************************************************************)
EXTENDS Naturals

VARIABLES
    stage,      \* "closed", "starting", "refused", "active" or "closing"
    sending,    \* is a send_message under way?
    sent,       \* messages announced with session_did_send on this call
    responses,  \* responses the server has sent on this call
    received,   \* responses given to session_did_receive on this call
    outcome     \* what session_did_close reported: "none", "ok" or "error"

promiseVars == <<stage, sending, sent, responses, received, outcome>>

Init ==
    /\ stage = "closed"
    /\ sending = FALSE
    /\ sent = 0
    /\ responses = 0
    /\ received = 0
    /\ outcome = "none"

Start ==
    /\ stage \in {"closed", "refused"}
    /\ ~sending
    /\ stage' = "starting"
    /\ sent' = 0
    /\ responses' = 0
    /\ received' = 0
    /\ outcome' = "none"
    /\ UNCHANGED sending

Started ==
    /\ stage = "starting"
    /\ stage' \in {"active", "refused"}
    /\ UNCHANGED <<sending, sent, responses, received, outcome>>

Send ==
    /\ stage = "active"
    /\ ~sending
    /\ sending' = TRUE
    /\ sent' = sent + 1
    /\ UNCHANGED <<stage, responses, received, outcome>>

Sent ==
    /\ stage = "active"
    /\ sending
    /\ sending' = FALSE
    /\ UNCHANGED <<stage, sent, responses, received, outcome>>

Respond ==
    /\ stage \in {"starting", "active", "closing"}
    /\ responses' = responses + 1
    /\ UNCHANGED <<stage, sending, sent, received, outcome>>

Receive ==
    /\ stage \in {"active", "closing"}
    /\ received < responses
    /\ received' = received + 1
    /\ UNCHANGED <<stage, sending, sent, responses, outcome>>

Close ==
    /\ stage = "active"
    /\ ~sending
    /\ stage' = "closing"
    /\ UNCHANGED <<sending, sent, responses, received, outcome>>

Closed ==
    /\ stage = "closing"
    /\ stage' = "closed"
    /\ outcome' \in {"ok", "error"}
    /\ outcome' = "ok" => received = responses
    /\ UNCHANGED <<sending, sent, responses, received>>

Next ==
    \/ Start
    \/ Started
    \/ Send
    \/ Sent
    \/ Respond
    \/ Receive
    \/ Close
    \/ Closed

Spec == Init /\ [][Next]_promiseVars

=============================================================================
