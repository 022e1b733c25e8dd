------------------------------ MODULE GrpcCall ------------------------------
(***************************************************************************)
(* The part of the gRPC library that src/src/vendor/cli_call.cc drives:    *)
(* one GenericClientAsyncReaderWriter (call_) and its CompletionQueue      *)
(* (cq_), together with the server and the network at the other end.       *)
(* The library is not part of the repository; this is its contract as the  *)
(* code uses it.                                                           *)
(*                                                                         *)
(* An operation is started with a tag, completes some time later with a    *)
(* flag "ok", and its completion is taken off the queue by cq_.Next.       *)
(* CliCall uses five tags and never means to have two operations of the    *)
(* same tag outstanding, so the queue is a slot per tag.  Slots carry no   *)
(* order: completions of different tags reach the queue in any order, and  *)
(* a completion that is overtaken is one that was posted later.            *)
(***************************************************************************)
EXTENDS Naturals

CONSTANTS
    MaxResponses,   \* bound: messages the server sends on one call
    EarlyEnd        \* may the RPC end before the client half-closes it?

ASSUME GrpcCallAssumption ==
    /\ MaxResponses \in Nat
    /\ EarlyEnd \in BOOLEAN

VARIABLES
    op,           \* op[t]: the operation with tag t and its completion
    rpc,          \* "idle", "live", or the final status "ok" / "error"
    inbox,        \* responses that arrived and no Read has taken
    responses,    \* responses the server has sent on this call
    half_closed,  \* WritesDone was started on this call
    early         \* the RPC ended before half_closed (history)

grpcVars == <<op, rpc, inbox, responses, half_closed, early>>

TagStart      == 1
TagWrite      == 2
TagRead       == 3
TagWritesDone == 4
TagFinish     == 5
Tags          == 1..5
WriteTags     == {TagWrite, TagWritesDone}

Statuses == {"ok", "error"}

GrpcTypeOK ==
    /\ op \in [Tags -> {"idle", "pending", "ok", "failed"}]
    /\ rpc \in {"idle", "live"} \cup Statuses
    /\ inbox \in Nat
    /\ responses \in Nat
    /\ half_closed \in BOOLEAN
    /\ early \in BOOLEAN

Ended == rpc \in Statuses

(* An operation is in flight from the call that starts it until cq_.Next   *)
(* hands out its completion.                                               *)
InFlight(t) == op[t] # "idle"

WriteInFlight == \E t \in WriteTags : InFlight(t)

StartOp(t) == op' = [op EXCEPT ![t] = "pending"]

(* cq_.Next: blocks until some completion is there and takes one of them.  *)
NextEvent(t) ==
    /\ op[t] \in {"ok", "failed"}
    /\ op' = [op EXCEPT ![t] = "idle"]

GrpcInit ==
    /\ op = [t \in Tags |-> "idle"]
    /\ rpc = "idle"
    /\ inbox = 0
    /\ responses = 0
    /\ half_closed = FALSE
    /\ early = FALSE

(* PrepareCall and StartCall(tag(1)) on a fresh context and queue.         *)
GrpcFresh ==
    /\ op' = [t \in Tags |-> IF t = TagStart THEN "pending" ELSE "idle"]
    /\ rpc' = "idle"
    /\ inbox' = 0
    /\ responses' = 0
    /\ half_closed' = FALSE
    /\ early' = FALSE

-----------------------------------------------------------------------------
(* Steps of the library, the network and the server.                       *)

Complete(t, result) ==
    /\ op[t] = "pending"
    /\ op' = [op EXCEPT ![t] = result]

(* "failed": the call never goes to the wire (no transport to the peer).   *)
StartCompletes ==
    /\ \/ Complete(TagStart, "ok") /\ rpc' = "live"
       \/ Complete(TagStart, "failed") /\ rpc' = "error"
    /\ UNCHANGED <<inbox, responses, half_closed, early>>

(* A Write or WritesDone fails only when the RPC is over; one that left    *)
(* before the RPC ended may have its completion posted after it.           *)
WriteCompletes ==
    /\ \E t \in WriteTags :
          \/ Complete(t, "ok")
          \/ Ended /\ Complete(t, "failed")
    /\ UNCHANGED <<rpc, inbox, responses, half_closed, early>>

(* A Read gives the next response.  It fails when the RPC is over and no   *)
(* response is left, or when it ended in error, which may drop responses.  *)
ReadCompletes ==
    /\ \/ /\ inbox > 0
          /\ Complete(TagRead, "ok")
          /\ inbox' = inbox - 1
       \/ /\ rpc = "error" \/ (rpc = "ok" /\ inbox = 0)
          /\ Complete(TagRead, "failed")
          /\ UNCHANGED inbox
    /\ UNCHANGED <<rpc, responses, half_closed, early>>

FinishCompletes ==
    /\ Ended
    /\ Complete(TagFinish, "ok")
    /\ UNCHANGED <<rpc, inbox, responses, half_closed, early>>

ServerResponds ==
    /\ rpc = "live"
    /\ responses < MaxResponses
    /\ inbox' = inbox + 1
    /\ responses' = responses + 1
    /\ UNCHANGED <<op, rpc, half_closed, early>>

(* The server sends its status, the deadline of connection->timeout        *)
(* expires, or the connection drops.                                       *)
RpcEnds ==
    /\ rpc = "live"
    /\ EarlyEnd \/ half_closed
    /\ \E status \in Statuses : rpc' = status
    /\ early' = ~half_closed
    /\ UNCHANGED <<op, inbox, responses, half_closed>>

GrpcNext ==
    \/ StartCompletes
    \/ WriteCompletes
    \/ ReadCompletes
    \/ FinishCompletes
    \/ ServerResponds
    \/ RpcEnds

=============================================================================
