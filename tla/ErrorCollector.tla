--------------------------- MODULE ErrorCollector ---------------------------
(***************************************************************************)
(* AuxlGRPCErrorCollector (src/src/extern/error_collector.{h,c}): the C    *)
(* list of errors that a Descriptor fills and hands out.                   *)
(*                                                                         *)
(* A collector owns an array of error records, and each record points to a *)
(* message that strdup put on the heap.  Records are private to their      *)
(* collector, so only the messages are modelled as addresses.  fault       *)
(* records the first access to a message that was already freed.           *)
(***************************************************************************)
EXTENDS Naturals, Sequences, SequencesExt

CONSTANTS
    Collectors,   \* the collectors a program may create
    Messages,     \* addresses of the strings strdup returns (bound)
    MaxErrors,    \* MAX_ERROR_SIZE, 32 in the code
    FreesShared   \* does the caller free a collector and its copy?

ASSUME ErrorCollectorAssumption ==
    /\ MaxErrors \in Nat \ {0}
    /\ FreesShared \in BOOLEAN

VARIABLES
    state,        \* of each collector: "none", "live" or "freed"
    errors,       \* of each collector: the first error_count records
    heap,         \* messages allocated and not freed
    unused,       \* addresses strdup has not returned yet
    dropped,      \* messages of records that add_error_ turned away
    told_fatal,   \* collectors that were given a FATAL error (history)
    fault         \* "none", "use_after_free" or "double_free"

vars == <<state, errors, heap, unused, dropped, told_fatal, fault>>

Levels == {"WARNING", "FATAL"}
Record == [message : Messages, level : Levels]

TypeOK ==
    /\ state \in [Collectors -> {"none", "live", "freed"}]
    /\ errors \in [Collectors -> Seq(Record)]
    /\ \A c \in Collectors : Len(errors[c]) <= MaxErrors
    /\ heap \subseteq Messages
    /\ unused \subseteq Messages \ heap
    /\ dropped \subseteq Messages
    /\ told_fatal \subseteq Collectors
    /\ fault \in {"none", "use_after_free", "double_free"}

Live == {c \in Collectors : state[c] = "live"}
MessagesOf(c) == {e.message : e \in ToSet(errors[c])}
Held == UNION {MessagesOf(c) : c \in Live}

(* error_collector_has_fatal_error                                         *)
HasFatal(c) == \E e \in ToSet(errors[c]) : e.level = "FATAL"

Shares(c) == \E d \in Live \ {c} : MessagesOf(c) \cap MessagesOf(d) # {}

-----------------------------------------------------------------------------
(* Faulty variants of the operations below, used by no specification.      *)

\* the last slot of the array is not used
PushStopsEarly(s, e) ==
    IF Len(s) + 2 > MaxErrors THEN s ELSE Append(s, e)

\* the message is stored without strdup
AddErrorBorrows(c, level) ==
    /\ state[c] = "live"
    /\ \E m \in heap \cup unused :
          /\ errors' = [errors EXCEPT ![c] =
                           IF Len(@) + 1 > MaxErrors THEN @
                           ELSE Append(@, [message |-> m, level |-> level])]
          /\ heap' = heap \cup {m}
          /\ unused' = unused \ {m}
          /\ UNCHANGED dropped
    /\ told_fatal' = IF level = "FATAL" THEN told_fatal \cup {c} ELSE told_fatal
    /\ UNCHANGED <<state, fault>>

\* the records are freed, their messages are not
FreeRecordsOnly(c) ==
    /\ state[c] = "live"
    /\ FreesShared \/ ~Shares(c)
    /\ state' = [state EXCEPT ![c] = "freed"]
    /\ UNCHANGED <<errors, heap, unused, dropped, told_fatal, fault>>

-----------------------------------------------------------------------------

Init ==
    /\ state = [c \in Collectors |-> "none"]
    /\ errors = [c \in Collectors |-> <<>>]
    /\ heap = {}
    /\ unused = Messages
    /\ dropped = {}
    /\ told_fatal = {}
    /\ fault = "none"

(* create_error_collector                                                  *)
Create(c) ==
    /\ state[c] = "none"
    /\ state' = [state EXCEPT ![c] = "live"]
    /\ UNCHANGED <<errors, heap, unused, dropped, told_fatal, fault>>

(* error_collector_add_error_: a full collector keeps what it has          *)
Push(s, e) == IF Len(s) + 1 > MaxErrors THEN s ELSE Append(s, e)

(* error_collector_add_error: the message is duplicated before it is known *)
(* whether there is room for the record                                    *)
AddError(c, level) ==
    /\ state[c] = "live"
    /\ \E m \in unused :
          LET pushed == Push(errors[c], [message |-> m, level |-> level])
          IN  /\ errors' = [errors EXCEPT ![c] = pushed]
              /\ dropped' = IF pushed = errors[c] THEN dropped \cup {m}
                            ELSE dropped
              /\ heap' = heap \cup {m}
              /\ unused' = unused \ {m}
    /\ told_fatal' = IF level = "FATAL" THEN told_fatal \cup {c} ELSE told_fatal
    /\ UNCHANGED <<state, fault>>

(* error_collector_copy: the records are copied, pointers included, into a *)
(* new collector, which has room for all that the old one holds            *)
Copy(c, d) ==
    /\ state[c] = "live"
    /\ state[d] = "none"
    /\ state' = [state EXCEPT ![d] = "live"]
    /\ errors' = [errors EXCEPT ![d] = errors[c]]
    /\ told_fatal' = IF c \in told_fatal THEN told_fatal \cup {d} ELSE told_fatal
    /\ UNCHANGED <<heap, unused, dropped, fault>>

(* error_collector_free: a message that two records share is freed twice   *)
Free(c) ==
    /\ state[c] = "live"
    /\ FreesShared \/ ~Shares(c)
    /\ state' = [state EXCEPT ![c] = "freed"]
    /\ heap' = heap \ MessagesOf(c)
    /\ fault' = IF \/ ~(MessagesOf(c) \subseteq heap)
                   \/ Cardinality(MessagesOf(c)) # Len(errors[c])
                THEN "double_free" ELSE fault
    /\ UNCHANGED <<errors, unused, dropped, told_fatal>>

(* A caller prints the messages.                                           *)
PrintErrors(c) ==
    /\ state[c] = "live"
    /\ fault' = IF MessagesOf(c) \subseteq heap THEN fault ELSE "use_after_free"
    /\ UNCHANGED <<state, errors, heap, unused, dropped, told_fatal>>

Next ==
    /\ fault = "none"
    /\ \E c \in Collectors :
          \/ Create(c)
          \/ \E level \in Levels : AddError(c, level)
          \/ \E d \in Collectors : Copy(c, d)
          \/ Free(c)
          \/ PrintErrors(c)

Spec == Init /\ [][Next]_vars

-----------------------------------------------------------------------------
(* Memory safety: no message is freed twice or read after it was freed.    *)
(* The header promises this to a caller who frees collector and copy; it   *)
(* holds for one who frees only collectors that share nothing.             *)
NoFault == fault = "none"

(* has_fatal_error answers for everything the collector was told, its copy *)
(* included: a FATAL error goes unnoticed only if the array was full.      *)
FatalMissedOnlyWhenFull ==
    \A c \in Live :
        (c \in told_fatal /\ ~HasFatal(c)) => Len(errors[c]) = MaxErrors

(* A message on the heap belongs to a live collector, or to a record that  *)
(* found the array full: nothing else leaks.                               *)
LeaksOnlyDropped == heap \subseteq Held \cup dropped

(* What a collector reported stays, in its order, until it is freed; the   *)
(* pointers that descriptor_get_errors hands out stay good.                *)
ErrorsOnlyGrow ==
    [][\A c \in Live : IsPrefix(errors[c], errors'[c])]_vars

=============================================================================
