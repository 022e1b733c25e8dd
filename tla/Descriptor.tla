----------------------------- MODULE Descriptor -----------------------------
(***************************************************************************)
(* auxl::grpc::Descriptor (src/src/descriptor.{hpp,cpp}): the descriptors  *)
(* of a service as a database, a DescriptorPool on top of it and a         *)
(* DynamicMessageFactory on top of that, and the messages and method       *)
(* descriptors that clients get from them.                                 *)
(*                                                                         *)
(* C++ gives no help with lifetimes here: a message points into its        *)
(* factory, a factory and its prototypes into the pool, the pool into the  *)
(* database.  db, pool and factory number the objects of one load; 0 is    *)
(* nullptr.  fault records the first access to an object that is gone.     *)
(* Messages made by create_message are filled in by module BuildMessage.   *)
(***************************************************************************)
EXTENDS BuildMessage

CONSTANTS
    Methods,    \* methods that descriptors may define, next to types
    MaxLoads    \* bound: constructions and load_jsons

ASSUME DescriptorAssumption == MaxLoads \in Nat

Types == DOMAIN Schema \cup Methods

\* the pool has a type only if it has the types of its fields
Definitions ==
    {defined \in SUBSET Types :
        \A t \in defined \cap DOMAIN Schema : \A i \in Fields(t) :
            IsMessage(FieldOf(t, i)) => FieldOf(t, i).type \in defined}

VARIABLES
    object,      \* "none", "alive", "gone"
    db,          \* db_
    pool,        \* pool_
    factory,     \* factory_
    known,       \* what the current database defines
    prototypes,  \* has factory_ made a prototype?
    loading,     \* where load_json is: "no", "pool_" or "factory_" is next
    loads,       \* databases made so far
    messages,    \* loads whose messages a client holds
    methods,     \* loads whose method descriptors a client holds
    misuse,      \* what clients did that they should not have (history)
    fault        \* "none", or what was accessed

ownVars == <<db, pool, factory, known, prototypes, loading, loads>>
clientVars == <<messages, methods>>
vars == <<object, ownVars, clientVars, misuse, fault, stack>>

Misuses == {"not_loaded", "unknown_type", "outlived", "reloaded_after_use"}

TypeOK ==
    /\ object \in {"none", "alive", "gone"}
    /\ db \in 0..MaxLoads
    /\ pool \in 0..MaxLoads
    /\ factory \in 0..MaxLoads
    /\ known \subseteq Types
    /\ prototypes \in BOOLEAN
    /\ loading \in {"no", "pool_", "factory_"}
    /\ loads \in 0..MaxLoads
    /\ messages \subseteq 1..loads
    /\ methods \subseteq 1..loads
    /\ misuse \subseteq Misuses
    /\ fault \in {"none", "null_pointer", "dangling"}

Ready ==
    /\ object = "alive"
    /\ loading = "no"
    /\ fault = "none"
    /\ ~Building

(* Rules that a client can keep without looking inside: it loads before it *)
(* asks, and uses nothing older than the last load or than the descriptor. *)
Misused(wrong, m) == misuse' = IF wrong THEN misuse \cup {m} ELSE misuse

Fails(wrong, f) == fault' = IF wrong THEN f ELSE fault

\* the objects a message or method descriptor of load n points into
Stands(n) == object = "alive" /\ n = pool /\ n = factory /\ n = db

-----------------------------------------------------------------------------
(* Faulty variants of the steps below, used by no specification.           *)

\* the old factory is kept
LoadNoFactory ==
    /\ loading = "factory_"
    /\ loading' = "no"
    /\ UNCHANGED <<object, db, pool, factory, known, prototypes, loads,
                   clientVars, misuse, fault, stack>>

-----------------------------------------------------------------------------

Init ==
    /\ object = "none"
    /\ db = 0
    /\ pool = 0
    /\ factory = 0
    /\ known = {}
    /\ prototypes = FALSE
    /\ loading = "no"
    /\ loads = 0
    /\ messages = {}
    /\ methods = {}
    /\ misuse = {}
    /\ fault = "none"
    /\ BuildInit

\* Descriptor(proto_files, connection): a new database with what the files
\* and the server gave
Construct ==
    /\ object = "none"
    /\ loads < MaxLoads
    /\ object' = "alive"
    /\ loads' = loads + 1
    /\ db' = loads'
    /\ pool' = loads'
    /\ factory' = loads'
    /\ known' \in Definitions
    /\ UNCHANGED <<prototypes, loading, clientVars, misuse, fault, stack>>

\* Descriptor(): db_, pool_ and factory_ stay null
ConstructEmpty ==
    /\ object = "none"
    /\ object' = "alive"
    /\ UNCHANGED <<ownVars, clientVars, misuse, fault, stack>>

\* load_json, in the order of its three assignments: parse_descriptors
\* never returns null, so the "return false" is not reached
LoadDatabase ==
    /\ Ready
    /\ loads < MaxLoads
    /\ loads' = loads + 1
    /\ db' = loads'
    /\ known' \in Definitions
    /\ loading' = "pool_"
    /\ Misused(prototypes, "reloaded_after_use")
    /\ UNCHANGED <<object, pool, factory, prototypes, clientVars, fault,
                   stack>>

LoadPool ==
    /\ loading = "pool_"
    /\ pool' = db
    /\ loading' = "factory_"
    /\ UNCHANGED <<object, db, factory, known, prototypes, loads, clientVars,
                   misuse, fault, stack>>

\* the old factory destroys its prototypes, which look at their descriptors
LoadFactory ==
    /\ loading = "factory_"
    /\ Fails(prototypes /\ factory # pool, "dangling")
    /\ factory' = pool
    /\ prototypes' = FALSE
    /\ loading' = "no"
    /\ UNCHANGED <<object, db, pool, known, loads, clientVars, misuse,
                   stack>>

\* pool_-> and db_-> on null pointers
NoPool ==
    /\ pool = 0
    /\ Fails(TRUE, "null_pointer")
    /\ Misused(loads = 0, "not_loaded")

\* message_from_json: nullptr for an unknown type
MessageFromJson(t) ==
    /\ Ready
    /\ \/ NoPool /\ UNCHANGED <<prototypes, messages>>
       \/ /\ pool # 0
          /\ t \in known
          /\ messages' = messages \cup {factory}
          /\ prototypes' = TRUE
          /\ UNCHANGED <<misuse, fault>>
    /\ UNCHANGED <<object, db, pool, factory, known, loading, loads, methods,
                   stack>>

\* create_message: the same, with the defaults of build_message
CreateMessage(t) ==
    /\ Ready
    /\ \/ NoPool /\ UNCHANGED <<prototypes, stack>>
       \/ /\ pool # 0
          /\ t \in known
          /\ BuildStart(t)
          /\ prototypes' = TRUE
          /\ UNCHANGED <<misuse, fault>>
    /\ UNCHANGED <<object, db, pool, factory, known, loading, loads, clientVars>>

BuildGoesOn ==
    /\ BuildStep
    /\ UNCHANGED <<object, ownVars, clientVars, misuse, fault>>

MessageCreated ==
    /\ BuildDone
    /\ messages' = messages \cup {factory}
    /\ UNCHANGED <<object, ownVars, methods, misuse, fault>>

\* get_method_descriptor: nullptr for an unknown method
GetMethod(t) ==
    /\ Ready
    /\ \/ NoPool /\ UNCHANGED methods
       \/ /\ pool # 0
          /\ t \in known
          /\ methods' = methods \cup {pool}
          /\ UNCHANGED <<misuse, fault>>
    /\ UNCHANGED <<object, ownVars, messages, stack>>

\* message_type_to_debug_string returns a string made from nullptr
DebugString(t) ==
    /\ Ready
    /\ \/ NoPool
       \/ /\ pool # 0
          /\ t \notin known
          /\ Fails(TRUE, "null_pointer")
          /\ Misused(TRUE, "unknown_type")
    /\ UNCHANGED <<object, ownVars, clientVars, stack>>

\* to_json reads db_
ToJson ==
    /\ Ready
    /\ db = 0
    /\ Fails(TRUE, "null_pointer")
    /\ Misused(loads = 0, "not_loaded")
    /\ UNCHANGED <<object, ownVars, clientVars, stack>>

\* the members are destroyed in reverse: factory_, pool_, db_
Destroy ==
    /\ Ready
    /\ object' = "gone"
    /\ UNCHANGED <<ownVars, clientVars, misuse, fault, stack>>

-----------------------------------------------------------------------------
(* The clients: Session, its delegates, the commands.                      *)

\* printing, parsing, serializing or destroying a message looks at its type
Touch(n) ==
    /\ fault = "none"
    /\ loading = "no"
    /\ ~Building
    /\ Fails(~Stands(n), "dangling")
    /\ Misused(n # loads \/ object # "alive", "outlived")

UseMessage ==
    /\ \E n \in messages : Touch(n)
    /\ UNCHANGED <<object, ownVars, clientVars, stack>>

FreeMessages ==
    /\ \E n \in messages : Touch(n) /\ messages' = messages \ {n}
    /\ UNCHANGED <<object, ownVars, methods, stack>>

UseMethod ==
    /\ \E n \in methods : Touch(n)
    /\ UNCHANGED <<object, ownVars, clientVars, stack>>

Next ==
    \/ Construct
    \/ ConstructEmpty
    \/ LoadDatabase
    \/ LoadPool
    \/ LoadFactory
    \/ \E t \in DOMAIN Schema :
          MessageFromJson(t) \/ CreateMessage(t) \/ DebugString(t)
    \/ BuildGoesOn
    \/ MessageCreated
    \/ \E t \in Methods : GetMethod(t)
    \/ ToJson
    \/ Destroy
    \/ UseMessage
    \/ FreeMessages
    \/ UseMethod

Spec == Init /\ [][Next]_vars

-----------------------------------------------------------------------------
(* Between calls database, pool and factory are of one load, or all null.  *)
Coherent == loading = "no" => (pool = db /\ factory = db)

(* The calling rules of the class are complete: nothing that is gone, or   *)
(* was never there, is accessed unless a client called before loading,     *)
(* asked for the debug string of an unknown type, used something after     *)
(* what it points into, or loaded again after a message was made.          *)
FaultNeedsMisuse == fault # "none" => misuse # {}

=============================================================================
