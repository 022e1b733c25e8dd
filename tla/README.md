# Verification of auxl-grpc-lib

TLA+ models of auxl-grpc-lib, the TLC runs that check them on small instances,
and TLAPS proofs for every value of the constants. The library calls gRPC
methods whose types are known only at run time: it gets descriptors from proto
files, from a stored JSON text or from a server's reflection service, builds
messages from JSON, and drives a call with two threads. The modules are
translated from the source under `src/src/`; gRPC, protobuf and the peer are
modelled from how that source uses them and are marked external.

Paths below are relative to `src/src/`.

## 1. The system

| Component | Source | State | Operations | Interacts with |
|---|---|---|---|---|
| gRPC call, completion queue, peer (external) | used by `vendor/cli_call.cc` | one operation per tag and its completion, status of the RPC, responses on their way | complete an operation, server responds, RPC ends | CliCall, over `cq_.Next` |
| CliCall | `vendor/cli_call.{h,cc}` | `write_mu_`, `write_cv_`, `write_done_`, `call_`, `cq_` | constructor, WriteAndWait, WritesDoneAndWait, ReadAndMaybeNotifyWrite, Finish | Session (two threads call it) |
| Session | `session.{hpp,cpp}` | `current_call_`, `read_thread_`, the delegate | start, send_message, close, read_response | CliCall, SessionDelegate callbacks, Connection |
| Session delegates | `session.hpp`, `cli/cli_session_delegate.hpp` | the time a message was sent | did_start, did_send, did_receive, did_close | called by Session from both threads |
| ProtoReflectionDescriptorDatabase | `vendor/proto_reflection_descriptor_database.{h,cc}` | `cached_db_`, `known_files_`, `missing_symbols_`, `missing_extensions_`, `cached_extension_numbers_`, the stream | the four Find functions, GetServices, CloseStream | the server, over one bidirectional stream; DescriptorPool |
| descriptors_from_reflect | `parser.cpp:109-170` | the services still to do, the files stored | one function | the database above, DescriptorPool, the error collector |
| Proto files and stored descriptors | `parser.cpp` | a database of files | descriptors_from_proto_files, parse_descriptors | protobuf's Importer |
| Descriptor | `descriptor.{hpp,cpp}` | `db_`, `pool_`, `factory_`, the error collector | constructors, load_json, to_json, get_method_descriptor, create_message, message_from_json, debug strings | messages and methods point into it |
| Error collector | `extern/error_collector.{h,c}` | an array of records and their messages on the heap | create, add, has_fatal_error, copy, free | Descriptor, the commands |
| Connection and its options | `connection.{hpp,cpp}`, `extern/options.{h,c}`, `cli/cli_util.cpp`, `util.cpp` | option records, credentials, channel | create_connection, options_from_json, create and free | Session, reflection |
| `auxl_grpc_cli call` | `cli/auxl_grpc_cli.cpp`, `cli/cli_util.cpp` | options, the menu | cmd_call | Descriptor, Connection, Session |
| `auxl_grpc_cli describe`, `message`, `main` | `cli/auxl_grpc_cli.cpp` | options | straight-line commands | Descriptor, Connection |
| C interface | `extern/tool.cpp`, `extern/*.h` | handles, metadata containers, response structs, ExternSessionDelegate | one C function per operation of the classes | everything above |
| InsecureCertificateVerifier | `grpc/insecure_certificate_provider.h` | none | Verify | gRPC's TLS code |
| Helpers | `util.{hpp,cpp}` | none | call_info, load_file, split_service_method, options_from_json | the commands |
| Vendored headers, build, tests | `vendor/`, `CMakeLists.txt`, `test/` | none | none | none |

What is hard in it:

- **Two threads on one completion queue.** The caller writes, `read_thread_`
  takes every completion, those of the writes included, and tells the caller
  through a flag, a mutex and a condition variable. Completions of different
  operations come in any order; the wait may wake up spuriously.
- **The RPC may end at any time**, by the server's status, the deadline
  (`connection->timeout`) or the loss of the connection, while a write is in
  flight, before the first write, or before the call was started.
- **Calling rules that no type shows**: Finish only after the reader is done,
  start only after close, one write at a time, load_json before any lookup,
  messages not beyond their Descriptor, copies of an error collector not freed
  along with the original.
- **A cache in front of an unreliable server**: positive and negative entries,
  files that arrive with the answer to another question, files entered by name
  and by a part of what they define.
- **Partial failure**: the stream breaks between listing and lookup, the server
  answers with errors of which nobody hears, a message file cannot be read, one
  value of the options file is wrong.

What makes each component correct:

- CliCall: a write returns only when its operation left the queue; a parked
  writer is always woken; each `cq_.Next` meets what it expects; assertions
  hold; nobody waits for ever; one write outstanding.
- Session: keeps CliCall's rules; leaves no thread and nothing in flight after
  close; delivers every response of a call that ended well, in time; metadata
  once; close and send_message return.
- C interface: a client that keeps the rules reaches nothing that is gone; the
  client has had all of a call that ended well; no callback outside a call.
- Reflection database: answers agree with the cache; only denials remembered;
  no needless requests.
- descriptors_from_reflect and describe: nothing is missing but what did not come
  when it was asked for; no empty file, no crash without a lost answer or a
  clash; the verdict is that of the files and of the stream; what is described
  can be called.
- Proto files: every given file is read, with its imports, from the directory
  it was given in.
- Error collector: no message freed twice or used after; a fatal error is seen;
  nothing leaks; what was reported stays.
- Descriptor: database, pool and factory belong together; no dangling access
  by a client that keeps the calling rules; the message made from a type is the
  one specified, for types that contain themselves too.
- Options: each record freed once; TLS when asked for, and never a channel
  without it by the way.
- Commands: the right number of messages, a clean return, and a return at last.

The list `hazards` in PROJECT.json gives each of these at its line, with the
property that covers it or the reason why none does yet.

## 2. Plan

Order of work, most important behaviour first; `done` is on disk.

| # | Module | Of | State |
|---|---|---|---|
| 1 | GrpcCall, CliCall, CliCallProofs | the handshake of writer and reader | done |
| 2 | CallPromise, Session, SessionProofs | the session over CliCall, and the abstract specification of what it promises | done |
| 3 | ErrorCollector, MCErrorCollector, ErrorCollectorProofs | the C list of errors | done |
| 4 | ReflectionDb, LookupClient, Directory, MCLookup, LookupProofs | the reflection cache, any client of it, and the abstract specification of what it answers | done |
| 5 | DescriptorsFromReflect, MCReflect | ReflectionDb composed with the function that uses it | done |
| 6 | CallCommand, CommandProofs | Session composed with the command that uses it | done |
| 7 | BuildMessage, Descriptor, MCDescriptor, DescriptorProofs | lifetimes, and the recursion of build_message | done |
| 8 | ConnectionOptions, ProtoFiles, DescribeCommand, MCDescribe, DescribeProofs | the describe command with all it calls: options, proto files, reflection | done |
| 9 | ExternApi, ExternProofs | the C interface over Session | done |
| 10 | variants | two writers on one CliCall; CliCall's single-threaded path (Write, Read, WritesDone); parse_descriptors; several sessions and threads behind the C interface | open |

Abstract specifications: CallPromise (what a delegate and a caller may rely on,
with no thread, mutex or queue in it), Directory (what a DescriptorPool may rely
on when it asks the reflection database, with no stream, request or cache in it)
and CliCall's `Spec` itself, seen from Session, as the calling rules Session must
keep. CallCommand and ExternApi are
users of Session in the same sense: each of their steps is a step of
`SessionSpec` (theorems CommandRunsSession and ExternRunsSession), so what holds
of a session holds of the one behind a command or behind the C interface.
BuildMessage states what the recursion is to compute as a definition without
recursion, `Specified`.

## 3. The modules

### GrpcCall (external) and CliCall

GrpcCall gives each of the five tags of `cli_call.cc` a slot: idle, pending,
completed "ok" or "failed". `NextEvent(t)` is `cq_.Next`: it takes any completed
slot, so completions are unordered across tags. A write fails only when the RPC
is over; a read gives a response, or fails when the RPC is over and nothing is
left (an RPC that ended in error may drop responses); Finish completes when the
RPC is over. `RpcEnds` is the server's status, the deadline or the lost
connection. With `EarlyEnd = FALSE` the RPC ends only after the client's
half-close: the ordinary server that answers when the client is done.

| CliCall | `vendor/cli_call.cc` |
|---|---|
| EnterConstructor, Constructed | the constructor (both overloads share it): PrepareCall, StartCall, `cq_.Next`, `finish_status` |
| EnterWrite, WriterIssues, WriterResets, WriterChecks, SpuriousWakeup, WriterRelocks | WriteAndWait (tag 2) and WritesDoneAndWait (tag 4): lock, start, `write_done_ = false`, the wait loop, unlock |
| EnterRead, ReaderTakes, ReaderNotifies, ReaderTakesAgain, ReaderReturns, ReaderEnds, ReaderDrains | ReadAndMaybeNotifyWrite: Read, the first `cq_.Next`, the loop with its notify and its assertion, return true, the end with the wait under the mutex and its assertion |
| EnterFinish, Finished | Finish |

`write_mu`, `write_done` are the members; `writer` and `reader` are the program
counters of the two threads, cut where another thread may interleave: at each
lock, each blocking call and each access of shared state outside the lock.
`write_done_` has no initialiser in the class, so a new call starts with either
value. Each entry point is two operators: Enter... is the code, May... is the
rule its caller has to keep; the module's own `Next` conjoins both, Session uses
Enter... alone. A `GPR_ASSERT` that fails stops the process: `aborted` keeps
which one did.

### Session and CallPromise

Session adds the caller (`user`: in start, send_message or close) and
`read_thread`, both calling CliCall's operators, so that every interleaving of
CliCall is one of Session. The delegate is counters: `sent`, `received`,
`meta_given`, `outcome`. `HonoursCliCall` is CliCall's `Spec` as a property:
every step of the session is a step of CliCall made by a caller that keeps the
rules. `KeepsPromise` refines CallPromise by mapping `user` to its `stage`; the
read thread, the mutex and the queue disappear.

Two properties split `CallsReturn`, which needs fairness, into two that need
none. `GoesOn` lists the guards of the steps that SessionFairness is about, and
`OnlyStuckCallsHang` says that while a call is under way one of them holds, or
the call is `Stuck`. `Work` weighs what is left to do, and `WorkIsUsedUp` says
that each step but a new call, a response and a spurious wakeup makes it less.

### CallCommand

`cmd_call` as the caller of a Session: the early returns, `json::parse` and
`as<>` that throw, the menu, and `load_and_send_message_at_path`, which skips a
file it cannot read. `args` is everything the user and the file system may give
it. When cmd_call returns, its locals are destroyed, which is what
`ReturnsClean` is about.

### ReflectionDb, LookupClient, DescriptorsFromReflect

ReflectionDb has the state of the class, and one operator per lookup with its
result as a parameter. A file is a model value; `Home` and `Imports` say which
file defines a symbol and what it imports. `cached_db_` belongs to protobuf, and
what its `Add` does is knowledge of that library, not of this source: it enters
a file under its name first, then under each symbol and extension, and gives up
at one that another file has. `Clashing` are the files to which that may happen;
`cached` has names, symbols and extensions, so that such a file is found by its
name and by any part of what it defines. The code ignores the result of `Add`
and never asks for the file again (`known_files_`), but asks for the missing
symbols each time. The test of `known_files_` in FindFileByName never decides
anything: what is known by name is found in `cached_db_` before.

The answer to a request is any part of what the file needs (servers differ in
what they send along), NOT_FOUND, another error response, or the end of the
stream. An error response leaves the stream open and its status OK. A stream
ends with an error status (`broken`) or, if the server just closes it, with OK:
the client sees the same failed Write or Read in both cases and learns the
difference from Finish, in `CloseStream`. `denied` and `lost` are history
variables; `Listing` in `lost` stands for a list of services that did not come.
LookupClient performs any lookups in any order; DescriptorsFromReflect is the
function of `parser.cpp` with the DescriptorPool between it and the database
(external: it asks for the symbol's file, then for the imports; with
AllowUnknownDependencies a missing import is a placeholder). A file that the
pool has built or given up is not asked for again; one that clashes with a file
in the pool may be refused, and then a service that it defines is a null
pointer.

Directory is what the lookups promise: an answer says whether the name, symbol
or extension is held, things are only added, a symbol or an extension may be
given up until it comes in with another answer, and a name never is given up.
LookupClient maps `cached` and the two sets of misses to it (`IsDirectory`);
`known_files`, the extension numbers, the stream and the errors disappear.

### ErrorCollector

Ownership of the messages: they are heap addresses, the records are private to
their array, and `fault` is the first access to something freed.

### Descriptor and BuildMessage

Descriptor numbers the objects of each load: a message of load n stands as long
as pool, factory and database are those of load n; load_json replaces the three
members in the order of its assignments. `misuse` records when a client broke
one of four rules that can be stated without looking inside. create_message runs
BuildMessage, which has the recursion of build_message as a stack of calls and a
message as the set of what was set in it. `max_depth` is 1, as every caller
leaves it.

### ConnectionOptions, ProtoFiles, DescribeCommand

| Module | Code |
|---|---|
| ConnectionOptions | cli_create_connection with the option records: `options_from_json` (any value of the file missing, right or blank), the record it replaces, `create_connection` with its credentials and the verifier it installs, the release |
| ProtoFiles | descriptors_from_proto_files: one virtual directory on which every given file's directory is mapped, one Import per given file by base name, the files stored, ParserErrorCollector |
| DescribeCommand | cmd_describe and the constructor of Descriptor: connect, proto files, reflection, the test for a fatal error, the output |

DescribeCommand EXTENDS the other two and DescriptorsFromReflect, and runs each
part with the part's own operators. The parts share the error collector (a
counter here: how many errors, is one of them fatal; ErrorCollector has the
memory) and the database of descriptors (a name from a file is not replaced by
the server's). protobuf's Importer and its parser are external: a file parses
or does not, gives a warning or does not, and imports names; imports are assumed
to have no cycles. Errors are stored in the order warnings, error, warnings.

With enable_tls and no path of root certificates, `connection.cpp:39` hands an
empty path to gRPC's FileWatcherCertificateProvider, which asserts that it has
one: Connect goes to `aborted` and the command with it (`Asserts`, external,
from knowledge of gRPC). The verifier on every TLS channel is
InsecureCertificateVerifier, which accepts what it is given: `verify_server_certs`
and `check_call_host` are gRPC's own checks, switched by validate_tls. `call`
makes its connection with the same function, so what is checked of it here holds
there; CallCommand starts after it.

### ExternApi

Session behind `extern/tool.cpp`: handles that the client may free at any time,
the callbacks of ExternSessionDelegate on the read thread, the metadata
container. A client act that breaks one of seven rules only adds to `broken`;
`fault` is what goes wrong later, if anything does. `RulesSuffice` relates the
two. A callback that itself sends or closes is the action Replies. Simplified:
one client thread, one object of each kind, created in the order of `tool.h`,
and the client's own thread does nothing while a callback of its replies. The
memory of responses, strings and request metadata is left out, and with it that
ExternSessionDelegate (`extern/tool.cpp:131`) is never freed and that
session_did_close passes on text without a terminating zero.

Every module has a section of *faulty variants*. No specification uses them:
each is the form a bug in the operation of the same name would take, and shows
that a property of the module notices that bug.

## 4. The runs

Passing runs. Deadlock is not checked anywhere, since the programs modelled may
stop: an assertion fails, a caller waits for a dead call, the program returns.
What must not stop is stated instead: `StuckOnlyAfterEarlyEnd` says when a
thread of CliCall may be stuck, and the liveness properties say what returns.

| Run | Bounds | What it shows |
|---|---|---|
| clicall_any | 2 calls, 2 writes, 2 responses, RPC may end any time, caller may use a refused call | writes return only when completed, no wakeup is lost, each Next gets its own; assertions fail and threads get stuck only after an RPC that ended before the half-close or on a refused call; the flag is trusted blindly only before the first write; the reader sees the end |
| session_any | 2 calls, 2 messages, 2 responses, RPC may end any time | the session keeps CliCall's rules and CallPromise; safe to destroy or start again after close; metadata once; all responses delivered before "ok", none after; start, send_message and close return unless the RPC ended early; nothing else can block them, and each of their steps uses up `Work` |
| call_any | 1 call, 2 sends, 1 response, up to 2 message files, all arguments | one message on a unary call, a clean return, an empty call only for an unreadable or unchosen file; the command ends unless the RPC ended early |
| extern_any | 2 calls, 1 message each, 2 responses, 2 metadata entries, any order of C calls, RPC may end any time | seven rules suffice; the client is given everything; callbacks come only inside a call; a callback that sends or closes never comes back |
| lookup_any | 2 files, one of which clashes and imports the other, 2 symbols, 1 extension; 590 489 states | the lookups implement Directory, so the caches never contradict each other or hide what came in; they remember only denials, and settle later lookups without a request |
| describe_any | every options file; 8 lists of up to 2 proto files over 2 directories with names in common, one file that does not parse, two with warnings, 2 errors per collector; a server with 2 services in 4 files, imports three levels deep, two of which clash, any of error responses, a broken stream and one ended with OK; 72 350 states | given files are read; no description exactly when a file or the stream failed; the output lacks only what was asked for and did not come; a crash only after a lost answer or a clash; options freed once; TLS when asked, an abort without roots, plaintext only by a blank value; the command returns, with less left to do after every step |
| errors_distinct | 3 collectors, 4 messages, 2 records per collector | no fault, a fatal error missed only when full, only dropped messages leak |
| descriptor_any | 2 loads, 4 message types: a time stamp, a map entry, a oneof, a type that contains itself | every fault needs one of four named misuses; build_message gives the message specified |

Runs that refute a statement of the repository (section 6): write_hangs,
write_after_end, errors_copied, reflect_transitive.

MCErrorCollector gives its module a symmetry; MCLookup, MCReflect, MCDescribe
and MCDescriptor the graphs of files, the disk and the message types; the other
modules take their constants from the cfg directly. Type invariants are not run
any more where they are proved (section 7): they were invariants of these runs
until then. The same goes for three invariants that a theorem states and a
stronger property of the run has in it or a reader learns little from: `Coherent`
(Descriptor), `AnswersAreTrue` (LookupClient, now a part of `IsDirectory`) and
`ErrorsOnlyGrow` (ErrorCollector).

Why the bounds are enough. CliCall: two calls let the second object meet what
the first left behind; a second write meets a flag that the first one left up,
and a third adds no new value of flag, mutex or slot; two responses give the
reader one round that returns and one that overlaps a write. Messages carry no
data that the code of these modules looks at. Session: the same, plus a restart.
Lookups: with two files the answer to one question may bring the file of
another, and a clash shows in two symbols and an extension, one of which may
come and not the others. Reflection: two services share a dependency, one file
imports the other, and an import of an import is the deepest case the code
distinguishes. ErrorCollector: three collectors allow a copy of a copy; two
records fill an array (32 in the code) and a third is dropped. Descriptor: two
loads are the least that makes something stale; BuildMessage sees every kind of
field, first, last and next to its siblings, and nests one level deeper than
max_depth allows. Describe: two files and two directories are the least in which
a name can be served from the wrong place, and two errors the least array that
warnings can fill before the error comes. C interface: a second call shows what
may be freed between calls, the second metadata entry is the one a container
that is too small drops. All bounds are CONSTANTS (`MaxCalls`, `MaxWrites`,
`MaxResponses`, `MaxFiles`, `MaxErrors`, `MaxLoads`, `MetaEntries`) and stand in
the guards. The proofs of section 7 need none of them.

## 5. Fairness

- Each thread takes its enabled steps (WF), the completion queue completes what
  was started (WF). This is the scheduler's and gRPC's promise.
- ReaderNotifies and ReaderEnds have SF: they lock `write_mu_`, which a writer
  woken spuriously again and again could hold at every moment the reader looks.
  A mutex that comes free infinitely often is assumed to be obtained at last.
- SpuriousWakeup, ServerResponds and the caller's next operation have none: none
  of them is owed.
- `RpcEnds` is fair only after the half-close: the server ends a call whose
  client is done. Nothing in the code makes a server end one earlier, and a
  `timeout` may be "never".
- In CliCall alone BeginRead is fair ("must be used with
  ReadAndMaybeNotifyWrite"); in Session that is the loop of read_response.
- CallCommand: SF on Quit, a user (or the end of the input) leaves the menu at
  last; the menu is left and re-entered with each message, hence strong.
- DescribeCommand: WF on the whole command, which includes that the server
  answers each request or the stream breaks. The code sets no deadline
  on the stream, so this is an assumption about the server, not about the code.

"Ended early" (`early`) means that the RPC was over before the client's
half-close. `CallsReturn` and `CommandEnds` promise a return on every behaviour
where that never happens, and nothing on the others; the run write_hangs shows
why (`WriteReturns` without that condition is false). Behaviours with and
without an early end are both in the runs.

## 6. Where code and text disagree

Each of these is refuted by a run of its own:

| Run | The text | What happens |
|---|---|---|
| write_hangs | `cli_call.h:75-77`: WriteAndWait sends "and wait[s] for ReadAndMaybeNotifyWrite to finish it" | after the server ended the RPC the reader is gone and the write never returns |
| write_after_end | `cli_call.cc:182-188`: wait for the pending write; assert that it is not tag 2 | the pending write of a WriteAndWait has tag 2: the wait described aborts |
| errors_copied | `error_collector.h:74`: "a deep-copy ... that you'll need to free" | messages are shared, freeing both frees them twice |
| reflect_transitive | `README.md:43-53` of the repository: describe, then call | imports of imports are not stored and the method is not found |

Related behaviour has no run that fails on it. The models contain it, and a
property says exactly when it can happen:

| Behaviour | Property that bounds it |
|---|---|
| `cli_call.cc:177`: the peer ends the RPC under a write; met in the loop the assertion aborts, met by the first Next the same failure is ignored | `AbortsOnlyAfterEarlyEnd` |
| `cli_call.cc:182-187`: with nothing written, the uninitialised `write_done_` may send the reader waiting, mutex held, for a write that does not exist | `BlindDrainOnlyBeforeFirstWrite` |
| `session.cpp:61` and `README.md:33-35` of the repository: the result of start is ignored, start is refused, send_message never returns | `StuckOnlyAfterEarlyEnd`, `KeepsPromise` under `ChecksStart` |
| `parser.cpp:130`: a listed service that cannot be resolved, because a lookup was lost or its file clashes, is dereferenced as a null pointer | `CrashOnlyIfLost` |
| `auxl_grpc_cli.cpp:225`: `call` without --message ends in an uncaught exception | none: nothing was started; `CommandEnds` counts it as an end (`cmd = "terminated"`) |
| `README.md:69` of the repository, "Omit or leave blank any value that's not pertinent": a blank timeout or validate_tls makes nlohmann's `get` throw, `util.cpp:68` catches it and gives the defaults for the whole file, and a file that asks for TLS gets a plaintext channel | `TlsUnlessBlank`: exactly then, and in no other way |
| the same sentence: with enable_tls and pem_root_certs_path omitted or blank, `connection.cpp:39` makes gRPC abort | `TlsUnlessBlank`: `aborted` only then |
| `parser.cpp:120`, `130-141`: error responses of the server, to the listing or to a lookup, and a stream it ends with OK, are reported by nothing: describe prints what it has, at worst an empty description or an empty file, and no error | `PrintedIsComplete`: what is missing was asked for and lost; `VerdictIsTrue`: none of it is in the verdict |
| `proto_reflection_descriptor_database.cc:314`: a file that clashes is known, and found by its name, but not by all it defines; those symbols are asked for at each lookup | `IsDirectory`, `SettledIsNotAskedAgain` |
| `README.md:69` of the repository names the options `use_ssl` and `ssl_root_certs_path`; `util.cpp:57-61` reads `enable_tls` and `pem_root_certs_path`, so a file written after that text asks for nothing and gets a plaintext channel | none: the models begin with the names that the code reads |
| `parser.cpp:80`: a given file that is not in its directory is served, without a word, from another directory that has its name | `GivenIsRead` |
| `error_collector.c:42`: 32 warnings hide a fatal error, and describe prints what it has | `VerdictIsTrue`, with `missed` |
| `descriptor.cpp:248`: a second load_json frees the pool before the factory that uses it | `FaultNeedsMisuse`, rule `reloaded_after_use` |
| `parser.cpp:169`: descriptors that are not JSON end the program in an uncaught exception | none: nothing was started |
| `extern/tool.cpp:150`, `session.cpp:39`: a callback that calls session_send_message or session_close waits for itself | `ReplyParks`, rule `reply_later` |

## 7. What is proved

The eight proof modules hold for every value of the constants: any number of
calls, writes, responses, loads, collectors, files, imports and message types, a
server with or without `EarlyEnd`, a caller with or without `ChecksStart`. They
assume only what the modules that declare the constants assume: bounds are
naturals, switches Booleans, a path not empty, files and services finite and of
the right kind (they come from lists in the server's memory and from command
lines; the measures of describe count them). Every safety and action property
and every refinement that a passing run checks is also a theorem. Some theorems
have hypotheses on the constants, and say so where they are stated: `~EarlyEnd`,
a peer that leaves the RPC open until the half-close; `ChecksStart`, a caller
that heeds the result of start; `MaxCalls > 0` and `MaxWrites > 0`, bounds that
leave room for one call and one message.

Hardly any of the properties is inductive as it stands: that a parked writer
will be woken depends on where the reader is, on who holds the mutex and on
which operations are in flight. Each proof module therefore starts with an
inductive invariant, which includes the type invariant.

**CliCallProofs.** `IInv` is the type invariant, `NextGetsItsOwn` and five
parts: `PhaseInv` (where the threads can be in each phase), `MutexInv`
(`write_mu_` is held exactly around the critical sections), `SlotInv` (one read
in flight while the reader waits for it; the only write in flight is the one the
writer waits for), `FlagInv` (what `write_done_` says about that write) and
`EndInv` (an operation fails only when the RPC is over, and how it can have
ended). `StepHolds` has one step per action, split by part where an action
disturbs several.

**SessionProofs.** `StepIsCliCall` shows that every step of a session is a step
of CliCall by a caller that keeps the calling rules (the `May...` guards), or
leaves CliCall alone. So `IInv` is kept by CliCall's own `StepHolds`, and
`SInv` only adds what Session adds: `UserInv`, `WriteInv` and `ReadInv` (how the
caller, the read thread and the phase of the call move together), `DeliverInv`
(every response is on its way, in the hand of the read thread, or delivered),
`RpcInv` and `MetaInv`. The same lemma is the heart of
`SessionHonoursCliCall`, and `SessionKeepsPromise` maps each action of Session
to an action of CallPromise or to a stutter.

*Why a call comes back.* Liveness is out of the provers' reach, but what makes it
true is not. Under the fairness of section 5, a call returns if, while it is
under way, some step that fairness is about is enabled, and if such steps cannot
go on for ever. Both halves are safety properties, and both are proved:

- `SessionDoesNotDeadlock`. `UnderWay` and `WritesInv` add to `SInv` that what
  somebody waits for has been asked for: an open call has reached the peer and
  has its read thread, the constructor and Finish have their operation in
  flight. `NobodyWaitsForEver` then goes round whoever could block: the mutex is
  held by a reader only at the last `cq_.Next`; a writer parked with its flag
  down has its write in the queue, where a reader is about to meet it; a reader
  with nothing in the queue has a read pending, which the peer ends after the
  half-close. What is left is `Stuck`: a writer that parks after the reader is
  gone, and the wait for a write that does not exist.
- `SessionDoesNotLivelock`. `SessionWork` has one step per action. Each lemma
  about the completion queue (`StartOpWork`, `NextEventWork`, `CompleteWork`)
  says how the weight of the operations in flight moves; the weights are chosen
  so that a step pays for all that it sets off: a completed read for the delivery
  and for the next read, a call of send_message for the lock, the write, its
  completion and the wakeup.

`UndisturbedSessionGoesOn` removes the reservation: with `~EarlyEnd`, CliCall's
`UndisturbedCallsAreSafe` (an RPC is never `early` then, hence nobody is stuck
and no assertion fails) leaves only `GoesOn`. Two things stay with TLC: that
`GoesOn` is ENABLED of the fair steps, and the step from the two halves to
`CallsReturn`. The strong fairness of section 5 is needed exactly because
`SpuriousWakeup` is among the steps that may add work.

**CommandProofs and ExternProofs** build on that: each step of the command or of
the C interface is shown to be a step of Session or to leave it alone, so `SInv`
comes for nothing. `CInv` adds where the command is (`WhereInv`) and what it has
sent (`SentInv`). The command has its own pair of halves for `CommandEnds`:
`CommandDoesNotDeadlock` (while cmd_call is not at its menu, a step of it or
`GoesOn` is due, or the session is stuck) and `CommandDoesNotLivelock`, whose
measure adds to `Work` the steps that cmd_call has left, each weighed with what
it gives the session to do; only a choice at the menu, a response or a spurious
wakeup adds to it. `RulesLetTheClientGoOn` is what the session's theorem means
to a client of the C interface: with an undisturbed RPC the seven rules are
enough not to hang, too. `RepliesPark` shows that one of them, at least, is
necessary. `ExternInv` adds `RulesInv` (what a call in progress points to is
there while the client keeps the rules), `FreshInv`, `GivenInv` (what the client
was given against what the session received) and `ReplyInv` (a callback that
calls back keeps the read thread out of CliCall, so the flag stays down).

**DescriptorProofs.** `LoadInv` says to which load database, pool and factory
belong, between the three assignments of load_json too, and that a prototype
alive while load_json runs is a misuse already recorded. `BuildInv` is the loop
invariant of build_message: what each call on the stack has set is what is
specified of the fields it has passed. It holds for any schema, and the
recursion over the types is gone from it because the stack is never deeper than
`MaxDepth + 1`.

**LookupProofs.** `LInv` relates the caches to one another and to what the server
denied: a file is known exactly when its name is cached, the symbols and
extensions denied are those remembered as missing, and the last answer agrees
with the cache. `DatabaseIsDirectory` is a
refinement: every lookup maps to one action of Directory (`Recall` for an answer
without a request, `BringIn` for whatever an answer of the server brings, or
does not, `GiveUp` for NOT_FOUND) or to `Other`. It needs from `LInv` that a
lookup answers with the cache it leaves behind, on every path through the code,
and that the two sets of misses do not meet, so that one set can stand for both.

**DescribeProofs** has one invariant for each part and one for the command
around them: `RInv` (the server: what is stored, and what is still due for each
service listed; what is missing was lost), `OInv` (the option records by stage,
and the credentials), `FInv` (after each given file, it is stored with its
imports or an error is reported) and `CommandInv`. `DescribeInv` is their
conjunction; a step of one part leaves the others alone. `FailedStays` says that
an error status, once the stream has it, is still there when the verdict is
given; the verdict needs that CloseStream hands on the status with which the
stream broke, in whichever request that was. `DescribeGetsOn` is the half of
`DescribeReturns` that no fairness is needed for: each step makes `WorkLeft`
less, since a service leaves the list, an import the set of those to fetch, or
the pool builds or gives up one more of finitely many files. Two theorems tell
how far the finding of the run reflect_transitive reaches: a described service
can be called exactly when all its file needs, however deep, was stored for some
service and nothing of it clashes (`ResolvesWhatIsOneLevelDeep`), and so always
when the files import one level deep (`ShallowServicesResolve`), which is the
case the code is written for.

**ErrorCollectorProofs.** `IInv` adds to the properties who may point to a
message: the records of a live collector point to the heap, each to a string of
its own, and none to an address still to be returned. The calling rule
(`FreesShared` false) is used once, in the step for free.

| Theorem | Says |
|---|---|
| CliCallProofs!TypeCorrect | `TypeOK` |
| CliCallProofs!WritesComplete | a write returns only after its operation left the queue |
| CliCallProofs!NoLostWakeup | a parked writer is always going to be woken |
| CliCallProofs!TagsAreSeparate | every `cq_.Next` can only meet what it expects |
| CliCallProofs!AssertionsHold | assertions fail only after an early end; that of Finish never |
| CliCallProofs!FlagIsAccurate | after the first write the ending reader can trust `write_done_` |
| CliCallProofs!NobodyIsStuck | no thread is stuck on a started call whose RPC outlives the half-close |
| CliCallProofs!UndisturbedCallsAreSafe | with a peer that ends no RPC early, nobody is stuck on a started call and no assertion fails |
| CliCallProofs!UndisturbedCallsDrainNoWrite | with such a peer the assertion that write_after_end refutes holds |
| CliCallProofs!WritesAreSerial | the library never has two outstanding writes of one call |
| SessionProofs!SessionHonoursCliCall | Session keeps CliCall's calling rules (refinement) |
| SessionProofs!SessionKeepsPromise | Session implements CallPromise if its caller heeds start (refinement) |
| SessionProofs!SessionIsSafeToDestroy | nothing of a call is left after close or a refused start |
| SessionProofs!ResponsesAreDelivered | a call closed as ok has had all its responses delivered |
| SessionProofs!MetadataIsGivenOnce | metadata comes with the first response only |
| SessionProofs!SessionDoesNotDeadlock | a call under way goes on, or is stuck in one of two ways |
| SessionProofs!SessionDoesNotLivelock | every step of the session and below uses up a measure |
| SessionProofs!UndisturbedSessionGoesOn | with a peer that ends no RPC early, a call under way goes on |
| SessionProofs!SessionTypeCorrect | `SessionTypeOK` |
| CommandProofs!CommandRunsSession | the call command is a user of Session that keeps its rules |
| CommandProofs!CommandReturnsClean | no return of the command leaves a thread or an operation behind |
| CommandProofs!CommandSendsOne | a method that takes one message gets at most one |
| CommandProofs!CommandKnowsEmptyCalls | nothing is sent only if the file was unreadable or none was chosen |
| CommandProofs!CommandDoesNotDeadlock | cmd_call waits for nothing but its user, or a stuck session |
| CommandProofs!CommandDoesNotLivelock | every step of cmd_call and below uses up a measure |
| CommandProofs!UndisturbedCommandGoesOn | with a peer that ends no RPC early, cmd_call hangs nowhere |
| CommandProofs!CommandTypeCorrect | `CommandTypeOK` |
| ExternProofs!ExternRunsSession | the C interface is a user of Session that keeps its rules |
| ExternProofs!ClientRulesSuffice | a client that keeps seven rules reaches nothing that is gone |
| ExternProofs!ClientIsGivenAll | a call closed as ok has given the client all responses and the metadata |
| ExternProofs!CallbacksComeInCalls | no callback runs when no call is open |
| ExternProofs!RepliesPark | a callback that sends or closes never comes back |
| ExternProofs!RulesLetTheClientGoOn | with such a peer, a client that keeps the rules hangs in no function |
| ExternProofs!ExternTypeCorrect | `ExternTypeOK` |
| DescriptorProofs!RulesSuffice | a client that keeps four rules meets no dangling or null pointer |
| DescriptorProofs!MembersAgree | database, pool and factory are of one load between calls |
| DescriptorProofs!MessagesAreAsSpecified | build_message gives the message specified, for any schema |
| DescriptorProofs!TypeCorrect | `TypeOK` |
| LookupProofs!CacheAnswersTruly | no lookup contradicts the cache |
| LookupProofs!FailuresAreForgotten | only NOT_FOUND is remembered |
| LookupProofs!AnswersAreKept | what was answered is not asked again |
| LookupProofs!DatabaseIsDirectory | the lookups implement Directory (refinement) |
| LookupProofs!LookupTypeCorrect | `TypeOK` |
| DescribeProofs!GivenFilesAreRead | every given file is in the description, from the right directory |
| DescribeProofs!VerdictsAreTrue | describe fails exactly when a given file could not be read or the stream ended with an error status, unless the array was full |
| DescribeProofs!PrintsAll | the description of any server lacks only what was asked for and lost |
| DescribeProofs!CrashesOnlyIfLost | the null descriptor is met only after a lost answer, or for a file that clashes |
| DescribeProofs!OptionsFreedOnce | each option record is freed once |
| DescribeProofs!TlsIsLostOnlyToBlanks | TLS when the options file asks for it, an abort without roots, plaintext only for a blank value |
| DescribeProofs!DescribeGetsOn | each step of describe leaves less to do |
| DescribeProofs!ResolvesWhatIsOneLevelDeep | a described service resolves exactly when all it needs was stored and does not clash |
| DescribeProofs!ShallowServicesResolve | with imports one level deep and no clash, every described service can be called |
| DescribeProofs!DescribeTypeCorrect | `DescribeTypeOK` |
| ErrorCollectorProofs!MessagesAreSafe | no message is freed twice or read after it was freed |
| ErrorCollectorProofs!FatalIsSeen | a fatal error is missed only by a full array |
| ErrorCollectorProofs!LittleLeaks | only dropped messages leak |
| ErrorCollectorProofs!ReportsStay | no record of a live collector changes |
| ErrorCollectorProofs!TypeCorrect | `TypeOK` |

## 8. Model-checked only, and not modelled

Only model-checked: the liveness properties (`ReaderSeesTheEnd`, `CallsReturn`,
`CommandEnds`, `DescribeReturns`), since fairness and ENABLED are outside what
the provers handle, and the four refutations of section 6. For the last three
the two safety halves are theorems (section 7). For `ReaderSeesTheEnd` they are
not: its reader waits for the mutex across spurious wakeups of the writer, so
what makes it true is the strong fairness itself.

Not modelled, and why:

- contents of messages, JSON, descriptors and log lines; no property here is
  about them. What build_message sets is modelled, what JSON conversion
  (protobuf) does with a message is not.
- parse_descriptors: a straight loop over a JSON list. Its outcome is seen as
  Descriptor's LoadDatabase, its exception as `terminated` in CallCommand.
- CliCall's single-threaded operations Call, Write, Read, WritesDone, and two
  threads that write on one call: no code of the repository does either.
- `message` and `main`: option parsing and printing around calls that are
  modelled. parse_metadata is part of that; it splits at the last colon
  (`cli/cli_util.cpp:70`), so a value with a colon moves into the key.
- the printing delegates, the time stamp of CliSessionDelegate included: it is
  shared between two threads without a lock, and only printed.
- what gRPC's TLS code does with InsecureCertificateVerifier and the switches, and
  the channel arguments: that they are set is modelled for the former only.
- which of the symbols of a clashing file `Add` and the pool accept: any part of
  them, since the order is protobuf's.
- the order of completions within gRPC beyond "one slot per tag": the code uses
  each tag for one operation at a time, which `NextGetsItsOwn` and
  `OneWriteAtATime` check for two threads.
- the two vendored header libraries, `include/nlohmann/json.hpp` (26753 lines)
  and `include/cxxopts.hpp` (2709 lines). They are third-party code, used through
  a few calls, and make up more than nine tenths of the lines under `src/`: whatever is
  modelled of the repository's own code is a small share of the whole.
