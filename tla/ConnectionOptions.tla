-------------------------- MODULE ConnectionOptions --------------------------
(***************************************************************************)
(* From an options file to the credentials of a channel:                   *)
(* cli_create_connection (src/src/cli/cli_util.cpp), options_from_json     *)
(* (util.cpp), the option records of extern/options.c and                  *)
(* Connection::create_connection (connection.cpp).                         *)
(*                                                                         *)
(* A JSON file gives each key a value of its type, a blank string, or      *)
(* nothing.  Option records live on the heap; opts is the pointer of       *)
(* cli_create_connection, and records are numbered as they are allocated.  *)
(* Module DescribeCommand runs these steps where the command calls the     *)
(* function.                                                               *)
(***************************************************************************)
EXTENDS Naturals

CONSTANT Path   \* a path to root certificates

ASSUME ConnectionOptionsAssumption == Path # ""

VARIABLES
    step,      \* where cli_create_connection is
    file,      \* what is at the path given with --connection_options
    json,      \* the values in that file, when it is JSON
    opts,      \* the record opts points to
    records,   \* the records allocated so far, their contents
    freed,     \* those freed
    fault,     \* "none", "double_free" or "use_after_free"
    channel    \* the credentials of the channel, once it is made

optionsVars == <<step, file, json, opts, records, freed, fault, channel>>

Bool == {"omitted", "blank", "true", "false"}

Json == [enable_tls : Bool, validate_tls : Bool,
         timeout : {"omitted", "blank", "number"},
         pem_root_certs_path : {"omitted", "blank", "path"}]

Omitted == [enable_tls |-> "omitted", validate_tls |-> "omitted",
            timeout |-> "omitted", pem_root_certs_path |-> "omitted"]

\* "not_given" is a command without --connection_options
FileKinds == {"not_given", "unreadable", "empty", "malformed", "json"}

Options == [timeout : {"never", "number"}, enable_tls : BOOLEAN,
            validate_tls : BOOLEAN, pem_root_certs_path : {"", Path}]

\* all but tls mean something only with tls; the verifier is the one of
\* insecure_certificate_provider.h, which accepts what it is given
Channels == [tls : BOOLEAN, roots : {"", Path}, verify_server_certs : BOOLEAN,
             check_call_host : BOOLEAN,
             verifier : {"none", "InsecureCertificateVerifier"}]
Insecure == [tls |-> FALSE, roots |-> "", verify_server_certs |-> FALSE,
             check_call_host |-> FALSE, verifier |-> "none"]

OptionsTypeOK ==
    /\ step \in {"load", "parse", "connect", "release", "done", "aborted"}
    /\ file \in FileKinds
    /\ json \in Json
    /\ records \in UNION {[1..n -> Options] : n \in 0..2}
    /\ opts \in DOMAIN records \cup {0}
    /\ freed \subseteq DOMAIN records
    /\ fault \in {"none", "double_free", "use_after_free"}
    /\ channel \in Channels

\* connection_options_default
Default == [timeout |-> "never", enable_tls |-> FALSE, validate_tls |-> TRUE,
            pem_root_certs_path |-> ""]

-----------------------------------------------------------------------------
(* options_from_json.                                                      *)

\* get<bool> and get<double> throw on a string; get<std::string> takes ""
Throws ==
    \/ json.enable_tls = "blank"
    \/ json.validate_tls = "blank"
    \/ json.timeout = "blank"

\* the value given, or the default
OrElse(value, default) == IF value = "omitted" THEN default ELSE value = "true"

\* faulty variant: validate_tls defaults to false
OptionsOfUnvalidated(o) ==
    [timeout |-> IF o.timeout = "number" THEN "number" ELSE "never",
     enable_tls |-> OrElse(o.enable_tls, FALSE),
     validate_tls |-> OrElse(o.validate_tls, FALSE),
     pem_root_certs_path |-> IF o.pem_root_certs_path = "path" THEN Path
                             ELSE ""]

OptionsOf(o) ==
    [timeout |-> IF o.timeout = "number" THEN "number" ELSE "never",
     enable_tls |-> OrElse(o.enable_tls, FALSE),
     validate_tls |-> OrElse(o.validate_tls, TRUE),
     pem_root_certs_path |-> IF o.pem_root_certs_path = "path" THEN Path
                             ELSE ""]

\* anything that throws gives the defaults instead
FromJson == IF file = "malformed" \/ Throws THEN Default ELSE OptionsOf(json)

(* connection_options_create and _free.                                    *)
Allocate(contents) ==
    LET n == IF opts = 0 THEN 1 ELSE 2
    IN  /\ records' = [r \in 1..n |-> IF r = n THEN contents ELSE records[r]]
        /\ opts' = n

FreeOptions ==
    /\ freed' = freed \cup {opts}
    /\ fault' = IF opts \in freed THEN "double_free" ELSE fault

\* Connection::get_channel_credentials
Credentials(o) ==
    IF o.enable_tls
    THEN [tls |-> TRUE,
          roots |-> o.pem_root_certs_path,
          verify_server_certs |-> o.validate_tls,
          check_call_host |-> o.validate_tls,
          verifier |-> "InsecureCertificateVerifier"]
    ELSE Insecure

\* gRPC's FileWatcherCertificateProvider asserts that it is given a path
Asserts(o) == o.enable_tls /\ o.pem_root_certs_path = ""

-----------------------------------------------------------------------------
(* Faulty variants of the steps below, used by no specification.           *)

\* the defaults are not freed when a file replaces them
ReplaceLeaks ==
    /\ step = "parse"
    /\ Allocate(FromJson)
    /\ step' = "connect"
    /\ UNCHANGED <<file, json, freed, fault, channel>>

-----------------------------------------------------------------------------

OptionsInit ==
    /\ step = "load"
    /\ file \in FileKinds
    /\ json \in IF file = "json" THEN Json ELSE {Omitted}
    /\ opts = 0
    /\ records = [r \in {} |-> Default]
    /\ freed = {}
    /\ fault = "none"
    /\ channel = Insecure

\* the defaults, and load_file when there is a path
Defaults ==
    /\ step = "load"
    /\ Allocate(Default)
    /\ step' = IF file \in {"not_given", "unreadable", "empty"}
             THEN "connect" ELSE "parse"
    /\ UNCHANGED <<file, json, freed, fault, channel>>

\* connection_options_free(opts), then opts = options_from_json(...)
Replace ==
    /\ step = "parse"
    /\ FreeOptions
    /\ Allocate(FromJson)
    /\ step' = "connect"
    /\ UNCHANGED <<file, json, channel>>

\* Connection::create_connection(endpoint, *opts)
Connect ==
    /\ step = "connect"
    /\ fault' = IF opts \in freed THEN "use_after_free" ELSE fault
    /\ \/ /\ ~Asserts(records[opts])
          /\ channel' = Credentials(records[opts])
          /\ step' = "release"
       \/ /\ Asserts(records[opts])
          /\ step' = "aborted"
          /\ UNCHANGED channel
    /\ UNCHANGED <<file, json, opts, records, freed>>

Release ==
    /\ step = "release"
    /\ FreeOptions
    /\ step' = "done"
    /\ UNCHANGED <<file, json, opts, records, channel>>

OptionsNext == Defaults \/ Replace \/ Connect \/ Release

\* the locals of the function are gone
Forget ==
    /\ file' = "not_given"
    /\ json' = Omitted
    /\ opts' = 0
    /\ records' = [r \in {} |-> Default]
    /\ freed' = {}

-----------------------------------------------------------------------------
(* Every record is freed exactly once and not read after that: the two     *)
(* that a file takes, and the one a command without a file takes.          *)
FreedOnce ==
    /\ fault = "none"
    /\ step = "done" => freed = DOMAIN records

(* A file that asks for TLS gets it, with the switches as the file says,   *)
(* when it names the root certificates, and stops the program when it does *)
(* not.  Unless it leaves a switch or the timeout blank, as README.md      *)
(* (line 69) says it may: then the whole file is dropped, and the channel  *)
(* is made without TLS.                                                    *)
LeftBlank == "blank" \in {json.validate_tls, json.timeout}

TlsUnlessBlank ==
    (file = "json" /\ json.enable_tls = "true") =>
        /\ step = "aborted" =>
              ~LeftBlank /\ json.pem_root_certs_path # "path"
        /\ step = "done" => (channel.tls <=> ~LeftBlank)
        /\ channel.tls =>
              /\ channel.roots = Path
              /\ channel.verify_server_certs <=> json.validate_tls # "false"
              /\ channel.check_call_host <=> json.validate_tls # "false"

=============================================================================
