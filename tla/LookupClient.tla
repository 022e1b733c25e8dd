---------------------------- MODULE LookupClient ----------------------------
(***************************************************************************)
(* A DescriptorPool as ReflectionDb sees it: any lookup, any number of     *)
(* times, until the stream is closed.  answer is the last result.          *)
(***************************************************************************)
EXTENDS ReflectionDb

VARIABLE answer   \* the last lookup and whether it found something

vars == <<dbVars, answer>>

Lookup == [kind : {"file", "symbol", "extension", "numbers"},
           key : Keys, found : BOOLEAN]

NoLookup == [kind |-> "none"]

TypeOK == DbTypeOK /\ answer \in Lookup \cup {NoLookup}

Answer(kind, k, found) == answer' = [kind |-> kind, key |-> k, found |-> found]

Init == DbInit /\ answer = NoLookup

LookupFile(f) ==
    \E found \in BOOLEAN : FindFileByName(f, found) /\ Answer("file", f, found)

LookupSymbol(s) ==
    \E found \in BOOLEAN :
        FindFileContainingSymbol(s, found) /\ Answer("symbol", s, found)

LookupExtension(e) ==
    \E found \in BOOLEAN :
        FindFileContainingExtension(e, found) /\ Answer("extension", e, found)

LookupNumbers(t) ==
    \E found \in BOOLEAN :
        FindAllExtensionNumbers(t, found) /\ Answer("numbers", t, found)

ListAll ==
    \E found \in BOOLEAN, names \in SUBSET Symbols :
        GetServices(names, found) /\ answer' = NoLookup

CloseOnce == \E ok \in BOOLEAN : CloseStream(ok) /\ answer' = NoLookup

Next ==
    \/ \E f \in Files : LookupFile(f)
    \/ \E s \in Symbols : LookupSymbol(s) \/ LookupNumbers(s)
    \/ \E e \in Extensions : LookupExtension(e)
    \/ ListAll
    \/ CloseOnce

Spec == Init /\ [][Next]_vars

-----------------------------------------------------------------------------
(* Whatever is asked, in whatever order, and whatever the server and the   *)
(* stream do, the lookups are those of a Directory: they tell the truth    *)
(* about what came in, which stays, and a miss is remembered only of what  *)
(* may be missed for good.                                                 *)
LookedFor == answer.kind \in {"file", "symbol", "extension"}

AsDirectory == INSTANCE Directory WITH
    Names <- Files,
    Others <- Symbols \cup Extensions,
    held <- cached,
    given_up <- missing_symbols \cup missing_extensions,
    answer <- IF LookedFor THEN <<answer.key, answer.found>> ELSE <<>>

IsDirectory == AsDirectory!Spec

(* No answer contradicts the cache: a file that came in is found by its    *)
(* name, whatever it clashes with, and a symbol or an extension that was   *)
(* remembered as missing is found as soon as another request brought it.   *)
AnswersAreTrue ==
    LookedFor => (answer.found <=> answer.key \in cached)

(* Only the server's NOT_FOUND is remembered: after a failure of any other *)
(* kind the next lookup asks again.                                        *)
OnlyDenialsRemembered == missing_symbols \cup missing_extensions \subseteq denied

(* A lookup that an earlier answer settles does not ask the server again,  *)
(* nor change what is remembered.  Not settled are a file that the server  *)
(* does not know, and a symbol of a file that came in but was not entered  *)
(* under it: they are asked for every time.                                *)
Settled(l) ==
    \/ /\ l.kind = "file"
       /\ l.key \in known_files
    \/ /\ l.kind \in {"symbol", "extension"}
       /\ l.key \in cached \cup denied
    \/ /\ l.kind = "numbers"
       /\ l.key \in numbered

SettledIsNotAskedAgain ==
    [][Settled(answer') => UNCHANGED dbVars]_vars

=============================================================================
