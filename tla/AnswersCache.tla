----------------------------- MODULE AnswersCache -----------------------------
(***************************************************************************)
(* The parsed answers archive that /api/applications keeps between polls   *)
(* (dashboard/api.py, _answer_entries_cached): the modification times of   *)
(* the files are the signature, and the entries are parsed again when it   *)
(* has changed.  Requests run on threads, and the signature is written     *)
(* before the files are parsed.                                            *)
(*                                                                         *)
(* The archive is a number, which grows when a file changes; parsing reads *)
(* the files as they are, or raises.                                       *)
(***************************************************************************)
EXTENDS Naturals

CONSTANTS Readers,     \* requests for /api/applications that are served at once
          MaxVersion   \* bound: changes of the archive

ASSUME AnswersAssumption == MaxVersion \in Nat \ {0}

VARIABLES version,   \* the files of the archive
          sig,       \* _answers_cache["sig"], 0 before the first request
          entries,   \* _answers_cache["entries"]: the version they are of
          reader,    \* reader[t]: where the request t is, and what it holds
          muddled    \* history: since the signature was last written, a parse
                     \* has raised, or two have overlapped

answersVars == <<version, sig, entries, reader, muddled>>

ReaderAt(place, holds) == [at |-> place, holds |-> holds]
Parsing == {t \in Readers : reader[t].at \in {"parse", "store"}}

AnswersInit ==
    /\ version = 1 /\ sig = 0 /\ entries = 0
    /\ reader = [t \in Readers |-> ReaderAt("off", 0)]
    /\ muddled = FALSE

\* The apply run or the human adds answers to the archive.
Change ==
    /\ version < MaxVersion
    /\ version' = version + 1
    /\ UNCHANGED <<sig, entries, reader, muddled>>

Stat(t) ==
    /\ reader[t].at = "off"
    /\ reader' = [reader EXCEPT ![t] = ReaderAt("compare", version)]
    /\ UNCHANGED <<version, sig, entries, muddled>>

Hit(t) ==
    /\ reader[t].at = "compare" /\ sig = reader[t].holds
    /\ reader' = [reader EXCEPT ![t] = ReaderAt("off", 0)]
    /\ UNCHANGED <<version, sig, entries, muddled>>

Claim(t) ==
    /\ reader[t].at = "compare" /\ sig # reader[t].holds
    /\ sig' = reader[t].holds
    /\ muddled' = (Parsing # {})
    /\ reader' = [reader EXCEPT ![t] = ReaderAt("parse", 0)]
    /\ UNCHANGED <<version, entries>>

Parse(t) ==
    /\ reader[t].at = "parse"
    /\ reader' = [reader EXCEPT ![t] = ReaderAt("store", version)]
    /\ UNCHANGED <<version, sig, entries, muddled>>

\* A file cannot be read or is not UTF-8: the request fails.
ParseRaises(t) ==
    /\ reader[t].at = "parse"
    /\ reader' = [reader EXCEPT ![t] = ReaderAt("off", 0)]
    /\ muddled' = TRUE
    /\ UNCHANGED <<version, sig, entries>>

\* Mutated form of Store: the signature is taken when the entries are kept.
Store_SignsNow(t) ==
    /\ reader[t].at = "store"
    /\ entries' = reader[t].holds
    /\ sig' = version
    /\ reader' = [reader EXCEPT ![t] = ReaderAt("off", 0)]
    /\ UNCHANGED <<version, muddled>>

Store(t) ==
    /\ reader[t].at = "store"
    /\ entries' = reader[t].holds
    /\ reader' = [reader EXCEPT ![t] = ReaderAt("off", 0)]
    /\ UNCHANGED <<version, sig, muddled>>

AnswersNext ==
    \/ Change
    \/ \E t \in Readers :
          \/ Stat(t) \/ Hit(t) \/ Claim(t) \/ Parse(t) \/ ParseRaises(t) \/ Store(t)

AnswersSpec == AnswersInit /\ [][AnswersNext]_answersVars

-----------------------------------------------------------------------------
AnswersTypeOK ==
    /\ version \in 1..MaxVersion
    /\ {sig, entries} \subseteq 0..MaxVersion
    /\ reader \in [Readers -> [at : {"off", "compare", "parse", "store"},
                               holds : 0..MaxVersion]]
    /\ muddled \in BOOLEAN

\* While the cache counts as current its entries are the archive's, except
\* during a parse and after one that raised or that another one overlapped.
\* The exceptions are real: such entries stay until a file changes again.
CurrentIsFresh ==
    sig = version /\ Parsing = {} /\ ~muddled => entries = version
=============================================================================
