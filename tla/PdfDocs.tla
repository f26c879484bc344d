------------------------------- MODULE PdfDocs -------------------------------
(***************************************************************************)
(* One PDF by its name, and what is derived from it: the file on disk, the *)
(* parsed document of PdfService._doc_cache and the suggested questions of *)
(* PdfService._suggestions (pdf/service.py, pdf/router.py). Uploads,       *)
(* deletes and readers work on threads of their own and take no lock on    *)
(* the name; the steps below are what each does between two points where   *)
(* another may come in. Names do not interact, so one is enough. What      *)
(* delete_pdf does to the conversation is ClearSession of AgentStream;     *)
(* guests never use one name twice, so their uploads cannot replace.       *)
(***************************************************************************)
EXTENDS Integers, FiniteSets

CONSTANTS
  Uploads,    \* the uploads under this name, and their contents
  Corrupt,    \* those whose content PyMuPDF cannot read
  Deletes,    \* the delete requests
  Readers,    \* the chat and summarize requests, which need the document
  Askers,     \* the requests for suggested questions
  None        \* no file, no entry

ASSUME CorruptAssumption == Corrupt \subseteq Uploads
ASSUME NoneAssumption == None \notin Uploads
ASSUME ApartAssumption ==
  Uploads \cap Deletes = {} /\ (Readers \cup Askers) \cap (Uploads \cup Deletes) = {}

VARIABLES
  disk,         \* the content stored under the name
  cache,        \* _doc_cache[name]: the content the document was parsed from
  suggestions,  \* _suggestions[name]: the content the questions are about
  upload,       \* where each upload is
  delete,       \* where each delete is
  request,      \* where each reader or asker is
  parsed,       \* what each upload and each request has parsed or fetched
  exposed       \* history variable: an overlap or a failed upload may have
                \* left something stale behind

vars == <<disk, cache, suggestions, upload, delete, request, parsed, exposed>>

-----------------------------------------------------------------------------
Requests == Readers \cup Askers
Contents == Uploads \cup {None}
Readable(content) == content \notin Corrupt \cup {None}

(* Operations that have begun and not ended. *)
Busy == {u \in Uploads : upload[u] \in {"saved", "parsed", "failed"}}
        \cup {d \in Deletes : delete[d] = "unlinked"}
        \cup {r \in Requests : request[r] \notin {"idle", "over", "keyError"}}

(* p meets another operation; p leaves current or empty entries behind,    *)
(* which makes up for anything stale unless another operation goes on.     *)
Overlap(p) == exposed' = (exposed \/ Busy \ {p} # {})
Heal(p) == exposed' = (Busy \ {p} # {})

Init ==
  /\ disk = None
  /\ cache = None
  /\ suggestions = None
  /\ upload = [u \in Uploads |-> "idle"]
  /\ delete = [d \in Deletes |-> "idle"]
  /\ request = [r \in Requests |-> "idle"]
  /\ parsed = [p \in Uploads \cup Requests |-> None]
  /\ exposed = FALSE

-----------------------------------------------------------------------------
(* upload_pdf: the file is written ... *)
Save(u) ==
  /\ upload[u] = "idle"
  /\ upload' = [upload EXCEPT ![u] = "saved"]
  /\ disk' = u
  /\ Overlap(u)
  /\ UNCHANGED <<cache, suggestions, delete, request, parsed>>

(* ... what is there now is parsed ... *)
Parse(u) ==
  /\ upload[u] = "saved"
  /\ Readable(disk)
  /\ upload' = [upload EXCEPT ![u] = "parsed"]
  /\ parsed' = [parsed EXCEPT ![u] = disk]
  /\ UNCHANGED <<disk, cache, suggestions, delete, request, exposed>>

(* Mutant: the suggestions for the old content stay. *)
NewEntriesKeepingSuggestions(content) == cache' = content /\ UNCHANGED suggestions

(* forget_document, then the new entry; None for no new entry.             *)
NewEntries(content) == cache' = content /\ suggestions' = None

(* ... and the entries are replaced. Two uploads may have crossed: what    *)
(* this one parsed is then not what is on disk.                            *)
Publish(u) ==
  /\ upload[u] = "parsed"
  /\ upload' = [upload EXCEPT ![u] = "done"]
  /\ NewEntries(parsed[u])
  /\ parsed' = [parsed EXCEPT ![u] = None]
  /\ IF parsed[u] = disk THEN Heal(u) ELSE exposed' = TRUE
  /\ UNCHANGED <<disk, delete, request>>

(* The content cannot be parsed. *)
FailParse(u) ==
  /\ upload[u] = "saved"
  /\ ~Readable(disk)
  /\ upload' = [upload EXCEPT ![u] = "failed"]
  /\ UNCHANGED <<disk, cache, suggestions, delete, request, parsed, exposed>>

(* The file goes, whichever upload wrote the one that is there by now;     *)
(* what was derived from the file it replaced does not.                    *)
FailUpload(u) ==
  /\ upload[u] = "failed"
  /\ upload' = [upload EXCEPT ![u] = "done"]
  /\ disk' = None
  /\ exposed' = (exposed \/ cache # None \/ suggestions # None \/ Busy \ {u} # {})
  /\ UNCHANGED <<cache, suggestions, delete, request, parsed>>

(* delete_pdf: the file is unlinked, *)
Unlink(d) ==
  /\ delete[d] = "idle"
  /\ delete' = [delete EXCEPT ![d] = "unlinked"]
  /\ disk' = None
  /\ Overlap(d)
  /\ UNCHANGED <<cache, suggestions, upload, request, parsed>>

(* Mutant: only the questions are forgotten.                               *)
ForgetQuestions(d) ==
  /\ delete[d] = "unlinked"
  /\ delete' = [delete EXCEPT ![d] = "done"]
  /\ suggestions' = None
  /\ Heal(d)
  /\ UNCHANGED <<disk, cache, upload, request, parsed>>

(* then forget_document. *)
Forget(d) ==
  /\ delete[d] = "unlinked"
  /\ delete' = [delete EXCEPT ![d] = "done"]
  /\ NewEntries(None)
  /\ Heal(d)
  /\ UNCHANGED <<disk, upload, request, parsed>>

-----------------------------------------------------------------------------
(* A request looks: questions already there answer it, else _get_doc asks  *)
(* whether the document is in the cache.                                   *)
Look(r) ==
  /\ request[r] = "idle"
  /\ request' = [request EXCEPT ![r] =
       IF r \in Askers /\ suggestions # None THEN "over"
       ELSE IF cache # None THEN "fetching" ELSE "parsing"]
  /\ Overlap(r)
  /\ UNCHANGED <<disk, cache, suggestions, upload, delete, parsed>>

(* _get_doc on a miss: extract, or the error of a file that is missing or  *)
(* unreadable.                                                             *)
Extract(r) ==
  /\ request[r] = "parsing"
  /\ request' = [request EXCEPT ![r] = IF Readable(disk) THEN "storing" ELSE "over"]
  /\ parsed' = [parsed EXCEPT ![r] = IF Readable(disk) THEN disk ELSE None]
  /\ UNCHANGED <<disk, cache, suggestions, upload, delete, exposed>>

(* The document goes into the cache, whatever happened to the file since.  *)
StoreDoc(r) ==
  /\ request[r] = "storing"
  /\ request' = [request EXCEPT ![r] = "fetching"]
  /\ cache' = parsed[r]
  /\ UNCHANGED <<disk, suggestions, upload, delete, parsed, exposed>>

(* _get_doc's last line reads the entry again: gone if a delete came in.   *)
Fetch(r) ==
  /\ request[r] = "fetching"
  /\ request' = [request EXCEPT ![r] = IF cache = None THEN "keyError" ELSE "using"]
  /\ parsed' = [parsed EXCEPT ![r] = cache]
  /\ UNCHANGED <<disk, cache, suggestions, upload, delete, exposed>>

(* The answer, the summary or the questions are written from the document; *)
(* questions are kept, unless the model gave none.                         *)
Use(r) ==
  /\ request[r] = "using"
  /\ request' = [request EXCEPT ![r] = "over"]
  /\ suggestions' \in IF r \in Askers THEN {suggestions, parsed[r]} ELSE {suggestions}
  /\ parsed' = [parsed EXCEPT ![r] = None]
  /\ UNCHANGED <<disk, cache, upload, delete, exposed>>

Next ==
  \/ \E u \in Uploads : Save(u) \/ Parse(u) \/ Publish(u) \/ FailParse(u) \/ FailUpload(u)
  \/ \E d \in Deletes : Unlink(d) \/ Forget(d)
  \/ \E r \in Requests : Look(r) \/ Extract(r) \/ StoreDoc(r) \/ Fetch(r) \/ Use(r)

Spec == Init /\ [][Next]_vars

-----------------------------------------------------------------------------
(* Every variable keeps its type, and only contents that can be read are   *)
(* ever parsed, cached or asked about (pdf/service.py:86-89, 109-129).     *)
TypeOK ==
  /\ disk \in Contents
  /\ {cache, suggestions} \subseteq Contents \ Corrupt
  /\ upload \in [Uploads -> {"idle", "saved", "parsed", "failed", "done"}]
  /\ delete \in [Deletes -> {"idle", "unlinked", "done"}]
  /\ request \in [Requests -> {"idle", "parsing", "storing", "fetching", "using",
                              "over", "keyError"}]
  /\ parsed \in [Uploads \cup Requests -> Contents \ Corrupt]
  /\ exposed \in BOOLEAN

Quiet == Busy = {}
DerivedCurrent == {cache, suggestions} \subseteq {disk, None}

(* Once an upload or a delete has run with nothing else under way, and as  *)
(* long as operations do not overlap and no replacement fails, the parsed  *)
(* document and the questions are those of the file on disk: whatever was  *)
(* stale before is gone (pdf/service.py:103-107, pdf/router.py:99-107).    *)
FreshUnlessExposed == Quiet /\ ~exposed => DerivedCurrent

(* A request is given a document other than the one on disk, or the error  *)
(* of a vanished entry, only where operations overlapped or a replacement  *)
(* failed (pdf/service.py:86-89).                                          *)
AnswersAreCurrent ==
  [][\A r \in Requests :
       request[r] = "fetching" /\ request'[r] # "fetching" /\ ~exposed
         => request'[r] = "using" /\ parsed'[r] = disk]_vars

(* "Drop what was derived from a file (parsed text, suggestions) - after   *)
(* it is deleted or replaced by an upload with the same name"              *)
(* (pdf/service.py:104-105): nothing outdated is left when all is quiet.   *)
DerivedIsCurrent == Quiet => DerivedCurrent
=============================================================================
