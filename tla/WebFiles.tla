------------------------------ MODULE WebFiles ------------------------------
(***************************************************************************)
(* What the functions of main.c that read and write files hold while they  *)
(* run, and what the client of the web server gets: the page handlers with *)
(* their readers, read_password at start-up and save_config_to_file in     *)
(* config_handler.  They run one at a time: read_password before the       *)
(* server exists, the others in its only task.  Each fopen, malloc and     *)
(* cJSON call may fail.                                                    *)
(***************************************************************************)
EXTENDS Naturals, FiniteSets

CONSTANT Pages  \* the files of the page: the storage partition may lack some

VARIABLES
  mode,    \* AP or STA, as http_server_task found it
  stored,  \* the pages that are on the partition
  job,     \* the URI or function being served, "none" between two
  pc,      \* where it is
  held,    \* the files and blocks of memory acquired and not given back
  lost,    \* those that can no longer be given back
  answer   \* what the client of the last job has got

filesVars == <<mode, stored, job, pc, held, lost, answer>>

\* The handlers registered for the mode; only "/" depends on it.
PageOf(uri) ==
  CASE uri = "/"          -> IF mode = "STA" THEN "index.html"
                                             ELSE "redconfig.html"
    [] uri = "/style.css" -> "style.css"
    [] uri = "/app.js"    -> "app.js"

PageUris == {"/", "/style.css", "/app.js"}
Jobs     == PageUris \cup {"read_password", "save_config_to_file"}

FilesInit ==
  /\ mode \in {"AP", "STA"}
  /\ stored \in SUBSET Pages
  /\ job = "read_password"
  /\ pc = "fopen"
  /\ held = {}
  /\ lost = {}
  /\ answer = "none"

\* The job returns; whatever it still holds has no pointer left.
Return(a) ==
  /\ job' = "none"
  /\ pc' = "idle"
  /\ held' = {}
  /\ answer' = a

Serve(uri) ==
  /\ job = "none"
  /\ job' = uri
  /\ pc' = IF uri = "save_config_to_file" THEN "cJSON_CreateObject" ELSE "fopen"
  /\ answer' = "none"
  /\ UNCHANGED <<mode, stored, held, lost>>

-----------------------------------------------------------------------------
(* The readers and the page handlers; read_password reads the same way.    *)

Reader == job \in PageUris \cup {"read_password"}

FileOf == IF job = "read_password" THEN "config2.json" ELSE PageOf(job)

Fopen ==
  /\ Reader /\ pc = "fopen"
  /\ FileOf \in stored
  /\ held' = held \cup {"file"}
  /\ pc' = "malloc"
  /\ UNCHANGED <<mode, stored, job, lost, answer>>

\* The answer of a handler whose reader failed.
NotFound == IF job \in PageUris THEN "404" ELSE "none"

FopenFails ==
  /\ Reader /\ pc = "fopen"
  /\ Return(NotFound)
  /\ lost' = lost \cup held
  /\ UNCHANGED <<mode, stored>>

Malloc ==
  /\ Reader /\ pc = "malloc"
  /\ held' = held \cup {"content"}
  /\ pc' = "fread"
  /\ UNCHANGED <<mode, stored, job, lost, answer>>

\* Mutant: the file is left open when memory is short.
MallocFailsKeepsFile == held

HeldAfterFailedMalloc == held \ {"file"}

MallocFails ==
  /\ Reader /\ pc = "malloc"
  /\ Return(NotFound)
  /\ lost' = lost \cup HeldAfterFailedMalloc
  /\ UNCHANGED <<mode, stored>>

FreadAndClose ==
  /\ Reader /\ pc = "fread"
  /\ held' = held \ {"file"}
  /\ pc' = IF job = "read_password" THEN "cJSON_Parse" ELSE "send"
  /\ UNCHANGED <<mode, stored, job, lost, answer>>

\* Mutant: the dashboard is sent whatever the mode.
AnswerIgnoringMode == IF job = "/" THEN "index.html" ELSE PageOf(job)

AnswerOfPage == PageOf(job)

SendAndFree ==
  /\ pc = "send"
  /\ Return(AnswerOfPage)
  /\ lost' = lost \cup (held \ {"content"})
  /\ UNCHANGED <<mode, stored>>

-----------------------------------------------------------------------------
(* The rest of read_password.                                              *)

CJSONParse ==
  /\ pc = "cJSON_Parse"
  /\ held' = held \cup {"json"}
  /\ pc' = "items"
  /\ UNCHANGED <<mode, stored, job, lost, answer>>

CJSONParseFails ==
  /\ pc = "cJSON_Parse"
  /\ Return("none")
  /\ lost' = lost \cup (held \ {"content"})
  /\ UNCHANGED <<mode, stored>>

\* With and without the two items the object and the text are given back.
TakeItems ==
  /\ pc = "items"
  /\ Return("none")
  /\ lost' = lost \cup (held \ {"json", "content"})
  /\ UNCHANGED <<mode, stored>>

-----------------------------------------------------------------------------
(* save_config_to_file.                                                    *)

Acquire(from, to, what) ==
  /\ pc = from
  /\ held' = held \cup {what}
  /\ pc' = to
  /\ UNCHANGED <<mode, stored, job, lost, answer>>

SaveAcquires ==
  \/ Acquire("cJSON_CreateObject", "cJSON_Print", "root")
  \/ Acquire("cJSON_Print", "fopen_w", "json_str")
  \/ Acquire("fopen_w", "fprintf", "config.json")

\* What each early return of save_config_to_file gives back.
GivenBackAt(at) ==
  CASE at = "cJSON_CreateObject" -> {}
    [] at = "cJSON_Print"        -> {"root"}
    [] at = "fopen_w"            -> {"root", "json_str"}
    [] at = "fprintf"            -> {"root", "json_str", "config.json"}

\* config_handler ends without an answer, however the saving went.
SaveReturns ==
  /\ pc \in {"cJSON_CreateObject", "cJSON_Print", "fopen_w", "fprintf"}
  /\ Return("nothing")
  /\ lost' = lost \cup (held \ GivenBackAt(pc))
  /\ UNCHANGED <<mode, stored>>

-----------------------------------------------------------------------------

Work ==
  \/ Fopen \/ FopenFails \/ Malloc \/ MallocFails \/ FreadAndClose
  \/ SendAndFree
  \/ CJSONParse \/ CJSONParseFails \/ TakeItems
  \/ SaveAcquires \/ SaveReturns

FilesNext == (\E uri \in Jobs \ {"read_password"} : Serve(uri)) \/ Work

FilesSpec == FilesInit /\ [][FilesNext]_filesVars

-----------------------------------------------------------------------------
(* Properties.                                                             *)

Pcs == {"idle", "fopen", "malloc", "fread", "send", "cJSON_Parse", "items",
        "cJSON_CreateObject", "cJSON_Print", "fopen_w", "fprintf"}

Resources == {"file", "content", "json", "root", "json_str", "config.json"}

FilesTypeOK ==
  /\ mode \in {"AP", "STA"}
  /\ stored \subseteq Pages
  /\ job \in Jobs \cup {"none"}
  /\ pc \in Pcs
  /\ held \subseteq Resources
  /\ lost \subseteq Resources
  /\ answer \in {"none", "404", "nothing"} \cup Pages
  /\ (job = "none") <=> (pc = "idle")
  /\ job = "none" => held = {}

\* No path of any of these functions, failing ones included, keeps a file
\* open or a block allocated: max_files is never used up by old requests.
NothingLeaks == lost = {}

Answered ==
  job \in PageUris /\ job' = "none"
    => answer' = "404" \/ (answer' \in stored /\ answer' = PageOf(job))

\* Each request for a page is answered, with a page that is on the partition
\* and fits the mode, or with 404.
PagesAreAnswered == [][Answered]_filesVars
=============================================================================
