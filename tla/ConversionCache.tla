--------------------------- MODULE ConversionCache ---------------------------
(***************************************************************************)
(* One entry of the cache of converted books: what                         *)
(* materialize_target_format (services/converters.py) does for one item,   *)
(* preset and format, called by deliveries and downloads at the same time. *)
(* The converter writes straight to the entry's path, which get_cached     *)
(* (services/conversion_profiles.py) serves as soon as a file is there.    *)
(*                                                                         *)
(* Two conversions of one book write the same bytes, so the file is whole  *)
(* when the last converter that opened it has finished.                    *)
(***************************************************************************)
EXTENDS Naturals

CONSTANTS Requests, \* concurrent callers
          NoRequest

VARIABLES
  convertible, \* can the converter produce the book in this format?
  file,        \* the entry: none, partial, small (below MIN_OUTPUT_BYTES), whole
  fresh,       \* its mtime is within the TTL
  opened,      \* requests whose converter has the path open
  last,        \* the last of them to open it
  pc,          \* per request
  \* observed, read by no action:
  failed,      \* a conversion ended badly, or was interrupted, with the path written
  met          \* requests that overlapped a conversion made by another

entry     == <<file, fresh, opened, last>>
observed  == <<failed, met>>
CacheVars == <<convertible, entry, pc, observed>>

CacheInit ==
  /\ convertible \in BOOLEAN
  /\ file = "none" /\ fresh = FALSE /\ opened = {} /\ last = NoRequest
  /\ pc = [r \in Requests |-> "idle"]
  /\ failed = FALSE /\ met = {}

Busy == {r \in Requests : pc[r] # "idle"}

\* Conversions whose output nobody has accepted yet.
Underway == opened \cup {r \in Requests : pc[r] = "checking"}

-----------------------------------------------------------------------------
\* get_cached: any file within the TTL will do.
Hit(r) ==
  /\ pc[r] = "idle" /\ file # "none" /\ fresh
  /\ pc' = [pc EXCEPT ![r] = "ready"]
  /\ met' = IF Underway = {} THEN met ELSE met \cup {r}
  /\ UNCHANGED <<convertible, entry, failed>>

\* get_cached: nothing, or a file past the TTL, which is removed.
Miss(r) ==
  /\ pc[r] = "idle" /\ (file = "none" \/ ~fresh)
  /\ file' = "none" /\ fresh' = FALSE /\ last' = NoRequest
  /\ pc' = [pc EXCEPT ![r] = "converting"]
  /\ met' = IF Underway = {} THEN met ELSE met \cup {r}
  /\ UNCHANGED <<convertible, opened, failed>>

-----------------------------------------------------------------------------
(* The converter: ebook-convert in a process, or PyMuPDF in a thread.      *)

\* Its output is created, or truncated.
Open(r) ==
  /\ pc[r] = "converting" /\ r \notin opened
  /\ opened' = opened \cup {r}
  /\ file' = "partial" /\ fresh' = TRUE /\ last' = r
  /\ met' = met \cup (Busy \ {r}) \cup (IF Underway = {} THEN {} ELSE {r})
  /\ UNCHANGED <<convertible, pc, failed>>

\* What the path holds once r's converter has finished with output o.
Left(r, o) == IF last = r THEN o ELSE file

Finish(r) ==
  /\ r \in opened
  /\ file' = Left(r, IF convertible THEN "whole" ELSE "small")
  /\ opened' = opened \ {r}
  /\ pc' = [pc EXCEPT ![r] = "checking"]
  /\ UNCHANGED <<convertible, fresh, last, observed>>

\* Faulty variant: the request ends and leaves its converter running.
BreakDetached(r) ==
  /\ pc[r] = "converting"
  /\ UNCHANGED opened
  /\ pc' = [pc EXCEPT ![r] = "idle"]
  /\ met' = met \ {r}
  /\ failed' = (failed \/ last = r)
  /\ UNCHANGED <<convertible, file, fresh, last>>

\* An error status, or the kill after EBOOK_CONVERT_TIMEOUT_SECONDS: the
\* call raises and what was written stays at the path.
Break(r) ==
  /\ pc[r] = "converting"
  /\ opened' = opened \ {r}
  /\ pc' = [pc EXCEPT ![r] = "idle"]
  /\ met' = met \ {r}
  /\ failed' = (failed \/ last = r)
  /\ UNCHANGED <<convertible, file, fresh, last>>

\* Faulty variant: the size of the output is not looked at.
CheckExists(r) ==
  /\ pc[r] = "checking"
  /\ \E ok \in BOOLEAN :
       /\ file # "none" <=> ok
       /\ pc' = [pc EXCEPT ![r] = IF ok THEN "ready" ELSE "idle"]
       /\ met' = IF ok THEN met ELSE met \ {r}
  /\ UNCHANGED <<convertible, entry, failed>>

\* _check_output, on what the path holds by now; a partial file may have
\* enough bytes or not.  A small one is refused, and stays.
Check(r) ==
  /\ pc[r] = "checking"
  /\ \E ok \in BOOLEAN :
       /\ file = "whole" => ok
       /\ file \in {"none", "small"} => ~ok
       /\ pc' = [pc EXCEPT ![r] = IF ok THEN "ready" ELSE "idle"]
       /\ met' = IF ok THEN met ELSE met \ {r}
       /\ failed' = (failed \/ file = "small")
  /\ UNCHANGED <<convertible, entry>>

\* The caller reads the path: it attaches, uploads or streams the file.
Use(r) ==
  /\ pc[r] = "ready"
  /\ pc' = [pc EXCEPT ![r] = "idle"]
  /\ met' = met \ {r}
  /\ UNCHANGED <<convertible, entry, failed>>

\* The TTL (seven days) is longer than any conversion.
Age ==
  /\ file # "none" /\ fresh /\ opened = {}
  /\ fresh' = FALSE
  /\ UNCHANGED <<convertible, file, opened, last, pc, observed>>

\* The process stops, and its converters with it; the volume stays.
Crash ==
  /\ opened' = {} /\ pc' = [r \in Requests |-> "idle"]
  /\ failed' = (failed \/ (Underway # {} /\ file # "whole")) /\ met' = {}
  /\ UNCHANGED <<convertible, file, fresh, last>>

-----------------------------------------------------------------------------
CacheNext ==
  \/ \E r \in Requests :
       Hit(r) \/ Miss(r) \/ Open(r) \/ Finish(r) \/ Break(r) \/ Check(r) \/ Use(r)
  \/ Age
  \/ Crash

CacheSpec == CacheInit /\ [][CacheNext]_CacheVars

-----------------------------------------------------------------------------
CacheTypeOK ==
  /\ convertible \in BOOLEAN
  /\ file \in {"none", "partial", "small", "whole"} /\ fresh \in BOOLEAN
  /\ pc \in [Requests -> {"idle", "converting", "checking", "ready"}]
  /\ opened \subseteq {r \in Requests : pc[r] = "converting"}
  /\ last \in Requests \cup {NoRequest}
  /\ failed \in BOOLEAN /\ met \subseteq Busy

\* A caller is handed a broken file only after a conversion of that entry
\* failed, or while another caller converts it: a book that converts, asked
\* for by one caller at a time, always reaches its reader whole.
BrokenNeedsCause ==
  \A r \in Requests :
    pc[r] = "ready" /\ file \in {"partial", "small"} => failed \/ r \in met

\* Once converters are at rest, what is left to be served is whole unless
\* one of them failed or is about to be refused its output.
WholeAtRest ==
  (opened = {} /\ file \in {"partial", "small"}) =>
    failed \/ \E r \in Requests : pc[r] = "checking"

\* materialize_target_format: an impossible conversion raises, so no caller
\* is ever given a file.
ImpossibleRaises == ~convertible => \A r \in Requests : pc[r] # "ready"

-----------------------------------------------------------------------------
(* The inductive invariant of Limits_proofs.                             *)

\* A converter that has the path open has just written to it.
OpenInv == opened # {} => fresh /\ file # "none"

\* What is half written is being written by the last to open it, or else
\* its converter failed.
PartialInv == file = "partial" => failed \/ last \in opened

\* A small output is about to be refused, or has been.
SmallInv ==
  file = "small" => failed \/ (last \in Requests /\ pc[last] = "checking")

\* While the last converter to open the path runs, every other caller knows
\* it overlaps a conversion.
OverlapInv == last \in opened => \A r \in Busy \ {last} : r \in met

IInv ==
  CacheTypeOK /\ OpenInv /\ PartialInv /\ SmallInv /\ OverlapInv /\ BrokenNeedsCause
=============================================================================
