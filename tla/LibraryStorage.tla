--------------------------- MODULE LibraryStorage ---------------------------
(***************************************************************************)
(* One user's library (services/library.py, api/books.py): imports from a  *)
(* source, uploads, the storage quota, the files on the library volume and *)
(* deletions.                                                              *)
(*                                                                         *)
(* Every book has size 1.  An import looks its reference up, fetches the   *)
(* file, checks the quota, writes the file and commits the row: other      *)
(* handlers run between these steps.                                       *)
(***************************************************************************)
EXTENDS Naturals, FiniteSets

CONSTANTS LastItem,   \* bound: items ever written
          Quota,      \* user_storage_quota_bytes
          Refs,       \* source_refs: results of a source
          NoRef,      \* an uploaded file has no reference
          Importers, Deleters

ASSUME QuotaIsPositive == Quota \in Nat \ {0}
ASSUME BoundIsNat == LastItem \in Nat
ASSUME NoRefIsNone == NoRef \notin Refs
ASSUME ImportersAssumption ==
  IsFiniteSet(Importers) /\ Importers \cap {"absent", "present"} = {}

Items == 1..LastItem

VARIABLES
  rows,    \* items with a library_items row
  files,   \* items with a file on the volume
  ref,     \* per item: its source_ref
  source,  \* per kind of import, its sources row: absent, present, or the
           \* importer that inserts it
  written, \* items whose file has been written
  ipc, iref, item, \* importers: progress, reference, the item they write
  dpc, target,     \* deletions: progress, item
  \* observed, read by no action:
  orphans, \* files left by imports that failed after they wrote them
  halved   \* items whose deletion stopped between the file and the row

library  == <<rows, files, ref, source, written>>
importer == <<ipc, iref, item>>
deleter  == <<dpc, target>>
storeSeen == <<orphans, halved>>
StoreVars     == <<library, importer, deleter, storeSeen>>

StoreInit ==
  /\ rows = {} /\ files = {} /\ ref = [i \in Items |-> NoRef]
  /\ source = [k \in {"upload", "connector"} |-> "absent"] /\ written = 0
  /\ ipc = [h \in Importers |-> "idle"] /\ iref = [h \in Importers |-> NoRef]
  /\ item = [h \in Importers |-> 0]
  /\ dpc = [d \in Deleters |-> "idle"] /\ target = [d \in Deleters |-> 0]
  /\ orphans = {} /\ halved = {}

\* A sources row is kept per kind of source.
Kinds   == {"upload", "connector"}
Kind(r) == IF r = NoRef THEN "upload" ELSE "connector"

WithRef(r) == {i \in rows : ref[i] = r}

-----------------------------------------------------------------------------
(* An import.                                                              *)

EndImport(h) ==
  /\ ipc' = [ipc EXCEPT ![h] = "idle"] /\ iref' = [iref EXCEPT ![h] = NoRef]
  /\ item' = [item EXCEPT ![h] = 0]

\* An item with this reference is returned as it is; two of them make the
\* query fail.  An upload is looked up by nothing.
Lookup(h, r) ==
  /\ ipc[h] = "idle" /\ (r # NoRef => WithRef(r) = {})
  /\ ipc' = [ipc EXCEPT ![h] = "fetching"] /\ iref' = [iref EXCEPT ![h] = r]
  /\ UNCHANGED <<library, item, deleter, storeSeen>>

FetchFails(h) ==
  /\ ipc[h] = "fetching"
  /\ EndImport(h)
  /\ UNCHANGED <<library, deleter, storeSeen>>

\* ensure_storage_quota
HasRoom == Cardinality(rows) + 1 <= Quota

\* Faulty variant: the new file is not counted.
CheckUsedOnly(h) ==
  /\ ipc[h] = "fetching" /\ Cardinality(rows) <= Quota
  /\ ipc' = [ipc EXCEPT ![h] = "checked"]
  /\ UNCHANGED <<library, iref, item, deleter, storeSeen>>

CheckQuota(h) ==
  /\ ipc[h] = "fetching" /\ HasRoom
  /\ ipc' = [ipc EXCEPT ![h] = "checked"]
  /\ UNCHANGED <<library, iref, item, deleter, storeSeen>>

QuotaExceeded(h) ==
  /\ ipc[h] = "fetching" /\ ~HasRoom
  /\ EndImport(h)
  /\ UNCHANGED <<library, deleter, storeSeen>>

\* An upload that VirusTotal knows is refused.
Malicious(h) ==
  /\ ipc[h] = "checked" /\ iref[h] = NoRef
  /\ EndImport(h)
  /\ UNCHANGED <<library, deleter, storeSeen>>

\* The file is moved or written under a name of its own.
WriteFile(h) ==
  /\ ipc[h] = "checked" /\ written < LastItem
  /\ written' = written + 1
  /\ files' = files \cup {written'}
  /\ ref' = [ref EXCEPT ![written'] = iref[h]]
  /\ item' = [item EXCEPT ![h] = written']
  /\ ipc' = [ipc EXCEPT ![h] = "written"]
  /\ UNCHANGED <<rows, source, iref, deleter, storeSeen>>

\* _get_or_create_source: SELECT, then INSERT, which waits for an INSERT of
\* the same row that is not committed.
FindSource(h) ==
  /\ ipc[h] = "written"
  /\ ipc' = [ipc EXCEPT ![h] = IF source[Kind(iref[h])] = "present" THEN "sourced"
                                                                  ELSE "sourceless"]
  /\ UNCHANGED <<library, iref, item, deleter, storeSeen>>

InsertSource(h) ==
  /\ ipc[h] = "sourceless" /\ source[Kind(iref[h])] = "absent"
  /\ source' = [source EXCEPT ![Kind(iref[h])] = h]
  /\ ipc' = [ipc EXCEPT ![h] = "sourced"]
  /\ UNCHANGED <<rows, files, ref, written, iref, item, deleter, storeSeen>>

\* uq_sources_user_id_type: the other one was committed first.
SourceExists(h) ==
  /\ ipc[h] = "sourceless" /\ source[Kind(iref[h])] = "present"
  /\ orphans' = orphans \cup {item[h]}
  /\ EndImport(h)
  /\ UNCHANGED <<library, deleter, halved>>

Commit(h) ==
  /\ ipc[h] = "sourced"
  /\ rows' = rows \cup {item[h]}
  /\ source' = [source EXCEPT ![Kind(iref[h])] = "present"]
  /\ EndImport(h)
  /\ UNCHANGED <<files, ref, written, deleter, storeSeen>>

\* Any other error, or the client that goes away: the transaction is rolled
\* back and the file stays.
ImportBreaks(h) ==
  /\ ipc[h] \in {"written", "sourceless", "sourced"}
  /\ source' = [k \in Kinds |-> IF source[k] = h THEN "absent" ELSE source[k]]
  /\ orphans' = orphans \cup {item[h]}
  /\ EndImport(h)
  /\ UNCHANGED <<rows, files, ref, written, deleter, halved>>

-----------------------------------------------------------------------------
(* delete_book and delete_library_item.                                    *)

LoadItem(d, i) ==
  /\ dpc[d] = "idle" /\ i \in rows
  /\ dpc' = [dpc EXCEPT ![d] = "loaded"] /\ target' = [target EXCEPT ![d] = i]
  /\ UNCHANGED <<library, importer, storeSeen>>

\* Faulty variant: only the covers beside the file are removed.
UnlinkCovers(d) ==
  /\ dpc[d] = "loaded"
  /\ dpc' = [dpc EXCEPT ![d] = "unlinked"]
  /\ UNCHANGED <<library, importer, target, storeSeen>>

\* A missing file is only logged.
UnlinkFile(d) ==
  /\ dpc[d] = "loaded"
  /\ files' = files \ {target[d]}
  /\ dpc' = [dpc EXCEPT ![d] = "unlinked"]
  /\ UNCHANGED <<rows, ref, source, written, importer, target, storeSeen>>

EndDelete(d) == dpc' = [dpc EXCEPT ![d] = "idle"] /\ target' = [target EXCEPT ![d] = 0]

DeleteRow(d) ==
  /\ dpc[d] = "unlinked"
  /\ rows' = rows \ {target[d]}
  /\ EndDelete(d)
  /\ UNCHANGED <<files, ref, source, written, importer, storeSeen>>

\* The DELETE fails, or the process stops before it.
DeleteBreaks(d) ==
  /\ dpc[d] = "unlinked"
  /\ halved' = halved \cup {target[d]}
  /\ EndDelete(d)
  /\ UNCHANGED <<library, importer, orphans>>

-----------------------------------------------------------------------------
StoreNext ==
  \/ \E h \in Importers :
       \/ \E r \in Refs \cup {NoRef} : Lookup(h, r)
       \/ FetchFails(h)
       \/ CheckQuota(h)
       \/ QuotaExceeded(h)
       \/ Malicious(h)
       \/ WriteFile(h)
       \/ FindSource(h)
       \/ InsertSource(h)
       \/ SourceExists(h)
       \/ Commit(h)
       \/ ImportBreaks(h)
  \/ \E d \in Deleters :
       \/ \E i \in Items : LoadItem(d, i)
       \/ UnlinkFile(d)
       \/ DeleteRow(d)
       \/ DeleteBreaks(d)

StoreSpec == StoreInit /\ [][StoreNext]_StoreVars

-----------------------------------------------------------------------------
Past(h) == ipc[h] \in {"checked", "written", "sourceless", "sourced"}
Deleting == {target[d] : d \in {e \in Deleters : dpc[e] = "unlinked"}}

StoreTypeOK ==
  /\ rows \subseteq Items /\ files \subseteq Items
  /\ ref \in [Items -> Refs \cup {NoRef}]
  /\ source \in [Kinds -> {"absent", "present"} \cup Importers]
  /\ written \in 0..LastItem
  /\ ipc \in [Importers -> {"idle", "fetching", "checked", "written", "sourceless", "sourced"}]
  /\ iref \in [Importers -> Refs \cup {NoRef}]
  /\ item \in [Importers -> 0..LastItem]
  /\ \A h \in Importers : ipc[h] \in {"written", "sourceless", "sourced"} <=> item[h] # 0
  /\ \A h \in Importers, k \in Kinds : source[k] = h => ipc[h] = "sourced"
  /\ dpc \in [Deleters -> {"idle", "loaded", "unlinked"}]
  /\ target \in [Deleters -> 0..LastItem]
  /\ orphans \subseteq Items /\ halved \subseteq Items

\* Imports that overlap can exceed the quota, by one book each at most: the
\* last of them to be admitted found room.
OverrunIsBounded ==
  Cardinality(rows) + Cardinality({h \in Importers : Past(h)})
    <= Quota - 1 + Cardinality(Importers)

\* A book that is listed has its file, and a file that is kept has its book,
\* except where a handler is at work or stopped half-way.
RowsHaveFiles ==
  /\ rows \subseteq files \cup Deleting \cup halved
  /\ files \subseteq rows \cup {item[h] : h \in Importers} \cup orphans
=============================================================================
