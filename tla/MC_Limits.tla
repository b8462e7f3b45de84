----------------------------- MODULE MC_Limits -----------------------------
\* The quotas: of mail, of two users who share three sends in a day, two in
\* an hour each; of storage, of one user's two imports and a deletion.  And one
\* entry of the conversion cache, with three callers.  A behavior is about one of
\* them; a1 and a2 are the users, or the imports.
EXTENDS MailQuota, LibraryStorage, ConversionCache, TLC
CONSTANTS a1, a2, s1, s2, s3, s4, d1, dune, r1, r2, r3
TwoOfA == {a1, a2}
FourSends == {s1, s2, s3, s4}
OneDeleter == {d1}
OneRef == {dune}
ThreeCallers == {r1, r2, r3}
Symmetry == Permutations(TwoOfA) \cup Permutations(FourSends)

VARIABLE limit  \* which of them the behavior is about
vars == <<limit, MailVars, StoreVars, CacheVars>>

Init ==
  /\ limit \in {"mail", "storage", "cache"} /\ MailInit /\ StoreInit /\ CacheInit
  /\ limit # "cache" => convertible
Next ==
  \/ limit = "mail"    /\ MailNext  /\ UNCHANGED <<limit, StoreVars, CacheVars>>
  \/ limit = "storage" /\ StoreNext /\ UNCHANGED <<limit, MailVars, CacheVars>>
  \/ limit = "cache"   /\ CacheNext /\ UNCHANGED <<limit, MailVars, StoreVars>>
Spec == Init /\ [][Next]_vars

\* Imports pass the storage quota by a bounded amount, and a row is without its
\* file only while it is deleted: see OverrunIsBounded and RowsHaveFiles.
StorageHolds == MailTypeOK /\ StoreTypeOK /\ OverrunIsBounded /\ RowsHaveFiles
=============================================================================
