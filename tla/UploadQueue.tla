---------------------------- MODULE UploadQueue ----------------------------
(***************************************************************************)
(* Files dropped on the library page (upload-dropzone.tsx).  The files of  *)
(* one drop are sent one after the other; several drops go on at a time.   *)
(* The first book that is stored takes the page back to the collection,    *)
(* which removes the dropzone and its rows: the loop goes on without them. *)
(***************************************************************************)
EXTENDS Naturals, Sequences

CONSTANTS Drops,      \* drops: each a list of files is dropped in
          DropSize,   \* files in each
          BadFiles    \* <<drop, index>> of those of another format or too large

Files  == Drops \X (1..DropSize)

VARIABLES
  upMounted, \* the dropzone is rendered
  upDrop,    \* per drop: "none", waiting for the token, in its loop, or over
  upAt,      \* per drop: the file it is at
  upSent,    \* observed: per file, how often it was sent
  upEnd,     \* per file: stored, refused, or neither yet
  upRows     \* rows: per file, what it shows, or "none"

upVars == <<upMounted, upDrop, upAt, upSent, upEnd, upRows>>

UpInit ==
  /\ upMounted = TRUE
  /\ upDrop = [d \in Drops |-> "none"] /\ upAt = [d \in Drops |-> 1]
  /\ upSent = [f \in Files |-> 0] /\ upEnd = [f \in Files |-> "no"]
  /\ upRows = [f \in Files |-> "none"]

-----------------------------------------------------------------------------
\* setRows, updateRow: nothing is shown once the dropzone is gone.
Row(f, s) == IF upMounted THEN [upRows EXCEPT ![f] = s] ELSE upRows

\* A file's turn is over; after the last one the loop ends.
NextFile(d) ==
  /\ upAt' = [upAt EXCEPT ![d] = @ + 1]
  /\ upDrop' = [upDrop EXCEPT ![d] = IF upAt[d] = DropSize THEN "over" ELSE "looping"]

\* Faulty variant: a file that fails ends the loop.
StopLoop(d) ==
  /\ upAt' = [upAt EXCEPT ![d] = @ + 1]
  /\ upDrop' = [upDrop EXCEPT ![d] = "over"]

\* processFiles, up to the token.
DropFiles(d) ==
  /\ upMounted /\ upDrop[d] = "none"
  /\ upDrop' = [upDrop EXCEPT ![d] = "token"]
  /\ UNCHANGED <<upMounted, upAt, upSent, upEnd, upRows>>

TokenGiven(d) ==
  /\ upDrop[d] = "token"
  /\ upDrop' = [upDrop EXCEPT ![d] = "looping"]
  /\ UNCHANGED <<upMounted, upAt, upSent, upEnd, upRows>>

\* The extension, then the size: such a file has a row that says so.
SkipFile(d) ==
  /\ upDrop[d] = "looping" /\ <<d, upAt[d]>> \in BadFiles
  /\ upRows' = Row(<<d, upAt[d]>>, "error")
  /\ upEnd' = [upEnd EXCEPT ![<<d, upAt[d]>>] = "refused"]
  /\ NextFile(d)
  /\ UNCHANGED <<upMounted, upSent>>

SendFile(d) ==
  /\ upDrop[d] = "looping" /\ <<d, upAt[d]>> \notin BadFiles
  /\ upDrop' = [upDrop EXCEPT ![d] = "sending"]
  /\ upSent' = [upSent EXCEPT ![<<d, upAt[d]>>] = @ + 1]
  /\ upRows' = Row(<<d, upAt[d]>>, "uploading")
  /\ UNCHANGED <<upMounted, upAt, upEnd>>

\* onUploaded: setBrowseMode("mine") unmounts the dropzone.
FileStored(d) ==
  /\ upDrop[d] = "sending"
  /\ upEnd' = [upEnd EXCEPT ![<<d, upAt[d]>>] = "stored"]
  /\ upMounted' = FALSE /\ upRows' = [f \in Files |-> "none"]
  /\ NextFile(d)
  /\ UNCHANGED upSent

\* Faulty variant: an error leaves the loop.
FileFailsAll(d) ==
  /\ upDrop[d] = "sending"
  /\ upEnd' = [upEnd EXCEPT ![<<d, upAt[d]>>] = "refused"]
  /\ upRows' = Row(<<d, upAt[d]>>, "error")
  /\ StopLoop(d)
  /\ UNCHANGED <<upMounted, upSent>>

\* A refusal, an error or an abort is caught file by file.
FileFails(d) ==
  /\ upDrop[d] = "sending"
  /\ upEnd' = [upEnd EXCEPT ![<<d, upAt[d]>>] = "refused"]
  /\ upRows' = Row(<<d, upAt[d]>>, "error")
  /\ NextFile(d)
  /\ UNCHANGED <<upMounted, upSent>>

\* The owner leaves the import tab, whatever is being sent.
LeaveTab ==
  /\ upMounted
  /\ upMounted' = FALSE /\ upRows' = [f \in Files |-> "none"]
  /\ UNCHANGED <<upDrop, upAt, upSent, upEnd>>

\* The owner opens the import tab again: a new dropzone, without rows.
Remount ==
  /\ ~upMounted
  /\ upMounted' = TRUE /\ upRows' = [f \in Files |-> "none"]
  /\ UNCHANGED <<upDrop, upAt, upSent, upEnd>>

-----------------------------------------------------------------------------
UpNext ==
  \/ \E d \in Drops : \/ DropFiles(d) \/ TokenGiven(d) \/ SkipFile(d) \/ SendFile(d)
                      \/ FileStored(d) \/ FileFails(d)
  \/ LeaveTab \/ Remount

UpSpec == UpInit /\ [][UpNext]_upVars

\* The browser gives the token and ends every request; the loop goes on.
UpGoesOn ==
  \E d \in Drops : TokenGiven(d) \/ SkipFile(d) \/ SendFile(d) \/ FileStored(d) \/ FileFails(d)
UpFair == WF_upVars(UpGoesOn)

UpTypeOK ==
  /\ upMounted \in BOOLEAN
  /\ upDrop \in [Drops -> {"none", "token", "looping", "sending", "over"}]
  /\ upAt \in [Drops -> 1..(DropSize + 1)]
  /\ upSent \in [Files -> Nat] /\ upEnd \in [Files -> {"no", "stored", "refused"}]
  /\ upRows \in [Files -> {"none", "uploading", "error"}]

(***************************************************************************)
(* Every file that is dropped is stored or refused, whatever happens to    *)
(* the files before it, and though the first book stored removes the       *)
(* dropzone in the middle of the drop.                                     *)
(***************************************************************************)
DroppedFilesSettle ==
  \A d \in Drops : upDrop[d] # "none" ~>
    \A i \in 1..DropSize : upEnd[<<d, i>>] # "no"
=============================================================================
