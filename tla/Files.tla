------------------------------- MODULE Files -------------------------------
(***************************************************************************)
(* storage.service, the cleaner's photo routes and                         *)
(* cleanerDocuments.service: the photos of a job and the documents of a    *)
(* cleaner.  A file goes straight to the object store, under a key the     *)
(* server has given out; the row that names it is written by another       *)
(* request, which looks at the key and not at the store.                   *)
(***************************************************************************)
EXTENDS Jobs

CONSTANTS Keys,    \* storage keys that may be given out
          Rows,    \* rows of JobPhoto and CleanerDocument there may be
          Unfiled  \* no key, no owner

ASSUME FilesAssumption == Unfiled \notin Keys \cup Jobs \cup Cleaners

VARIABLES
    prefix,   \* whose prefix each key was given out under
    bucket,   \* the object store
    file,     \* the JobPhoto and CleanerDocument tables
    filer,    \* what each request is doing
    opened,   \* history: rows that had their file at some time
    torn      \* history: rows a deletion of their owner's took the file from

fileVars == <<prefix, bucket, file, filer, opened, torn>>

Owners == Jobs \cup Cleaners
NoFile == [of |-> Unfiled, key |-> Unfiled]   \* a deleted row keeps its key

FilesInit ==
    /\ prefix = [k \in Keys |-> Unfiled]
    /\ bucket = {} /\ opened = {} /\ torn = {}
    /\ file = [f \in Rows |-> NoFile]
    /\ filer = [r \in Clerks |-> Idle]

FilerTo(r, work) == filer' = [filer EXCEPT ![r] = work]
Named(k)         == {f \in Rows : file[f].of # Unfiled /\ file[f].key = k}

Give(k, o) ==
    /\ prefix[k] = Unfiled
    /\ prefix' = [prefix EXCEPT ![k] = o]
    /\ UNCHANGED <<jobVars, bucket, file, filer, opened, torn>>

\* photos/upload-url: a key under the prefix of a job the cleaner is assigned
\* to, and leave to put one file there.
PhotoUploadUrl(k, c, j) == job[j].split[c] # Out /\ Give(k, j)

\* The same for a document of a cleaner.
GetUploadUrl(k, c) == Give(k, c)

Upload(k) ==
    /\ prefix[k] # Unfiled
    /\ bucket' = bucket \cup {k} /\ opened' = opened \cup Named(k)
    /\ UNCHANGED <<jobVars, prefix, file, filer, torn>>

\* assertPhotoKeyBelongsToBooking, assertKeyUnderPrefix: nobody asks whether a
\* file has come, or whether another row names the same key.
BelongsTo(k, o) == prefix[k] = o

Register(f, o, k) ==
    /\ file[f] = NoFile /\ BelongsTo(k, o)
    /\ file' = [file EXCEPT ![f] = [of |-> o, key |-> k]]
    /\ opened' = IF k \in bucket THEN opened \cup {f} ELSE opened
    /\ UNCHANGED <<jobVars, prefix, bucket, filer, torn>>

\* A photo, by a cleaner assigned to the job or by the office; a document.
PostPhoto(f, c, j, k)      == job[j].split[c] # Out /\ Register(f, j, k)
CreateStorageItem(f, j, k) == Register(f, j, k)
CreateDocument(f, c, k)    == Register(f, c, k)

\* Both deletions find the row first.
FindFile(r, f) ==
    /\ filer[r] = Idle /\ file[f].of # Unfiled
    /\ FilerTo(r, [pc |-> IF file[f].of \in Jobs THEN "row" ELSE "object", on |-> f, key |-> file[f].key])
    /\ UNCHANGED <<jobVars, prefix, bucket, file, opened, torn>>

\* deleteDocument takes the file away before the row, from every row of its
\* cleaner under that key; when the store fails, the row goes all the same.
DeleteObject(r) ==
    /\ filer[r].pc = "object"
    /\ \/ bucket' = bucket \ {filer[r].key} /\ UNCHANGED faults
       \/ Fault /\ UNCHANGED bucket
    /\ torn' = torn \cup {f \in Named(filer[r].key) : file[f].of = prefix[filer[r].key]}
    /\ FilerTo(r, [filer[r] EXCEPT !.pc = "row"])
    /\ UNCHANGED <<job, prefix, file, opened>>

\* deleteStorageItem deletes the row of a photo and leaves its file.
DeleteRow(r) ==
    /\ filer[r].pc = "row"
    /\ file' = [file EXCEPT ![filer[r].on].of = Unfiled]
    /\ FilerTo(r, Idle) /\ UNCHANGED <<jobVars, prefix, bucket, opened, torn>>

FilerDies(r) ==
    /\ filer[r] # Idle /\ Fault
    /\ FilerTo(r, Idle) /\ UNCHANGED <<job, prefix, bucket, file, opened, torn>>

FilesNext ==
    \/ \E k \in Keys : \/ Upload(k)
                       \/ \E c \in Cleaners : GetUploadUrl(k, c) \/ \E j \in Jobs : PhotoUploadUrl(k, c, j)
    \/ \E f \in Rows, k \in Keys :
          \/ \E j \in Jobs : CreateStorageItem(f, j, k)
          \/ \E c \in Cleaners : \/ CreateDocument(f, c, k)
                                \/ \E j \in Jobs : PostPhoto(f, c, j, k)
    \/ \E r \in Clerks : \/ \E f \in Rows : FindFile(r, f)
                         \/ DeleteObject(r) \/ DeleteRow(r) \/ FilerDies(r)

-----------------------------------------------------------------------------
(* Properties *)

FilesTypeOK ==
    /\ prefix \in [Keys -> Owners \cup {Unfiled}]
    /\ bucket \subseteq Keys /\ opened \subseteq Rows /\ torn \subseteq Rows
    /\ file \in [Rows -> [of : Owners \cup {Unfiled}, key : Keys \cup {Unfiled}]]

\* A photo or a document that could be opened can be opened as long as its row
\* is there, unless the same cleaner's document was being deleted, under the
\* key it shares, or the deletion died between the file and the row: a file is
\* never lost by what is done to another job or cleaner.
FilesKept == \A f \in opened \ torn : file[f].of # Unfiled => file[f].key \in bucket
=============================================================================
