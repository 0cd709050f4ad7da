------------------------------- MODULE Upload -------------------------------
(***************************************************************************)
(* Uploads of hotel images.  The files of a request are checked and stored *)
(* one after the other, each under a fresh random key; the first that      *)
(* fails ends the request.  An object is named by its request and file.    *)
(***************************************************************************)
EXTENDS Naturals, Sequences

CONSTANTS
  Uploads,          \* POST /api/hotels/upload-images
  Batches,          \* the files that come with them, each one of FileKinds
  MaxUploadFaults   \* bound on the files and objects that fail

FileKinds == {"image", "too large", "no image"}

ASSUME BatchesAssumption == \A b \in Batches : b \in Seq(FileKinds)
ASSUME MaxUploadFaultsAssumption == MaxUploadFaults \in Nat

VARIABLES
  batch,         \* the files of each request
  uploadPc,      \* its next step, or its answer
  current,       \* the number of the file it is at
  offset,        \* where its reader of that file stands
  objects,       \* the objects in storage, and what part of its file each holds
  uploadFaults   \* how many files and objects have failed

uvars == <<batch, uploadPc, current, offset, objects, uploadFaults>>

UploadAnswers == {"created", "bad request", "error"}

UploadInit ==
  /\ batch = [u \in Uploads |-> <<>>]
  /\ uploadPc = [u \in Uploads |-> "ready"]
  /\ current = [u \in Uploads |-> 1]
  /\ offset = [u \in Uploads |-> "start"]
  /\ objects = {}
  /\ uploadFaults = 0

File(u) == batch[u][current[u]]
Object(u, i, part) == [upload |-> u, file |-> i, part |-> part]

UploadGoto(u, next) == uploadPc' = [uploadPc EXCEPT ![u] = next]

UploadFault(u) ==
  /\ uploadFaults < MaxUploadFaults
  /\ uploadFaults' = uploadFaults + 1
  /\ UploadGoto(u, "error")

\* handleUploadImages: the files of both form fields; none is an error.
UploadBegin(u) ==
  /\ uploadPc[u] = "ready"
  /\ \E b \in Batches :
       /\ batch' = [batch EXCEPT ![u] = b]
       /\ UploadGoto(u, IF b = <<>> THEN "bad request" ELSE "open")
  /\ UNCHANGED <<current, offset, objects, uploadFaults>>

\* A file over the limit is not opened.
RefuseSize(u) ==
  /\ uploadPc[u] = "open"
  /\ File(u) = "too large"
  /\ UploadGoto(u, "bad request")
  /\ UNCHANGED <<batch, current, offset, objects, uploadFaults>>

\* Opened, it is read to its header, or fails.
ReadHeader(u) ==
  /\ uploadPc[u] = "open"
  /\ File(u) # "too large"
  /\ \/ UploadGoto(u, "detect") /\ UNCHANGED uploadFaults
     \/ UploadFault(u)
  /\ offset' = [offset EXCEPT ![u] = "header"]
  /\ UNCHANGED <<batch, current, objects>>

\* Mutation: the reader is not reset.
DetectOnly(u) ==
  /\ uploadPc[u] = "detect"
  /\ UploadGoto(u, IF File(u) = "image" THEN "store" ELSE "bad request")
  /\ UNCHANGED <<batch, current, offset, objects, uploadFaults>>

\* The reader is reset, or fails; the header tells whether it is an image.
DetectImageContentType(u) ==
  /\ uploadPc[u] = "detect"
  /\ \/ /\ UploadGoto(u, IF File(u) = "image" THEN "store" ELSE "bad request")
        /\ offset' = [offset EXCEPT ![u] = "start"]
        /\ UNCHANGED uploadFaults
     \/ UploadFault(u) /\ UNCHANGED offset
  /\ UNCHANGED <<batch, current, objects>>

\* Where the request goes when a file is stored.
NextFile(u) == IF current[u] = Len(batch[u]) THEN "created" ELSE "open"

\* Mutation: the batch goes on when the storage refuses a file.
StoreOrSkip(u) ==
  /\ uploadPc[u] = "store"
  /\ current' = [current EXCEPT ![u] = @ + 1]
  /\ UploadGoto(u, NextFile(u))
  /\ \/ /\ objects' = objects \union {Object(u, current[u], offset[u])}
        /\ UNCHANGED uploadFaults
     \/ /\ uploadFaults < MaxUploadFaults
        /\ uploadFaults' = uploadFaults + 1
        /\ UNCHANGED objects
  /\ UNCHANGED <<batch, offset>>

\* PutObject sends what the reader still has; its answer may be lost.
Store(u) ==
  /\ uploadPc[u] = "store"
  /\ objects' = objects \union {Object(u, current[u], offset[u])}
  /\ \/ /\ UploadGoto(u, NextFile(u))
        /\ current' = [current EXCEPT ![u] = @ + 1]
        /\ UNCHANGED uploadFaults
     \/ UploadFault(u) /\ UNCHANGED current
  /\ UNCHANGED <<batch, offset>>

\* The object is not stored.
StoreFails(u) ==
  /\ uploadPc[u] = "store"
  /\ UploadFault(u)
  /\ UNCHANGED <<batch, current, offset, objects>>

UploadNext ==
  \E u \in Uploads :
    \/ UploadBegin(u) \/ RefuseSize(u) \/ ReadHeader(u) \/ DetectImageContentType(u)
    \/ Store(u) \/ StoreFails(u)

UploadSpec == UploadInit /\ [][UploadNext]_uvars

UploadTypeOK ==
  /\ batch \in [Uploads -> Batches \union {<<>>}]
  /\ \A u \in Uploads :
       uploadPc[u] \in {"ready", "open", "detect", "store"} \union UploadAnswers
  /\ \A u \in Uploads : current[u] \in 1..(Len(batch[u]) + 1)
  /\ \A u \in Uploads : offset[u] \in {"start", "header"}
  /\ \A o \in objects : o.upload \in Uploads /\ o.file \in DOMAIN batch[o.upload]
  /\ uploadFaults \in 0..MaxUploadFaults

\* Whether an image is in storage as it was sent.
StoredWhole(u, i) == batch[u][i] = "image" /\ Object(u, i, "start") \in objects

\* An upload that is answered "created" has stored each of its files whole, and
\* one that is not has stored the first few, in their order, and nothing else.
UploadStoresPrefix ==
  \A u \in Uploads :
    LET stored == {i \in DOMAIN batch[u] : StoredWhole(u, i)} IN
    /\ {o \in objects : o.upload = u} = {Object(u, i, "start") : i \in stored}
    /\ \E n \in 0..Len(batch[u]) : stored = 1..n
    /\ uploadPc[u] = "created" => stored = DOMAIN batch[u]
=============================================================================
