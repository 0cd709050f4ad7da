---------------------------- MODULE UploadProofs ----------------------------
(***************************************************************************)
(* What uploads store, for any number of requests, files and failures.     *)
(* UploadStoresPrefix says how much is stored, not how far a request is:   *)
(* the strengthening says both, file by file.                              *)
(***************************************************************************)
EXTENDS Upload, TLAPS

Steps == {"open", "detect", "store"}

\* An object is a whole image of its batch: the reader has been reset.
Pure ==
  \A o \in objects : \E u \in Uploads : \E i \in 1..Len(batch[u]) :
    o = Object(u, i, "start") /\ batch[u][i] = "image"

\* Request u has stored the first n of its files.
StoredFirst(u, n) == \A i \in 1..Len(batch[u]) : StoredWhole(u, i) <=> i <= n

\* How far request u is, and what it has stored.
Reached(u) ==
  /\ uploadPc[u] = "ready" => batch[u] = <<>> /\ current[u] = 1
  /\ uploadPc[u] \in Steps => current[u] <= Len(batch[u]) /\ StoredFirst(u, current[u] - 1)
  /\ uploadPc[u] = "store" => File(u) = "image" /\ offset[u] = "start"
  /\ uploadPc[u] = "created" => StoredFirst(u, Len(batch[u]))
  /\ uploadPc[u] \in {"bad request", "error"} => \E n \in 0..Len(batch[u]) : StoredFirst(u, n)

Types ==
  /\ batch \in [Uploads -> Seq(FileKinds)]
  /\ current \in [Uploads -> Nat \ {0}]
  /\ uploadPc \in [Uploads -> {"ready"} \union Steps \union UploadAnswers]
  /\ offset \in [Uploads -> {"start", "header"}]

UploadInv == Types /\ Pure /\ \A u \in Uploads : Reached(u)

UploadStep(u) ==
  \/ UploadBegin(u) \/ RefuseSize(u) \/ ReadHeader(u) \/ DetectImageContentType(u)
  \/ Store(u) \/ StoreFails(u)

LEMMA Successor == \A n \in Nat \ {0} : n + 1 \in Nat \ {0}
  OBVIOUS

LEMMA InvInit == UploadInit => UploadInv
  BY DEF UploadInit, UploadInv, Types, Pure, Reached, Steps, UploadAnswers

\* A step leaves the other requests where they are.
LEMMA OthersKept ==
  ASSUME UploadInv, NEW u \in Uploads, UploadStep(u), NEW w \in Uploads, w # u
  PROVE  Reached(w)'
<1>1. /\ batch'[w] = batch[w] /\ current'[w] = current[w] /\ uploadPc'[w] = uploadPc[w]
      /\ offset'[w] = offset[w]
  BY DEF UploadInv, Types, UploadStep, UploadBegin, RefuseSize, ReadHeader,
         DetectImageContentType, Store, StoreFails, UploadGoto, UploadFault
<1>2. \A i : Object(w, i, "start") \in objects' <=> Object(w, i, "start") \in objects
  <2>1. objects' = objects \/ objects' = objects \union {Object(u, current[u], offset[u])}
    BY DEF UploadStep, UploadBegin, RefuseSize, ReadHeader, DetectImageContentType, Store,
           StoreFails
  <2>2. QED
    BY <2>1 DEF Object
<1>3. Reached(w)
  BY DEF UploadInv
<1>4. \A n : StoredFirst(w, n)' <=> StoredFirst(w, n)
  BY <1>1, <1>2 DEF StoredFirst, StoredWhole, Object
<1>5. QED
  BY <1>1, <1>3, <1>4 DEF Reached, File

LEMMA InvNext == UploadInv /\ [UploadNext]_uvars => UploadInv'
<1> SUFFICES ASSUME UploadInv, [UploadNext]_uvars
             PROVE  UploadInv'
  OBVIOUS
<1>1. ASSUME NEW u \in Uploads, UploadStep(u)
      PROVE  UploadInv'
  <2>1. Types'
    <3> USE DEF UploadInv, Types, Steps, UploadAnswers, UploadGoto, UploadFault
    <3>1. CASE UploadBegin(u)
      BY <3>1, BatchesAssumption DEF UploadBegin
    <3>2. CASE RefuseSize(u)
      BY <3>2 DEF RefuseSize
    <3>3. CASE ReadHeader(u)
      BY <3>3 DEF ReadHeader
    <3>4. CASE DetectImageContentType(u)
      BY <3>4 DEF DetectImageContentType
    <3>5. CASE Store(u)
      <4>1. batch' \in [Uploads -> Seq(FileKinds)] /\ offset' \in [Uploads -> {"start", "header"}]
        BY <3>5 DEF Store
      <4>2. current' \in [Uploads -> Nat \ {0}]
        <5>1. current' = current \/ current' = [current EXCEPT ![u] = current[u] + 1]
          BY <3>5 DEF Store
        <5>2. QED
          BY <5>1, Successor
      <4>3. uploadPc' \in [Uploads -> {"ready"} \union Steps \union UploadAnswers]
        BY <3>5 DEF Store, NextFile
      <4>4. QED
        BY <4>1, <4>2, <4>3
    <3>6. CASE StoreFails(u)
      BY <3>6 DEF StoreFails
    <3>7. QED
      BY <1>1, <3>1, <3>2, <3>3, <3>4, <3>5, <3>6 DEF UploadStep
  <2>2. Reached(u) /\ Pure
    BY DEF UploadInv
  <2>3. CASE UploadBegin(u)
    <3>1. PICK b \in Batches :
            /\ batch' = [batch EXCEPT ![u] = b]
            /\ uploadPc' = [uploadPc EXCEPT ![u] = IF b = <<>> THEN "bad request" ELSE "open"]
      BY <2>3 DEF UploadBegin, UploadGoto
    <3>2. b \in Seq(FileKinds)
      BY BatchesAssumption
    <3>3. \A o \in objects : o.upload # u
      <4>1. Len(batch[u]) = 0
        <5>1. batch[u] = <<>>
          BY <2>2, <2>3 DEF Reached, UploadBegin
        <5>2. QED
          BY <5>1
      <4>2. QED
        BY <2>2, <4>1 DEF Pure, Object
    <3>4. \A i : Object(u, i, "start") \notin objects
      BY <3>3 DEF Object
    <3>5. batch'[u] = b /\ current'[u] = 1 /\ UNCHANGED objects
      BY <2>2, <2>3, <3>1 DEF UploadInv, Types, UploadBegin, Reached
    <3>6. \A i : ~StoredWhole(u, i)'
      BY <3>4, <3>5 DEF StoredWhole, Object
    <3>7. StoredFirst(u, 0)'
      BY <3>6 DEF StoredFirst
    <3>8. uploadPc'[u] = IF b = <<>> THEN "bad request" ELSE "open"
      BY <3>1 DEF UploadInv, Types
    <3>9. Reached(u)'
      <4>1. CASE b = <<>>
        <5>1. 0 \in 0..Len(batch'[u])
          BY <3>2, <3>5
        <5>2. (\E n \in 0..Len(batch[u]) : StoredFirst(u, n))'
          BY <3>7, <5>1 DEF StoredFirst, StoredWhole, Object
        <5>3. QED
          BY <3>5, <3>8, <4>1, <5>2 DEF Reached, Steps
      <4>2. CASE b # <<>>
        <5>1. 1 <= Len(b)
          BY <3>2, <4>2
        <5>2. QED
          BY <3>5, <3>7, <3>8, <4>2, <5>1 DEF Reached, Steps
      <4>3. QED
        BY <4>1, <4>2
    <3>10. Pure'
      <4>1. SUFFICES ASSUME NEW o \in objects
                     PROVE  \E w \in Uploads : \E i \in 1..Len(batch'[w]) :
                              o = Object(w, i, "start") /\ batch'[w][i] = "image"
        BY <3>5 DEF Pure, Object
      <4>2. PICK w \in Uploads : \E i \in 1..Len(batch[w]) :
              o = Object(w, i, "start") /\ batch[w][i] = "image"
        BY <2>2 DEF Pure
      <4>3. w # u
        BY <3>3, <4>2 DEF Object
      <4>4. batch'[w] = batch[w]
        BY <3>1, <4>3 DEF UploadInv, Types
      <4>5. QED
        BY <4>2, <4>4
    <3>11. QED
      BY <1>1, <2>1, <3>9, <3>10, OthersKept DEF UploadInv
  <2>4. CASE RefuseSize(u) \/ ReadHeader(u) \/ DetectImageContentType(u) \/ StoreFails(u)
    <3>1. UNCHANGED <<batch, current, objects>>
      BY <2>4 DEF RefuseSize, ReadHeader, DetectImageContentType, StoreFails
    <3>2. \A n : StoredFirst(u, n)' <=> StoredFirst(u, n)
      BY <3>1 DEF StoredFirst, StoredWhole, Object
    <3>3. current[u] - 1 \in 0..Len(batch[u]) /\ uploadPc[u] \in Steps
      <4>1. uploadPc[u] \in Steps
        BY <2>4 DEF RefuseSize, ReadHeader, DetectImageContentType, StoreFails, Steps
      <4>2. current[u] <= Len(batch[u])
        BY <2>2, <4>1 DEF Reached
      <4>3. batch[u] \in Seq(FileKinds) /\ current[u] \in Nat \ {0}
        BY DEF UploadInv, Types
      <4>4. Len(batch[u]) \in Nat
        BY <4>3
      <4>5. QED
        BY <4>1, <4>2, <4>3, <4>4
    <3>4. StoredFirst(u, current[u] - 1)
      BY <2>2, <3>3 DEF Reached
    <3>5. (\E n \in 0..Len(batch[u]) : StoredFirst(u, n))'
      BY <3>1, <3>3, <3>4 DEF StoredFirst, StoredWhole, Object
    <3>6. StoredFirst(u, current[u] - 1)'
      BY <3>1, <3>4 DEF StoredFirst, StoredWhole, Object
    <3>7. uploadPc'[u] \in {"detect", "store", "bad request", "error"}
      BY <2>4
         DEF UploadInv, Types, RefuseSize, ReadHeader, DetectImageContentType, StoreFails,
             UploadGoto, UploadFault
    <3>8. uploadPc'[u] = "store" => File(u) = "image" /\ offset'[u] = "start"
      BY <2>4
         DEF UploadInv, Types, RefuseSize, ReadHeader, DetectImageContentType, StoreFails,
             UploadGoto, UploadFault
    <3>9. Reached(u)'
      BY <2>2, <3>1, <3>3, <3>5, <3>6, <3>7, <3>8 DEF Reached, Steps, File
    <3>10. Pure'
      BY <2>2, <3>1 DEF Pure, Object
    <3>11. QED
      BY <1>1, <2>1, <3>9, <3>10, OthersKept DEF UploadInv
  <2>5. CASE Store(u)
    <3>1. /\ uploadPc[u] = "store" /\ File(u) = "image" /\ offset[u] = "start"
          /\ current[u] \in 1..Len(batch[u]) /\ StoredFirst(u, current[u] - 1)
          /\ batch[u] \in Seq(FileKinds) /\ Len(batch[u]) \in Nat
      <4>1. uploadPc[u] = "store" /\ batch[u] \in Seq(FileKinds) /\ current[u] \in Nat \ {0}
        BY <2>5 DEF Store, UploadInv, Types
      <4>2. QED
        BY <2>2, <4>1 DEF Reached, Steps
    <3>2. objects' = objects \union {Object(u, current[u], "start")} /\ UNCHANGED batch
      BY <2>5, <3>1 DEF Store
    <3>3. \A i \in 1..Len(batch'[u]) : StoredWhole(u, i)' <=> i <= current[u]
      <4> SUFFICES ASSUME NEW i \in 1..Len(batch[u])
                   PROVE  StoredWhole(u, i)' <=> i <= current[u]
        BY <3>2
      <4>1. StoredWhole(u, i) <=> i <= current[u] - 1
        BY <3>1 DEF StoredFirst
      <4>2. CASE i = current[u]
        BY <3>1, <3>2, <4>2 DEF StoredWhole, File
      <4>3. CASE i # current[u]
        <5>1. StoredWhole(u, i)' <=> StoredWhole(u, i)
          BY <3>2, <4>3 DEF StoredWhole, Object
        <5>2. QED
          BY <3>1, <4>1, <4>3, <5>1
      <4>4. QED
        BY <4>2, <4>3
    <3>4. \/ uploadPc'[u] = "error" /\ current'[u] = current[u]
          \/ uploadPc'[u] = NextFile(u) /\ current'[u] = current[u] + 1
      BY <2>5 DEF Store, UploadGoto, UploadFault, UploadInv, Types
    <3>5. Reached(u)'
      <4>1. CASE uploadPc'[u] = "error"
        <5>1. (\E n \in 0..Len(batch[u]) : StoredFirst(u, n))'
          <6>1. current[u] \in 0..Len(batch'[u])
            BY <3>1, <3>2
          <6>2. QED
            BY <3>3, <6>1 DEF StoredFirst, StoredWhole, Object
        <5>2. QED
          BY <4>1, <5>1 DEF Reached, Steps
      <4>2. CASE uploadPc'[u] = NextFile(u) /\ current'[u] = current[u] + 1
        <5>1. CASE current[u] = Len(batch[u])
          BY <3>1, <3>2, <3>3, <4>2, <5>1
             DEF NextFile, Reached, Steps, StoredFirst, StoredWhole, Object
        <5>2. CASE current[u] # Len(batch[u])
          <6>1. uploadPc'[u] = "open" /\ current'[u] <= Len(batch'[u])
            BY <3>1, <3>2, <4>2, <5>2 DEF NextFile
          <6>2. StoredFirst(u, current[u] - 1)'
            BY <3>1, <3>2, <3>3, <4>2 DEF StoredFirst, StoredWhole, Object
          <6>3. QED
            BY <6>1, <6>2 DEF Reached, Steps
        <5>3. QED
          BY <5>1, <5>2
      <4>3. QED
        BY <3>4, <4>1, <4>2
    <3>6. Pure'
      <4>1. \A o \in objects : \E w \in Uploads : \E i \in 1..Len(batch[w]) :
              o = Object(w, i, "start") /\ batch[w][i] = "image"
        BY <2>2 DEF Pure
      <4>2. QED
        BY <3>1, <3>2, <4>1 DEF Pure, File, Object
    <3>7. QED
      BY <1>1, <2>1, <3>5, <3>6, OthersKept DEF UploadInv
  <2>6. QED
    BY <1>1, <2>3, <2>4, <2>5 DEF UploadStep
<1>2. CASE UNCHANGED uvars
  <2>1. UNCHANGED <<batch, uploadPc, current, offset, objects>>
    BY <1>2 DEF uvars
  <2>2. Types' /\ Pure'
    BY <2>1 DEF UploadInv, Types, Steps, UploadAnswers, Pure, Object
  <2>3. ASSUME NEW u \in Uploads
        PROVE  Reached(u)'
    <3>1. Reached(u)
      BY DEF UploadInv
    <3>2. \A n : StoredFirst(u, n)' <=> StoredFirst(u, n)
      BY <2>1 DEF StoredFirst, StoredWhole, Object
    <3>3. QED
      BY <2>1, <3>1, <3>2 DEF Reached, File
  <2>4. QED
    BY <2>2, <2>3 DEF UploadInv
<1>3. QED
  BY <1>1, <1>2 DEF UploadNext, UploadStep

LEMMA InvStores == UploadInv => UploadStoresPrefix
<1> SUFFICES ASSUME UploadInv, NEW u \in Uploads
             PROVE  LET stored == {i \in DOMAIN batch[u] : StoredWhole(u, i)} IN
                    /\ {o \in objects : o.upload = u} = {Object(u, i, "start") : i \in stored}
                    /\ \E n \in 0..Len(batch[u]) : stored = 1..n
                    /\ uploadPc[u] = "created" => stored = DOMAIN batch[u]
  BY DEF UploadStoresPrefix
<1> DEFINE stored == {i \in DOMAIN batch[u] : StoredWhole(u, i)}
<1>1. /\ batch[u] \in Seq(FileKinds) /\ DOMAIN batch[u] = 1..Len(batch[u])
      /\ Len(batch[u]) \in Nat
  BY DEF UploadInv, Types
<1>2. {o \in objects : o.upload = u} = {Object(u, i, "start") : i \in stored}
  <2>1. ASSUME NEW o \in objects, o.upload = u
        PROVE  \E i \in stored : o = Object(u, i, "start")
    <3>1. PICK w \in Uploads : \E i \in 1..Len(batch[w]) :
            o = Object(w, i, "start") /\ batch[w][i] = "image"
      BY DEF UploadInv, Pure
    <3>2. w = u
      BY <2>1, <3>1 DEF Object
    <3>3. QED
      BY <1>1, <2>1, <3>1, <3>2 DEF StoredWhole, Object
  <2>2. ASSUME NEW i \in stored
        PROVE  Object(u, i, "start") \in objects /\ Object(u, i, "start").upload = u
    BY DEF StoredWhole, Object
  <2>3. QED
    BY <2>1, <2>2
<1>3. \E n \in 0..Len(batch[u]) : StoredFirst(u, n)
  <2>1. /\ Reached(u)
        /\ current[u] \in Nat \ {0}
        /\ uploadPc[u] \in {"ready"} \union Steps \union UploadAnswers
    BY DEF UploadInv, Types
  <2>2. CASE uploadPc[u] = "ready"
    <3>1. batch[u] = <<>>
      BY <2>1, <2>2 DEF Reached
    <3>2. 0 \in 0..Len(batch[u]) /\ StoredFirst(u, 0)
      BY <1>1, <3>1 DEF StoredFirst
    <3>3. QED
      BY <3>2
  <2>3. CASE uploadPc[u] \in Steps
    <3>1. current[u] - 1 \in 0..Len(batch[u])
      <4>1. current[u] <= Len(batch[u])
        BY <2>1, <2>3 DEF Reached
      <4>2. QED
        BY <1>1, <2>1, <4>1
    <3>2. QED
      BY <2>1, <2>3, <3>1 DEF Reached
  <2>4. CASE uploadPc[u] = "created"
    BY <1>1, <2>1, <2>4 DEF Reached
  <2>5. CASE uploadPc[u] \in {"bad request", "error"}
    BY <2>1, <2>5 DEF Reached
  <2>6. QED
    BY <2>1, <2>2, <2>3, <2>4, <2>5 DEF UploadAnswers
<1>4. \E n \in 0..Len(batch[u]) : stored = 1..n
  <2>1. PICK n \in 0..Len(batch[u]) : StoredFirst(u, n)
    BY <1>3
  <2>2. stored = 1..n
    BY <1>1, <2>1 DEF StoredFirst
  <2>3. QED
    BY <2>2
<1>5. uploadPc[u] = "created" => stored = DOMAIN batch[u]
  <2>1. uploadPc[u] = "created" => StoredFirst(u, Len(batch[u]))
    BY DEF UploadInv, Reached
  <2>2. QED
    BY <1>1, <2>1 DEF StoredFirst
<1>6. QED
  BY <1>2, <1>4, <1>5

\* However many uploads run and whatever fails, storage holds the first few files of
\* each, whole and in order, all of them if it is answered "created".
THEOREM UploadStoresPrefixHolds == UploadSpec => []UploadStoresPrefix
  BY InvInit, InvNext, InvStores, PTL DEF UploadSpec

\* What the type invariant says besides: which files come, how far a request is, and
\* how much fails.
UploadBounds ==
  /\ batch \in [Uploads -> Batches \union {<<>>}]
  /\ \A u \in Uploads : current[u] \in 1..(Len(batch[u]) + 1)
  /\ uploadFaults \in 0..MaxUploadFaults

LEMMA BoundsInit == UploadInit => UploadBounds
<1> SUFFICES ASSUME UploadInit
             PROVE  UploadBounds
  OBVIOUS
<1>1. /\ batch \in [Uploads -> Batches \union {<<>>}]
      /\ \A u \in Uploads : batch[u] = <<>> /\ current[u] = 1
      /\ uploadFaults = 0
  BY DEF UploadInit
<1>2. QED
  BY <1>1, MaxUploadFaultsAssumption DEF UploadBounds

LEMMA BoundsNext == UploadInv /\ UploadBounds /\ [UploadNext]_uvars => UploadBounds'
<1> SUFFICES ASSUME UploadInv, UploadBounds, [UploadNext]_uvars
             PROVE  UploadBounds'
  OBVIOUS
<1>1. ASSUME NEW u \in Uploads, UploadStep(u)
      PROVE  UploadBounds'
  <2>1. /\ DOMAIN batch = Uploads /\ \A w \in Uploads : Len(batch[w]) \in Nat
        /\ \A w \in Uploads : current[w] \in 1..(Len(batch[w]) + 1)
    BY DEF UploadInv, Types, UploadBounds
  <2>2. uploadFaults' \in 0..MaxUploadFaults
    <3>1. uploadFaults' = uploadFaults
            \/ (uploadFaults < MaxUploadFaults /\ uploadFaults' = uploadFaults + 1)
      BY <1>1 DEF UploadStep, UploadBegin, RefuseSize, ReadHeader, DetectImageContentType,
                  Store, StoreFails, UploadFault
    <3>2. QED
      BY <3>1, MaxUploadFaultsAssumption DEF UploadBounds
  <2>3. CASE UploadBegin(u)
    <3>1. PICK b \in Batches : batch' = [batch EXCEPT ![u] = b]
      BY <2>3 DEF UploadBegin
    <3>2. current' = current /\ current[u] = 1
      BY <2>3 DEF UploadBegin, UploadInv, Reached
    <3>3. Len(b) \in Nat
      BY BatchesAssumption
    <3>4. batch' \in [Uploads -> Batches \union {<<>>}]
      BY <3>1 DEF UploadBounds
    <3>5. ASSUME NEW w \in Uploads
          PROVE  current'[w] \in 1..(Len(batch'[w]) + 1)
      <4>1. CASE w = u
        <5>1. batch'[w] = b /\ current'[w] = 1
          BY <2>1, <3>1, <3>2, <4>1
        <5>2. QED
          BY <3>3, <5>1
      <4>2. CASE w # u
        BY <2>1, <3>1, <3>2, <4>2
      <4>3. QED
        BY <4>1, <4>2
    <3>6. QED
      BY <2>2, <3>4, <3>5 DEF UploadBounds
  <2>4. CASE batch' = batch /\ current' = current
    BY <2>1, <2>2, <2>4 DEF UploadBounds
  <2>5. CASE Store(u)
    <3>1. /\ batch' = batch
          /\ current' = current \/ current' = [current EXCEPT ![u] = @ + 1]
      BY <2>5 DEF Store
    <3>2. current[u] <= Len(batch[u])
      BY <2>5 DEF Store, UploadInv, Reached, Steps
    <3>3. DOMAIN current = Uploads
      BY DEF UploadInv, Types
    <3>4. \A w \in Uploads : current'[w] \in 1..(Len(batch[w]) + 1)
      BY <2>1, <3>1, <3>2, <3>3
    <3>5. QED
      BY <2>2, <3>1, <3>4 DEF UploadBounds
  <2>6. QED
    BY <1>1, <2>3, <2>4, <2>5
       DEF UploadStep, RefuseSize, ReadHeader, DetectImageContentType, StoreFails
<1>2. CASE UNCHANGED uvars
  BY <1>2 DEF UploadBounds, uvars
<1>3. QED
  BY <1>1, <1>2 DEF UploadNext, UploadStep

LEMMA InvUploadType == UploadInv /\ UploadBounds => UploadTypeOK
<1> SUFFICES ASSUME UploadInv, UploadBounds
             PROVE  UploadTypeOK
  OBVIOUS
<1>1. \A o \in objects : o.upload \in Uploads /\ o.file \in DOMAIN batch[o.upload]
  BY DEF UploadInv, Types, Pure, Object
<1>2. \A u \in Uploads : uploadPc[u] \in {"ready", "open", "detect", "store"} \union UploadAnswers
  BY DEF UploadInv, Types, Steps
<1>3. \A u \in Uploads : offset[u] \in {"start", "header"}
  BY DEF UploadInv, Types
<1>4. QED
  BY <1>1, <1>2, <1>3 DEF UploadBounds, UploadTypeOK
=============================================================================
