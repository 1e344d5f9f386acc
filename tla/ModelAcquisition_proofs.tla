---------------------- MODULE ModelAcquisition_proofs ----------------------
(***************************************************************************)
(* For any number of calls, revisions, files and attempts, any sizes and   *)
(* any disk: the calls keep the promises of ModelZoo, the storage check is *)
(* enough, and the verifier's verdict is true.                             *)
(***************************************************************************)
EXTENDS ModelAcquisition, FiniteSetTheorems, TLAPS

\* What a job has staged: nothing before it copies, everything once it is listed,
\* and what it has copied is whole unless another program changed it.
Staging(j) ==
    /\ j.copied \subseteq FilesOf[j.rev]
    /\ j.step \in {"started", "resolved", "checked", "asking", "fetching", "sleeping"} =>
         j.copied = {}
    /\ j.step \in {"listed", "verified", "renaming"} => j.copied = FilesOf[j.rev]
    /\ j.step = "sleeping" => j.attempt < Attempts
    /\ harm = 0 => \A f \in j.copied : j.staged[f] = "whole"

\* The space that is still to be used for a job.
Need(j) == FileSize * (Cardinality(FilesOf[j.rev] \ cache[j.rev])
                       + Cardinality(FilesOf[j.rev] \ j.copied))
Stored(j) == j.step \notin {"started", "resolved", "checked"} /\ SizeKnown[j.rev] /\ j.alone
             => free >= Need(j) + Margin(j.rev)

\* A call is still to be told, and has preserved nothing up to its renaming.
Fresh(c) == /\ told[c] = "none"
            /\ job[c].step # "renamed" =>
                 \A r \in Revisions : published[r] # None => published[r].owner # c
            /\ job[c].step = "renamed" =>
                 published[job[c].rev] # None /\ published[job[c].rev].owner = c
CallOk(c) == Fresh(c) /\ Staging(job[c]) /\ Stored(job[c])
Unpublished(c) ==
    told[c] = "none" /\ \A r \in Revisions : published[r] # None => published[r].owner # c
Calls == \A c \in Callers : job[c] # None => CallOk(c)

\* Who is told something else than VERIFIED, or dies, and has preserved nothing; a
\* call preserves one revision.
Owners ==
    /\ \A c \in Callers, r \in Revisions :
         published[r] # None /\ published[r].owner = c =>
           job[c] # None \/ told[c] \in {"VERIFIED", "DIED"}

\* What an audit has seen so far, unless a file changed since it began.
Compared(seen, d) ==
    /\ \A f \in Files \ seen.left : d.inventory[f] # "absent" => d.files[f] = d.inventory[f]
    /\ seen.rev \in External => d.record = "whole"
Auditing ==
    audit # None =>
      /\ published[audit.rev] # None
      /\ audit.left \subseteq Listed(audit.rev)
      /\ audit.calm =>
           IF audit.inventory THEN audit.ok /\ audit.left = {} /\ audit.rev \in External
           ELSE audit.ok <=> Compared(audit, published[audit.rev])

AInv == TypeOK /\ Calls /\ Owners /\ Auditing

-----------------------------------------------------------------------------
Before == {"started", "resolved", "checked"}

\* Sizes of finite sets are natural numbers; one file less is one less.
LEMMA Counting ==
    ASSUME NEW S \in SUBSET Files
    PROVE /\ Cardinality(S) \in Nat
          /\ \A T \in SUBSET S : Cardinality(T) \in Nat /\ Cardinality(T) <= Cardinality(S)
          /\ \A f \in S : Cardinality(S \ {f}) = Cardinality(S) - 1
<1>1. IsFiniteSet(S)
  BY AcquisitionAssumption, FS_Subset
<1> QED  BY <1>1, FS_CardinalityType, FS_Subset, FS_RemoveElement

LEMMA Sizes ==
    ASSUME NEW r \in Revisions
    PROVE FilesOf[r] \in SUBSET Files /\ SizeKnown[r] \in BOOLEAN
          /\ Expected(r) \in Nat /\ Margin(r) \in Nat
<1>1. FilesOf[r] \in SUBSET Files /\ SizeKnown[r] \in BOOLEAN
  BY AcquisitionAssumption
<1>2. Cardinality(FilesOf[r]) \in Nat
  BY <1>1, Counting
<1>3. Expected(r) \in Nat
  BY <1>2, AcquisitionAssumption DEF Expected
<1> HIDE DEF Expected
<1>4. Margin(r) \in Nat
  BY <1>3, AcquisitionAssumption DEF Margin
<1> QED  BY <1>1, <1>3, <1>4

LEMMA Needed ==
    ASSUME TypeOK, NEW j \in Jobs
    PROVE /\ Cardinality(FilesOf[j.rev] \ cache[j.rev]) \in Nat
          /\ Cardinality(FilesOf[j.rev] \ j.copied) \in Nat
          /\ Need(j) \in Nat
<1>1. j.rev \in Revisions
  BY DEF Jobs
<1>2. /\ FilesOf[j.rev] \ cache[j.rev] \in SUBSET Files
      /\ FilesOf[j.rev] \ j.copied \in SUBSET Files
  BY <1>1, Sizes
<1>3. /\ Cardinality(FilesOf[j.rev] \ cache[j.rev]) \in Nat
      /\ Cardinality(FilesOf[j.rev] \ j.copied) \in Nat
  BY <1>2, Counting
<1> QED  BY <1>3, AcquisitionAssumption DEF Need

\* The initial states satisfy the invariant.
LEMMA InitAInv == Init => AInv
  BY AcquisitionAssumption DEF Init, AInv, TypeOK, Calls, Owners, Auditing, Statuses

\* A job and its fields.
LEMMA JobType == ASSUME TypeOK, NEW c \in Callers, job[c] # None PROVE job[c] \in Jobs
  BY DEF TypeOK

LEMMA JobFields ==
    ASSUME NEW j \in Jobs, NEW s \in Steps
    PROVE LET k == [j EXCEPT !.step = s]
          IN /\ k \in Jobs /\ k.step = s
             /\ k.rev = j.rev /\ k.copied = j.copied /\ k.staged = j.staged
             /\ k.alone = j.alone /\ k.attempt = j.attempt
  BY DEF Jobs

-----------------------------------------------------------------------------
(* What the actions do, in groups.                                          *)

\* A call goes on, without touching the zoo or the disk.
LEMMA MoveAInv ==
    ASSUME AInv, NEW c \in Callers, NEW j \in Jobs,
           Unpublished(c), j.step # "renamed",
           job' = [job EXCEPT ![c] = j],
           Staging(j), Stored(j),
           head' \in [References -> Revisions],
           UNCHANGED <<pushes, cache, free, published, told, audit, harm>>
    PROVE AInv'
<1> USE AcquisitionAssumption
<1>1. TypeOK'
  BY DEF AInv, TypeOK
<1>2. job'[c] = j /\ \A d \in Callers : d # c => job'[d] = job[d]
  BY DEF AInv, TypeOK
<1>3. Calls'
  <2> SUFFICES ASSUME NEW d \in Callers, job'[d] # None PROVE CallOk(d)'
    BY DEF Calls
  <2>1. CASE d = c
    <3>1. Fresh(c)'
      BY <1>2, AcquisitionAssumption DEF Unpublished, Fresh
    <3>2. Staging(j)' /\ Stored(j)'
      BY DEF Staging, Stored, Need
    <3> QED  BY <1>2, <2>1, <3>1, <3>2 DEF CallOk, Staging, Stored, Need
  <2>2. CASE d # c
    <3>1. Fresh(d) /\ Staging(job[d]) /\ Stored(job[d])
      BY <1>2, <2>2 DEF AInv, Calls, CallOk
    <3> QED  BY <1>2, <2>2, <3>1 DEF CallOk, Fresh, Staging, Stored, Need
  <2> QED  BY <2>1, <2>2
<1>4. Owners'
  BY <1>2 DEF AInv, Owners
<1>5. Auditing'
  BY DEF AInv, Auditing, Compared, Listed
<1> QED  BY <1>1, <1>3, <1>4, <1>5 DEF AInv

\* A call's process ends.
LEMMA ExitAInv ==
    ASSUME AInv, NEW c \in Callers, NEW status \in Statuses \ {"none"},
           job[c] # None, job[c].step = "renamed" => status \in {"VERIFIED", "DIED"},
           Exit(c, status),
           UNCHANGED <<head, pushes, cache, free, audit, harm>>
    PROVE AInv'
<1> USE AcquisitionAssumption DEF Exit
<1>1. TypeOK'
  BY DEF AInv, TypeOK
<1>2. /\ job'[c] = None /\ told'[c] = status
      /\ \A d \in Callers : d # c => job'[d] = job[d] /\ told'[d] = told[d]
  BY DEF AInv, TypeOK
<1>3. Calls'
  <2> SUFFICES ASSUME NEW d \in Callers, job'[d] # None PROVE CallOk(d)'
    BY DEF Calls
  <2>1. d # c /\ Fresh(d) /\ Staging(job[d]) /\ Stored(job[d])
    BY <1>2 DEF AInv, Calls, CallOk
  <2> QED  BY <1>2, <2>1 DEF CallOk, Fresh, Staging, Stored, Need
<1>4. Owners'
  <2>1. Fresh(c)
    BY DEF AInv, Calls, CallOk
  <2> QED  BY <1>2, <2>1 DEF AInv, Owners, Fresh
<1>5. Auditing'
  BY DEF AInv, Auditing, Compared, Listed
<1> QED  BY <1>1, <1>3, <1>4, <1>5 DEF AInv

\* A call only changes its step.
LEMMA GoAInv ==
    ASSUME AInv, NEW c \in Callers, NEW s \in Steps \ {"renamed"},
           job[c] # None, job[c].step # "renamed", Go(c, s),
           job[c].step \in Before => s \in Before,
           s \in {"started", "resolved", "checked", "asking", "fetching", "sleeping"} =>
             job[c].copied = {},
           s \in {"listed", "verified", "renaming"} => job[c].copied = FilesOf[job[c].rev],
           s = "sleeping" => job[c].attempt < Attempts,
           UNCHANGED <<head, pushes, cache, free, audit, harm>>
    PROVE AInv'
<1> DEFINE j == [job[c] EXCEPT !.step = s]
<1>1. job[c] \in Jobs /\ Staging(job[c]) /\ Stored(job[c])
  BY JobType DEF AInv, Calls, CallOk
<1>2. /\ j \in Jobs /\ j.step = s /\ j.rev = job[c].rev /\ j.copied = job[c].copied
      /\ j.staged = job[c].staged /\ j.alone = job[c].alone /\ j.attempt = job[c].attempt
  BY <1>1, JobFields
<1>3. job' = [job EXCEPT ![c] = j] /\ UNCHANGED <<published, told>>
  BY DEF Go
<1> HIDE DEF j
<1>7. Unpublished(c)
  BY DEF AInv, Calls, CallOk, Fresh, Unpublished
<1>4. Staging(j)
  BY <1>1, <1>2 DEF Staging
<1>5. Stored(j)
  BY <1>1, <1>2 DEF Stored, Need, Before
<1>6. head' \in [References -> Revisions]
  BY DEF AInv, TypeOK
<1> QED  BY <1>2, <1>3, <1>4, <1>5, <1>6, <1>7, MoveAInv

-----------------------------------------------------------------------------
(* The calls.                                                               *)

LEMMA StartAInv ==
    ASSUME AInv, NEW c \in Callers, NEW reference \in References, Start(c, reference)
    PROVE AInv'
<1> DEFINE j == [step |-> "started", reference |-> reference, rev |-> head[reference],
                 attempt |-> 0, copied |-> {}, staged |-> Empty, inventory |-> Empty,
                 alone |-> TRUE]
<1>1. j \in Jobs /\ j.step = "started" /\ j.copied = {}
  BY AcquisitionAssumption DEF AInv, TypeOK, Jobs, Steps, Empty, Snapshots, Status
<1>2. job[c] = None /\ told[c] = "none" /\ job' = [job EXCEPT ![c] = j]
  BY DEF Start
<1> HIDE DEF j
<1>3. Staging(j) /\ Stored(j)
  BY <1>1 DEF Staging, Stored
<1>4. Unpublished(c)
  BY <1>2 DEF AInv, Owners, Unpublished
<1>5. /\ head' \in [References -> Revisions]
      /\ UNCHANGED <<pushes, cache, free, published, told, audit, harm>>
  BY DEF Start, disk, AInv, TypeOK
<1> QED  BY <1>1, <1>2, <1>3, <1>4, <1>5, MoveAInv

\* What is known of a call at a step.
LEMMA Placed ==
    ASSUME AInv, NEW c \in Callers, NEW s \in Steps, At(c, s)
    PROVE /\ job[c] # None /\ job[c].step = s /\ job[c] \in Jobs /\ job[c].rev \in Revisions
          /\ Fresh(c) /\ Staging(job[c]) /\ Stored(job[c])
          /\ s # "renamed" => Unpublished(c)
  BY JobType DEF AInv, Calls, CallOk, Fresh, Unpublished, At, Jobs

LEMMA ResolveAInv == ASSUME AInv, NEW c \in Callers, Resolve(c) PROVE AInv'
<1>1. UNCHANGED <<head, pushes, cache, free, audit, harm>> /\ At(c, "started")
  BY DEF Resolve, disk
<1>2. /\ job[c] # None /\ job[c].step = "started" /\ job[c] \in Jobs
      /\ Staging(job[c]) /\ Unpublished(c)
  BY <1>1, Placed DEF Steps
<1>3. CASE Fail(c) \/ Escape(c)
  BY <1>1, <1>2, <1>3, ExitAInv DEF Fail, Escape, Statuses
<1>4. CASE /\ job' = [job EXCEPT ![c].step = "resolved", ![c].rev = head[job[c].reference]]
           /\ UNCHANGED <<published, told>>
  <2> DEFINE j == [job[c] EXCEPT !.step = "resolved", !.rev = head[job[c].reference]]
  <2>1. head \in [References -> Revisions]
    BY DEF AInv, TypeOK
  <2>2. j \in Jobs /\ j.step = "resolved" /\ j.copied = job[c].copied /\ j.staged = job[c].staged
    BY <1>2, <2>1 DEF Jobs, Steps
  <2>3. job' = [job EXCEPT ![c] = j]
    BY <1>4
  <2> HIDE DEF j
  <2>4. Staging(j) /\ Stored(j)
    BY <1>2, <2>2 DEF Staging, Stored
  <2> QED  BY <1>1, <1>2, <1>4, <2>1, <2>2, <2>3, <2>4, MoveAInv
<1> QED  BY <1>3, <1>4 DEF Resolve

LEMMA CheckCollisionAInv == ASSUME AInv, NEW c \in Callers, CheckCollision(c) PROVE AInv'
<1>1. UNCHANGED <<head, pushes, cache, free, audit, harm>> /\ At(c, "resolved")
  BY DEF CheckCollision, disk
<1>2. job[c] # None /\ job[c].step = "resolved" /\ Staging(job[c])
  BY <1>1, Placed DEF Steps
<1>3. CASE Fail(c) \/ Escape(c)
  BY <1>1, <1>2, <1>3, ExitAInv DEF Fail, Escape, Statuses
<1>4. CASE Go(c, "checked")
  BY <1>1, <1>2, <1>4, GoAInv DEF Steps, Before, Staging
<1> QED  BY <1>3, <1>4 DEF CheckCollision

\* The check leaves room for the download, the copy and the margin.
LEMMA CheckStorageAInv ==
    ASSUME AInv, NEW c \in Callers, NEW yes \in BOOLEAN, NEW tty \in BOOLEAN,
           CheckStorage(c, yes, tty)
    PROVE AInv'
<1> DEFINE r == job[c].rev
           short == SizeKnown[r] /\ free < Required(r)
           go == Small(r) \/ yes
           s == IF go THEN "fetching" ELSE "asking"
           j == [job[c] EXCEPT !.step = s, !.attempt = 1, !.alone = TRUE]
<1>1. UNCHANGED <<head, pushes, cache, free, audit, harm>> /\ At(c, "checked")
  BY DEF CheckStorage, disk
<1>2. /\ job[c] # None /\ job[c].step = "checked" /\ job[c] \in Jobs /\ r \in Revisions
      /\ Staging(job[c]) /\ Unpublished(c)
  BY <1>1, Placed DEF Steps
<1>3. CASE short
  <2>1. Exit(c, "INSUFFICIENT_STORAGE")
    BY <1>3 DEF CheckStorage
  <2> QED  BY <1>1, <1>2, <2>1, ExitAInv DEF Statuses
<1>4. CASE ~short /\ ~go /\ ~tty
  <2>1. Exit(c, "CONFIRMATION_REQUIRED")
    BY <1>4 DEF CheckStorage
  <2> QED  BY <1>1, <1>2, <2>1, ExitAInv DEF Statuses
<1>5. CASE ~short /\ (go \/ tty)
  <2>1. job' = [job EXCEPT ![c] = j] /\ UNCHANGED <<published, told>>
    BY <1>5 DEF CheckStorage
  <2>2. /\ j \in Jobs /\ j.step = s /\ j.rev = r /\ j.copied = job[c].copied
        /\ j.staged = job[c].staged
    <3>1. s \in Steps /\ 1 \in 0..Attempts
      BY AcquisitionAssumption DEF Steps
    <3> HIDE DEF s
    <3> QED  BY <1>2, <3>1 DEF Jobs
  <2>3. SizeKnown[r] => free >= Required(r)
    BY <1>2, <1>5, Sizes DEF Required, AInv, TypeOK
  <2>4. s \in {"fetching", "asking"}
    OBVIOUS
  <2> HIDE DEF j, s, short, go
  <2>5. Staging(j) /\ j.copied = {}
    BY <1>2, <2>2, <2>4 DEF Staging
  <2>6. Need(j) <= Expected(r) + Expected(r) /\ Need(j) \in Nat
    <3> DEFINE n == Cardinality(FilesOf[r] \ cache[r])
               m == Cardinality(FilesOf[r])
    <3>1. n \in Nat /\ m \in Nat /\ n <= m
      <4>1. FilesOf[r] \in SUBSET Files /\ FilesOf[r] \ cache[r] \in SUBSET FilesOf[r]
        BY <1>2, Sizes
      <4> QED  BY <4>1, Counting
    <3>2. Need(j) = FileSize * (n + m) /\ Expected(r) = FileSize * m
      <4>1. FilesOf[r] \ j.copied = FilesOf[r]
        BY <2>5
      <4> QED  BY <2>2, <4>1 DEF Need, Expected
    <3> HIDE DEF n, m
    <3>3. FileSize * (n + m) <= FileSize * (m + m) /\ FileSize * (n + m) \in Nat
          /\ FileSize * (m + m) = FileSize * m + FileSize * m
      BY <3>1, AcquisitionAssumption
    <3> QED  BY <3>2, <3>3
  <2>7. Stored(j)
    <3>1. Expected(r) \in Nat /\ Margin(r) \in Nat /\ free \in Nat
      BY <1>2, Sizes DEF AInv, TypeOK
    <3> QED  BY <2>2, <2>3, <2>6, <3>1 DEF Stored, Required
  <2>8. head' \in [References -> Revisions]
    BY <1>1 DEF AInv, TypeOK
  <2>9. j.step # "renamed"
    BY <2>2, <2>4
  <2> QED  BY <1>1, <1>2, <2>1, <2>2, <2>5, <2>7, <2>8, <2>9, MoveAInv
<1> QED  BY <1>3, <1>4, <1>5 DEF CheckStorage

LEMMA ConfirmAInv == ASSUME AInv, NEW c \in Callers, Confirm(c) PROVE AInv'
<1>1. UNCHANGED <<head, pushes, cache, free, audit, harm>> /\ At(c, "asking")
  BY DEF Confirm, disk
<1>2. job[c] # None /\ job[c].step = "asking" /\ Staging(job[c])
  BY <1>1, Placed DEF Steps
<1>3. CASE Go(c, "fetching")
  BY <1>1, <1>2, <1>3, GoAInv DEF Steps, Before, Staging
<1>4. CASE Exit(c, "CONFIRMATION_REQUIRED")
  BY <1>1, <1>2, <1>4, ExitAInv DEF Statuses
<1> QED  BY <1>3, <1>4 DEF Confirm

\* One file of space is used: the other calls are no longer alone.
LEMMA UseAInv ==
    ASSUME AInv, NEW c \in Callers, NEW j \in Jobs,
           job[c] # None, job[c].step # "renamed", j.step # "renamed",
           Use(c, j), free >= FileSize,
           cache' \in [Revisions -> SUBSET Files],
           Staging(j), Stored(j)',
           UNCHANGED <<head, pushes, audit, harm>>
    PROVE AInv'
<1> USE AcquisitionAssumption
<1>1. job'[c] = j /\ UNCHANGED <<published, told>>
  BY DEF Use
<1>2. ASSUME NEW d \in Callers, d # c, job[d] # None
      PROVE /\ job'[d] = [job[d] EXCEPT !.alone = FALSE] /\ job'[d] \in Jobs
            /\ job'[d].step = job[d].step /\ job'[d].rev = job[d].rev
            /\ job'[d].copied = job[d].copied /\ job'[d].staged = job[d].staged
            /\ job'[d].attempt = job[d].attempt /\ ~job'[d].alone
  <2>1. job'[d] = [job[d] EXCEPT !.alone = FALSE] /\ job[d] \in Jobs
    BY <1>2, JobType DEF Use, AInv
  <2> QED  BY <2>1 DEF Jobs
<1>3. \A d \in Callers : d # c /\ job[d] = None => job'[d] = None
  BY DEF Use
<1>4. TypeOK'
  <2>1. job' \in [Callers -> Jobs \union {None}]
    <3>1. DOMAIN job' = Callers /\ job' = [d \in Callers |-> job'[d]]
      BY DEF Use
    <3> QED  BY <1>1, <1>2, <1>3, <3>1
  <2>2. free' \in Nat
    BY DEF Use, AInv, TypeOK
  <2> QED  BY <1>1, <2>1, <2>2 DEF AInv, TypeOK
<1>5. Calls'
  <2> SUFFICES ASSUME NEW d \in Callers, job'[d] # None PROVE CallOk(d)'
    BY DEF Calls
  <2>1. CASE d = c
    <3>1. Fresh(c)
      BY DEF AInv, Calls, CallOk
    <3> QED  BY <1>1, <2>1, <3>1 DEF CallOk, Fresh, Staging, Stored, Need
  <2>2. CASE d # c
    <3>1. CallOk(d) /\ job[d] # None
      BY <1>3, <2>2 DEF AInv, Calls
    <3>2. /\ job'[d].step = job[d].step /\ job'[d].rev = job[d].rev
          /\ job'[d].copied = job[d].copied /\ job'[d].staged = job[d].staged
          /\ job'[d].attempt = job[d].attempt /\ ~job'[d].alone
      BY <1>2, <2>2, <3>1
    <3>3. Fresh(d)' /\ Stored(job[d])'
      BY <1>1, <3>1, <3>2 DEF CallOk, Fresh, Stored
    <3>4. Staging(job[d])'
      BY <3>1, <3>2 DEF CallOk, Staging
    <3> QED  BY <3>3, <3>4 DEF CallOk
  <2> QED  BY <2>1, <2>2
<1>6. Owners'
  BY <1>1, <1>2 DEF AInv, Owners
<1>7. Auditing'
  BY <1>1 DEF AInv, Auditing, Compared, Listed
<1> QED  BY <1>4, <1>5, <1>6, <1>7 DEF AInv

LEMMA OneFileLess ==
    ASSUME NEW n \in Nat, NEW m \in Nat
    PROVE /\ FileSize * ((n - 1) + m) = FileSize * (n + m) - FileSize
          /\ FileSize * (n + (m - 1)) = FileSize * (n + m) - FileSize
          /\ FileSize * (n + m) \in Nat
  BY AcquisitionAssumption

LEMMA DownloadAInv == ASSUME AInv, NEW c \in Callers, Download(c) PROVE AInv'
<1>1. UNCHANGED <<head, pushes, audit, harm>> /\ At(c, "fetching")
  BY DEF Download
<1>2. PICK j \in Jobs : j = job[c]
  BY <1>1, Placed DEF Steps
<1> DEFINE r == j.rev
<1>3. /\ job[c] # None /\ j.step = "fetching" /\ r \in Revisions
      /\ Staging(j) /\ Stored(j) /\ FilesOf[r] \in SUBSET Files
  BY <1>1, <1>2, Placed, Sizes DEF Steps
<1>4. PICK f \in FilesOf[r] \ cache[r] :
        IF free < FileSize THEN Fail(c) /\ UNCHANGED disk
        ELSE cache' = [cache EXCEPT ![r] = @ \union {f}] /\ Use(c, j)
  BY <1>2 DEF Download
<1>5. CASE free < FileSize
  BY <1>1, <1>2, <1>3, <1>4, <1>5, ExitAInv DEF Fail, Statuses, disk
<1>6. CASE ~(free < FileSize)
  <2>1. /\ cache' = [cache EXCEPT ![r] = @ \union {f}] /\ Use(c, j) /\ free >= FileSize
        /\ free' = free - FileSize /\ free \in Nat
    BY <1>4, <1>6, AcquisitionAssumption DEF Use, AInv, TypeOK
  <2>2. cache' \in [Revisions -> SUBSET Files] /\ cache'[r] = cache[r] \union {f}
    BY <1>3, <1>4, <2>1 DEF AInv, TypeOK
  <2>3. Stored(j)'
    <3> DEFINE n == Cardinality(FilesOf[r] \ cache[r])
               m == Cardinality(FilesOf[r] \ j.copied)
    <3>1. n \in Nat /\ m \in Nat /\ Margin(r) \in Nat
      BY <1>3, Sizes, Needed DEF AInv
    <3>2. Cardinality((FilesOf[r] \ cache[r]) \ {f}) = n - 1
      BY <1>3, Counting
    <3>3. FilesOf[r] \ cache'[r] = (FilesOf[r] \ cache[r]) \ {f}
      BY <2>2
    <3>4. Need(j) = FileSize * (n + m) /\ Need(j)' = FileSize * ((n - 1) + m)
      BY <3>2, <3>3 DEF Need
    <3> HIDE DEF n, m, r
    <3>5. Need(j)' = Need(j) - FileSize /\ Need(j) \in Nat
      BY <3>1, <3>4, OneFileLess
    <3> SUFFICES ASSUME SizeKnown[r], j.alone PROVE free' >= Need(j)' + Margin(r)
      BY DEF Stored, r
    <3>6. free >= Need(j) + Margin(r)
      BY <1>3 DEF Stored, r
    <3>7. free' = free - FileSize /\ free \in Nat
      BY <2>1
    <3> QED  BY <3>1, <3>5, <3>6, <3>7, AcquisitionAssumption
  <2> QED  BY <1>1, <1>2, <1>3, <2>1, <2>2, <2>3, UseAInv
<1> QED  BY <1>5, <1>6

LEMMA CopyAInv == ASSUME AInv, NEW c \in Callers, Copy(c) PROVE AInv'
<1>1. UNCHANGED <<head, pushes, cache, audit, harm>> /\ At(c, "copying")
  BY DEF Copy
<1>2. PICK j \in Jobs : j = job[c]
  BY <1>1, Placed DEF Steps
<1> DEFINE r == j.rev
<1>3. /\ job[c] # None /\ j.step = "copying" /\ r \in Revisions
      /\ Staging(j) /\ Stored(j) /\ FilesOf[r] \in SUBSET Files
  BY <1>1, <1>2, Placed, Sizes DEF Steps
<1>4. PICK f \in FilesOf[r] \ j.copied :
        IF free < FileSize THEN Fail(c) /\ UNCHANGED free
        ELSE Use(c, [j EXCEPT !.copied = @ \union {f}, !.staged[f] = "whole"])
  BY <1>2 DEF Copy
<1>5. CASE free < FileSize
  BY <1>1, <1>2, <1>3, <1>4, <1>5, ExitAInv DEF Fail, Statuses
<1>6. CASE ~(free < FileSize)
  <2>1. PICK k : k = [j EXCEPT !.copied = @ \union {f}, !.staged[f] = "whole"]
    OBVIOUS
  <2>2. /\ k \in Jobs /\ k.step = "copying" /\ k.rev = r /\ k.copied = j.copied \union {f}
        /\ k.alone = j.alone /\ k.staged = [j.staged EXCEPT ![f] = "whole"]
        /\ j.staged \in Snapshots /\ j.copied \in SUBSET Files
    BY <1>3, <1>4, <2>1 DEF Jobs, Snapshots, Status
  <2>3. /\ Use(c, k) /\ free >= FileSize /\ free' = free - FileSize /\ free \in Nat
    BY <1>4, <1>6, <2>1, AcquisitionAssumption DEF Use, AInv, TypeOK
  <2>4. Staging(k)
    <3>1. harm = 0 => \A g \in k.copied : k.staged[g] = "whole"
      BY <1>3, <2>2 DEF Staging, Snapshots
    <3> QED  BY <1>3, <1>4, <2>2, <3>1 DEF Staging
  <2>5. Stored(k)'
    <3> DEFINE n == Cardinality(FilesOf[r] \ cache[r])
               m == Cardinality(FilesOf[r] \ j.copied)
    <3>1. n \in Nat /\ m \in Nat /\ Margin(r) \in Nat
      BY <1>3, Sizes, Needed DEF AInv
    <3>2. Cardinality((FilesOf[r] \ j.copied) \ {f}) = m - 1
      BY <1>3, Counting
    <3>3. FilesOf[r] \ k.copied = (FilesOf[r] \ j.copied) \ {f}
      BY <2>2
    <3>4. Need(j) = FileSize * (n + m) /\ Need(k)' = FileSize * (n + (m - 1))
      BY <1>1, <2>2, <3>2, <3>3 DEF Need
    <3> HIDE DEF n, m, r
    <3>5. Need(k)' = Need(j) - FileSize /\ Need(j) \in Nat
      BY <3>1, <3>4, OneFileLess
    <3> QED  BY <1>3, <2>2, <2>3, <3>1, <3>5, AcquisitionAssumption DEF Stored, r
  <2>6. cache' \in [Revisions -> SUBSET Files]
    BY <1>1 DEF AInv, TypeOK
  <2> QED  BY <1>1, <1>2, <1>3, <2>2, <2>3, <2>4, <2>5, <2>6, UseAInv
<1> QED  BY <1>5, <1>6

LEMMA WakeAInv == ASSUME AInv, NEW c \in Callers, Wake(c) PROVE AInv'
<1> DEFINE j == [job[c] EXCEPT !.step = "fetching", !.attempt = @ + 1]
<1>1. /\ At(c, "sleeping") /\ job' = [job EXCEPT ![c] = j]
      /\ UNCHANGED <<head, pushes, cache, free, published, told, audit, harm>>
  BY DEF Wake, disk
<1>2. /\ job[c] \in Jobs /\ job[c].step = "sleeping" /\ Staging(job[c]) /\ Stored(job[c])
      /\ Unpublished(c)
  BY <1>1, Placed DEF Steps
<1>3. /\ j \in Jobs /\ j.step = "fetching" /\ j.rev = job[c].rev /\ j.copied = job[c].copied
      /\ j.staged = job[c].staged /\ j.alone = job[c].alone
  <2>1. job[c].attempt + 1 \in 0..Attempts
    BY <1>2, AcquisitionAssumption DEF Jobs, Staging
  <2> QED  BY <1>2, <2>1 DEF Jobs, Steps
<1> HIDE DEF j
<1>4. Staging(j) /\ Stored(j)
  BY <1>2, <1>3 DEF Staging, Stored, Need
<1>5. head' \in [References -> Revisions]
  BY <1>1 DEF AInv, TypeOK
<1> QED  BY <1>1, <1>2, <1>3, <1>4, <1>5, MoveAInv

LEMMA InventoryAInv == ASSUME AInv, NEW c \in Callers, Inventory(c) PROVE AInv'
<1> DEFINE j == [job[c] EXCEPT !.step = "listed", !.inventory = job[c].staged]
<1>1. /\ At(c, "copying") /\ job[c].copied = FilesOf[job[c].rev]
      /\ UNCHANGED <<head, pushes, cache, free, audit, harm>>
  BY DEF Inventory, disk
<1>2. /\ job[c] \in Jobs /\ job[c].step = "copying" /\ Staging(job[c]) /\ Stored(job[c])
      /\ Unpublished(c) /\ job[c] # None
  BY <1>1, Placed DEF Steps
<1>3. CASE Fail(c)
  BY <1>1, <1>2, <1>3, ExitAInv DEF Fail, Statuses
<1>4. CASE job' = [job EXCEPT ![c] = j] /\ UNCHANGED <<published, told>>
  <2>1. /\ j \in Jobs /\ j.step = "listed" /\ j.rev = job[c].rev /\ j.copied = job[c].copied
        /\ j.staged = job[c].staged /\ j.alone = job[c].alone
    BY <1>2 DEF Jobs, Steps
  <2> HIDE DEF j
  <2>2. Staging(j) /\ Stored(j)
    BY <1>1, <1>2, <2>1 DEF Staging, Stored, Need
  <2>3. head' \in [References -> Revisions]
    BY <1>1 DEF AInv, TypeOK
  <2> QED  BY <1>1, <1>2, <1>4, <2>1, <2>2, <2>3, MoveAInv
<1> QED  BY <1>3, <1>4 DEF Inventory

LEMMA InterruptAInv == ASSUME AInv, NEW c \in Callers, Interrupt(c) PROVE AInv'
<1>1. /\ At(c, "fetching") \/ At(c, "copying")
      /\ Exit(c, "INTERRUPTED") /\ UNCHANGED <<head, pushes, cache, free, audit, harm>>
  BY DEF Interrupt, disk
<1> QED  BY <1>1, ExitAInv DEF At, Statuses

LEMMA DieAInv == ASSUME AInv, NEW c \in Callers, Die(c) PROVE AInv'
<1>1. /\ job[c] # None /\ Exit(c, "DIED") /\ UNCHANGED <<head, pushes, cache, free, audit, harm>>
  BY DEF Die, Escape, disk
<1> QED  BY <1>1, ExitAInv DEF Statuses

LEMMA DownloadedAInv == ASSUME AInv, NEW c \in Callers, Downloaded(c) PROVE AInv'
<1>1. UNCHANGED <<head, pushes, cache, free, audit, harm>> /\ At(c, "fetching")
  BY DEF Downloaded, disk
<1>2. job[c] # None /\ job[c].step = "fetching" /\ Staging(job[c])
  BY <1>1, Placed DEF Steps
<1>3. CASE Go(c, "copying")
  BY <1>1, <1>2, <1>3, GoAInv DEF Steps, Before, Staging
<1> QED  BY <1>3 DEF Downloaded

LEMMA FetchFailsAInv == ASSUME AInv, NEW c \in Callers, FetchFails(c) PROVE AInv'
<1>1. UNCHANGED <<head, pushes, cache, free, audit, harm>> /\ At(c, "fetching")
  BY DEF FetchFails, disk
<1>2. job[c] # None /\ job[c].step = "fetching" /\ Staging(job[c])
  BY <1>1, Placed DEF Steps
<1>3. CASE Fail(c) \/ Escape(c)
  BY <1>1, <1>2, <1>3, ExitAInv DEF Fail, Escape, Statuses
<1> QED  BY <1>3 DEF FetchFails

LEMMA TransientFailureAInv == ASSUME AInv, NEW c \in Callers, TransientFailure(c) PROVE AInv'
<1>1. UNCHANGED <<head, pushes, cache, free, audit, harm>> /\ At(c, "fetching")
  BY DEF TransientFailure, disk
<1>2. job[c] # None /\ job[c].step = "fetching" /\ Staging(job[c])
      /\ job[c].attempt \in 0..Attempts
  BY <1>1, Placed DEF Steps, Jobs
<1>3. CASE Fail(c)
  BY <1>1, <1>2, <1>3, ExitAInv DEF Fail, Statuses
<1>4. CASE job[c].attempt # Attempts /\ Go(c, "sleeping")
  BY <1>1, <1>2, <1>4, GoAInv, AcquisitionAssumption DEF Steps, Before, Staging
<1> QED  BY <1>3, <1>4 DEF TransientFailure

LEMMA VerifyAInv == ASSUME AInv, NEW c \in Callers, Verify(c) PROVE AInv'
<1>1. UNCHANGED <<head, pushes, cache, free, audit, harm>> /\ At(c, "listed")
  BY DEF Verify, disk
<1>2. job[c] # None /\ job[c].step = "listed" /\ Staging(job[c])
  BY <1>1, Placed DEF Steps
<1>3. CASE Fail(c)
  BY <1>1, <1>2, <1>3, ExitAInv DEF Fail, Statuses
<1>4. CASE Go(c, "verified")
  BY <1>1, <1>2, <1>4, GoAInv DEF Steps, Before, Staging
<1> QED  BY <1>3, <1>4 DEF Verify

LEMMA WriteRecordsAInv == ASSUME AInv, NEW c \in Callers, WriteRecords(c) PROVE AInv'
<1>1. UNCHANGED <<head, pushes, cache, free, audit, harm>> /\ At(c, "verified")
  BY DEF WriteRecords, disk
<1>2. job[c] # None /\ job[c].step = "verified" /\ Staging(job[c])
  BY <1>1, Placed DEF Steps
<1>3. CASE Fail(c)
  BY <1>1, <1>2, <1>3, ExitAInv DEF Fail, Statuses
<1>4. CASE Go(c, "renaming")
  BY <1>1, <1>2, <1>4, GoAInv DEF Steps, Before, Staging
<1> QED  BY <1>3, <1>4 DEF WriteRecords

LEMMA ReportAInv == ASSUME AInv, NEW c \in Callers, Report(c) PROVE AInv'
<1>1. UNCHANGED <<head, pushes, cache, free, audit, harm>> /\ At(c, "renamed")
  BY DEF Report, disk
<1>2. job[c] # None /\ job[c].step = "renamed" /\ Staging(job[c])
  BY <1>1, Placed DEF Steps
<1>3. CASE Exit(c, "VERIFIED")
  BY <1>1, <1>2, <1>3, ExitAInv DEF Statuses
<1> QED  BY <1>3 DEF Report

\* The promotion: a directory where there was none, owned by a call without one.
LEMMA RenameAInv == ASSUME AInv, NEW c \in Callers, Rename(c) PROVE AInv'
<1> USE AcquisitionAssumption
<1>1. At(c, "renaming") /\ UNCHANGED <<head, pushes, cache, free, audit, harm>>
  BY DEF Rename, disk
<1>2. PICK j \in Jobs : j = job[c]
  BY <1>1, Placed DEF Steps
<1>3. /\ job[c] # None /\ j.step = "renaming" /\ j.rev \in Revisions
      /\ Staging(j) /\ Stored(j) /\ Unpublished(c)
  BY <1>1, <1>2, Placed DEF Steps
<1>4. CASE published[j.rev] # None
  BY <1>1, <1>2, <1>3, <1>4, ExitAInv DEF Rename, Fail, Statuses
<1>5. CASE published[j.rev] = None
  <2> DEFINE d == Promoted(c)
             k == [j EXCEPT !.step = "renamed"]
  <2>1. /\ published' = [published EXCEPT ![j.rev] = d] /\ job' = [job EXCEPT ![c] = k]
        /\ UNCHANGED told
    BY <1>2, <1>5 DEF Rename
  <2>2. d \in Directories /\ d.owner = c
    BY <1>2 DEF Promoted, Directories, Jobs
  <2>3. /\ k \in Jobs /\ k.step = "renamed" /\ k.rev = j.rev /\ k.copied = j.copied
        /\ k.staged = j.staged /\ k.alone = j.alone
    BY JobFields DEF Steps
  <2>4. d # None /\ k # None
    BY <2>2, <2>3
  <2> HIDE DEF d, k
  <2>5. TypeOK'
    BY <1>1, <2>1, <2>2, <2>3 DEF AInv, TypeOK
  <2>6. /\ published'[j.rev] = d /\ \A r \in Revisions : r # j.rev => published'[r] = published[r]
        /\ job'[c] = k /\ \A e \in Callers : e # c => job'[e] = job[e]
    BY <1>3, <2>1 DEF AInv, TypeOK
  <2>7. Calls'
    <3> SUFFICES ASSUME NEW e \in Callers, job'[e] # None PROVE CallOk(e)'
      BY DEF Calls
    <3>1. CASE e = c
      <4>1. Fresh(c)'
        BY <1>3, <2>1, <2>2, <2>3, <2>4, <2>6 DEF Fresh, Unpublished
      <4>2. Staging(k)'
        BY <1>1, <1>3, <2>3 DEF Staging
      <4>3. Stored(k)'
        BY <1>1, <1>3, <2>3 DEF Stored, Need
      <4> QED  BY <2>6, <3>1, <4>1, <4>2, <4>3 DEF CallOk, Staging, Stored, Need
    <3>2. CASE e # c
      <4>1. CallOk(e) /\ job[e] \in Jobs
        BY <2>6, <3>2, JobType DEF AInv, Calls
      <4>2. Fresh(e)'
        BY <1>5, <2>1, <2>2, <2>6, <3>2, <4>1 DEF CallOk, Fresh, Jobs
      <4>3. Staging(job[e])' /\ Stored(job[e])'
        BY <1>1, <2>6, <3>2, <4>1 DEF CallOk, Staging, Stored, Need
      <4> QED  BY <4>2, <4>3 DEF CallOk
    <3> QED  BY <3>1, <3>2
  <2>8. Owners'
    BY <2>1, <2>2, <2>4, <2>6 DEF AInv, Owners
  <2>9. Auditing'
    <3>1. audit # None => audit \in Audits /\ published'[audit.rev] = published[audit.rev]
      BY <1>5, <2>6 DEF AInv, TypeOK, Audits, Auditing
    <3> QED  BY <1>1, <3>1 DEF AInv, Auditing, Compared, Listed
  <2> QED  BY <2>5, <2>7, <2>8, <2>9 DEF AInv
<1> QED  BY <1>4, <1>5

-----------------------------------------------------------------------------
(* The verifier and the environment.                                        *)

\* A step of the verifier leaves the calls alone.
LEMMA AuditStepAInv ==
    ASSUME AInv, UNCHANGED <<head, pushes, cache, free, published, job, told, harm>>,
           audit' \in Audits \union {None}, Auditing'
    PROVE AInv'
<1>1. TypeOK'
  BY DEF AInv, TypeOK
<1>2. ASSUME NEW c \in Callers, CallOk(c) PROVE CallOk(c)'
  <2>1. Fresh(c)'
    BY <1>2 DEF CallOk, Fresh
  <2>2. Staging(job[c])' /\ Stored(job[c])'
    BY <1>2 DEF CallOk, Staging, Stored, Need
  <2> QED  BY <2>1, <2>2 DEF CallOk
<1>3. Calls'
  BY <1>2 DEF AInv, Calls
<1>4. Owners'
  BY DEF AInv, Owners
<1> QED  BY <1>1, <1>3, <1>4 DEF AInv

LEMMA BeginAuditAInv == ASSUME AInv, NEW r \in Revisions, BeginAudit(r) PROVE AInv'
<1> DEFINE a == [rev |-> r, inventory |-> r \in External,
                 left |-> IF r \in External THEN {} ELSE Listed(r), ok |-> TRUE, calm |-> TRUE]
<1>1. /\ UNCHANGED <<head, pushes, cache, free, published, job, told, harm>>
      /\ published[r] # None /\ audit' = a
  BY DEF BeginAudit, disk, callvars
<1>2. Listed(r) \in SUBSET Files
  BY DEF Listed
<1>3. /\ a \in Audits /\ a.rev = r /\ (a.inventory <=> r \in External) /\ a.ok
      /\ a.left = IF r \in External THEN {} ELSE Listed(r)
  <2> DEFINE inventory == r \in External
  <2>1. inventory \in BOOLEAN
    OBVIOUS
  <2>2. a = [rev |-> r, inventory |-> inventory,
             left |-> IF inventory THEN {} ELSE Listed(r), ok |-> TRUE, calm |-> TRUE]
    OBVIOUS
  <2> HIDE DEF a
  <2>3. /\ a \in Audits /\ a.rev = r /\ a.inventory = inventory /\ a.ok
        /\ a.left = IF inventory THEN {} ELSE Listed(r)
    <3> HIDE DEF inventory
    <3> QED  BY <1>2, <2>1, <2>2 DEF Audits
  <2> QED  BY <2>3
<1> HIDE DEF a
<1>4. Auditing'
  <2>1. /\ audit'.rev = r /\ audit'.left \subseteq Listed(r)' /\ published'[r] # None
    BY <1>1, <1>3 DEF Listed
  <2>2. CASE r \in External
    BY <1>1, <1>3, <2>1, <2>2 DEF Auditing
  <2>3. CASE r \notin External
    <3>1. Compared(audit, published[r])'
      BY <1>1, <1>3, <2>3 DEF Compared, Listed
    <3>2. ~audit'.inventory
      BY <1>1, <1>3, <2>3
    <3> QED  BY <1>1, <1>3, <2>1, <3>1, <3>2 DEF Auditing
  <2> QED  BY <2>2, <2>3
<1> QED  BY <1>1, <1>3, <1>4, AuditStepAInv

LEMMA AuditInventoryAInv == ASSUME AInv, AuditInventory PROVE AInv'
<1> DEFINE d == published[audit.rev]
           whole == d.record = "whole"
<1>1. /\ UNCHANGED <<head, pushes, cache, free, published, job, told, harm>>
      /\ audit # None /\ audit.inventory
      /\ audit' = [audit EXCEPT !.inventory = FALSE, !.ok = whole,
                                !.left = IF whole THEN Listed(audit.rev) ELSE {}]
  BY DEF AuditInventory, disk, callvars
<1>2. /\ audit \in Audits /\ d # None /\ Listed(audit.rev) \in SUBSET Files
      /\ audit.calm => audit.rev \in External
  BY <1>1 DEF AInv, TypeOK, Auditing, Listed
<1>3. whole \in BOOLEAN
  OBVIOUS
<1>4. /\ audit' \in Audits /\ audit'.rev = audit.rev /\ audit'.inventory = FALSE
      /\ audit'.ok = whole /\ audit'.calm = audit.calm
      /\ audit'.left = IF whole THEN Listed(audit.rev) ELSE {}
  <2> HIDE DEF whole
  <2> QED  BY <1>1, <1>2, <1>3 DEF Audits
<1>5. Auditing'
  <2>1. audit'.left \subseteq Listed(audit.rev)' /\ published'[audit'.rev] # None
    BY <1>1, <1>2, <1>4 DEF Listed
  <2>2. audit.calm => (whole <=> Compared(audit, d)')
    BY <1>1, <1>2, <1>4 DEF Compared, Listed
  <2>3. audit.calm => (audit'.ok <=> Compared(audit, published[audit.rev])')
    BY <1>1, <1>4, <2>2 DEF Compared
  <2> QED  BY <1>4, <2>1, <2>3 DEF Auditing
<1> QED  BY <1>1, <1>4, <1>5, AuditStepAInv

LEMMA AuditFileAInv == ASSUME AInv, AuditFile PROVE AInv'
<1> DEFINE d == published[audit.rev]
<1>1. /\ UNCHANGED <<head, pushes, cache, free, published, job, told, harm>>
      /\ audit # None
  BY DEF AuditFile, disk, callvars
<1>2. PICK f \in audit.left :
        audit' = [audit EXCEPT !.left = @ \ {f}, !.ok = @ /\ d.files[f] = d.inventory[f]]
  BY DEF AuditFile
<1>3. /\ audit \in Audits /\ d # None /\ audit.left \subseteq Listed(audit.rev)
      /\ audit.left \in SUBSET Files
  BY <1>1 DEF AInv, TypeOK, Auditing, Audits
<1> DEFINE same == d.files[f] = d.inventory[f]
           ok == audit.ok /\ same
<1>4. /\ audit' \in Audits /\ audit'.rev = audit.rev /\ audit'.inventory = audit.inventory
      /\ audit'.ok = ok /\ audit'.calm = audit.calm /\ audit'.left = audit.left \ {f}
  <2>1. ok \in BOOLEAN /\ audit' = [audit EXCEPT !.left = @ \ {f}, !.ok = ok]
    BY <1>2
  <2> HIDE DEF ok
  <2> QED  BY <1>3, <2>1 DEF Audits
<1>5. Auditing'
  <2>1. audit'.left \subseteq Listed(audit.rev)' /\ published'[audit'.rev] # None
    BY <1>1, <1>3, <1>4 DEF Listed
  <2>2. audit.calm => ~audit.inventory /\ (audit.ok <=> Compared(audit, d))
    BY <1>1, <1>2 DEF AInv, Auditing
  <2>3. Compared(audit, d)' <=> Compared(audit, d) /\ same
    <3>1. Compared(audit, d)' <=>
            /\ \A g \in Files \ (audit.left \ {f}) :
                 d.inventory[g] # "absent" => d.files[g] = d.inventory[g]
            /\ audit.rev \in External => d.record = "whole"
      BY <1>1, <1>4 DEF Compared
    <3>2. f \in Files /\ d.inventory[f] # "absent"
      BY <1>3 DEF Listed
    <3> QED  BY <3>1, <3>2 DEF Compared
  <2> HIDE DEF same, d
  <2>4. audit.calm => (audit'.ok <=> Compared(audit, d)')
    BY <1>4, <2>2, <2>3
  <2> QED  BY <1>4, <2>1, <2>2, <2>4 DEF Auditing, d
<1> QED  BY <1>1, <1>4, <1>5, AuditStepAInv

LEMMA EndAuditAInv == ASSUME AInv, EndAudit PROVE AInv'
<1>1. /\ UNCHANGED <<head, pushes, cache, free, published, job, told, harm>> /\ audit' = None
  BY DEF EndAudit, disk, callvars
<1>2. Auditing'
  BY <1>1 DEF Auditing
<1> QED  BY <1>1, <1>2, AuditStepAInv

LEMMA PushAInv ==
    ASSUME AInv, NEW f \in References, NEW r \in Revisions, Push(f, r) PROVE AInv'
<1>1. TypeOK'
  BY AcquisitionAssumption DEF Push, disk, callvars, AInv, TypeOK
<1>2. UNCHANGED <<cache, free, published, job, told, harm, audit>>
  BY DEF Push, disk, callvars
<1>3. Calls' /\ Owners' /\ Auditing'
  BY <1>2 DEF AInv, Calls, CallOk, Fresh, Staging, Stored, Need, Owners, Auditing, Compared, Listed
<1> QED  BY <1>1, <1>3 DEF AInv

LEMMA HarmAInv == ASSUME AInv, Harm PROVE AInv'
<1> USE AcquisitionAssumption
<1>1. /\ UNCHANGED <<head, pushes, cache, free, told>> /\ harm' = harm + 1 /\ harm' \in 0..MaxHarm
      /\ harm' # 0
  BY DEF Harm, disk, AInv, TypeOK
<1>2. ASSUME NEW c \in Callers, NEW f \in Files, NEW to \in {"damaged", "absent"},
             job[c] # None, job[c].staged[f] = "whole", ~At(c, "renamed"),
             job' = [job EXCEPT ![c].staged[f] = to], UNCHANGED <<published, audit>>
      PROVE AInv'
  <2>1. job[c] \in Jobs /\ CallOk(c) /\ job[c].step # "renamed"
    BY <1>2, JobType DEF AInv, Calls, At
  <2>2. PICK k : k = [job[c] EXCEPT !.staged[f] = to]
    OBVIOUS
  <2>3. /\ k \in Jobs /\ k.step = job[c].step /\ k.rev = job[c].rev /\ k.copied = job[c].copied
        /\ k.alone = job[c].alone /\ k.attempt = job[c].attempt
    BY <1>2, <2>1, <2>2 DEF Jobs, Snapshots, Status
  <2>4. job' = [job EXCEPT ![c] = k] /\ k # None
    BY <1>2, <2>2, <2>3
  <2>5. job'[c] = k /\ \A d \in Callers : d # c => job'[d] = job[d]
    BY <2>4 DEF AInv, TypeOK
  <2>6. TypeOK'
    BY <1>1, <1>2, <2>3, <2>4 DEF AInv, TypeOK
  <2>7. ASSUME NEW d \in Callers, job'[d] # None PROVE CallOk(d)'
    <3>1. CASE d = c
      <4>1. Fresh(c)'
        BY <1>1, <1>2, <2>1, <2>3, <2>5 DEF CallOk, Fresh
      <4>2. Staging(k)' /\ Stored(k)'
        BY <1>1, <2>1, <2>3 DEF CallOk, Staging, Stored, Need
      <4> QED  BY <2>5, <3>1, <4>1, <4>2 DEF CallOk, Staging, Stored, Need
    <3>2. CASE d # c
      <4>1. CallOk(d) /\ job'[d] = job[d]
        BY <2>5, <2>7, <3>2 DEF AInv, Calls
      <4>2. Fresh(d)'
        BY <1>1, <1>2, <4>1 DEF CallOk, Fresh
      <4>3. Staging(job[d])' /\ Stored(job[d])'
        BY <1>1, <4>1 DEF CallOk, Staging, Stored, Need
      <4> QED  BY <4>2, <4>3 DEF CallOk
    <3> QED  BY <3>1, <3>2
  <2>8. Owners' /\ Auditing'
    BY <1>1, <1>2, <2>4, <2>5 DEF AInv, Owners, Auditing, Compared, Listed
  <2> QED  BY <2>6, <2>7, <2>8 DEF AInv, Calls
<1>3. ASSUME NEW r \in Revisions, NEW d, published[r] # None,
             d \in Directories, d.owner = published[r].owner,
             d.inventory = published[r].inventory,
             published' = [published EXCEPT ![r] = d],
             audit' = IF audit = None THEN None ELSE [audit EXCEPT !.calm = FALSE],
             UNCHANGED job
      PROVE AInv'
  <2>1. d # None /\ published'[r] = d
        /\ \A q \in Revisions : q # r => published'[q] = published[q]
    BY <1>3 DEF AInv, TypeOK
  <2>2. \A q \in Revisions : published'[q] # None <=> published[q] # None
    BY <1>3, <2>1
  <2>3. \A q \in Revisions : published[q] # None => /\ published'[q].owner = published[q].owner
                                                    /\ Listed(q)' = Listed(q)
    BY <1>3, <2>1 DEF Listed
  <2>4. /\ audit' \in Audits \union {None}
        /\ audit' # None => audit # None
        /\ audit # None => /\ audit'.rev = audit.rev /\ audit'.left = audit.left
                           /\ ~audit'.calm /\ audit.rev \in Revisions
    BY <1>3 DEF AInv, TypeOK, Audits
  <2>5. TypeOK'
    <3>1. published' \in [Revisions -> Directories \union {None}]
      BY <1>3 DEF AInv, TypeOK
    <3>2. job' = job
      BY <1>3
    <3> QED  BY <1>1, <2>4, <3>1, <3>2 DEF AInv, TypeOK
  <2>6. ASSUME NEW c \in Callers, job[c] # None PROVE CallOk(c)'
    <3>1. CallOk(c) /\ job[c] \in Jobs
      BY <2>6, JobType DEF AInv, Calls
    <3>2. Fresh(c)'
      BY <1>1, <1>3, <2>2, <2>3, <3>1 DEF CallOk, Fresh, Jobs
    <3>3. Staging(job[c])' /\ Stored(job[c])'
      BY <1>1, <1>3, <3>1 DEF CallOk, Staging, Stored, Need
    <3> QED  BY <3>2, <3>3 DEF CallOk
  <2>7. Owners'
    BY <1>1, <1>3, <2>2, <2>3 DEF AInv, Owners
  <2>8. Auditing'
    <3> SUFFICES ASSUME audit' # None
                 PROVE (published[audit.rev] # None /\ audit.left \subseteq Listed(audit.rev))'
      BY <2>4 DEF Auditing
    <3>1. PICK q \in Revisions : q = audit.rev
      BY <2>4
    <3>2. published[q] # None /\ audit.left \subseteq Listed(q)
      BY <2>4, <3>1 DEF AInv, Auditing
    <3>3. published'[q] # None /\ audit'.left \subseteq Listed(q)' /\ audit'.rev = q
      BY <2>2, <2>3, <2>4, <3>1, <3>2
    <3> QED  BY <3>3 DEF Listed
  <2> QED  BY <1>3, <2>5, <2>6, <2>7, <2>8 DEF AInv, Calls
<1>4. CASE \E c \in Callers, f \in Files, to \in {"damaged", "absent"} :
             /\ job[c] # None /\ job[c].staged[f] = "whole" /\ ~At(c, "renamed")
             /\ job' = [job EXCEPT ![c].staged[f] = to]
             /\ UNCHANGED <<published, audit>>
  BY <1>2, <1>4
<1>5. ASSUME NEW r \in Revisions, published[r] # None,
             \/ \E f \in Files : published' = [published EXCEPT ![r].files[f] = "damaged"]
             \/ published' = [published EXCEPT ![r].record = "damaged"],
             audit' = IF audit = None THEN None ELSE [audit EXCEPT !.calm = FALSE],
             UNCHANGED job
      PROVE AInv'
  <2>1. published[r] \in Directories
    BY <1>5 DEF AInv, TypeOK
  <2>2. CASE published' = [published EXCEPT ![r].record = "damaged"]
    <3> DEFINE d == [published[r] EXCEPT !.record = "damaged"]
    <3>1. d \in Directories /\ d.owner = published[r].owner /\ d.inventory = published[r].inventory
      BY <2>1 DEF Directories
    <3>2. published' = [published EXCEPT ![r] = d]
      BY <2>2
    <3> HIDE DEF d
    <3> QED  BY <1>3, <1>5, <3>1, <3>2
  <2>3. ASSUME NEW f \in Files, published' = [published EXCEPT ![r].files[f] = "damaged"]
        PROVE AInv'
    <3> DEFINE d == [published[r] EXCEPT !.files[f] = "damaged"]
    <3>1. d \in Directories /\ d.owner = published[r].owner /\ d.inventory = published[r].inventory
      BY <2>1 DEF Directories, Snapshots, Status
    <3>2. published' = [published EXCEPT ![r] = d]
      BY <2>3
    <3> HIDE DEF d
    <3> QED  BY <1>3, <1>5, <3>1, <3>2
  <2> QED  BY <1>5, <2>2, <2>3
<1> QED  BY <1>4, <1>5 DEF Harm

-----------------------------------------------------------------------------
\* The inductive invariant.
THEOREM Invariance == Spec => []AInv
<1>1. AInv /\ [Next]_vars => AInv'
  <2> SUFFICES ASSUME AInv, [Next]_vars PROVE AInv'
    OBVIOUS
  <2>1. ASSUME NEW c \in Callers, CallStep(c) PROVE AInv'
    BY <2>1, ResolveAInv, CheckCollisionAInv, CheckStorageAInv, DownloadAInv, DownloadedAInv,
       TransientFailureAInv, WakeAInv, FetchFailsAInv, CopyAInv, InventoryAInv, VerifyAInv,
       WriteRecordsAInv, RenameAInv, ReportAInv DEF CallStep
  <2>2. ASSUME NEW c \in Callers,
               (\E f \in References : Start(c, f)) \/ Confirm(c) \/ Interrupt(c) \/ Die(c)
        PROVE AInv'
    BY <2>2, StartAInv, ConfirmAInv, InterruptAInv, DieAInv
  <2>3. ASSUME \/ \E r \in Revisions : BeginAudit(r)
               \/ AuditInventory \/ AuditFile \/ EndAudit
        PROVE AInv'
    BY <2>3, BeginAuditAInv, AuditInventoryAInv, AuditFileAInv, EndAuditAInv
  <2>4. ASSUME (\E f \in References, r \in Revisions : Push(f, r)) \/ Harm PROVE AInv'
    BY <2>4, PushAInv, HarmAInv
  <2>5. CASE UNCHANGED vars
    <3>1. UNCHANGED <<head, pushes, cache, free, published, job, told, audit, harm>>
      BY <2>5 DEF vars, disk, callvars
    <3>2. audit' \in Audits \union {None} /\ Auditing'
      BY <3>1 DEF AInv, TypeOK, Auditing, Compared, Listed
    <3> QED  BY <3>1, <3>2, AuditStepAInv
  <2> QED  BY <2>1, <2>2, <2>3, <2>4, <2>5 DEF Next
<1> QED  BY InitAInv, <1>1, PTL DEF Spec

\* Every variable keeps its type.
THEOREM TypeCorrect == Spec => []TypeOK
<1>1. AInv => TypeOK
  BY DEF AInv
<1> QED  BY Invariance, <1>1, PTL

\* require_storage's requirement is enough for the call it admits.
THEOREM EnoughStorage == Spec => []StorageSuffices
<1>1. AInv => StorageSuffices
  BY DEF AInv, Calls, CallOk, Stored, Need, Remaining, StorageSuffices
<1> QED  BY Invariance, <1>1, PTL

\* verify_model_zoo's verdict is true of an undisturbed audit.
THEOREM AuditTrue == Spec => []AuditFindsDamage
<1>1. AInv => AuditFindsDamage
  BY DEF AInv, Auditing, Compared, Audited, Matches, AuditFindsDamage
<1> QED  BY Invariance, <1>1, PTL

-----------------------------------------------------------------------------
(* The calls implement the abstract zoo, step by step.                      *)

\* What is seen of the calls and of the zoo when other things change.
LEMMA SameZoo == ASSUME UNCHANGED published PROVE ZooOf' = ZooOf
  BY DEF ZooOf, Intact

SameState(d) == /\ told'[d] = told[d] /\ (job'[d] = None <=> job[d] = None)
                /\ job[d] # None => (job'[d].step = "asking" <=> job[d].step = "asking")

LEMMA StateChange ==
    ASSUME NEW c \in Callers, \A d \in Callers \ {c} : SameState(d)
    PROVE StateOf' = [StateOf EXCEPT ![c] = StateOf'[c]]
<1>1. \A d \in Callers \ {c} : StateOf'[d] = StateOf[d]
  BY DEF SameState, StateOf
<1>2. DOMAIN StateOf = Callers /\ DOMAIN StateOf' = Callers
      /\ StateOf' = [d \in Callers |-> StateOf'[d]] /\ StateOf = [d \in Callers |-> StateOf[d]]
  BY DEF StateOf
<1> HIDE DEF StateOf
<1> QED  BY <1>1, <1>2

LEMMA QuietStep ==
    ASSUME UNCHANGED <<published, harm>>, \A d \in Callers : SameState(d)
    PROVE UNCHANGED Zoo!vars
<1>1. StateOf' = StateOf
  BY DEF StateOf, SameState
<1> QED  BY <1>1, SameZoo DEF Zoo!vars

LEMMA EntryOf ==
    ASSUME TypeOK, NEW r \in Revisions
    PROVE /\ ZooOf[r] = None <=> published[r] = None
          /\ published[r] # None => ZooOf[r].owner = published[r].owner
<1>1. CASE published[r] # None
  <2> DEFINE e == [owner |-> published[r].owner, intact |-> Intact(r)]
  <2>1. published[r].owner \in Callers /\ Intact(r) \in BOOLEAN
    BY <1>1 DEF TypeOK, Directories, Intact
  <2>2. e \in Entries /\ e.owner = published[r].owner
    <3> HIDE DEF Intact
    <3> QED  BY <2>1 DEF Entries
  <2>3. ZooOf[r] = e
    BY <1>1 DEF ZooOf
  <2> HIDE DEF e
  <2> QED  BY <1>1, <2>2, <2>3, AcquisitionAssumption
<1>2. CASE published[r] = None
  BY <1>2 DEF ZooOf
<1> QED  BY <1>1, <1>2

LEMMA Owning ==
    ASSUME TypeOK, NEW c \in Callers
    PROVE Zoo!Owns(c) <=> \E r \in Revisions : published[r] # None /\ published[r].owner = c
  BY EntryOf DEF Zoo!Owns

\* The state of one call.
LEMMA StateIs ==
    ASSUME AInv, NEW c \in Callers, job[c] # None
    PROVE StateOf[c] = IF job[c].step = "asking" THEN "waiting" ELSE "running"
  BY DEF StateOf, AInv, Calls, CallOk, Fresh

\* A call that ends is told what is true.
LEMMA ExitStep ==
    ASSUME AInv, NEW c \in Callers, NEW status \in Statuses \ {"none"}, job[c] # None,
           Exit(c, status), UNCHANGED harm,
           status = "VERIFIED" => job[c].step = "renamed",
           job[c].step = "renamed" => status \in {"VERIFIED", "DIED"},
           job[c].step = "asking" => status \in {"CONFIRMATION_REQUIRED", "DIED"}
    PROVE Zoo!Next
<1>1. /\ UNCHANGED published /\ told'[c] = status
      /\ \A d \in Callers \ {c} : job'[d] = job[d] /\ told'[d] = told[d]
  BY DEF Exit, AInv, TypeOK
<1>2. StateOf' = [StateOf EXCEPT ![c] = status]
  <2>1. StateOf'[c] = status
    BY <1>1 DEF StateOf
  <2> QED  BY <1>1, <2>1, StateChange DEF SameState
<1>3. ZooOf' = ZooOf /\ (harm > 0)' = (harm > 0)
  BY <1>1, SameZoo
<1>4. Fresh(c) /\ TypeOK /\ job[c].rev \in Revisions
  BY JobType DEF AInv, Calls, CallOk, Jobs
<1>5. CASE job[c].step = "asking"
  <2>1. StateOf[c] = "waiting"
    BY <1>5, StateIs
  <2>2. Zoo!Leave(c)
    BY <1>2, <1>3, <1>5, <2>1 DEF Zoo!Leave, Zoo!Become
  <2> QED  BY <2>2 DEF Zoo!Next
<1>6. CASE job[c].step # "asking"
  <2>1. StateOf[c] = "running"
    BY <1>6, StateIs
  <2>2. status = "VERIFIED" => Zoo!Owns(c)
    BY <1>4, Owning DEF Fresh
  <2>3. status \in Zoo!Failures => ~Zoo!Owns(c)
    BY <1>4, Owning DEF Fresh, Zoo!Failures
  <2>4. status \in Zoo!Failures \union {"VERIFIED", "DIED"}
    BY DEF Zoo!Failures, Statuses
  <2>5. Zoo!End(c)
    BY <1>2, <1>3, <2>1, <2>2, <2>3, <2>4 DEF Zoo!End, Zoo!Become
  <2> QED  BY <2>5 DEF Zoo!Next
<1> QED  BY <1>5, <1>6

\* A call that only changes its job.
LEMMA StepInside ==
    ASSUME AInv, NEW c \in Callers, job[c] # None, job'[c] # None,
           \A d \in Callers \ {c} : job'[d] = job[d],
           UNCHANGED <<published, told, harm>>,
           job'[c].step = "asking" <=> job[c].step = "asking"
    PROVE UNCHANGED Zoo!vars
  BY QuietStep DEF SameState

LEMMA GoInside ==
    ASSUME AInv, NEW c \in Callers, NEW s \in Steps \ {"asking"}, job[c] # None,
           job[c].step # "asking", Go(c, s), UNCHANGED harm
    PROVE UNCHANGED Zoo!vars
<1>1. job[c] \in Jobs
  BY JobType DEF AInv
<1>2. job'[c] = [job[c] EXCEPT !.step = s] /\ \A d \in Callers \ {c} : job'[d] = job[d]
  BY DEF Go, AInv, TypeOK
<1>3. job'[c] \in Jobs /\ job'[c].step = s
  BY <1>1, <1>2, JobFields
<1>4. job'[c] # None
  BY <1>3, AcquisitionAssumption
<1> QED  BY <1>2, <1>3, <1>4, StepInside DEF Go

LEMMA UseInside ==
    ASSUME AInv, NEW c \in Callers, NEW j \in Jobs, job[c] # None,
           j.step # "asking", job[c].step # "asking", Use(c, j), UNCHANGED harm
    PROVE UNCHANGED Zoo!vars
<1>1. ASSUME NEW d \in Callers PROVE SameState(d)
  <2>1. CASE d = c
    BY <2>1, AcquisitionAssumption DEF Use, SameState
  <2>2. CASE d # c /\ job[d] = None
    BY <2>2 DEF Use, SameState
  <2>3. CASE d # c /\ job[d] # None
    <3>1. job[d] \in Jobs /\ job'[d] = [job[d] EXCEPT !.alone = FALSE]
      BY <2>3, JobType DEF Use, AInv
    <3>2. job'[d] \in Jobs /\ job'[d].step = job[d].step
      BY <3>1 DEF Jobs
    <3> QED  BY <2>3, <3>2, AcquisitionAssumption DEF Use, SameState
  <2> QED  BY <2>1, <2>2, <2>3
<1> QED  BY <1>1, QuietStep DEF Use

\* Start begins a call of the zoo; the operator's question and answer are its own.
LEMMA StartStep ==
    ASSUME AInv, NEW c \in Callers, NEW f \in References, Start(c, f) PROVE Zoo!Next
<1>1. /\ job[c] = None /\ told[c] = "none" /\ UNCHANGED <<published, told, harm>>
      /\ \A d \in Callers \ {c} : job'[d] = job[d]
  BY DEF Start, AInv, TypeOK
<1>2. job'[c] # None /\ job'[c].step = "started"
  <2> DEFINE j == [step |-> "started", reference |-> f, rev |-> head[f],
                   attempt |-> 0, copied |-> {}, staged |-> Empty, inventory |-> Empty,
                   alone |-> TRUE]
  <2>1. j \in Jobs /\ j.step = "started"
    BY AcquisitionAssumption DEF AInv, TypeOK, Jobs, Steps, Empty, Snapshots, Status
  <2>2. job'[c] = j
    BY DEF Start, AInv, TypeOK
  <2> HIDE DEF j
  <2> QED  BY <2>1, <2>2, AcquisitionAssumption
<1>3. StateOf[c] = "new" /\ StateOf'[c] = "running"
  BY <1>1, <1>2 DEF StateOf
<1>4. StateOf' = [StateOf EXCEPT ![c] = "running"]
  BY <1>1, <1>3, StateChange DEF SameState
<1>5. ZooOf' = ZooOf /\ (harm > 0)' = (harm > 0)
  BY <1>1, SameZoo
<1>6. Zoo!Begin(c)
  BY <1>3, <1>4, <1>5 DEF Zoo!Begin, Zoo!Become
<1> QED  BY <1>6 DEF Zoo!Next

LEMMA ConfirmStep == ASSUME AInv, NEW c \in Callers, Confirm(c) PROVE Zoo!Next
<1>1. /\ job[c] # None /\ job[c].step = "asking" /\ job[c] \in Jobs /\ UNCHANGED harm
  BY JobType DEF Confirm, At, AInv
<1>2. CASE Go(c, "fetching")
  <2>1. /\ job'[c] = [job[c] EXCEPT !.step = "fetching"] /\ UNCHANGED <<published, told>>
        /\ \A d \in Callers \ {c} : job'[d] = job[d]
    BY <1>2 DEF Go, AInv, TypeOK
  <2>2. job'[c] \in Jobs /\ job'[c].step = "fetching"
    BY <1>1, <2>1 DEF Jobs, Steps
  <2>3. job'[c] # None
    BY <2>2, AcquisitionAssumption
  <2>4. StateOf[c] = "waiting" /\ StateOf'[c] = "running"
    BY <1>1, <2>1, <2>2, <2>3 DEF StateOf, AInv, Calls, CallOk, Fresh
  <2>5. StateOf' = [StateOf EXCEPT ![c] = "running"]
    BY <2>1, <2>4, StateChange DEF SameState
  <2>6. ZooOf' = ZooOf /\ (harm > 0)' = (harm > 0)
    BY <1>1, <2>1, SameZoo
  <2>7. Zoo!Resume(c)
    BY <2>4, <2>5, <2>6 DEF Zoo!Resume, Zoo!Become
  <2> QED  BY <2>7 DEF Zoo!Next
<1>3. CASE Exit(c, "CONFIRMATION_REQUIRED")
  BY <1>1, <1>3, ExitStep DEF Statuses
<1> QED  BY <1>2, <1>3 DEF Confirm

LEMMA CheckStorageStep ==
    ASSUME AInv, NEW c \in Callers, NEW yes \in BOOLEAN, NEW tty \in BOOLEAN,
           CheckStorage(c, yes, tty)
    PROVE [Zoo!Next]_(Zoo!vars)
<1> DEFINE short == SizeKnown[job[c].rev] /\ free < Required(job[c].rev)
           go == Small(job[c].rev) \/ yes
           s == IF go THEN "fetching" ELSE "asking"
           j == [job[c] EXCEPT !.step = s, !.attempt = 1, !.alone = TRUE]
<1>1. /\ job[c] # None /\ job[c].step = "checked" /\ job[c] \in Jobs /\ UNCHANGED harm
  BY JobType DEF CheckStorage, At, AInv
<1>2. CASE short
  <2>1. Exit(c, "INSUFFICIENT_STORAGE")
    BY <1>2 DEF CheckStorage
  <2> QED  BY <1>1, <2>1, ExitStep DEF Statuses
<1>3. CASE ~short /\ ~go /\ ~tty
  <2>1. Exit(c, "CONFIRMATION_REQUIRED")
    BY <1>3 DEF CheckStorage
  <2> QED  BY <1>1, <2>1, ExitStep DEF Statuses
<1>4. CASE ~short /\ (go \/ tty)
  <2>1. job' = [job EXCEPT ![c] = j] /\ UNCHANGED <<published, told>>
    BY <1>4 DEF CheckStorage
  <2>2. j \in Jobs /\ j.step = s /\ s \in {"fetching", "asking"}
    <3>1. s \in {"fetching", "asking"} /\ s \in Steps /\ 1 \in 0..Attempts
      BY AcquisitionAssumption DEF Steps
    <3> HIDE DEF s
    <3> QED  BY <1>1, <3>1 DEF Jobs
  <2> HIDE DEF j, s, go, short
  <2>3. job'[c] = j /\ \A d \in Callers \ {c} : job'[d] = job[d]
    BY <2>1 DEF AInv, TypeOK
  <2>4. j # None
    BY <2>2, AcquisitionAssumption
  <2>5. CASE s = "fetching"
    BY <1>1, <2>1, <2>2, <2>3, <2>4, <2>5, StepInside
  <2>6. CASE s = "asking"
    <3>1. StateOf[c] = "running" /\ StateOf'[c] = "waiting"
      BY <1>1, <2>1, <2>2, <2>3, <2>4, <2>6 DEF StateOf, AInv, Calls, CallOk, Fresh
    <3>2. StateOf' = [StateOf EXCEPT ![c] = "waiting"]
      BY <2>1, <2>3, <3>1, StateChange DEF SameState
    <3>3. ZooOf' = ZooOf /\ (harm > 0)' = (harm > 0)
      BY <1>1, <2>1, SameZoo
    <3>4. Zoo!Ask(c)
      BY <3>1, <3>2, <3>3 DEF Zoo!Ask, Zoo!Become
    <3> QED  BY <3>4 DEF Zoo!Next
  <2> QED  BY <2>2, <2>5, <2>6
<1> QED  BY <1>2, <1>3, <1>4 DEF CheckStorage

\* rename() is the step in which a snapshot appears, whole unless files were harmed.
LEMMA RenameStep == ASSUME AInv, NEW c \in Callers, Rename(c) PROVE Zoo!Next
<1>1. PICK j \in Jobs : j = job[c]
  BY Placed DEF Rename, Steps
<1>2. /\ job[c] # None /\ j.step = "renaming" /\ j.rev \in Revisions /\ UNCHANGED harm
      /\ Staging(j) /\ Unpublished(c) /\ TypeOK
  BY <1>1, Placed DEF Rename, Steps, AInv
<1>3. CASE published[j.rev] # None
  <2>1. Exit(c, "ACQUISITION_FAILED")
    BY <1>1, <1>3 DEF Rename, Fail
  <2> QED  BY <1>1, <1>2, <2>1, ExitStep DEF Statuses
<1>4. CASE published[j.rev] = None
  <2>1. /\ published' = [published EXCEPT ![j.rev] = Promoted(c)] /\ UNCHANGED told
        /\ job' = [job EXCEPT ![c].step = "renamed"]
    BY <1>1, <1>4 DEF Rename
  <2>2. /\ Promoted(c) \in Directories /\ Promoted(c).owner = c
        /\ Promoted(c).files = j.staged
    BY <1>1 DEF Promoted, Directories, Jobs
  <2>3. /\ published'[j.rev] = Promoted(c) /\ published'[j.rev] # None
        /\ \A r \in Revisions \ {j.rev} : published'[r] = published[r]
    BY <1>2, <2>1, <2>2, AcquisitionAssumption DEF TypeOK
  <2>4. UNCHANGED StateOf
    <3>1. job'[c] = [j EXCEPT !.step = "renamed"] /\ \A d \in Callers \ {c} : job'[d] = job[d]
      BY <1>1, <1>2, <2>1 DEF TypeOK
    <3>2. job'[c] \in Jobs /\ job'[c].step = "renamed"
      BY <3>1 DEF Jobs, Steps
    <3>3. job'[c] # None
      BY <3>2, AcquisitionAssumption
    <3>4. \A d \in Callers : SameState(d)
      BY <1>1, <1>2, <2>1, <3>1, <3>2, <3>3 DEF SameState
    <3> QED  BY <3>4 DEF StateOf, SameState
  <2>5. PICK intact \in BOOLEAN : intact = Intact(j.rev)'
    BY DEF Intact
  <2>6. ZooOf' = [ZooOf EXCEPT ![j.rev] = [owner |-> c, intact |-> intact]]
    <3>1. ZooOf'[j.rev] = [owner |-> c, intact |-> intact]
      <4> HIDE DEF Intact
      <4> QED  BY <1>2, <2>2, <2>3, <2>5 DEF ZooOf
    <3>2. \A r \in Revisions \ {j.rev} : ZooOf'[r] = ZooOf[r]
      BY <2>3 DEF ZooOf, Intact
    <3>3. ZooOf' = [r \in Revisions |-> ZooOf'[r]] /\ ZooOf = [r \in Revisions |-> ZooOf[r]]
      BY DEF ZooOf
    <3> HIDE DEF ZooOf
    <3> QED  BY <3>1, <3>2, <3>3
  <2>7. ~intact => harm > 0
    <3> SUFFICES ASSUME harm = 0 PROVE Intact(j.rev)'
      BY <1>2, <2>5 DEF TypeOK
    <3>1. \A f \in FilesOf[j.rev] : j.staged[f] = "whole"
      BY <1>2 DEF Staging
    <3> QED  BY <2>2, <2>3, <3>1 DEF Intact
  <2>8. StateOf[c] = "running" /\ ~Zoo!Owns(c) /\ ZooOf[j.rev] = None
    BY <1>1, <1>2, <1>4, StateIs, Owning, EntryOf DEF Unpublished
  <2>9. Zoo!Preserve(c, j.rev)
    BY <1>2, <2>4, <2>5, <2>6, <2>7, <2>8 DEF Zoo!Preserve
  <2> QED  BY <1>2, <2>9 DEF Zoo!Next
<1> QED  BY <1>3, <1>4

LEMMA Harmed ==
    ASSUME NEW c, NEW b, NEW v
    PROVE [[owner |-> c, intact |-> b] EXCEPT !.intact = v] = [owner |-> c, intact |-> v]
  OBVIOUS

\* Another program may make a preserved snapshot no longer intact.
LEMMA HarmStep == ASSUME AInv, Harm PROVE Zoo!Next
<1>1. (harm > 0)' = TRUE /\ TypeOK /\ UNCHANGED told
  BY DEF Harm, AInv, TypeOK
<1>2. ASSUME NEW c \in Callers, NEW f \in Files, NEW to \in {"damaged", "absent"},
             job[c] # None, job' = [job EXCEPT ![c].staged[f] = to], UNCHANGED published
      PROVE Zoo!Next
  <2>1. job[c] \in Jobs /\ job'[c] = [job[c] EXCEPT !.staged[f] = to]
        /\ \A d \in Callers \ {c} : job'[d] = job[d]
    BY <1>2, JobType DEF AInv, TypeOK
  <2>2. job'[c] \in Jobs /\ job'[c].step = job[c].step
    BY <2>1 DEF Jobs, Snapshots, Status
  <2>3. job'[c] # None
    BY <2>2, AcquisitionAssumption
  <2>4. \A d \in Callers : SameState(d)
    BY <1>1, <1>2, <2>1, <2>2, <2>3 DEF SameState
  <2>5. UNCHANGED <<ZooOf, StateOf>>
    BY <1>2, <2>4, SameZoo DEF StateOf, SameState
  <2> QED  BY <1>1, <2>5 DEF Zoo!Disturb, Zoo!Next
<1>3. ASSUME NEW r \in Revisions, published[r] # None, UNCHANGED job,
             published' = [published EXCEPT ![r].record = "damaged"]
      PROVE Zoo!Next
  <2>1. published[r] \in Directories
    BY <1>1, <1>3 DEF TypeOK
  <2>2. /\ published'[r] = [published[r] EXCEPT !.record = "damaged"]
        /\ \A q \in Revisions \ {r} : published'[q] = published[q]
    BY <1>1, <1>3 DEF TypeOK
  <2>3. published'[r] \in Directories /\ published'[r].owner = published[r].owner
        /\ published'[r].files = published[r].files
    BY <2>1, <2>2 DEF Directories
  <2>4. \A q \in Revisions : ZooOf'[q] = ZooOf[q]
    <3>1. ZooOf'[r] = ZooOf[r]
      <4>1. published'[r] # None
        BY <2>3, AcquisitionAssumption
      <4>2. \A g \in FilesOf[r] : published'[r].files[g] = published[r].files[g]
        BY <2>3
      <4> QED  BY <1>3, <2>3, <4>1, <4>2 DEF ZooOf, Intact
    <3>2. \A q \in Revisions \ {r} : ZooOf'[q] = ZooOf[q]
      BY <2>2 DEF ZooOf, Intact
    <3> QED  BY <3>1, <3>2
  <2>5. UNCHANGED <<ZooOf, StateOf>>
    BY <1>1, <1>3, <2>4 DEF ZooOf, StateOf
  <2> QED  BY <1>1, <2>5 DEF Zoo!Disturb, Zoo!Next
<1>4. ASSUME NEW r \in Revisions, NEW f \in Files, published[r] # None, UNCHANGED job,
             published' = [published EXCEPT ![r].files[f] = "damaged"]
      PROVE Zoo!Next
  <2>1. published[r] \in Directories
    BY <1>1, <1>4 DEF TypeOK
  <2>2. /\ published'[r] = [published[r] EXCEPT !.files[f] = "damaged"]
        /\ \A q \in Revisions \ {r} : published'[q] = published[q]
    BY <1>1, <1>4 DEF TypeOK
  <2>3. /\ published'[r] \in Directories /\ published'[r].owner = published[r].owner
        /\ published'[r].files = [published[r].files EXCEPT ![f] = "damaged"]
        /\ published[r].files \in [Files -> Status]
    BY <2>1, <2>2 DEF Directories, Snapshots, Status
  <2>4. UNCHANGED StateOf
    BY <1>1, <1>4 DEF StateOf
  <2>5. published'[r] # None
    BY <2>3, AcquisitionAssumption
  <2>6. \A q \in Revisions \ {r} : ZooOf'[q] = ZooOf[q]
    BY <2>2 DEF ZooOf, Intact
  <2>7. ZooOf' = [q \in Revisions |-> ZooOf'[q]] /\ ZooOf = [q \in Revisions |-> ZooOf[q]]
    BY DEF ZooOf
  <2>8. CASE f \in FilesOf[r]
    <3> DEFINE no == FALSE
    <3>1. Intact(r)' = no
      BY <2>3, <2>8 DEF Intact
    <3>2. ZooOf'[r] = [owner |-> published[r].owner, intact |-> no]
      BY <2>3, <2>5, <3>1 DEF ZooOf
    <3>3. PICK b \in BOOLEAN : ZooOf[r] = [owner |-> published[r].owner, intact |-> b]
      BY <1>4 DEF ZooOf, Intact
    <3> HIDE DEF no
    <3>4. ZooOf'[r] = [ZooOf[r] EXCEPT !.intact = no]
      BY <3>2, <3>3, Harmed
    <3>5. ZooOf' = [ZooOf EXCEPT ![r].intact = no] /\ ZooOf[r] # None
      <4>1. ZooOf[r] # None
        BY <1>1, <1>4, EntryOf
      <4> HIDE DEF ZooOf
      <4> QED  BY <2>6, <2>7, <3>4, <4>1
    <3> QED  BY <1>1, <2>4, <3>5 DEF no, Zoo!Disturb, Zoo!Next
  <2>9. CASE f \notin FilesOf[r]
    <3>1. FilesOf[r] \in SUBSET Files
      BY Sizes
    <3>2. \A g \in FilesOf[r] : published'[r].files[g] = published[r].files[g]
      BY <2>3, <2>9, <3>1
    <3>3. ZooOf'[r] = ZooOf[r]
      BY <1>4, <2>3, <2>5, <3>2 DEF ZooOf, Intact
    <3>4. UNCHANGED ZooOf
      <4> HIDE DEF ZooOf
      <4> QED  BY <2>6, <2>7, <3>3
    <3> QED  BY <1>1, <2>4, <3>4 DEF Zoo!Disturb, Zoo!Next
  <2> QED  BY <2>8, <2>9
<1> QED  BY <1>2, <1>3, <1>4 DEF Harm

\* A call's own step.
LEMMA CallZooStep ==
    ASSUME AInv, NEW c \in Callers, CallStep(c) PROVE [Zoo!Next]_(Zoo!vars)
<1>1. ASSUME NEW s \in {"started", "resolved", "fetching", "listed", "verified", "copying"},
             At(c, s), Fail(c) \/ Escape(c), UNCHANGED harm
      PROVE Zoo!Next
  BY <1>1, ExitStep DEF At, Fail, Escape, Statuses
<1>2. ASSUME NEW s \in {"resolved", "fetching", "listed", "verified", "copying"}, At(c, s),
             NEW t \in {"checked", "sleeping", "copying", "verified", "renaming"}, Go(c, t),
             UNCHANGED harm
      PROVE UNCHANGED Zoo!vars
  BY <1>2, GoInside DEF At, Steps
<1>3. CASE Resolve(c)
  <2>1. At(c, "started") /\ UNCHANGED harm
    BY <1>3 DEF Resolve
  <2>2. CASE /\ job' = [job EXCEPT ![c].step = "resolved", ![c].rev = head[job[c].reference]]
             /\ UNCHANGED <<published, told>>
    <3>1. job[c] \in Jobs /\ job[c].step = "started" /\ head[job[c].reference] \in Revisions
          /\ job[c] # None
      BY <2>1, JobType DEF At, AInv, TypeOK, Jobs
    <3>2. job'[c] = [job[c] EXCEPT !.step = "resolved", !.rev = head[job[c].reference]]
          /\ \A d \in Callers \ {c} : job'[d] = job[d]
      BY <2>2 DEF AInv, TypeOK
    <3>3. job'[c] \in Jobs /\ job'[c].step = "resolved"
      BY <3>1, <3>2 DEF Jobs, Steps
    <3> QED  BY <2>1, <2>2, <3>1, <3>2, <3>3, AcquisitionAssumption, StepInside
  <2> QED  BY <1>1, <1>3, <2>1, <2>2 DEF Resolve
<1>4. CASE CheckCollision(c)
  BY <1>1, <1>2, <1>4 DEF CheckCollision
<1>5. CASE \E yes, tty \in BOOLEAN : CheckStorage(c, yes, tty)
  BY <1>5, CheckStorageStep
<1>6. CASE Download(c)
  <2>1. PICK j \in Jobs : j = job[c] /\ job[c] # None /\ job[c].step = "fetching"
    BY <1>6, Placed DEF Download, Steps
  <2>2. UNCHANGED harm /\ (Fail(c) \/ Use(c, j)) /\ At(c, "fetching")
    BY <1>6, <2>1 DEF Download
  <2> QED  BY <1>1, <2>1, <2>2, UseInside
<1>7. CASE Downloaded(c)
  BY <1>2, <1>7 DEF Downloaded
<1>8. CASE TransientFailure(c)
  BY <1>1, <1>2, <1>8 DEF TransientFailure
<1>9. CASE Wake(c)
  <2>1. job[c] \in Jobs /\ job[c].step = "sleeping" /\ job[c] # None
        /\ job[c].attempt + 1 \in 0..Attempts
    BY <1>9, Placed, AcquisitionAssumption DEF Wake, Steps, Jobs, Staging
  <2>2. job'[c] = [job[c] EXCEPT !.step = "fetching", !.attempt = @ + 1]
        /\ \A d \in Callers \ {c} : job'[d] = job[d]
    BY <1>9 DEF Wake, AInv, TypeOK
  <2>3. job'[c] \in Jobs /\ job'[c].step = "fetching"
    BY <2>1, <2>2 DEF Jobs, Steps
  <2> QED  BY <1>9, <2>1, <2>2, <2>3, AcquisitionAssumption, StepInside DEF Wake
<1>10. CASE FetchFails(c)
  BY <1>1, <1>10 DEF FetchFails
<1>11. CASE Copy(c)
  <2>1. PICK j \in Jobs : j = job[c] /\ job[c] # None /\ job[c].step = "copying"
    BY <1>11, Placed DEF Copy, Steps
  <2>2. FilesOf[j.rev] \in SUBSET Files
    BY Sizes DEF Jobs
  <2>3. PICK f \in FilesOf[j.rev] :
          Fail(c) \/ Use(c, [j EXCEPT !.copied = @ \union {f}, !.staged[f] = "whole"])
    BY <1>11, <2>1 DEF Copy
  <2>4. PICK k : k = [j EXCEPT !.copied = @ \union {f}, !.staged[f] = "whole"]
    OBVIOUS
  <2>5. k \in Jobs /\ k.step = "copying"
    BY <2>1, <2>2, <2>4 DEF Jobs, Snapshots, Status
  <2>6. UNCHANGED harm /\ (Fail(c) \/ Use(c, k)) /\ At(c, "copying")
    BY <1>11, <2>3, <2>4 DEF Copy
  <2> QED  BY <1>1, <2>1, <2>5, <2>6, UseInside
<1>12. CASE Inventory(c)
  <2>1. At(c, "copying") /\ UNCHANGED harm
    BY <1>12 DEF Inventory
  <2>2. CASE /\ job' = [job EXCEPT ![c].step = "listed", ![c].inventory = job[c].staged]
             /\ UNCHANGED <<published, told>>
    <3>1. job[c] \in Jobs /\ job[c].step = "copying" /\ job[c] # None
      BY <2>1, JobType DEF At, AInv
    <3>2. job'[c] = [job[c] EXCEPT !.step = "listed", !.inventory = job[c].staged]
          /\ \A d \in Callers \ {c} : job'[d] = job[d]
      BY <2>2 DEF AInv, TypeOK
    <3>3. job'[c] \in Jobs /\ job'[c].step = "listed"
      BY <3>1, <3>2 DEF Jobs, Steps
    <3> QED  BY <2>1, <2>2, <3>1, <3>2, <3>3, AcquisitionAssumption, StepInside
  <2> QED  BY <1>1, <1>12, <2>1, <2>2 DEF Inventory
<1>13. CASE Verify(c)
  BY <1>1, <1>2, <1>13 DEF Verify
<1>14. CASE WriteRecords(c)
  BY <1>1, <1>2, <1>14 DEF WriteRecords
<1>15. CASE Rename(c)
  BY <1>15, RenameStep
<1>16. CASE Report(c)
  BY <1>16, ExitStep DEF Report, At, Statuses
<1> QED  BY <1>3, <1>4, <1>5, <1>6, <1>7, <1>8, <1>9, <1>10, <1>11, <1>12, <1>13, <1>14,
            <1>15, <1>16 DEF CallStep

\* Every step is one of the zoo's, or is not seen there.
LEMMA ZooStep == ASSUME AInv, [Next]_vars PROVE [Zoo!Next]_(Zoo!vars)
<1>1. ASSUME NEW c \in Callers, Interrupt(c) \/ Die(c) PROVE Zoo!Next
  <2>1. CASE Interrupt(c)
    BY <2>1, ExitStep DEF Interrupt, At, Statuses
  <2>2. CASE Die(c)
    BY <2>2, ExitStep DEF Die, Escape, Statuses
  <2> QED  BY <1>1, <2>1, <2>2
<1>2. ASSUME UNCHANGED <<published, job, told, harm>> PROVE UNCHANGED Zoo!vars
  BY <1>2, QuietStep DEF SameState
<1>3. CASE \/ \E r \in Revisions : BeginAudit(r)
           \/ AuditInventory \/ AuditFile \/ EndAudit
           \/ \E f \in References, r \in Revisions : Push(f, r)
           \/ UNCHANGED vars
  BY <1>2, <1>3 DEF BeginAudit, AuditInventory, AuditFile, EndAudit, Push, vars, callvars
<1> QED  BY <1>1, <1>3, CallZooStep, StartStep, ConfirmStep, HarmStep DEF Next

\* The calls implement the safety of ModelZoo: a revision appears whole, at once and
\* for one call, and a call is told VERIFIED only if it made one.
THEOREM ImplementsZooSafety == Spec => Zoo!Init /\ [][Zoo!Next]_(Zoo!vars)
<1>1. Init => Zoo!Init
  BY DEF Init, Zoo!Init, ZooOf, StateOf
<1>2. AInv /\ [Next]_vars => [Zoo!Next]_(Zoo!vars)
  BY ZooStep
<1> QED  BY <1>1, <1>2, Invariance, PTL DEF Spec
=============================================================================
