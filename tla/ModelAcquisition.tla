-------------------------- MODULE ModelAcquisition --------------------------
(***************************************************************************)
(* scripts/acquire_model.py, model_acquisition.py and                      *)
(* model_source_huggingface.py: calls of acquire() in processes of their   *)
(* own that share an asset root, and verify_model_zoo.py auditing what     *)
(* they preserved.  A call resolves a branch to a commit, checks for a     *)
(* collision and for space, downloads into the provider's cache, copies    *)
(* into a staging directory of its own, inventories and verifies the copy, *)
(* and renames the directory to its final place.  Between any two of these *)
(* steps other calls run, the upstream branch moves, the call is           *)
(* interrupted or killed, and files are damaged by other programs.         *)
(*                                                                         *)
(* A snapshot is a set of files of one size; a file is whole, damaged or   *)
(* absent.                                                                 *)
(***************************************************************************)
EXTENDS Integers, FiniteSets

CONSTANTS None, Callers, Revisions, Files,
          References,      \* branches and tags clients ask for
          FilesOf,         \* FilesOf[r]: the files of revision r upstream
          External,        \* revisions the zoo's manifest lists by their own inventory
          SizeKnown,       \* SizeKnown[r]: does the provider report every size?
          FileSize,        \* bytes of a file
          Disk,            \* free bytes at the start
          MinimumMargin,   \* MINIMUM_SAFETY_MARGIN_BYTES
          Threshold,       \* DEFAULT_LARGE_DOWNLOAD_BYTES
          Attempts,        \* fetch attempts of a call
          MaxPushes, MaxHarm   \* bounds on the environment

Status == {"whole", "damaged", "absent"}
Snapshots == [Files -> Status]
Empty == [f \in Files |-> "absent"]

\* inventory lists the files found in staging, as they were found.
Directories == [owner : Callers, files : Snapshots, inventory : Snapshots,
                record : {"whole", "damaged"}]

\* What the promises of ModelZoo see of a directory.
Entries == [owner : Callers, intact : BOOLEAN]

Steps == {"started", "resolved", "checked", "asking", "fetching", "sleeping", "copying",
          "listed", "verified", "renaming", "renamed"}

\* alone (auxiliary): no other call has used space since this one's check.
Jobs == [step : Steps, reference : References, rev : Revisions, attempt : 0..Attempts,
         copied : SUBSET Files, staged : Snapshots, inventory : Snapshots, alone : BOOLEAN]

Audits == [rev : Revisions, inventory : BOOLEAN, left : SUBSET Files,
           ok : BOOLEAN, calm : BOOLEAN]

Statuses == {"none", "VERIFIED", "INSUFFICIENT_STORAGE", "CONFIRMATION_REQUIRED",
             "INTERRUPTED", "ACQUISITION_FAILED", "DIED"}

ASSUME AcquisitionAssumption ==
    /\ FilesOf \in [Revisions -> (SUBSET Files) \ {{}}]
    /\ SizeKnown \in [Revisions -> BOOLEAN] /\ External \subseteq Revisions
    /\ FileSize \in Nat \ {0} /\ Disk \in Nat
    /\ MinimumMargin \in Nat /\ Threshold \in Nat
    /\ Attempts \in Nat \ {0}
    /\ MaxPushes \in Nat /\ MaxHarm \in Nat
    /\ IsFiniteSet(Files)
    /\ None \notin Directories \union Entries \union Jobs \union Audits

VARIABLES head,       \* head[f]: the commit upstream has for reference f
          pushes,
          cache,      \* cache[r]: files of r in the provider's cache, never removed
          free,       \* free bytes of the asset root's volume
          published,  \* published[r]: None, or the final directory of revision r
          job,        \* job[c]: None, or how far the call of c is
          told,       \* told[c]: the status c's process ended with
          audit,      \* None, or a running verify_model_zoo
          harm        \* how often another program changed a file

callvars == <<published, job, told>>
disk == <<cache, free>>
vars == <<head, pushes, disk, callvars, audit, harm>>

Init == /\ head \in [References -> Revisions]
        /\ pushes = 0
        /\ cache = [r \in Revisions |-> {}]
        /\ free = Disk
        /\ published = [r \in Revisions |-> None]
        /\ job = [c \in Callers |-> None]
        /\ told = [c \in Callers |-> "none"]
        /\ audit = None
        /\ harm = 0

At(c, step) == job[c] # None /\ job[c].step = step
Go(c, step) == job' = [job EXCEPT ![c].step = step] /\ UNCHANGED <<published, told>>

\* The process ends; a staging directory it has made stays where it is.
Exit(c, status) == /\ job' = [job EXCEPT ![c] = None]
                   /\ told' = [told EXCEPT ![c] = status]
                   /\ UNCHANGED published

\* main() turns acquisition, operating-system and value errors into one status;
\* a KeyError or an HTTP client error leaves it as a traceback.
Fail(c) == Exit(c, "ACQUISITION_FAILED")
Escape(c) == Exit(c, "DIED")

-----------------------------------------------------------------------------
Start(c, reference) ==
    /\ job[c] = None /\ told[c] = "none"
    /\ job' = [job EXCEPT ![c] =
          [step |-> "started", reference |-> reference, rev |-> head[reference], attempt |-> 0,
           copied |-> {}, staged |-> Empty, inventory |-> Empty, alone |-> TRUE]]
    /\ UNCHANGED <<head, pushes, disk, published, told, audit, harm>>

\* The asset root is validated and the provider resolves the reference, to the
\* commit it has now; either may fail, and neither is retried.
Resolve(c) ==
    /\ At(c, "started")
    /\ \/ Fail(c)
       \/ Escape(c)
       \/ /\ job' = [job EXCEPT ![c].step = "resolved", ![c].rev = head[job[c].reference]]
          /\ UNCHANGED <<published, told>>
    /\ UNCHANGED <<head, pushes, disk, audit, harm>>

\* The final directory's name comes from the metadata, which may lack a name (a
\* KeyError) or hold an unsafe one, and from the commit.
CheckCollision(c) ==
    /\ At(c, "resolved")
    /\ \/ Fail(c)
       \/ Escape(c)
       \/ published[job[c].rev] = None /\ Go(c, "checked")
    /\ UNCHANGED <<head, pushes, disk, audit, harm>>

Expected(r) == FileSize * Cardinality(FilesOf[r])
Margin(r) == IF Expected(r) \div 20 > MinimumMargin THEN Expected(r) \div 20 ELSE MinimumMargin

\* Mutant: the copy in staging is not counted.
DownloadOnly(r) == Expected(r) + Margin(r)

\* storage_report: the snapshot is stored twice, in the cache and in staging; this
\* provider never reports cached bytes.
Required(r) == Expected(r) + Expected(r) + Margin(r)

Small(r) == SizeKnown[r] /\ Expected(r) < Threshold

\* require_storage and require_confirmation: a large or unknown download needs
\* --yes or a terminal to ask at.  The space is checked, not reserved.
CheckStorage(c, yes, tty) ==
    LET r == job[c].rev
        short == SizeKnown[r] /\ free < Required(r)
        free_to_go == Small(r) \/ yes
    IN /\ At(c, "checked")
       /\ CASE short -> Exit(c, "INSUFFICIENT_STORAGE")
            [] ~short /\ ~free_to_go /\ ~tty -> Exit(c, "CONFIRMATION_REQUIRED")
            [] ~short /\ (free_to_go \/ tty) ->
                 /\ job' = [job EXCEPT ![c].step = IF free_to_go THEN "fetching" ELSE "asking",
                                       ![c].attempt = 1, ![c].alone = TRUE]
                 /\ UNCHANGED <<published, told>>
       /\ UNCHANGED <<head, pushes, disk, audit, harm>>

\* The operator answers the question, whenever that is.
Confirm(c) == /\ At(c, "asking")
              /\ Go(c, "fetching") \/ Exit(c, "CONFIRMATION_REQUIRED")
              /\ UNCHANGED <<head, pushes, disk, audit, harm>>

-----------------------------------------------------------------------------
(* _retry_fetch and HuggingFaceSourceProvider.fetch.                        *)

\* c's job becomes j after using one file's space.
Use(c, j) ==
    /\ free' = free - FileSize
    /\ job' = [d \in Callers |->
                 IF d = c THEN j
                 ELSE IF job[d] = None THEN None
                 ELSE [job[d] EXCEPT !.alone = FALSE]]
    /\ UNCHANGED <<published, told>>

\* snapshot_download: one more file reaches the cache, or the disk is full.
Download(c) ==
    LET r == job[c].rev
    IN /\ At(c, "fetching")
       /\ \E f \in FilesOf[r] \ cache[r] :
            IF free < FileSize
            THEN Fail(c) /\ UNCHANGED disk
            ELSE /\ cache' = [cache EXCEPT ![r] = @ \union {f}]
                 /\ Use(c, job[c])
       /\ UNCHANGED <<head, pushes, audit, harm>>

\* The whole snapshot is in the cache.
Downloaded(c) == /\ At(c, "fetching") /\ FilesOf[job[c].rev] \subseteq cache[job[c].rev]
                 /\ Go(c, "copying")
                 /\ UNCHANGED <<head, pushes, disk, audit, harm>>

\* Mutant: the attempts are not counted.
RetryForever(c) == /\ At(c, "fetching")
                   /\ Go(c, "sleeping")
                   /\ UNCHANGED <<head, pushes, disk, audit, harm>>

\* A timeout, a lost connection, HTTP 429 or 5xx: back off, at most Attempts times.
TransientFailure(c) ==
    /\ At(c, "fetching")
    /\ IF job[c].attempt = Attempts THEN Fail(c) ELSE Go(c, "sleeping")
    /\ UNCHANGED <<head, pushes, disk, audit, harm>>

Wake(c) == /\ At(c, "sleeping")
           /\ job' = [job EXCEPT ![c].step = "fetching", ![c].attempt = @ + 1]
           /\ UNCHANGED <<head, pushes, disk, published, told, audit, harm>>

\* Any other failure of the provider is final.
FetchFails(c) == /\ At(c, "fetching")
                 /\ Fail(c) \/ Escape(c)
                 /\ UNCHANGED <<head, pushes, disk, audit, harm>>

Copy(c) ==
    /\ At(c, "copying")
    /\ \E f \in FilesOf[job[c].rev] \ job[c].copied :
         IF free < FileSize
         THEN Fail(c) /\ UNCHANGED free
         ELSE Use(c, [job[c] EXCEPT !.copied = @ \union {f}, !.staged[f] = "whole"])
    /\ UNCHANGED <<head, pushes, cache, audit, harm>>

-----------------------------------------------------------------------------
(* Inventory, verification, promotion.                                      *)

\* inventory_snapshot and _candidate_entry: what is in staging, whatever that is;
\* an unsafe file name or an entry that does not validate ends the call.
Inventory(c) ==
    /\ At(c, "copying") /\ job[c].copied = FilesOf[job[c].rev]
    /\ \/ Fail(c)
       \/ /\ job[c].staged # Empty
          /\ job' = [job EXCEPT ![c].step = "listed", ![c].inventory = job[c].staged]
          /\ UNCHANGED <<published, told>>
    /\ UNCHANGED <<head, pushes, disk, audit, harm>>

\* verify_file for every listed file.
Matches(files, inventory) == \A f \in Files : inventory[f] # "absent" => files[f] = inventory[f]

Verify(c) ==
    /\ At(c, "listed")
    /\ IF Matches(job[c].staged, job[c].inventory) THEN Go(c, "verified") ELSE Fail(c)
    /\ UNCHANGED <<head, pushes, disk, audit, harm>>

\* The four records are written, unless that fails, and the collision is checked
\* a second time.
WriteRecords(c) ==
    /\ At(c, "verified")
    /\ \/ Fail(c)
       \/ published[job[c].rev] = None /\ Go(c, "renaming")
    /\ UNCHANGED <<head, pushes, disk, audit, harm>>

Promoted(c) == [owner |-> c, files |-> job[c].staged, inventory |-> job[c].inventory,
                record |-> "whole"]

\* Mutant: a directory that appeared since the second check is replaced.
RenameReplaces(c) ==
    /\ At(c, "renaming")
    /\ published' = [published EXCEPT ![job[c].rev] = Promoted(c)]
    /\ job' = [job EXCEPT ![c].step = "renamed"]
    /\ UNCHANGED <<head, pushes, disk, told, audit, harm>>

\* rename() fails on an existing directory.
Rename(c) ==
    /\ At(c, "renaming")
    /\ IF published[job[c].rev] # None
       THEN Fail(c)
       ELSE /\ published' = [published EXCEPT ![job[c].rev] = Promoted(c)]
            /\ job' = [job EXCEPT ![c].step = "renamed"]
            /\ UNCHANGED told
    /\ UNCHANGED <<head, pushes, disk, audit, harm>>

Report(c) == /\ At(c, "renamed")
             /\ Exit(c, "VERIFIED")
             /\ UNCHANGED <<head, pushes, disk, audit, harm>>

\* Ctrl-C is answered while the provider runs and escapes elsewhere.
Interrupt(c) == /\ At(c, "fetching") \/ At(c, "copying")
                /\ Exit(c, "INTERRUPTED")
                /\ UNCHANGED <<head, pushes, disk, audit, harm>>

\* Killed, or interrupted elsewhere.
Die(c) == /\ job[c] # None
          /\ Escape(c)
          /\ UNCHANGED <<head, pushes, disk, audit, harm>>

-----------------------------------------------------------------------------
(* verify_model_zoo over the entry of one preserved revision: its files     *)
(* listed inline, or in the revision's own inventory.json.                  *)

Listed(r) == {f \in Files : published[r].inventory[f] # "absent"}

BeginAudit(r) ==
    /\ audit = None /\ published[r] # None
    /\ audit' = [rev |-> r, inventory |-> r \in External,
                 left |-> IF r \in External THEN {} ELSE Listed(r), ok |-> TRUE, calm |-> TRUE]
    /\ UNCHANGED <<head, pushes, disk, callvars, harm>>

\* Mutant: an inventory that does not match is skipped silently.
SkipInventory ==
    /\ audit # None /\ audit.inventory
    /\ LET whole == published[audit.rev].record = "whole"
       IN audit' = [audit EXCEPT !.inventory = FALSE,
                                 !.left = IF whole THEN Listed(audit.rev) ELSE {}]
    /\ UNCHANGED <<head, pushes, disk, callvars, harm>>

\* The inventory itself is verified first; without it no file is looked at.
AuditInventory ==
    /\ audit # None /\ audit.inventory
    /\ LET whole == published[audit.rev].record = "whole"
       IN audit' = [audit EXCEPT !.inventory = FALSE, !.ok = whole,
                                 !.left = IF whole THEN Listed(audit.rev) ELSE {}]
    /\ UNCHANGED <<head, pushes, disk, callvars, harm>>

AuditFile ==
    /\ audit # None
    /\ \E f \in audit.left :
         LET dir == published[audit.rev]
         IN audit' = [audit EXCEPT !.left = @ \ {f}, !.ok = @ /\ dir.files[f] = dir.inventory[f]]
    /\ UNCHANGED <<head, pushes, disk, callvars, harm>>

Audited == audit # None /\ ~audit.inventory /\ audit.left = {}

EndAudit == /\ Audited
            /\ audit' = None
            /\ UNCHANGED <<head, pushes, disk, callvars, harm>>

-----------------------------------------------------------------------------
(* The environment.                                                         *)

Push(f, r) == /\ pushes < MaxPushes /\ head[f] # r
              /\ head' = [head EXCEPT ![f] = r]
              /\ pushes' = pushes + 1
              /\ UNCHANGED <<disk, callvars, audit, harm>>

\* Another program changes or removes a file in staging or in the zoo.
Harm ==
    /\ harm < MaxHarm
    /\ harm' = harm + 1
    /\ \/ \E c \in Callers, f \in Files, to \in {"damaged", "absent"} :
            /\ job[c] # None /\ job[c].staged[f] = "whole" /\ ~At(c, "renamed")
            /\ job' = [job EXCEPT ![c].staged[f] = to]
            /\ UNCHANGED <<published, audit>>
       \/ \E r \in Revisions :
            /\ published[r] # None
            /\ \/ \E f \in Files : /\ published[r].files[f] = "whole"
                                   /\ published' = [published EXCEPT ![r].files[f] = "damaged"]
               \/ published' = [published EXCEPT ![r].record = "damaged"]
            /\ audit' = IF audit = None THEN None ELSE [audit EXCEPT !.calm = FALSE]
            /\ UNCHANGED job
    /\ UNCHANGED <<head, pushes, disk, told>>

-----------------------------------------------------------------------------
\* What a call's process does by itself.
CallStep(c) == \/ Resolve(c) \/ CheckCollision(c)
               \/ \E yes, tty \in BOOLEAN : CheckStorage(c, yes, tty)
               \/ Download(c) \/ Downloaded(c) \/ TransientFailure(c) \/ Wake(c)
               \/ FetchFails(c) \/ Copy(c)
               \/ Inventory(c) \/ Verify(c) \/ WriteRecords(c) \/ Rename(c) \/ Report(c)

Next == \/ \E c \in Callers : \/ \E f \in References : Start(c, f)
                              \/ CallStep(c) \/ Confirm(c) \/ Interrupt(c) \/ Die(c)
        \/ \E r \in Revisions : BeginAudit(r)
        \/ AuditInventory \/ AuditFile \/ EndAudit
        \/ \E f \in References, r \in Revisions : Push(f, r)
        \/ Harm

\* A process runs, and the provider's transfers end, by their timeouts if need be.
Spec == Init /\ [][Next]_vars /\ \A c \in Callers : WF_vars(CallStep(c))

-----------------------------------------------------------------------------
\* The type invariant.
TypeOK ==
    /\ head \in [References -> Revisions]
    /\ pushes \in 0..MaxPushes /\ harm \in 0..MaxHarm
    /\ cache \in [Revisions -> SUBSET Files]
    /\ free \in Nat
    /\ published \in [Revisions -> Directories \union {None}]
    /\ job \in [Callers -> Jobs \union {None}]
    /\ told \in [Callers -> Statuses]
    /\ audit \in Audits \union {None}

\* require_storage is enough for the call it admits: while no other call uses
\* space, what is left to download and to copy of a snapshot of known size still
\* fits, and the safety margin with it, whatever the cache already holds.
Remaining(c) == FileSize * (Cardinality(FilesOf[job[c].rev] \ cache[job[c].rev])
                            + Cardinality(FilesOf[job[c].rev] \ job[c].copied))
StorageSuffices ==
    \A c \in Callers :
        job[c] # None /\ job[c].step \notin {"started", "resolved", "checked"}
          /\ SizeKnown[job[c].rev] /\ job[c].alone
        => free >= Remaining(c) + Margin(job[c].rev)

\* The verifier's exit status tells the truth: when no file changes meanwhile, it
\* is 0 exactly if the preserved files are what the acquisition listed and the
\* inventory it was told to follow is the recorded one.
AuditFindsDamage ==
    Audited /\ audit.calm =>
        LET dir == published[audit.rev]
        IN audit.ok <=> /\ Matches(dir.files, dir.inventory)
                        /\ audit.rev \in External => dir.record = "whole"

\* The calls implement the promises of ModelZoo, safety and progress.
Intact(r) == \A f \in FilesOf[r] : published[r].files[f] = "whole"
ZooOf == [r \in Revisions |-> IF published[r] = None THEN None
                              ELSE [owner |-> published[r].owner, intact |-> Intact(r)]]
StateOf == [c \in Callers |-> IF told[c] # "none" THEN told[c]
                              ELSE IF job[c] = None THEN "new"
                              ELSE IF job[c].step = "asking" THEN "waiting" ELSE "running"]
Zoo == INSTANCE ModelZoo WITH zoo <- ZooOf, state <- StateOf, disturbed <- harm > 0
ImplementsZoo == Zoo!Spec
=============================================================================
