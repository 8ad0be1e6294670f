---------------------------- MODULE ReportArchive ----------------------------
(***************************************************************************)
(* Where a published report lives and how it is thrown away: its address   *)
(* and PDF metadata in the database, its PDF in a store of files addressed *)
(* by content, shared by every report with the same bytes                  *)
(* (features/report_delivery, web/report_delivery_adapter.py,              *)
(* web/report_retention_adapter.py, features/admin_dashboard/store.py).    *)
(*                                                                         *)
(* The two cannot change together. A file is therefore written only after  *)
(* an intent to write it is committed, and removed only after a retirement *)
(* is; a start and the daily clean-up end what a crash left open.          *)
(*                                                                         *)
(* Each action is one database transaction: every writer takes the write   *)
(* lock before it looks at what it decides from.                           *)
(***************************************************************************)
EXTENDS Integers

CONSTANTS
  Reports,     \* public ids; each asked to be published once
  Contents,    \* report contents, with the one PDF made of each
  Blobs,       \* addresses of files
  ContentOf,   \* [Reports -> Contents]
  BlobOf,      \* [Contents -> Blobs]: different contents may print the same
  MaxCycles,   \* [Reports -> Nat], bound of the model: times put into the trash
  MaxStops     \* bound of the model: times the server stops

ASSUME ArchiveAssumption ==
  /\ ContentOf \in [Reports -> Contents] /\ BlobOf \in [Contents -> Blobs]
  /\ MaxCycles \in [Reports -> Nat] /\ MaxStops \in Nat

VARIABLES
  up,          \* the server is up
  stops,       \* times it stopped
  writers,     \* reports being published: their intent is committed
  intents,     \* artifact_blob_intents, one for each publication
  aged,        \* reports whose intent is older than the grace of a day
  deliveries,  \* reports whose address shows them
  artifacts,   \* contents that have PDF metadata, and with it their text
  blobs,       \* files that exist
  kept,        \* contents a cache entry or a live finished lease refers to
  trash,       \* report_trash
  cycle,       \* times the report was put into the trash
  retirements  \* retirement intents: one for each time

intentVars == <<writers, intents, aged>>
vars == <<up, stops, intentVars, deliveries, artifacts, blobs, kept, trash, cycle, retirements>>

Retirements == UNION {{r} \X (1..MaxCycles[r]) : r \in Reports}

PdfOf(r) == BlobOf[ContentOf[r]]

TypeOK ==
  /\ up \in BOOLEAN /\ stops \in 0..MaxStops
  /\ writers \subseteq Reports /\ aged \subseteq Reports
  /\ intents \in [Reports -> {"none", "created", "bound", "reclaimed"}]
  /\ deliveries \subseteq Reports
  /\ artifacts \subseteq Contents /\ kept \subseteq Contents
  /\ blobs \subseteq Blobs
  /\ trash \in [Reports -> {"active", "trashed", "due", "purged"}]
  /\ cycle \in [Reports -> Nat] /\ \A r \in Reports : cycle[r] <= MaxCycles[r]
  /\ retirements \in [Retirements -> {"none", "prepared", "cancelled", "db_retired",
                                      "blob_blocked", "preserved", "completed"}]

Init ==
  /\ up = TRUE /\ stops = 0
  /\ writers = {} /\ aged = {}
  /\ intents = [r \in Reports |-> "none"]
  /\ deliveries = {} /\ artifacts = {} /\ blobs = {} /\ kept = {}
  /\ trash = [r \in Reports |-> "active"]
  /\ cycle = [r \in Reports |-> 0]
  /\ retirements = [k \in Retirements |-> "none"]

-----------------------------------------------------------------------------
(* What the database says of a file and of a content.                      *)

\* _same_pointer_rows, _raw_artifact_references_for_pointer
Referenced(b) == \E c \in artifacts : BlobOf[c] = b

\* _active_write_intent_for_pointer
ActiveWrite(b) == \E r \in Reports : PdfOf(r) = b /\ intents[r] = "created"

\* _artifact_must_remain, after the deliveries S were deleted
MustRemain(c, S) == c \in kept \/ \E r \in deliveries \ S : ContentOf[r] = c

-----------------------------------------------------------------------------
(* Publishing.                                                             *)

\* Asked for and not published yet. A retired address is refused by a trigger.
Unpublished(r) == intents[r] = "none" /\ r \notin deliveries /\ trash[r] # "purged"

\* prepare_approved_pdf_blob_intent: committed before the file is written.
CreateWriteIntent(r) ==
  /\ up /\ Unpublished(r)
  /\ writers' = writers \cup {r}
  /\ intents' = [intents EXCEPT ![r] = "created"]
  /\ UNCHANGED <<up, stops, aged, deliveries, artifacts, blobs, kept, trash, cycle, retirements>>

\* persist_approved_delivery. A content with metadata is not written again: its
\* file has to be there. The result may become the cache entry of its key.
Publish(r) ==
  LET c == ContentOf[r] IN
  /\ up /\ r \in writers
  /\ c \in artifacts => PdfOf(r) \in blobs
  /\ writers' = writers \ {r}
  /\ intents' = [intents EXCEPT ![r] = "bound"]
  /\ blobs' = blobs \cup {PdfOf(r)}
  /\ artifacts' = artifacts \cup {c}
  /\ deliveries' = deliveries \cup {r}
  /\ kept' \in {kept, kept \cup {c}}
  /\ UNCHANGED <<up, stops, aged, trash, cycle, retirements>>

\* The publication is rolled back: before its file was written, or after.
RollBack(r) ==
  /\ up /\ r \in writers
  /\ writers' = writers \ {r}
  /\ blobs' \in {blobs, IF ContentOf[r] \in artifacts THEN blobs ELSE blobs \cup {PdfOf(r)}}
  /\ UNCHANGED <<up, stops, intents, aged, deliveries, artifacts, kept, trash, cycle, retirements>>

\* persist_reused_delivery: an address of its own for what another report owns.
Reuse(r) ==
  LET c == ContentOf[r] IN
  /\ up /\ Unpublished(r)
  /\ c \in artifacts \cap kept /\ PdfOf(r) \in blobs
  /\ \E origin \in deliveries : ContentOf[origin] = c
  /\ deliveries' = deliveries \cup {r}
  /\ UNCHANGED <<up, stops, intentVars, artifacts, blobs, kept, trash, cycle, retirements>>

\* The cache entry is replaced or withdrawn, or the finished lease lapses.
LetGo(c) ==
  /\ c \in kept
  /\ kept' = kept \ {c}
  /\ UNCHANGED <<up, stops, intentVars, deliveries, artifacts, blobs, trash, cycle, retirements>>

-----------------------------------------------------------------------------
(* The server and its start.                                               *)

\* A day has passed: no publication takes that long.
Age(r) ==
  /\ intents[r] = "created" /\ r \notin writers \cup aged
  /\ aged' = aged \cup {r}
  /\ UNCHANGED <<up, stops, writers, intents, deliveries, artifacts, blobs, kept, trash, cycle,
                 retirements>>

\* The publication that holds the write lock may have written its file.
Stop ==
  /\ up /\ stops < MaxStops
  /\ up' = FALSE /\ stops' = stops + 1
  /\ writers' = {}
  /\ \/ UNCHANGED blobs
     \/ \E r \in writers : ContentOf[r] \notin artifacts /\ blobs' = blobs \cup {PdfOf(r)}
  /\ UNCHANGED <<intents, aged, deliveries, artifacts, kept, trash, cycle, retirements>>

\* _pointer_is_protected_by_other_intent
Protected(r) ==
  \E other \in Reports \ {r} :
    /\ PdfOf(other) = PdfOf(r)
    /\ intents[other] = "bound" \/ (intents[other] = "created" /\ other \notin aged)

Left == {r \in aged : intents[r] = "created"}
Orphans == {r \in Left : ~Referenced(PdfOf(r)) /\ ~Protected(r)}

\* Mutant: a protected intent is closed as if its file were in use.
ReconcileBindsProtected ==
  /\ intents' = [r \in Reports |->
       IF r \in Orphans THEN "reclaimed"
       ELSE IF r \in Left THEN "bound" ELSE intents[r]]
  /\ blobs' = blobs \ {PdfOf(r) : r \in Orphans}

\* reconcile_blob_write_intents: every intent of more than a day, in one
\* transaction.
ReconcileWrites ==
  /\ intents' = [r \in Reports |->
       IF r \in Orphans THEN "reclaimed"
       ELSE IF r \in Left /\ Referenced(PdfOf(r)) THEN "bound" ELSE intents[r]]
  /\ blobs' = blobs \ {PdfOf(r) : r \in Orphans}

Start ==
  /\ ~up /\ up' = TRUE
  /\ ReconcileWrites
  /\ UNCHANGED <<stops, writers, aged, deliveries, artifacts, kept, trash, cycle, retirements>>

\* The start dies among the deletions: files are gone, the events are not kept.
StartDies ==
  /\ ~up
  /\ \E S \in SUBSET {PdfOf(r) : r \in Orphans} : blobs' = blobs \ S
  /\ UNCHANGED <<up, stops, intentVars, deliveries, artifacts, kept, trash, cycle, retirements>>

-----------------------------------------------------------------------------
(* The trash.                                                              *)

SetTrash(r, state) == trash' = [trash EXCEPT ![r] = state]

\* trash_report
TrashReport(r) ==
  /\ up /\ r \in deliveries /\ trash[r] = "active" /\ cycle[r] < MaxCycles[r]
  /\ SetTrash(r, "trashed")
  /\ cycle' = [cycle EXCEPT ![r] = @ + 1]
  /\ UNCHANGED <<up, stops, intentVars, deliveries, artifacts, blobs, kept, retirements>>

\* restore_report_from_trash
Restore(r) ==
  /\ up /\ trash[r] \in {"trashed", "due"}
  /\ SetTrash(r, "active")
  /\ UNCHANGED <<up, stops, intentVars, deliveries, artifacts, blobs, kept, cycle, retirements>>

\* It has been in the trash for thirty days.
ThirtyDays(r) ==
  /\ trash[r] = "trashed"
  /\ SetTrash(r, "due")
  /\ UNCHANGED <<up, stops, intentVars, deliveries, artifacts, blobs, kept, cycle, retirements>>

-----------------------------------------------------------------------------
(* Retirement: by the daily clean-up, by the dashboard's, and at a start.  *)

SetRetirement(k, state) == retirements' = [retirements EXCEPT ![k] = state]

\* Mutant: a report has one retirement for good.
PrepareOnce(r) ==
  /\ up /\ trash[r] = "due"
  /\ \A n \in 1..MaxCycles[r] : retirements[<<r, n>>] = "none"
  /\ SetRetirement(<<r, cycle[r]>>, "prepared")
  /\ UNCHANGED <<up, stops, intentVars, deliveries, artifacts, blobs, kept, trash, cycle>>

\* _prepare: one for each time the report was put into the trash, after what an
\* earlier time left open was finished.
Prepare(r) ==
  LET k == <<r, cycle[r]>> IN
  /\ up /\ trash[r] = "due" /\ retirements[k] = "none"
  /\ \A n \in 1..MaxCycles[r] : retirements[<<r, n>>] # "prepared"
  /\ SetRetirement(k, "prepared")
  /\ UNCHANGED <<up, stops, intentVars, deliveries, artifacts, blobs, kept, trash, cycle>>

\* _finish_one: the trash is looked at again.
Cancel(k) ==
  /\ up /\ retirements[k] = "prepared" /\ trash[k[1]] \in {"active", "trashed"}
  /\ SetRetirement(k, "cancelled")
  /\ UNCHANGED <<up, stops, intentVars, deliveries, artifacts, blobs, kept, trash, cycle>>

\* retire_database_records, when the deliveries S are gone: the metadata stays
\* while something uses it, the file while something refers to it.
DeleteArtifact(k, S) ==
  LET c == ContentOf[k[1]]
      b == BlobOf[c]
  IN  IF MustRemain(c, S)
      THEN /\ SetRetirement(k, "preserved")
           /\ UNCHANGED artifacts
      ELSE /\ artifacts' = artifacts \ {c}
           /\ SetRetirement(k, IF Referenced(b)' \/ ActiveWrite(b) THEN "preserved"
                               ELSE "db_retired")

\* The address goes for good, with the trash entry, in one transaction.
Retire(k) ==
  LET r == k[1] IN
  /\ up /\ retirements[k] = "prepared" /\ trash[r] = "due" /\ r \in deliveries
  /\ deliveries' = deliveries \ {r}
  /\ SetTrash(r, "purged")
  /\ DeleteArtifact(k, {r})
  /\ UNCHANGED <<up, stops, intentVars, blobs, kept, cycle>>

\* Mutant: what was preserved with its metadata is done with.
RetirePreservedBare(k) ==
  /\ up /\ retirements[k] = "preserved" /\ ContentOf[k[1]] \notin artifacts
  /\ DeleteArtifact(k, {})
  /\ UNCHANGED <<up, stops, intentVars, deliveries, blobs, kept, trash, cycle>>

\* What was preserved is looked at again each time.
RetirePreserved(k) ==
  /\ up /\ retirements[k] = "preserved"
  /\ DeleteArtifact(k, {})
  /\ UNCHANGED <<up, stops, intentVars, deliveries, blobs, kept, trash, cycle>>

\* Mutant: the file is removed without a second look.
RemoveBlobUnseen(k) ==
  /\ up /\ retirements[k] \in {"db_retired", "blob_blocked"}
  /\ SetRetirement(k, "completed") /\ blobs' = blobs \ {PdfOf(k[1])}
  /\ UNCHANGED <<up, stops, intentVars, deliveries, artifacts, kept, trash, cycle>>

\* reconcile_retired_blob
RemoveBlob(k) ==
  LET b == PdfOf(k[1]) IN
  /\ up /\ retirements[k] \in {"db_retired", "blob_blocked"}
  /\ IF Referenced(b) \/ ActiveWrite(b)
     THEN SetRetirement(k, "preserved") /\ UNCHANGED blobs
     ELSE SetRetirement(k, "completed") /\ blobs' = blobs \ {b}
  /\ UNCHANGED <<up, stops, intentVars, deliveries, artifacts, kept, trash, cycle>>

\* The file cannot be removed; or it was, and the process dies before the commit.
RemoveBlobFails(k) ==
  LET b == PdfOf(k[1]) IN
  /\ up /\ retirements[k] \in {"db_retired", "blob_blocked"}
  /\ ~Referenced(b) /\ ~ActiveWrite(b)
  /\ \/ SetRetirement(k, "blob_blocked") /\ UNCHANGED <<up, stops, writers, blobs>>
     \/ /\ stops < MaxStops
        /\ up' = FALSE /\ stops' = stops + 1 /\ writers' = {}
        /\ blobs' = blobs \ {b} /\ UNCHANGED retirements
  /\ UNCHANGED <<intents, aged, deliveries, artifacts, kept, trash, cycle>>

-----------------------------------------------------------------------------
Next ==
  \/ Stop \/ Start \/ StartDies
  \/ \E r \in Reports :
       \/ CreateWriteIntent(r) \/ Publish(r) \/ RollBack(r) \/ Reuse(r) \/ Age(r)
       \/ TrashReport(r) \/ Restore(r) \/ ThirtyDays(r) \/ Prepare(r)
  \/ \E c \in Contents : LetGo(c)
  \/ \E k \in Retirements :
       Cancel(k) \/ Retire(k) \/ RetirePreserved(k) \/ RemoveBlob(k) \/ RemoveBlobFails(k)

Spec == Init /\ [][Next]_vars

\* A start follows every stop. The clean-up runs every day and at every start,
\* over all retirements that are open; a file that cannot be removed today is
\* tried again.
Finish(k) == Cancel(k) \/ Retire(k) \/ RetirePreserved(k) \/ RemoveBlob(k)

FairSpec ==
  /\ Spec
  /\ WF_vars(Start)
  /\ \A r \in Reports : WF_vars(Prepare(r))
  /\ \A k \in Retirements : WF_vars(Finish(k))

-----------------------------------------------------------------------------
\* Every address that was given out shows its report: the PDF metadata and the
\* file are there, whatever other report with the same text or the same file
\* was retired meanwhile (load_public_delivery answers 503 otherwise).
DeliveredIsReadable ==
  \A r \in deliveries : ContentOf[r] \in artifacts /\ PdfOf(r) \in blobs

InUse(b) ==
  \/ \E r \in deliveries : PdfOf(r) = b
  \/ \E c \in kept : BlobOf[c] = b

OpenRetirement(b) ==
  \E k \in Retirements :
    PdfOf(k[1]) = b /\ retirements[k] \in {"db_retired", "blob_blocked", "preserved"}

\* A file nothing shows and nothing keeps is remembered by an open intent: of the
\* publication that may have written it, or of the retirement that removes it.
\* Without one nothing would ever look at the file again.
NoLeakedBlob == \A b \in blobs : InUse(b) \/ ActiveWrite(b) \/ OpenRetirement(b)

\* A report left in the trash for thirty days is purged, unless it is restored,
\* whichever step the process died in.
DueIsDecided == \A r \in Reports : trash[r] = "due" ~> trash[r] # "due"

\* "If the protection disappears later, the same intent reclaims what is left"
\* (retention.py, retire_database_records): once no address, no cache entry and no
\* open write needs a file any more, it is removed for good.
UnusedBlobGoes ==
  \A b \in Blobs : <>[](~InUse(b) /\ ~ActiveWrite(b)) => <>[](b \notin blobs)
=============================================================================
