------------------------ MODULE ReportArchiveProofs ------------------------
(***************************************************************************)
(* Proofs about ReportArchive for any reports, contents and files, however *)
(* they share them, and any number of trashings and stops: what is readable *)
(* and remembered (IInv), the way out of the trash (TrashInv), and the way of *)
(* a file that nothing uses any more.                                      *)
(***************************************************************************)
EXTENDS ReportArchive, TLAPS

\* Whoever is being published has an intent nobody closed, and the server is up.
WritersHaveIntents ==
  /\ \A r \in writers : intents[r] = "created"
  /\ ~up => writers = {}

\* What is or was in the trash was put there.
TrashCounted == \A r \in Reports : trash[r] = "active" \/ cycle[r] > 0

\* No metadata without its file.
MetadataHasFile == \A c \in artifacts : BlobOf[c] \in blobs

\* No address without its metadata.
DeliveryHasMetadata == \A r \in deliveries : ContentOf[r] \in artifacts

\* Metadata that no address needs is in the hands of a retirement.
MetadataIsOwned ==
  \A c \in artifacts :
    \/ \E r \in deliveries : ContentOf[r] = c
    \/ \E k \in Retirements : ContentOf[k[1]] = c /\ retirements[k] = "preserved"

\* A file without metadata is in the hands of a writer or of a retirement.
FileIsOwned == \A b \in blobs : Referenced(b) \/ ActiveWrite(b) \/ OpenRetirement(b)

IInv ==
  /\ TypeOK
  /\ WritersHaveIntents
  /\ TrashCounted
  /\ MetadataHasFile
  /\ DeliveryHasMetadata
  /\ MetadataIsOwned
  /\ FileIsOwned

(* A retirement is of a report.                                            *)
LEMMA RetirementReport ==
  ASSUME NEW k \in Retirements
  PROVE  k[1] \in Reports
BY DEF Retirements

LEMMA RetirementOfCycle ==
  ASSUME TypeOK, NEW r \in Reports, NEW n \in 1..MaxCycles[r]
  PROVE  <<r, n>> \in Retirements
BY DEF Retirements

(* Nothing is there at first.                                              *)
LEMMA InitIInv == Init => IInv
BY ArchiveAssumption DEF Init, IInv, TypeOK, WritersHaveIntents, TrashCounted, MetadataHasFile,
   DeliveryHasMetadata, MetadataIsOwned, FileIsOwned

(* What decides whether an artifact goes keeps its content readable for    *)
(* the addresses that are left, and its file in somebody's hands.          *)
LEMMA DeleteArtifactIInv ==
  ASSUME IInv, NEW k \in Retirements, NEW S,
         DeleteArtifact(k, S), S \subseteq {k[1]},
         retirements[k] = "prepared" \/ (retirements[k] = "preserved" /\ S = {}),
         deliveries' = deliveries \ S,
         UNCHANGED <<up, stops, intentVars, blobs, kept, cycle>>,
         trash' \in [Reports -> {"active", "trashed", "due", "purged"}], TrashCounted'
  PROVE  IInv'
<1> DEFINE c == ContentOf[k[1]]
           b == BlobOf[c]
<1> USE RetirementReport, ArchiveAssumption
<1>1. c \in Contents /\ b \in Blobs
  OBVIOUS
<1>2. CASE MustRemain(c, S)
  <2>1. UNCHANGED artifacts /\ SetRetirement(k, "preserved")
    BY <1>2 DEF DeleteArtifact
  <2>2. TypeOK'
    BY <2>1 DEF IInv, TypeOK, SetRetirement, intentVars, Retirements
  <2>3. WritersHaveIntents' /\ TrashCounted' /\ MetadataHasFile' /\ DeliveryHasMetadata'
    BY <2>1 DEF IInv, WritersHaveIntents, TrashCounted, MetadataHasFile, DeliveryHasMetadata, intentVars
  <2>4. \A m \in Retirements : retirements'[m] = IF m = k THEN "preserved" ELSE retirements[m]
    BY <2>1 DEF SetRetirement, IInv, TypeOK
  <2>5. MetadataIsOwned'
    BY <2>1, <2>4 DEF IInv, MetadataIsOwned, Retirements
  <2>6. FileIsOwned'
    BY <2>1, <2>4 DEF IInv, FileIsOwned, Referenced, ActiveWrite, OpenRetirement, PdfOf,
       Retirements, intentVars
  <2> QED
    BY <2>2, <2>3, <2>5, <2>6 DEF IInv
<1>3. CASE ~MustRemain(c, S)
  <2>1. /\ artifacts' = artifacts \ {c}
        /\ SetRetirement(k, IF Referenced(b)' \/ ActiveWrite(b) THEN "preserved" ELSE "db_retired")
    BY <1>3 DEF DeleteArtifact
  <2> DEFINE next == IF Referenced(b)' \/ ActiveWrite(b) THEN "preserved" ELSE "db_retired"
  <2>2. \A m \in Retirements : retirements'[m] = IF m = k THEN next ELSE retirements[m]
    BY <2>1 DEF SetRetirement, IInv, TypeOK
  <2>3. TypeOK'
    BY <2>1 DEF IInv, TypeOK, SetRetirement, intentVars, Retirements
  <2>4. WritersHaveIntents' /\ TrashCounted' /\ MetadataHasFile'
    BY <2>1 DEF IInv, WritersHaveIntents, TrashCounted, MetadataHasFile, intentVars
  <2>5. DeliveryHasMetadata'
    BY <2>1, <1>3 DEF IInv, DeliveryHasMetadata, MustRemain
  <2>6. MetadataIsOwned'
    BY <2>1, <2>2 DEF IInv, MetadataIsOwned, Retirements
  <2>7. ASSUME NEW f \in blobs' PROVE (Referenced(f) \/ ActiveWrite(f) \/ OpenRetirement(f))'
    <3>1. CASE f = b
      BY <3>1, <2>2 DEF OpenRetirement, PdfOf, Retirements
    <3>2. CASE f # b
      <4>1. Referenced(f) => Referenced(f)'
        BY <3>2, <2>1 DEF Referenced
      <4>2. ActiveWrite(f) => ActiveWrite(f)'
        BY DEF ActiveWrite, intentVars, PdfOf
      <4>3. OpenRetirement(f) => OpenRetirement(f)'
        BY <3>2, <2>2 DEF OpenRetirement, PdfOf, Retirements
      <4> QED
        BY <2>7, <4>1, <4>2, <4>3 DEF IInv, FileIsOwned
    <3> QED
      BY <3>1, <3>2
  <2> QED
    BY <2>3, <2>4, <2>5, <2>6, <2>7 DEF IInv, FileIsOwned
<1> QED
  BY <1>2, <1>3

(* A start leaves alone every file that metadata refers to.                *)
LEMMA StartIInv == IInv /\ Start => IInv'
<1> SUFFICES ASSUME IInv, Start PROVE IInv'
  OBVIOUS
<1> USE ArchiveAssumption DEF Start, ReconcileWrites
<1>1. TypeOK'
  BY DEF IInv, TypeOK, Retirements
<1>2. WritersHaveIntents' /\ TrashCounted'
  BY DEF IInv, WritersHaveIntents, TrashCounted
<1>3. MetadataHasFile' /\ DeliveryHasMetadata' /\ MetadataIsOwned'
  BY DEF IInv, MetadataHasFile, DeliveryHasMetadata, MetadataIsOwned, Orphans, Referenced,
     PdfOf, Retirements
<1>4. ASSUME NEW f \in blobs' PROVE (Referenced(f) \/ ActiveWrite(f) \/ OpenRetirement(f))'
  <2>1. f \in blobs /\ \A r \in Orphans : PdfOf(r) # f
    BY <1>4
  <2>2. ActiveWrite(f) => (ActiveWrite(f) \/ Referenced(f))'
    BY <2>1 DEF ActiveWrite, Referenced, PdfOf, IInv, TypeOK
  <2>3. (Referenced(f) => Referenced(f)') /\ (OpenRetirement(f) => OpenRetirement(f)')
    BY DEF Referenced, OpenRetirement, PdfOf, Retirements
  <2> QED
    BY <2>1, <2>2, <2>3 DEF IInv, FileIsOwned
<1> QED
  BY <1>1, <1>2, <1>3, <1>4 DEF IInv, FileIsOwned

(* The other steps: only a publication adds metadata or an address, and only *)
(* it, a roll-back and a stop add a file, that of a writer.                 *)
LEMMA StepIInv == IInv /\ [Next]_vars => IInv'
<1> SUFFICES ASSUME IInv, [Next]_vars PROVE IInv'
  OBVIOUS
<1> USE ArchiveAssumption
<1>1. CASE Stop
  <2>1. \A f \in blobs' : f \in blobs \/ ActiveWrite(f)
    BY <1>1 DEF Stop, IInv, TypeOK, WritersHaveIntents, ActiveWrite, PdfOf
  <2>2. blobs \subseteq blobs' /\ blobs' \subseteq Blobs
    BY <1>1 DEF Stop, IInv, TypeOK, PdfOf
  <2>3. up' \in BOOLEAN /\ writers' \subseteq Reports /\ blobs' \subseteq Blobs
        /\ UNCHANGED <<intents, aged, deliveries, artifacts, kept, trash, cycle, retirements>>
    BY <1>1, <2>2, Zenon DEF Stop
  <2>4. stops' \in 0..MaxStops
    BY <1>1 DEF Stop, IInv, TypeOK
  <2>5. TypeOK'
    BY <2>3, <2>4, Zenon DEF IInv, TypeOK
  <2> QED
    BY <1>1, <2>1, <2>2, <2>5 DEF Stop, IInv, WritersHaveIntents, TrashCounted, MetadataHasFile,
       DeliveryHasMetadata, MetadataIsOwned, FileIsOwned, Referenced, ActiveWrite,
       OpenRetirement, Retirements, PdfOf
<1>2. CASE Start
  BY <1>2, StartIInv
<1>3. CASE StartDies
  <2>1. PICK S \in SUBSET {PdfOf(r) : r \in Orphans} : blobs' = blobs \ S
    BY <1>3 DEF StartDies
  <2>2. \A f \in S : ~Referenced(f)
    BY DEF Orphans
  <2> QED
    BY <1>3, <2>1, <2>2 DEF StartDies, IInv, TypeOK, WritersHaveIntents, TrashCounted, MetadataHasFile,
       DeliveryHasMetadata, MetadataIsOwned, FileIsOwned, Referenced, ActiveWrite,
       OpenRetirement, Retirements, PdfOf, intentVars
<1>4. ASSUME NEW r \in Reports, CreateWriteIntent(r) PROVE IInv'
  BY <1>4 DEF CreateWriteIntent, Unpublished, IInv, TypeOK, WritersHaveIntents, TrashCounted, MetadataHasFile,
     DeliveryHasMetadata, MetadataIsOwned, FileIsOwned, Referenced, ActiveWrite, OpenRetirement,
     Retirements, PdfOf
<1>5. ASSUME NEW r \in Reports, Publish(r) PROVE IInv'
  <2> DEFINE c == ContentOf[r]
  <2>1. /\ c \in Contents /\ PdfOf(r) = BlobOf[c] /\ PdfOf(r) \in Blobs
        /\ artifacts' = artifacts \cup {c} /\ blobs' = blobs \cup {PdfOf(r)}
        /\ deliveries' = deliveries \cup {r}
        /\ intents' = [intents EXCEPT ![r] = "bound"]
    BY <1>5 DEF Publish, PdfOf
  <2>2. TypeOK'
    BY <1>5, <2>1 DEF Publish, IInv, TypeOK, Retirements
  <2>3. WritersHaveIntents' /\ TrashCounted' /\ MetadataHasFile' /\ DeliveryHasMetadata'
    BY <1>5, <2>1 DEF Publish, IInv, TypeOK, WritersHaveIntents, TrashCounted, MetadataHasFile,
       DeliveryHasMetadata
  <2>4. MetadataIsOwned'
    BY <1>5, <2>1 DEF Publish, IInv, MetadataIsOwned, Retirements
  <2>5. ASSUME NEW f \in blobs' PROVE (Referenced(f) \/ ActiveWrite(f) \/ OpenRetirement(f))'
    <3>1. Referenced(PdfOf(r))'
      BY <2>1 DEF Referenced
    <3>2. CASE f # PdfOf(r)
      <4>1. Referenced(f) => Referenced(f)'
        BY <2>1 DEF Referenced
      <4>2. ActiveWrite(f) => ActiveWrite(f)'
        BY <2>1, <3>2 DEF ActiveWrite, PdfOf, IInv, TypeOK
      <4>3. OpenRetirement(f) => OpenRetirement(f)'
        BY <1>5 DEF Publish, OpenRetirement, PdfOf, Retirements
      <4> QED
        BY <2>1, <3>2, <4>1, <4>2, <4>3 DEF IInv, FileIsOwned
    <3> QED
      BY <3>1, <3>2
  <2> QED
    BY <2>2, <2>3, <2>4, <2>5 DEF IInv, FileIsOwned
<1>6. ASSUME NEW r \in Reports, RollBack(r) PROVE IInv'
  BY <1>6 DEF RollBack, IInv, TypeOK, WritersHaveIntents, TrashCounted, MetadataHasFile, DeliveryHasMetadata,
     MetadataIsOwned, FileIsOwned, Referenced, ActiveWrite, OpenRetirement, Retirements, PdfOf
<1>7. ASSUME NEW r \in Reports, Reuse(r) PROVE IInv'
  BY <1>7 DEF Reuse, IInv, TypeOK, WritersHaveIntents, TrashCounted, MetadataHasFile, DeliveryHasMetadata,
     MetadataIsOwned, FileIsOwned, Referenced, ActiveWrite, OpenRetirement, Retirements, PdfOf,
     intentVars
<1>8. ASSUME NEW r \in Reports, Age(r) \/ TrashReport(r) \/ Restore(r) \/ ThirtyDays(r)
      PROVE IInv'
  BY <1>8 DEF Age, TrashReport, Restore, ThirtyDays, SetTrash, IInv, TypeOK, WritersHaveIntents, TrashCounted,
     MetadataHasFile, DeliveryHasMetadata, MetadataIsOwned, FileIsOwned, Referenced, ActiveWrite,
     OpenRetirement, Retirements, PdfOf, intentVars
<1>9. ASSUME NEW c \in Contents, LetGo(c) PROVE IInv'
  BY <1>9 DEF LetGo, IInv, TypeOK, WritersHaveIntents, TrashCounted, MetadataHasFile, DeliveryHasMetadata,
     MetadataIsOwned, FileIsOwned, Referenced, ActiveWrite, OpenRetirement, Retirements, PdfOf,
     intentVars
<1>10. ASSUME NEW k \in Retirements, NEW state \in {"prepared", "cancelled"},
              retirements[k] \in {"none", "prepared"}, SetRetirement(k, state),
              UNCHANGED <<up, stops, intentVars, deliveries, artifacts, blobs, kept, trash, cycle>>
       PROVE IInv'
  <2>1. \A m \in Retirements : retirements'[m] = IF m = k THEN state ELSE retirements[m]
    BY <1>10 DEF SetRetirement, IInv, TypeOK
  <2>2. TypeOK'
    BY <1>10 DEF SetRetirement, IInv, TypeOK, intentVars, Retirements
  <2>3. MetadataIsOwned' /\ FileIsOwned'
    BY <1>10, <2>1 DEF IInv, MetadataIsOwned, FileIsOwned, Referenced, ActiveWrite,
       OpenRetirement, PdfOf, intentVars, Retirements
  <2> QED
    BY <1>10, <2>2, <2>3 DEF IInv, WritersHaveIntents, TrashCounted, MetadataHasFile, DeliveryHasMetadata,
       intentVars
<1>11. ASSUME NEW r \in Reports, Prepare(r) PROVE IInv'
  <2>1. cycle[r] \in 1..MaxCycles[r]
    BY <1>11 DEF Prepare, IInv, TypeOK, TrashCounted
  <2>2. <<r, cycle[r]>> \in Retirements
    BY <2>1 DEF Retirements
  <2> QED
    BY <1>10, <1>11, <2>2 DEF Prepare
<1>12. ASSUME NEW k \in Retirements, Cancel(k) PROVE IInv'
  BY <1>10, <1>12 DEF Cancel
<1>13. ASSUME NEW k \in Retirements, Retire(k) PROVE IInv'
  <2>1. k[1] \in Reports /\ trash[k[1]] = "due"
    BY <1>13, RetirementReport DEF Retire
  <2>2. TrashCounted' /\ trash' \in [Reports -> {"active", "trashed", "due", "purged"}]
    BY <1>13, <2>1 DEF Retire, SetTrash, IInv, TypeOK, TrashCounted
  <2>3. {k[1]} \subseteq {k[1]}
    OBVIOUS
  <2> QED
    BY <1>13, <2>2, <2>3, DeleteArtifactIInv DEF Retire
<1>14. ASSUME NEW k \in Retirements, RetirePreserved(k) PROVE IInv'
  <2>1. TrashCounted' /\ trash' \in [Reports -> {"active", "trashed", "due", "purged"}]
    BY <1>14 DEF RetirePreserved, IInv, TypeOK, TrashCounted
  <2>2. deliveries' = deliveries \ {} /\ {} \subseteq {k[1]}
    BY <1>14 DEF RetirePreserved
  <2> QED
    BY <1>14, <2>1, <2>2, DeleteArtifactIInv DEF RetirePreserved
<1>15. ASSUME NEW k \in Retirements, RemoveBlob(k) \/ RemoveBlobFails(k) PROVE IInv'
  <2> DEFINE b == PdfOf(k[1])
  <2>1. /\ retirements[k] \in {"db_retired", "blob_blocked"} /\ b = BlobOf[ContentOf[k[1]]]
        /\ UNCHANGED <<intents, aged, deliveries, artifacts, kept, trash, cycle>>
    BY <1>15 DEF RemoveBlob, RemoveBlobFails, intentVars, PdfOf
  <2>10. \/ up' = up /\ writers' = writers
         \/ up' = FALSE /\ writers' = {}
    BY <1>15 DEF RemoveBlob, RemoveBlobFails, intentVars
  <2>11. up' \in BOOLEAN /\ writers' \subseteq writers
    BY <2>10, Zenon DEF IInv, TypeOK
  <2>9. stops' \in 0..MaxStops
    BY <1>15 DEF RemoveBlob, RemoveBlobFails, IInv, TypeOK
  <2>2. PICK state \in {"preserved", "completed", "blob_blocked", "db_retired"} :
          \A m \in Retirements : retirements'[m] = IF m = k THEN state ELSE retirements[m]
    BY <1>15 DEF RemoveBlob, RemoveBlobFails, SetRetirement, IInv, TypeOK
  <2>3. \/ blobs' = blobs /\ (OpenRetirement(b) => OpenRetirement(b)')
        \/ blobs' = blobs \ {b} /\ ~Referenced(b)
    <3>1. CASE RemoveBlob(k)
      BY <3>1, RetirementReport DEF RemoveBlob, SetRetirement, OpenRetirement, IInv, TypeOK, PdfOf,
         Retirements
    <3>2. CASE RemoveBlobFails(k)
      BY <3>2, RetirementReport DEF RemoveBlobFails, SetRetirement, OpenRetirement, IInv, TypeOK,
         PdfOf, Retirements
    <3> QED
      BY <1>15, <3>1, <3>2
  <2>4. retirements' \in [Retirements -> {"none", "prepared", "cancelled", "db_retired",
                                         "blob_blocked", "preserved", "completed"}]
    BY <1>15 DEF RemoveBlob, RemoveBlobFails, SetRetirement, IInv, TypeOK, Retirements
  <2>5. TypeOK'
    BY <2>1, <2>3, <2>4, <2>9, <2>11 DEF IInv, TypeOK
  <2>6. WritersHaveIntents' /\ TrashCounted' /\ MetadataHasFile' /\ DeliveryHasMetadata'
    BY <2>1, <2>3, <2>10 DEF IInv, WritersHaveIntents, TrashCounted, MetadataHasFile,
       DeliveryHasMetadata, Referenced
  <2>7. MetadataIsOwned'
    BY <2>1, <2>2 DEF IInv, MetadataIsOwned, Retirements
  <2>8. ASSUME NEW f \in blobs' PROVE (Referenced(f) \/ ActiveWrite(f) \/ OpenRetirement(f))'
    <3>1. (Referenced(f) => Referenced(f)') /\ (ActiveWrite(f) => ActiveWrite(f)')
      BY <2>1 DEF Referenced, ActiveWrite, PdfOf
    <3>2. f # b => (OpenRetirement(f) => OpenRetirement(f)')
      BY <2>2 DEF OpenRetirement, PdfOf, Retirements
    <3> QED
      BY <2>3, <2>8, <3>1, <3>2 DEF IInv, FileIsOwned
  <2> QED
    BY <2>5, <2>6, <2>7, <2>8 DEF IInv, FileIsOwned
<1>16. CASE UNCHANGED vars
  BY <1>16 DEF vars, intentVars, IInv, TypeOK, WritersHaveIntents, TrashCounted, MetadataHasFile,
     DeliveryHasMetadata, MetadataIsOwned, FileIsOwned, Referenced, ActiveWrite,
     OpenRetirement, Retirements, PdfOf
<1> QED
  BY <1>1, <1>2, <1>3, <1>4, <1>5, <1>6, <1>7, <1>8, <1>9, <1>11, <1>12, <1>13, <1>14, <1>15, <1>16
     DEF Next

(* The inductive invariant.                                                *)
THEOREM ArchiveInvariant == Spec => []IInv
BY InitIInv, StepIInv, PTL DEF Spec

(* Types.                                                                  *)
THEOREM ArchiveTypes == Spec => []TypeOK
<1>1. IInv => TypeOK
  BY DEF IInv
<1> QED
  BY <1>1, ArchiveInvariant, PTL

(* An address that was given out stays readable whatever is retired around *)
(* it, however contents and files are shared.                              *)
THEOREM ArchiveReadable == Spec => []DeliveredIsReadable
<1>1. IInv => DeliveredIsReadable
  BY DEF IInv, DeliveryHasMetadata, MetadataHasFile, DeliveredIsReadable, PdfOf
<1> QED
  BY <1>1, ArchiveInvariant, PTL

(* No file is forgotten: what nothing uses is in an open intent.           *)
THEOREM ArchiveNoLeak == Spec => []NoLeakedBlob
<1>1. ASSUME IInv, NEW b \in blobs PROVE InUse(b) \/ ActiveWrite(b) \/ OpenRetirement(b)
  <2>1. ASSUME NEW c \in artifacts, BlobOf[c] = b PROVE InUse(b) \/ OpenRetirement(b)
    BY <1>1, <2>1 DEF IInv, MetadataIsOwned, InUse, OpenRetirement, PdfOf
  <2> QED
    BY <1>1, <2>1 DEF IInv, FileIsOwned, Referenced
<1>2. IInv => NoLeakedBlob
  BY <1>1 DEF NoLeakedBlob
<1> QED
  BY <1>2, ArchiveInvariant, PTL

-----------------------------------------------------------------------------
(* The way out of the trash.                                               *)

PreparedOf(r) == {n \in 1..MaxCycles[r] : retirements[<<r, n>>] = "prepared"}

\* A report in the trash has its address, and this time in the trash has no
\* retirement or an open one; a time that has not come has none.
TrashPath(r) ==
  /\ r \in writers => r \notin deliveries /\ trash[r] = "active"
  /\ trash[r] \in {"trashed", "due"} => r \in deliveries
  /\ trash[r] = "purged" => r \notin deliveries \cup writers
  /\ trash[r] = "trashed" => retirements[<<r, cycle[r]>>] = "none"
  /\ trash[r] = "due" => retirements[<<r, cycle[r]>>] \in {"none", "prepared"}
  /\ \A n \in 1..MaxCycles[r] : n > cycle[r] => retirements[<<r, n>>] = "none"

TrashInv == \A r \in Reports : TrashPath(r)

\* What is due can be prepared (Prepare) or retired (Retire), if the server is up.
CanBeDecided(r) ==
  trash[r] = "due" =>
    /\ r \in deliveries /\ cycle[r] \in 1..MaxCycles[r]
    /\ PreparedOf(r) # {} \/ retirements[<<r, cycle[r]>>] = "none"

\* A prepared retirement of a report that stays due stays prepared.
StaysPrepared(r) ==
  trash[r] = "due" /\ trash'[r] = "due" => PreparedOf(r) \subseteq PreparedOf(r)'

\* An address that was retired is never given out again.
RetiredForGood(r) ==
  trash[r] = "purged" => trash'[r] = "purged" /\ r \notin deliveries'


(* A retirement is one time of one report.                                 *)
LEMMA RetirementPair ==
  ASSUME NEW k \in Retirements
  PROVE  k[1] \in Reports /\ k[2] \in 1..MaxCycles[k[1]] /\ k = <<k[1], k[2]>>
BY ArchiveAssumption DEF Retirements

LEMMA RetirementAt ==
  ASSUME TypeOK, NEW k \in Retirements, NEW state, SetRetirement(k, state)
  PROVE  \A m \in Retirements : retirements'[m] = IF m = k THEN state ELSE retirements[m]
BY DEF TypeOK, SetRetirement

(* Who is in the trash was put there at a time that may have a retirement. *)
LEMMA TimeOfTrash ==
  ASSUME IInv, NEW r \in Reports, trash[r] # "active"
  PROVE  cycle[r] \in 1..MaxCycles[r] /\ <<r, cycle[r]>> \in Retirements
<1>1. cycle[r] \in 1..MaxCycles[r]
  BY ArchiveAssumption DEF IInv, TypeOK, TrashCounted
<1> QED
  BY <1>1 DEF Retirements

(* A retirement that was decided is on no way out of the trash.            *)
LEMMA TrashFrame ==
  ASSUME IInv, TrashInv, UNCHANGED <<deliveries, trash, cycle>>, writers' \subseteq writers,
         \A m \in Retirements :
           retirements'[m] = retirements[m] \/ retirements[m] \notin {"none", "prepared"}
  PROVE  TrashInv'
<1> SUFFICES ASSUME NEW r \in Reports PROVE TrashPath(r)'
  BY DEF TrashInv
<1>1. TrashPath(r)
  BY DEF TrashInv
<1>2. trash[r] # "active" => <<r, cycle[r]>> \in Retirements
  BY TimeOfTrash
<1>3. \A n \in 1..MaxCycles[r] : <<r, n>> \in Retirements
  BY DEF Retirements
<1> QED
  BY <1>1, <1>2, <1>3 DEF TrashPath

LEMMA InitTrash == Init => TrashInv
<1>1. \A r \in Reports : \A n \in 1..MaxCycles[r] : <<r, n>> \in Retirements
  BY DEF Retirements
<1> QED
  BY <1>1 DEF Init, TrashInv, TrashPath

\* What the way of a report out of the trash depends on.
TrashSame(r) ==
  /\ trash'[r] = trash[r] /\ cycle'[r] = cycle[r]
  /\ r \in deliveries' <=> r \in deliveries
  /\ r \in writers' => r \in writers
  /\ \A n \in 1..MaxCycles[r] : retirements'[<<r, n>>] = retirements[<<r, n>>]

LEMMA TrashSameFrame ==
  ASSUME IInv, NEW r \in Reports, TrashPath(r), TrashSame(r)
  PROVE  TrashPath(r)'
<1>1. trash[r] # "active" => cycle[r] \in 1..MaxCycles[r]
  BY TimeOfTrash
<1> QED
  BY <1>1 DEF TrashPath, TrashSame

(* The steps of a report that is published or put into the trash.          *)
LEMMA ReportTrash ==
  ASSUME IInv, TrashInv, NEW r \in Reports,
         \/ CreateWriteIntent(r) \/ Publish(r) \/ Reuse(r)
         \/ TrashReport(r) \/ Restore(r) \/ ThirtyDays(r)
  PROVE  TrashInv'
<1>0. DOMAIN trash = Reports /\ DOMAIN cycle = Reports
      /\ trash[r] \in {"active", "trashed", "due", "purged"} /\ cycle[r] \in Nat
  BY DEF IInv, TypeOK
<1>1. ASSUME NEW q \in Reports \ {r} PROVE TrashPath(q)'
  <2>1. TrashSame(q)
    BY <1>0, <1>1 DEF TrashSame, CreateWriteIntent, Publish, Reuse, TrashReport, Restore, ThirtyDays,
       SetTrash, intentVars
  <2> QED
    BY <2>1, TrashSameFrame DEF TrashInv
<1>2. TrashPath(r)
  BY DEF TrashInv
<1>3. TrashPath(r)'
  <2>1. CASE CreateWriteIntent(r)
    BY <1>0, <1>2, <2>1 DEF CreateWriteIntent, Unpublished, TrashPath
  <2>2. CASE Publish(r)
    BY <1>0, <1>2, <2>2 DEF Publish, TrashPath
  <2>3. CASE Reuse(r)
    <3>1. r \notin writers
      BY <2>3 DEF Reuse, Unpublished, IInv, WritersHaveIntents
    <3> QED
      BY <1>0, <1>2, <2>3, <3>1 DEF Reuse, Unpublished, TrashPath, intentVars
  <2>4. CASE TrashReport(r)
    <3>1. /\ trash'[r] = "trashed" /\ cycle'[r] = cycle[r] + 1 /\ cycle[r] < MaxCycles[r]
          /\ trash[r] = "active" /\ r \in deliveries
          /\ UNCHANGED <<writers, deliveries, retirements>>
      BY <1>0, <2>4 DEF TrashReport, SetTrash, intentVars
    <3>2. cycle[r] + 1 \in 1..MaxCycles[r]
      BY <1>0, <3>1, ArchiveAssumption
    <3>3. retirements[<<r, cycle[r] + 1>>] = "none"
      BY <1>0, <1>2, <3>2 DEF TrashPath
    <3>4. \A n \in 1..MaxCycles[r] : n > cycle[r] + 1 => n > cycle[r]
      BY <1>0
    <3>5. r \notin writers
      BY <1>2, <3>1 DEF TrashPath
    <3> QED
      BY <1>2, <3>1, <3>3, <3>4, <3>5 DEF TrashPath
  <2>5. CASE Restore(r)
    BY <1>0, <1>2, <2>5 DEF Restore, SetTrash, TrashPath, intentVars
  <2>6. CASE ThirtyDays(r)
    BY <1>0, <1>2, <2>6 DEF ThirtyDays, SetTrash, TrashPath, intentVars
  <2> QED
    BY <2>1, <2>2, <2>3, <2>4, <2>5, <2>6
<1> QED
  BY <1>1, <1>3 DEF TrashInv

(* The steps of a retirement until it is decided.                          *)
LEMMA DecisionTrash ==
  ASSUME IInv, TrashInv, NEW k \in Retirements, Cancel(k) \/ Retire(k) \/ (Prepare(k[1]) /\ k[2] = cycle[k[1]])
  PROVE  TrashInv'
<1> DEFINE r == k[1]
<1>0. r \in Reports /\ k[2] \in 1..MaxCycles[r] /\ k = <<r, k[2]>>
  BY RetirementPair
<1>1. DOMAIN trash = Reports /\ DOMAIN retirements = Retirements /\ cycle[r] \in Nat
  BY <1>0 DEF IInv, TypeOK
<1>2. ASSUME NEW q \in Reports \ {r}, NEW n \in 1..MaxCycles[q]
      PROVE  <<q, n>> \in Retirements /\ <<q, n>> # k
  BY <1>0 DEF Retirements
<1>3. \E state : SetRetirement(k, state)
  BY <1>0 DEF Cancel, Retire, Prepare, DeleteArtifact
<1>4. \A m \in Retirements : m # k => retirements'[m] = retirements[m]
  BY <1>3, RetirementAt DEF IInv
<1>5. ASSUME NEW q \in Reports \ {r} PROVE TrashPath(q)'
  <2>1. UNCHANGED <<writers, cycle>> /\ trash'[q] = trash[q] /\ (q \in deliveries' <=> q \in deliveries)
    BY <1>0, <1>1, <1>5 DEF Cancel, Retire, Prepare, SetTrash, intentVars
  <2>2. TrashSame(q)
    BY <1>2, <1>4, <1>5, <2>1 DEF TrashSame
  <2> QED
    BY <2>2, TrashSameFrame DEF TrashInv
<1>6. TrashPath(r)
  BY <1>0 DEF TrashInv
<1>7. \A n \in 1..MaxCycles[r] : <<r, n>> \in Retirements /\ (n # k[2] => <<r, n>> # k)
  BY <1>0 DEF Retirements
<1>8. trash[r] # "active" => cycle[r] \in 1..MaxCycles[r]
  BY <1>0, TimeOfTrash
<1>9. TrashPath(r)'
  <2>1. CASE Cancel(k)
    <3>1. /\ retirements[k] = "prepared" /\ trash[r] \in {"active", "trashed"}
          /\ UNCHANGED <<writers, deliveries, trash, cycle>>
      BY <2>1 DEF Cancel, intentVars
    <3>2. k[2] <= cycle[r]
      BY <1>0, <1>1, <1>6, <3>1 DEF TrashPath
    <3>3. trash[r] = "trashed" => k[2] # cycle[r]
      BY <1>0, <1>6, <3>1 DEF TrashPath
    <3>4. \A n \in 1..MaxCycles[r] : n > cycle[r] => n # k[2]
      BY <1>1, <3>2
    <3> QED
      BY <1>4, <1>6, <1>7, <1>8, <3>1, <3>3, <3>4 DEF TrashPath
  <2>2. CASE Retire(k)
    <3>1. /\ retirements[k] = "prepared" /\ trash'[r] = "purged" /\ r \in deliveries
          /\ r \notin deliveries' /\ UNCHANGED <<writers, cycle>>
      BY <1>0, <1>1, <2>2 DEF Retire, SetTrash, intentVars
    <3>2. k[2] <= cycle[r]
      BY <1>0, <1>1, <1>6, <3>1 DEF TrashPath
    <3>3. \A n \in 1..MaxCycles[r] : n > cycle[r] => n # k[2]
      BY <1>1, <3>2
    <3>4. r \notin writers
      BY <1>6, <3>1 DEF TrashPath
    <3> QED
      BY <1>4, <1>6, <1>7, <3>1, <3>3, <3>4 DEF TrashPath
  <2>3. CASE Prepare(r) /\ k[2] = cycle[r]
    <3>1. /\ SetRetirement(k, "prepared") /\ trash[r] = "due"
          /\ UNCHANGED <<writers, deliveries, trash, cycle>>
      BY <1>0, <2>3 DEF Prepare, intentVars
    <3>2. retirements'[k] = "prepared"
      BY <3>1, RetirementAt DEF IInv
    <3>3. \A n \in 1..MaxCycles[r] : n > cycle[r] => n # k[2]
      BY <1>1, <2>3
    <3> QED
      BY <1>0, <1>4, <1>6, <1>7, <2>3, <3>1, <3>2, <3>3 DEF TrashPath
  <2> QED
    BY <2>1, <2>2, <2>3
<1> QED
  BY <1>5, <1>9 DEF TrashInv

LEMMA StepTrash == IInv /\ TrashInv /\ [Next]_vars => TrashInv'
<1> SUFFICES ASSUME IInv, TrashInv, [Next]_vars PROVE TrashInv'
  OBVIOUS
<1>1. ASSUME NEW r \in Reports,
             \/ CreateWriteIntent(r) \/ Publish(r) \/ Reuse(r)
             \/ TrashReport(r) \/ Restore(r) \/ ThirtyDays(r)
      PROVE  TrashInv'
  BY <1>1, ReportTrash
<1>2. ASSUME NEW r \in Reports, Prepare(r) PROVE TrashInv'
  <2>1. trash[r] = "due"
    BY <1>2 DEF Prepare
  <2>2. <<r, cycle[r]>> \in Retirements
    BY <2>1, TimeOfTrash
  <2> DEFINE k == <<r, cycle[r]>>
  <2>3. k[1] = r /\ k[2] = cycle[r]
    OBVIOUS
  <2> HIDE DEF k
  <2>4. Prepare(k[1]) /\ k[2] = cycle[k[1]] /\ k \in Retirements
    BY <1>2, <2>2, <2>3 DEF k
  <2> QED
    BY <2>4, DecisionTrash
<1>3. ASSUME NEW k \in Retirements, Cancel(k) \/ Retire(k) PROVE TrashInv'
  BY <1>3, DecisionTrash
<1>4. ASSUME NEW k \in Retirements, RetirePreserved(k) \/ RemoveBlob(k) \/ RemoveBlobFails(k)
      PROVE  TrashInv'
  <2>1. /\ retirements[k] \notin {"none", "prepared"} /\ UNCHANGED <<deliveries, trash, cycle>>
        /\ writers' \subseteq writers
        /\ UNCHANGED retirements \/ \E state : SetRetirement(k, state)
    BY <1>4 DEF RetirePreserved, RemoveBlob, RemoveBlobFails, DeleteArtifact, intentVars
  <2>2. \A m \in Retirements : m # k => retirements'[m] = retirements[m]
    BY <2>1, RetirementAt DEF IInv
  <2> QED
    BY <2>1, <2>2, TrashFrame
<1>5. ASSUME UNCHANGED <<deliveries, trash, cycle, retirements>>, writers' \subseteq writers
      PROVE  TrashInv'
  BY <1>5, TrashFrame
<1>6. Stop \/ Start \/ StartDies => UNCHANGED <<deliveries, trash, cycle, retirements>> /\ writers' \subseteq writers
  BY DEF Stop, Start, StartDies, intentVars
<1>7. (\E r \in Reports : RollBack(r) \/ Age(r)) \/ (\E c \in Contents : LetGo(c)) \/ UNCHANGED vars
        => UNCHANGED <<deliveries, trash, cycle, retirements>> /\ writers' \subseteq writers
  BY DEF RollBack, Age, LetGo, vars, intentVars
<1> QED
  BY <1>1, <1>2, <1>3, <1>4, <1>5, <1>6, <1>7 DEF Next

LEMMA DueCanBeDecided ==
  ASSUME IInv, TrashInv, NEW r \in Reports
  PROVE  CanBeDecided(r)
<1>1. trash[r] = "due" => cycle[r] \in 1..MaxCycles[r]
  BY TimeOfTrash
<1>2. TrashPath(r)
  BY DEF TrashInv
<1> QED
  BY <1>1, <1>2 DEF CanBeDecided, PreparedOf, TrashPath

LEMMA StepKeepsPrepared ==
  ASSUME IInv, [Next]_vars, NEW r \in Reports
  PROVE  StaysPrepared(r)
<1> SUFFICES ASSUME trash[r] = "due", trash'[r] = "due", NEW n \in 1..MaxCycles[r],
                    retirements[<<r, n>>] = "prepared"
             PROVE  retirements'[<<r, n>>] = "prepared"
  BY DEF StaysPrepared, PreparedOf
<1> DEFINE k == <<r, n>>
<1>0. k \in Retirements /\ k[1] = r
  BY DEF Retirements
<1>1. ASSUME NEW m \in Retirements, NEW state, SetRetirement(m, state), m # k
      PROVE  retirements'[k] = "prepared"
  BY <1>0, <1>1, RetirementAt DEF IInv
<1>2. ASSUME NEW q \in Reports, Prepare(q) PROVE retirements'[k] = "prepared"
  <2>1. /\ trash[q] = "due" /\ SetRetirement(<<q, cycle[q]>>, "prepared")
        /\ retirements[<<q, cycle[q]>>] = "none"
    BY <1>2 DEF Prepare
  <2>2. <<q, cycle[q]>> \in Retirements
    BY <2>1, TimeOfTrash
  <2> QED
    BY <1>1, <2>1, <2>2
<1>3. ASSUME NEW m \in Retirements, Cancel(m) PROVE retirements'[k] = "prepared"
  <2>1. m # k /\ SetRetirement(m, "cancelled")
    BY <1>0, <1>3 DEF Cancel
  <2> QED
    BY <1>1, <2>1
<1>4. ASSUME NEW m \in Retirements, Retire(m) PROVE retirements'[k] = "prepared"
  <2>1. SetTrash(m[1], "purged") /\ \E state : SetRetirement(m, state)
    BY <1>4 DEF Retire, DeleteArtifact
  <2>2. m # k
    BY <1>0, <2>1 DEF SetTrash, IInv, TypeOK
  <2> QED
    BY <1>1, <2>1, <2>2
<1>5. ASSUME NEW m \in Retirements, RetirePreserved(m) \/ RemoveBlob(m) \/ RemoveBlobFails(m)
      PROVE  retirements'[k] = "prepared"
  <2>1. m # k /\ (UNCHANGED retirements \/ \E state : SetRetirement(m, state))
    BY <1>5 DEF RetirePreserved, RemoveBlob, RemoveBlobFails, DeleteArtifact
  <2> QED
    BY <1>1, <2>1
<1>6. Stop \/ Start \/ StartDies => UNCHANGED retirements
  BY DEF Stop, Start, StartDies
<1>7. \A q \in Reports :
        \/ CreateWriteIntent(q) \/ Publish(q) \/ RollBack(q) \/ Reuse(q) \/ Age(q)
        \/ TrashReport(q) \/ Restore(q) \/ ThirtyDays(q)
        => UNCHANGED retirements
  BY DEF CreateWriteIntent, Publish, RollBack, Reuse, Age, TrashReport, Restore, ThirtyDays
<1>8. (\E c \in Contents : LetGo(c)) \/ UNCHANGED vars => UNCHANGED retirements
  BY DEF LetGo, vars
<1> QED
  BY <1>2, <1>3, <1>4, <1>5, <1>6, <1>7, <1>8 DEF Next

LEMMA StepRetiredForGood ==
  ASSUME IInv, TrashInv, TrashInv', [Next]_vars, NEW r \in Reports, trash[r] = "purged"
  PROVE  trash'[r] = "purged" /\ r \notin deliveries'
<1>0. DOMAIN trash = Reports
  BY DEF IInv, TypeOK
<1>1. trash'[r] = "purged"
  <2>1. ASSUME NEW q \in Reports, TrashReport(q) \/ Restore(q) \/ ThirtyDays(q)
        PROVE  trash'[r] = "purged"
    BY <1>0, <2>1 DEF TrashReport, Restore, ThirtyDays, SetTrash
  <2>2. ASSUME NEW k \in Retirements, Retire(k) PROVE trash'[r] = "purged"
    BY <1>0, <2>2 DEF Retire, SetTrash
  <2>3. ASSUME NEW q \in Reports,
               \/ CreateWriteIntent(q) \/ Publish(q) \/ RollBack(q) \/ Reuse(q) \/ Age(q)
               \/ Prepare(q)
        PROVE  UNCHANGED trash
    BY <2>3 DEF CreateWriteIntent, Publish, RollBack, Reuse, Age, Prepare
  <2>4. ASSUME NEW k \in Retirements,
               Cancel(k) \/ RetirePreserved(k) \/ RemoveBlob(k) \/ RemoveBlobFails(k)
        PROVE  UNCHANGED trash
    BY <2>4 DEF Cancel, RetirePreserved, RemoveBlob, RemoveBlobFails
  <2>5. Stop \/ Start \/ StartDies \/ (\E c \in Contents : LetGo(c)) \/ UNCHANGED vars
          => UNCHANGED trash
    BY DEF Stop, Start, StartDies, LetGo, vars
  <2> QED
    BY <2>1, <2>2, <2>3, <2>4, <2>5 DEF Next
<1>2. r \notin deliveries'
  BY <1>1 DEF TrashInv, TrashPath
<1> QED
  BY <1>1, <1>2

(* Why a due report is decided: whatever was trashed, restored and left    *)
(* half done before, it can be prepared or is, and stays so until it is    *)
(* restored or retired.                                                    *)
THEOREM ArchiveDueCanBeDecided ==
  Spec => [](\A r \in Reports : CanBeDecided(r)) /\ [][\A r \in Reports : StaysPrepared(r)]_vars
<1> DEFINE Stays == \A r \in Reports : StaysPrepared(r)
<1>1. IInv /\ TrashInv => \A r \in Reports : CanBeDecided(r)
  BY DueCanBeDecided
<1>2. IInv /\ [Next]_vars => [Stays]_vars
  BY StepKeepsPrepared
<1>3. Spec => [][Stays]_vars
  <2> HIDE DEF Stays
  <2> QED
    BY <1>2, ArchiveInvariant, PTL DEF Spec
<1>4. Spec => [](\A r \in Reports : CanBeDecided(r))
  BY <1>1, InitTrash, StepTrash, ArchiveInvariant, PTL DEF Spec
<1> QED
  BY <1>3, <1>4 DEF Stays

(* A retired address shows nothing ever again: not of its own publication, *)
(* not as a copy of another report.                                        *)
THEOREM ArchiveRetiredForGood == Spec => [][\A r \in Reports : RetiredForGood(r)]_vars
<1> DEFINE Final == \A r \in Reports : RetiredForGood(r)
<1>1. IInv /\ TrashInv /\ TrashInv' /\ [Next]_vars => [Final]_vars
  BY StepRetiredForGood DEF RetiredForGood
<1>2. Spec => [][Final]_vars
  <2> HIDE DEF Final
  <2> QED
    BY <1>1, InitTrash, StepTrash, ArchiveInvariant, PTL DEF Spec
<1> QED
  BY <1>2 DEF Final

-----------------------------------------------------------------------------
(* The way of an unused file.                                              *)

Unused(b) == ~InUse(b) /\ ~ActiveWrite(b)

MetadataOf(b) == {c \in artifacts : BlobOf[c] = b}

\* While metadata names an unused file, a retirement that is looked at again
\* owns the metadata; once none does, a retirement owns the file.
IsHandled(b) ==
  b \in blobs /\ Unused(b) =>
    IF Referenced(b)
    THEN \A c \in MetadataOf(b) :
           /\ ~MustRemain(c, {})
           /\ \E k \in Retirements : ContentOf[k[1]] = c /\ retirements[k] = "preserved"
    ELSE OpenRetirement(b)

\* As long as a file is unused its metadata only goes, the file does not come
\* back, and each step of the clean-up brings it nearer to its end.
NearsItsEnd(b) ==
  Unused(b) /\ Unused(b)' =>
    /\ MetadataOf(b)' \subseteq MetadataOf(b)
    /\ b \in blobs' => b \in blobs
    /\ \A k \in Retirements : PdfOf(k[1]) = b =>
         /\ RetirePreserved(k) => ContentOf[k[1]] \notin MetadataOf(b)'
         /\ ~Referenced(b) =>
              /\ RetirePreserved(k) => retirements'[k] = "db_retired"
              /\ RemoveBlob(k) => b \notin blobs'
              /\ retirements[k] \in {"db_retired", "blob_blocked"} /\ b \in blobs' =>
                   retirements'[k] \in {"db_retired", "blob_blocked"}

LEMMA AllHandled ==
  ASSUME IInv, NEW b \in Blobs
  PROVE  IsHandled(b)
<1> SUFFICES ASSUME b \in blobs, ~InUse(b), ~ActiveWrite(b)
             PROVE  IF Referenced(b)
                    THEN \A c \in MetadataOf(b) :
                           /\ ~MustRemain(c, {})
                           /\ \E k \in Retirements : ContentOf[k[1]] = c /\ retirements[k] = "preserved"
                    ELSE OpenRetirement(b)
  BY DEF IsHandled, Unused
<1>1. ASSUME NEW c \in MetadataOf(b)
      PROVE  /\ ~MustRemain(c, {})
             /\ \E k \in Retirements : ContentOf[k[1]] = c /\ retirements[k] = "preserved"
  <2>1. c \in artifacts /\ BlobOf[c] = b
    BY DEF MetadataOf
  <2>2. c \notin kept /\ \A r \in deliveries : ContentOf[r] # c
    BY <2>1 DEF InUse, PdfOf
  <2> QED
    BY <2>1, <2>2 DEF MustRemain, IInv, MetadataIsOwned
<1>2. ~Referenced(b) => OpenRetirement(b)
  BY DEF IInv, FileIsOwned
<1> QED
  BY <1>1, <1>2

(* While a file stays unused nothing is published of it, and nobody writes it. *)
LEMMA UnusedOnlyLoses ==
  ASSUME IInv, [Next]_vars, NEW b \in Blobs, Unused(b), Unused(b)'
  PROVE  MetadataOf(b)' \subseteq MetadataOf(b) /\ (b \in blobs' => b \in blobs)
<1>0. \A r \in writers : PdfOf(r) # b
  BY DEF Unused, ActiveWrite, IInv, TypeOK, WritersHaveIntents
<1> DEFINE OnlyLoses == MetadataOf(b)' \subseteq MetadataOf(b) /\ (b \in blobs' => b \in blobs)
<1>1. ASSUME NEW r \in Reports, Publish(r) PROVE OnlyLoses
  <2>1. /\ r \in writers /\ artifacts' = artifacts \cup {ContentOf[r]}
        /\ blobs' = blobs \cup {PdfOf(r)}
    BY <1>1 DEF Publish
  <2> QED
    BY <1>0, <2>1 DEF MetadataOf, PdfOf
<1>2. ASSUME NEW r \in Reports, RollBack(r) PROVE OnlyLoses
  <2>1. r \in writers /\ artifacts' = artifacts /\ blobs' \subseteq blobs \cup {PdfOf(r)}
    BY <1>2 DEF RollBack
  <2> QED
    BY <1>0, <2>1 DEF MetadataOf
<1>3. ASSUME Stop PROVE OnlyLoses
  BY <1>0, <1>3 DEF Stop, MetadataOf
<1>4. ASSUME artifacts' \subseteq artifacts, blobs' \subseteq blobs PROVE OnlyLoses
  BY <1>4 DEF MetadataOf
<1> HIDE DEF OnlyLoses
<1>5. Start \/ StartDies => artifacts' \subseteq artifacts /\ blobs' \subseteq blobs
  BY DEF Start, ReconcileWrites, StartDies
<1>6. \A r \in Reports :
        \/ CreateWriteIntent(r) \/ Reuse(r) \/ Age(r) \/ TrashReport(r) \/ Restore(r) \/ ThirtyDays(r)
        \/ Prepare(r)
        => artifacts' \subseteq artifacts /\ blobs' \subseteq blobs
  BY DEF CreateWriteIntent, Reuse, Age, TrashReport, Restore, ThirtyDays, Prepare
<1>7. (\E c \in Contents : LetGo(c)) \/ UNCHANGED vars
        => artifacts' \subseteq artifacts /\ blobs' \subseteq blobs
  BY DEF LetGo, vars
<1>8. \A k \in Retirements :
        \/ Cancel(k) \/ Retire(k) \/ RetirePreserved(k) \/ RemoveBlob(k) \/ RemoveBlobFails(k)
        => artifacts' \subseteq artifacts /\ blobs' \subseteq blobs
  BY DEF Cancel, Retire, RetirePreserved, DeleteArtifact, RemoveBlob, RemoveBlobFails
<1>9. OnlyLoses
  BY <1>1, <1>2, <1>3, <1>4, <1>5, <1>6, <1>7, <1>8 DEF Next
<1> QED
  BY <1>9 DEF OnlyLoses

(* Only the removal of its file ends a retirement that is about the file.  *)
LEMMA FileRetirementStays ==
  ASSUME IInv, [Next]_vars, NEW k \in Retirements,
         retirements[k] \in {"db_retired", "blob_blocked"}
  PROVE  RemoveBlob(k) \/ retirements'[k] \in {"db_retired", "blob_blocked"}
<1>1. ASSUME NEW r \in Reports, Prepare(r) PROVE retirements'[k] = retirements[k]
  <2>1. trash[r] = "due" /\ retirements[<<r, cycle[r]>>] = "none"
        /\ SetRetirement(<<r, cycle[r]>>, "prepared")
    BY <1>1 DEF Prepare
  <2>2. <<r, cycle[r]>> \in Retirements
    BY <2>1, TimeOfTrash
  <2> QED
    BY <2>1, <2>2, RetirementAt DEF IInv
<1>2. ASSUME NEW m \in Retirements, Cancel(m) \/ Retire(m) \/ RetirePreserved(m)
      PROVE  retirements'[k] = retirements[k]
  <2>1. m # k /\ \E state : SetRetirement(m, state)
    BY <1>2 DEF Cancel, Retire, RetirePreserved, DeleteArtifact
  <2> QED
    BY <2>1, RetirementAt DEF IInv
<1>3. ASSUME NEW m \in Retirements \ {k}, RemoveBlob(m) \/ RemoveBlobFails(m)
      PROVE  retirements'[k] = retirements[k]
  <2>1. UNCHANGED retirements \/ \E state : SetRetirement(m, state)
    BY <1>3 DEF RemoveBlob, RemoveBlobFails
  <2> QED
    BY <2>1, RetirementAt DEF IInv
<1>4. ASSUME RemoveBlobFails(k) PROVE retirements'[k] \in {"db_retired", "blob_blocked"}
  <2>1. UNCHANGED retirements \/ SetRetirement(k, "blob_blocked")
    BY <1>4 DEF RemoveBlobFails
  <2> QED
    BY <2>1, RetirementAt DEF IInv
<1>5. Stop \/ Start \/ StartDies => UNCHANGED retirements
  BY DEF Stop, Start, StartDies
<1>6. \A r \in Reports :
        \/ CreateWriteIntent(r) \/ Publish(r) \/ RollBack(r) \/ Reuse(r) \/ Age(r)
        \/ TrashReport(r) \/ Restore(r) \/ ThirtyDays(r)
        => UNCHANGED retirements
  BY DEF CreateWriteIntent, Publish, RollBack, Reuse, Age, TrashReport, Restore, ThirtyDays
<1>7. (\E c \in Contents : LetGo(c)) \/ UNCHANGED vars => UNCHANGED retirements
  BY DEF LetGo, vars
<1> QED
  BY <1>1, <1>2, <1>3, <1>4, <1>5, <1>6, <1>7 DEF Next

LEMMA StepNears ==
  ASSUME IInv, [Next]_vars, NEW b \in Blobs
  PROVE  NearsItsEnd(b)
<1> SUFFICES ASSUME Unused(b), Unused(b)'
             PROVE  /\ MetadataOf(b)' \subseteq MetadataOf(b)
                    /\ b \in blobs' => b \in blobs
                    /\ \A k \in Retirements : PdfOf(k[1]) = b =>
                         /\ RetirePreserved(k) => ContentOf[k[1]] \notin MetadataOf(b)'
                         /\ ~Referenced(b) =>
                              /\ RetirePreserved(k) => retirements'[k] = "db_retired"
                              /\ RemoveBlob(k) => b \notin blobs'
                              /\ retirements[k] \in {"db_retired", "blob_blocked"} /\ b \in blobs' =>
                                   retirements'[k] \in {"db_retired", "blob_blocked"}
  BY DEF NearsItsEnd
<1>1. MetadataOf(b)' \subseteq MetadataOf(b) /\ (b \in blobs' => b \in blobs)
  BY UnusedOnlyLoses
<1>2. ASSUME NEW k \in Retirements, PdfOf(k[1]) = b, RetirePreserved(k)
      PROVE  /\ ContentOf[k[1]] \notin MetadataOf(b)'
             /\ ~Referenced(b) => retirements'[k] = "db_retired"
  <2> DEFINE c == ContentOf[k[1]]
  <2>1. BlobOf[c] = b /\ c \notin kept /\ \A r \in deliveries : ContentOf[r] # c
    BY <1>2 DEF Unused, InUse, PdfOf
  <2>2. ~MustRemain(c, {})
    BY <2>1 DEF MustRemain
  <2>3. /\ artifacts' = artifacts \ {c}
        /\ SetRetirement(k, IF Referenced(b)' \/ ActiveWrite(b) THEN "preserved" ELSE "db_retired")
    BY <1>2, <2>1, <2>2 DEF RetirePreserved, DeleteArtifact
  <2>4. ~Referenced(b) => ~Referenced(b)'
    BY <2>3 DEF Referenced
  <2>5. ~Referenced(b) => SetRetirement(k, "db_retired")
    BY <2>3, <2>4 DEF Unused
  <2> QED
    BY <2>3, <2>5, RetirementAt DEF MetadataOf, IInv
<1>3. ASSUME NEW k \in Retirements, PdfOf(k[1]) = b, ~Referenced(b), RemoveBlob(k)
      PROVE  b \notin blobs'
  BY <1>3 DEF RemoveBlob, Unused
<1>4. ASSUME NEW k \in Retirements, PdfOf(k[1]) = b, ~Referenced(b),
             retirements[k] \in {"db_retired", "blob_blocked"}, b \in blobs'
      PROVE  retirements'[k] \in {"db_retired", "blob_blocked"}
  BY <1>3, <1>4, FileRetirementStays
<1> QED
  BY <1>1, <1>2, <1>3, <1>4

(* Why an unused file goes: it is always in the hands of a retirement that  *)
(* the clean-up looks at again, its metadata first, and as long as it stays *)
(* unused nothing undoes what the clean-up did.                             *)
THEOREM ArchiveUnusedFileGoes ==
  Spec => [](\A b \in Blobs : IsHandled(b)) /\ [][\A b \in Blobs : NearsItsEnd(b)]_vars
<1> DEFINE Nears == \A b \in Blobs : NearsItsEnd(b)
<1>1. IInv => \A b \in Blobs : IsHandled(b)
  BY AllHandled
<1>2. IInv /\ [Next]_vars => [Nears]_vars
  BY StepNears
<1>3. Spec => [][Nears]_vars
  <2> HIDE DEF Nears
  <2> QED
    BY <1>2, ArchiveInvariant, PTL DEF Spec
<1>4. Spec => [](\A b \in Blobs : IsHandled(b))
  BY <1>1, ArchiveInvariant, PTL
<1> QED
  BY <1>3, <1>4 DEF Nears
=============================================================================
