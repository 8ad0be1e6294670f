-------------------------- MODULE MCReportArchive --------------------------
EXTENDS ReportArchive, TLC

CONSTANTS r1, r2, r3, c1, c2, b1

\* Two reports of one content; a third whose other text prints the same PDF.
MCContentOf == r1 :> c1 @@ r2 :> c1 @@ r3 :> c2

MCBlobOf == c1 :> b1 @@ c2 :> b1

\* One of them comes back from the trash and is put there again.
MCCycles == r1 :> 2 @@ r2 :> 1 @@ r3 :> 1
=============================================================================
