----------------------------- MODULE MCFatCache -----------------------------
(* Sectors of 4 bytes: of the FAT12 entries 0 to 7, one even and one odd lie *)
(* across two sectors; FAT16 has two entries to a sector and FAT32 one.      *)
EXTENDS FatCache

MCClusters == 1 .. 7
MCFaults == {"fail", "short"}
=============================================================================
