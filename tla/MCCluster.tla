----------------------------- MODULE MCCluster ------------------------------
(***************************************************************************)
(* Values for the constants of FSCluster: clusters of 2 sectors, a byte of *)
(* 2 bits, a sector of 2 bytes, files of 4 sectors.  Cluster 0 begins at   *)
(* sector 5, inside a byte, as the offsets of the test do (main.c:361).    *)
(***************************************************************************)
EXTENDS FSCluster

MCGarbage(window) == {{s \in window : (s % 4) = 1}}
=============================================================================
