------------------------------ MODULE MCBitmap ------------------------------
(***************************************************************************)
(* Values for the constants of FSBitmap: a byte of 2 bits, a sector of 2   *)
(* bytes, files of 3 sectors (so 12 sectors of the volume per meta file).  *)
(***************************************************************************)
EXTENDS FSBitmap

\* An unwritten buffer: what malloc returns is left over from earlier use.
MCGarbage(window) == {{s \in window : (s % 4) = 1}}

\* Ranges that reach the end of their first byte: in the reserved area; with a
\* buffer inside the first file; with one that runs over the end of that file;
\* and, of two sectors off byte boundaries, past that file.
MCToByteEnds == {[begin |-> 0, num |-> 2], [begin |-> 7, num |-> 1],
                 [begin |-> 9, num |-> 1], [begin |-> 13, num |-> 2]}

\* A search that starts in the reserved area, and whose candidates cross files.
MCSearches == {[num |-> 6, offset |-> 0]}

\* Ranges of single sectors, as the test of the bitmap passes (main.c:170-197).
MCSectors == {[begin |-> 4, num |-> 2], [begin |-> 4, num |-> 1]}
=============================================================================
