------------------------------ MODULE MCStream -------------------------------
(***************************************************************************)
(* Values for the constants of DataStream: cells of 4 bytes, a table that  *)
(* grows by 2 pointers.                                                    *)
(***************************************************************************)
EXTENDS DataStream

\* No first array, as the data stream asks; a first array of more cells than the
\* later ones, one of fewer, of sizes that are rounded up; and one too small for a cell.
MCOpens == {[first |-> 0, realloc |-> 4], [first |-> 6, realloc |-> 4],
            [first |-> 5, realloc |-> 12], [first |-> 2, realloc |-> 4]}
=============================================================================
