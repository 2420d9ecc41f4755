------------------------------- MODULE MCDisk -------------------------------
(***************************************************************************)
(* Values for the constants of FSDisk: a few files of one or two sectors,  *)
(* sectors that hold 0 or 1.                                               *)
(***************************************************************************)
EXTENDS FSDisk

\* With files of two sectors: across the end of the second file, which needs two more files
\* at once when it comes first, and to a second meta file.
MCRequests == {[begin |-> 3, num |-> 2], [begin |-> -2, num |-> 1]}

\* With files of one sector: sectors of both kinds.
MCFaulty == {[begin |-> 0, num |-> 2], [begin |-> -1, num |-> 1]}

\* With files of one sector: growth file by file.
MCSteps == {[begin |-> 1, num |-> 1], [begin |-> 2, num |-> 1]}
=============================================================================
