------------------------------ MODULE MCSha256 -------------------------------
(***************************************************************************)
(* Values for the constants of Sha256: the blocks of the code, and pieces  *)
(* around the boundaries of a block and of the room for the padding.       *)
(***************************************************************************)
EXTENDS Sha256

\* A hash of three bytes, the second of one hexadecimal digit.
MCDigests == {<<175, 10, 250>>}
=============================================================================
