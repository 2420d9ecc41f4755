------------------------------- MODULE MCBTree -------------------------------
(***************************************************************************)
(* Values for the constants of BTree.                                      *)
(***************************************************************************)
EXTENDS BTree

\* Enough keys, down and up, for nodes under nodes, and every second one, so that
\* later ones come between; and none at all.
MCLoads == {<<>>, <<1, 2, 4, 5, 6>>, <<9, 8, 7, 6, 4, 3, 2, 1>>, <<1, 3, 7, 9, 2, 4, 6, 8>>}

\* What a call answers is only written, and is checked at each step, so states
\* that differ in nothing else are taken for one.
WithoutAnswers == <<dimension, streams, root, pc, load>>
=============================================================================
