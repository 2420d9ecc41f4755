----------------------------- MODULE BTreeNode ------------------------------
(***************************************************************************)
(* What fs_btree.h does inside one node.  The arrays node_ptr and          *)
(* begin_ptr are one sequence of entries [ptr, begin], as their elements   *)
(* move together; num is its length, and d stands for dimension.  Places   *)
(* (pos) are counted from 0 as in the code.                                *)
(***************************************************************************)
EXTENDS Integers, Sequences

halfdim(d) == (d + 1) \div 2

\* A slip in lines 178-183: the first entry is taken to be in order.
LocateFirstInOrder(le) ==
  IF Len(le) = 2 THEN IF le[2] THEN 1 ELSE 0
  ELSE LET Bisect[range \in (0 .. Len(le) - 1) \X (-1 .. Len(le) - 1)] ==
             LET left == range[1]
                 right == range[2]
                 center == (left + right) \div 2
             IN  IF left >= right THEN left
                 ELSE IF ~le[center + 1] THEN Bisect[<<left, center - 1>>]
                 ELSE IF le[center + 2] THEN Bisect[<<center + 1, right>>]
                 ELSE center
       IN  Bisect[<<0, Len(le) - 1>>]

\* fs_btree_getlocate: the entry to go down, from the comparisons le[i] of the
\* entries' begins with the key.  The begin of the first may be out of order.
Locate(le) ==
  IF Len(le) = 2 THEN IF le[2] THEN 1 ELSE 0
  ELSE LET Bisect[range \in (0 .. Len(le) - 1) \X (-1 .. Len(le) - 1)] ==
             LET left == range[1]
                 right == range[2]
                 center == (left + right) \div 2
             IN  IF left >= right THEN IF left = 0 /\ ~le[1] /\ le[2] THEN 1 ELSE left
                 ELSE IF ~le[center + 1] THEN Bisect[<<left, center - 1>>]
                 ELSE IF le[center + 2] THEN Bisect[<<center + 1, right>>]
                 ELSE center
       IN  Bisect[<<0, Len(le) - 1>>]

\* A new entry behind the one at pos, of a node with room.
InsertEntry(e, pos, x) == SubSeq(e, 1, pos + 1) \o <<x>> \o SubSeq(e, pos + 2, Len(e))

\* The entry at pos is taken out.
RemoveEntry(e, pos) == SubSeq(e, 1, pos) \o SubSeq(e, pos + 2, Len(e))

\* A slip in lines 303-306: the entries behind the new one stay where they are.
SplitOverwrites(e, pos, x, d) ==
  LET h == halfdim(d)
  IN  IF pos < h - 1
      THEN [left  |-> [SubSeq(e, 1, h) EXCEPT ![pos + 2] = x],
            right |-> SubSeq(e, h, d)]
      ELSE [left  |-> SubSeq(e, 1, h),
            right |-> SubSeq(e, h + 1, pos + 1) \o <<x>> \o SubSeq(e, pos + 2, d)]

\* A full node takes a new entry behind the one at pos and becomes two.
Split(e, pos, x, d) ==
  LET h == halfdim(d)
  IN  IF pos < h - 1
      THEN [left  |-> SubSeq(e, 1, pos + 1) \o <<x>> \o SubSeq(e, pos + 2, h - 1),
            right |-> SubSeq(e, h, d)]
      ELSE [left  |-> SubSeq(e, 1, h),
            right |-> SubSeq(e, h + 1, pos + 1) \o <<x>> \o SubSeq(e, pos + 2, d)]

\* A slip in line 381: b keeps the begin of its first entry, which may be stale.
MergeStale(a, b, begin, d) ==
  LET n == (Len(a) + Len(b)) \div 2
  IN  IF Len(a) + Len(b) <= d
      THEN [connected |-> TRUE, left |-> a \o b, right |-> <<>>]
      ELSE [connected |-> FALSE, left |-> SubSeq(a \o b, 1, n),
            right |-> SubSeq(a \o b, n + 1, Len(a \o b))]

\* What the parent says of b is the begin of its first entry.
Begun(b, begin) == [b EXCEPT ![1] = [ptr |-> b[1].ptr, begin |-> begin]]

\* fs_btree_merge of the entries of two neighbours: one node when they fit in it,
\* or else two that share them.
Merge(a, b, begin, d) ==
  LET b1 == Begun(b, begin)
      n  == (Len(a) + Len(b)) \div 2
  IN  IF Len(a) + Len(b) <= d
      THEN [connected |-> TRUE, left |-> a \o b1, right |-> <<>>]
      ELSE IF n < Len(a)
      THEN [connected |-> FALSE, left |-> SubSeq(a, 1, n),
            right |-> SubSeq(a, n + 1, Len(a)) \o b1]
      ELSE [connected |-> FALSE, left |-> a \o SubSeq(b1, 1, n - Len(a)),
            right |-> SubSeq(b1, n - Len(a) + 1, Len(b))]
=============================================================================
