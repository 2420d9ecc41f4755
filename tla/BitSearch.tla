------------------------------ MODULE BitSearch ------------------------------
(***************************************************************************)
(* fs_endian.h: the highest and the lowest bit of a word of 32 bits, by    *)
(* spreading the bits to one side and counting them.  A word is the set of *)
(* the positions of its bits; 0 has both at 0.                             *)
(***************************************************************************)
EXTENDS Integers

WordBits == 32
\* The bits of a number of an index_t, which is never negative here.
Bits(val) == {k \in 0 .. WordBits - 2 : ((val \div 2^k) % 2) = 1}

\* w | w << n, and w | w >> -n.
Smeared(w, n) == w \cup {k \in 0 .. WordBits - 1 : k - n \in w}

\* Up for side 1, down for -1.
Spread(w, side) ==
  Smeared(Smeared(Smeared(Smeared(Smeared(w, side), 2 * side), 4 * side), 8 * side), 16 * side)

\* The fields of a word, added in pairs: fields that are n are left.
Paired(field, n) == [i \in 0 .. n - 1 |-> field[2 * i] + field[2 * i + 1]]
Ones(w) == [i \in 0 .. WordBits - 1 |-> IF i \in w THEN 1 ELSE 0]
getnumbits(w) == Paired(Paired(Paired(Paired(Paired(Ones(w), 16), 8), 4), 2), 1)[0]

fs_getLsb32(val) ==
  IF val = 0 THEN 0 ELSE WordBits - getnumbits(Spread(Bits(val), 1))
fs_getMsb32(val) ==
  IF val = 0 THEN 0 ELSE getnumbits(Spread(Bits(val), -1)) - 1
=============================================================================
