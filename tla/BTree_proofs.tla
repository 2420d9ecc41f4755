---------------------------- MODULE BTree_proofs ----------------------------
(***************************************************************************)
(* The B-tree, for every dimension, every set of keys, every number of     *)
(* items and any lack of memory.  First the operators on one node, then    *)
(* trees of a height, then inserts, removes and searches by induction on   *)
(* the height, the inductive invariant TreeInv and what it implies, and at *)
(* last the two specifications that the tree implements.                   *)
(***************************************************************************)
EXTENDS BTree, NatFacts, SequenceTheorems, FiniteSetTheorems


\* Half of a dimension is less than it, and twice it is the dimension, rounded up.
LEMMA HalfIsLess ==
  ASSUME NEW d \in Nat, d >= 3
  PROVE  /\ halfdim(d) \in Nat /\ halfdim(d) >= 2 /\ halfdim(d) < d
         /\ 2 * halfdim(d) \in {d, d + 1}
BY SMT DEF halfdim

\* Sequences of one length with the same elements are the same.
LEMMA SameElements ==
  ASSUME NEW S, NEW s \in Seq(S), NEW t \in Seq(S), Len(s) = Len(t),
         \A i \in 1 .. Len(s) : s[i] = t[i]
  PROVE  s = t
OBVIOUS

\* A part of a sequence: where it is, it has the elements of the sequence.
LEMMA Part ==
  ASSUME NEW S, NEW s \in Seq(S), NEW m \in Nat \ {0}, NEW n \in 0 .. Len(s), m <= n + 1
  PROVE  /\ SubSeq(s, m, n) \in Seq(S)
         /\ Len(SubSeq(s, m, n)) = n + 1 - m
         /\ \A i \in 1 .. n + 1 - m : SubSeq(s, m, n)[i] = s[m + i - 1]
OBVIOUS

\* One sequence behind another.
LEMMA Joined ==
  ASSUME NEW S, NEW a \in Seq(S), NEW b \in Seq(S)
  PROVE  /\ a \o b \in Seq(S)
         /\ Len(a \o b) = Len(a) + Len(b)
         /\ \A i \in 1 .. Len(a) : (a \o b)[i] = a[i]
         /\ \A i \in 1 .. Len(b) : (a \o b)[Len(a) + i] = b[i]
OBVIOUS

\* Two parts that meet make the sequence.
LEMMA PartsMeet ==
  ASSUME NEW S, NEW s \in Seq(S), NEW n \in 0 .. Len(s)
  PROVE  SubSeq(s, 1, n) \o SubSeq(s, n + 1, Len(s)) = s
<1> DEFINE a == SubSeq(s, 1, n)
           b == SubSeq(s, n + 1, Len(s))
<1>1. a \in Seq(S) /\ Len(a) = n /\ \A i \in 1 .. n : a[i] = s[i]
  BY Part
<1>2. b \in Seq(S) /\ Len(b) = Len(s) - n /\ \A i \in 1 .. Len(s) - n : b[i] = s[n + i]
  BY Part, n + 1 \in Nat \ {0}, Len(s) \in 0 .. Len(s)
<1> HIDE DEF a, b
<1> DEFINE c == a \o b
<1>3. /\ c \in Seq(S) /\ Len(c) = Len(s)
      /\ \A i \in 1 .. n : c[i] = a[i]
      /\ \A i \in 1 .. Len(s) - n : c[n + i] = b[i]
  BY <1>1, <1>2, Joined
<1> HIDE DEF c
<1>4. ASSUME NEW i \in 1 .. Len(c)
      PROVE  c[i] = s[i]
  <2>1. CASE i <= n
    BY <2>1, <1>1, <1>3
  <2>2. CASE i > n
    <3>1. i - n \in 1 .. Len(s) - n /\ n + (i - n) = i
      BY <2>2, <1>3
    <3> QED BY <3>1, <1>2, <1>3
  <2> QED BY <2>1, <2>2
<1>5. c = s
  BY <1>3, <1>4, SameElements
<1> QED BY <1>5 DEF a, b, c

\* Both parts of a sequence that is cut behind place n.
LEMMA Cut ==
  ASSUME NEW S, NEW s \in Seq(S), NEW n \in 0 .. Len(s)
  PROVE  /\ SubSeq(s, 1, n) \in Seq(S) /\ Len(SubSeq(s, 1, n)) = n
         /\ SubSeq(s, n + 1, Len(s)) \in Seq(S) /\ Len(SubSeq(s, n + 1, Len(s))) = Len(s) - n
         /\ SubSeq(s, 1, n) \o SubSeq(s, n + 1, Len(s)) = s
<1>1. SubSeq(s, 1, n) \in Seq(S) /\ Len(SubSeq(s, 1, n)) = n
  BY Part
<1>2. SubSeq(s, n + 1, Len(s)) \in Seq(S) /\ Len(SubSeq(s, n + 1, Len(s))) = Len(s) - n
  BY Part, n + 1 \in Nat \ {0}, Len(s) \in 0 .. Len(s)
<1> QED BY <1>1, <1>2, PartsMeet

\* What it is to be entry i once x is behind pos.
Entry(e, pos, x, i) == IF i <= pos + 1 THEN e[i] ELSE IF i = pos + 2 THEN x ELSE e[i - 1]

\* The new entry between those from k on and those up to m.
Window(e, pos, x, k, m) == SubSeq(e, k, pos + 1) \o <<x>> \o SubSeq(e, pos + 2, m)

\* What a window of the widened array holds: where it is, its length and its entries.
LEMMA Between ==
  ASSUME NEW S, NEW e \in Seq(S), NEW pos \in 0 .. Len(e) - 1, NEW x \in S,
         NEW k \in 1 .. pos + 2, NEW m \in pos + 1 .. Len(e)
  PROVE  /\ Window(e, pos, x, k, m) \in Seq(S)
         /\ Len(Window(e, pos, x, k, m)) = m + 2 - k
         /\ \A i \in 1 .. m + 2 - k : Window(e, pos, x, k, m)[i] = Entry(e, pos, x, k - 1 + i)
<1> DEFINE a == SubSeq(e, k, pos + 1)
           b == SubSeq(e, pos + 2, m)
           c == a \o <<x>>
           f == c \o b
<1>1. /\ a \in Seq(S) /\ Len(a) = pos + 2 - k
      /\ \A i \in 1 .. pos + 2 - k : a[i] = e[k - 1 + i]
  BY Part, pos + 1 \in 0 .. Len(e), k \in Nat \ {0}
<1>2. /\ b \in Seq(S) /\ Len(b) = m - 1 - pos
      /\ \A i \in 1 .. m - 1 - pos : b[i] = e[pos + 1 + i]
  BY Part, pos + 2 \in Nat \ {0}, m \in 0 .. Len(e)
<1> HIDE DEF a, b
<1>3. /\ c \in Seq(S) /\ Len(c) = pos + 3 - k
      /\ c[pos + 3 - k] = x /\ \A i \in 1 .. pos + 2 - k : c[i] = a[i]
  BY <1>1
<1> HIDE DEF c
<1>4. /\ f \in Seq(S) /\ Len(f) = m + 2 - k
      /\ \A i \in 1 .. pos + 3 - k : f[i] = c[i]
      /\ \A i \in 1 .. m - 1 - pos : f[pos + 3 - k + i] = b[i]
  <2>1. c \in Seq(S) /\ b \in Seq(S)
    BY <1>2, <1>3
  <2>2. /\ f \in Seq(S) /\ Len(f) = Len(c) + Len(b)
        /\ \A i \in 1 .. Len(c) : f[i] = c[i]
        /\ \A i \in 1 .. Len(b) : f[Len(c) + i] = b[i]
    BY <2>1, Joined
  <2> HIDE DEF f
  <2>3. Len(c) + Len(b) = m + 2 - k
    BY <1>2, <1>3
  <2> QED BY <2>2, <2>3, <1>2, <1>3
<1> HIDE DEF f
<1>5. ASSUME NEW i \in 1 .. m + 2 - k
      PROVE  f[i] = Entry(e, pos, x, k - 1 + i)
  <2>1. CASE i <= pos + 2 - k
    <3>1. f[i] = e[k - 1 + i] /\ k - 1 + i <= pos + 1
      BY <2>1, <1>1, <1>3, <1>4
    <3> QED BY <3>1 DEF Entry
  <2>2. CASE i = pos + 3 - k
    <3>1. f[i] = x /\ k - 1 + i = pos + 2
      BY <2>2, <1>3, <1>4
    <3> QED BY <3>1 DEF Entry
  <2>3. CASE i > pos + 3 - k
    <3>1. PICK j \in 1 .. m - 1 - pos : i = pos + 3 - k + j
      <4>1. i - (pos + 3 - k) \in 1 .. m - 1 - pos /\ i = pos + 3 - k + (i - (pos + 3 - k))
        BY <2>3
      <4> QED BY <4>1
    <3>2. f[i] = b[j] /\ b[j] = e[pos + 1 + j] /\ k - 1 + i = pos + 2 + j
      BY <3>1, <1>2, <1>4
    <3> QED BY <3>2 DEF Entry
  <2> QED BY <2>1, <2>2, <2>3
<1>6. Window(e, pos, x, k, m) = f
  BY DEF Window, a, b, c, f
<1> QED BY <1>4, <1>5, <1>6

\* The same for all k and m.
LEMMA BetweenAll ==
  ASSUME NEW S, NEW e \in Seq(S), NEW pos \in 0 .. Len(e) - 1, NEW x \in S
  PROVE  \A k \in 1 .. pos + 2, m \in pos + 1 .. Len(e) :
           /\ Window(e, pos, x, k, m) \in Seq(S)
           /\ Len(Window(e, pos, x, k, m)) = m + 2 - k
           /\ \A i \in 1 .. m + 2 - k : Window(e, pos, x, k, m)[i] = Entry(e, pos, x, k - 1 + i)
BY Between

\* An entry is inserted: those up to pos stay, those behind it move by one.
LEMMA Inserted ==
  ASSUME NEW S, NEW e \in Seq(S), NEW pos \in 0 .. Len(e) - 1, NEW x \in S
  PROVE  /\ InsertEntry(e, pos, x) \in Seq(S)
         /\ Len(InsertEntry(e, pos, x)) = Len(e) + 1
         /\ \A i \in 1 .. Len(e) + 1 : InsertEntry(e, pos, x)[i] = Entry(e, pos, x, i)
<1>1. 1 \in 1 .. pos + 2 /\ Len(e) \in pos + 1 .. Len(e)
  OBVIOUS
<1> DEFINE t == Window(e, pos, x, 1, Len(e))
<1>2. /\ t \in Seq(S) /\ Len(t) = Len(e) + 1
      /\ \A i \in 1 .. Len(e) + 1 : t[i] = Entry(e, pos, x, i)
  <2>1. \A k \in 1 .. pos + 2, m \in pos + 1 .. Len(e) :
          /\ Window(e, pos, x, k, m) \in Seq(S)
          /\ Len(Window(e, pos, x, k, m)) = m + 2 - k
          /\ \A i \in 1 .. m + 2 - k : Window(e, pos, x, k, m)[i] = Entry(e, pos, x, k - 1 + i)
    BY BetweenAll
  <2>2. /\ t \in Seq(S) /\ Len(t) = Len(e) + 2 - 1
        /\ \A i \in 1 .. Len(e) + 2 - 1 : t[i] = Entry(e, pos, x, 1 - 1 + i)
    BY ONLY <1>1, <2>1
  <2> HIDE DEF t
  <2>3. /\ t \in Seq(S) /\ Len(t) = Len(e) + 1
    BY <2>2
  <2>4. \A i \in 1 .. Len(e) + 1 : t[i] = Entry(e, pos, x, i)
    BY <2>2
  <2> QED BY <2>3, <2>4
<1>3. t = InsertEntry(e, pos, x)
  BY DEF InsertEntry, Window
<1> HIDE DEF t
<1> QED BY <1>2, <1>3

-----------------------------------------------------------------------------
\* The two nodes of a split: the first has halfdim entries, and both together are the
\* node with the new entry in its place.
IsSplit(S, s, e, pos, x, d) ==
  /\ s.left \in Seq(S) /\ Len(s.left) = halfdim(d)
  /\ s.right \in Seq(S) /\ Len(s.right) = d + 1 - halfdim(d)
  /\ s.left \o s.right = InsertEntry(e, pos, x)

\* A split of a full node makes such parts, whatever place the new entry has.
LEMMA SplitParts ==
  ASSUME NEW S, NEW d \in Nat, d >= 3, NEW e \in Seq(S), Len(e) = d,
         NEW pos \in 0 .. d - 1, NEW x \in S
  PROVE  IsSplit(S, Split(e, pos, x, d), e, pos, x, d)
<1> DEFINE h == halfdim(d)
           full == InsertEntry(e, pos, x)
           s == Split(e, pos, x, d)
<1>1. h \in Nat /\ h >= 2 /\ h < d
  BY HalfIsLess
<1>2. full \in Seq(S) /\ Len(full) = d + 1 /\ \A i \in 1 .. d + 1 : full[i] = Entry(e, pos, x, i)
  BY Inserted
<1>between. \A k \in 1 .. pos + 2, m \in pos + 1 .. Len(e) :
              /\ Window(e, pos, x, k, m) \in Seq(S)
              /\ Len(Window(e, pos, x, k, m)) = m + 2 - k
              /\ \A i \in 1 .. m + 2 - k : Window(e, pos, x, k, m)[i] = Entry(e, pos, x, k - 1 + i)
  BY BetweenAll
<1> HIDE DEF h, full
<1>3. /\ SubSeq(full, 1, h) \in Seq(S) /\ Len(SubSeq(full, 1, h)) = h
      /\ \A i \in 1 .. h : SubSeq(full, 1, h)[i] = Entry(e, pos, x, i)
  BY <1>1, <1>2, Part, h \in 0 .. Len(full)
<1>4. /\ SubSeq(full, h + 1, d + 1) \in Seq(S) /\ Len(SubSeq(full, h + 1, d + 1)) = d + 1 - h
      /\ \A i \in 1 .. d + 1 - h : SubSeq(full, h + 1, d + 1)[i] = Entry(e, pos, x, h + i)
  <2>1. h + 1 \in Nat \ {0} /\ d + 1 \in 0 .. Len(full) /\ h + 1 <= d + 2
    BY <1>1, <1>2
  <2>2. /\ SubSeq(full, h + 1, d + 1) \in Seq(S) /\ Len(SubSeq(full, h + 1, d + 1)) = d + 2 - (h + 1)
        /\ \A i \in 1 .. d + 2 - (h + 1) : SubSeq(full, h + 1, d + 1)[i] = full[h + 1 + i - 1]
    BY <1>2, <2>1, Part
  <2> QED BY <1>1, <1>2, <2>2
<1>5. s.left = SubSeq(full, 1, h) /\ s.right = SubSeq(full, h + 1, d + 1)
  <2>1. CASE pos < h - 1
    <3> DEFINE l == Window(e, pos, x, 1, h - 1)
    <3>1. s.left = l /\ s.right = SubSeq(e, h, d)
      BY <2>1 DEF Split, h, Window
    <3>2. 1 \in 1 .. pos + 2 /\ h - 1 \in pos + 1 .. Len(e) /\ (h - 1) + 2 - 1 = h
      BY <2>1, <1>1
    <3>3. l \in Seq(S) /\ Len(l) = h /\ \A i \in 1 .. h : l[i] = Entry(e, pos, x, i)
      <4>1. /\ l \in Seq(S) /\ Len(l) = (h - 1) + 2 - 1
            /\ \A i \in 1 .. (h - 1) + 2 - 1 : l[i] = Entry(e, pos, x, 1 - 1 + i)
        BY ONLY <3>2, <1>between
      <4> HIDE DEF l
      <4> QED BY <4>1, <1>1
    <3> HIDE DEF l
    <3>4. l = SubSeq(full, 1, h)
      BY <3>3, <1>3, SameElements
    <3>5. /\ SubSeq(e, h, d) \in Seq(S) /\ Len(SubSeq(e, h, d)) = d + 1 - h
          /\ \A i \in 1 .. d + 1 - h : SubSeq(e, h, d)[i] = e[h + i - 1]
      BY <1>1, Part, h \in Nat \ {0}, d \in 0 .. Len(e)
    <3>6. \A i \in 1 .. d + 1 - h : Entry(e, pos, x, h + i) = e[h + i - 1]
      BY <2>1, <1>1 DEF Entry
    <3> DEFINE r == SubSeq(e, h, d)
               t == SubSeq(full, h + 1, d + 1)
    <3>7. /\ r \in Seq(S) /\ t \in Seq(S) /\ Len(r) = Len(t)
          /\ \A i \in 1 .. Len(r) : r[i] = t[i]
      BY <3>5, <3>6, <1>4
    <3>8. r = t
      <4> HIDE DEF r, t
      <4> QED BY <3>7, SameElements
    <3> QED BY <3>1, <3>4, <3>8
  <2>2. CASE ~(pos < h - 1)
    <3> DEFINE r == Window(e, pos, x, h + 1, d)
    <3>1. s.left = SubSeq(e, 1, h) /\ s.right = r
      BY <2>2 DEF Split, h, Window
    <3>2. h + 1 \in 1 .. pos + 2 /\ d \in pos + 1 .. Len(e) /\ d + 2 - (h + 1) = d + 1 - h
      BY <2>2, <1>1
    <3>3. /\ r \in Seq(S) /\ Len(r) = d + 1 - h
          /\ \A i \in 1 .. d + 1 - h : r[i] = Entry(e, pos, x, h + i)
      <4>1. /\ r \in Seq(S) /\ Len(r) = d + 2 - (h + 1)
            /\ \A i \in 1 .. d + 2 - (h + 1) : r[i] = Entry(e, pos, x, (h + 1) - 1 + i)
        BY ONLY <3>2, <1>between
      <4> HIDE DEF r
      <4>2. \A i \in 1 .. d + 1 - h : (h + 1) - 1 + i = h + i
        BY <1>1
      <4> QED BY <4>1, <4>2, <3>2
    <3> HIDE DEF r
    <3>4. r = SubSeq(full, h + 1, d + 1)
      BY <3>3, <1>4, SameElements
    <3>5. /\ SubSeq(e, 1, h) \in Seq(S) /\ Len(SubSeq(e, 1, h)) = h
          /\ \A i \in 1 .. h : SubSeq(e, 1, h)[i] = e[i]
      BY <1>1, Part, h \in 0 .. Len(e)
    <3>6. \A i \in 1 .. h : Entry(e, pos, x, i) = e[i]
      BY <2>2, <1>1 DEF Entry
    <3>7. SubSeq(e, 1, h) = SubSeq(full, 1, h)
      BY <3>5, <3>6, <1>3, SameElements
    <3> QED BY <3>1, <3>4, <3>7
  <2> QED BY <2>1, <2>2
<1>6. SubSeq(full, 1, h) \o SubSeq(full, h + 1, d + 1) = full
  BY <1>1, <1>2, PartsMeet, h \in 0 .. Len(full)
<1> HIDE DEF s
<1>7. s.left \o s.right = full
  BY <1>5, <1>6
<1> QED
  BY <1>3, <1>4, <1>5, <1>7 DEF s, h, full, IsSplit

\* fs_btree_insert1 splits a full node (lines 310-329) without losing, doubling or
\* moving an entry: the two nodes together are the node with the new entry in its
\* place, the first of halfdim entries, the second of the others.
THEOREM SplitKeepsEntries ==
  ASSUME NEW S, NEW d \in Nat, d >= 3, NEW e \in Seq(S), Len(e) = d,
         NEW pos \in 0 .. d - 1, NEW x \in S
  PROVE  LET s == Split(e, pos, x, d)
         IN  /\ s.left \in Seq(S) /\ Len(s.left) = halfdim(d)
             /\ s.right \in Seq(S) /\ Len(s.right) = d + 1 - halfdim(d)
             /\ s.left \o s.right = InsertEntry(e, pos, x)
<1>1. IsSplit(S, Split(e, pos, x, d), e, pos, x, d)
  BY SplitParts, Zenon
<1> QED
  BY <1>1, Zenon DEF IsSplit

\* The begin of a first entry may be changed.
LEMMA BegunEntries ==
  ASSUME NEW E, NEW begin, \A x \in E : [ptr |-> x.ptr, begin |-> begin] \in E,
         NEW b \in Seq(E), b # <<>>
  PROVE  Begun(b, begin) \in Seq(E) /\ Len(Begun(b, begin)) = Len(b)
<1> DEFINE first == [ptr |-> b[1].ptr, begin |-> begin]
<1>1. first \in E
  <2>1. b[1] \in E
    OBVIOUS
  <2> QED BY <2>1
<1>2. Begun(b, begin) = [b EXCEPT ![1] = first]
  BY DEF Begun
<1> HIDE DEF first
<1>3. [b EXCEPT ![1] = first] \in Seq(E) /\ Len([b EXCEPT ![1] = first]) = Len(b)
  BY <1>1
<1> QED BY <1>2, <1>3

\* What a and b hold together, cut inside a, and inside b.
LEMMA CutLeft ==
  ASSUME NEW E, NEW a \in Seq(E), NEW b \in Seq(E), NEW n \in 0 .. Len(a)
  PROVE  /\ SubSeq(a, 1, n) \o (SubSeq(a, n + 1, Len(a)) \o b) = a \o b
         /\ Len(SubSeq(a, 1, n)) = n
         /\ Len(SubSeq(a, n + 1, Len(a)) \o b) = Len(a) + Len(b) - n
<1> DEFINE l == SubSeq(a, 1, n)
           r == SubSeq(a, n + 1, Len(a))
<1>1. l \in Seq(E) /\ Len(l) = n /\ r \in Seq(E) /\ Len(r) = Len(a) - n /\ l \o r = a
  BY Cut
<1> HIDE DEF l, r
<1>2. (l \o r) \o b = l \o (r \o b)
  <2>1. l \in Seq(E) /\ r \in Seq(E) /\ b \in Seq(E)
    BY <1>1
  <2> QED BY ONLY <2>1, ConcatAssociative
<1>3. Len(r \o b) = Len(r) + Len(b)
  BY <1>1, Joined
<1>4. Len(r \o b) = Len(a) + Len(b) - n
  BY <1>1, <1>3
<1> QED BY <1>1, <1>2, <1>4 DEF l, r

\* The first entries of the right node may go behind those of the left one.
LEMMA CutRight ==
  ASSUME NEW E, NEW a \in Seq(E), NEW b \in Seq(E), NEW i \in 0 .. Len(b)
  PROVE  /\ (a \o SubSeq(b, 1, i)) \o SubSeq(b, i + 1, Len(b)) = a \o b
         /\ Len(a \o SubSeq(b, 1, i)) = Len(a) + i
         /\ Len(SubSeq(b, i + 1, Len(b))) = Len(b) - i
<1> DEFINE l == SubSeq(b, 1, i)
           r == SubSeq(b, i + 1, Len(b))
<1>1. l \in Seq(E) /\ Len(l) = i /\ r \in Seq(E) /\ Len(r) = Len(b) - i /\ l \o r = b
  BY Cut
<1> HIDE DEF l, r
<1>2. (a \o l) \o r = a \o (l \o r)
  <2>1. a \in Seq(E) /\ l \in Seq(E) /\ r \in Seq(E)
    BY <1>1
  <2> QED BY ONLY <2>1, ConcatAssociative
<1>3. Len(a \o l) = Len(a) + Len(l)
  BY <1>1, Joined
<1> QED BY <1>1, <1>2, <1>3 DEF l, r

\* One node of all the entries, or two that share them.
IsMerge(E, m, a, b, begin, d) ==
  LET all == a \o Begun(b, begin)
  IN  /\ m.connected \in BOOLEAN /\ all \in Seq(E)
      /\ m.connected => m.left = all /\ Len(m.left) = Len(a) + Len(b) /\ Len(m.left) <= d
      /\ ~m.connected => /\ m.left \in Seq(E) /\ m.right \in Seq(E) /\ m.left \o m.right = all
                         /\ Len(m.left) \in halfdim(d) .. d
                         /\ Len(m.right) \in halfdim(d) .. d

\* A merge of two neighbours makes such a node or two.
LEMMA MergeParts ==
  ASSUME NEW E, NEW begin, \A x \in E : [ptr |-> x.ptr, begin |-> begin] \in E,
         NEW d \in Nat, d >= 3,
         NEW a \in Seq(E), Len(a) <= d, NEW b \in Seq(E), Len(b) <= d, b # <<>>
  PROVE  IsMerge(E, Merge(a, b, begin, d), a, b, begin, d)
<1> DEFINE b1 == Begun(b, begin)
           n == (Len(a) + Len(b)) \div 2
           m == Merge(a, b, begin, d)
<1>1. b1 \in Seq(E) /\ Len(b1) = Len(b)
  BY BegunEntries
<1>2. Len(a) \in Nat /\ Len(b) \in Nat
  OBVIOUS
<1>5. Len(a) + Len(b) \in Nat /\ a \o b1 \in Seq(E)
  BY <1>1, <1>2
<1>3. CASE Len(a) + Len(b) <= d
  <2>1. m.connected = TRUE /\ m.left = a \o b1
    BY <1>3, Zenon DEF Merge
  <2> HIDE DEF b1, m
  <2>2. Len(a \o b1) = Len(a) + Len(b1)
    BY <1>1, Joined
  <2> QED BY <2>1, <2>2, <1>1, <1>3, <1>5 DEF b1, m, IsMerge
<1>4. CASE ~(Len(a) + Len(b) <= d)
  <2>1. n \in halfdim(d) .. d /\ Len(a) + Len(b) - n \in halfdim(d) .. d
    BY <1>2, <1>4, SMT DEF halfdim
  <2>2. halfdim(d) \in Nat /\ n \in Nat
    BY <2>1, HalfIsLess
  <2>3. CASE n < Len(a)
    <3> DEFINE l == SubSeq(a, 1, n)
               r == SubSeq(a, n + 1, Len(a)) \o b1
    <3>1. m.connected = FALSE /\ m.left = l /\ m.right = r
      BY <1>4, <2>3, Zenon DEF Merge
    <3>2. n \in 0 .. Len(a)
      BY <1>2, <2>2, <2>3
    <3> HIDE DEF n, b1
    <3>5. l \in Seq(E) /\ r \in Seq(E)
      <4>1. a \in Seq(E) /\ b1 \in Seq(E)
        BY <1>1
      <4>2. l \in Seq(E) /\ SubSeq(a, n + 1, Len(a)) \in Seq(E)
        BY ONLY <3>2, <4>1, Cut DEF l
      <4> QED BY ONLY <4>1, <4>2, Joined DEF r
    <3>3. l \o r = a \o b1 /\ Len(l) = n /\ Len(r) = Len(a) + Len(b1) - n
      <4>1. a \in Seq(E) /\ b1 \in Seq(E)
        BY <1>1
      <4>2. l \o r = a \o b1
        BY ONLY <3>2, <4>1, CutLeft
      <4>3. Len(l) = n
        BY ONLY <3>2, <4>1, CutLeft
      <4>4. Len(r) = Len(a) + Len(b1) - n
        BY ONLY <3>2, <4>1, CutLeft
      <4> QED BY <4>2, <4>3, <4>4
    <3> HIDE DEF l, r, m
    <3> QED BY <1>1, <1>5, <2>1, <3>1, <3>3, <3>5 DEF m, b1, IsMerge
  <2>4. CASE ~(n < Len(a))
    <3> DEFINE i == n - Len(a)
               l == a \o SubSeq(b1, 1, i)
               r == SubSeq(b1, i + 1, Len(b1))
    <3>1. m.connected = FALSE /\ m.left = l /\ m.right = r
      BY <1>1, <1>4, <2>4, Zenon DEF Merge
    <3>2. i \in 0 .. Len(b1) /\ n = Len(a) + i
      BY <1>1, <1>2, <2>1, <2>2, <2>4
    <3> HIDE DEF n, i, b1
    <3>5. l \in Seq(E) /\ r \in Seq(E)
      <4>1. a \in Seq(E) /\ b1 \in Seq(E)
        BY <1>1
      <4>2. SubSeq(b1, 1, i) \in Seq(E) /\ r \in Seq(E)
        BY ONLY <3>2, <4>1, Cut DEF r
      <4> QED BY ONLY <4>1, <4>2, Joined DEF l
    <3>3. l \o r = a \o b1 /\ Len(l) = Len(a) + i /\ Len(r) = Len(b1) - i
      BY <1>1, <3>2, CutRight
    <3> HIDE DEF l, r, m
    <3>4. Len(r) = Len(a) + Len(b) - n
      BY <1>1, <1>2, <3>2, <3>3
    <3> QED BY <1>1, <1>5, <2>1, <3>1, <3>2, <3>3, <3>4, <3>5 DEF m, b1, IsMerge
  <2> QED BY <2>3, <2>4
<1> QED BY <1>3, <1>4

\* fs_btree_merge (lines 378-420) of two neighbours, neither over full: all their
\* entries stay, in order, in one node that is not over full either, or else in two
\* that are both half full at least.  E are the entries that there may be.
THEOREM MergeKeepsEntries ==
  ASSUME NEW E, NEW begin, \A x \in E : [ptr |-> x.ptr, begin |-> begin] \in E,
         NEW d \in Nat, d >= 3,
         NEW a \in Seq(E), Len(a) <= d, NEW b \in Seq(E), Len(b) <= d, b # <<>>
  PROVE  LET m == Merge(a, b, begin, d)
             all == a \o Begun(b, begin)
         IN  /\ m.connected => m.left = all /\ Len(m.left) <= d
             /\ ~m.connected => /\ m.left \o m.right = all
                                /\ Len(m.left) \in halfdim(d) .. d
                                /\ Len(m.right) \in halfdim(d) .. d
<1>1. IsMerge(E, Merge(a, b, begin, d), a, b, begin, d)
  BY MergeParts, Zenon
<1> QED
  BY <1>1, Zenon DEF IsMerge
-----------------------------------------------------------------------------
\* One turn of the loop of fs_btree_getlocate, with f for the turns that follow.
Turn(f, le, range) ==
  LET left == range[1]
      right == range[2]
      center == (left + right) \div 2
  IN  IF left >= right THEN IF left = 0 /\ ~le[1] /\ le[2] THEN 1 ELSE left
      ELSE IF ~le[center + 1] THEN f[<<left, center - 1>>]
      ELSE IF le[center + 2] THEN f[<<center + 1, right>>]
      ELSE center

\* The ranges of places that the bisection of n entries comes to, and what is left to look at.
Ranges(n) == (0 .. n - 1) \X (-1 .. n - 1)

\* How far the ends of a range are apart.
Width(range) == range[2] - range[1]

\* The ends of a range, and its width, are numbers of their bounds.
LEMMA RangeParts ==
  ASSUME NEW n \in Nat, NEW w \in Ranges(n)
  PROVE  w[1] \in 0 .. n - 1 /\ w[2] \in -1 .. n - 1 /\ Width(w) \in Int /\ Width(w) <= n
BY DEF Ranges, Width

\* What a turn takes from the next is of a smaller range.
LEMMA TurnNeeds ==
  ASSUME NEW n \in Nat, NEW w \in Ranges(n), NEW le, NEW f, NEW g,
         \A v \in Ranges(n) : Width(v) < Width(w) => f[v] = g[v]
  PROVE  Turn(f, le, w) = Turn(g, le, w)
<1> DEFINE left == w[1]
           right == w[2]
           center == (left + right) \div 2
<1>1. left \in 0 .. n - 1 /\ right \in -1 .. n - 1
  BY RangeParts
<1>2. CASE left >= right
  BY <1>2 DEF Turn
<1>3. CASE left < right
  <2> HIDE DEF left, right
  <2>1. center \in 0 .. n - 1 /\ left <= center /\ center < right
    BY <1>1, <1>3
  <2> HIDE DEF center
  <2>2. /\ <<left, center - 1>> \in Ranges(n) /\ Width(<<left, center - 1>>) = (center - 1) - left
        /\ <<center + 1, right>> \in Ranges(n) /\ Width(<<center + 1, right>>) = right - (center + 1)
    BY <1>1, <2>1 DEF Ranges, Width
  <2>3. Width(w) = right - left
    BY DEF Width, left, right
  <2>4. Width(<<left, center - 1>>) < Width(w) /\ Width(<<center + 1, right>>) < Width(w)
    BY <1>1, <2>1, <2>2, <2>3
  <2>5. f[<<left, center - 1>>] = g[<<left, center - 1>>] /\ f[<<center + 1, right>>] = g[<<center + 1, right>>]
    BY ONLY <2>2, <2>4, \A v \in Ranges(n) : Width(v) < Width(w) => f[v] = g[v], Zenon
  <2> QED
    BY ONLY <2>5, Zenon DEF Turn, left, right, center
<1> QED
  BY <1>1, <1>2, <1>3

\* The turns come to an end, so there is the function that Locate speaks of.
LEMMA Turns ==
  ASSUME NEW le, NEW n \in Nat \ {0}
  PROVE  \E f : f = [w \in Ranges(n) |-> Turn(f, le, w)]
<1> DEFINE Ends(j, f) == \A w \in Ranges(n) : Width(w) < j => f[w] = Turn(f, le, w)
           T == {j \in Nat : ~ \E f : Ends(j, f)}
<1>1. ASSUME T # {} PROVE FALSE
  <2>1. PICK j \in T : \A i \in T : j <= i
    <3>1. T \in SUBSET Nat
      OBVIOUS
    <3> QED
      BY ONLY <1>1, <3>1, LeastOf
  <2> \A w \in Ranges(n) : Width(w) \in Int
    BY RangeParts
  <2>2. CASE j = 0
    <3> DEFINE f == [w \in Ranges(n) |-> IF w[1] = 0 /\ ~le[1] /\ le[2] THEN 1 ELSE w[1]]
    <3>1. ASSUME NEW w \in Ranges(n), Width(w) < 0
          PROVE  f[w] = Turn(f, le, w)
      <4>1. w[1] >= w[2]
        BY <3>1, RangeParts DEF Width
      <4>2. f[w] = IF w[1] = 0 /\ ~le[1] /\ le[2] THEN 1 ELSE w[1]
        OBVIOUS
      <4> HIDE DEF f
      <4> QED
        BY ONLY <4>1, <4>2, Zenon DEF Turn
    <3> QED
      BY <2>1, <2>2, <3>1
  <2>3. CASE j # 0
    <3>1. j \in Nat /\ j - 1 \in Nat /\ ~(j <= j - 1)
      BY <2>1, <2>3
    <3>2. PICK f : Ends(j - 1, f)
      BY <2>1, <3>1
    <3> DEFINE g == [w \in Ranges(n) |-> Turn(f, le, w)]
    <3>3. ASSUME NEW w \in Ranges(n), Width(w) < j
          PROVE  g[w] = Turn(g, le, w)
      <4>1. \A v \in Ranges(n) : g[v] = Turn(f, le, v)
        BY Zenon
      <4> HIDE DEF g
      <4>2. \A v \in Ranges(n) : Width(v) < Width(w) => g[v] = f[v]
        <5>1. \A v \in Ranges(n) : Width(v) < Width(w) => Width(v) < j - 1
          BY <3>1, <3>3
        <5> QED
          BY ONLY <3>2, <4>1, <5>1, Zenon
      <4>3. Turn(g, le, w) = Turn(f, le, w)
        BY ONLY <4>2, TurnNeeds, n \in Nat \ {0}
      <4> QED
        BY ONLY <4>1, <4>3, w \in Ranges(n), Zenon
    <3> HIDE DEF g
    <3>4. Ends(j, g)
      BY <3>3, Zenon
    <3> QED
      BY ONLY <2>1, <3>4, Zenon
  <2> QED
    BY <2>2, <2>3
<1>2. PICK f : Ends(n + 1, f)
  BY <1>1
<1>3. \A w \in Ranges(n) : f[w] = Turn(f, le, w)
  <2>1. \A w \in Ranges(n) : Width(w) < n + 1
    BY RangeParts
  <2> QED
    BY ONLY <1>2, <2>1, Zenon
<1> DEFINE g == [w \in Ranges(n) |-> f[w]]
<1>4. \A w \in Ranges(n) : g[w] = f[w]
  BY Zenon
<1> HIDE DEF g
<1>5. ASSUME NEW w \in Ranges(n)
      PROVE  Turn(g, le, w) = f[w]
  <2>1. Turn(g, le, w) = Turn(f, le, w)
    BY ONLY <1>4, TurnNeeds, n \in Nat \ {0}, w \in Ranges(n)
  <2> QED
    BY ONLY <1>3, <2>1, w \in Ranges(n), Zenon
<1>6. g = [w \in Ranges(n) |-> Turn(g, le, w)]
  BY ONLY <1>5, Zenon DEF g
<1> QED
  BY ONLY <1>6, Zenon

\* The bisection keeps the entry it looks for, the last whose begin is not behind the key,
\* within the range from left to right, until center is 0: there the begin of the first entry
\* may send it below the range, and the test behind the loop makes up for that.
LEMMA BisectionFinds ==
  ASSUME NEW le, NEW n \in Nat \ {0, 1}, NEW last \in 0 .. n - 1,
         \A i \in 2 .. n : le[i] <=> i <= last + 1,
         NEW f, \A w \in Ranges(n) : f[w] = Turn(f, le, w)
  PROVE  f[<<0, n - 1>>] = last
<1> DEFINE T == {j \in Nat : \E left \in 0 .. last, right \in last .. n - 1 :
                               right - left = j /\ f[<<left, right>>] # last}
<1>0. \A left \in 0 .. n - 1, right \in -1 .. n - 1 : f[<<left, right>>] = Turn(f, le, <<left, right>>)
  <2>1. \A left \in 0 .. n - 1, right \in -1 .. n - 1 : <<left, right>> \in Ranges(n)
    BY DEF Ranges
  <2> QED
    BY ONLY <2>1, \A w \in Ranges(n) : f[w] = Turn(f, le, w), Zenon
<1>1. ASSUME T # {} PROVE FALSE
  <2>1. PICK j \in T : \A i \in T : j <= i
    <3>1. T \in SUBSET Nat
      OBVIOUS
    <3> QED
      BY ONLY <1>1, <3>1, LeastOf
  <2>2. PICK left \in 0 .. last, right \in last .. n - 1 : right - left = j /\ f[<<left, right>>] # last
    BY <2>1
  <2>3. left \in 0 .. n - 1 /\ right \in -1 .. n - 1 /\ left <= right
    BY <2>2
  <2> DEFINE center == (left + right) \div 2
  <2>4. f[<<left, right>>] =
          IF left >= right THEN IF left = 0 /\ ~le[1] /\ le[2] THEN 1 ELSE left
          ELSE IF ~le[center + 1] THEN f[<<left, center - 1>>]
          ELSE IF le[center + 2] THEN f[<<center + 1, right>>]
          ELSE center
    BY <1>0, <2>3 DEF Turn
  <2>5. CASE left = right
    <3>1. left = last /\ (left = 0 => ~le[2])
      BY <2>2, <2>5
    <3> QED
      BY <2>2, <2>3, <2>4, <2>5, <3>1
  <2>6. ASSUME NEW l \in 0 .. last, NEW r \in last .. n - 1, r - l < j
        PROVE  f[<<l, r>>] = last
    <3>1. r - l \in Nat /\ ~(j <= r - l)
      BY <2>1, <2>6
    <3> QED
      BY <2>1, <3>1
  <2>7. CASE left < right
    <3>1. center \in left .. right - 1 /\ center \in Nat /\ (center = 0 => left = 0 /\ right = 1)
      BY <2>3, <2>7
    <3> HIDE DEF center
    <3>2. center + 2 \in 2 .. n /\ (le[center + 2] <=> center + 1 <= last)
      BY <2>3, <3>1
    <3>3. CASE le[center + 1] /\ ~le[center + 2]
      <4>1. f[<<left, right>>] = center /\ last <= center
        BY <2>3, <2>4, <2>7, <3>1, <3>2, <3>3
      <4>2. center # 0 => center <= last
        BY <2>3, <3>1, <3>3
      <4> QED
        BY <2>2, <3>1, <4>1, <4>2
    <3>4. CASE le[center + 1] /\ le[center + 2]
      <4>1. f[<<left, right>>] = f[<<center + 1, right>>]
        BY <2>3, <2>4, <2>7, <3>4
      <4>2. center + 1 \in 0 .. last /\ right - (center + 1) < j
        BY <2>2, <3>1, <3>2, <3>4
      <4> QED
        BY <2>2, <2>6, <4>1, <4>2
    <3>5. CASE ~le[center + 1]
      <4>1. f[<<left, right>>] = f[<<left, center - 1>>]
        BY <2>3, <2>4, <2>7, <3>5
      <4>2. CASE center # 0
        <5>1. center - 1 \in last .. n - 1 /\ (center - 1) - left < j
          BY <2>2, <2>3, <3>1, <3>5, <4>2
        <5> QED
          BY <2>2, <2>6, <4>1, <5>1
      <4>3. CASE center = 0
        <5>1. left = 0 /\ right = 1 /\ center - 1 = -1 /\ ~le[1] /\ (le[2] <=> last = 1) /\ last \in {0, 1}
          BY <2>2, <3>1, <3>5, <4>3
        <5>2. f[<<0, -1>>] = IF ~le[1] /\ le[2] THEN 1 ELSE 0
          <6>1. 0 \in 0 .. n - 1 /\ -1 \in -1 .. n - 1 /\ 0 >= -1
            OBVIOUS
          <6>2. f[<<0, -1>>] = Turn(f, le, <<0, -1>>)
            BY ONLY <1>0, <6>1, Zenon
          <6>3. <<0, -1>>[1] = 0 /\ <<0, -1>>[2] = -1
            OBVIOUS
          <6> QED
            BY ONLY <6>1, <6>2, <6>3, Zenon DEF Turn
        <5> QED
          BY <2>2, <4>1, <5>1, <5>2
      <4> QED
        BY <4>2, <4>3
    <3> QED
      BY <3>3, <3>4, <3>5
  <2> QED
    BY <2>3, <2>5, <2>7
<1>2. 0 \in 0 .. last /\ n - 1 \in last .. n - 1 /\ (n - 1) - 0 \in Nat
  OBVIOUS
<1> QED
  BY <1>1, <1>2

\* fs_btree.h:157-185: in a node of any size whose begins are in order, but for the first
\* that may be stale, getlocate gives the last entry whose begin is not behind the key, or
\* the first when there is none: what BTree's LocatesLast says of the nodes of a tree.
THEOREM LocateFindsLast ==
  ASSUME NEW le \in Seq(BOOLEAN), Len(le) >= 2,
         \A i, j \in 2 .. Len(le) : i <= j /\ le[j] => le[i]
  PROVE  /\ Locate(le) = Cardinality({i \in 2 .. Len(le) : le[i]})
         /\ Locate(le) \in 0 .. Len(le) - 1
         /\ \A i \in 2 .. Len(le) : le[i] <=> i <= Locate(le) + 1
<1> DEFINE n == Len(le)
           S == {i \in 2 .. n : le[i]}
<1>1. n \in Nat \ {0, 1}
  OBVIOUS
<1>2. \E last \in 0 .. n - 1 : \A i \in 2 .. n : le[i] <=> i <= last + 1
  <2> DEFINE T == {k \in Nat : k <= n - 1 /\ \A i \in 2 .. n : le[i] => i <= k + 1}
  <2>1. n - 1 \in T /\ T \in SUBSET Nat
    BY <1>1
  <2>2. PICK k \in T : \A j \in T : k <= j
    BY ONLY <2>1, LeastOf
  <2>3. k \in 0 .. n - 1
    BY <1>1, <2>2
  <2>4. k = 0 \/ (k + 1 \in 2 .. n /\ le[k + 1])
    <3> SUFFICES ASSUME k # 0, ~le[k + 1]
                 PROVE  FALSE
      BY <1>1, <2>3
    <3>1. k - 1 \in T
      BY <1>1, <2>2, <2>3
    <3>2. ~(k <= k - 1)
      BY <2>3
    <3> QED
      BY ONLY <2>2, <3>1, <3>2, Zenon
  <2>5. ASSUME NEW i \in 2 .. n
        PROVE  le[i] <=> i <= k + 1
    <3>1. le[i] => i <= k + 1
      BY <2>2
    <3>2. i <= k + 1 => k + 1 \in 2 .. n /\ le[k + 1]
      BY <2>3, <2>4
    <3>3. i <= k + 1 => le[i]
      BY <3>2
    <3> QED
      BY <3>1, <3>3
  <2> QED
    BY <2>3, <2>5
<1>3. PICK last \in 0 .. n - 1 : \A i \in 2 .. n : le[i] <=> i <= last + 1
  BY <1>2
<1>4. Cardinality(S) = last
  <2>1. S = 2 .. last + 1
    BY <1>1, <1>3
  <2>2. Cardinality(2 .. last + 1) = IF 2 > last + 1 THEN 0 ELSE (last + 1) - 2 + 1
    BY FS_Interval
  <2>3. last = IF 2 > last + 1 THEN 0 ELSE (last + 1) - 2 + 1
    BY <1>1
  <2> QED
    BY ONLY <2>1, <2>2, <2>3, Zenon
<1>5. Locate(le) = last
  <2>1. CASE n = 2
    <3>1. last \in {0, 1} /\ (le[2] <=> last = 1)
      BY <1>3, <2>1
    <3> QED
      BY <2>1, <3>1 DEF Locate
  <2>2. CASE n # 2
    <3>1. PICK f : f = [w \in Ranges(n) |-> Turn(f, le, w)]
      <4>1. n \in Nat \ {0}
        BY <1>1
      <4> HIDE DEF n
      <4> QED
        BY ONLY <4>1, Turns, Zenon
    <3> DEFINE g == CHOOSE g : g = [w \in Ranges(n) |-> Turn(g, le, w)]
    <3>2. g = [w \in Ranges(n) |-> Turn(g, le, w)]
      BY ONLY <3>1, Zenon
    <3>3. Locate(le) = g[<<0, n - 1>>]
      BY ONLY <2>2, Zenon DEF Locate, Turn, Ranges, n
    <3> HIDE DEF g
    <3>4. \A w \in Ranges(n) : g[w] = Turn(g, le, w)
      BY ONLY <3>2, Zenon
    <3> HIDE DEF n
    <3>5. g[<<0, n - 1>>] = last
      BY ONLY <1>1, <1>3, <3>4, BisectionFinds
    <3> QED
      BY <3>3, <3>5
  <2> QED
    BY <2>1, <2>2
<1> QED
  BY <1>3, <1>4, <1>5
-----------------------------------------------------------------------------
\* A tree below an entry holds keys up to that of the entry's begin, but for the first,
\* and behind that of the next one's: its share of the keys Q that the node may hold.
KeyAt(ks, i) == ks[i + 1]

\* What the entry at place i of a node may hold of the keys Q that the node may hold.
Share(ks, e, i, Q) ==
  {q \in Q : /\ i > 1 => KeyAt(ks, e[i].begin) >= q
             /\ i < Len(e) => q > KeyAt(ks, e[i + 1].begin)}

\* The entries of a node are in order: R says which trees may hold which keys.
Sound(ks, R, e, Q) ==
  /\ e # <<>>
  /\ \A i \in 1 .. Len(e) : e[i].begin < Len(ks)
  /\ \A i, j \in 2 .. Len(e) : i < j => KeyAt(ks, e[i].begin) > KeyAt(ks, e[j].begin)
  /\ \A i \in 1 .. Len(e) : <<e[i].ptr, Share(ks, e, i, Q)>> \in R

\* The trees of a height that are no root, with the keys that they may hold.
FitLeaves(ks) ==
  {x \in Leaves \X SUBSET Nat : x[1].vch_index < Len(ks) /\ KeyAt(ks, x[1].vch_index) \in x[2]}

\* The nodes over such trees: half full at least, and not over full.
FitNodes(ks, d, trees, R) ==
  {x \in NodesOver(trees) \X SUBSET Nat :
     Sound(ks, R, x[1].entries, x[2]) /\ Len(x[1].entries) \in halfdim(d) .. d}

\* The trees of each height that may stand below a node.
Fits(ks, d) ==
  LET F[n \in 0 .. MaxItems] ==
        IF n = 0 THEN FitLeaves(ks) ELSE FitNodes(ks, d, Even[n - 1], F[n - 1])
  IN  F
-----------------------------------------------------------------------------
(* Recursive functions over trees: each is what its definition says.       *)

\* What insert1 returns at a leaf u, what remove1 does, and the children of a node.
Placed(u, a, k, nodes) ==
  [node |-> Place(u, a, k).node, xn |-> Place(u, a, k).xn, nodes |-> nodes]
Answered(u, k) ==
  [node |-> u, retv |-> Rgetdata(key, u.vch_index) = k,
   result |-> IF Rgetdata(key, u.vch_index) = k THEN "removed" ELSE "ok"]
Children(u) == {u.entries[i].ptr : i \in DOMAIN u.entries}

\* The trees of a height, from those of one less.
LEMMA TreesAre ==
  /\ Trees = [n \in 0 .. MaxItems |-> IF n = 0 THEN Leaves ELSE Leaves \cup NodesOver(Trees[n - 1])]
  /\ \A n \in 0 .. MaxItems : Trees[n] = IF n = 0 THEN Leaves ELSE Leaves \cup NodesOver(Trees[n - 1])
<1> DEFINE Good(g, m) == g = [n \in 0 .. m |-> IF n = 0 THEN Leaves ELSE Leaves \cup NodesOver(g[n - 1])]
           T == {m \in 0 .. MaxItems : ~\E g : Good(g, m)}
<1>1. MaxItems \in Nat /\ T \in SUBSET Nat
  BY BTreeAssumption
<1>2. ASSUME T # {} PROVE FALSE
  <2>1. PICK m \in T : \A j \in T : m <= j
    BY ONLY <1>1, <1>2, LeastOf
  <2>2. m \in 0 .. MaxItems /\ ~\E g : Good(g, m)
    BY <2>1
  <2>3. CASE m = 0
    <3> DEFINE g == [n \in 0 .. 0 |-> Leaves]
    <3>1. g = [n \in 0 .. 0 |-> IF n = 0 THEN Leaves ELSE Leaves \cup NodesOver(g[n - 1])]
      OBVIOUS
    <3> QED
      BY <2>2, <2>3, <3>1
  <2>4. CASE m # 0
    <3>1. m - 1 \in 0 .. MaxItems /\ ~(m <= m - 1)
      BY <1>1, <2>2, <2>4
    <3>2. m - 1 \notin T
      BY ONLY <2>1, <3>1, Zenon
    <3>3. PICK f : Good(f, m - 1)
      BY <3>1, <3>2
    <3> DEFINE g == [n \in 0 .. m |-> IF n = m THEN Leaves \cup NodesOver(f[m - 1]) ELSE f[n]]
    <3>4. \A n \in 0 .. m - 1 : g[n] = f[n]
      BY <2>2
    <3>5. \A n \in 0 .. m - 1 : f[n] = IF n = 0 THEN Leaves ELSE Leaves \cup NodesOver(f[n - 1])
      BY <3>3
    <3>6. m \in 0 .. m /\ m - 1 \in 0 .. m - 1 /\ g[m] = Leaves \cup NodesOver(f[m - 1])
      BY <2>2, <2>4
    <3>7. DOMAIN g = 0 .. m
      OBVIOUS
    <3> HIDE DEF g
    <3>8. g[m] = Leaves \cup NodesOver(g[m - 1])
      BY ONLY <3>4, <3>6, Zenon
    <3>9. ASSUME NEW n \in 0 .. m - 1, n # 0
          PROVE  g[n] = Leaves \cup NodesOver(g[n - 1])
      <4>1. n - 1 \in 0 .. m - 1
        BY <2>2, <3>9
      <4>2. g[n - 1] = f[n - 1] /\ g[n] = f[n] /\ f[n] = Leaves \cup NodesOver(f[n - 1])
        BY <3>4, <3>5, <3>9, <4>1
      <4> QED
        BY ONLY <4>2, Zenon
    <3>10. \A n \in 0 .. m : g[n] = IF n = 0 THEN Leaves ELSE Leaves \cup NodesOver(g[n - 1])
      <4>1. 0 \in 0 .. m - 1 /\ g[0] = Leaves
        <5>1. 0 \in 0 .. m - 1
          BY <2>2, <2>4
        <5>2. g[0] = f[0] /\ f[0] = Leaves
          BY <3>4, <3>5, <5>1
        <5> QED
          BY <5>1, <5>2
      <4>2. \A n \in 0 .. m : n = m \/ n = 0 \/ (n \in 0 .. m - 1 /\ n # 0)
        BY <2>2
      <4> QED
        BY ONLY <2>4, <3>8, <3>9, <4>1, <4>2, Zenon
    <3>11. g = [n \in 0 .. m |-> g[n]]
      <4>1. g = [n \in DOMAIN g |-> g[n]]
        BY <3>6 DEF g
      <4> QED
        BY ONLY <3>7, <4>1, Zenon
    <3>12. Good(g, m)
      BY ONLY <3>10, <3>11, Zenon
    <3> QED
      BY <2>2, <3>12
  <2> QED
    BY <2>3, <2>4
<1>3. \E g : Good(g, MaxItems)
  <2>1. MaxItems \in 0 .. MaxItems
    BY <1>1
  <2> QED
    BY ONLY <1>2, <2>1, Zenon
<1>4. Trees = CHOOSE g : Good(g, MaxItems)
  BY DEF Trees
<1>5. Good(Trees, MaxItems)
  BY ONLY <1>3, <1>4, Zenon
<1> HIDE DEF T
<1> QED
  BY <1>5

\* The same for the trees whose leaves are all as deep.
LEMMA EvenAre ==
  /\ Even = [n \in 0 .. MaxItems |-> IF n = 0 THEN Leaves ELSE NodesOver(Even[n - 1])]
  /\ \A n \in 0 .. MaxItems : Even[n] = IF n = 0 THEN Leaves ELSE NodesOver(Even[n - 1])
<1> DEFINE Good(g, m) == g = [n \in 0 .. m |-> IF n = 0 THEN Leaves ELSE NodesOver(g[n - 1])]
           T == {m \in 0 .. MaxItems : ~\E g : Good(g, m)}
<1>1. MaxItems \in Nat /\ T \in SUBSET Nat
  BY BTreeAssumption
<1>2. ASSUME T # {} PROVE FALSE
  <2>1. PICK m \in T : \A j \in T : m <= j
    BY ONLY <1>1, <1>2, LeastOf
  <2>2. m \in 0 .. MaxItems /\ ~\E g : Good(g, m)
    BY <2>1
  <2>3. CASE m = 0
    <3> DEFINE g == [n \in 0 .. 0 |-> Leaves]
    <3>1. g = [n \in 0 .. 0 |-> IF n = 0 THEN Leaves ELSE NodesOver(g[n - 1])]
      OBVIOUS
    <3> QED
      BY <2>2, <2>3, <3>1
  <2>4. CASE m # 0
    <3>1. m - 1 \in 0 .. MaxItems /\ ~(m <= m - 1)
      BY <1>1, <2>2, <2>4
    <3>2. m - 1 \notin T
      BY ONLY <2>1, <3>1, Zenon
    <3>3. PICK f : Good(f, m - 1)
      BY <3>1, <3>2
    <3> DEFINE g == [n \in 0 .. m |-> IF n = m THEN NodesOver(f[m - 1]) ELSE f[n]]
    <3>4. \A n \in 0 .. m - 1 : g[n] = f[n]
      BY <2>2
    <3>5. \A n \in 0 .. m - 1 : f[n] = IF n = 0 THEN Leaves ELSE NodesOver(f[n - 1])
      BY <3>3
    <3>6. m \in 0 .. m /\ m - 1 \in 0 .. m - 1 /\ g[m] = NodesOver(f[m - 1])
      BY <2>2, <2>4
    <3>7. DOMAIN g = 0 .. m
      OBVIOUS
    <3> HIDE DEF g
    <3>8. g[m] = NodesOver(g[m - 1])
      BY ONLY <3>4, <3>6, Zenon
    <3>9. ASSUME NEW n \in 0 .. m - 1, n # 0
          PROVE  g[n] = NodesOver(g[n - 1])
      <4>1. n - 1 \in 0 .. m - 1
        BY <2>2, <3>9
      <4>2. g[n - 1] = f[n - 1] /\ g[n] = f[n] /\ f[n] = NodesOver(f[n - 1])
        BY <3>4, <3>5, <3>9, <4>1
      <4> QED
        BY ONLY <4>2, Zenon
    <3>10. \A n \in 0 .. m : g[n] = IF n = 0 THEN Leaves ELSE NodesOver(g[n - 1])
      <4>1. 0 \in 0 .. m - 1 /\ g[0] = Leaves
        <5>1. 0 \in 0 .. m - 1
          BY <2>2, <2>4
        <5>2. g[0] = f[0] /\ f[0] = Leaves
          BY <3>4, <3>5, <5>1
        <5> QED
          BY <5>1, <5>2
      <4>2. \A n \in 0 .. m : n = m \/ n = 0 \/ (n \in 0 .. m - 1 /\ n # 0)
        BY <2>2
      <4> QED
        BY ONLY <2>4, <3>8, <3>9, <4>1, <4>2, Zenon
    <3>11. g = [n \in 0 .. m |-> g[n]]
      <4>1. g = [n \in DOMAIN g |-> g[n]]
        BY <3>6 DEF g
      <4> QED
        BY ONLY <3>7, <4>1, Zenon
    <3>12. Good(g, m)
      BY ONLY <3>10, <3>11, Zenon
    <3> QED
      BY <2>2, <3>12
  <2> QED
    BY <2>3, <2>4
<1>3. \E g : Good(g, MaxItems)
  <2>1. MaxItems \in 0 .. MaxItems
    BY <1>1
  <2> QED
    BY ONLY <1>2, <2>1, Zenon
<1>4. Even = CHOOSE g : Good(g, MaxItems)
  BY DEF Even
<1>5. Good(Even, MaxItems)
  BY ONLY <1>3, <1>4, Zenon
<1> HIDE DEF T
<1> QED
  BY <1>5

\* The same for the trees in order.
LEMMA FitsAre ==
  ASSUME NEW ks, NEW d
  PROVE
  /\ Fits(ks, d) = [n \in 0 .. MaxItems |->
            IF n = 0 THEN FitLeaves(ks) ELSE FitNodes(ks, d, Even[n - 1], Fits(ks, d)[n - 1])]
  /\ \A n \in 0 .. MaxItems : Fits(ks, d)[n] =
       IF n = 0 THEN FitLeaves(ks) ELSE FitNodes(ks, d, Even[n - 1], Fits(ks, d)[n - 1])
<1> DEFINE Good(g, m) == g = [n \in 0 .. m |->
          IF n = 0 THEN FitLeaves(ks) ELSE FitNodes(ks, d, Even[n - 1], g[n - 1])]
           T == {m \in 0 .. MaxItems : ~\E g : Good(g, m)}
<1>1. MaxItems \in Nat /\ T \in SUBSET Nat
  BY BTreeAssumption
<1>2. ASSUME T # {} PROVE FALSE
  <2>1. PICK m \in T : \A j \in T : m <= j
    BY ONLY <1>1, <1>2, LeastOf
  <2>2. m \in 0 .. MaxItems /\ ~\E g : Good(g, m)
    BY <2>1
  <2>3. CASE m = 0
    <3> DEFINE g == [n \in 0 .. 0 |-> FitLeaves(ks)]
    <3>1. g = [n \in 0 .. 0 |-> IF n = 0 THEN FitLeaves(ks) ELSE FitNodes(ks, d, Even[n - 1], g[n - 1])]
      OBVIOUS
    <3> QED
      BY <2>2, <2>3, <3>1
  <2>4. CASE m # 0
    <3>1. m - 1 \in 0 .. MaxItems /\ ~(m <= m - 1)
      BY <1>1, <2>2, <2>4
    <3>2. m - 1 \notin T
      BY ONLY <2>1, <3>1, Zenon
    <3>3. PICK f : Good(f, m - 1)
      BY <3>1, <3>2
    <3> DEFINE g == [n \in 0 .. m |-> IF n = m THEN FitNodes(ks, d, Even[m - 1], f[m - 1]) ELSE f[n]]
    <3>4. \A n \in 0 .. m - 1 : g[n] = f[n]
      BY <2>2
    <3>5. \A n \in 0 .. m - 1 : f[n] = IF n = 0 THEN FitLeaves(ks) ELSE FitNodes(ks, d, Even[n - 1], f[n - 1])
      BY <3>3
    <3>6. m \in 0 .. m /\ m - 1 \in 0 .. m - 1 /\ g[m] = FitNodes(ks, d, Even[m - 1], f[m - 1])
      BY <2>2, <2>4
    <3>7. DOMAIN g = 0 .. m
      OBVIOUS
    <3> HIDE DEF g
    <3>8. g[m] = FitNodes(ks, d, Even[m - 1], g[m - 1])
      BY ONLY <3>4, <3>6, Zenon
    <3>9. ASSUME NEW n \in 0 .. m - 1, n # 0
          PROVE  g[n] = FitNodes(ks, d, Even[n - 1], g[n - 1])
      <4>1. n - 1 \in 0 .. m - 1
        BY <2>2, <3>9
      <4>2. g[n - 1] = f[n - 1] /\ g[n] = f[n] /\ f[n] = FitNodes(ks, d, Even[n - 1], f[n - 1])
        BY <3>4, <3>5, <3>9, <4>1
      <4> QED
        BY ONLY <4>2, Zenon
    <3>10. \A n \in 0 .. m : g[n] = IF n = 0 THEN FitLeaves(ks) ELSE FitNodes(ks, d, Even[n - 1], g[n - 1])
      <4>1. 0 \in 0 .. m - 1 /\ g[0] = FitLeaves(ks)
        <5>1. 0 \in 0 .. m - 1
          BY <2>2, <2>4
        <5>2. g[0] = f[0] /\ f[0] = FitLeaves(ks)
          BY <3>4, <3>5, <5>1
        <5> QED
          BY <5>1, <5>2
      <4>2. \A n \in 0 .. m : n = m \/ n = 0 \/ (n \in 0 .. m - 1 /\ n # 0)
        BY <2>2
      <4> QED
        BY ONLY <2>4, <3>8, <3>9, <4>1, <4>2, Zenon
    <3>11. g = [n \in 0 .. m |-> g[n]]
      <4>1. g = [n \in DOMAIN g |-> g[n]]
        BY <3>6 DEF g
      <4> QED
        BY ONLY <3>7, <4>1, Zenon
    <3>12. Good(g, m)
      BY ONLY <3>10, <3>11, Zenon
    <3> QED
      BY <2>2, <3>12
  <2> QED
    BY <2>3, <2>4
<1>3. \E g : Good(g, MaxItems)
  <2>1. MaxItems \in 0 .. MaxItems
    BY <1>1
  <2> QED
    BY ONLY <1>2, <2>1, Zenon
<1>4. Fits(ks, d) = CHOOSE g : Good(g, MaxItems)
  BY DEF Fits
<1>5. Good(Fits(ks, d), MaxItems)
  BY ONLY <1>3, <1>4, Zenon
<1> HIDE DEF T
<1> QED
  BY <1>5

\* What a leaf and a node are.
LEMMA LeafIs ==
  /\ \A i \in Nat : Leaf(i) \in Leaves /\ Leaf(i).vch_index = i
  /\ \A t \in Leaves : t = Leaf(t.vch_index) /\ t.vch_index \in Nat /\ IsLeaf(t) /\ ~IsNode(t)
BY DEF Leaves, Leaf, IsLeaf, IsNode

\* A node is what its entries make it, and no leaf.
LEMMA NodeIs ==
  ASSUME NEW S
  PROVE  /\ \A e \in Seq([ptr : S, begin : Nat]) : Len(e) >= 2 => Node(e) \in NodesOver(S)
         /\ \A t \in NodesOver(S) :
              /\ t = Node(t.entries) /\ t.entries \in Seq([ptr : S, begin : Nat])
              /\ Len(t.entries) >= 2
              /\ IsNode(t) /\ ~IsLeaf(t)
<1>1. ASSUME NEW e \in Seq([ptr : S, begin : Nat]), Len(e) >= 2
      PROVE  Node(e) \in NodesOver(S)
  <2> DEFINE A == {s \in Seq([ptr : S, begin : Nat]) : Len(s) >= 2}
  <2>1. e \in A
    BY <1>1
  <2> HIDE DEF A
  <2>2. [type |-> "n_node", entries |-> e] \in [type : {"n_node"}, entries : A]
    BY <2>1
  <2> QED
    BY <2>2 DEF NodesOver, Node, A
<1>2. ASSUME NEW t \in NodesOver(S)
      PROVE  /\ t = Node(t.entries) /\ t.entries \in Seq([ptr : S, begin : Nat])
             /\ Len(t.entries) >= 2
             /\ IsNode(t) /\ ~IsLeaf(t)
  BY DEF NodesOver, Node, IsNode, IsLeaf
<1> QED
  BY <1>1, <1>2

\* The entries of a node that was made are those it was made of.
LEMMA NodeHas ==
  ASSUME NEW e
  PROVE  Node(e).entries = e /\ IsNode(Node(e)) /\ ~IsLeaf(Node(e))
BY DEF Node, IsNode, IsLeaf

\* More trees make more nodes.
LEMMA MoreNodes ==
  ASSUME NEW S, NEW T, S \subseteq T
  PROVE  NodesOver(S) \subseteq NodesOver(T)
<1>1. [ptr : S, begin : Nat] \subseteq [ptr : T, begin : Nat]
  OBVIOUS
<1>2. Seq([ptr : S, begin : Nat]) \subseteq Seq([ptr : T, begin : Nat])
  <2> DEFINE A == [ptr : S, begin : Nat]
             B == [ptr : T, begin : Nat]
  <2>1. A \subseteq B
    BY <1>1
  <2> HIDE DEF A, B
  <2>2. Seq(A) \subseteq Seq(B)
    BY <2>1
  <2> QED
    BY <2>2 DEF A, B
<1> QED
  BY <1>2 DEF NodesOver

\* The trees of a height are among those of the next.
LEMMA TreesGrow ==
  ASSUME NEW m \in 1 .. MaxItems
  PROVE  Trees[m - 1] \subseteq Trees[m]
<1> DEFINE T == {n \in 1 .. MaxItems : ~(Trees[n - 1] \subseteq Trees[n])}
<1>1. MaxItems \in Nat /\ T \in SUBSET Nat
  BY BTreeAssumption
<1>2. ASSUME T # {} PROVE FALSE
  <2>1. PICK n \in T : \A j \in T : n <= j
    BY ONLY <1>1, <1>2, LeastOf
  <2>2. n \in 1 .. MaxItems /\ ~(Trees[n - 1] \subseteq Trees[n])
    BY <2>1
  <2>3. /\ n \in 0 .. MaxItems /\ n # 0 /\ n - 1 \in 0 .. MaxItems /\ ~(n <= n - 1)
        /\ n - 1 # 0 => n - 1 \in 1 .. MaxItems
    BY <1>1, <2>2
  <2>4. Trees[n] = Leaves \cup NodesOver(Trees[n - 1])
    BY ONLY <2>3, TreesAre, Zenon
  <2>5. CASE n - 1 = 0
    <3>1. Trees[n - 1] = Leaves
      BY ONLY <2>3, <2>5, TreesAre, Zenon
    <3> QED
      BY ONLY <2>2, <2>4, <3>1
  <2>6. CASE n - 1 # 0
    <3>1. n - 1 \notin T
      BY ONLY <2>1, <2>3, Zenon
    <3>2. Trees[(n - 1) - 1] \subseteq Trees[n - 1]
      BY ONLY <2>3, <2>6, <3>1, Zenon
    <3>3. Trees[n - 1] = Leaves \cup NodesOver(Trees[(n - 1) - 1])
      BY ONLY <2>3, <2>6, TreesAre, Zenon
    <3>4. NodesOver(Trees[(n - 1) - 1]) \subseteq NodesOver(Trees[n - 1])
      BY ONLY <3>2, MoreNodes
    <3> QED
      BY ONLY <2>2, <2>4, <3>3, <3>4
  <2> QED
    BY <2>5, <2>6
<1> QED
  BY ONLY <1>2, Zenon

\* Those of any height are trees.
LEMMA TreesBelow ==
  ASSUME NEW m \in 0 .. MaxItems
  PROVE  Trees[m] \subseteq Tree
<1> DEFINE T == {n \in Nat : n <= MaxItems /\ ~(Trees[MaxItems - n] \subseteq Tree)}
<1>1. MaxItems \in Nat /\ T \in SUBSET Nat
  BY BTreeAssumption
<1>2. ASSUME T # {} PROVE FALSE
  <2>1. PICK n \in T : \A j \in T : n <= j
    BY ONLY <1>1, <1>2, LeastOf
  <2>2. n \in 0 .. MaxItems /\ ~(Trees[MaxItems - n] \subseteq Tree)
    BY <1>1, <2>1
  <2>3. CASE n = 0
    <3>1. MaxItems - n = MaxItems
      BY <1>1, <2>3
    <3> QED
      BY ONLY <2>2, <3>1 DEF Tree
  <2>4. CASE n # 0
    <3>1. /\ n - 1 \in Nat /\ n - 1 <= MaxItems /\ ~(n <= n - 1) /\ MaxItems - (n - 1) \in 1 .. MaxItems
          /\ (MaxItems - (n - 1)) - 1 = MaxItems - n
      BY <1>1, <2>2, <2>4
    <3>2. n - 1 \notin T
      BY ONLY <2>1, <3>1, Zenon
    <3>3. Trees[MaxItems - (n - 1)] \subseteq Tree
      BY ONLY <3>1, <3>2, Zenon
    <3>4. Trees[(MaxItems - (n - 1)) - 1] \subseteq Trees[MaxItems - (n - 1)]
      BY ONLY <3>1, TreesGrow
    <3>5. Trees[MaxItems - n] \subseteq Trees[MaxItems - (n - 1)]
      BY ONLY <3>1, <3>4, Zenon
    <3> QED
      BY ONLY <2>2, <3>3, <3>5
  <2> QED
    BY <2>3, <2>4
<1>3. MaxItems - m \in Nat /\ MaxItems - m <= MaxItems /\ MaxItems - (MaxItems - m) = m
  BY <1>1
<1>4. MaxItems - m \notin T
  BY ONLY <1>2, Zenon
<1> QED
  BY <1>3, <1>4

\* A tree of height 0 is a leaf; another is a leaf or a node over lower trees.
LEMMA LowTrees == \A t \in Trees[0] : IsLeaf(t) /\ t \in Leaves
<1>1. 0 \in 0 .. MaxItems
  BY BTreeAssumption
<1>2. Trees[0] = Leaves
  BY ONLY <1>1, TreesAre, Zenon
<1> QED
  BY ONLY <1>2, LeafIs, Zenon

\* A tree of some height is a leaf or a node over lower ones.
LEMMA HighTrees ==
  ASSUME NEW m \in 1 .. MaxItems
  PROVE  \A t \in Trees[m] : t \in Leaves \/ t \in NodesOver(Trees[m - 1])
<1>1. m \in 0 .. MaxItems /\ m # 0
  BY BTreeAssumption
<1>2. Trees[m] = Leaves \cup NodesOver(Trees[m - 1])
  BY ONLY <1>1, TreesAre, Zenon
<1> QED
  BY <1>2

\* A tree is a leaf or a node over trees.
LEMMA TreeIs ==
  /\ Leaves \subseteq Tree
  /\ \A t \in Tree : t \in Leaves \/ t \in NodesOver(Tree)
<1>1. MaxItems \in Nat /\ 0 \in 0 .. MaxItems /\ MaxItems \in 0 .. MaxItems
  BY BTreeAssumption
<1>2. Leaves \subseteq Tree
  <2>1. Trees[0] = Leaves
    BY ONLY <1>1, TreesAre, Zenon
  <2>2. Trees[0] \subseteq Tree
    BY ONLY <1>1, TreesBelow
  <2> QED
    BY <2>1, <2>2
<1>3. ASSUME NEW t \in Tree
      PROVE  t \in Leaves \/ t \in NodesOver(Tree)
  <2>1. CASE MaxItems = 0
    BY ONLY <1>3, <2>1, LowTrees, Zenon DEF Tree
  <2>2. CASE MaxItems # 0
    <3>1. MaxItems \in 1 .. MaxItems /\ MaxItems - 1 \in 0 .. MaxItems
      BY <1>1, <2>2
    <3>2. t \in Leaves \/ t \in NodesOver(Trees[MaxItems - 1])
      BY ONLY <1>3, <3>1, HighTrees, Zenon DEF Tree
    <3>3. Trees[MaxItems - 1] \subseteq Tree
      BY ONLY <3>1, TreesBelow
    <3>4. NodesOver(Trees[MaxItems - 1]) \subseteq NodesOver(Tree)
      BY ONLY <3>3, MoreNodes
    <3> QED
      BY ONLY <3>2, <3>4
  <2> QED
    BY <2>1, <2>2
<1> QED
  BY <1>2, <1>3

\* Trees whose leaves are equally deep are trees.
LEMMA EvenTrees ==
  ASSUME NEW m \in 0 .. MaxItems
  PROVE  Even[m] \subseteq Trees[m] /\ Even[m] \subseteq Tree
<1> DEFINE T == {n \in 0 .. MaxItems : ~(Even[n] \subseteq Trees[n])}
<1>1. MaxItems \in Nat /\ T \in SUBSET Nat
  BY BTreeAssumption
<1>2. ASSUME T # {} PROVE FALSE
  <2>1. PICK n \in T : \A j \in T : n <= j
    BY ONLY <1>1, <1>2, LeastOf
  <2>2. n \in 0 .. MaxItems /\ ~(Even[n] \subseteq Trees[n])
    BY <2>1
  <2>3. CASE n = 0
    <3>1. Even[n] = Leaves /\ Trees[n] = Leaves
      BY ONLY <2>2, <2>3, TreesAre, EvenAre, Zenon
    <3> QED
      BY ONLY <2>2, <3>1
  <2>4. CASE n # 0
    <3>1. n - 1 \in 0 .. MaxItems /\ ~(n <= n - 1)
      BY <1>1, <2>2, <2>4
    <3>2. n - 1 \notin T
      BY ONLY <2>1, <3>1, Zenon
    <3>3. Even[n - 1] \subseteq Trees[n - 1]
      BY ONLY <3>1, <3>2, Zenon
    <3>4. Trees[n] = Leaves \cup NodesOver(Trees[n - 1]) /\ Even[n] = NodesOver(Even[n - 1])
      BY ONLY <2>2, <2>4, TreesAre, EvenAre, Zenon
    <3>5. NodesOver(Even[n - 1]) \subseteq NodesOver(Trees[n - 1])
      BY ONLY <3>3, MoreNodes
    <3> QED
      BY ONLY <2>2, <3>4, <3>5
  <2> QED
    BY <2>3, <2>4
<1>3. Even[m] \subseteq Trees[m]
  BY ONLY <1>2, Zenon
<1>4. Trees[m] \subseteq Tree
  BY TreesBelow
<1> QED
  BY ONLY <1>3, <1>4

\* What the entries of a node are.
LEMMA EntriesHave ==
  ASSUME NEW S, NEW e \in Seq([ptr : S, begin : Nat])
  PROVE  /\ Len(e) \in Nat /\ DOMAIN e = 1 .. Len(e) /\ (e # <<>> => 1 \in 1 .. Len(e))
         /\ \A i \in 1 .. Len(e) :
              /\ e[i] \in [ptr : S, begin : Nat] /\ e[i].ptr \in S /\ e[i].begin \in Nat
              /\ e[i] = [ptr |-> e[i].ptr, begin |-> e[i].begin]
<1> DEFINE E == [ptr : S, begin : Nat]
<1>1. e \in Seq(E)
  OBVIOUS
<1>2. \A x \in E : x.ptr \in S /\ x.begin \in Nat /\ x = [ptr |-> x.ptr, begin |-> x.begin]
  OBVIOUS
<1> HIDE DEF E
<1>3. Len(e) \in Nat /\ DOMAIN e = 1 .. Len(e) /\ \A i \in 1 .. Len(e) : e[i] \in E
  BY <1>1
<1>4. e # <<>> => 1 \in 1 .. Len(e)
  BY <1>1
<1> QED
  BY <1>2, <1>3, <1>4 DEF E

\* Whatever the order of the begins, the bisection ends at an entry of the node.
LEMMA BisectionStaysIn ==
  ASSUME NEW le, NEW n \in Nat \ {0, 1},
         NEW f, \A w \in Ranges(n) : f[w] = Turn(f, le, w)
  PROVE  f[<<0, n - 1>>] \in 0 .. n - 1
<1> DEFINE T == {j \in Nat : \E left \in 0 .. n - 1, right \in -1 .. n - 1 :
                               (right - left) + 1 = j /\ f[<<left, right>>] \notin 0 .. n - 1}
<1>1. ASSUME T # {} PROVE FALSE
  <2>1. PICK j \in T : \A i \in T : j <= i
    <3>1. T \in SUBSET Nat
      OBVIOUS
    <3> QED
      BY ONLY <1>1, <3>1, LeastOf
  <2>2. PICK left \in 0 .. n - 1, right \in -1 .. n - 1 :
          (right - left) + 1 = j /\ f[<<left, right>>] \notin 0 .. n - 1
    BY <2>1
  <2> DEFINE center == (left + right) \div 2
  <2>3. f[<<left, right>>] =
          IF left >= right THEN IF left = 0 /\ ~le[1] /\ le[2] THEN 1 ELSE left
          ELSE IF ~le[center + 1] THEN f[<<left, center - 1>>]
          ELSE IF le[center + 2] THEN f[<<center + 1, right>>]
          ELSE center
    <3>1. <<left, right>> \in Ranges(n)
      BY DEF Ranges
    <3>2. f[<<left, right>>] = Turn(f, le, <<left, right>>)
      BY ONLY <3>1, \A w \in Ranges(n) : f[w] = Turn(f, le, w), Zenon
    <3> QED
      BY <3>2 DEF Turn
  <2>4. ASSUME NEW l \in 0 .. n - 1, NEW r \in -1 .. n - 1, (r - l) + 1 < j, l <= r + 1
        PROVE  f[<<l, r>>] \in 0 .. n - 1
    <3>1. (r - l) + 1 \in Nat /\ ~(j <= (r - l) + 1)
      BY <2>1, <2>4
    <3> QED
      BY <2>1, <3>1
  <2>5. CASE left >= right
    BY <2>2, <2>3, <2>5
  <2>6. CASE left < right
    <3>1. center \in left .. right - 1 /\ center \in 0 .. n - 1
      BY <2>2, <2>6
    <3> HIDE DEF center
    <3>2. f[<<left, center - 1>>] \in 0 .. n - 1
      <4>1. center - 1 \in -1 .. n - 1 /\ ((center - 1) - left) + 1 < j /\ left <= (center - 1) + 1
        BY <2>2, <3>1
      <4> QED
        BY <2>4, <4>1
    <3>3. f[<<center + 1, right>>] \in 0 .. n - 1
      <4>1. center + 1 \in 0 .. n - 1 /\ (right - (center + 1)) + 1 < j /\ center + 1 <= right + 1
        BY <2>2, <3>1
      <4> QED
        BY <2>4, <4>1
    <3> QED
      BY <2>2, <2>3, <2>6, <3>1, <3>2, <3>3
  <2> QED
    BY <2>2, <2>5, <2>6
<1>2. 0 \in 0 .. n - 1 /\ n - 1 \in -1 .. n - 1 /\ ((n - 1) - 0) + 1 \in Nat
  OBVIOUS
<1> QED
  BY <1>1, <1>2

\* Whatever an array of begins holds, getlocate gives a place in it.
LEMMA LocateStaysIn ==
  ASSUME NEW le, Len(le) \in Nat, Len(le) >= 2
  PROVE  Locate(le) \in 0 .. Len(le) - 1
<1> DEFINE n == Len(le)
<1>1. CASE n = 2
  BY <1>1 DEF Locate
<1>2. CASE n # 2
  <2>1. n \in Nat \ {0} /\ n \in Nat \ {0, 1}
    BY <1>2
  <2>2. PICK f : f = [w \in Ranges(n) |-> Turn(f, le, w)]
    <3> HIDE DEF n
    <3> QED
      BY ONLY <2>1, Turns, Zenon
  <2> DEFINE g == CHOOSE g : g = [w \in Ranges(n) |-> Turn(g, le, w)]
  <2>3. g = [w \in Ranges(n) |-> Turn(g, le, w)]
    BY ONLY <2>2, Zenon
  <2>4. Locate(le) = g[<<0, n - 1>>]
    BY ONLY <1>2, Zenon DEF Locate, Turn, Ranges, n
  <2> HIDE DEF g
  <2>5. \A w \in Ranges(n) : g[w] = Turn(g, le, w)
    BY ONLY <2>3, Zenon
  <2> HIDE DEF n
  <2>6. g[<<0, n - 1>>] \in 0 .. n - 1
    BY ONLY <2>1, <2>5, BisectionStaysIn
  <2> QED
    BY <2>4, <2>6 DEF n
<1> QED
  BY <1>1, <1>2

\* So a node of two entries or more leads to one of its trees.
LEMMA LocateInNode ==
  ASSUME NEW S, NEW t \in NodesOver(S), NEW k
  PROVE  /\ LocateIn(t, k) \in 0 .. Len(t.entries) - 1
         /\ LocateIn(t, k) + 1 \in 1 .. Len(t.entries)
         /\ Child(t, k) \in S
<1> DEFINE e == t.entries
           le == [i \in 1 .. Len(e) |-> fkeylt(Rgetdata(key, e[i].begin), k)]
<1>1. e \in Seq([ptr : S, begin : Nat]) /\ Len(e) >= 2
  BY DEF NodesOver
<1> HIDE DEF e
<1>2. Len(le) = Len(e) /\ Len(e) \in Nat
  BY <1>1
<1>3. LocateIn(t, k) = Locate(le)
  BY DEF LocateIn, e
<1> HIDE DEF le
<1>4. Locate(le) \in 0 .. Len(e) - 1
  BY <1>1, <1>2, LocateStaysIn
<1>5. Locate(le) + 1 \in 1 .. Len(e)
  BY <1>2, <1>4
<1>6. e[Locate(le) + 1].ptr \in S
  <2>1. \A i \in 1 .. Len(e) : e[i].ptr \in S
    BY <1>1, EntriesHave
  <2> QED
    BY ONLY <1>5, <2>1, Zenon
<1> QED
  BY <1>3, <1>4, <1>5, <1>6 DEF Child, e
\* What hangs from any entry of a node.
LEMMA AllInNode ==
  ASSUME NEW S, NEW t \in NodesOver(S)
  PROVE  \A i \in DOMAIN t.entries : t.entries[i].ptr \in S
<1>1. t.entries \in Seq([ptr : S, begin : Nat])
  BY NodeIs
<1>2. DOMAIN t.entries = 1 .. Len(t.entries)
  BY <1>1
<1> QED
  BY <1>1, <1>2, EntriesHave

\* What hangs from the first entry of a node.
LEMMA FirstInNode ==
  ASSUME NEW S, NEW t \in NodesOver(S)
  PROVE  t.entries[1].ptr \in S
<1>1. t.entries \in Seq([ptr : S, begin : Nat]) /\ Len(t.entries) >= 2
  BY NodeIs
<1>2. 1 \in DOMAIN t.entries
  BY <1>1
<1> QED
  BY <1>2, AllInNode

\* The recursive definitions have a solution in the trees: the descent for a key,
LEMMA LocatedLeafIs ==
  ASSUME NEW k
  PROVE  \A u \in Tree : LocatedLeaf(u, k) = IF IsLeaf(u) THEN u ELSE LocatedLeaf(Child(u, k), k)
<1> DEFINE Good(g, trees) == g = [u \in trees |-> IF IsLeaf(u) THEN u ELSE g[Child(u, k)]]
           T == {m \in 0 .. MaxItems : ~\E g : Good(g, Trees[m])}
<1>1. MaxItems \in Nat /\ T \in SUBSET Nat
  BY BTreeAssumption
<1>2. ASSUME T # {} PROVE FALSE
  <2>1. PICK m \in T : \A j \in T : m <= j
    BY ONLY <1>1, <1>2, LeastOf
  <2>2. m \in 0 .. MaxItems /\ ~\E g : Good(g, Trees[m])
    BY <2>1
  <2>3. CASE m = 0
    <3> DEFINE g == [u \in Trees[0] |-> u]
    <3>1. \A u \in Trees[0] : IsLeaf(u)
      BY ONLY LowTrees, Zenon
    <3>2. \A u \in Trees[0] : u = IF IsLeaf(u) THEN u ELSE g[Child(u, k)]
      BY ONLY <3>1, Zenon
    <3>3. Good(g, Trees[0])
      BY ONLY <3>2, Zenon
    <3> QED
      BY ONLY <2>2, <2>3, <3>3, Zenon
  <2>4. CASE m # 0
    <3>1. m \in 1 .. MaxItems /\ m - 1 \in 0 .. MaxItems /\ ~(m <= m - 1)
      BY <1>1, <2>2, <2>4
    <3>2. m - 1 \notin T
      BY ONLY <2>1, <3>1, Zenon
    <3>3. PICK f : Good(f, Trees[m - 1])
      BY ONLY <3>1, <3>2, Zenon
    <3>4. \A u \in Trees[m - 1] : f[u] = IF IsLeaf(u) THEN u ELSE f[Child(u, k)]
      BY ONLY <3>3, Zenon
    <3> DEFINE g == [u \in Trees[m] |-> IF IsLeaf(u) THEN u ELSE f[Child(u, k)]]
    <3>5. \A u \in Trees[m - 1] : g[u] = f[u]
      <4>1. Trees[m - 1] \subseteq Trees[m]
        BY ONLY <3>1, TreesGrow
      <4>2. \A u \in Trees[m - 1] : u \in Trees[m]
        BY ONLY <4>1
      <4>3. \A u \in Trees[m] : g[u] = IF IsLeaf(u) THEN u ELSE f[Child(u, k)]
        BY Zenon
      <4> HIDE DEF g
      <4> QED
        BY ONLY <3>4, <4>2, <4>3, Zenon
    <3>6. \A u \in Trees[m] : IsLeaf(u) \/ Child(u, k) \in Trees[m - 1]
      <4>1. \A u \in Trees[m] : IsLeaf(u) \/ u \in NodesOver(Trees[m - 1])
        BY ONLY <3>1, HighTrees, LeafIs, Zenon
      <4> QED
        BY ONLY <4>1, LocateInNode, Zenon
    <3> HIDE DEF g
    <3>7. \A u \in Trees[m] : IsLeaf(u) \/ f[Child(u, k)] = g[Child(u, k)]
      BY ONLY <3>5, <3>6, Zenon
    <3>8. Good(g, Trees[m])
      <4>1. \A u \in Trees[m] : (IF IsLeaf(u) THEN u ELSE f[Child(u, k)])
                               = (IF IsLeaf(u) THEN u ELSE g[Child(u, k)])
        BY ONLY <3>7, Zenon
      <4> QED
        BY ONLY <4>1, Zenon DEF g
    <3> QED
      BY ONLY <2>2, <3>8, Zenon
  <2> QED
    BY ONLY <2>3, <2>4, Zenon
<1>3. \E g : Good(g, Tree)
  <2>1. MaxItems \in 0 .. MaxItems
    BY <1>1
  <2> QED
    BY ONLY <1>2, <2>1, Zenon DEF Tree
<1> DEFINE f == CHOOSE f : Good(f, Tree)
<1>4. Good(f, Tree)
  BY ONLY <1>3, Zenon
<1>5. \A u : LocatedLeaf(u, k) = f[u]
  BY DEF LocatedLeaf
<1> HIDE DEF f
<1>6. \A u \in Tree : f[u] = IF IsLeaf(u) THEN u ELSE f[Child(u, k)]
  BY ONLY <1>4, Zenon
<1>7. ASSUME NEW u \in Tree
      PROVE  LocatedLeaf(u, k) = IF IsLeaf(u) THEN u ELSE LocatedLeaf(Child(u, k), k)
  <2>1. LocatedLeaf(u, k) = f[u] /\ LocatedLeaf(Child(u, k), k) = f[Child(u, k)]
    BY ONLY <1>5, Zenon
  <2>2. f[u] = IF IsLeaf(u) THEN u ELSE f[Child(u, k)]
    BY ONLY <1>6, <1>7, Zenon
  <2> QED
    BY ONLY <2>1, <2>2
<1> QED
  BY ONLY <1>7, Zenon

\* the leaves that a search looks at,
LEMMA CandidatesAre ==
  ASSUME NEW k
  PROVE  \A u \in Tree : Candidates(u, k) =
           IF IsLeaf(u) THEN {u} ELSE (IF IsNode(Child(u, k)) THEN Candidates(Child(u, k), k) ELSE Children(u))
<1> DEFINE Good(g, trees) == g = [u \in trees |->
          IF IsLeaf(u) THEN {u} ELSE (IF IsNode(Child(u, k)) THEN g[Child(u, k)] ELSE Children(u))]
           T == {m \in 0 .. MaxItems : ~\E g : Good(g, Trees[m])}
<1>1. MaxItems \in Nat /\ T \in SUBSET Nat
  BY BTreeAssumption
<1>2. ASSUME T # {} PROVE FALSE
  <2>1. PICK m \in T : \A j \in T : m <= j
    BY ONLY <1>1, <1>2, LeastOf
  <2>2. m \in 0 .. MaxItems /\ ~\E g : Good(g, Trees[m])
    BY <2>1
  <2>3. CASE m = 0
    <3> DEFINE g == [u \in Trees[0] |-> {u}]
    <3>1. \A u \in Trees[0] : IsLeaf(u)
      BY ONLY LowTrees, Zenon
    <3>2. \A u \in Trees[0] : {u} =
            IF IsLeaf(u) THEN {u} ELSE (IF IsNode(Child(u, k)) THEN g[Child(u, k)] ELSE Children(u))
      BY ONLY <3>1, Zenon
    <3>3. Good(g, Trees[0])
      BY ONLY <3>2, Zenon
    <3> QED
      BY ONLY <2>2, <2>3, <3>3, Zenon
  <2>4. CASE m # 0
    <3>1. m \in 1 .. MaxItems /\ m - 1 \in 0 .. MaxItems /\ ~(m <= m - 1)
      BY <1>1, <2>2, <2>4
    <3>2. m - 1 \notin T
      BY ONLY <2>1, <3>1, Zenon
    <3>3. PICK f : Good(f, Trees[m - 1])
      BY ONLY <3>1, <3>2, Zenon
    <3>4. \A u \in Trees[m - 1] : f[u] =
            IF IsLeaf(u) THEN {u} ELSE (IF IsNode(Child(u, k)) THEN f[Child(u, k)] ELSE Children(u))
      BY ONLY <3>3, Zenon
    <3> DEFINE g == [u \in Trees[m] |->
              IF IsLeaf(u) THEN {u} ELSE (IF IsNode(Child(u, k)) THEN f[Child(u, k)] ELSE Children(u))]
    <3>5. \A u \in Trees[m - 1] : g[u] = f[u]
      <4>1. Trees[m - 1] \subseteq Trees[m]
        BY ONLY <3>1, TreesGrow
      <4>2. \A u \in Trees[m - 1] : u \in Trees[m]
        BY ONLY <4>1
      <4>3. \A u \in Trees[m] : g[u] =
              IF IsLeaf(u) THEN {u} ELSE (IF IsNode(Child(u, k)) THEN f[Child(u, k)] ELSE Children(u))
        BY Zenon
      <4> HIDE DEF g
      <4> QED
        BY ONLY <3>4, <4>2, <4>3, Zenon
    <3>6. \A u \in Trees[m] : IsLeaf(u) \/ Child(u, k) \in Trees[m - 1]
      <4>1. \A u \in Trees[m] : IsLeaf(u) \/ u \in NodesOver(Trees[m - 1])
        BY ONLY <3>1, HighTrees, LeafIs, Zenon
      <4> QED
        BY ONLY <4>1, LocateInNode, Zenon
    <3> HIDE DEF g
    <3>7. \A u \in Trees[m] : IsLeaf(u) \/ (IF IsNode(Child(u, k)) THEN f[Child(u, k)] ELSE Children(u)) = (IF IsNode(Child(u, k)) THEN g[Child(u, k)] ELSE Children(u))
      BY ONLY <3>5, <3>6, Zenon
    <3>8. Good(g, Trees[m])
      <4>1. \A u \in Trees[m] : (IF IsLeaf(u) THEN {u} ELSE (IF IsNode(Child(u, k)) THEN f[Child(u, k)] ELSE Children(u)))
                               = (IF IsLeaf(u) THEN {u} ELSE (IF IsNode(Child(u, k)) THEN g[Child(u, k)] ELSE Children(u)))
        BY ONLY <3>7, Zenon
      <4> QED
        BY ONLY <4>1, Zenon DEF g
    <3> QED
      BY ONLY <2>2, <3>8, Zenon
  <2> QED
    BY ONLY <2>3, <2>4, Zenon
<1>3. \E g : Good(g, Tree)
  <2>1. MaxItems \in 0 .. MaxItems
    BY <1>1
  <2> QED
    BY ONLY <1>2, <2>1, Zenon DEF Tree
<1> DEFINE f == CHOOSE f : Good(f, Tree)
<1>4. Good(f, Tree)
  BY ONLY <1>3, Zenon
<1>5. \A u : Candidates(u, k) = f[u]
  BY DEF Candidates, Children
<1> HIDE DEF f
<1>6. \A u \in Tree : f[u] = IF IsLeaf(u) THEN {u} ELSE (IF IsNode(Child(u, k)) THEN f[Child(u, k)] ELSE Children(u))
  BY ONLY <1>4, Zenon
<1>7. ASSUME NEW u \in Tree
      PROVE  Candidates(u, k) =
           IF IsLeaf(u) THEN {u} ELSE (IF IsNode(Child(u, k)) THEN Candidates(Child(u, k), k) ELSE Children(u))
  <2>1. Candidates(u, k) = f[u] /\ Candidates(Child(u, k), k) = f[Child(u, k)]
    BY ONLY <1>5, Zenon
  <2>2. f[u] = IF IsLeaf(u) THEN {u} ELSE (IF IsNode(Child(u, k)) THEN f[Child(u, k)] ELSE Children(u))
    BY ONLY <1>6, <1>7, Zenon
  <2> QED
    BY ONLY <2>1, <2>2
<1> QED
  BY ONLY <1>7, Zenon

\* the insert,
LEMMA Insert1Is ==
  ASSUME NEW a, NEW k, NEW nodes
  PROVE  \A u \in Tree : Insert1(u, a, k, nodes) =
           IF IsLeaf(u) THEN Placed(u, a, k, nodes) ELSE Rise(u, LocateIn(u, k), Insert1(Child(u, k), a, k, nodes))
<1> DEFINE Good(g, trees) == g = [u \in trees |->
          IF IsLeaf(u) THEN Placed(u, a, k, nodes) ELSE Rise(u, LocateIn(u, k), g[Child(u, k)])]
           T == {m \in 0 .. MaxItems : ~\E g : Good(g, Trees[m])}
<1>1. MaxItems \in Nat /\ T \in SUBSET Nat
  BY BTreeAssumption
<1>2. ASSUME T # {} PROVE FALSE
  <2>1. PICK m \in T : \A j \in T : m <= j
    BY ONLY <1>1, <1>2, LeastOf
  <2>2. m \in 0 .. MaxItems /\ ~\E g : Good(g, Trees[m])
    BY <2>1
  <2>3. CASE m = 0
    <3> DEFINE g == [u \in Trees[0] |-> Placed(u, a, k, nodes)]
    <3>1. \A u \in Trees[0] : IsLeaf(u)
      BY ONLY LowTrees, Zenon
    <3>2. \A u \in Trees[0] : Placed(u, a, k, nodes) =
            IF IsLeaf(u) THEN Placed(u, a, k, nodes) ELSE Rise(u, LocateIn(u, k), g[Child(u, k)])
      BY ONLY <3>1, Zenon
    <3>3. Good(g, Trees[0])
      BY ONLY <3>2, Zenon
    <3> QED
      BY ONLY <2>2, <2>3, <3>3, Zenon
  <2>4. CASE m # 0
    <3>1. m \in 1 .. MaxItems /\ m - 1 \in 0 .. MaxItems /\ ~(m <= m - 1)
      BY <1>1, <2>2, <2>4
    <3>2. m - 1 \notin T
      BY ONLY <2>1, <3>1, Zenon
    <3>3. PICK f : Good(f, Trees[m - 1])
      BY ONLY <3>1, <3>2, Zenon
    <3>4. \A u \in Trees[m - 1] : f[u] =
            IF IsLeaf(u) THEN Placed(u, a, k, nodes) ELSE Rise(u, LocateIn(u, k), f[Child(u, k)])
      BY ONLY <3>3, Zenon
    <3> DEFINE g == [u \in Trees[m] |->
              IF IsLeaf(u) THEN Placed(u, a, k, nodes) ELSE Rise(u, LocateIn(u, k), f[Child(u, k)])]
    <3>5. \A u \in Trees[m - 1] : g[u] = f[u]
      <4>1. Trees[m - 1] \subseteq Trees[m]
        BY ONLY <3>1, TreesGrow
      <4>2. \A u \in Trees[m - 1] : u \in Trees[m]
        BY ONLY <4>1
      <4>3. \A u \in Trees[m] : g[u] =
              IF IsLeaf(u) THEN Placed(u, a, k, nodes) ELSE Rise(u, LocateIn(u, k), f[Child(u, k)])
        BY Zenon
      <4> HIDE DEF g
      <4> QED
        BY ONLY <3>4, <4>2, <4>3, Zenon
    <3>6. \A u \in Trees[m] : IsLeaf(u) \/ Child(u, k) \in Trees[m - 1]
      <4>1. \A u \in Trees[m] : IsLeaf(u) \/ u \in NodesOver(Trees[m - 1])
        BY ONLY <3>1, HighTrees, LeafIs, Zenon
      <4> QED
        BY ONLY <4>1, LocateInNode, Zenon
    <3> HIDE DEF g
    <3>7. \A u \in Trees[m] : IsLeaf(u) \/ Rise(u, LocateIn(u, k), f[Child(u, k)]) = Rise(u, LocateIn(u, k), g[Child(u, k)])
      BY ONLY <3>5, <3>6, Zenon
    <3>8. Good(g, Trees[m])
      <4>1. \A u \in Trees[m] : (IF IsLeaf(u) THEN Placed(u, a, k, nodes) ELSE Rise(u, LocateIn(u, k), f[Child(u, k)]))
                               = (IF IsLeaf(u) THEN Placed(u, a, k, nodes) ELSE Rise(u, LocateIn(u, k), g[Child(u, k)]))
        BY ONLY <3>7, Zenon
      <4> QED
        BY ONLY <4>1, Zenon DEF g
    <3> QED
      BY ONLY <2>2, <3>8, Zenon
  <2> QED
    BY ONLY <2>3, <2>4, Zenon
<1>3. \E g : Good(g, Tree)
  <2>1. MaxItems \in 0 .. MaxItems
    BY <1>1
  <2> QED
    BY ONLY <1>2, <2>1, Zenon DEF Tree
<1> DEFINE f == CHOOSE f : Good(f, Tree)
<1>4. Good(f, Tree)
  BY ONLY <1>3, Zenon
<1>5. \A u : Insert1(u, a, k, nodes) = f[u]
  BY DEF Insert1, Placed
<1> HIDE DEF f
<1>6. \A u \in Tree : f[u] = IF IsLeaf(u) THEN Placed(u, a, k, nodes) ELSE Rise(u, LocateIn(u, k), f[Child(u, k)])
  BY ONLY <1>4, Zenon
<1>7. ASSUME NEW u \in Tree
      PROVE  Insert1(u, a, k, nodes) =
        IF IsLeaf(u) THEN Placed(u, a, k, nodes) ELSE Rise(u, LocateIn(u, k), Insert1(Child(u, k), a, k, nodes))
  <2>1. Insert1(u, a, k, nodes) = f[u] /\ Insert1(Child(u, k), a, k, nodes) = f[Child(u, k)]
    BY ONLY <1>5, Zenon
  <2>2. f[u] = IF IsLeaf(u) THEN Placed(u, a, k, nodes) ELSE Rise(u, LocateIn(u, k), f[Child(u, k)])
    BY ONLY <1>6, <1>7, Zenon
  <2> QED
    BY ONLY <2>1, <2>2
<1> QED
  BY ONLY <1>7, Zenon

\* the remove,
LEMMA Remove1Is ==
  ASSUME NEW k
  PROVE  \A u \in Tree : Remove1(u, k) =
           IF IsLeaf(u) THEN Answered(u, k) ELSE Sink(u, LocateIn(u, k), Remove1(Child(u, k), k))
<1> DEFINE Good(g, trees) == g = [u \in trees |->
          IF IsLeaf(u) THEN Answered(u, k) ELSE Sink(u, LocateIn(u, k), g[Child(u, k)])]
           T == {m \in 0 .. MaxItems : ~\E g : Good(g, Trees[m])}
<1>1. MaxItems \in Nat /\ T \in SUBSET Nat
  BY BTreeAssumption
<1>2. ASSUME T # {} PROVE FALSE
  <2>1. PICK m \in T : \A j \in T : m <= j
    BY ONLY <1>1, <1>2, LeastOf
  <2>2. m \in 0 .. MaxItems /\ ~\E g : Good(g, Trees[m])
    BY <2>1
  <2>3. CASE m = 0
    <3> DEFINE g == [u \in Trees[0] |-> Answered(u, k)]
    <3>1. \A u \in Trees[0] : IsLeaf(u)
      BY ONLY LowTrees, Zenon
    <3>2. \A u \in Trees[0] : Answered(u, k) =
            IF IsLeaf(u) THEN Answered(u, k) ELSE Sink(u, LocateIn(u, k), g[Child(u, k)])
      BY ONLY <3>1, Zenon
    <3>3. Good(g, Trees[0])
      BY ONLY <3>2, Zenon
    <3> QED
      BY ONLY <2>2, <2>3, <3>3, Zenon
  <2>4. CASE m # 0
    <3>1. m \in 1 .. MaxItems /\ m - 1 \in 0 .. MaxItems /\ ~(m <= m - 1)
      BY <1>1, <2>2, <2>4
    <3>2. m - 1 \notin T
      BY ONLY <2>1, <3>1, Zenon
    <3>3. PICK f : Good(f, Trees[m - 1])
      BY ONLY <3>1, <3>2, Zenon
    <3>4. \A u \in Trees[m - 1] : f[u] = IF IsLeaf(u) THEN Answered(u, k) ELSE Sink(u, LocateIn(u, k), f[Child(u, k)])
      BY ONLY <3>3, Zenon
    <3> DEFINE g == [u \in Trees[m] |-> IF IsLeaf(u) THEN Answered(u, k) ELSE Sink(u, LocateIn(u, k), f[Child(u, k)])]
    <3>5. \A u \in Trees[m - 1] : g[u] = f[u]
      <4>1. Trees[m - 1] \subseteq Trees[m]
        BY ONLY <3>1, TreesGrow
      <4>2. \A u \in Trees[m - 1] : u \in Trees[m]
        BY ONLY <4>1
      <4>3. \A u \in Trees[m] : g[u] = IF IsLeaf(u) THEN Answered(u, k) ELSE Sink(u, LocateIn(u, k), f[Child(u, k)])
        BY Zenon
      <4> HIDE DEF g
      <4> QED
        BY ONLY <3>4, <4>2, <4>3, Zenon
    <3>6. \A u \in Trees[m] : IsLeaf(u) \/ Child(u, k) \in Trees[m - 1]
      <4>1. \A u \in Trees[m] : IsLeaf(u) \/ u \in NodesOver(Trees[m - 1])
        BY ONLY <3>1, HighTrees, LeafIs, Zenon
      <4> QED
        BY ONLY <4>1, LocateInNode, Zenon
    <3> HIDE DEF g
    <3>7. \A u \in Trees[m] : IsLeaf(u) \/ Sink(u, LocateIn(u, k), f[Child(u, k)]) = Sink(u, LocateIn(u, k), g[Child(u, k)])
      BY ONLY <3>5, <3>6, Zenon
    <3>8. Good(g, Trees[m])
      <4>1. \A u \in Trees[m] : (IF IsLeaf(u) THEN Answered(u, k) ELSE Sink(u, LocateIn(u, k), f[Child(u, k)]))
                               = (IF IsLeaf(u) THEN Answered(u, k) ELSE Sink(u, LocateIn(u, k), g[Child(u, k)]))
        BY ONLY <3>7, Zenon
      <4> QED
        BY ONLY <4>1, Zenon DEF g
    <3> QED
      BY ONLY <2>2, <3>8, Zenon
  <2> QED
    BY ONLY <2>3, <2>4, Zenon
<1>3. \E g : Good(g, Tree)
  <2>1. MaxItems \in 0 .. MaxItems
    BY <1>1
  <2> QED
    BY ONLY <1>2, <2>1, Zenon DEF Tree
<1> DEFINE f == CHOOSE f : Good(f, Tree)
<1>4. Good(f, Tree)
  BY ONLY <1>3, Zenon
<1>5. \A u : Remove1(u, k) = f[u]
  BY DEF Remove1, Answered
<1> HIDE DEF f
<1>6. \A u \in Tree : f[u] = IF IsLeaf(u) THEN Answered(u, k) ELSE Sink(u, LocateIn(u, k), f[Child(u, k)])
  BY ONLY <1>4, Zenon
<1>7. ASSUME NEW u \in Tree
      PROVE  Remove1(u, k) = IF IsLeaf(u) THEN Answered(u, k) ELSE Sink(u, LocateIn(u, k), Remove1(Child(u, k), k))
  <2>1. Remove1(u, k) = f[u] /\ Remove1(Child(u, k), k) = f[Child(u, k)]
    BY ONLY <1>5, Zenon
  <2>2. f[u] = IF IsLeaf(u) THEN Answered(u, k) ELSE Sink(u, LocateIn(u, k), f[Child(u, k)])
    BY ONLY <1>6, <1>7, Zenon
  <2> QED
    BY ONLY <2>1, <2>2
<1> QED
  BY ONLY <1>7, Zenon

\* the first leaf,
LEMMA LeftmostIs ==
  \A u \in Tree : Leftmost[u] = IF IsLeaf(u) THEN u.vch_index ELSE Leftmost[u.entries[1].ptr]
<1> DEFINE Good(g, trees) == g = [u \in trees |-> IF IsLeaf(u) THEN u.vch_index ELSE g[u.entries[1].ptr]]
           T == {m \in 0 .. MaxItems : ~\E g : Good(g, Trees[m])}
<1>1. MaxItems \in Nat /\ T \in SUBSET Nat
  BY BTreeAssumption
<1>2. ASSUME T # {} PROVE FALSE
  <2>1. PICK m \in T : \A j \in T : m <= j
    BY ONLY <1>1, <1>2, LeastOf
  <2>2. m \in 0 .. MaxItems /\ ~\E g : Good(g, Trees[m])
    BY <2>1
  <2>3. CASE m = 0
    <3> DEFINE g == [u \in Trees[0] |-> u.vch_index]
    <3>1. \A u \in Trees[0] : IsLeaf(u)
      BY ONLY LowTrees, Zenon
    <3>2. \A u \in Trees[0] : u.vch_index = IF IsLeaf(u) THEN u.vch_index ELSE g[u.entries[1].ptr]
      BY ONLY <3>1, Zenon
    <3>3. Good(g, Trees[0])
      BY ONLY <3>2, Zenon
    <3> QED
      BY ONLY <2>2, <2>3, <3>3, Zenon
  <2>4. CASE m # 0
    <3>1. m \in 1 .. MaxItems /\ m - 1 \in 0 .. MaxItems /\ ~(m <= m - 1)
      BY <1>1, <2>2, <2>4
    <3>2. m - 1 \notin T
      BY ONLY <2>1, <3>1, Zenon
    <3>3. PICK f : Good(f, Trees[m - 1])
      BY ONLY <3>1, <3>2, Zenon
    <3>4. \A u \in Trees[m - 1] : f[u] = IF IsLeaf(u) THEN u.vch_index ELSE f[u.entries[1].ptr]
      BY ONLY <3>3, Zenon
    <3> DEFINE g == [u \in Trees[m] |-> IF IsLeaf(u) THEN u.vch_index ELSE f[u.entries[1].ptr]]
    <3>5. \A u \in Trees[m - 1] : g[u] = f[u]
      <4>1. Trees[m - 1] \subseteq Trees[m]
        BY ONLY <3>1, TreesGrow
      <4>2. \A u \in Trees[m - 1] : u \in Trees[m]
        BY ONLY <4>1
      <4>3. \A u \in Trees[m] : g[u] = IF IsLeaf(u) THEN u.vch_index ELSE f[u.entries[1].ptr]
        BY Zenon
      <4> HIDE DEF g
      <4> QED
        BY ONLY <3>4, <4>2, <4>3, Zenon
    <3>6. \A u \in Trees[m] : IsLeaf(u) \/ u.entries[1].ptr \in Trees[m - 1]
      <4>1. \A u \in Trees[m] : IsLeaf(u) \/ u \in NodesOver(Trees[m - 1])
        BY ONLY <3>1, HighTrees, LeafIs, Zenon
      <4> QED
        BY ONLY <4>1, FirstInNode, Zenon
    <3> HIDE DEF g
    <3>7. \A u \in Trees[m] : IsLeaf(u) \/ f[u.entries[1].ptr] = g[u.entries[1].ptr]
      BY ONLY <3>5, <3>6, Zenon
    <3>8. Good(g, Trees[m])
      <4>1. \A u \in Trees[m] : (IF IsLeaf(u) THEN u.vch_index ELSE f[u.entries[1].ptr])
                               = (IF IsLeaf(u) THEN u.vch_index ELSE g[u.entries[1].ptr])
        BY ONLY <3>7, Zenon
      <4> QED
        BY ONLY <4>1, Zenon DEF g
    <3> QED
      BY ONLY <2>2, <3>8, Zenon
  <2> QED
    BY ONLY <2>3, <2>4, Zenon
<1>3. \E g : Good(g, Tree)
  <2>1. MaxItems \in 0 .. MaxItems
    BY <1>1
  <2> QED
    BY ONLY <1>2, <2>1, Zenon DEF Tree
<1>4. Leftmost = CHOOSE f : Good(f, Tree)
  BY DEF Leftmost
<1>5. Good(Leftmost, Tree)
  BY ONLY <1>3, <1>4, Zenon
<1> QED
  BY ONLY <1>5, Zenon

\* and what is below a tree.
LEMMA BelowIs ==
  \A u \in Tree : Below[u] =
    IF IsLeaf(u) THEN {u} ELSE {u} \cup UNION {Below[u.entries[i].ptr] : i \in DOMAIN u.entries}
<1> DEFINE Good(g, trees) == g = [u \in trees |->
          IF IsLeaf(u) THEN {u} ELSE {u} \cup UNION {g[u.entries[i].ptr] : i \in DOMAIN u.entries}]
           T == {m \in 0 .. MaxItems : ~\E g : Good(g, Trees[m])}
<1>1. MaxItems \in Nat /\ T \in SUBSET Nat
  BY BTreeAssumption
<1>2. ASSUME T # {} PROVE FALSE
  <2>1. PICK m \in T : \A j \in T : m <= j
    BY ONLY <1>1, <1>2, LeastOf
  <2>2. m \in 0 .. MaxItems /\ ~\E g : Good(g, Trees[m])
    BY <2>1
  <2>3. CASE m = 0
    <3> DEFINE g == [u \in Trees[0] |-> {u}]
    <3>1. \A u \in Trees[0] : IsLeaf(u)
      BY ONLY LowTrees, Zenon
    <3>2. \A u \in Trees[0] : {u} =
            IF IsLeaf(u) THEN {u} ELSE {u} \cup UNION {g[u.entries[i].ptr] : i \in DOMAIN u.entries}
      BY ONLY <3>1, Zenon
    <3>3. Good(g, Trees[0])
      BY ONLY <3>2, Zenon
    <3> QED
      BY ONLY <2>2, <2>3, <3>3, Zenon
  <2>4. CASE m # 0
    <3>1. m \in 1 .. MaxItems /\ m - 1 \in 0 .. MaxItems /\ ~(m <= m - 1)
      BY <1>1, <2>2, <2>4
    <3>2. m - 1 \notin T
      BY ONLY <2>1, <3>1, Zenon
    <3>3. PICK f : Good(f, Trees[m - 1])
      BY ONLY <3>1, <3>2, Zenon
    <3>4. \A u \in Trees[m - 1] : f[u] =
            IF IsLeaf(u) THEN {u} ELSE {u} \cup UNION {f[u.entries[i].ptr] : i \in DOMAIN u.entries}
      BY ONLY <3>3, Zenon
    <3> DEFINE g == [u \in Trees[m] |->
              IF IsLeaf(u) THEN {u} ELSE {u} \cup UNION {f[u.entries[i].ptr] : i \in DOMAIN u.entries}]
    <3>5. \A u \in Trees[m - 1] : g[u] = f[u]
      <4>1. Trees[m - 1] \subseteq Trees[m]
        BY ONLY <3>1, TreesGrow
      <4>2. \A u \in Trees[m - 1] : u \in Trees[m]
        BY ONLY <4>1
      <4>3. \A u \in Trees[m] : g[u] =
              IF IsLeaf(u) THEN {u} ELSE {u} \cup UNION {f[u.entries[i].ptr] : i \in DOMAIN u.entries}
        BY Zenon
      <4> HIDE DEF g
      <4> QED
        BY ONLY <3>4, <4>2, <4>3, Zenon
    <3>6. \A u \in Trees[m] : IsLeaf(u) \/ \A i \in DOMAIN u.entries : u.entries[i].ptr \in Trees[m - 1]
      <4>1. \A u \in Trees[m] : IsLeaf(u) \/ u \in NodesOver(Trees[m - 1])
        BY ONLY <3>1, HighTrees, LeafIs, Zenon
      <4> QED
        BY ONLY <4>1, AllInNode, Zenon
    <3> HIDE DEF g
    <3>7. \A u \in Trees[m] : IsLeaf(u) \/ {u} \cup UNION {f[u.entries[i].ptr] : i \in DOMAIN u.entries} = {u} \cup UNION {g[u.entries[i].ptr] : i \in DOMAIN u.entries}
      <4>1. ASSUME NEW u \in Trees[m], ~IsLeaf(u)
            PROVE  {f[u.entries[i].ptr] : i \in DOMAIN u.entries} = {g[u.entries[i].ptr] : i \in DOMAIN u.entries}
        <5>1. \A i \in DOMAIN u.entries : f[u.entries[i].ptr] = g[u.entries[i].ptr]
          BY ONLY <3>5, <3>6, <4>1, Zenon
        <5> QED
          BY ONLY <5>1
      <4> QED
        BY ONLY <4>1, Zenon
    <3>8. Good(g, Trees[m])
      <4>1. \A u \in Trees[m] : (IF IsLeaf(u) THEN {u} ELSE {u} \cup UNION {f[u.entries[i].ptr] : i \in DOMAIN u.entries})
                               = (IF IsLeaf(u) THEN {u} ELSE {u} \cup UNION {g[u.entries[i].ptr] : i \in DOMAIN u.entries})
        BY ONLY <3>7, Zenon
      <4> QED
        BY ONLY <4>1, Zenon DEF g
    <3> QED
      BY ONLY <2>2, <3>8, Zenon
  <2> QED
    BY ONLY <2>3, <2>4, Zenon
<1>3. \E g : Good(g, Tree)
  <2>1. MaxItems \in 0 .. MaxItems
    BY <1>1
  <2> QED
    BY ONLY <1>2, <2>1, Zenon DEF Tree
<1>4. Below = CHOOSE f : Good(f, Tree)
  BY DEF Below
<1>5. Good(Below, Tree)
  BY ONLY <1>3, <1>4, Zenon
<1> QED
  BY ONLY <1>5, Zenon
\* A tree is neither of the pointers that are none.
LEMMA TreesAreSome == \A u \in Tree : u \notin {Null, Invalid}
<1>1. \A u \in Leaves : u.type = "n_leaf"
  BY DEF Leaves
<1>2. \A u \in NodesOver(Tree) : u.type = "n_node"
  BY DEF NodesOver
<1>3. Null.type = "null" /\ Invalid.type = "invalid"
  BY DEF Null, Invalid
<1>4. \A u \in Tree : u \in Leaves \/ u \in NodesOver(Tree)
  BY TreeIs
<1>5. "null" # "n_leaf" /\ "null" # "n_node" /\ "invalid" # "n_leaf" /\ "invalid" # "n_node"
  OBVIOUS
<1> QED
  BY ONLY <1>1, <1>2, <1>3, <1>4, <1>5, Zenon

\* The places and the nodes of a tree, from those of the trees below it.
LEMMA PlacesOfNode ==
  ASSUME NEW t \in Tree, t \in NodesOver(Tree)
  PROVE  \A i : i \in Places(t) <=> \E j \in 1 .. Len(t.entries) : i \in Places(t.entries[j].ptr)
<1> DEFINE e == t.entries
<1>1. e \in Seq([ptr : Tree, begin : Nat]) /\ ~IsLeaf(t) /\ IsNode(t)
  BY NodeIs
<1>2. DOMAIN e = 1 .. Len(e) /\ \A j \in 1 .. Len(e) : e[j].ptr \in Tree
  BY <1>1, EntriesHave
<1>3. Below[t] = {t} \cup UNION {Below[e[j].ptr] : j \in DOMAIN e}
  BY ONLY <1>1, BelowIs, t \in Tree, Zenon DEF e
<1>4. \A u \in Tree : Subtrees(u) = Below[u]
  BY TreesAreSome, Zenon DEF Subtrees
<1>5. \A u \in Tree : \A i : i \in Places(u) <=> \E v \in Below[u] : IsLeaf(v) /\ i = v.vch_index
  BY <1>4 DEF Places
<1> HIDE DEF e
<1>6. \A v : v \in Below[t] /\ IsLeaf(v) <=> \E j \in 1 .. Len(e) : v \in Below[e[j].ptr] /\ IsLeaf(v)
  BY ONLY <1>1, <1>2, <1>3
<1> QED
  <2>1. \A i : i \in Places(t) <=> \E j \in 1 .. Len(e) : i \in Places(e[j].ptr)
    <3>1. \A i : i \in Places(t) <=> \E v \in Below[t] : IsLeaf(v) /\ i = v.vch_index
      BY ONLY <1>5, t \in Tree, Zenon
    <3>2. \A i : \A j \in 1 .. Len(e) :
            i \in Places(e[j].ptr) <=> \E v \in Below[e[j].ptr] : IsLeaf(v) /\ i = v.vch_index
      BY ONLY <1>2, <1>5, Zenon
    <3>3. ASSUME NEW i, i \in Places(t)
          PROVE  \E j \in 1 .. Len(e) : i \in Places(e[j].ptr)
      <4>1. PICK v \in Below[t] : IsLeaf(v) /\ i = v.vch_index
        BY ONLY <3>1, <3>3, Zenon
      <4>2. PICK j \in 1 .. Len(e) : v \in Below[e[j].ptr]
        BY ONLY <1>6, <4>1, Zenon
      <4> QED
        BY ONLY <3>2, <4>1, <4>2, Zenon
    <3>4. ASSUME NEW i, NEW j \in 1 .. Len(e), i \in Places(e[j].ptr)
          PROVE  i \in Places(t)
      <4>1. PICK v \in Below[e[j].ptr] : IsLeaf(v) /\ i = v.vch_index
        BY ONLY <3>2, <3>4, Zenon
      <4>2. v \in Below[t]
        BY ONLY <1>6, <4>1, Zenon
      <4> QED
        BY ONLY <3>1, <4>1, <4>2, Zenon
    <3> QED
      BY ONLY <3>3, <3>4, Zenon
  <2> QED
    BY <2>1 DEF e

\* A leaf holds its own place.
LEMMA PlacesOfLeaf ==
  ASSUME NEW i \in Nat
  PROVE  Places(Leaf(i)) = {i}
<1>1. Leaf(i) \in Tree /\ IsLeaf(Leaf(i)) /\ Leaf(i).vch_index = i
  BY TreeIs, LeafIs
<1>2. Subtrees(Leaf(i)) = {Leaf(i)}
  <2>1. Leaf(i) \notin {Null, Invalid}
    BY DEF Leaf, Null, Invalid
  <2> QED
    BY <1>1, <2>1, BelowIs DEF Subtrees
<1> QED
  BY <1>1, <1>2 DEF Places

\* No tree holds no place and has no node.
LEMMA PlacesOfNone == Places(Null) = {} /\ Places(Invalid) = {} /\ Nodes(Null) = {} /\ Nodes(Invalid) = {}
BY DEF Places, Nodes, Subtrees

\* The nodes of a tree: none in a leaf; in a node itself and those below its entries.
LEMMA NodesOfTree ==
  /\ \A t \in Leaves : Nodes(t) = {}
  /\ \A t \in Tree : \A u : t \in NodesOver(Tree) =>
       (u \in Nodes(t) <=> u = t \/ \E j \in 1 .. Len(t.entries) : u \in Nodes(t.entries[j].ptr))
<1>1. \A u \in Tree : Subtrees(u) = Below[u]
  BY TreesAreSome, Zenon DEF Subtrees
<1>2. \A t \in Tree : \A u : u \in Nodes(t) <=> u \in Below[t] /\ IsNode(u)
  BY <1>1 DEF Nodes
<1>3. ASSUME NEW t \in Leaves
      PROVE  Nodes(t) = {}
  <2>1. t \in Tree /\ IsLeaf(t) /\ ~IsNode(t)
    BY TreeIs, LeafIs
  <2>2. Below[t] = {t}
    BY ONLY <2>1, BelowIs, Zenon
  <2> QED
    BY <1>2, <2>1, <2>2
<1>4. ASSUME NEW t \in Tree, NEW u, t \in NodesOver(Tree)
      PROVE  u \in Nodes(t) <=> u = t \/ \E j \in 1 .. Len(t.entries) : u \in Nodes(t.entries[j].ptr)
  <2> DEFINE e == t.entries
  <2>1. e \in Seq([ptr : Tree, begin : Nat]) /\ ~IsLeaf(t) /\ IsNode(t)
    BY <1>4, NodeIs
  <2>2. DOMAIN e = 1 .. Len(e) /\ \A j \in 1 .. Len(e) : e[j].ptr \in Tree
    BY <2>1, EntriesHave
  <2>3. Below[t] = {t} \cup UNION {Below[e[j].ptr] : j \in DOMAIN e}
    BY ONLY <2>1, BelowIs, t \in Tree, Zenon DEF e
  <2> HIDE DEF e
  <2>4. u \in Below[t] <=> u = t \/ \E j \in 1 .. Len(e) : u \in Below[e[j].ptr]
    BY ONLY <2>2, <2>3
  <2> QED
    <3>1. u \in Nodes(t) <=> u = t \/ \E j \in 1 .. Len(e) : u \in Nodes(e[j].ptr)
      BY ONLY <1>2, <2>1, <2>2, <2>4, t \in Tree, Zenon
    <3> QED
      BY <3>1 DEF e
<1> QED
  BY <1>3, <1>4
-----------------------------------------------------------------------------
(* Trees that fit their shares of the keys.                                *)

\* What trees of one height have, with the keys Q that they may hold: they may as
\* well hold more, they have a leaf, and of each key that they do hold one.
Regular(ks, S, R) ==
  /\ R \subseteq S \X SUBSET Nat
  /\ \A c \in S, Q \in SUBSET Nat, P \in SUBSET Nat : <<c, Q>> \in R /\ Q \subseteq P => <<c, P>> \in R
  /\ \A c \in S, Q \in SUBSET Nat : <<c, Q>> \in R =>
       /\ Places(c) # {}
       /\ \A i \in Places(c) : i \in 0 .. Len(ks) - 1 /\ KeyAt(ks, i) \in Q
       /\ \A i, j \in Places(c) : KeyAt(ks, i) = KeyAt(ks, j) => i = j

\* The places in begin_ptr have keys, the stale ones of removed items too.
LEMMA BeginKeys ==
  ASSUME NEW ks \in Seq(Nat), NEW R, NEW S, NEW e \in Seq([ptr : S, begin : Nat]), NEW Q,
         Sound(ks, R, e, Q)
  PROVE  \A i \in 1 .. Len(e) : KeyAt(ks, e[i].begin) \in Nat
<1>1. \A i \in 1 .. Len(e) : e[i].begin \in Nat /\ e[i].begin < Len(ks)
  BY EntriesHave DEF Sound
<1> QED
  BY <1>1 DEF KeyAt

\* A share is a part of the node's keys, and grows with them.
LEMMA Shares ==
  ASSUME NEW ks, NEW e, NEW Q \in SUBSET Nat, NEW P \in SUBSET Nat, Q \subseteq P, NEW i
  PROVE  /\ Share(ks, e, i, Q) \in SUBSET Nat /\ Share(ks, e, i, Q) \subseteq Q
         /\ Share(ks, e, i, Q) \subseteq Share(ks, e, i, P)
BY DEF Share

\* No two trees of a node may hold the same key.
LEMMA SharesApart ==
  ASSUME NEW ks \in Seq(Nat), NEW R, NEW S, NEW e \in Seq([ptr : S, begin : Nat]), NEW Q \in SUBSET Nat,
         Sound(ks, R, e, Q), NEW i \in 1 .. Len(e), NEW j \in 1 .. Len(e),
         NEW q \in Share(ks, e, i, Q), q \in Share(ks, e, j, Q)
  PROVE  i = j
<1> DEFINE b(n) == KeyAt(ks, e[n].begin)
<1>1. Len(e) \in Nat /\ \A n \in 1 .. Len(e) : b(n) \in Nat
  <2>1. Len(e) \in Nat
    OBVIOUS
  <2> QED
    BY <2>1, BeginKeys
<1>2. \A m, n \in 2 .. Len(e) : m < n => b(m) > b(n)
  BY DEF Sound
<1>3. ASSUME NEW m \in 1 .. Len(e), NEW n \in 1 .. Len(e), m < n,
             q \in Share(ks, e, m, Q), q \in Share(ks, e, n, Q)
      PROVE  FALSE
  <2>1. m + 1 \in 2 .. Len(e) /\ n \in 2 .. Len(e) /\ m < Len(e) /\ n > 1 /\ q \in Nat
    BY <1>1, <1>3 DEF Share
  <2>2. q > b(m + 1) /\ b(n) >= q
    BY <1>3, <2>1 DEF Share
  <2>3. m + 1 = n \/ b(m + 1) > b(n)
    BY <1>1, <1>2, <1>3, <2>1
  <2>4. b(m + 1) \in Nat /\ b(n) \in Nat
    BY <1>1, <2>1
  <2> HIDE DEF b
  <2> QED
    BY <2>1, <2>2, <2>3, <2>4
<1> QED
  BY <1>1, <1>3

\* A node's trees hold keys of their shares, and each key once.
HoldsApart(ks, e, Q) ==
  /\ \E j \in 1 .. Len(e) : Places(e[j].ptr) # {}
  /\ \A j \in 1 .. Len(e) : \A i \in Places(e[j].ptr) :
       i \in 0 .. Len(ks) - 1 /\ KeyAt(ks, i) \in Q /\ KeyAt(ks, i) \in Share(ks, e, j, Q)
  /\ \A m, n \in 1 .. Len(e) : \A i \in Places(e[m].ptr), j \in Places(e[n].ptr) :
       KeyAt(ks, i) = KeyAt(ks, j) => m = n /\ i = j

\* What nodes over regular trees have.
LEMMA NodesRegular ==
  ASSUME NEW ks \in Seq(Nat), NEW S, S \subseteq Tree, NEW R, Regular(ks, S, R),
         NEW e \in Seq([ptr : S, begin : Nat]), NEW Q \in SUBSET Nat, Sound(ks, R, e, Q)
  PROVE  /\ \A P \in SUBSET Nat : Q \subseteq P => Sound(ks, R, e, P)
         /\ HoldsApart(ks, e, Q)
<1>1. /\ Len(e) \in Nat /\ e # <<>> /\ 1 \in 1 .. Len(e) /\ \A i \in 1 .. Len(e) : e[i].ptr \in S
  BY EntriesHave DEF Sound
<1>2. \A i \in 1 .. Len(e) : <<e[i].ptr, Share(ks, e, i, Q)>> \in R
  BY DEF Sound
<1>3. \A i : Share(ks, e, i, Q) \in SUBSET Nat /\ Share(ks, e, i, Q) \subseteq Q
  BY Shares
<1>4. ASSUME NEW P \in SUBSET Nat, Q \subseteq P
      PROVE  Sound(ks, R, e, P)
  <2>1. ASSUME NEW i \in 1 .. Len(e)
        PROVE  <<e[i].ptr, Share(ks, e, i, P)>> \in R
    <3>1. Share(ks, e, i, P) \in SUBSET Nat /\ Share(ks, e, i, Q) \subseteq Share(ks, e, i, P)
      BY <1>4, Shares
    <3> QED
      BY <1>1, <1>2, <1>3, <3>1, Zenon DEF Regular
  <2> QED
    BY <2>1 DEF Sound
<1>5. \A i \in 1 .. Len(e) :
        /\ Places(e[i].ptr) # {}
        /\ \A m \in Places(e[i].ptr) : m \in 0 .. Len(ks) - 1 /\ KeyAt(ks, m) \in Share(ks, e, i, Q)
        /\ \A m, n \in Places(e[i].ptr) : KeyAt(ks, m) = KeyAt(ks, n) => m = n
  BY <1>1, <1>2, <1>3, Zenon DEF Regular
<1>6. ASSUME NEW m \in 1 .. Len(e), NEW n \in 1 .. Len(e),
             NEW i \in Places(e[m].ptr), NEW j \in Places(e[n].ptr), KeyAt(ks, i) = KeyAt(ks, j)
      PROVE  m = n /\ i = j
  <2>1. KeyAt(ks, i) \in Share(ks, e, m, Q) /\ KeyAt(ks, i) \in Share(ks, e, n, Q)
    BY <1>5, <1>6, Zenon
  <2>2. m = n
    BY <2>1, SharesApart
  <2> QED
    BY <1>5, <1>6, <2>2, Zenon
<1>7. \A j \in 1 .. Len(e) : \A i \in Places(e[j].ptr) : KeyAt(ks, i) \in Q
  BY <1>3, <1>5
<1> QED
  BY <1>1, <1>4, <1>5, <1>6, <1>7 DEF HoldsApart

\* The trees of a height that are in order, from those of one less.
LEMMA FitLeaf ==
  ASSUME NEW ks, NEW d, NEW t, NEW Q
  PROVE  <<t, Q>> \in Fits(ks, d)[0] <=>
           /\ t \in Leaves /\ Q \in SUBSET Nat
           /\ t.vch_index < Len(ks) /\ KeyAt(ks, t.vch_index) \in Q
<1>1. 0 \in 0 .. MaxItems
  BY BTreeAssumption
<1>2. Fits(ks, d)[0] = FitLeaves(ks)
  BY ONLY <1>1, FitsAre, Zenon
<1> QED
  BY <1>2 DEF FitLeaves

\* The fitting trees of a height above 0.
LEMMA FitsNext ==
  ASSUME NEW ks, NEW d, NEW h \in 0 .. MaxItems, h # 0
  PROVE  Fits(ks, d)[h] = FitNodes(ks, d, Even[h - 1], Fits(ks, d)[h - 1])
BY ONLY h \in 0 .. MaxItems, h # 0, FitsAre, Zenon

\* What a fitting node is.
LEMMA FitNode ==
  ASSUME NEW ks, NEW d, NEW h \in 1 .. MaxItems, NEW t, NEW Q
  PROVE  <<t, Q>> \in Fits(ks, d)[h] <=>
           /\ t \in NodesOver(Even[h - 1]) /\ Q \in SUBSET Nat
           /\ Sound(ks, Fits(ks, d)[h - 1], t.entries, Q)
           /\ Len(t.entries) \in halfdim(d) .. d
<1>1. h \in 0 .. MaxItems /\ h # 0
  BY BTreeAssumption
<1>2. Fits(ks, d)[h] = FitNodes(ks, d, Even[h - 1], Fits(ks, d)[h - 1])
  BY ONLY <1>1, FitsAre, Zenon
<1> DEFINE R == Fits(ks, d)[h - 1]
           S == NodesOver(Even[h - 1])
           x == <<t, Q>>
<1>3. <<t, Q>> \in FitNodes(ks, d, Even[h - 1], R) <=>
        x \in S \X SUBSET Nat /\ Sound(ks, R, x[1].entries, x[2]) /\ Len(x[1].entries) \in halfdim(d) .. d
  BY Zenon DEF FitNodes
<1> HIDE DEF R, S
<1>4. x[1] = t /\ x[2] = Q /\ (x \in S \X SUBSET Nat <=> t \in S /\ Q \in SUBSET Nat)
  OBVIOUS
<1>5. <<t, Q>> \in FitNodes(ks, d, Even[h - 1], R) <=>
        t \in S /\ Q \in SUBSET Nat /\ Sound(ks, R, t.entries, Q) /\ Len(t.entries) \in halfdim(d) .. d
  BY ONLY <1>3, <1>4
<1> QED
  BY <1>2, <1>5 DEF R, S

\* The trees of a height that are balanced, from those of one less.
LEMMA EvenHas ==
  /\ Even[0] = Leaves
  /\ \A h \in 1 .. MaxItems : h - 1 \in 0 .. MaxItems /\ Even[h] = NodesOver(Even[h - 1]) /\ Even[h - 1] \subseteq Tree
<1>1. 0 \in 0 .. MaxItems /\ \A h \in 1 .. MaxItems : h \in 0 .. MaxItems /\ h # 0 /\ h - 1 \in 0 .. MaxItems
  BY BTreeAssumption
<1>2. \A h \in 1 .. MaxItems : Even[h - 1] \subseteq Tree
  BY ONLY <1>1, EvenTrees
<1> QED
  BY ONLY <1>1, <1>2, EvenAre, Zenon

\* The leaves that fit are regular.
LEMMA LeavesRegular ==
  ASSUME NEW ks \in Seq(Nat), NEW d
  PROVE  Regular(ks, Leaves, Fits(ks, d)[0])
<1> DEFINE R == Fits(ks, d)[0]
<1>1. R \subseteq Leaves \X SUBSET Nat
  <2>1. 0 \in 0 .. MaxItems
    BY BTreeAssumption
  <2>2. R = FitLeaves(ks)
    BY ONLY <2>1, FitsAre, Zenon
  <2> HIDE DEF R
  <2> QED
    BY <2>2 DEF FitLeaves
<1>2. \A t, Q : <<t, Q>> \in R <=>
        t \in Leaves /\ Q \in SUBSET Nat /\ t.vch_index < Len(ks) /\ KeyAt(ks, t.vch_index) \in Q
  BY FitLeaf
<1> HIDE DEF R
<1>3. \A t \in Leaves : t.vch_index \in Nat /\ Places(t) = {t.vch_index}
  BY LeafIs, PlacesOfLeaf, Zenon
<1>4. \A t \in Leaves : \A Q : <<t, Q>> \in R => t.vch_index \in 0 .. Len(ks) - 1
  <2>1. Len(ks) \in Nat
    OBVIOUS
  <2> QED
    BY <1>2, <1>3, <2>1
<1>5. \A t \in Leaves, Q \in SUBSET Nat, P \in SUBSET Nat : <<t, Q>> \in R /\ Q \subseteq P => <<t, P>> \in R
  BY ONLY <1>2
<1>6. \A t \in Leaves, Q \in SUBSET Nat : <<t, Q>> \in R =>
        /\ Places(t) # {}
        /\ \A i \in Places(t) : i \in 0 .. Len(ks) - 1 /\ KeyAt(ks, i) \in Q
        /\ \A i, j \in Places(t) : KeyAt(ks, i) = KeyAt(ks, j) => i = j
  BY ONLY <1>2, <1>3, <1>4
<1> QED
  BY ONLY <1>1, <1>5, <1>6 DEF Regular, R

\* The fitting trees of any height are regular: by induction on the height.
LEMMA FitsRegular ==
  ASSUME NEW ks \in Seq(Nat), NEW d \in Nat, d >= 3, NEW h \in 0 .. MaxItems
  PROVE  Regular(ks, Even[h], Fits(ks, d)[h])
<1> DEFINE T == {n \in 0 .. MaxItems : ~Regular(ks, Even[n], Fits(ks, d)[n])}
<1>1. MaxItems \in Nat /\ T \in SUBSET Nat
  BY BTreeAssumption
<1>2. ASSUME T # {} PROVE FALSE
  <2>1. PICK n \in T : \A j \in T : n <= j
    BY ONLY <1>1, <1>2, LeastOf
  <2>2. n \in 0 .. MaxItems /\ ~Regular(ks, Even[n], Fits(ks, d)[n])
    BY <2>1
  <2>3. CASE n = 0
    BY ONLY <2>2, <2>3, LeavesRegular, EvenHas, ks \in Seq(Nat), Zenon
  <2>4. CASE n # 0
    <3> DEFINE S == Even[n - 1]
               R == Fits(ks, d)[n - 1]
    <3>1. n \in 1 .. MaxItems /\ n - 1 \in 0 .. MaxItems /\ ~(n <= n - 1)
      BY <1>1, <2>2, <2>4
    <3>2. n - 1 \notin T
      BY ONLY <2>1, <3>1, Zenon
    <3>3. Regular(ks, S, R) /\ S \subseteq Tree /\ Even[n] = NodesOver(S) /\ Even[n] \subseteq Tree
      BY ONLY <2>2, <3>1, <3>2, EvenHas, EvenTrees, Zenon
    <3>4. \A t, Q : <<t, Q>> \in Fits(ks, d)[n] <=>
            t \in NodesOver(S) /\ Q \in SUBSET Nat /\ Sound(ks, R, t.entries, Q)
            /\ Len(t.entries) \in halfdim(d) .. d
      BY <3>1, FitNode
    <3>5. Fits(ks, d)[n] \subseteq Even[n] \X SUBSET Nat
      <4>1. Fits(ks, d)[n] = FitNodes(ks, d, S, R)
        BY ONLY <2>2, <2>4, FitsAre, Zenon
      <4> QED
        BY <3>3, <4>1 DEF FitNodes
    <3> HIDE DEF S, R
    <3>6. \A t \in NodesOver(S) : t \in Tree /\ t \in NodesOver(Tree)
      BY ONLY <3>3, MoreNodes
    <3>7. ASSUME NEW t \in NodesOver(S), NEW Q \in SUBSET Nat, <<t, Q>> \in Fits(ks, d)[n]
          PROVE  /\ \A P \in SUBSET Nat : Q \subseteq P => <<t, P>> \in Fits(ks, d)[n]
                 /\ Places(t) # {}
                 /\ \A i \in Places(t) : i \in 0 .. Len(ks) - 1 /\ KeyAt(ks, i) \in Q
                 /\ \A i, j \in Places(t) : KeyAt(ks, i) = KeyAt(ks, j) => i = j
      <4> DEFINE e == t.entries
      <4>1. e \in Seq([ptr : S, begin : Nat])
        BY NodeIs
      <4>2. Sound(ks, R, e, Q) /\ Len(e) \in halfdim(d) .. d
        BY ONLY <3>4, <3>7, Zenon
      <4>3. \A i : i \in Places(t) <=> \E j \in 1 .. Len(e) : i \in Places(e[j].ptr)
        BY ONLY <3>6, <3>7, PlacesOfNode, Zenon
      <4> HIDE DEF e
      <4>4. (\A P \in SUBSET Nat : Q \subseteq P => Sound(ks, R, e, P)) /\ HoldsApart(ks, e, Q)
        BY ONLY <3>3, <3>7, <4>1, <4>2, NodesRegular, ks \in Seq(Nat), Zenon
      <4>5. \A P \in SUBSET Nat : Q \subseteq P => <<t, P>> \in Fits(ks, d)[n]
        BY ONLY <3>4, <3>7, <4>2, <4>4, Zenon DEF e
      <4>6. Places(t) # {}
        BY ONLY <4>3, <4>4 DEF HoldsApart
      <4>7. \A i \in Places(t) : i \in 0 .. Len(ks) - 1 /\ KeyAt(ks, i) \in Q
        BY ONLY <4>3, <4>4, Zenon DEF HoldsApart
      <4>8. \A i, j \in Places(t) : KeyAt(ks, i) = KeyAt(ks, j) => i = j
        <5> SUFFICES ASSUME NEW i \in Places(t), NEW j \in Places(t), KeyAt(ks, i) = KeyAt(ks, j)
                     PROVE  i = j
          BY Zenon
        <5>1. PICK m \in 1 .. Len(e) : i \in Places(e[m].ptr)
          BY ONLY <4>3, i \in Places(t), Zenon
        <5>2. PICK l \in 1 .. Len(e) : j \in Places(e[l].ptr)
          BY ONLY <4>3, j \in Places(t), Zenon
        <5> QED
          BY ONLY <4>4, <5>1, <5>2, KeyAt(ks, i) = KeyAt(ks, j) DEF HoldsApart
      <4> QED
        BY ONLY <4>5, <4>6, <4>7, <4>8, Zenon
    <3>8. Regular(ks, Even[n], Fits(ks, d)[n])
      <4>1. /\ \A c \in Even[n], Q \in SUBSET Nat, P \in SUBSET Nat :
                   <<c, Q>> \in Fits(ks, d)[n] /\ Q \subseteq P => <<c, P>> \in Fits(ks, d)[n]
            /\ \A c \in Even[n], Q \in SUBSET Nat : <<c, Q>> \in Fits(ks, d)[n] =>
                 /\ Places(c) # {}
                 /\ \A i \in Places(c) : i \in 0 .. Len(ks) - 1 /\ KeyAt(ks, i) \in Q
                 /\ \A i, j \in Places(c) : KeyAt(ks, i) = KeyAt(ks, j) => i = j
        BY ONLY <3>3, <3>7, Zenon
      <4> QED
        BY ONLY <3>5, <4>1 DEF Regular
    <3> QED
      BY <2>2, <3>8
  <2> QED
    BY <2>3, <2>4
<1> QED
  BY ONLY <1>2, Zenon

\* A key stays at its place when keys are put behind the others.
LEMMA KeysStay ==
  ASSUME NEW ks \in Seq(Nat), NEW kn \in Seq(Nat), Len(ks) <= Len(kn),
         \A i \in 1 .. Len(ks) : kn[i] = ks[i], NEW j \in Nat, j < Len(ks)
  PROVE  j < Len(kn) /\ KeyAt(kn, j) = KeyAt(ks, j)
<1>1. Len(ks) \in Nat /\ Len(kn) \in Nat
  OBVIOUS
<1>2. j + 1 \in 1 .. Len(ks)
  BY <1>1
<1> QED
  BY <1>1, <1>2 DEF KeyAt

\* A stream of keys that has grown: what the trees hold stays where it is.
LEMMA SoundStays ==
  ASSUME NEW ks \in Seq(Nat), NEW kn \in Seq(Nat), Len(ks) <= Len(kn),
         \A i \in 1 .. Len(ks) : kn[i] = ks[i],
         NEW R, NEW Rn, R \subseteq Rn, NEW S, NEW e \in Seq([ptr : S, begin : Nat]), NEW Q
  PROVE  Sound(ks, R, e, Q) => Sound(kn, Rn, e, Q)
<1> SUFFICES ASSUME Sound(ks, R, e, Q) PROVE Sound(kn, Rn, e, Q)
  OBVIOUS
<1>1. \A i \in 1 .. Len(e) : KeyAt(kn, e[i].begin) = KeyAt(ks, e[i].begin) /\ e[i].begin < Len(kn)
  <2>1. \A i \in 1 .. Len(e) : e[i].begin \in Nat /\ e[i].begin < Len(ks)
    BY EntriesHave DEF Sound
  <2> QED
    BY <2>1, KeysStay
<1>2. Len(e) \in Nat
  BY EntriesHave
<1>3. ASSUME NEW i \in 1 .. Len(e)
      PROVE  <<e[i].ptr, Share(kn, e, i, Q)>> \in Rn
  <2>1. i < Len(e) => i + 1 \in 1 .. Len(e)
    BY <1>2
  <2>2. Share(kn, e, i, Q) = Share(ks, e, i, Q)
    BY <1>1, <2>1, Zenon DEF Share
  <2>3. <<e[i].ptr, Share(ks, e, i, Q)>> \in R
    BY Zenon DEF Sound
  <2> QED
    BY <2>2, <2>3
<1>4. \A i, j \in 2 .. Len(e) : i < j => KeyAt(kn, e[i].begin) > KeyAt(kn, e[j].begin)
  <2>1. \A i, j \in 2 .. Len(e) : i \in 1 .. Len(e) /\ j \in 1 .. Len(e)
    BY <1>2
  <2>2. \A i, j \in 2 .. Len(e) : i < j => KeyAt(ks, e[i].begin) > KeyAt(ks, e[j].begin)
    BY DEF Sound
  <2> QED
    BY ONLY <1>1, <2>1, <2>2, Zenon
<1>5. e # <<>> /\ \A i \in 1 .. Len(e) : e[i].begin < Len(kn)
  BY <1>1 DEF Sound
<1> QED
  BY ONLY <1>3, <1>4, <1>5, Zenon DEF Sound

\* A tree that fits goes on to fit when keys are put behind the others.
LEMMA FitsStay ==
  ASSUME NEW ks \in Seq(Nat), NEW kn \in Seq(Nat), Len(ks) <= Len(kn),
         \A i \in 1 .. Len(ks) : kn[i] = ks[i], NEW d, NEW h \in 0 .. MaxItems
  PROVE  \A t, Q : <<t, Q>> \in Fits(ks, d)[h] => <<t, Q>> \in Fits(kn, d)[h]
<1> DEFINE T == {n \in 0 .. MaxItems : ~(Fits(ks, d)[n] \subseteq Fits(kn, d)[n])}
<1>1. MaxItems \in Nat /\ T \in SUBSET Nat
  BY BTreeAssumption
<1>2. ASSUME T # {} PROVE FALSE
  <2>1. PICK n \in T : \A j \in T : n <= j
    BY ONLY <1>1, <1>2, LeastOf
  <2>2. n \in 0 .. MaxItems /\ ~(Fits(ks, d)[n] \subseteq Fits(kn, d)[n])
    BY <2>1
  <2>3. CASE n = 0
    <3>1. Fits(ks, d)[0] = FitLeaves(ks) /\ Fits(kn, d)[0] = FitLeaves(kn)
      BY ONLY <2>2, <2>3, FitsAre, Zenon
    <3>2. \A x \in Leaves : x.vch_index \in Nat /\ (x.vch_index < Len(ks) =>
            x.vch_index < Len(kn) /\ KeyAt(kn, x.vch_index) = KeyAt(ks, x.vch_index))
      <4>1. \A x \in Leaves : x.vch_index \in Nat
        BY LeafIs
      <4> QED
        BY <4>1, KeysStay
    <3>3. FitLeaves(ks) \subseteq FitLeaves(kn)
      BY ONLY <3>2 DEF FitLeaves
    <3> QED
      BY ONLY <2>2, <2>3, <3>1, <3>3
  <2>4. CASE n # 0
    <3> DEFINE S == Even[n - 1]
               R == Fits(ks, d)[n - 1]
               Rn == Fits(kn, d)[n - 1]
    <3>1. n - 1 \in 0 .. MaxItems /\ ~(n <= n - 1)
      BY <1>1, <2>2, <2>4
    <3>2. n - 1 \notin T
      BY ONLY <2>1, <3>1, Zenon
    <3>3. R \subseteq Rn
      BY ONLY <3>1, <3>2, Zenon
    <3>4. Fits(ks, d)[n] = FitNodes(ks, d, S, R)
      BY ONLY <2>2, <2>4, FitsNext, Zenon
    <3>7. Fits(kn, d)[n] = FitNodes(kn, d, S, Rn)
      BY ONLY <2>2, <2>4, FitsNext, Zenon
    <3> HIDE DEF S, R, Rn
    <3>5. \A t \in NodesOver(S) : \A Q : Sound(ks, R, t.entries, Q) => Sound(kn, Rn, t.entries, Q)
      <4>1. \A t \in NodesOver(S) : t.entries \in Seq([ptr : S, begin : Nat])
        BY NodeIs
      <4> QED
        BY <3>3, <4>1, SoundStays
    <3>6. FitNodes(ks, d, S, R) \subseteq FitNodes(kn, d, S, Rn)
      BY ONLY <3>5 DEF FitNodes
    <3> QED
      BY ONLY <2>2, <3>4, <3>6, <3>7
  <2> QED
    BY <2>3, <2>4
<1>3. Fits(ks, d)[h] \subseteq Fits(kn, d)[h]
  BY ONLY <1>2, Zenon
<1> QED
  BY ONLY <1>3
-----------------------------------------------------------------------------
(* Arrays of entries: parts, exchanges, and what they hold.                *)

\* The entries of nodes over the trees S.
Entries(S) == [ptr : S, begin : Nat]

\* Adjacent values that descend.
LEMMA Descends ==
  ASSUME NEW n \in Nat, NEW f, \A i \in 2 .. n : f[i] \in Nat,
         \A i \in 2 .. n : i < n => f[i] > f[i + 1]
  PROVE  \A i, j \in 2 .. n : i < j => f[i] > f[j]
<1> SUFFICES ASSUME NEW i \in 2 .. n, NEW l \in 2 .. n, i < l, ~(f[i] > f[l]) PROVE FALSE
  OBVIOUS
<1> DEFINE T == {j \in 2 .. n : i < j /\ ~(f[i] > f[j])}
<1>1. T \in SUBSET Nat /\ T # {}
  OBVIOUS
<1>2. PICK j \in T : \A k \in T : j <= k
  BY ONLY <1>1, LeastOf
<1>3. j \in 2 .. n /\ i < j /\ ~(f[i] > f[j])
  BY <1>2
<1>4. j - 1 \in 2 .. n /\ j - 1 < n /\ (j - 1) + 1 = j /\ ~(j <= j - 1) /\ (i = j - 1 \/ i < j - 1)
  BY <1>3
<1>5. f[j - 1] > f[j] /\ f[j - 1] \in Nat /\ f[j] \in Nat /\ f[i] \in Nat
  BY <1>3, <1>4
<1>6. j - 1 \notin T
  BY ONLY <1>2, <1>4, Zenon
<1>7. CASE i = j - 1
  BY <1>3, <1>5, <1>7
<1>8. CASE i < j - 1
  <2>1. f[i] > f[j - 1]
    BY ONLY <1>4, <1>6, <1>8, Zenon
  <2> HIDE DEF T
  <2>2. \A x, y, z \in Nat : x > y /\ y > z => x > z
    OBVIOUS
  <2> QED
    BY ONLY <1>3, <1>5, <2>1, <2>2, Zenon
<1> QED
  BY <1>4, <1>7, <1>8

\* Trees that hold their shares bring their entries in order.
LEMMA SoundIf ==
  ASSUME NEW ks \in Seq(Nat), NEW S, NEW R, Regular(ks, S, R),
         NEW e \in Seq(Entries(S)), NEW Q \in SUBSET Nat, e # <<>>,
         \A i \in 1 .. Len(e) : e[i].begin < Len(ks),
         \A i \in 1 .. Len(e) : <<e[i].ptr, Share(ks, e, i, Q)>> \in R
  PROVE  Sound(ks, R, e, Q)
<1>1. e \in Seq([ptr : S, begin : Nat])
  BY DEF Entries
<1>2. Len(e) \in Nat /\ \A i \in 1 .. Len(e) : e[i].ptr \in S /\ e[i].begin \in Nat
  BY <1>1, EntriesHave
<1>3. \A i \in 1 .. Len(e) : KeyAt(ks, e[i].begin) \in Nat
  <2>1. \A i \in 1 .. Len(e) : e[i].begin + 1 \in 1 .. Len(ks)
    BY <1>2
  <2> QED
    BY <2>1 DEF KeyAt
<1>4. \A i \in 1 .. Len(e) : \E q : q \in Share(ks, e, i, Q)
  <2>1. \A i \in 1 .. Len(e) : Share(ks, e, i, Q) \in SUBSET Nat
    BY DEF Share
  <2>2. \A c \in S, P \in SUBSET Nat : <<c, P>> \in R => \E q : q \in P
    <3> SUFFICES ASSUME NEW c \in S, NEW P \in SUBSET Nat, <<c, P>> \in R PROVE \E q : q \in P
      OBVIOUS
    <3>1. Places(c) # {} /\ \A i \in Places(c) : KeyAt(ks, i) \in P
      BY ONLY Regular(ks, S, R), <<c, P>> \in R, c \in S, P \in SUBSET Nat, Zenon DEF Regular
    <3>2. PICK i : i \in Places(c)
      BY ONLY <3>1
    <3> QED
      BY ONLY <3>1, <3>2, Zenon
  <2> QED
    BY ONLY <1>2, <2>1, <2>2, \A i \in 1 .. Len(e) : <<e[i].ptr, Share(ks, e, i, Q)>> \in R
<1> DEFINE f == [i \in 2 .. Len(e) |-> KeyAt(ks, e[i].begin)]
<1>5. \A i \in 2 .. Len(e) : f[i] = KeyAt(ks, e[i].begin) /\ f[i] \in Nat /\ i \in 1 .. Len(e)
  BY <1>2, <1>3
<1>6. \A i \in 2 .. Len(e) : i < Len(e) => f[i] > f[i + 1]
  <2> SUFFICES ASSUME NEW i \in 2 .. Len(e), i < Len(e) PROVE f[i] > f[i + 1]
    OBVIOUS
  <2>1. i \in 1 .. Len(e) /\ i > 1 /\ i + 1 \in 2 .. Len(e)
    BY <1>2
  <2>2. PICK q : q \in Share(ks, e, i, Q)
    BY <1>4, <2>1
  <2>3. q \in Nat /\ KeyAt(ks, e[i].begin) >= q /\ q > KeyAt(ks, e[i + 1].begin)
    BY <2>1, <2>2 DEF Share
  <2> HIDE DEF f
  <2>4. f[i] \in Nat /\ f[i + 1] \in Nat /\ f[i] >= q /\ q > f[i + 1]
    BY <1>5, <2>1, <2>3
  <2>5. \A x, y, z \in Nat : x >= y /\ y > z => x > z
    OBVIOUS
  <2> QED
    BY ONLY <2>3, <2>4, <2>5, Zenon
<1> HIDE DEF f
<1>7. \A i, j \in 2 .. Len(e) : i < j => f[i] > f[j]
  BY ONLY <1>2, <1>5, <1>6, Descends
<1>8. \A i, j \in 2 .. Len(e) : i < j => KeyAt(ks, e[i].begin) > KeyAt(ks, e[j].begin)
  BY ONLY <1>5, <1>7, Zenon
<1> QED
  BY <1>8 DEF Sound

\* Entries p to m of a node give way to others.
Exchange(e, p, m, new) == SubSeq(e, 1, p - 1) \o new \o SubSeq(e, m + 1, Len(e))

\* f is e with entries p to m exchanged for the entries of new.
IsExchange(E, f, e, p, m, new) ==
  /\ f \in Seq(E)
  /\ Len(f) = Len(e) + Len(new) - (m + 1 - p)
  /\ \A i \in 1 .. p - 1 : f[i] = e[i]
  /\ \A i \in 1 .. Len(new) : f[(p - 1) + i] = new[i]
  /\ \A i \in m + 1 .. Len(e) : f[(p - 1) + Len(new) + (i - m)] = e[i]

\* What an exchange gives.
LEMMA Exchanged ==
  ASSUME NEW E, NEW e \in Seq(E), NEW new \in Seq(E),
         NEW p \in 1 .. Len(e), NEW m \in 1 .. Len(e), p <= m
  PROVE  IsExchange(E, Exchange(e, p, m, new), e, p, m, new)
<1> DEFINE a == SubSeq(e, 1, p - 1)
           b == SubSeq(e, m + 1, Len(e))
<1>0. Len(e) \in Nat /\ Len(new) \in Nat
  OBVIOUS
<1>1. a \in Seq(E) /\ Len(a) = p - 1 /\ \A i \in 1 .. p - 1 : a[i] = e[i]
  <2>1. 1 \in Nat \ {0} /\ p - 1 \in 0 .. Len(e) /\ 1 <= (p - 1) + 1 /\ (p - 1) + 1 - 1 = p - 1
        /\ \A i \in 1 .. p - 1 : 1 + i - 1 = i
    BY <1>0
  <2>2. /\ SubSeq(e, 1, p - 1) \in Seq(E) /\ Len(SubSeq(e, 1, p - 1)) = (p - 1) + 1 - 1
        /\ \A i \in 1 .. (p - 1) + 1 - 1 : SubSeq(e, 1, p - 1)[i] = e[1 + i - 1]
    BY ONLY <2>1, Part, e \in Seq(E)
  <2> QED
    BY ONLY <2>1, <2>2
<1>2. b \in Seq(E) /\ Len(b) = Len(e) - m /\ \A i \in m + 1 .. Len(e) : b[i - m] = e[i]
  <2>1. m + 1 \in Nat \ {0} /\ Len(e) \in 0 .. Len(e) /\ m + 1 <= Len(e) + 1
        /\ Len(e) + 1 - (m + 1) = Len(e) - m
        /\ \A i \in m + 1 .. Len(e) : i - m \in 1 .. Len(e) - m /\ (m + 1) + (i - m) - 1 = i
    BY <1>0
  <2>2. /\ SubSeq(e, m + 1, Len(e)) \in Seq(E) /\ Len(SubSeq(e, m + 1, Len(e))) = Len(e) + 1 - (m + 1)
        /\ \A i \in 1 .. Len(e) + 1 - (m + 1) : SubSeq(e, m + 1, Len(e))[i] = e[(m + 1) + i - 1]
    BY ONLY <2>1, Part, e \in Seq(E)
  <2> QED
    BY ONLY <2>1, <2>2
<1> HIDE DEF a, b
<1>3. /\ a \o new \in Seq(E) /\ Len(a \o new) = Len(a) + Len(new)
      /\ \A i \in 1 .. Len(a) : (a \o new)[i] = a[i]
      /\ \A i \in 1 .. Len(new) : (a \o new)[Len(a) + i] = new[i]
  <2>1. a \in Seq(E) /\ new \in Seq(E)
    BY <1>1
  <2>2. a \o new \in Seq(E) /\ Len(a \o new) = Len(a) + Len(new)
    BY ONLY <2>1, Joined
  <2>3. \A i \in 1 .. Len(a) : (a \o new)[i] = a[i]
    BY ONLY <2>1, Joined
  <2>4. \A i \in 1 .. Len(new) : (a \o new)[Len(a) + i] = new[i]
    BY ONLY <2>1, Joined
  <2> QED
    BY ONLY <2>2, <2>3, <2>4
<1> DEFINE c == a \o new
<1> HIDE DEF c
<1>4. /\ c \o b \in Seq(E) /\ Len(c \o b) = Len(c) + Len(b)
      /\ \A i \in 1 .. Len(c) : (c \o b)[i] = c[i]
      /\ \A i \in 1 .. Len(b) : (c \o b)[Len(c) + i] = b[i]
  <2>1. c \in Seq(E) /\ b \in Seq(E)
    BY <1>2, <1>3 DEF c
  <2>2. c \o b \in Seq(E) /\ Len(c \o b) = Len(c) + Len(b)
    BY ONLY <2>1, Joined
  <2>3. \A i \in 1 .. Len(c) : (c \o b)[i] = c[i]
    BY ONLY <2>1, Joined
  <2>4. \A i \in 1 .. Len(b) : (c \o b)[Len(c) + i] = b[i]
    BY ONLY <2>1, Joined
  <2> QED
    BY ONLY <2>2, <2>3, <2>4
<1> DEFINE f == c \o b
<1>5. Exchange(e, p, m, new) = f
  BY DEF Exchange, a, b, c
<1> HIDE DEF f
<1>6. /\ c \in Seq(E) /\ Len(c) = (p - 1) + Len(new)
      /\ \A i \in 1 .. p - 1 : c[i] = e[i]
      /\ \A i \in 1 .. Len(new) : c[(p - 1) + i] = new[i]
  BY <1>1, <1>3 DEF c
<1>7. /\ f \in Seq(E) /\ Len(f) = Len(c) + Len(b)
      /\ \A i \in 1 .. Len(c) : f[i] = c[i]
      /\ \A i \in 1 .. Len(b) : f[Len(c) + i] = b[i]
  BY <1>4 DEF f
<1>8. Len(f) = Len(e) + Len(new) - (m + 1 - p)
  BY ONLY <1>0, <1>2, <1>6, <1>7, p \in 1 .. Len(e), m \in 1 .. Len(e)
<1>9. \A i \in 1 .. p - 1 : f[i] = e[i]
  <2>1. \A i \in 1 .. p - 1 : i \in 1 .. Len(c)
    BY ONLY <1>0, <1>6, p \in 1 .. Len(e)
  <2> QED
    BY ONLY <1>6, <1>7, <2>1, Zenon
<1>10. \A i \in 1 .. Len(new) : f[(p - 1) + i] = new[i]
  <2>1. \A i \in 1 .. Len(new) : (p - 1) + i \in 1 .. Len(c)
    BY ONLY <1>0, <1>6, p \in 1 .. Len(e)
  <2> QED
    BY ONLY <1>6, <1>7, <2>1, Zenon
<1>11. \A i \in m + 1 .. Len(e) : f[(p - 1) + Len(new) + (i - m)] = e[i]
  <2>1. \A i \in m + 1 .. Len(e) : i - m \in 1 .. Len(b)
    BY ONLY <1>0, <1>2, m \in 1 .. Len(e)
  <2> QED
    BY ONLY <1>2, <1>6, <1>7, <2>1, Zenon
<1> QED
  BY ONLY <1>5, <1>7, <1>8, <1>9, <1>10, <1>11 DEF IsExchange

\* The keys that entries p to m of a node may hold.
Span(ks, e, p, m, Q) ==
  {q \in Q : /\ p > 1 => KeyAt(ks, e[p].begin) >= q
             /\ m < Len(e) => q > KeyAt(ks, e[m + 1].begin)}

\* Entries of a node are in order if what they give way to was.
LEMMA SoundExchange ==
  ASSUME NEW ks \in Seq(Nat), NEW S, NEW R, Regular(ks, S, R),
         NEW e \in Seq(Entries(S)), NEW new \in Seq(Entries(S)), NEW Q \in SUBSET Nat,
         NEW p \in 1 .. Len(e), NEW m \in 1 .. Len(e), p <= m,
         Sound(ks, R, e, Q), Sound(ks, R, new, Span(ks, e, p, m, Q)),
         p > 1 => KeyAt(ks, new[1].begin) = KeyAt(ks, e[p].begin)
  PROVE  Sound(ks, R, Exchange(e, p, m, new), Q)
<1> DEFINE f == Exchange(e, p, m, new)
           W == Span(ks, e, p, m, Q)
           n == Len(new)
           K(c, i) == KeyAt(ks, c[i].begin)
<1>1. /\ f \in Seq(Entries(S)) /\ Len(f) = Len(e) + n - (m + 1 - p)
      /\ \A i \in 1 .. p - 1 : f[i] = e[i]
      /\ \A i \in 1 .. n : f[(p - 1) + i] = new[i]
      /\ \A i \in m + 1 .. Len(e) : f[(p - 1) + n + (i - m)] = e[i]
  <2>1. IsExchange(Entries(S), f, e, p, m, new)
    BY Exchanged, Zenon
  <2> QED
    BY ONLY <2>1 DEF IsExchange, n
<1>2. Len(e) \in Nat /\ n \in Nat /\ n >= 1 /\ p \in Nat /\ m \in Nat
  BY DEF Sound
<1>3. W \in SUBSET Nat /\ W \subseteq Q
      /\ \A q \in W : (p > 1 => K(e, p) >= q) /\ (m < Len(e) => q > K(e, m + 1))
  BY DEF Span
<1>4. \A i \in 1 .. n : new[i].begin < Len(ks) /\ <<new[i].ptr, Share(ks, new, i, W)>> \in R
  BY DEF Sound
<1>5. \A i \in 1 .. Len(e) : e[i].begin < Len(ks) /\ <<e[i].ptr, Share(ks, e, i, Q)>> \in R
  BY DEF Sound
<1> HIDE DEF f, W
<1>6. \A c \in S, P \in SUBSET Nat, O \in SUBSET Nat : <<c, P>> \in R /\ P \subseteq O => <<c, O>> \in R
  BY ONLY Regular(ks, S, R), Zenon DEF Regular
<1>7. (\A i \in 1 .. n : new[i].ptr \in S) /\ (\A i \in 1 .. Len(e) : e[i].ptr \in S)
  <2>1. new \in Seq([ptr : S, begin : Nat]) /\ e \in Seq([ptr : S, begin : Nat])
    BY DEF Entries
  <2> QED
    BY ONLY <2>1, EntriesHave
<1>8. /\ \A c, i : Share(ks, c, i, Q) = {q \in Q : (i > 1 => K(c, i) >= q) /\ (i < Len(c) => q > K(c, i + 1))}
      /\ \A c, i : Share(ks, c, i, W) = {q \in W : (i > 1 => K(c, i) >= q) /\ (i < Len(c) => q > K(c, i + 1))}
  BY DEF Share
<1>9. p > 1 => K(new, 1) = K(e, p)
  OBVIOUS
<1> HIDE DEF n, K
<1>20. (\A i : K(e, i) = KeyAt(ks, e[i].begin)) /\ (\A i : K(f, i) = KeyAt(ks, f[i].begin))
       /\ (\A i : K(new, i) = KeyAt(ks, new[i].begin))
  BY Zenon DEF K
<1>21. /\ \A i \in 1 .. p - 1 : K(f, i) = K(e, i)
       /\ \A i \in 1 .. n : K(f, (p - 1) + i) = K(new, i)
       /\ \A i \in m + 1 .. Len(e) : K(f, (p - 1) + n + (i - m)) = K(e, i)
  BY ONLY <1>1, <1>20, Zenon
<1>10. ASSUME NEW i \in 1 .. p - 1
       PROVE  f[i].begin < Len(ks) /\ <<f[i].ptr, Share(ks, f, i, Q)>> \in R
  <2>1. f[i] = e[i] /\ K(f, i) = K(e, i) /\ i \in 1 .. Len(e) /\ i < Len(f) /\ i < Len(e)
    BY <1>1, <1>2, <1>21
  <2>2. K(f, i + 1) = K(e, i + 1)
    <3>1. CASE i + 1 \in 1 .. p - 1
      BY <1>21, <3>1
    <3>2. CASE i + 1 = p
      <4>1. p > 1 /\ 1 \in 1 .. n /\ (p - 1) + 1 = p
        BY <1>2, <3>2
      <4>2. K(f, p) = K(new, 1)
        BY <1>21, <4>1
      <4> QED
        BY <3>2, <4>1, <4>2, <1>9
    <3> QED
      BY <1>2, <3>1, <3>2
  <2>3. Share(ks, f, i, Q) = Share(ks, e, i, Q)
    BY ONLY <1>8, <2>1, <2>2, Zenon
  <2> QED
    BY <1>5, <2>1, <2>3
<1>11. ASSUME NEW j \in 1 .. n
       PROVE  f[(p - 1) + j].begin < Len(ks) /\ <<f[(p - 1) + j].ptr, Share(ks, f, (p - 1) + j, Q)>> \in R
  <2> DEFINE i == (p - 1) + j
  <2>1. f[i] = new[j] /\ K(f, i) = K(new, j) /\ i \in 1 .. Len(f)
    BY <1>1, <1>2, <1>21
  <2>2. j < n => K(f, i + 1) = K(new, j + 1)
    <3> SUFFICES ASSUME j < n PROVE K(f, i + 1) = K(new, j + 1)
      OBVIOUS
    <3>1. j + 1 \in 1 .. n /\ (p - 1) + (j + 1) = i + 1
      BY <1>2
    <3> QED
      BY ONLY <1>21, <3>1
  <2>3. j = n /\ i < Len(f) => m < Len(e) /\ K(f, i + 1) = K(e, m + 1)
    <3> SUFFICES ASSUME j = n, i < Len(f) PROVE m < Len(e) /\ K(f, i + 1) = K(e, m + 1)
      OBVIOUS
    <3>1. m + 1 \in m + 1 .. Len(e) /\ m < Len(e) /\ (p - 1) + n + ((m + 1) - m) = i + 1
      BY <1>1, <1>2
    <3> QED
      BY ONLY <1>21, <3>1
  <2>4. j > 1 \/ (j = 1 /\ (i > 1 => p > 1))
    BY <1>2
  <2>5. j < n \/ j = n
    BY <1>2
  <2> HIDE DEF i
  <2>6. Share(ks, new, j, W) \subseteq Share(ks, f, i, Q)
    <3> SUFFICES ASSUME NEW q \in Share(ks, new, j, W) PROVE q \in Share(ks, f, i, Q)
      OBVIOUS
    <3>1. q \in W /\ q \in Q /\ (j > 1 => K(new, j) >= q) /\ (j < n => q > K(new, j + 1))
      BY ONLY <1>3, <1>8, q \in Share(ks, new, j, W) DEF n
    <3>2. (p > 1 => K(e, p) >= q) /\ (m < Len(e) => q > K(e, m + 1))
      BY ONLY <1>3, <3>1
    <3>3. i > 1 => K(f, i) >= q
      BY ONLY <1>9, <2>1, <2>4, <3>1, <3>2, Zenon
    <3>4. i < Len(f) => q > K(f, i + 1)
      BY ONLY <2>2, <2>3, <2>5, <3>1, <3>2, Zenon
    <3> QED
      BY ONLY <1>8, <3>1, <3>3, <3>4
  <2>7. Share(ks, new, j, W) \in SUBSET Nat /\ Share(ks, f, i, Q) \in SUBSET Nat
    BY <1>3 DEF Share
  <2>8. <<f[i].ptr, Share(ks, f, i, Q)>> \in R
    BY ONLY <1>4, <1>6, <1>7, <2>1, <2>6, <2>7, j \in 1 .. n, Zenon
  <2> QED
    BY <1>4, <2>1, <2>8 DEF i
<1>12. ASSUME NEW l \in m + 1 .. Len(e)
       PROVE  f[(p - 1) + n + (l - m)].begin < Len(ks)
              /\ <<f[(p - 1) + n + (l - m)].ptr, Share(ks, f, (p - 1) + n + (l - m), Q)>> \in R
  <2> DEFINE i == (p - 1) + n + (l - m)
  <2>1. f[i] = e[l] /\ K(f, i) = K(e, l) /\ i \in 1 .. Len(f) /\ i > 1 /\ l > 1 /\ l \in 1 .. Len(e)
        /\ (i < Len(f) <=> l < Len(e))
    BY <1>1, <1>2, <1>21
  <2>2. l < Len(e) => K(f, i + 1) = K(e, l + 1)
    <3> SUFFICES ASSUME l < Len(e) PROVE K(f, i + 1) = K(e, l + 1)
      OBVIOUS
    <3>1. l + 1 \in m + 1 .. Len(e) /\ (p - 1) + n + ((l + 1) - m) = i + 1
      BY <1>2
    <3> QED
      BY ONLY <1>21, <3>1
  <2> HIDE DEF i
  <2>3. Share(ks, f, i, Q) = Share(ks, e, l, Q)
    BY ONLY <1>8, <2>1, <2>2
  <2> QED
    BY <1>5, <2>1, <2>3 DEF i
<1>13. \A i \in 1 .. Len(f) : f[i].begin < Len(ks) /\ <<f[i].ptr, Share(ks, f, i, Q)>> \in R
  <2> SUFFICES ASSUME NEW i \in 1 .. Len(f)
               PROVE  f[i].begin < Len(ks) /\ <<f[i].ptr, Share(ks, f, i, Q)>> \in R
    OBVIOUS
  <2>1. CASE i \in 1 .. p - 1
    BY <1>10, <2>1
  <2>2. CASE i \in p .. (p - 1) + n
    <3>1. i - (p - 1) \in 1 .. n /\ (p - 1) + (i - (p - 1)) = i
      BY <1>2, <2>2
    <3> QED
      BY ONLY <1>11, <3>1
  <2>3. CASE i > (p - 1) + n
    <3> DEFINE l == i - (p - 1) - n + m
    <3>1. l \in m + 1 .. Len(e) /\ (p - 1) + n + (l - m) = i
      BY <1>1, <1>2, <2>3
    <3> HIDE DEF l
    <3> QED
      BY ONLY <1>12, <3>1
  <2> QED
    BY <1>1, <1>2, <2>1, <2>2, <2>3
<1>14. f # <<>>
  <2>1. Len(f) >= 1
    BY <1>1, <1>2
  <2> QED
    BY <2>1
<1>15. Sound(ks, R, f, Q)
  BY ONLY <1>1, <1>13, <1>14, SoundIf, ks \in Seq(Nat), Q \in SUBSET Nat, Regular(ks, S, R), Zenon
<1> QED
  BY <1>15 DEF f

\* A part of a node holds what its entries may hold.
LEMMA SoundPart ==
  ASSUME NEW ks \in Seq(Nat), NEW S, NEW R, Regular(ks, S, R),
         NEW e \in Seq(Entries(S)), NEW Q \in SUBSET Nat, Sound(ks, R, e, Q),
         NEW p \in 1 .. Len(e), NEW m \in 1 .. Len(e), p <= m
  PROVE  Sound(ks, R, SubSeq(e, p, m), Span(ks, e, p, m, Q))
<1> DEFINE f == SubSeq(e, p, m)
           W == Span(ks, e, p, m, Q)
           K(c, i) == KeyAt(ks, c[i].begin)
<1>1. f \in Seq(Entries(S)) /\ Len(f) = m + 1 - p /\ \A j \in 1 .. m + 1 - p : f[j] = e[p + j - 1]
  <2> DEFINE E == Entries(S)
  <2>1. e \in Seq(E) /\ p \in Nat \ {0} /\ m \in 0 .. Len(e) /\ p <= m + 1
    OBVIOUS
  <2> HIDE DEF E
  <2>2. f \in Seq(E) /\ Len(f) = m + 1 - p /\ \A j \in 1 .. m + 1 - p : f[j] = e[p + j - 1]
    BY ONLY <2>1, Part
  <2> QED
    BY ONLY <2>2 DEF E
<1>2. Len(e) \in Nat /\ p \in Nat /\ m \in Nat
  OBVIOUS
<1>3. W \in SUBSET Nat /\ \A q : q \in W <=> q \in Q /\ (p > 1 => K(e, p) >= q) /\ (m < Len(e) => q > K(e, m + 1))
  BY DEF Span
<1>4. \A i \in 1 .. Len(e) : e[i].begin < Len(ks) /\ <<e[i].ptr, Share(ks, e, i, Q)>> \in R
  BY DEF Sound
<1>5. \A i \in 1 .. Len(e) : e[i].ptr \in S
  <2>1. e \in Seq([ptr : S, begin : Nat])
    BY DEF Entries
  <2> QED
    BY ONLY <2>1, EntriesHave
<1>6. /\ \A i, j \in 2 .. Len(e) : i < j => K(e, i) > K(e, j)
      /\ \A i \in 1 .. Len(e) : K(e, i) \in Nat
  <2>1. e \in Seq([ptr : S, begin : Nat])
    BY DEF Entries
  <2>2. \A i \in 1 .. Len(e) : K(e, i) \in Nat
    BY <2>1, BeginKeys
  <2> QED
    BY <2>2 DEF Sound
<1> HIDE DEF f, W
<1>7. \A c \in S, P \in SUBSET Nat, O \in SUBSET Nat : <<c, P>> \in R /\ P \subseteq O => <<c, O>> \in R
  BY ONLY Regular(ks, S, R), Zenon DEF Regular
<1>8. /\ \A c, i : Share(ks, c, i, Q) = {q \in Q : (i > 1 => K(c, i) >= q) /\ (i < Len(c) => q > K(c, i + 1))}
      /\ \A c, i : Share(ks, c, i, W) = {q \in W : (i > 1 => K(c, i) >= q) /\ (i < Len(c) => q > K(c, i + 1))}
  BY DEF Share
<1>9. \A j \in 1 .. m + 1 - p : K(f, j) = K(e, p + j - 1)
  BY <1>1
<1> HIDE DEF K
<1>10. ASSUME NEW j \in 1 .. Len(f)
       PROVE  f[j].begin < Len(ks) /\ <<f[j].ptr, Share(ks, f, j, W)>> \in R
  <2> DEFINE i == p + j - 1
  <2>1. i \in 1 .. Len(e) /\ f[j] = e[i] /\ K(f, j) = K(e, i) /\ i >= p /\ i <= m
    BY <1>1, <1>2, <1>9
  <2>2. j < Len(f) => i < Len(e) /\ K(f, j + 1) = K(e, i + 1)
    <3> SUFFICES ASSUME j < Len(f) PROVE i < Len(e) /\ K(f, j + 1) = K(e, i + 1)
      OBVIOUS
    <3>1. j + 1 \in 1 .. m + 1 - p /\ p + (j + 1) - 1 = i + 1 /\ i < Len(e)
      BY <1>1, <1>2
    <3> QED
      BY ONLY <1>9, <3>1
  <2>3. Share(ks, e, i, Q) \subseteq W
    <3> SUFFICES ASSUME NEW q \in Share(ks, e, i, Q) PROVE q \in W
      OBVIOUS
    <3>1. q \in Q /\ q \in Nat /\ (i > 1 => K(e, i) >= q) /\ (i < Len(e) => q > K(e, i + 1))
      BY <1>8
    <3>2. p > 1 => K(e, p) >= q
      <4> SUFFICES ASSUME p > 1 PROVE K(e, p) >= q
        OBVIOUS
      <4>1. CASE i = p
        BY <3>1, <4>1
      <4>2. CASE i # p
        <5>1. p \in 2 .. Len(e) /\ i \in 2 .. Len(e) /\ p < i /\ i > 1
          BY <1>2, <2>1, <4>2
        <5>2. K(e, p) > K(e, i) /\ K(e, i) >= q
          BY ONLY <1>6, <3>1, <5>1
        <5>3. K(e, p) \in Nat /\ K(e, i) \in Nat /\ q \in Nat
          BY <1>6, <2>1, <3>1
        <5> QED
          BY ONLY <5>2, <5>3
      <4> QED
        BY <4>1, <4>2
    <3>3. m < Len(e) => q > K(e, m + 1)
      <4> SUFFICES ASSUME m < Len(e) PROVE q > K(e, m + 1)
        OBVIOUS
      <4>1. CASE i = m
        BY <3>1, <4>1
      <4>2. CASE i # m
        <5>1. i + 1 \in 2 .. Len(e) /\ m + 1 \in 2 .. Len(e) /\ i + 1 < m + 1 /\ i < Len(e)
              /\ i + 1 \in 1 .. Len(e) /\ m + 1 \in 1 .. Len(e)
          BY <1>2, <2>1, <4>2
        <5>2. K(e, i + 1) > K(e, m + 1) /\ q > K(e, i + 1)
          BY ONLY <1>6, <3>1, <5>1
        <5>3. K(e, i + 1) \in Nat /\ K(e, m + 1) \in Nat /\ q \in Nat
          BY <1>6, <3>1, <5>1
        <5> QED
          BY ONLY <5>2, <5>3
      <4> QED
        BY <4>1, <4>2
    <3> QED
      BY ONLY <1>3, <3>1, <3>2, <3>3
  <2>4. j > 1 => i > 1
    BY <1>2
  <2> HIDE DEF i
  <2>5. Share(ks, e, i, Q) \subseteq Share(ks, f, j, W)
    BY ONLY <1>8, <2>1, <2>2, <2>3, <2>4
  <2>6. Share(ks, e, i, Q) \in SUBSET Nat /\ Share(ks, f, j, W) \in SUBSET Nat
    BY <1>3 DEF Share
  <2>7. <<f[j].ptr, Share(ks, f, j, W)>> \in R
    BY ONLY <1>4, <1>5, <1>7, <2>1, <2>5, <2>6, Zenon
  <2> QED
    BY <1>4, <2>1, <2>7
<1>11. f # <<>>
  <2>1. Len(f) >= 1
    BY <1>1, <1>2
  <2> QED
    BY <2>1
<1>12. Sound(ks, R, f, W)
  BY ONLY <1>1, <1>3, <1>10, <1>11, SoundIf, ks \in Seq(Nat), Regular(ks, S, R), Zenon
<1> QED
  BY <1>12 DEF f, W

\* Two nodes that meet at a key make one.
LEMMA SoundJoin ==
  ASSUME NEW ks \in Seq(Nat), NEW S, NEW R, Regular(ks, S, R),
         NEW a \in Seq(Entries(S)), NEW b \in Seq(Entries(S)), NEW Q \in SUBSET Nat,
         Sound(ks, R, a, {q \in Q : q > KeyAt(ks, b[1].begin)}),
         Sound(ks, R, b, {q \in Q : KeyAt(ks, b[1].begin) >= q})
  PROVE  a \o b \in Seq(Entries(S)) /\ Sound(ks, R, a \o b, Q)
<1> DEFINE f == a \o b
           K(c, i) == KeyAt(ks, c[i].begin)
           A == {q \in Q : q > K(b, 1)}
           B == {q \in Q : K(b, 1) >= q}
           n == Len(a)
<1>1. /\ f \in Seq(Entries(S)) /\ Len(f) = n + Len(b)
      /\ \A i \in 1 .. n : f[i] = a[i]
      /\ \A i \in 1 .. Len(b) : f[n + i] = b[i]
  <2> DEFINE E == Entries(S)
  <2>1. a \in Seq(E) /\ b \in Seq(E)
    OBVIOUS
  <2> HIDE DEF E
  <2>2. f \in Seq(E) /\ Len(f) = n + Len(b)
    BY ONLY <2>1, Joined
  <2>3. \A i \in 1 .. Len(a) : (a \o b)[i] = a[i]
    BY ONLY <2>1, Joined
  <2>4. \A i \in 1 .. Len(b) : (a \o b)[Len(a) + i] = b[i]
    BY ONLY <2>1, Joined
  <2> QED
    BY ONLY <2>2, <2>3, <2>4 DEF E
<1>2. n \in Nat /\ n >= 1 /\ Len(b) \in Nat /\ Len(b) >= 1
  BY DEF Sound
<1>3. \A i \in 1 .. n : a[i].begin < Len(ks) /\ <<a[i].ptr, Share(ks, a, i, A)>> \in R
  BY DEF Sound
<1>4. \A i \in 1 .. Len(b) : b[i].begin < Len(ks) /\ <<b[i].ptr, Share(ks, b, i, B)>> \in R
  BY DEF Sound
<1>5. (\A i \in 1 .. n : a[i].ptr \in S) /\ (\A i \in 1 .. Len(b) : b[i].ptr \in S)
  <2>1. a \in Seq([ptr : S, begin : Nat]) /\ b \in Seq([ptr : S, begin : Nat])
    BY DEF Entries
  <2> QED
    BY ONLY <2>1, EntriesHave
<1>6. A \in SUBSET Nat /\ B \in SUBSET Nat /\ (\A q : q \in A <=> q \in Q /\ q > K(b, 1))
      /\ (\A q : q \in B <=> q \in Q /\ K(b, 1) >= q)
  OBVIOUS
<1> HIDE DEF f, A, B
<1>7. \A c \in S, P \in SUBSET Nat, O \in SUBSET Nat : <<c, P>> \in R /\ P \subseteq O => <<c, O>> \in R
  BY ONLY Regular(ks, S, R), Zenon DEF Regular
<1>8. \A P, c, i : Share(ks, c, i, P) = {q \in P : (i > 1 => K(c, i) >= q) /\ (i < Len(c) => q > K(c, i + 1))}
  BY DEF Share
<1>9. (\A i \in 1 .. n : K(f, i) = K(a, i)) /\ (\A i \in 1 .. Len(b) : K(f, n + i) = K(b, i))
  BY <1>1
<1> HIDE DEF K
<1>10. ASSUME NEW i \in 1 .. n
       PROVE  f[i].begin < Len(ks) /\ <<f[i].ptr, Share(ks, f, i, Q)>> \in R
  <2>1. f[i] = a[i] /\ K(f, i) = K(a, i)
    BY <1>1, <1>9
  <2>2. CASE i < n
    <3>1. i + 1 \in 1 .. n /\ i < Len(f)
      BY <1>1, <1>2, <2>2
    <3>2. K(f, i + 1) = K(a, i + 1)
      BY ONLY <1>9, <3>1
    <3>3. Share(ks, a, i, A) \subseteq Share(ks, f, i, Q)
      BY ONLY <1>6, <1>8, <2>1, <2>2, <3>2 DEF n
    <3>4. Share(ks, a, i, A) \in SUBSET Nat /\ Share(ks, f, i, Q) \in SUBSET Nat
      BY <1>6 DEF Share
    <3>5. <<f[i].ptr, Share(ks, f, i, Q)>> \in R
      BY ONLY <1>3, <1>5, <1>7, <2>1, <3>3, <3>4, i \in 1 .. n, Zenon
    <3> QED
      BY <1>3, <2>1, <3>5
  <2>3. CASE i = n
    <3>1. 1 \in 1 .. Len(b)
      BY <1>2
    <3>2. K(f, i + 1) = K(b, 1)
      BY ONLY <1>9, <2>3, <3>1
    <3>3. Share(ks, a, i, A) \subseteq Share(ks, f, i, Q)
      BY ONLY <1>6, <1>8, <2>1, <3>2
    <3>4. Share(ks, a, i, A) \in SUBSET Nat /\ Share(ks, f, i, Q) \in SUBSET Nat
      BY <1>6 DEF Share
    <3>5. <<f[i].ptr, Share(ks, f, i, Q)>> \in R
      BY ONLY <1>3, <1>5, <1>7, <2>1, <3>3, <3>4, i \in 1 .. n, Zenon
    <3> QED
      BY <1>3, <2>1, <3>5
  <2> QED
    BY <1>2, <2>2, <2>3
<1>11. ASSUME NEW j \in 1 .. Len(b)
       PROVE  f[n + j].begin < Len(ks) /\ <<f[n + j].ptr, Share(ks, f, n + j, Q)>> \in R
  <2> DEFINE i == n + j
  <2>1. f[i] = b[j] /\ K(f, i) = K(b, j) /\ (j < Len(b) <=> i < Len(f))
    BY <1>1, <1>2, <1>9
  <2>2. j < Len(b) => K(f, i + 1) = K(b, j + 1)
    <3> SUFFICES ASSUME j < Len(b) PROVE K(f, i + 1) = K(b, j + 1)
      OBVIOUS
    <3>1. j + 1 \in 1 .. Len(b) /\ n + (j + 1) = i + 1
      BY <1>2
    <3> QED
      BY ONLY <1>9, <3>1
  <2>4. j = 1 \/ j > 1
    BY <1>2
  <2> HIDE DEF i
  <2>3. Share(ks, b, j, B) \subseteq Share(ks, f, i, Q)
    <3> SUFFICES ASSUME NEW q \in Share(ks, b, j, B) PROVE q \in Share(ks, f, i, Q)
      OBVIOUS
    <3>1. q \in Q /\ K(b, 1) >= q /\ (j > 1 => K(b, j) >= q) /\ (j < Len(b) => q > K(b, j + 1))
      BY ONLY <1>6, <1>8, q \in Share(ks, b, j, B)
    <3>2. K(b, j) >= q
      BY ONLY <2>4, <3>1, Zenon
    <3> QED
      BY ONLY <1>8, <2>1, <2>2, <3>1, <3>2
  <2>5. Share(ks, b, j, B) \in SUBSET Nat /\ Share(ks, f, i, Q) \in SUBSET Nat
    BY <1>6 DEF Share
  <2>6. <<f[i].ptr, Share(ks, f, i, Q)>> \in R
    BY ONLY <1>4, <1>5, <1>7, <2>1, <2>3, <2>5, j \in 1 .. Len(b), Zenon
  <2> QED
    BY <1>4, <2>1, <2>6 DEF i
<1>12. \A i \in 1 .. Len(f) : f[i].begin < Len(ks) /\ <<f[i].ptr, Share(ks, f, i, Q)>> \in R
  <2> SUFFICES ASSUME NEW i \in 1 .. Len(f)
               PROVE  f[i].begin < Len(ks) /\ <<f[i].ptr, Share(ks, f, i, Q)>> \in R
    OBVIOUS
  <2>1. CASE i \in 1 .. n
    BY <1>10, <2>1
  <2>2. CASE i > n
    <3>1. i - n \in 1 .. Len(b) /\ n + (i - n) = i
      BY <1>1, <1>2, <2>2
    <3> QED
      BY ONLY <1>11, <3>1
  <2> QED
    BY <1>2, <2>1, <2>2
<1>13. f # <<>>
  <2>1. Len(f) >= 1
    BY <1>1, <1>2
  <2> QED
    BY <2>1
<1>14. Sound(ks, R, f, Q)
  BY ONLY <1>1, <1>12, <1>13, SoundIf, ks \in Seq(Nat), Q \in SUBSET Nat, Regular(ks, S, R), Zenon
<1> QED
  BY <1>1, <1>14 DEF f

\* The place that a descent goes on from: it is the last that begins behind the key, and
\* the key, if the node may hold it, is in its share.
IsLocated(S, R, t, Q, k) ==
  /\ LocateIn(t, k) = Cardinality({i \in 2 .. Len(t.entries) : fkeylt(KeyOf(t.entries[i].begin), k)})
  /\ k \in Q => k \in Share(key, t.entries, LocateIn(t, k) + 1, Q)

\* The descent takes the entry that may hold the key, and no other may.
LEMMA LocateShare ==
  ASSUME NEW S, NEW R, key \in Seq(Nat), NEW t \in NodesOver(S), NEW Q \in SUBSET Nat,
         Sound(key, R, t.entries, Q), NEW k \in Nat
  PROVE  IsLocated(S, R, t, Q, k)
<1> DEFINE e == t.entries
           n == Len(e)
           le == [i \in 1 .. n |-> fkeylt(Rgetdata(key, e[i].begin), k)]
           K(i) == KeyAt(key, e[i].begin)
<1>1. e \in Seq([ptr : S, begin : Nat]) /\ n >= 2 /\ n \in Nat
  <2>1. t.entries \in Seq([ptr : S, begin : Nat]) /\ Len(t.entries) >= 2
    BY NodeIs, Zenon
  <2> QED
    BY ONLY <2>1, EntriesHave DEF e, n
<1>2. \A i \in 1 .. n : K(i) \in Nat
  BY <1>1, BeginKeys
<1>3. \A i, j \in 2 .. n : i < j => K(i) > K(j)
  BY DEF Sound
<1>4. le \in Seq(BOOLEAN) /\ Len(le) = n /\ \A i \in 1 .. n : le[i] <=> K(i) >= k
  <2>1. \A i \in 1 .. n : fkeylt(Rgetdata(key, e[i].begin), k) \in BOOLEAN
    BY DEF fkeylt
  <2>2. le \in [1 .. n -> BOOLEAN]
    BY <2>1, Zenon
  <2>3. le \in Seq(BOOLEAN) /\ Len(le) = n
    <3> HIDE DEF le
    <3> QED
      BY ONLY <1>1, <2>2
  <2> QED
    BY <2>3 DEF fkeylt, Rgetdata, KeyAt
<1>5. LocateIn(t, k) = Locate(le)
  BY DEF LocateIn
<1>6. {i \in 2 .. n : fkeylt(KeyOf(e[i].begin), k)} = {i \in 2 .. n : K(i) >= k}
  BY DEF fkeylt, KeyOf, Rgetdata, KeyAt
<1> HIDE DEF K, le
<1>7. \A i, j \in 2 .. n : i <= j /\ le[j] => le[i]
  <2> SUFFICES ASSUME NEW i \in 2 .. n, NEW j \in 2 .. n, i <= j, le[j] PROVE le[i]
    BY Zenon
  <2>1. i \in 1 .. n /\ j \in 1 .. n /\ (i < j \/ i = j)
    BY <1>1
  <2>2. K(j) >= k /\ K(i) \in Nat /\ K(j) \in Nat
    BY <1>2, <1>4, <2>1
  <2>3. K(i) >= k
    <3>1. CASE i = j
      BY <2>2, <3>1
    <3>2. CASE i < j
      <4>1. K(i) > K(j)
        BY <1>3, <3>2
      <4> QED
        BY ONLY <2>2, <4>1, k \in Nat
    <3> QED
      BY <2>1, <3>1, <3>2
  <2> QED
    BY <1>4, <2>1, <2>3
<1>8. /\ Locate(le) = Cardinality({i \in 2 .. n : le[i]})
      /\ Locate(le) \in 0 .. n - 1
      /\ \A i \in 2 .. n : le[i] <=> i <= Locate(le) + 1
  <2>1. Len(le) >= 2 /\ \A i, j \in 2 .. Len(le) : i <= j /\ le[j] => le[i]
    BY <1>1, <1>4, <1>7
  <2>2. /\ Locate(le) = Cardinality({i \in 2 .. Len(le) : le[i]})
        /\ Locate(le) \in 0 .. Len(le) - 1
        /\ \A i \in 2 .. Len(le) : le[i] <=> i <= Locate(le) + 1
    BY ONLY <1>4, <2>1, LocateFindsLast
  <2> QED
    BY ONLY <1>4, <2>2
<1>9. {i \in 2 .. n : le[i]} = {i \in 2 .. n : K(i) >= k}
  <2>1. \A i \in 2 .. n : i \in 1 .. n
    BY <1>1
  <2> QED
    BY ONLY <1>4, <2>1
<1> DEFINE m == Locate(le)
<1>10. k \in Q => k \in Share(key, e, m + 1, Q)
  <2> SUFFICES ASSUME k \in Q PROVE k \in Share(key, e, m + 1, Q)
    OBVIOUS
  <2>1. m + 1 > 1 => K(m + 1) >= k
    <3> SUFFICES ASSUME m + 1 > 1 PROVE K(m + 1) >= k
      OBVIOUS
    <3>1. m + 1 \in 2 .. n /\ m + 1 \in 1 .. n /\ m + 1 <= m + 1
      BY <1>1, <1>8
    <3> QED
      BY <1>4, <1>8, <3>1
  <2>2. m + 1 < n => k > K((m + 1) + 1)
    <3> SUFFICES ASSUME m + 1 < n PROVE k > K((m + 1) + 1)
      OBVIOUS
    <3>1. (m + 1) + 1 \in 2 .. n /\ (m + 1) + 1 \in 1 .. n /\ ~((m + 1) + 1 <= m + 1)
      BY <1>1, <1>8
    <3>2. ~(K((m + 1) + 1) >= k) /\ K((m + 1) + 1) \in Nat
      BY <1>2, <1>4, <1>8, <3>1
    <3> QED
      BY <3>2
  <2> HIDE DEF m
  <2> QED
    BY <2>1, <2>2 DEF Share, K
<1>11. LocateIn(t, k) = Cardinality({i \in 2 .. n : fkeylt(KeyOf(e[i].begin), k)})
  BY ONLY <1>5, <1>6, <1>8, <1>9, Zenon
<1>12. k \in Q => k \in Share(key, e, LocateIn(t, k) + 1, Q)
  BY ONLY <1>5, <1>10, Zenon
<1> QED
  BY ONLY <1>11, <1>12, Zenon DEF IsLocated, n, e

\* The share of all the entries is all.
LEMMA SpanOfAll ==
  ASSUME NEW ks, NEW e, NEW Q
  PROVE  Span(ks, e, 1, Len(e), Q) = Q
BY DEF Span

\* The span of one entry is its share.
LEMMA SpanOfOne ==
  ASSUME NEW ks, NEW e, NEW i, NEW Q
  PROVE  Span(ks, e, i, i, Q) = Share(ks, e, i, Q)
BY DEF Span, Share

\* A node of one entry.
LEMMA SoundOne ==
  ASSUME NEW ks, NEW S, NEW R, NEW x \in Entries(S), NEW Q, x.begin < Len(ks), <<x.ptr, Q>> \in R
  PROVE  <<x>> \in Seq(Entries(S)) /\ Len(<<x>>) = 1 /\ <<x>>[1] = x /\ Sound(ks, R, <<x>>, Q)
<1>1. Len(<<x>>) = 1 /\ <<x>>[1] = x /\ <<x>> # <<>> /\ <<x>> \in Seq(Entries(S))
  OBVIOUS
<1> DEFINE e == <<x>>
<1> HIDE DEF e
<1>2. Len(e) = 1 /\ e[1] = x /\ e # <<>>
  BY <1>1 DEF e
<1>3. Share(ks, e, 1, Q) = Q
  BY <1>2 DEF Share
<1>4. \A i \in 1 .. Len(e) : i = 1
  BY <1>2
<1>5. \A i, j \in 2 .. Len(e) : FALSE
  BY <1>2
<1>6. Sound(ks, R, e, Q)
  BY <1>2, <1>3, <1>4, <1>5 DEF Sound
<1> QED
  BY <1>1, <1>6 DEF e

\* Two entries behind each other are a pair.
LEMMA Pair ==
  ASSUME NEW x, NEW y
  PROVE  <<x>> \o <<y>> = <<x, y>>
<1> DEFINE S == {x, y}
           a == <<x>>
           b == <<y>>
           c == <<x, y>>
<1>1. a \in Seq(S) /\ Len(a) = 1 /\ a[1] = x /\ b \in Seq(S) /\ Len(b) = 1 /\ b[1] = y
  OBVIOUS
<1>2. c \in Seq(S) /\ Len(c) = 2 /\ c[1] = x /\ c[2] = y
  OBVIOUS
<1> HIDE DEF S, a, b, c
<1>3. a \o b \in Seq(S) /\ Len(a \o b) = 2
  BY ONLY <1>1, Joined
<1>4. (a \o b)[1] = x
  <2>1. 1 \in 1 .. Len(a)
    BY ONLY <1>1
  <2>2. \A i \in 1 .. Len(a) : (a \o b)[i] = a[i]
    BY ONLY <1>1, Joined
  <2> QED
    BY ONLY <1>1, <2>1, <2>2
<1>5. (a \o b)[2] = y
  <2>1. 1 \in 1 .. Len(b) /\ Len(a) + 1 = 2
    BY ONLY <1>1
  <2>2. \A i \in 1 .. Len(b) : (a \o b)[Len(a) + i] = b[i]
    BY ONLY <1>1, Joined
  <2> QED
    BY ONLY <1>1, <2>1, <2>2
<1>6. \A i \in 1 .. Len(a \o b) : i = 1 \/ i = 2
  BY ONLY <1>3
<1>7. a \o b = c
  <2>1. \A i \in 1 .. Len(a \o b) : (a \o b)[i] = c[i]
    BY ONLY <1>2, <1>4, <1>5, <1>6
  <2> QED
    BY ONLY <1>2, <1>3, <2>1, SameElements
<1> QED
  BY <1>7 DEF a, b, c

\* Two entries that meet at a key.
LEMMA SoundTwo ==
  ASSUME NEW ks \in Seq(Nat), NEW S, NEW R, Regular(ks, S, R),
         NEW x \in Entries(S), NEW y \in Entries(S), NEW Q \in SUBSET Nat,
         x.begin < Len(ks), y.begin < Len(ks),
         <<x.ptr, {q \in Q : q > KeyAt(ks, y.begin)}>> \in R,
         <<y.ptr, {q \in Q : KeyAt(ks, y.begin) >= q}>> \in R
  PROVE  /\ <<x, y>> \in Seq(Entries(S)) /\ Len(<<x, y>>) = 2
         /\ <<x, y>>[1] = x /\ <<x, y>>[2] = y
         /\ Sound(ks, R, <<x, y>>, Q)
<1> DEFINE A == {q \in Q : q > KeyAt(ks, y.begin)}
           B == {q \in Q : KeyAt(ks, y.begin) >= q}
           E == Entries(S)
           a == <<x>>
           b == <<y>>
<1>1. a \in Seq(E) /\ Sound(ks, R, a, A) /\ b \in Seq(E) /\ b[1] = y /\ Sound(ks, R, b, B)
  <2> HIDE DEF A, B
  <2>1. <<x.ptr, A>> \in R /\ <<y.ptr, B>> \in R
    BY DEF A, B
  <2> QED
    BY <2>1, SoundOne, Zenon
<1>2. A = {q \in Q : q > KeyAt(ks, b[1].begin)} /\ B = {q \in Q : KeyAt(ks, b[1].begin) >= q}
  BY <1>1
<1>3. a \o b = <<x, y>>
  BY Pair, Zenon
<1> HIDE DEF A, B, a, b
<1>4. a \o b \in Seq(E) /\ Sound(ks, R, a \o b, Q)
  <2>1. Sound(ks, R, a, {q \in Q : q > KeyAt(ks, b[1].begin)})
        /\ Sound(ks, R, b, {q \in Q : KeyAt(ks, b[1].begin) >= q})
    BY ONLY <1>1, <1>2, Zenon
  <2> QED
    BY ONLY <1>1, <2>1, SoundJoin, ks \in Seq(Nat), Regular(ks, S, R), Q \in SUBSET Nat, Zenon DEF E
<1> QED
  BY <1>3, <1>4

\* The first place of a node does not matter.

\* A node of the entries b may begin elsewhere: c is what it is then.
IsBegun(ks, S, R, Q, b, begin, c) ==
  /\ c \in Seq(Entries(S)) /\ Len(c) = Len(b)
  /\ c[1].begin = begin
  /\ \A i \in 1 .. Len(b) : c[i].ptr = b[i].ptr
  /\ Sound(ks, R, c, Q)

\* The begin of a sound node's first entry may be set to any place of the stream.
LEMMA SoundBegun ==
  ASSUME NEW ks, NEW S, NEW R, NEW b \in Seq(Entries(S)), NEW Q, Sound(ks, R, b, Q),
         NEW begin \in Nat, begin < Len(ks)
  PROVE  IsBegun(ks, S, R, Q, b, begin, Begun(b, begin))
<1> DEFINE c == Begun(b, begin)
           E == Entries(S)
<1>1. Len(b) \in Nat /\ DOMAIN b = 1 .. Len(b) /\ 1 \in 1 .. Len(b) /\ \A i \in 1 .. Len(b) : b[i] \in E
  BY DEF Sound
<1> DEFINE x == [ptr |-> b[1].ptr, begin |-> begin]
<1>2. x \in E /\ x.ptr = b[1].ptr /\ x.begin = begin
  BY <1>1 DEF Entries
<1> HIDE DEF x, E
<1>3. c = [b EXCEPT ![1] = x]
  BY DEF Begun, x
<1> HIDE DEF c
<1>4. c \in Seq(E) /\ Len(c) = Len(b) /\ c[1] = x /\ \A i \in 1 .. Len(b) : i # 1 => c[i] = b[i]
  <2>1. b \in Seq(E)
    BY DEF E
  <2> QED
    BY ONLY <1>1, <1>2, <1>3, <2>1
<1>5. \A i \in 1 .. Len(b) : c[i].ptr = b[i].ptr /\ (i # 1 => c[i].begin = b[i].begin)
  BY ONLY <1>2, <1>4
<1>6. ASSUME NEW i \in 1 .. Len(b) PROVE Share(ks, c, i, Q) = Share(ks, b, i, Q)
  <2>1. i > 1 => c[i].begin = b[i].begin
    BY ONLY <1>5, i \in 1 .. Len(b)
  <2>2. i < Len(c) => i < Len(b) /\ c[i + 1].begin = b[i + 1].begin
    <3> SUFFICES ASSUME i < Len(c) PROVE i < Len(b) /\ c[i + 1].begin = b[i + 1].begin
      OBVIOUS
    <3>1. i + 1 \in 1 .. Len(b) /\ i + 1 # 1
      BY <1>1, <1>4
    <3> QED
      BY ONLY <1>4, <1>5, <3>1, i < Len(c)
  <2> QED
    BY <1>4, <2>1, <2>2 DEF Share
<1>7. \A i \in 1 .. Len(c) : c[i].begin < Len(ks) /\ <<c[i].ptr, Share(ks, c, i, Q)>> \in R
  <2>1. \A i \in 1 .. Len(b) : b[i].begin < Len(ks) /\ <<b[i].ptr, Share(ks, b, i, Q)>> \in R
    BY DEF Sound
  <2>2. \A i \in 1 .. Len(c) : c[i].begin < Len(ks)
    <3> SUFFICES ASSUME NEW i \in 1 .. Len(c) PROVE c[i].begin < Len(ks)
      OBVIOUS
    <3>1. CASE i = 1
      BY <1>2, <1>4, <3>1
    <3>2. CASE i # 1
      BY <1>4, <1>5, <2>1, <3>2
    <3> QED
      BY <3>1, <3>2
  <2> QED
    BY ONLY <1>4, <1>5, <1>6, <2>1, <2>2
<1>8. \A i, j \in 2 .. Len(c) : i < j => KeyAt(ks, c[i].begin) > KeyAt(ks, c[j].begin)
  <2>1. \A i \in 2 .. Len(c) : i \in 1 .. Len(b) /\ i # 1 /\ i \in 2 .. Len(b)
    BY <1>1, <1>4
  <2>2. \A i, j \in 2 .. Len(b) : i < j => KeyAt(ks, b[i].begin) > KeyAt(ks, b[j].begin)
    BY DEF Sound
  <2> QED
    BY ONLY <1>5, <2>1, <2>2, Zenon
<1>9. c # <<>>
  BY <1>1, <1>4
<1>10. Sound(ks, R, c, Q)
  BY ONLY <1>7, <1>8, <1>9, Zenon DEF Sound
<1>11. c[1].begin = begin
  BY <1>2, <1>4
<1> QED
  BY ONLY <1>4, <1>5, <1>10, <1>11, Zenon DEF IsBegun, c, E

\* The two parts of a node, over the keys from which their meeting parts them.
Meet(ks, S, R, Q, a, b) ==
  /\ a \in Seq(Entries(S)) /\ b \in Seq(Entries(S)) /\ b[1].begin < Len(ks)
  /\ Sound(ks, R, a, {q \in Q : q > KeyAt(ks, b[1].begin)})
  /\ Sound(ks, R, b, {q \in Q : KeyAt(ks, b[1].begin) >= q})

\* A sound node that is cut in two makes two sound ones that meet at a key.
LEMMA SoundHalves ==
  ASSUME NEW ks \in Seq(Nat), NEW S, NEW R, Regular(ks, S, R), NEW Q \in SUBSET Nat,
         NEW a \in Seq(Entries(S)), NEW b \in Seq(Entries(S)), Len(a) >= 1, Len(b) >= 1,
         Sound(ks, R, a \o b, Q)
  PROVE  Meet(ks, S, R, Q, a, b)
<1> DEFINE E == Entries(S)
           f == a \o b
           n == Len(a)
           l == Len(b)
<1>1. /\ f \in Seq(E) /\ Len(f) = n + l
      /\ \A i \in 1 .. n : f[i] = a[i]
      /\ \A i \in 1 .. l : f[n + i] = b[i]
  <2>1. a \in Seq(E) /\ b \in Seq(E)
    OBVIOUS
  <2> HIDE DEF E
  <2>2. f \in Seq(E) /\ Len(f) = n + Len(b)
    BY ONLY <2>1, Joined
  <2>3. \A i \in 1 .. Len(a) : (a \o b)[i] = a[i]
    BY ONLY <2>1, Joined
  <2>4. \A i \in 1 .. Len(b) : (a \o b)[Len(a) + i] = b[i]
    BY ONLY <2>1, Joined
  <2> QED
    BY ONLY <2>2, <2>3, <2>4
<1>2. n \in Nat /\ l \in Nat /\ n >= 1 /\ l >= 1 /\ Sound(ks, R, f, Q) /\ a \in Seq(E) /\ b \in Seq(E)
  OBVIOUS
<1>3. /\ 1 \in 1 .. Len(f) /\ n \in 1 .. Len(f) /\ 1 <= n
      /\ n + 1 \in 1 .. Len(f) /\ Len(f) \in 1 .. Len(f) /\ n + 1 <= Len(f)
      /\ n + 1 > 1 /\ n < Len(f) /\ ~(1 > 1) /\ ~(Len(f) < Len(f))
  BY <1>1, <1>2
<1>4. f[n + 1] = b[1] /\ b[1].begin < Len(ks)
  <2>1. 1 \in 1 .. l
    BY <1>2
  <2>2. f[n + 1] = b[1]
    BY ONLY <1>1, <2>1
  <2>3. f[n + 1].begin < Len(ks)
    BY ONLY <1>2, <1>3 DEF Sound
  <2> QED
    BY <2>2, <2>3
<1> HIDE DEF f, n, l
<1>5. SubSeq(f, 1, n) = a
  <2>1. 1 \in Nat \ {0} /\ n \in 0 .. Len(f) /\ 1 <= n + 1 /\ n + 1 - 1 = n /\ Len(a) = n
        /\ \A i \in 1 .. n : 1 + i - 1 = i
    BY <1>1, <1>2 DEF n
  <2>2. /\ SubSeq(f, 1, n) \in Seq(E) /\ Len(SubSeq(f, 1, n)) = n
        /\ \A i \in 1 .. n : SubSeq(f, 1, n)[i] = a[i]
    <3> HIDE DEF E
    <3>1. /\ SubSeq(f, 1, n) \in Seq(E) /\ Len(SubSeq(f, 1, n)) = n + 1 - 1
          /\ \A i \in 1 .. n + 1 - 1 : SubSeq(f, 1, n)[i] = f[1 + i - 1]
      BY ONLY <1>1, <2>1, Part
    <3> QED
      BY ONLY <1>1, <2>1, <3>1
  <2> HIDE DEF E
  <2> QED
    BY ONLY <1>2, <2>1, <2>2, SameElements
<1>6. SubSeq(f, n + 1, Len(f)) = b
  <2>1. n + 1 \in Nat \ {0} /\ Len(f) \in 0 .. Len(f) /\ n + 1 <= Len(f) + 1 /\ Len(f) + 1 - (n + 1) = l /\ Len(b) = l
        /\ \A i \in 1 .. l : (n + 1) + i - 1 = n + i
    BY <1>1, <1>2 DEF l
  <2>2. /\ SubSeq(f, n + 1, Len(f)) \in Seq(E) /\ Len(SubSeq(f, n + 1, Len(f))) = l
        /\ \A i \in 1 .. l : SubSeq(f, n + 1, Len(f))[i] = b[i]
    <3> HIDE DEF E
    <3>1. /\ SubSeq(f, n + 1, Len(f)) \in Seq(E) /\ Len(SubSeq(f, n + 1, Len(f))) = Len(f) + 1 - (n + 1)
          /\ \A i \in 1 .. Len(f) + 1 - (n + 1) : SubSeq(f, n + 1, Len(f))[i] = f[(n + 1) + i - 1]
      BY ONLY <1>1, <2>1, Part
    <3> QED
      BY ONLY <1>1, <2>1, <3>1
  <2> HIDE DEF E
  <2> QED
    BY ONLY <1>2, <2>1, <2>2, SameElements
<1>7. Sound(ks, R, a, Span(ks, f, 1, n, Q)) /\ Sound(ks, R, b, Span(ks, f, n + 1, Len(f), Q))
  <2>1. Sound(ks, R, SubSeq(f, 1, n), Span(ks, f, 1, n, Q))
        /\ Sound(ks, R, SubSeq(f, n + 1, Len(f)), Span(ks, f, n + 1, Len(f), Q))
    BY ONLY <1>1, <1>2, <1>3, SoundPart, ks \in Seq(Nat), Regular(ks, S, R), Q \in SUBSET Nat, Zenon DEF E
  <2> QED
    BY ONLY <1>5, <1>6, <2>1, Zenon
<1>8. /\ Span(ks, f, 1, n, Q) = {q \in Q : q > KeyAt(ks, b[1].begin)}
      /\ Span(ks, f, n + 1, Len(f), Q) = {q \in Q : KeyAt(ks, b[1].begin) >= q}
  BY ONLY <1>3, <1>4, Zenon DEF Span
<1> QED
  BY ONLY <1>2, <1>4, <1>7, <1>8, Zenon DEF Meet, E

\* The places that the trees below a node's entries hold.
Held(e) == UNION {Places(e[i].ptr) : i \in 1 .. Len(e)}

\* What it is to be held.
LEMMA HeldIs ==
  ASSUME NEW e
  PROVE  \A x : x \in Held(e) <=> \E i \in 1 .. Len(e) : x \in Places(e[i].ptr)
BY Zenon DEF Held

\* A node's places are those its entries hold.
LEMMA HeldByNode ==
  ASSUME NEW t \in Tree, t \in NodesOver(Tree)
  PROVE  Places(t) = Held(t.entries)
<1>1. \A x : x \in Places(t) <=> x \in Held(t.entries)
  BY HeldIs, PlacesOfNode, Zenon
<1> QED
  BY <1>1, Zenon

\* What two arrays hold that stand behind each other.
LEMMA HeldByTwo ==
  ASSUME NEW E, NEW a \in Seq(E), NEW b \in Seq(E)
  PROVE  Held(a \o b) = Held(a) \cup Held(b)
<1> DEFINE f == a \o b
           n == Len(a)
<1>1. n \in Nat /\ Len(b) \in Nat /\ Len(f) = n + Len(b)
      /\ (\A i \in 1 .. n : f[i] = a[i]) /\ (\A i \in 1 .. Len(b) : f[n + i] = b[i])
  <2>1. Len(a) \in Nat /\ Len(b) \in Nat
    OBVIOUS
  <2>2. Len(f) = n + Len(b)
    BY Joined
  <2>3. \A i \in 1 .. Len(a) : (a \o b)[i] = a[i]
    BY Joined
  <2>4. \A i \in 1 .. Len(b) : (a \o b)[Len(a) + i] = b[i]
    BY Joined
  <2> QED
    BY ONLY <2>1, <2>2, <2>3, <2>4
<1>2. (\A i \in 1 .. n : i \in 1 .. Len(f)) /\ (\A i \in 1 .. Len(b) : n + i \in 1 .. Len(f))
      /\ \A i \in 1 .. Len(f) : i \in 1 .. n \/ \E j \in 1 .. Len(b) : i = n + j
  <2>1. ASSUME NEW i \in 1 .. Len(f), i \notin 1 .. n PROVE \E j \in 1 .. Len(b) : i = n + j
    <3>1. i - n \in 1 .. Len(b) /\ i = n + (i - n)
      BY <1>1, <2>1
    <3> QED
      BY <3>1
  <2> QED
    BY <1>1, <2>1
<1> HIDE DEF f, n
<1>3. \A x : x \in Held(f) <=> x \in Held(a) \/ x \in Held(b)
  <2>1. ASSUME NEW x, x \in Held(f) PROVE x \in Held(a) \/ x \in Held(b)
    <3>1. PICK i \in 1 .. Len(f) : x \in Places(f[i].ptr)
      BY <2>1, HeldIs, Zenon
    <3>2. CASE i \in 1 .. n
      <4>1. x \in Places(a[i].ptr) /\ i \in 1 .. Len(a)
        BY <1>1, <3>1, <3>2 DEF n
      <4> QED
        BY <4>1, HeldIs, Zenon
    <3>3. ASSUME NEW j \in 1 .. Len(b), i = n + j PROVE x \in Held(b)
      <4>1. x \in Places(b[j].ptr)
        BY <1>1, <3>1, <3>3
      <4> QED
        BY <4>1, HeldIs, Zenon
    <3> QED
      BY <1>2, <3>2, <3>3
  <2>2. ASSUME NEW x, x \in Held(a) PROVE x \in Held(f)
    <3>1. PICK i \in 1 .. Len(a) : x \in Places(a[i].ptr)
      BY <2>2, HeldIs, Zenon
    <3>2. i \in 1 .. Len(f) /\ x \in Places(f[i].ptr)
      BY <1>1, <1>2, <3>1 DEF n
    <3> QED
      BY <3>2, HeldIs, Zenon
  <2>3. ASSUME NEW x, x \in Held(b) PROVE x \in Held(f)
    <3>1. PICK i \in 1 .. Len(b) : x \in Places(b[i].ptr)
      BY <2>3, HeldIs, Zenon
    <3>2. n + i \in 1 .. Len(f) /\ x \in Places(f[n + i].ptr)
      BY <1>1, <1>2, <3>1
    <3> QED
      BY <3>2, HeldIs, Zenon
  <2> QED
    BY <2>1, <2>2, <2>3
<1> QED
  BY <1>3 DEF f

\* What is held after an exchange.
LEMMA HeldExchange ==
  ASSUME NEW E, NEW e \in Seq(E), NEW new \in Seq(E),
         NEW p \in 1 .. Len(e), NEW m \in 1 .. Len(e), p <= m
  PROVE  \A x : x \in Held(Exchange(e, p, m, new)) <=>
           \/ x \in Held(new)
           \/ \E i \in 1 .. Len(e) : (i < p \/ i > m) /\ x \in Places(e[i].ptr)
<1> DEFINE f == Exchange(e, p, m, new)
           n == Len(new)
<1>1. IsExchange(E, f, e, p, m, new)
  BY Exchanged, Zenon
<1>2. /\ Len(f) = Len(e) + n - (m + 1 - p)
      /\ \A i \in 1 .. p - 1 : f[i] = e[i]
      /\ \A i \in 1 .. n : f[(p - 1) + i] = new[i]
      /\ \A i \in m + 1 .. Len(e) : f[(p - 1) + n + (i - m)] = e[i]
  BY ONLY <1>1 DEF IsExchange, n
<1>3. Len(e) \in Nat /\ n \in Nat /\ p \in Nat /\ m \in Nat /\ p <= m /\ 1 <= p /\ m <= Len(e)
  OBVIOUS
<1> HIDE DEF f
<1> SUFFICES ASSUME NEW x
             PROVE  x \in Held(f) <=>
                      \/ x \in Held(new)
                      \/ \E i \in 1 .. Len(e) : (i < p \/ i > m) /\ x \in Places(e[i].ptr)
  BY Zenon DEF f
<1>4. ASSUME x \in Held(f)
      PROVE  x \in Held(new) \/ \E i \in 1 .. Len(e) : (i < p \/ i > m) /\ x \in Places(e[i].ptr)
  <2>1. PICK i \in 1 .. Len(f) : x \in Places(f[i].ptr)
    BY <1>4, HeldIs, Zenon
  <2>2. CASE i \in 1 .. p - 1
    <3>1. f[i] = e[i] /\ i \in 1 .. Len(e) /\ i < p
      BY <1>2, <1>3, <2>2
    <3> QED
      BY <2>1, <3>1
  <2>3. CASE i \in p .. (p - 1) + n
    <3>1. i - (p - 1) \in 1 .. n /\ (p - 1) + (i - (p - 1)) = i
      BY <1>3, <2>3
    <3>2. f[i] = new[i - (p - 1)]
      BY ONLY <1>2, <3>1
    <3>3. \E j \in 1 .. Len(new) : x \in Places(new[j].ptr)
      BY ONLY <2>1, <3>1, <3>2 DEF n
    <3> QED
      BY ONLY <3>3, HeldIs, Zenon
  <2>4. CASE i > (p - 1) + n
    <3> DEFINE l == i - (p - 1) - n + m
    <3>1. l \in m + 1 .. Len(e) /\ (p - 1) + n + (l - m) = i /\ l \in 1 .. Len(e) /\ l > m
      BY <1>2, <1>3, <2>4
    <3> HIDE DEF l
    <3>2. f[i] = e[l]
      BY ONLY <1>2, <3>1
    <3> QED
      BY <2>1, <3>1, <3>2
  <2> QED
    BY <1>2, <1>3, <2>2, <2>3, <2>4
<1>5. ASSUME x \in Held(new) PROVE x \in Held(f)
  <2>1. PICK i \in 1 .. Len(new) : x \in Places(new[i].ptr)
    BY <1>5, HeldIs, Zenon
  <2>2. (p - 1) + i \in 1 .. Len(f) /\ f[(p - 1) + i] = new[i]
    BY <1>2, <1>3
  <2>3. x \in Places(f[(p - 1) + i].ptr)
    BY ONLY <2>1, <2>2, Zenon
  <2>4. \E j \in 1 .. Len(f) : x \in Places(f[j].ptr)
    BY ONLY <2>2, <2>3, Zenon
  <2> QED
    BY ONLY <2>4, HeldIs, Zenon
<1>6. ASSUME NEW i \in 1 .. Len(e), i < p \/ i > m, x \in Places(e[i].ptr) PROVE x \in Held(f)
  <2>1. \E j \in 1 .. Len(f) : f[j] = e[i]
    <3>1. CASE i < p
      <4>1. i \in 1 .. p - 1 /\ i \in 1 .. Len(f)
        BY <1>2, <1>3, <3>1
      <4> QED
        BY <1>2, <4>1
    <3>2. CASE i > m
      <4>1. i \in m + 1 .. Len(e) /\ (p - 1) + n + (i - m) \in 1 .. Len(f)
        BY <1>2, <1>3, <3>2
      <4>2. f[(p - 1) + n + (i - m)] = e[i]
        BY ONLY <1>2, <4>1
      <4> QED
        BY ONLY <4>1, <4>2, Zenon
    <3> QED
      BY <1>6, <3>1, <3>2
  <2>2. \E j \in 1 .. Len(f) : x \in Places(f[j].ptr)
    BY ONLY <1>6, <2>1
  <2> QED
    BY ONLY <2>2, HeldIs, Zenon
<1> QED
  BY <1>4, <1>5, <1>6

\* There is one such sequence.
LEMMA OneExchange ==
  ASSUME NEW E, NEW e \in Seq(E), NEW new \in Seq(E),
         NEW p \in 1 .. Len(e), NEW m \in 1 .. Len(e), p <= m,
         NEW f, IsExchange(E, f, e, p, m, new)
  PROVE  f = Exchange(e, p, m, new)
<1> DEFINE g == Exchange(e, p, m, new)
           n == Len(new)
<1>1. IsExchange(E, g, e, p, m, new)
  BY Exchanged, Zenon
<1>2. Len(e) \in Nat /\ n \in Nat /\ p \in Nat /\ m \in Nat /\ p <= m /\ 1 <= p /\ m <= Len(e)
  OBVIOUS
<1> HIDE DEF g
<1>3. /\ g \in Seq(E) /\ f \in Seq(E)
      /\ Len(g) = Len(e) + n - (m + 1 - p) /\ Len(f) = Len(e) + n - (m + 1 - p)
      /\ \A i \in 1 .. p - 1 : f[i] = g[i]
      /\ \A i \in 1 .. n : f[(p - 1) + i] = g[(p - 1) + i]
      /\ \A i \in m + 1 .. Len(e) : f[(p - 1) + n + (i - m)] = g[(p - 1) + n + (i - m)]
  BY ONLY <1>1, IsExchange(E, f, e, p, m, new) DEF IsExchange, n
<1>4. \A i \in 1 .. Len(f) : f[i] = g[i]
  <2> SUFFICES ASSUME NEW i \in 1 .. Len(f) PROVE f[i] = g[i]
    OBVIOUS
  <2>1. CASE i \in 1 .. p - 1
    BY <1>3, <2>1
  <2>2. CASE i \in p .. (p - 1) + n
    <3>1. i - (p - 1) \in 1 .. n /\ (p - 1) + (i - (p - 1)) = i
      BY <1>2, <2>2
    <3> QED
      BY ONLY <1>3, <3>1
  <2>3. CASE i > (p - 1) + n
    <3> DEFINE l == i - (p - 1) - n + m
    <3>1. l \in m + 1 .. Len(e) /\ (p - 1) + n + (l - m) = i
      BY <1>2, <1>3, <2>3
    <3> HIDE DEF l
    <3> QED
      BY ONLY <1>3, <3>1
  <2> QED
    BY <1>2, <1>3, <2>1, <2>2, <2>3
<1>5. f = g
  BY ONLY <1>3, <1>4, SameElements
<1> QED
  BY <1>5 DEF g

\* An entry that is replaced.
LEMMA ReplacedEntry ==
  ASSUME NEW E, NEW e \in Seq(E), NEW p \in 1 .. Len(e), NEW l \in E
  PROVE  [e EXCEPT ![p] = l] = Exchange(e, p, p, <<l>>)
<1> DEFINE f == [e EXCEPT ![p] = l]
<1>1. /\ f \in Seq(E) /\ Len(f) = Len(e) /\ f[p] = l /\ \A i \in 1 .. Len(e) : i # p => f[i] = e[i]
  OBVIOUS
<1>2. <<l>> \in Seq(E) /\ Len(<<l>>) = 1 /\ <<l>>[1] = l
  OBVIOUS
<1> DEFINE new == <<l>>
<1> HIDE DEF f, new
<1>3. IsExchange(E, f, e, p, p, new)
  <2>1. Len(f) = Len(e) + Len(new) - (p + 1 - p)
    BY <1>1, <1>2 DEF new
  <2>2. \A i \in 1 .. p - 1 : f[i] = e[i]
    BY <1>1
  <2>3. \A i \in 1 .. Len(new) : f[(p - 1) + i] = new[i]
    <3>1. \A i \in 1 .. Len(new) : i = 1 /\ (p - 1) + i = p
      BY <1>2 DEF new
    <3> QED
      BY <1>1, <1>2, <3>1 DEF new
  <2>4. \A i \in p + 1 .. Len(e) : f[(p - 1) + Len(new) + (i - p)] = e[i]
    <3>1. \A i \in p + 1 .. Len(e) : (p - 1) + Len(new) + (i - p) = i /\ i # p /\ i \in 1 .. Len(e)
      BY <1>2 DEF new
    <3> QED
      BY ONLY <1>1, <3>1
  <2> QED
    BY ONLY <1>1, <2>1, <2>2, <2>3, <2>4 DEF IsExchange
<1>4. p <= p /\ new \in Seq(E)
  BY <1>2 DEF new
<1> QED
  BY <1>3, <1>4, OneExchange, Zenon DEF f, new

\* The elements of a pair of entries.
LEMMA TwoEntries ==
  ASSUME NEW E, NEW l \in E, NEW x \in E
  PROVE  <<l, x>> \in Seq(E) /\ Len(<<l, x>>) = 2 /\ <<l, x>>[1] = l /\ <<l, x>>[2] = x
         /\ \A i \in 1 .. Len(<<l, x>>) : i = 1 \/ i = 2
OBVIOUS

\* The element of an array of one entry.
LEMMA OneEntry ==
  ASSUME NEW E, NEW l \in E
  PROVE  <<l>> \in Seq(E) /\ Len(<<l>>) = 1 /\ <<l>>[1] = l /\ \A i \in 1 .. Len(<<l>>) : i = 1
OBVIOUS

\* An entry that is replaced by two.
LEMMA InsertedEntry ==
  ASSUME NEW E, NEW e \in Seq(E), NEW pos \in 0 .. Len(e) - 1, NEW l \in E, NEW x \in E
  PROVE  /\ InsertEntry([e EXCEPT ![pos + 1] = l], pos, x) = Exchange(e, pos + 1, pos + 1, <<l, x>>)
         /\ [e EXCEPT ![pos + 1] = l] \in Seq(E) /\ Len([e EXCEPT ![pos + 1] = l]) = Len(e)
<1> DEFINE c == [e EXCEPT ![pos + 1] = l]
           f == InsertEntry(c, pos, x)
           new == <<l, x>>
           p == pos + 1
<1>0. Len(e) \in Nat /\ p \in 1 .. Len(e) /\ pos = p - 1 /\ p <= p
  OBVIOUS
<1>1. c \in Seq(E) /\ Len(c) = Len(e) /\ c[p] = l /\ \A i \in 1 .. Len(e) : i # p => c[i] = e[i]
  OBVIOUS
<1>2. new \in Seq(E) /\ Len(new) = 2 /\ new[1] = l /\ new[2] = x /\ \A i \in 1 .. Len(new) : i = 1 \/ i = 2
  BY TwoEntries
<1> HIDE DEF c, new
<1>3. f \in Seq(E) /\ Len(f) = Len(e) + 1 /\ \A i \in 1 .. Len(e) + 1 : f[i] = Entry(c, pos, x, i)
  <2>1. c \in Seq(E) /\ pos \in 0 .. Len(c) - 1
    BY <1>1
  <2>2. f \in Seq(E) /\ Len(f) = Len(c) + 1 /\ \A i \in 1 .. Len(c) + 1 : f[i] = Entry(c, pos, x, i)
    BY <2>1, Inserted
  <2> QED
    BY <1>1, <2>2
<1> HIDE DEF f, p
<1>4. \A i \in 1 .. Len(e) + 1 : f[i] = IF i <= p THEN c[i] ELSE IF i = p + 1 THEN x ELSE c[i - 1]
  <2>1. pos + 1 = p /\ pos + 2 = p + 1
    BY <1>0
  <2> QED
    BY ONLY <1>3, <2>1, Zenon DEF Entry
<1>5. IsExchange(E, f, e, p, p, new)
  <2>1. Len(f) = Len(e) + Len(new) - (p + 1 - p)
    BY <1>0, <1>2, <1>3
  <2>2. \A i \in 1 .. p - 1 : f[i] = e[i]
    <3>1. \A i \in 1 .. p - 1 : i \in 1 .. Len(e) + 1 /\ i <= p /\ i # p /\ i \in 1 .. Len(e)
      BY <1>0
    <3> QED
      BY ONLY <1>1, <1>4, <3>1
  <2>3. \A i \in 1 .. Len(new) : f[(p - 1) + i] = new[i]
    <3>1. (p - 1) + 1 = p /\ (p - 1) + 2 = p + 1 /\ p \in 1 .. Len(e) + 1 /\ p + 1 \in 1 .. Len(e) + 1
          /\ p <= p /\ ~(p + 1 <= p)
      BY <1>0
    <3>2. f[p] = l /\ f[p + 1] = x
      BY ONLY <1>1, <1>4, <3>1
    <3> QED
      BY ONLY <1>2, <3>1, <3>2
  <2>4. \A i \in p + 1 .. Len(e) : f[(p - 1) + Len(new) + (i - p)] = e[i]
    <3>1. \A i \in p + 1 .. Len(e) : /\ (p - 1) + Len(new) + (i - p) = i + 1 /\ i + 1 \in 1 .. Len(e) + 1
                                     /\ ~(i + 1 <= p) /\ i + 1 # p + 1 /\ (i + 1) - 1 = i
                                     /\ i # p /\ i \in 1 .. Len(e)
      BY <1>0, <1>2
    <3> QED
      BY ONLY <1>1, <1>4, <3>1
  <2> QED
    BY ONLY <1>3, <2>1, <2>2, <2>3, <2>4 DEF IsExchange
<1>6. f = Exchange(e, p, p, new)
  BY ONLY <1>0, <1>2, <1>5, e \in Seq(E), OneExchange, Zenon
<1> QED
  BY <1>1, <1>6 DEF f, c, new, p

\* What a removal takes out.
LEMMA Removed ==
  ASSUME NEW F, NEW c \in Seq(F), NEW pos \in 0 .. Len(c) - 1
  PROVE  /\ RemoveEntry(c, pos) \in Seq(F) /\ Len(RemoveEntry(c, pos)) = Len(c) - 1
         /\ \A i \in 1 .. pos : RemoveEntry(c, pos)[i] = c[i]
         /\ \A i \in pos + 1 .. Len(c) - 1 : RemoveEntry(c, pos)[i] = c[i + 1]
<1> DEFINE a == SubSeq(c, 1, pos)
           b == SubSeq(c, pos + 2, Len(c))
<1>0. Len(c) \in Nat /\ pos \in Nat /\ pos < Len(c)
  OBVIOUS
<1>1. a \in Seq(F) /\ Len(a) = pos /\ \A i \in 1 .. pos : a[i] = c[i]
  <2>1. 1 \in Nat \ {0} /\ pos \in 0 .. Len(c) /\ 1 <= pos + 1 /\ pos + 1 - 1 = pos
        /\ \A i \in 1 .. pos : 1 + i - 1 = i
    BY <1>0
  <2>2. /\ SubSeq(c, 1, pos) \in Seq(F) /\ Len(SubSeq(c, 1, pos)) = pos + 1 - 1
        /\ \A i \in 1 .. pos + 1 - 1 : SubSeq(c, 1, pos)[i] = c[1 + i - 1]
    BY ONLY <2>1, Part, c \in Seq(F)
  <2> QED
    BY ONLY <2>1, <2>2
<1>2. b \in Seq(F) /\ Len(b) = Len(c) - 1 - pos /\ \A i \in pos + 1 .. Len(c) - 1 : b[i - pos] = c[i + 1]
  <2>1. pos + 2 \in Nat \ {0} /\ Len(c) \in 0 .. Len(c) /\ pos + 2 <= Len(c) + 1
        /\ Len(c) + 1 - (pos + 2) = Len(c) - 1 - pos
        /\ \A i \in pos + 1 .. Len(c) - 1 : i - pos \in 1 .. Len(c) - 1 - pos /\ (pos + 2) + (i - pos) - 1 = i + 1
    BY <1>0
  <2>2. /\ SubSeq(c, pos + 2, Len(c)) \in Seq(F) /\ Len(SubSeq(c, pos + 2, Len(c))) = Len(c) + 1 - (pos + 2)
        /\ \A i \in 1 .. Len(c) + 1 - (pos + 2) : SubSeq(c, pos + 2, Len(c))[i] = c[(pos + 2) + i - 1]
    BY ONLY <2>1, Part, c \in Seq(F)
  <2> QED
    BY ONLY <2>1, <2>2
<1> HIDE DEF a, b
<1>3. /\ a \o b \in Seq(F) /\ Len(a \o b) = Len(a) + Len(b)
      /\ \A i \in 1 .. Len(a) : (a \o b)[i] = a[i]
      /\ \A i \in 1 .. Len(b) : (a \o b)[Len(a) + i] = b[i]
  <2>1. a \in Seq(F) /\ b \in Seq(F)
    BY <1>1, <1>2
  <2>2. a \o b \in Seq(F) /\ Len(a \o b) = Len(a) + Len(b)
    BY ONLY <2>1, Joined
  <2>3. \A i \in 1 .. Len(a) : (a \o b)[i] = a[i]
    BY ONLY <2>1, Joined
  <2>4. \A i \in 1 .. Len(b) : (a \o b)[Len(a) + i] = b[i]
    BY ONLY <2>1, Joined
  <2> QED
    BY ONLY <2>2, <2>3, <2>4
<1> DEFINE f == a \o b
<1>4. RemoveEntry(c, pos) = f
  BY DEF RemoveEntry, a, b
<1> HIDE DEF f
<1>5. f \in Seq(F) /\ Len(f) = pos + Len(b) /\ (\A i \in 1 .. pos : f[i] = a[i])
      /\ \A i \in 1 .. Len(b) : f[pos + i] = b[i]
  BY ONLY <1>1, <1>3 DEF f
<1>6. Len(f) = Len(c) - 1
  BY <1>0, <1>2, <1>5
<1>7. \A i \in 1 .. pos : f[i] = c[i]
  BY ONLY <1>1, <1>5
<1>8. \A i \in pos + 1 .. Len(c) - 1 : f[i] = c[i + 1]
  <2>1. \A i \in pos + 1 .. Len(c) - 1 : i - pos \in 1 .. Len(b) /\ pos + (i - pos) = i
    BY <1>0, <1>2
  <2> QED
    BY ONLY <1>2, <1>5, <2>1
<1> QED
  BY ONLY <1>4, <1>5, <1>6, <1>7, <1>8

\* Two entries that become one, or others.
\* The entries c are e but for those at s and s + 1, and when the one at pos is taken
\* out, y is what stays of the two.
ToOne(E, F, e, c, s, pos, y) ==
  /\ E \subseteq F /\ e \in Seq(E) /\ c \in Seq(F) /\ Len(c) = Len(e)
  /\ s \in 1 .. Len(e) - 1 /\ pos \in {s - 1, s} /\ y \in E
  /\ \A i \in 1 .. Len(e) : i # s /\ i # s + 1 => c[i] = e[i]
  /\ pos = s => c[s] = y
  /\ pos = s - 1 => c[s + 1] = y

\* To set one of two neighbours to y and to remove the other is to exchange both for y.
LEMMA PairToOne ==
  ASSUME NEW E, NEW F, NEW e, NEW c, NEW s, NEW pos, NEW y, ToOne(E, F, e, c, s, pos, y)
  PROVE  RemoveEntry(c, pos) = Exchange(e, s, s + 1, <<y>>)
<1> E \subseteq F /\ e \in Seq(E) /\ c \in Seq(F) /\ Len(c) = Len(e)
    /\ s \in 1 .. Len(e) - 1 /\ pos \in {s - 1, s} /\ y \in E
  BY DEF ToOne
<1> (\A i \in 1 .. Len(e) : i # s /\ i # s + 1 => c[i] = e[i])
    /\ (pos = s => c[s] = y) /\ (pos = s - 1 => c[s + 1] = y)
  BY DEF ToOne
<1> DEFINE f == RemoveEntry(c, pos)
           new == <<y>>
           n == Len(e)
<1>0. n \in Nat /\ s \in Nat /\ 1 <= s /\ s < n /\ pos \in 0 .. Len(c) - 1 /\ s <= s + 1
      /\ s \in 1 .. Len(e) /\ s + 1 \in 1 .. Len(e) /\ (pos = s \/ pos = s - 1) /\ Len(c) = n
  OBVIOUS
<1>1. /\ f \in Seq(F) /\ Len(f) = n - 1
      /\ \A i \in 1 .. pos : f[i] = c[i]
      /\ \A i \in pos + 1 .. n - 1 : f[i] = c[i + 1]
  <2>1. /\ f \in Seq(F) /\ Len(f) = Len(c) - 1
        /\ \A i \in 1 .. pos : f[i] = c[i]
        /\ \A i \in pos + 1 .. Len(c) - 1 : f[i] = c[i + 1]
    BY ONLY <1>0, c \in Seq(F), Removed
  <2> QED
    BY ONLY <1>0, <2>1
<1>2. new \in Seq(E) /\ Len(new) = 1 /\ new[1] = y /\ \A i \in 1 .. Len(new) : i = 1
  BY OneEntry
<1> HIDE DEF f, new, n
<1>3. \A i \in 1 .. s - 1 : f[i] = e[i]
  <2>1. \A i \in 1 .. s - 1 : i \in 1 .. pos /\ i \in 1 .. n /\ i # s /\ i # s + 1
    BY <1>0
  <2>2. \A i \in 1 .. n : i # s /\ i # s + 1 => c[i] = e[i]
    BY DEF n
  <2> QED
    BY ONLY <1>1, <2>1, <2>2
<1>4. \A i \in s + 1 .. n - 1 : f[i] = e[i + 1]
  <2>1. \A i \in s + 1 .. n - 1 : i \in pos + 1 .. n - 1 /\ i + 1 \in 1 .. n /\ i + 1 # s /\ i + 1 # s + 1
    BY <1>0
  <2>2. \A i \in 1 .. n : i # s /\ i # s + 1 => c[i] = e[i]
    BY DEF n
  <2> QED
    BY ONLY <1>1, <2>1, <2>2
<1>5. f[s] = y
  <2>1. CASE pos = s
    <3>1. s \in 1 .. pos
      BY <1>0, <2>1
    <3> QED
      BY <1>1, <2>1, <3>1
  <2>2. CASE pos = s - 1
    <3>1. s \in pos + 1 .. n - 1
      BY <1>0, <2>2
    <3> QED
      BY <1>1, <2>2, <3>1
  <2> QED
    BY <1>0, <2>1, <2>2
<1>6. f \in Seq(E)
  <2>1. \A i \in 1 .. n : e[i] \in E
    BY DEF n
  <2>2. \A i \in 1 .. Len(f) : f[i] \in E
    <3> SUFFICES ASSUME NEW i \in 1 .. Len(f) PROVE f[i] \in E
      OBVIOUS
    <3>1. i \in 1 .. s - 1 \/ i = s \/ i \in s + 1 .. n - 1
      BY <1>0, <1>1
    <3>2. \A j \in 1 .. s - 1 : j \in 1 .. n
      BY <1>0
    <3>3. \A j \in s + 1 .. n - 1 : j + 1 \in 1 .. n
      BY <1>0
    <3> QED
      BY ONLY <1>3, <1>4, <1>5, <2>1, <3>1, <3>2, <3>3, y \in E
  <2> QED
    BY ONLY <1>1, <2>2
<1>7. IsExchange(E, f, e, s, s + 1, new)
  <2>1. Len(f) = Len(e) + Len(new) - (s + 1 + 1 - s)
    BY ONLY <1>0, <1>1, <1>2 DEF n
  <2>2. \A i \in 1 .. Len(new) : f[(s - 1) + i] = new[i]
    <3>1. \A i \in 1 .. Len(new) : i = 1 /\ (s - 1) + i = s
      BY <1>0, <1>2
    <3> QED
      BY ONLY <1>2, <1>5, <3>1
  <2>3. \A i \in s + 1 + 1 .. Len(e) : f[(s - 1) + Len(new) + (i - (s + 1))] = e[i]
    <3>1. \A i \in s + 1 + 1 .. Len(e) : (s - 1) + Len(new) + (i - (s + 1)) = i - 1
                                         /\ i - 1 \in s + 1 .. n - 1 /\ (i - 1) + 1 = i
      BY <1>0, <1>2 DEF n
    <3> QED
      BY ONLY <1>4, <3>1
  <2> QED
    BY ONLY <1>3, <1>6, <2>1, <2>2, <2>3 DEF IsExchange
<1>8. f = Exchange(e, s, s + 1, new)
  BY ONLY <1>0, <1>2, <1>7, e \in Seq(E), OneExchange, Zenon
<1> QED
  BY <1>8 DEF f, new

\* Or y and z take their places.
ToTwo(E, e, c, s, y, z) ==
  /\ e \in Seq(E) /\ c \in Seq(E) /\ Len(c) = Len(e)
  /\ s \in 1 .. Len(e) - 1 /\ y \in E /\ z \in E
  /\ \A i \in 1 .. Len(e) : i # s /\ i # s + 1 => c[i] = e[i]
  /\ c[s] = y /\ c[s + 1] = z

\* To set two neighbours to y and z is to exchange them for these.
LEMMA PairToTwo ==
  ASSUME NEW E, NEW e, NEW c, NEW s, NEW y, NEW z, ToTwo(E, e, c, s, y, z)
  PROVE  c = Exchange(e, s, s + 1, <<y, z>>)
<1> e \in Seq(E) /\ c \in Seq(E) /\ Len(c) = Len(e)
    /\ s \in 1 .. Len(e) - 1 /\ y \in E /\ z \in E
    /\ (\A i \in 1 .. Len(e) : i # s /\ i # s + 1 => c[i] = e[i])
    /\ c[s] = y /\ c[s + 1] = z
  BY DEF ToTwo
<1> DEFINE new == <<y, z>>
           n == Len(e)
<1>0. n \in Nat /\ s \in Nat /\ 1 <= s /\ s < n /\ s <= s + 1
      /\ s \in 1 .. Len(e) /\ s + 1 \in 1 .. Len(e) /\ Len(c) = n
  OBVIOUS
<1>2. new \in Seq(E) /\ Len(new) = 2 /\ new[1] = y /\ new[2] = z /\ \A i \in 1 .. Len(new) : i = 1 \/ i = 2
  BY TwoEntries
<1> HIDE DEF new, n
<1>7. IsExchange(E, c, e, s, s + 1, new)
  <2>1. Len(c) = Len(e) + Len(new) - (s + 1 + 1 - s)
    BY <1>0, <1>2 DEF n
  <2>2. \A i \in 1 .. Len(new) : c[(s - 1) + i] = new[i]
    <3>1. (s - 1) + 1 = s /\ (s - 1) + 2 = s + 1
      BY <1>0
    <3> QED
      BY ONLY <1>2, <3>1, c[s] = y, c[s + 1] = z
  <2>3. \A i \in s + 1 + 1 .. Len(e) : c[(s - 1) + Len(new) + (i - (s + 1))] = e[i]
    <3>1. \A i \in s + 1 + 1 .. Len(e) : (s - 1) + Len(new) + (i - (s + 1)) = i
                                         /\ i # s /\ i # s + 1 /\ i \in 1 .. Len(e)
      BY <1>0, <1>2 DEF n
    <3> QED
      BY <3>1
  <2>4. \A i \in 1 .. s - 1 : c[i] = e[i]
    BY <1>0 DEF n
  <2> QED
    BY <2>1, <2>2, <2>3, <2>4 DEF IsExchange
<1>8. c = Exchange(e, s, s + 1, new)
  BY ONLY <1>0, <1>2, <1>7, e \in Seq(E), OneExchange, Zenon
<1> QED
  BY <1>8 DEF new
-----------------------------------------------------------------------------
(* What an insert makes of a node.                                         *)

\* What an insert below gives back, for the keys Q and the places P: a tree, or two that
\* meet at a key; a place is missing only when no node could be allocated.
Returns(ks, S, R, Q, P, r) ==
  /\ r.nodes \in Int /\ r.nodes >= -1 /\ r.node \in S
  /\ \/ /\ r.xn = <<>> /\ <<r.node, Q>> \in R
        /\ Places(r.node) \subseteq P /\ (r.nodes >= 0 => Places(r.node) = P)
     \/ \E x \in Entries(S) :
          /\ r.xn = <<x>> /\ r.nodes >= 0 /\ x.begin < Len(ks)
          /\ <<r.node, {q \in Q : q > KeyAt(ks, x.begin)}>> \in R
          /\ <<x.ptr, {q \in Q : KeyAt(ks, x.begin) >= q}>> \in R
          /\ Places(r.node) \cup Places(x.ptr) = P

\* The same of the entries of a node.
Kept(ks, S, R, n, d, Q, P, r) ==
  \E f \in Seq(Entries(S)) :
    /\ r.xn = <<>> /\ r.node = Node(f) /\ Sound(ks, R, f, Q) /\ Len(f) \in n .. d
    /\ Held(f) \subseteq P /\ (r.nodes >= 0 => Held(f) = P)

\* A node was split: its two parts are sound, meet at a key and hold all the places.
Halved(ks, S, R, d, Q, P, r) ==
  \E a, b \in Seq(Entries(S)) :
    /\ r.node = Node(a) /\ r.xn = <<[ptr |-> Node(b), begin |-> b[1].begin]>>
    /\ r.nodes >= 0 /\ b[1].begin < Len(ks)
    /\ Len(a) \in halfdim(d) .. d /\ Len(b) \in halfdim(d) .. d
    /\ Sound(ks, R, a, {q \in Q : q > KeyAt(ks, b[1].begin)})
    /\ Sound(ks, R, b, {q \in Q : KeyAt(ks, b[1].begin) >= q})
    /\ Held(a) \cup Held(b) = P

\* What a node of one entry holds.
LEMMA HeldByOne ==
  ASSUME NEW c, Len(c) = 1
  PROVE  Held(c) = Places(c[1].ptr)
<1>1. \A i : i \in 1 .. Len(c) <=> i = 1
  OBVIOUS
<1>2. \A x : x \in Held(c) <=> x \in Places(c[1].ptr)
  <2> TAKE x
  <2>1. x \in Held(c) <=> \E i \in 1 .. Len(c) : x \in Places(c[i].ptr)
    BY HeldIs, Zenon
  <2> QED
    BY ONLY <1>1, <2>1
<1> QED
  BY <1>2, Zenon

\* A node that an insert below has changed.
LEMMA RiseKeeps ==
  ASSUME NEW ks \in Seq(Nat), NEW S, NEW R, Regular(ks, S, R), NEW Q \in SUBSET Nat,
         dimension \in Nat, dimension >= 3,
         NEW t, t.entries \in Seq(Entries(S)), Len(t.entries) \in 2 .. dimension,
         Sound(ks, R, t.entries, Q), NEW pos \in 0 .. Len(t.entries) - 1,
         NEW C, NEW r, Returns(ks, S, R, Share(ks, t.entries, pos + 1, Q), C, r),
         NEW P, \A x : x \in P <=>
                  x \in C \/ \E i \in 1 .. Len(t.entries) : i # pos + 1 /\ x \in Places(t.entries[i].ptr)
  PROVE  /\ Rise(t, pos, r).nodes \in Int /\ Rise(t, pos, r).nodes >= -1
         /\ \/ Kept(ks, S, R, Len(t.entries), dimension, Q, P, Rise(t, pos, r))
            \/ Halved(ks, S, R, dimension, Q, P, Rise(t, pos, r))
<1> DEFINE e == t.entries
           p == pos + 1
           W == Share(ks, e, p, Q)
           l == [ptr |-> r.node, begin |-> e[p].begin]
           ec == [e EXCEPT ![p] = l]
           E == Entries(S)
           two == Split(ec, pos, r.xn[1], dimension)
           Done(entries, n) == [node |-> Node(entries), xn |-> <<>>, nodes |-> n]
           u == Rise(t, pos, r)
<1>1. u = IF r.xn = <<>> THEN Done(ec, r.nodes)
          ELSE IF Len(ec) < dimension THEN Done(InsertEntry(ec, pos, r.xn[1]), r.nodes)
          ELSE IF r.nodes = 0 THEN Done(ec, -1)
          ELSE [node |-> Node(two.left), nodes |-> r.nodes - 1,
                xn |-> <<[ptr |-> Node(two.right), begin |-> two.right[1].begin]>>]
  BY Zenon DEF Rise
<1>2. /\ e \in Seq(E) /\ Len(e) \in Nat /\ p \in 1 .. Len(e) /\ p <= p /\ Len(e) >= 2 /\ Len(e) <= dimension
      /\ Sound(ks, R, e, Q) /\ pos \in 0 .. Len(e) - 1
  OBVIOUS
<1>3. W \in SUBSET Nat /\ Span(ks, e, p, p, Q) = W
  <2>1. W \in SUBSET Nat
    BY DEF Share
  <2> QED
    BY <2>1, SpanOfOne, Zenon
<1>4. /\ r.nodes \in Int /\ r.nodes >= -1 /\ r.node \in S
      /\ \/ /\ r.xn = <<>> /\ <<r.node, W>> \in R
            /\ Places(r.node) \subseteq C /\ (r.nodes >= 0 => Places(r.node) = C)
         \/ \E x \in E :
              /\ r.xn = <<x>> /\ r.nodes >= 0 /\ x.begin < Len(ks)
              /\ <<r.node, {q \in W : q > KeyAt(ks, x.begin)}>> \in R
              /\ <<x.ptr, {q \in W : KeyAt(ks, x.begin) >= q}>> \in R
              /\ Places(r.node) \cup Places(x.ptr) = C
  BY Zenon DEF Returns
<1>5. \A c \in S, O1 \in SUBSET Nat, O2 \in SUBSET Nat : <<c, O1>> \in R /\ O1 \subseteq O2 => <<c, O2>> \in R
  BY ONLY Regular(ks, S, R), Zenon DEF Regular
<1>6. l \in E /\ l.ptr = r.node /\ l.begin = e[p].begin /\ l.begin < Len(ks)
  <2>1. e \in Seq([ptr : S, begin : Nat])
    BY DEF Entries
  <2>2. e[p].begin \in Nat
    BY ONLY <1>2, <2>1, EntriesHave
  <2>3. e[p].begin < Len(ks)
    BY ONLY <1>2 DEF Sound
  <2> QED
    BY <1>4, <2>2, <2>3 DEF Entries
<1> HIDE DEF e, p, W, l, E, u
<1>7. \A x : x \in P <=> x \in C \/ \E i \in 1 .. Len(e) : (i < p \/ i > p) /\ x \in Places(e[i].ptr)
  <2>1. \A i \in 1 .. Len(e) : i # pos + 1 <=> i < p \/ i > p
    BY <1>2 DEF p
  <2> QED
    BY <2>1, Zenon DEF e
<1>8. ec = Exchange(e, p, p, <<l>>) /\ ec \in Seq(E) /\ Len(ec) = Len(e)
  <2>1. ec = Exchange(e, p, p, <<l>>)
    BY ONLY <1>2, <1>6, ReplacedEntry DEF ec
  <2> QED
    BY <1>2, <1>6, <2>1
<1>12. \A x \in E : InsertEntry(ec, pos, x) = Exchange(e, p, p, <<l, x>>)
  <2> SUFFICES ASSUME NEW x \in E PROVE InsertEntry(ec, pos, x) = Exchange(e, p, p, <<l, x>>)
    OBVIOUS
  <2>1. pos \in 0 .. Len(e) - 1 /\ e \in Seq(E) /\ l \in E /\ x \in E
    BY <1>2, <1>6
  <2> QED
    BY ONLY <2>1, InsertedEntry DEF ec, p
<1> HIDE DEF ec
\* The node with the tree in its place.
<1>9. ASSUME <<r.node, W>> \in R, Places(r.node) \subseteq C
      PROVE  Sound(ks, R, ec, Q) /\ Held(ec) \subseteq P /\ (Places(r.node) = C => Held(ec) = P)
  <2> DEFINE one == <<l>>
  <2>1. one \in Seq(E) /\ Len(one) = 1 /\ one[1] = l /\ Sound(ks, R, one, W)
    BY ONLY <1>6, <1>9, SoundOne, Zenon DEF E, one
  <2>6. ec = Exchange(e, p, p, one)
    BY <1>8
  <2> HIDE DEF one
  <2>2. Sound(ks, R, one, Span(ks, e, p, p, Q)) /\ (p > 1 => KeyAt(ks, one[1].begin) = KeyAt(ks, e[p].begin))
    BY ONLY <1>3, <1>6, <2>1, Zenon
  <2>3. Sound(ks, R, Exchange(e, p, p, one), Q)
    BY ONLY <1>2, <2>1, <2>2, SoundExchange, ks \in Seq(Nat), Regular(ks, S, R), Q \in SUBSET Nat, Zenon DEF E
  <2>4. \A x : x \in Held(Exchange(e, p, p, one)) <=>
           \/ x \in Held(one)
           \/ \E i \in 1 .. Len(e) : (i < p \/ i > p) /\ x \in Places(e[i].ptr)
    BY ONLY <1>2, <2>1, HeldExchange, Zenon
  <2>5. Held(one) = Places(r.node)
    <3>1. Held(one) = Places(one[1].ptr)
      BY ONLY <2>1, HeldByOne, Zenon
    <3> QED
      BY ONLY <1>6, <2>1, <3>1, Zenon
  <2> QED
    BY ONLY <1>7, <1>9, <2>3, <2>4, <2>5, <2>6, Zenon
<1>10. CASE r.xn = <<>>
  <2>1. <<r.node, W>> \in R /\ Places(r.node) \subseteq C /\ (r.nodes >= 0 => Places(r.node) = C)
    BY <1>4, <1>10
  <2>2. u = Done(ec, r.nodes)
    BY <1>1, <1>10
  <2>3. Sound(ks, R, ec, Q) /\ Held(ec) \subseteq P /\ (r.nodes >= 0 => Held(ec) = P)
    BY ONLY <1>9, <2>1, Zenon
  <2>4. u.xn = <<>> /\ u.node = Node(ec) /\ u.nodes = r.nodes
    BY <2>2
  <2>5. Len(ec) \in Len(e) .. dimension
    BY <1>2, <1>8
  <2>6. Kept(ks, S, R, Len(e), dimension, Q, P, u)
    BY ONLY <1>8, <2>3, <2>4, <2>5, Zenon DEF Kept, E
  <2> QED
    BY <1>4, <2>4, <2>6 DEF u, e
<1>11. CASE r.xn # <<>>
  <2>1. PICK x \in E :
          /\ r.xn = <<x>> /\ r.nodes >= 0 /\ x.begin < Len(ks)
          /\ <<r.node, {q \in W : q > KeyAt(ks, x.begin)}>> \in R
          /\ <<x.ptr, {q \in W : KeyAt(ks, x.begin) >= q}>> \in R
          /\ Places(r.node) \cup Places(x.ptr) = C
    BY <1>4, <1>11
  <2>2. r.xn[1] = x
    BY <2>1
  <2> DEFINE new == <<l, x>>
             all == Exchange(e, p, p, new)
  <2>3. new \in Seq(E) /\ Len(new) = 2 /\ new[1] = l /\ new[2] = x /\ Sound(ks, R, new, W)
    <3> DEFINE A == {q \in W : q > KeyAt(ks, x.begin)}
               B == {q \in W : KeyAt(ks, x.begin) >= q}
    <3>1. <<l.ptr, A>> \in R /\ <<x.ptr, B>> \in R
      BY ONLY <1>6, <2>1, Zenon
    <3> QED
      BY ONLY <1>3, <1>6, <2>1, <3>1, x \in E, SoundTwo, ks \in Seq(Nat), Regular(ks, S, R), Zenon DEF E, A, B, new
  <2>4. Sound(ks, R, all, Q)
    <3>1. Sound(ks, R, new, Span(ks, e, p, p, Q)) /\ (p > 1 => KeyAt(ks, new[1].begin) = KeyAt(ks, e[p].begin))
      BY ONLY <1>3, <1>6, <2>3, Zenon
    <3> QED
      BY ONLY <1>2, <2>3, <3>1, SoundExchange, ks \in Seq(Nat), Regular(ks, S, R), Q \in SUBSET Nat, Zenon DEF E, all
  <2>5. Held(all) = P
    <3>1. \A y : y \in Held(all) <=>
           \/ y \in Held(new)
           \/ \E i \in 1 .. Len(e) : (i < p \/ i > p) /\ y \in Places(e[i].ptr)
      BY ONLY <1>2, <2>3, HeldExchange, Zenon DEF all
    <3>2. Held(new) = C
      <4>1. \A i : i \in 1 .. Len(new) <=> i = 1 \/ i = 2
        BY <2>3
      <4>2. \A y : y \in Held(new) <=> y \in Places(new[1].ptr) \/ y \in Places(new[2].ptr)
        BY ONLY <4>1, HeldIs, Zenon
      <4>3. \A y : y \in Held(new) <=> y \in Places(r.node) \/ y \in Places(x.ptr)
        BY ONLY <1>6, <2>3, <4>2, Zenon
      <4> QED
        BY ONLY <2>1, <4>3
    <3> QED
      BY ONLY <1>7, <3>1, <3>2, Zenon
  <2>6. InsertEntry(ec, pos, x) = all
    BY <1>12 DEF all, new
  <2>7. all \in Seq(E) /\ Len(all) = Len(e) + 1
    <3>1. IsExchange(E, all, e, p, p, new)
      BY ONLY <1>2, <2>3, Exchanged, Zenon DEF all
    <3>2. all \in Seq(E) /\ Len(all) = Len(e) + Len(new) - (p + 1 - p)
      BY ONLY <3>1 DEF IsExchange
    <3> QED
      BY <1>2, <2>3, <3>2
  <2> HIDE DEF all, new
  <2>8. CASE Len(ec) < dimension
    <3>1. u = Done(all, r.nodes)
      BY ONLY <1>1, <1>11, <2>2, <2>6, <2>8, Zenon
    <3>2. u.xn = <<>> /\ u.node = Node(all) /\ u.nodes = r.nodes
      BY <3>1
    <3>3. Len(all) \in Len(e) .. dimension
      BY <1>2, <1>8, <2>7, <2>8
    <3>4. Held(all) \subseteq P
      BY ONLY <2>5
    <3>5. Kept(ks, S, R, Len(e), dimension, Q, P, u)
      BY ONLY <2>4, <2>5, <2>7, <3>2, <3>3, <3>4, Zenon DEF Kept, E
    <3> QED
      BY <1>4, <3>2, <3>5 DEF u, e
  <2>9. CASE ~(Len(ec) < dimension) /\ r.nodes = 0
    <3>1. u = Done(ec, -1)
      BY ONLY <1>1, <1>11, <2>9, Zenon
    <3>2. u.xn = <<>> /\ u.node = Node(ec) /\ u.nodes = -1 /\ ~(u.nodes >= 0)
      BY <3>1
    <3>3. Len(ec) \in Len(e) .. dimension
      BY <1>2, <1>8
    <3>4. <<r.node, W>> \in R /\ Places(r.node) \subseteq C
      <4> DEFINE A == {q \in W : q > KeyAt(ks, x.begin)}
      <4>1. A \in SUBSET Nat /\ A \subseteq W /\ <<r.node, A>> \in R
        BY <1>3, <2>1
      <4> HIDE DEF A
      <4> QED
        BY ONLY <1>3, <1>4, <1>5, <2>1, <4>1, Zenon
    <3>5. Sound(ks, R, ec, Q) /\ Held(ec) \subseteq P
      BY ONLY <1>9, <3>4, Zenon
    <3>6. Kept(ks, S, R, Len(e), dimension, Q, P, u)
      BY ONLY <1>8, <3>2, <3>3, <3>5, Zenon DEF Kept, E
    <3> QED
      BY <3>2, <3>6 DEF u, e
  <2>10. CASE ~(Len(ec) < dimension) /\ r.nodes # 0
    <3> DEFINE a == two.left
               b == two.right
    <3>1. u = [node |-> Node(a), nodes |-> r.nodes - 1, xn |-> <<[ptr |-> Node(b), begin |-> b[1].begin]>>]
      BY ONLY <1>1, <1>11, <2>10, Zenon DEF a, b
    <3>2. Len(ec) = dimension /\ pos \in 0 .. dimension - 1
      BY <1>2, <1>8, <2>10
    <3>3. /\ a \in Seq(E) /\ Len(a) = halfdim(dimension)
          /\ b \in Seq(E) /\ Len(b) = dimension + 1 - halfdim(dimension)
          /\ a \o b = all
      <4>1. ec \in Seq(E) /\ x \in E
        BY <1>8
      <4>2. IsSplit(E, Split(ec, pos, x, dimension), ec, pos, x, dimension)
        BY ONLY <3>2, <4>1, SplitParts, dimension \in Nat, dimension >= 3, Zenon
      <4>3. IsSplit(E, two, ec, pos, x, dimension)
        BY ONLY <2>2, <4>2, Zenon DEF two
      <4> QED
        BY ONLY <2>6, <4>3, Zenon DEF IsSplit, a, b
    <3> HIDE DEF a, b
    <3>4. /\ halfdim(dimension) \in Nat /\ halfdim(dimension) >= 2 /\ halfdim(dimension) < dimension
          /\ 2 * halfdim(dimension) \in {dimension, dimension + 1}
      BY HalfIsLess
    <3>5. Len(a) \in halfdim(dimension) .. dimension /\ Len(b) \in halfdim(dimension) .. dimension
          /\ Len(a) >= 1 /\ Len(b) >= 1
      BY <3>3, <3>4
    <3>6. /\ b[1].begin < Len(ks)
          /\ Sound(ks, R, a, {q \in Q : q > KeyAt(ks, b[1].begin)})
          /\ Sound(ks, R, b, {q \in Q : KeyAt(ks, b[1].begin) >= q})
      <4>1. Sound(ks, R, a \o b, Q)
        BY ONLY <2>4, <3>3, Zenon
      <4>2. a \in Seq(Entries(S)) /\ b \in Seq(Entries(S)) /\ Len(a) >= 1 /\ Len(b) >= 1
        BY ONLY <3>3, <3>5 DEF E
      <4>3. Meet(ks, S, R, Q, a, b)
        BY ONLY <4>1, <4>2, SoundHalves, ks \in Seq(Nat), Regular(ks, S, R), Q \in SUBSET Nat, Zenon
      <4> QED
        BY ONLY <4>3, Zenon DEF Meet
    <3>7. Held(a) \cup Held(b) = P
      <4>1. Held(a \o b) = Held(a) \cup Held(b)
        BY ONLY <3>3, HeldByTwo, Zenon
      <4> QED
        BY ONLY <2>5, <3>3, <4>1, Zenon
    <3>8. u.node = Node(a) /\ u.xn = <<[ptr |-> Node(b), begin |-> b[1].begin]>> /\ u.nodes = r.nodes - 1
      BY <3>1
    <3>9. u.nodes \in Int /\ u.nodes >= 0 /\ u.nodes >= -1
      BY <1>4, <2>1, <2>10, <3>8
    <3>10. Halved(ks, S, R, dimension, Q, P, u)
      BY ONLY <3>3, <3>5, <3>6, <3>7, <3>8, <3>9, Zenon DEF Halved, E
    <3> QED
      BY <3>9, <3>10 DEF u
  <2> QED
    BY <2>8, <2>9, <2>10
<1> QED
  BY <1>10, <1>11
-----------------------------------------------------------------------------
(* What a remove makes of a node.                                          *)

\* The keys W of two neighbours are parted at the begin of the second.
Parted(ks, S, R, e, s, Q, W) ==
  /\ e \in Seq(Entries(S)) /\ Sound(ks, R, e, Q) /\ W \in SUBSET Nat
  /\ Share(ks, e, s, Q) = {q \in W : q > KeyAt(ks, e[s + 1].begin)}
  /\ Share(ks, e, s + 1, Q) = {q \in W : KeyAt(ks, e[s + 1].begin) >= q}

\* Two neighbours share their span at the key of the second one's begin.
LEMMA SpanPair ==
  ASSUME NEW ks \in Seq(Nat), NEW S, NEW R, NEW e \in Seq(Entries(S)), NEW Q \in SUBSET Nat,
         Sound(ks, R, e, Q), NEW s \in 1 .. Len(e) - 1
  PROVE  Parted(ks, S, R, e, s, Q, Span(ks, e, s, s + 1, Q))
<1> DEFINE K(i) == KeyAt(ks, e[i].begin)
           W == Span(ks, e, s, s + 1, Q)
<1>1. Len(e) \in Nat /\ s \in Nat /\ s + 1 > 1 /\ s < Len(e) /\ (s + 1) + 1 = s + 2
      /\ s \in 1 .. Len(e) /\ s + 1 \in 2 .. Len(e) /\ s + 1 \in 1 .. Len(e)
  OBVIOUS
<1>2. \A i \in 1 .. Len(e) : K(i) \in Nat
  <2>1. e \in Seq([ptr : S, begin : Nat])
    BY DEF Entries
  <2> QED
    BY <2>1, BeginKeys
<1>3. \A i, j \in 2 .. Len(e) : i < j => K(i) > K(j)
  BY DEF Sound
<1>4. \A q : q \in W <=> q \in Q /\ (s > 1 => K(s) >= q) /\ (s + 1 < Len(e) => q > K((s + 1) + 1))
  BY DEF Span
<1>5. /\ \A q : q \in Share(ks, e, s, Q) <=> q \in Q /\ (s > 1 => K(s) >= q) /\ q > K(s + 1)
      /\ \A q : q \in Share(ks, e, s + 1, Q) <=> q \in Q /\ K(s + 1) >= q /\ (s + 1 < Len(e) => q > K((s + 1) + 1))
  BY <1>1 DEF Share
<1> HIDE DEF K, W
<1>6. s + 1 < Len(e) => K(s + 1) > K((s + 1) + 1) /\ K((s + 1) + 1) \in Nat
  <2> SUFFICES ASSUME s + 1 < Len(e) PROVE K(s + 1) > K((s + 1) + 1) /\ K((s + 1) + 1) \in Nat
    OBVIOUS
  <2>1. (s + 1) + 1 \in 2 .. Len(e) /\ (s + 1) + 1 \in 1 .. Len(e) /\ s + 1 < (s + 1) + 1
    BY <1>1
  <2> QED
    BY ONLY <1>1, <1>2, <1>3, <2>1, Zenon
<1>7. s > 1 => K(s) > K(s + 1)
  <2> SUFFICES ASSUME s > 1 PROVE K(s) > K(s + 1)
    OBVIOUS
  <2>1. s \in 2 .. Len(e) /\ s < s + 1
    BY <1>1
  <2> QED
    BY ONLY <1>1, <1>3, <2>1, Zenon
<1>8. K(s) \in Nat /\ K(s + 1) \in Nat
  BY <1>1, <1>2
<1>9. ASSUME NEW q \in Q PROVE s + 1 < Len(e) /\ q > K(s + 1) => q > K((s + 1) + 1)
  <2>1. q \in Nat
    OBVIOUS
  <2> QED
    BY ONLY <1>6, <1>8, <2>1
<1>10. ASSUME NEW q \in Q PROVE s > 1 /\ K(s + 1) >= q => K(s) >= q
  <2>1. q \in Nat
    OBVIOUS
  <2> QED
    BY ONLY <1>7, <1>8, <2>1
<1>11. Share(ks, e, s, Q) = {q \in W : q > K(s + 1)}
  BY ONLY <1>4, <1>5, <1>9
<1>12. Share(ks, e, s + 1, Q) = {q \in W : K(s + 1) >= q}
  BY ONLY <1>4, <1>5, <1>10
<1>13. W \in SUBSET Nat
  BY <1>4
<1> QED
  BY ONLY <1>11, <1>12, <1>13, e \in Seq(Entries(S)), Sound(ks, R, e, Q), Zenon DEF K, W, Parted

\* What a merge makes of two neighbours, for the keys W and the places P.
Merged(ks, S, R, d, W, P, m) ==
  /\ m.connected \in BOOLEAN
  /\ m.connected => /\ m.left \in Seq(Entries(S)) /\ Len(m.left) \in halfdim(d) .. d
                    /\ Sound(ks, R, m.left, W) /\ Held(m.left) = P
  /\ ~m.connected => /\ Meet(ks, S, R, W, m.left, m.right)
                     /\ Len(m.left) \in halfdim(d) .. d /\ Len(m.right) \in halfdim(d) .. d
                     /\ Held(m.left) \cup Held(m.right) = P

\* fs_btree_merge_node keeps all places and leaves one sound node or two that meet.
LEMMA MergeKeeps ==
  ASSUME NEW ks \in Seq(Nat), NEW S, NEW R, Regular(ks, S, R), NEW W \in SUBSET Nat,
         NEW d \in Nat, d >= 3, NEW begin \in Nat, begin < Len(ks),
         NEW a \in Seq(Entries(S)), NEW b \in Seq(Entries(S)),
         Len(a) <= d, Len(b) <= d, Len(a) + Len(b) >= 2 * halfdim(d) - 1,
         Sound(ks, R, a, {q \in W : q > KeyAt(ks, begin)}),
         Sound(ks, R, b, {q \in W : KeyAt(ks, begin) >= q}),
         NEW P, P = Held(a) \cup Held(b)
  PROVE  Merged(ks, S, R, d, W, P, Merge(a, b, begin, d))
<1> DEFINE E == Entries(S)
           b1 == Begun(b, begin)
           m == Merge(a, b, begin, d)
           all == a \o b1
<1>1. a \in Seq(E) /\ b \in Seq(E) /\ b # <<>> /\ Len(a) \in Nat /\ Len(b) \in Nat
  BY DEF Sound
<1>2. \A x \in E : [ptr |-> x.ptr, begin |-> begin] \in E
  BY DEF Entries
<1>3. /\ b1 \in Seq(E) /\ Len(b1) = Len(b) /\ b1[1].begin = begin
      /\ \A i \in 1 .. Len(b) : b1[i].ptr = b[i].ptr
      /\ Sound(ks, R, b1, {q \in W : KeyAt(ks, begin) >= q})
  <2> DEFINE B == {q \in W : KeyAt(ks, begin) >= q}
  <2>1. Sound(ks, R, b, B)
    OBVIOUS
  <2> HIDE DEF B
  <2>2. IsBegun(ks, S, R, B, b, begin, b1)
    BY ONLY <2>1, SoundBegun, b \in Seq(Entries(S)), begin \in Nat, begin < Len(ks), Zenon DEF b1
  <2> QED
    BY ONLY <2>2, Zenon DEF B, IsBegun, E
<1> HIDE DEF b1, E
<1>4. IsMerge(E, m, a, b, begin, d)
  BY ONLY <1>1, <1>2, MergeParts, d \in Nat, d >= 3, Len(a) <= d, Len(b) <= d, Zenon DEF m
<1> HIDE DEF m
<1>5. Sound(ks, R, all, W)
  <2>1. Sound(ks, R, a, {q \in W : q > KeyAt(ks, b1[1].begin)})
        /\ Sound(ks, R, b1, {q \in W : KeyAt(ks, b1[1].begin) >= q})
    BY ONLY <1>3, Sound(ks, R, a, {q \in W : q > KeyAt(ks, begin)}), Zenon
  <2> QED
    BY ONLY <1>1, <1>3, <2>1, SoundJoin, ks \in Seq(Nat), Regular(ks, S, R), W \in SUBSET Nat, Zenon DEF E, all
<1>6. Held(all) = P
  <2>1. Held(all) = Held(a) \cup Held(b1)
    BY ONLY <1>1, <1>3, HeldByTwo, Zenon DEF all
  <2>2. \A x : x \in Held(b1) <=> x \in Held(b)
    <3> TAKE x
    <3>1. (x \in Held(b1) <=> \E i \in 1 .. Len(b1) : x \in Places(b1[i].ptr))
          /\ (x \in Held(b) <=> \E i \in 1 .. Len(b) : x \in Places(b[i].ptr))
      BY HeldIs, Zenon
    <3> QED
      BY ONLY <1>3, <3>1
  <2>3. Held(b1) = Held(b)
    BY ONLY <2>2, Zenon
  <2> QED
    BY <2>1, <2>3
<1>7. /\ m.connected \in BOOLEAN /\ all \in Seq(E)
      /\ m.connected => m.left = all /\ Len(m.left) = Len(a) + Len(b) /\ Len(m.left) <= d
      /\ ~m.connected => /\ m.left \in Seq(E) /\ m.right \in Seq(E) /\ m.left \o m.right = all
                         /\ Len(m.left) \in halfdim(d) .. d
                         /\ Len(m.right) \in halfdim(d) .. d
  BY ONLY <1>4, Zenon DEF IsMerge, all, b1
<1> HIDE DEF all
<1>8. halfdim(d) \in Nat /\ halfdim(d) >= 2 /\ halfdim(d) < d
  BY HalfIsLess
<1>9. m.connected => /\ m.left \in Seq(E) /\ Len(m.left) \in halfdim(d) .. d
                     /\ Sound(ks, R, m.left, W) /\ Held(m.left) = P
  <2> SUFFICES ASSUME m.connected
               PROVE  /\ m.left \in Seq(E) /\ Len(m.left) \in halfdim(d) .. d
                      /\ Sound(ks, R, m.left, W) /\ Held(m.left) = P
    BY Zenon
  <2>1. m.left = all /\ Len(m.left) = Len(a) + Len(b) /\ Len(m.left) <= d
    BY ONLY <1>7, m.connected, Zenon
  <2>2. Len(m.left) \in halfdim(d) .. d
    BY <1>1, <1>8, <2>1
  <2> QED
    BY ONLY <1>5, <1>6, <1>7, <2>1, <2>2, Zenon
<1>10. ~m.connected => /\ Meet(ks, S, R, W, m.left, m.right)
                       /\ Len(m.left) \in halfdim(d) .. d /\ Len(m.right) \in halfdim(d) .. d
                       /\ Held(m.left) \cup Held(m.right) = P
  <2> SUFFICES ASSUME ~m.connected
               PROVE  /\ Meet(ks, S, R, W, m.left, m.right)
                      /\ Len(m.left) \in halfdim(d) .. d /\ Len(m.right) \in halfdim(d) .. d
                      /\ Held(m.left) \cup Held(m.right) = P
    BY Zenon
  <2> DEFINE l == m.left
             r == m.right
  <2>1. l \in Seq(E) /\ r \in Seq(E) /\ l \o r = all /\ Len(l) \in halfdim(d) .. d /\ Len(r) \in halfdim(d) .. d
    BY ONLY <1>7, ~m.connected, Zenon
  <2> HIDE DEF l, r
  <2>2. Len(l) >= 1 /\ Len(r) >= 1
    BY <1>8, <2>1
  <2>3. Sound(ks, R, l \o r, W)
    BY ONLY <1>5, <2>1, Zenon
  <2>4. Meet(ks, S, R, W, l, r)
    BY ONLY <2>1, <2>2, <2>3, SoundHalves, ks \in Seq(Nat), Regular(ks, S, R), W \in SUBSET Nat, Zenon DEF E
  <2>5. Held(l \o r) = Held(l) \cup Held(r)
    BY ONLY <2>1, HeldByTwo, Zenon
  <2>6. Held(l) \cup Held(r) = P
    BY ONLY <1>6, <2>1, <2>5, Zenon
  <2> QED
    BY ONLY <2>1, <2>4, <2>6, Zenon DEF l, r
<1> QED
  BY ONLY <1>7, <1>9, <1>10, Zenon DEF Merged, m, E
\* The n entries f of a node are in order for the keys Q, and hold the places P.
Whole(ks, S, R, Q, P, n, f) ==
  /\ f \in Seq(Entries(S)) /\ Len(f) = n
  /\ Sound(ks, R, f, Q) /\ Held(f) = P

\* An exchange of sound entries leaves a node sound, and what it holds is known.
LEMMA Swap ==
  ASSUME NEW ks \in Seq(Nat), NEW S, NEW R, Regular(ks, S, R),
         NEW e \in Seq(Entries(S)), NEW new \in Seq(Entries(S)), NEW Q \in SUBSET Nat,
         NEW p \in 1 .. Len(e), NEW m \in 1 .. Len(e), p <= m,
         Sound(ks, R, e, Q), Sound(ks, R, new, Span(ks, e, p, m, Q)),
         p > 1 => KeyAt(ks, new[1].begin) = KeyAt(ks, e[p].begin),
         NEW P, \A x : x \in P <=>
                  x \in Held(new) \/ \E i \in 1 .. Len(e) : (i < p \/ i > m) /\ x \in Places(e[i].ptr)
  PROVE  Whole(ks, S, R, Q, P, Len(e) + Len(new) - (m + 1 - p), Exchange(e, p, m, new))
<1> DEFINE E == Entries(S)
           f == Exchange(e, p, m, new)
<1>1. e \in Seq(E) /\ new \in Seq(E) /\ p \in 1 .. Len(e) /\ m \in 1 .. Len(e) /\ p <= m
  OBVIOUS
<1>2. Sound(ks, R, f, Q)
  BY SoundExchange, Zenon
<1> HIDE DEF E
<1>3. IsExchange(E, f, e, p, m, new)
  BY ONLY <1>1, Exchanged, Zenon DEF f
<1>4. \A x : x \in Held(f) <=>
           \/ x \in Held(new)
           \/ \E i \in 1 .. Len(e) : (i < p \/ i > m) /\ x \in Places(e[i].ptr)
  BY ONLY <1>1, HeldExchange, Zenon DEF f
<1> HIDE DEF f
<1>5. f \in Seq(E) /\ Len(f) = Len(e) + Len(new) - (m + 1 - p)
  BY ONLY <1>3, Zenon DEF IsExchange
<1>6. \A x : x \in Held(f) <=> x \in P
  BY ONLY <1>4, \A x : x \in P <=>
                  x \in Held(new) \/ \E i \in 1 .. Len(e) : (i < p \/ i > m) /\ x \in Places(e[i].ptr), Zenon
<1>7. Held(f) = P
  BY ONLY <1>6, Zenon
<1> QED
  BY ONLY <1>2, <1>5, <1>7, Zenon DEF Whole, E, f

\* Where a removal comes back to: the tree at pos of the entries e has kept the places C.
SinksIn(ks, S, R, Q, e, pos, C, P) ==
  /\ Regular(ks, S, R) /\ Q \in SUBSET Nat
  /\ e \in Seq(Entries(S)) /\ Len(e) >= 2 /\ Sound(ks, R, e, Q) /\ pos \in 0 .. Len(e) - 1
  /\ \A x : x \in P <=>
       x \in C \/ \E i \in 1 .. Len(e) : i # pos + 1 /\ x \in Places(e[i].ptr)

\* The entry at pos, when its tree has become t.
Put(e, pos, t) == [e EXCEPT ![pos + 1] = [ptr |-> t, begin |-> e[pos + 1].begin]]

\* What an entry of a sound node is, and that the tree below it fits its share.
LEMMA EntryIn ==
  ASSUME NEW ks, NEW S, NEW R, NEW Q, NEW e \in Seq(Entries(S)), Sound(ks, R, e, Q), NEW i \in 1 .. Len(e)
  PROVE  /\ e[i] \in Entries(S) /\ e[i].ptr \in S /\ e[i].begin \in Nat /\ e[i].begin < Len(ks)
         /\ <<e[i].ptr, Share(ks, e, i, Q)>> \in R
<1>1. e \in Seq([ptr : S, begin : Nat])
  BY DEF Entries
<1>2. e[i] \in [ptr : S, begin : Nat] /\ e[i].ptr \in S /\ e[i].begin \in Nat
  BY <1>1, EntriesHave
<1>3. e[i].begin < Len(ks) /\ <<e[i].ptr, Share(ks, e, i, Q)>> \in R
  BY DEF Sound
<1> QED
  BY <1>2, <1>3 DEF Entries

\* A child that was kept is put back.
LEMMA SinkKept ==
  ASSUME NEW ks \in Seq(Nat), NEW S, NEW R, NEW Q, NEW e, NEW pos, NEW C, NEW P,
         SinksIn(ks, S, R, Q, e, pos, C, P), NEW t, t \in S,
         <<t, Share(ks, e, pos + 1, Q)>> \in R, Places(t) = C
  PROVE  Whole(ks, S, R, Q, P, Len(e), Put(e, pos, t))
<1> DEFINE p == pos + 1
           W == Share(ks, e, p, Q)
           l == [ptr |-> t, begin |-> e[p].begin]
           E == Entries(S)
           one == <<l>>
<1>1. /\ Regular(ks, S, R) /\ Q \in SUBSET Nat
      /\ e \in Seq(E) /\ Len(e) >= 2 /\ Len(e) \in Nat /\ Sound(ks, R, e, Q) /\ pos \in 0 .. Len(e) - 1
      /\ p \in 1 .. Len(e) /\ p <= p /\ pos \in Nat
  BY DEF SinksIn
<1>2. \A x : x \in P <=> x \in C \/ \E i \in 1 .. Len(e) : i # p /\ x \in Places(e[i].ptr)
  BY Zenon DEF SinksIn
<1>3. Span(ks, e, p, p, Q) = W
  BY SpanOfOne, Zenon
<1>4. e[p].begin \in Nat /\ e[p].begin < Len(ks)
  BY ONLY <1>1, EntryIn, Zenon DEF E
<1>5. l \in E /\ l.ptr = t /\ l.begin = e[p].begin /\ l.begin < Len(ks)
  BY <1>4 DEF Entries
<1>6. Put(e, pos, t) = [e EXCEPT ![p] = l]
  BY DEF Put
<1> HIDE DEF p, W, l, E
<1>7. Put(e, pos, t) = Exchange(e, p, p, <<l>>)
  <2> DEFINE ec == [e EXCEPT ![p] = l]
  <2>1. e \in Seq(E) /\ p \in 1 .. Len(e) /\ l \in E
    BY ONLY <1>1, <1>5, Zenon
  <2>2. ec = Exchange(e, p, p, <<l>>)
    BY ONLY <2>1, ReplacedEntry DEF ec
  <2> QED
    BY <1>6, <2>2
<1>8. one \in Seq(E) /\ Len(one) = 1 /\ one[1] = l /\ Sound(ks, R, one, W)
  <2>1. <<l.ptr, W>> \in R
    BY <1>5 DEF W, p
  <2> QED
    BY ONLY <1>5, <2>1, SoundOne, Zenon DEF E, one
<1>9. Put(e, pos, t) = Exchange(e, p, p, one)
  BY <1>7
<1> HIDE DEF one
<1>10. Sound(ks, R, one, Span(ks, e, p, p, Q)) /\ (p > 1 => KeyAt(ks, one[1].begin) = KeyAt(ks, e[p].begin))
  BY ONLY <1>3, <1>5, <1>8, Zenon
<1>11. Held(one) = C
  <2>1. Held(one) = Places(one[1].ptr)
    BY ONLY <1>8, HeldByOne, Zenon
  <2> QED
    BY ONLY <1>5, <1>8, <2>1, Places(t) = C, Zenon
<1>12. \A x : x \in P <=>
         x \in Held(one) \/ \E i \in 1 .. Len(e) : (i < p \/ i > p) /\ x \in Places(e[i].ptr)
  <2>1. \A i \in 1 .. Len(e) : i # p <=> i < p \/ i > p
    BY <1>1
  <2> QED
    BY ONLY <1>2, <1>11, <2>1, Zenon
<1>13. Whole(ks, S, R, Q, P, Len(e) + Len(one) - (p + 1 - p), Exchange(e, p, p, one))
  BY ONLY <1>1, <1>8, <1>10, <1>12, Swap, ks \in Seq(Nat), Zenon DEF E
<1>14. Len(e) + Len(one) - (p + 1 - p) = Len(e)
  BY <1>1, <1>8
<1> QED
  BY ONLY <1>9, <1>13, <1>14, Zenon

\* The places of a node whose entries s and s + 1 are left out.
LEMMA PairLeft ==
  ASSUME NEW n \in Nat, NEW pos \in 0 .. n - 1, n >= 2, NEW s, s = IF pos = 0 THEN 1 ELSE pos
  PROVE  /\ s \in 1 .. n - 1 /\ s \in 1 .. n /\ s + 1 \in 1 .. n /\ s <= s + 1 /\ s # s + 1
         /\ (pos + 1 = s /\ pos = s - 1 /\ s = 1) \/ (pos + 1 = s + 1 /\ pos = s)
         /\ \A i \in 1 .. n : (i < s \/ i > s + 1) <=> (i # s /\ i # s + 1)
         /\ n + 1 - ((s + 1) + 1 - s) = n - 1
         /\ n + 2 - ((s + 1) + 1 - s) = n
         /\ pos \in {s - 1, s} /\ s \in {s - 1, s} /\ s \in Nat
OBVIOUS

\* A child that was removed takes its entry away.
LEMMA SinkDropped ==
  ASSUME NEW ks \in Seq(Nat), NEW S, NEW R, NEW Q, NEW e, NEW pos, NEW P,
         SinksIn(ks, S, R, Q, e, pos, {}, P), NEW t
  PROVE  Whole(ks, S, R, Q, P, Len(e) - 1, RemoveEntry(Put(e, pos, t), pos))
<1> DEFINE s == IF pos = 0 THEN 1 ELSE pos
           o == IF pos = 0 THEN 2 ELSE pos
           y == e[o]
           E == Entries(S)
           l == [ptr |-> t, begin |-> e[pos + 1].begin]
           F == E \cup {l}
           c == Put(e, pos, t)
           W == Span(ks, e, s, s + 1, Q)
           one == <<y>>
           n == Len(e)
<1>1. /\ Regular(ks, S, R) /\ Q \in SUBSET Nat
      /\ e \in Seq(E) /\ n >= 2 /\ n \in Nat /\ Sound(ks, R, e, Q) /\ pos \in 0 .. n - 1
  BY DEF SinksIn
<1>2. \A x : x \in P <=> \E i \in 1 .. n : i # pos + 1 /\ x \in Places(e[i].ptr)
  BY DEF SinksIn
<1>3. /\ s \in 1 .. n - 1 /\ s \in 1 .. n /\ s + 1 \in 1 .. n /\ s <= s + 1 /\ s # s + 1
      /\ (pos + 1 = s /\ pos = s - 1 /\ s = 1) \/ (pos + 1 = s + 1 /\ pos = s)
      /\ \A i \in 1 .. n : (i < s \/ i > s + 1) <=> (i # s /\ i # s + 1)
      /\ n + 1 - ((s + 1) + 1 - s) = n - 1
      /\ pos \in {s - 1, s} /\ s \in Nat
  <2>1. s = IF pos = 0 THEN 1 ELSE pos
    OBVIOUS
  <2> HIDE DEF n, s
  <2> QED
    BY ONLY <1>1, <2>1, PairLeft, SMT
<1>4. o \in 1 .. n /\ (pos + 1 = s => o = s + 1) /\ (pos + 1 # s => o = s)
      /\ (pos = s => o = s) /\ (pos = s - 1 => o = s + 1) /\ o \in {s, s + 1}
      /\ (s > 1 => o = s) /\ pos + 1 \in {s, s + 1} /\ o # pos + 1
  BY <1>1
<1> HIDE DEF n
<1>5. /\ y \in E /\ y.ptr \in S /\ y.begin \in Nat /\ y.begin < Len(ks)
      /\ <<y.ptr, Share(ks, e, o, Q)>> \in R
  BY ONLY <1>1, <1>4, EntryIn, Zenon DEF E, y, n
<1> HIDE DEF s, o, E
<1>6. y \in E /\ e \in Seq(E) /\ E \subseteq F /\ c \in Seq(F) /\ Len(c) = n /\ DOMAIN c = 1 .. n
      /\ \A i \in 1 .. n : i # pos + 1 => c[i] = e[i]
  BY <1>1, <1>5 DEF Put, n
<1> HIDE DEF c, F, y
<1>7. /\ \A i \in 1 .. n : i # s /\ i # s + 1 => c[i] = e[i]
      /\ pos = s => c[s] = y
      /\ pos = s - 1 => c[s + 1] = y
  BY <1>3, <1>4, <1>6 DEF y
<1>8. RemoveEntry(c, pos) = Exchange(e, s, s + 1, <<y>>)
  <2>1. ToOne(E, F, e, c, s, pos, y)
    BY ONLY <1>1, <1>3, <1>6, <1>7 DEF ToOne, n
  <2> QED
    BY ONLY <2>1, PairToOne, SMT
<1>9. /\ W \in SUBSET Nat
      /\ Share(ks, e, s, Q) = {q \in W : q > KeyAt(ks, e[s + 1].begin)}
      /\ Share(ks, e, s + 1, Q) = {q \in W : KeyAt(ks, e[s + 1].begin) >= q}
  <2>1. Parted(ks, S, R, e, s, Q, W)
    BY ONLY <1>1, <1>3, SpanPair, ks \in Seq(Nat), Zenon DEF E, W, n
  <2> QED
    BY ONLY <2>1, Zenon DEF Parted
<1>10. Share(ks, e, o, Q) \in SUBSET Nat /\ Share(ks, e, o, Q) \subseteq W
  BY ONLY <1>4, <1>9
<1>11. <<y.ptr, W>> \in R
  BY ONLY <1>1, <1>5, <1>9, <1>10, Zenon DEF Regular
<1> HIDE DEF W
<1>12. one \in Seq(E) /\ Len(one) = 1 /\ one[1] = y /\ Sound(ks, R, one, W)
  BY ONLY <1>5, <1>11, SoundOne, Zenon DEF E, one
<1>13. RemoveEntry(c, pos) = Exchange(e, s, s + 1, one)
  BY <1>8
<1> HIDE DEF one
<1>14. s > 1 => KeyAt(ks, one[1].begin) = KeyAt(ks, e[s].begin)
  BY ONLY <1>4, <1>12, Zenon DEF y
<1>15. Held(one) = Places(e[o].ptr)
  <2>1. Held(one) = Places(one[1].ptr)
    BY ONLY <1>12, HeldByOne, Zenon
  <2> QED
    BY ONLY <1>12, <2>1, Zenon DEF y
<1>16. \A x : x \in P <=>
         x \in Held(one) \/ \E i \in 1 .. n : (i < s \/ i > s + 1) /\ x \in Places(e[i].ptr)
  <2>1. \A i \in 1 .. n : i # pos + 1 <=> i = o \/ (i < s \/ i > s + 1)
    BY ONLY <1>1, <1>3, <1>4
  <2> QED
    BY ONLY <1>2, <1>4, <1>15, <2>1, Zenon
<1>17. Sound(ks, R, one, Span(ks, e, s, s + 1, Q))
  BY <1>12 DEF W
<1>18. Whole(ks, S, R, Q, P, n + Len(one) - ((s + 1) + 1 - s), Exchange(e, s, s + 1, one))
  BY ONLY <1>1, <1>3, <1>12, <1>14, <1>16, <1>17, Swap, ks \in Seq(Nat), Zenon DEF E, n
<1>19. n + Len(one) - ((s + 1) + 1 - s) = n - 1
  BY ONLY <1>3, <1>12, Zenon
<1> QED
  BY ONLY <1>13, <1>18, <1>19, Zenon DEF c, n
\* The trees of a height above the leaves, and what a merge takes of one of them.
LEMMA FitParts ==
  ASSUME NEW ks \in Seq(Nat), NEW d \in Nat, d >= 3, NEW h \in 1 .. MaxItems, NEW t, NEW Q,
         <<t, Q>> \in Fits(ks, d)[h]
  PROVE  /\ Whole(ks, Even[h - 1], Fits(ks, d)[h - 1], Q, Places(t), Len(t.entries), t.entries)
         /\ Len(t.entries) \in halfdim(d) .. d
<1>1. /\ t \in NodesOver(Even[h - 1]) /\ Sound(ks, Fits(ks, d)[h - 1], t.entries, Q)
      /\ Len(t.entries) \in halfdim(d) .. d
  BY FitNode, Zenon
<1>2. h - 1 \in 0 .. MaxItems /\ Even[h - 1] \subseteq Tree
  BY EvenHas, Zenon
<1>3. t.entries \in Seq(Entries(Even[h - 1])) /\ t \in NodesOver(Tree) /\ t \in Tree
  <2>1. t.entries \in Seq([ptr : Even[h - 1], begin : Nat])
    BY ONLY <1>1, NodeIs, Zenon
  <2>2. t \in NodesOver(Tree)
    BY ONLY <1>1, <1>2, MoreNodes
  <2>3. t \in Even[h]
    BY ONLY <1>1, EvenHas, h \in 1 .. MaxItems, Zenon
  <2>4. t \in Tree
    <3>1. h \in 0 .. MaxItems
      OBVIOUS
    <3> QED
      BY ONLY <2>3, <3>1, EvenTrees
  <2> QED
    BY ONLY <2>1, <2>2, <2>4 DEF Entries
<1>4. Places(t) = Held(t.entries)
  BY ONLY <1>3, HeldByNode, Zenon
<1> QED
  BY ONLY <1>1, <1>3, <1>4, Zenon DEF Whole

\* A node of entries that are in order is a tree of its height.
LEMMA FitMade ==
  ASSUME NEW ks \in Seq(Nat), NEW d \in Nat, d >= 3, NEW h \in 1 .. MaxItems, NEW f, NEW Q \in SUBSET Nat,
         NEW P, NEW n \in halfdim(d) .. d,
         Whole(ks, Even[h - 1], Fits(ks, d)[h - 1], Q, P, n, f)
  PROVE  <<Node(f), Q>> \in Fits(ks, d)[h] /\ Node(f) \in Even[h] /\ Places(Node(f)) = P
<1>1. /\ f \in Seq(Entries(Even[h - 1])) /\ Len(f) = n
      /\ Sound(ks, Fits(ks, d)[h - 1], f, Q) /\ Held(f) = P
  BY Zenon DEF Whole
<1>2. halfdim(d) \in Nat /\ halfdim(d) >= 2
  BY HalfIsLess
<1>3. f \in Seq([ptr : Even[h - 1], begin : Nat]) /\ Len(f) >= 2
  BY <1>1, <1>2 DEF Entries
<1>4. Node(f) \in NodesOver(Even[h - 1])
  BY ONLY <1>3, NodeIs, Zenon
<1>5. Node(f).entries = f
  BY NodeHas, Zenon
<1>6. <<Node(f), Q>> \in Fits(ks, d)[h]
  <2>1. Sound(ks, Fits(ks, d)[h - 1], Node(f).entries, Q) /\ Len(Node(f).entries) \in halfdim(d) .. d
    BY ONLY <1>1, <1>5, n \in halfdim(d) .. d, Zenon
  <2> QED
    BY ONLY <1>4, <2>1, FitNode, h \in 1 .. MaxItems, Q \in SUBSET Nat, Zenon
<1>7. Node(f) \in Even[h]
  BY ONLY <1>4, EvenHas, h \in 1 .. MaxItems, Zenon
<1>8. Places(Node(f)) = P
  <2>1. Whole(ks, Even[h - 1], Fits(ks, d)[h - 1], Q, Places(Node(f)), Len(Node(f).entries), Node(f).entries)
    BY ONLY <1>6, FitParts, ks \in Seq(Nat), d \in Nat, d >= 3, h \in 1 .. MaxItems, Zenon
  <2>2. Held(Node(f).entries) = Places(Node(f))
    BY ONLY <2>1, Zenon DEF Whole
  <2> QED
    BY ONLY <1>1, <1>5, <2>2, Zenon
<1> QED
  BY ONLY <1>6, <1>7, <1>8, Zenon
\* A function on 1 .. n is a sequence.
LEMMA SeqMade ==
  ASSUME NEW E, NEW n \in Nat, NEW f, f = [i \in 1 .. n |-> f[i]], \A i \in 1 .. n : f[i] \in E
  PROVE  f \in Seq(E) /\ Len(f) = n
<1>1. f \in [1 .. n -> E]
  BY Zenon
<1> QED
  BY <1>1

\* The entries a of the tree at i, when a removal has left too few at pos.
IsSide(ks, d, h, Q, e, pos, C, i, a) ==
  /\ Whole(ks, Even[h - 1], Fits(ks, d)[h - 1], Share(ks, e, i, Q),
           IF i = pos + 1 THEN C ELSE Places(e[i].ptr), Len(a), a)
  /\ Len(a) \in Nat /\ Len(a) <= d
  /\ i = pos + 1 => Len(a) = halfdim(d) - 1
  /\ i # pos + 1 => Len(a) >= halfdim(d)

\* Each of the two neighbours of a merge is such a side.
LEMMA SideIs ==
  ASSUME NEW ks \in Seq(Nat), NEW d \in Nat, d >= 3, NEW h \in 1 .. MaxItems,
         NEW Q, NEW e, NEW pos, NEW C, NEW P,
         SinksIn(ks, Even[h], Fits(ks, d)[h], Q, e, pos, C, P), NEW f,
         Whole(ks, Even[h - 1], Fits(ks, d)[h - 1], Share(ks, e, pos + 1, Q), C, halfdim(d) - 1, f),
         NEW i \in 1 .. Len(e), NEW a, a = Put(e, pos, Node(f))[i].ptr.entries
  PROVE  IsSide(ks, d, h, Q, e, pos, C, i, a)
<1>1. /\ e \in Seq(Entries(Even[h])) /\ Sound(ks, Fits(ks, d)[h], e, Q) /\ pos \in 0 .. Len(e) - 1
      /\ Len(e) \in Nat /\ pos + 1 \in 1 .. Len(e) /\ DOMAIN e = 1 .. Len(e)
  BY DEF SinksIn
<1>2. halfdim(d) \in Nat /\ halfdim(d) >= 2 /\ halfdim(d) < d
  BY HalfIsLess
<1>3. CASE i = pos + 1
  <2>1. Put(e, pos, Node(f))[i] = [ptr |-> Node(f), begin |-> e[pos + 1].begin]
    BY ONLY <1>1, <1>3 DEF Put
  <2>2. a = Node(f).entries
    BY <2>1
  <2>3. a = f
    BY ONLY <2>2, NodeHas, Zenon
  <2>4. Len(a) = halfdim(d) - 1
    BY ONLY <2>3, Whole(ks, Even[h - 1], Fits(ks, d)[h - 1], Share(ks, e, pos + 1, Q), C, halfdim(d) - 1, f),
       Zenon DEF Whole
  <2>5. Whole(ks, Even[h - 1], Fits(ks, d)[h - 1], Share(ks, e, i, Q), C, Len(a), a)
    BY ONLY <1>3, <2>3, <2>4, Whole(ks, Even[h - 1], Fits(ks, d)[h - 1], Share(ks, e, pos + 1, Q), C,
       halfdim(d) - 1, f), Zenon
  <2>6. Len(a) \in Nat /\ Len(a) <= d
    BY ONLY <1>2, <2>4, d \in Nat
  <2>7. (IF i = pos + 1 THEN C ELSE Places(e[i].ptr)) = C
    BY <1>3
  <2> QED
    BY ONLY <1>3, <2>4, <2>5, <2>6, <2>7, Zenon DEF IsSide
<1>4. CASE i # pos + 1
  <2>1. Put(e, pos, Node(f))[i] = e[i]
    BY ONLY <1>1, <1>4, i \in 1 .. Len(e) DEF Put
  <2>2. a = e[i].ptr.entries
    BY <2>1
  <2>3. <<e[i].ptr, Share(ks, e, i, Q)>> \in Fits(ks, d)[h]
    BY ONLY <1>1, EntryIn, i \in 1 .. Len(e), Zenon
  <2>4. /\ Whole(ks, Even[h - 1], Fits(ks, d)[h - 1], Share(ks, e, i, Q), Places(e[i].ptr), Len(e[i].ptr.entries), e[i].ptr.entries)
        /\ Len(e[i].ptr.entries) \in halfdim(d) .. d
    BY ONLY <2>3, FitParts, ks \in Seq(Nat), d \in Nat, d >= 3, h \in 1 .. MaxItems, Zenon
  <2>5. Whole(ks, Even[h - 1], Fits(ks, d)[h - 1], Share(ks, e, i, Q), Places(e[i].ptr), Len(a), a)
        /\ Len(a) \in halfdim(d) .. d
    BY ONLY <2>2, <2>4, Zenon
  <2>6. Len(a) \in Nat /\ Len(a) <= d /\ Len(a) >= halfdim(d)
    BY ONLY <1>2, <2>5, d \in Nat
  <2>7. (IF i = pos + 1 THEN C ELSE Places(e[i].ptr)) = Places(e[i].ptr)
    BY <1>4
  <2> QED
    BY ONLY <1>4, <2>5, <2>6, <2>7, Zenon DEF IsSide
<1> QED
  BY <1>3, <1>4

\* What becomes of entries whose tree at pos is left with f: the two that are merged
\* have the keys W, and are replaced by one or by two.
Mended(ks, d, h, Q, P, n, c, s, m) ==
  LET one == [c EXCEPT ![s] = [ptr |-> Node(m.left), begin |-> c[s].begin]]
      two == [one EXCEPT ![s + 1] = [ptr |-> Node(m.right), begin |-> m.right[1].begin]]
  IN  /\ m.connected \in BOOLEAN
      /\ m.connected => Whole(ks, Even[h], Fits(ks, d)[h], Q, P, n - 1, RemoveEntry(one, s))
      /\ ~m.connected => Whole(ks, Even[h], Fits(ks, d)[h], Q, P, n, two)

\* A child one short of half full is merged with a neighbour: the pair becomes one child, or
\* two that are half full at least.
LEMMA SinkMerged ==
  ASSUME NEW ks \in Seq(Nat), NEW d \in Nat, d >= 3, NEW h \in 1 .. MaxItems,
         NEW Q, NEW e, NEW pos, NEW C, NEW P,
         SinksIn(ks, Even[h], Fits(ks, d)[h], Q, e, pos, C, P), NEW f,
         Whole(ks, Even[h - 1], Fits(ks, d)[h - 1], Share(ks, e, pos + 1, Q), C, halfdim(d) - 1, f),
         NEW c, c = Put(e, pos, Node(f)), NEW s, s = IF pos = 0 THEN 1 ELSE pos,
         NEW m, m = Merge(c[s].ptr.entries, c[s + 1].ptr.entries, c[s + 1].begin, d)
  PROVE  Mended(ks, d, h, Q, P, Len(e), c, s, m)
<1> DEFINE S == Even[h]
           R == Fits(ks, d)[h]
           T == Even[h - 1]
           U == Fits(ks, d)[h - 1]
           E == Entries(S)
           n == Len(e)
           W == Span(ks, e, s, s + 1, Q)
           a == c[s].ptr.entries
           b == c[s + 1].ptr.entries
           begin == e[s + 1].begin
           H(i) == IF i = pos + 1 THEN C ELSE Places(e[i].ptr)
           M == H(s) \cup H(s + 1)
<1>1. /\ Regular(ks, S, R) /\ Q \in SUBSET Nat
      /\ e \in Seq(E) /\ n >= 2 /\ n \in Nat /\ Sound(ks, R, e, Q) /\ pos \in 0 .. n - 1 /\ DOMAIN e = 1 .. n
  BY DEF SinksIn
<1>2. \A x : x \in P <=> x \in C \/ \E i \in 1 .. n : i # pos + 1 /\ x \in Places(e[i].ptr)
  BY Zenon DEF SinksIn
<1>3. /\ s \in 1 .. n - 1 /\ s \in 1 .. n /\ s + 1 \in 1 .. n /\ s <= s + 1 /\ s # s + 1
      /\ (pos + 1 = s /\ pos = s - 1 /\ s = 1) \/ (pos + 1 = s + 1 /\ pos = s)
      /\ \A i \in 1 .. n : (i < s \/ i > s + 1) <=> (i # s /\ i # s + 1)
      /\ n + 1 - ((s + 1) + 1 - s) = n - 1
      /\ n + 2 - ((s + 1) + 1 - s) = n
      /\ s \in {s - 1, s} /\ s \in Nat
  <2>1. s = IF pos = 0 THEN 1 ELSE pos
    OBVIOUS
  <2> HIDE DEF n
  <2> QED
    BY ONLY <1>1, <2>1, SMT
<1> HIDE DEF n
<1>4. halfdim(d) \in Nat /\ halfdim(d) >= 2 /\ halfdim(d) < d
  BY HalfIsLess
<1>5. h \in 0 .. MaxItems /\ h - 1 \in 0 .. MaxItems
  BY BTreeAssumption
<1>21. s # s - 1
  BY <1>3
<1>6. Regular(ks, T, U)
  BY ONLY <1>5, FitsRegular, ks \in Seq(Nat), d \in Nat, d >= 3, Zenon DEF T, U
<1>7. /\ W \in SUBSET Nat
      /\ Share(ks, e, s, Q) = {q \in W : q > KeyAt(ks, begin)}
      /\ Share(ks, e, s + 1, Q) = {q \in W : KeyAt(ks, begin) >= q}
  <2>1. Parted(ks, S, R, e, s, Q, W)
    BY ONLY <1>1, <1>3, SpanPair, ks \in Seq(Nat), Zenon DEF E, W, n
  <2> QED
    BY ONLY <2>1, Zenon DEF Parted, begin
<1>8. begin \in Nat /\ begin < Len(ks) /\ e[s].begin \in Nat /\ e[s].begin < Len(ks)
  BY ONLY <1>1, <1>3, EntryIn, Zenon DEF E, n, begin
\* The two that are merged.
<1>9. /\ Whole(ks, T, U, Share(ks, e, s, Q), H(s), Len(a), a)
      /\ Len(a) \in Nat /\ Len(a) <= d
      /\ s = pos + 1 => Len(a) = halfdim(d) - 1
      /\ s # pos + 1 => Len(a) >= halfdim(d)
  <2>1. a = Put(e, pos, Node(f))[s].ptr.entries
    BY Zenon
  <2> HIDE DEF a
  <2>2. IsSide(ks, d, h, Q, e, pos, C, s, a)
    BY <1>3, <2>1, SideIs, Zenon DEF n
  <2> QED
    BY ONLY <2>2, Zenon DEF IsSide, H, T, U
<1>10. /\ Whole(ks, T, U, Share(ks, e, s + 1, Q), H(s + 1), Len(b), b)
       /\ Len(b) \in Nat /\ Len(b) <= d
       /\ s + 1 = pos + 1 => Len(b) = halfdim(d) - 1
       /\ s + 1 # pos + 1 => Len(b) >= halfdim(d)
  <2>1. b = Put(e, pos, Node(f))[s + 1].ptr.entries
    BY Zenon
  <2> HIDE DEF b
  <2>2. IsSide(ks, d, h, Q, e, pos, C, s + 1, b)
    BY <1>3, <2>1, SideIs, Zenon DEF n
  <2> QED
    BY ONLY <2>2, Zenon DEF IsSide, H, T, U
<1>11. c[s].begin = e[s].begin /\ c[s + 1].begin = begin
  BY <1>1, <1>3 DEF Put
<1>12. m = Merge(a, b, begin, d)
  BY <1>11
<1>13. \A i \in 1 .. n : i # s /\ i # s + 1 => c[i] = e[i]
  BY <1>1, <1>3 DEF Put
<1> HIDE DEF H, S, R, T, U, E, W, a, b, begin, M
<1>14. Len(a) + Len(b) >= 2 * halfdim(d) - 1
  BY ONLY <1>3, <1>4, <1>9, <1>10
<1>15. Merged(ks, T, U, d, W, M, m)
  <2>1. /\ a \in Seq(Entries(T)) /\ Sound(ks, U, a, {q \in W : q > KeyAt(ks, begin)}) /\ Held(a) = H(s)
        /\ b \in Seq(Entries(T)) /\ Sound(ks, U, b, {q \in W : KeyAt(ks, begin) >= q}) /\ Held(b) = H(s + 1)
    BY ONLY <1>7, <1>9, <1>10, Zenon DEF Whole
  <2>2. M = Held(a) \cup Held(b)
    BY ONLY <2>1, Zenon DEF M
  <2>3. Merged(ks, T, U, d, W, M, Merge(a, b, begin, d))
    BY ONLY <1>6, <1>7, <1>8, <1>9, <1>10, <1>14, <2>1, <2>2, MergeKeeps, ks \in Seq(Nat), d \in Nat, d >= 3, Zenon
  <2> QED
    BY ONLY <1>12, <2>3, Zenon
<1>16. \A x : x \in P <=> x \in M \/ \E i \in 1 .. n : (i < s \/ i > s + 1) /\ x \in Places(e[i].ptr)
  <2>1. \A x : x \in M <=> x \in H(s) \/ x \in H(s + 1)
    BY DEF M
  <2>2. \/ pos + 1 = s /\ H(s) = C /\ H(s + 1) = Places(e[s + 1].ptr)
           /\ \A i \in 1 .. n : i # pos + 1 <=> i = s + 1 \/ (i < s \/ i > s + 1)
        \/ pos + 1 = s + 1 /\ H(s + 1) = C /\ H(s) = Places(e[s].ptr)
           /\ \A i \in 1 .. n : i # pos + 1 <=> i = s \/ (i < s \/ i > s + 1)
    BY ONLY <1>1, <1>3 DEF H
  <2> QED
    BY ONLY <1>2, <1>3, <2>1, <2>2, Zenon
<1> DEFINE y == [ptr |-> Node(m.left), begin |-> c[s].begin]
           one == [c EXCEPT ![s] = y]
           z == [ptr |-> Node(m.right), begin |-> m.right[1].begin]
           two == [one EXCEPT ![s + 1] = z]
<1>17. c \in Seq(E \cup {c[pos + 1]}) /\ Len(c) = n /\ DOMAIN c = 1 .. n
  BY <1>1, <1>3 DEF Put, n
<1>18. ASSUME m.connected
       PROVE  Whole(ks, S, R, Q, P, n - 1, RemoveEntry(one, s))
  <2>1. /\ m.left \in Seq(Entries(T)) /\ Len(m.left) \in halfdim(d) .. d
        /\ Sound(ks, U, m.left, W) /\ Held(m.left) = M
    BY ONLY <1>15, <1>18, Zenon DEF Merged
  <2>2. Whole(ks, T, U, W, M, Len(m.left), m.left)
    BY ONLY <2>1, Zenon DEF Whole
  <2>3. <<Node(m.left), W>> \in R /\ Node(m.left) \in S /\ Places(Node(m.left)) = M
    BY ONLY <1>7, <2>1, <2>2, FitMade, ks \in Seq(Nat), d \in Nat, d >= 3, h \in 1 .. MaxItems, Zenon DEF S, R, T, U
  <2>4. y \in E /\ y.ptr = Node(m.left) /\ y.begin = e[s].begin
    BY ONLY <1>8, <1>11, <2>3 DEF E, Entries
  <2> HIDE DEF y
  <2> DEFINE new == <<y>>
             F == (E \cup {c[pos + 1]})
  <2>5. new \in Seq(E) /\ Len(new) = 1 /\ new[1] = y /\ Sound(ks, R, new, W)
    <3>1. y.begin < Len(ks) /\ <<y.ptr, W>> \in R
      BY ONLY <1>8, <2>3, <2>4, Zenon
    <3> QED
      BY ONLY <2>4, <3>1, SoundOne, Zenon DEF E
  <2>6. ToOne(E, F, e, one, s, s, y)
    <3>1. one \in Seq(F) /\ Len(one) = n /\ one[s] = y /\ \A i \in 1 .. n : i # s => one[i] = c[i]
      BY ONLY <1>3, <1>17, <2>4
    <3>2. \A i \in 1 .. n : i # s /\ i # s + 1 => one[i] = e[i]
      BY ONLY <1>13, <3>1, Zenon
    <3>3. E \subseteq F
      OBVIOUS
    <3> HIDE DEF one, F
    <3> QED
      BY ONLY <1>1, <1>3, <1>21, <2>4, <3>1, <3>2, <3>3, Zenon DEF ToOne, n
  <2>7. RemoveEntry(one, s) = Exchange(e, s, s + 1, new)
    BY ONLY <2>6, PairToOne, SMT DEF new
  <2> HIDE DEF new
  <2>8. Held(new) = M
    <3>1. Held(new) = Places(new[1].ptr)
      BY ONLY <2>5, HeldByOne, Zenon
    <3> QED
      BY ONLY <2>3, <2>4, <2>5, <3>1, Zenon
  <2>9. s > 1 => KeyAt(ks, new[1].begin) = KeyAt(ks, e[s].begin)
    BY ONLY <2>4, <2>5, Zenon
  <2>10. Sound(ks, R, new, Span(ks, e, s, s + 1, Q))
    BY ONLY <2>5, Zenon DEF W
  <2>11. \A x : x \in P <=> x \in Held(new) \/ \E i \in 1 .. n : (i < s \/ i > s + 1) /\ x \in Places(e[i].ptr)
    BY ONLY <1>16, <2>8, Zenon
  <2>12. Whole(ks, S, R, Q, P, n + Len(new) - ((s + 1) + 1 - s), Exchange(e, s, s + 1, new))
    BY ONLY <1>1, <1>3, <2>5, <2>9, <2>10, <2>11, Swap, ks \in Seq(Nat), Zenon DEF E, n
  <2>13. n + Len(new) - ((s + 1) + 1 - s) = n - 1
    BY ONLY <1>3, <2>5, Zenon
  <2> QED
    BY ONLY <2>7, <2>12, <2>13, Zenon
<1>19. ASSUME ~m.connected
       PROVE  Whole(ks, S, R, Q, P, n, two)
  <2> DEFINE l == m.left
             r == m.right
             K == KeyAt(ks, r[1].begin)
             A == {q \in W : q > K}
             B == {q \in W : K >= q}
  <2>1. /\ Meet(ks, T, U, W, l, r)
        /\ Len(l) \in halfdim(d) .. d /\ Len(r) \in halfdim(d) .. d
        /\ Held(l) \cup Held(r) = M
    BY ONLY <1>15, <1>19, Zenon DEF Merged
  <2>2. /\ l \in Seq(Entries(T)) /\ r \in Seq(Entries(T)) /\ r[1].begin < Len(ks)
        /\ Sound(ks, U, l, A) /\ Sound(ks, U, r, B)
    BY ONLY <2>1, Zenon DEF Meet, A, B, K
  <2>3. A \in SUBSET Nat /\ B \in SUBSET Nat
    BY <1>7
  <2>4. r[1].begin \in Nat
    <3>1. r \in Seq([ptr : T, begin : Nat]) /\ r # <<>>
      BY <2>2 DEF Entries, Sound
    <3> QED
      BY ONLY <3>1, EntriesHave
  <2> HIDE DEF A, B, l, r
  <2>5. Whole(ks, T, U, A, Held(l), Len(l), l) /\ Whole(ks, T, U, B, Held(r), Len(r), r)
    BY ONLY <2>2, Zenon DEF Whole
  <2>6. <<Node(l), A>> \in R /\ Node(l) \in S /\ Places(Node(l)) = Held(l)
    BY ONLY <2>1, <2>3, <2>5, FitMade, ks \in Seq(Nat), d \in Nat, d >= 3, h \in 1 .. MaxItems, Zenon DEF S, R, T, U
  <2>7. <<Node(r), B>> \in R /\ Node(r) \in S /\ Places(Node(r)) = Held(r)
    BY ONLY <2>1, <2>3, <2>5, FitMade, ks \in Seq(Nat), d \in Nat, d >= 3, h \in 1 .. MaxItems, Zenon DEF S, R, T, U
  <2>8. y \in E /\ y.ptr = Node(l) /\ y.begin = e[s].begin
    BY ONLY <1>8, <1>11, <2>6 DEF E, Entries, l
  <2>9. z \in E /\ z.ptr = Node(r) /\ z.begin = r[1].begin
    BY ONLY <2>4, <2>7 DEF E, Entries, r
  <2>10. ToTwo(E, e, two, s, y, z)
    <3> HIDE DEF y, z
    <3>1. one[s] = y /\ DOMAIN one = 1 .. n /\ \A i \in 1 .. n : i # s => one[i] = c[i]
      BY ONLY <1>3, <1>17
    <3>2. two[s] = y /\ two[s + 1] = z /\ \A i \in 1 .. n : i # s /\ i # s + 1 => two[i] = c[i]
      <4> HIDE DEF one
      <4> QED
        BY ONLY <1>3, <3>1
    <3>3. \A i \in 1 .. n : i # s /\ i # s + 1 => two[i] = e[i]
      BY ONLY <1>13, <3>2, Zenon
    <3>4. two \in Seq(E) /\ Len(two) = n
      <4>1. two = [i \in 1 .. n |-> two[i]]
        BY ONLY <1>17
      <4>2. \A i \in 1 .. n : e[i] \in E
        BY ONLY <1>1 DEF n
      <4> HIDE DEF two
      <4>3. \A i \in 1 .. n : two[i] \in E
        BY ONLY <2>8, <2>9, <3>2, <3>3, <4>2
      <4> QED
        BY ONLY <1>1, <4>1, <4>3, SeqMade
    <3> HIDE DEF two
    <3> QED
      BY ONLY <1>1, <1>3, <2>8, <2>9, <3>2, <3>3, <3>4, Zenon DEF ToTwo, n
  <2> HIDE DEF y, z
  <2> DEFINE new == <<y, z>>
  <2>11. new \in Seq(E) /\ Len(new) = 2 /\ new[1] = y /\ new[2] = z /\ Sound(ks, R, new, W)
    <3>1. y.begin < Len(ks) /\ z.begin < Len(ks)
      BY ONLY <1>8, <2>2, <2>8, <2>9, Zenon
    <3>2. <<y.ptr, {q \in W : q > KeyAt(ks, z.begin)}>> \in R /\ <<z.ptr, {q \in W : KeyAt(ks, z.begin) >= q}>> \in R
      BY ONLY <2>6, <2>7, <2>8, <2>9, Zenon DEF A, B, K
    <3> QED
      BY ONLY <1>1, <1>7, <2>8, <2>9, <3>1, <3>2, SoundTwo, ks \in Seq(Nat), Zenon DEF E
  <2>12. two = Exchange(e, s, s + 1, new)
    BY ONLY <2>10, PairToTwo, SMT DEF new
  <2> HIDE DEF new, two
  <2>13. Held(new) = M
    <3>1. \A i : i \in 1 .. Len(new) <=> i = 1 \/ i = 2
      BY <2>11
    <3>2. \A x : x \in Held(new) <=> x \in Places(new[1].ptr) \/ x \in Places(new[2].ptr)
      <4>1. \A x : x \in Held(new) <=> \E i \in 1 .. Len(new) : x \in Places(new[i].ptr)
        BY ONLY HeldIs, Zenon
      <4> QED
        BY ONLY <3>1, <4>1
    <3>3. \A x : x \in Held(new) <=> x \in Held(l) \/ x \in Held(r)
      BY ONLY <2>6, <2>7, <2>8, <2>9, <2>11, <3>2, Zenon
    <3>4. Held(l) \cup Held(r) = M
      BY ONLY <2>1
    <3> QED
      BY ONLY <3>3, <3>4
  <2>14. s > 1 => KeyAt(ks, new[1].begin) = KeyAt(ks, e[s].begin)
    BY ONLY <2>8, <2>11, Zenon
  <2>15. Sound(ks, R, new, Span(ks, e, s, s + 1, Q))
    BY ONLY <2>11, Zenon DEF W
  <2>16. \A x : x \in P <=> x \in Held(new) \/ \E i \in 1 .. n : (i < s \/ i > s + 1) /\ x \in Places(e[i].ptr)
    BY ONLY <1>16, <2>13, Zenon
  <2>17. Whole(ks, S, R, Q, P, n + Len(new) - ((s + 1) + 1 - s), Exchange(e, s, s + 1, new))
    BY ONLY <1>1, <1>3, <2>11, <2>14, <2>15, <2>16, Swap, ks \in Seq(Nat), Zenon DEF E, n
  <2>18. n + Len(new) - ((s + 1) + 1 - s) = n
    BY ONLY <1>3, <2>11, Zenon
  <2> QED
    BY ONLY <2>12, <2>17, <2>18, Zenon
<1>20. m.connected \in BOOLEAN
  BY ONLY <1>15, Zenon DEF Merged
<1> HIDE DEF one, two
<1> QED
  BY ONLY <1>18, <1>19, <1>20, Zenon DEF Mended, one, two, y, z, S, R, n
\* What a removal gives back of a tree of height h, for the keys Q: P are the places left.
Gives(ks, d, h, Q, P, r) ==
  \/ r.result = "ok" /\ <<r.node, Q>> \in Fits(ks, d)[h] /\ Places(r.node) = P
  \/ r.result = "removed" /\ P = {}
  \/ /\ r.result = "need_merge" /\ h # 0
     /\ \E f : /\ r.node = Node(f)
               /\ Whole(ks, Even[h - 1], Fits(ks, d)[h - 1], Q, P, halfdim(d) - 1, f)

\* What it makes of a node of n entries above it.
Sunk(ks, d, h, Q, P, n, u) ==
  \E f, m :
    /\ u.node = Node(f) /\ Whole(ks, Even[h], Fits(ks, d)[h], Q, P, m, f)
    /\ \/ u.result = "ok" /\ (m = n \/ (m = n - 1 /\ m >= halfdim(d)))
       \/ u.result = "need_merge" /\ m = n - 1 /\ m < halfdim(d)

\* fs_btree_remove1 at a node keeps it sound, whatever its child returns, and hands up whether the key was there.
LEMMA SinkKeeps ==
  ASSUME NEW ks \in Seq(Nat), dimension \in Nat, dimension >= 3, NEW h \in 0 .. MaxItems,
         NEW Q, NEW t, NEW e, e = t.entries, NEW pos, NEW C, NEW P,
         SinksIn(ks, Even[h], Fits(ks, dimension)[h], Q, e, pos, C, P),
         NEW r, Gives(ks, dimension, h, Share(ks, e, pos + 1, Q), C, r)
  PROVE  /\ Sunk(ks, dimension, h, Q, P, Len(e), Sink(t, pos, r))
         /\ Sink(t, pos, r).retv = r.retv
<1> DEFINE d == dimension
           S == Even[h]
           R == Fits(ks, d)[h]
           n == Len(e)
           W == Share(ks, e, pos + 1, Q)
           c == Put(e, pos, r.node)
           s == IF pos = 0 THEN 1 ELSE pos
           m == Merge(c[s].ptr.entries, c[s + 1].ptr.entries, c[s + 1].begin, dimension)
           one == [c EXCEPT ![s] = [ptr |-> Node(m.left), begin |-> c[s].begin]]
           two == [one EXCEPT ![s + 1] = [ptr |-> Node(m.right), begin |-> m.right[1].begin]]
           Keep(entries) == [node |-> Node(entries), retv |-> r.retv, result |-> "ok"]
           Drop(entries) == [node |-> Node(entries), retv |-> r.retv, result |->
                               IF Len(entries) < halfdim(dimension) THEN "need_merge" ELSE "ok"]
           u == Sink(t, pos, r)
<1>1. u = IF r.result = "ok" THEN Keep(c)
          ELSE IF r.result = "removed" THEN Drop(RemoveEntry(c, pos))
          ELSE IF m.connected THEN Drop(RemoveEntry(one, s))
          ELSE Keep(two)
  BY e = t.entries, Zenon DEF Sink, Put
<1>2. halfdim(d) \in Nat /\ n \in Nat /\ n >= 2
  <2>1. halfdim(d) \in Nat
    BY HalfIsLess
  <2>2. e \in Seq(Entries(S)) /\ n >= 2
    BY DEF SinksIn
  <2> QED
    BY <2>1, <2>2
<1>3. SinksIn(ks, S, R, Q, e, pos, C, P)
  OBVIOUS
<1>4. \/ r.result = "ok" /\ <<r.node, W>> \in R /\ Places(r.node) = C
      \/ r.result = "removed" /\ C = {}
      \/ /\ r.result = "need_merge" /\ h # 0
         /\ \E f : /\ r.node = Node(f)
                   /\ Whole(ks, Even[h - 1], Fits(ks, d)[h - 1], W, C, halfdim(d) - 1, f)
  BY Zenon DEF Gives
<1> HIDE DEF u, n, c, m, one, two
<1>5. ASSUME NEW f, Whole(ks, S, R, Q, P, n, f), u = Keep(f)
      PROVE  Sunk(ks, d, h, Q, P, n, u) /\ u.retv = r.retv
  <2>1. u.node = Node(f) /\ u.retv = r.retv /\ u.result = "ok"
    BY ONLY <1>5
  <2> QED
    BY ONLY <1>5, <2>1, Zenon DEF Sunk, S, R
<1>6. ASSUME NEW f, Whole(ks, S, R, Q, P, n - 1, f), u = Drop(f)
      PROVE  Sunk(ks, d, h, Q, P, n, u) /\ u.retv = r.retv
  <2>1. u.node = Node(f) /\ u.retv = r.retv /\ u.result = IF Len(f) < halfdim(d) THEN "need_merge" ELSE "ok"
    BY ONLY <1>6
  <2>2. Len(f) = n - 1
    BY ONLY <1>6, Zenon DEF Whole
  <2>3. \/ u.result = "ok" /\ n - 1 >= halfdim(d)
        \/ u.result = "need_merge" /\ n - 1 < halfdim(d)
    BY ONLY <1>2, <2>1, <2>2
  <2> QED
    BY ONLY <1>6, <2>1, <2>3, Zenon DEF Sunk, S, R
<1>7. CASE r.result = "ok"
  <2>1. <<r.node, W>> \in R /\ Places(r.node) = C
    BY ONLY <1>4, <1>7
  <2>2. r.node \in S
    <3>1. Regular(ks, S, R)
      BY ONLY <1>3, Zenon DEF SinksIn
    <3>2. R \subseteq S \X SUBSET Nat
      BY ONLY <3>1, Zenon DEF Regular
    <3> QED
      BY ONLY <2>1, <3>2
  <2>3. Whole(ks, S, R, Q, P, Len(e), c)
    BY ONLY <1>3, <2>1, <2>2, SinkKept, ks \in Seq(Nat), Zenon DEF W, c
  <2>4. u = Keep(c)
    BY ONLY <1>1, <1>7, Zenon
  <2>5. Whole(ks, S, R, Q, P, n, c)
    BY ONLY <2>3, Zenon DEF n
  <2>6. Sunk(ks, d, h, Q, P, n, u) /\ u.retv = r.retv
    BY ONLY <1>5, <2>4, <2>5, Zenon
  <2> QED
    BY ONLY <2>6, Zenon DEF n, d, u
<1>8. CASE r.result = "removed"
  <2>1. C = {}
    BY ONLY <1>4, <1>8
  <2>2. SinksIn(ks, S, R, Q, e, pos, {}, P)
    BY ONLY <1>3, <2>1, Zenon
  <2>3. Whole(ks, S, R, Q, P, Len(e) - 1, RemoveEntry(c, pos))
    BY ONLY <2>2, SinkDropped, ks \in Seq(Nat), Zenon DEF c
  <2>4. u = Drop(RemoveEntry(c, pos))
    BY ONLY <1>1, <1>8
  <2>5. Whole(ks, S, R, Q, P, n - 1, RemoveEntry(c, pos))
    BY ONLY <2>3, Zenon DEF n
  <2>6. Sunk(ks, d, h, Q, P, n, u) /\ u.retv = r.retv
    BY ONLY <1>6, <2>4, <2>5, Zenon
  <2> QED
    BY ONLY <2>6, Zenon DEF n, d, u
<1>9. CASE r.result = "need_merge"
  <2>1. h # 0 /\ \E f : /\ r.node = Node(f)
                        /\ Whole(ks, Even[h - 1], Fits(ks, d)[h - 1], W, C, halfdim(d) - 1, f)
    BY ONLY <1>4, <1>9
  <2>2. PICK f : /\ r.node = Node(f)
                 /\ Whole(ks, Even[h - 1], Fits(ks, d)[h - 1], W, C, halfdim(d) - 1, f)
    BY ONLY <2>1, Zenon
  <2>3. h \in 1 .. MaxItems
    BY <2>1
  <2>4. c = Put(e, pos, Node(f))
    BY ONLY <2>2, Zenon DEF c
  <2>5. s = IF pos = 0 THEN 1 ELSE pos
    BY Zenon
  <2>6. m = Merge(c[s].ptr.entries, c[s + 1].ptr.entries, c[s + 1].begin, dimension)
    BY Zenon DEF m
  <2>10. u = IF m.connected THEN Drop(RemoveEntry(one, s)) ELSE Keep(two)
    BY ONLY <1>1, <1>9
  <2> HIDE DEF s
  <2>7. Mended(ks, dimension, h, Q, P, Len(e), c, s, m)
    BY ONLY <1>3, <2>2, <2>3, <2>4, <2>5, <2>6, SinkMerged, ks \in Seq(Nat), dimension \in Nat, dimension >= 3,
            Zenon DEF S, R, W, d
  <2>8. /\ m.connected \in BOOLEAN
        /\ m.connected => Whole(ks, S, R, Q, P, n - 1, RemoveEntry(one, s))
        /\ ~m.connected => Whole(ks, S, R, Q, P, n, two)
    BY ONLY <2>7, Zenon DEF Mended, one, two, S, R, n, d
  <2>9. Sunk(ks, d, h, Q, P, n, u) /\ u.retv = r.retv
    <3>1. CASE m.connected
      <4>1. u = Drop(RemoveEntry(one, s)) /\ Whole(ks, S, R, Q, P, n - 1, RemoveEntry(one, s))
        BY ONLY <2>8, <2>10, <3>1, Zenon
      <4> QED
        BY ONLY <1>6, <4>1, Zenon
    <3>2. CASE ~m.connected
      <4>1. u = Keep(two) /\ Whole(ks, S, R, Q, P, n, two)
        BY ONLY <2>8, <2>10, <3>2, Zenon
      <4> QED
        BY ONLY <1>5, <4>1, Zenon
    <3> QED
      BY ONLY <3>1, <3>2, Zenon
  <2> QED
    BY ONLY <2>9, Zenon DEF n, d, u
<1> QED
  BY <1>4, <1>7, <1>8, <1>9
-----------------------------------------------------------------------------
(* Inserts, removes, descents and searches in a tree of any height.        *)

\* A new leaf takes its place beside the one that was met.
LEMMA PlaceReturns ==
  ASSUME key \in Seq(Nat), NEW d, NEW k \in Nat, NEW kn, kn = Append(key, k), NEW nodes \in Nat,
         NEW t, NEW Q, <<t, Q>> \in Fits(key, d)[0], k \in Q, \A i \in Places(t) : KeyAt(key, i) # k,
         NEW r, r = Placed(t, Leaf(Len(key)), k, nodes)
  PROVE  Returns(kn, Leaves, Fits(kn, d)[0], Q, Places(t) \cup {Len(key)}, r)
<1> DEFINE j == Len(key)
           a == Leaf(j)
           i == t.vch_index
           E == Entries(Leaves)
           P == Places(t) \cup {j}
<1>1. t \in Leaves /\ Q \in SUBSET Nat /\ i < Len(key) /\ KeyAt(key, i) \in Q /\ i \in Nat /\ j \in Nat
  <2>1. t \in Leaves /\ Q \in SUBSET Nat /\ i < Len(key) /\ KeyAt(key, i) \in Q
    BY FitLeaf, Zenon
  <2>2. i \in Nat
    BY <2>1, LeafIs, Zenon
  <2> QED
    BY <2>1, <2>2
<1>2. kn \in Seq(Nat) /\ Len(kn) = j + 1 /\ kn[j + 1] = k /\ \A x \in 1 .. j : kn[x] = key[x]
  OBVIOUS
<1>3. KeyAt(kn, j) = k /\ KeyAt(kn, i) = KeyAt(key, i) /\ KeyAt(key, i) \in Nat /\ i < Len(kn) /\ j < Len(kn)
  <2>1. i + 1 \in 1 .. j
    BY <1>1
  <2>2. key[i + 1] \in Nat
    BY <2>1
  <2> QED
    BY <1>1, <1>2, <2>1, <2>2 DEF KeyAt
<1>4. /\ t = Leaf(i) /\ a \in Leaves /\ a.vch_index = j /\ Places(t) = {i} /\ Places(a) = {j}
  <2>1. t = Leaf(i) /\ a \in Leaves /\ a.vch_index = j
    BY <1>1, LeafIs, Zenon
  <2> QED
    BY <1>1, <2>1, PlacesOfLeaf, Zenon
<1>5. KeyAt(key, i) # k
  BY <1>4
<1>6. Place(t, a, k) = IF k >= KeyAt(key, i)
        THEN [node |-> a, xn |-> <<[ptr |-> t, begin |-> i]>>]
        ELSE [node |-> t, xn |-> <<[ptr |-> a, begin |-> a.vch_index]>>]
  BY Zenon DEF Place, fkeylt, Rgetdata, KeyAt
<1> HIDE DEF a, i, j
<1>7. CASE k >= KeyAt(key, i)
  <2> DEFINE x == [ptr |-> t, begin |-> i]
             A == {q \in Q : q > KeyAt(kn, i)}
             B == {q \in Q : KeyAt(kn, i) >= q}
  <2>1. r.node = a /\ r.xn = <<x>> /\ r.nodes = nodes
    BY <1>6, <1>7 DEF j, a, Placed
  <2>2. x \in E /\ x.begin = i /\ x.ptr = t
    BY <1>1 DEF Entries
  <2>3. k \in A /\ KeyAt(key, i) \in B /\ A \in SUBSET Nat /\ B \in SUBSET Nat
    <3>1. k > KeyAt(kn, i) /\ KeyAt(kn, i) >= KeyAt(key, i)
      BY ONLY <1>3, <1>5, <1>7, k \in Nat
    <3> QED
      BY ONLY <1>1, <3>1, k \in Q
  <2> HIDE DEF A, B, x
  <2>4. <<a, A>> \in Fits(kn, d)[0]
    BY ONLY <1>3, <1>4, <2>3, FitLeaf, Zenon
  <2>5. <<t, B>> \in Fits(kn, d)[0]
    BY ONLY <1>1, <1>3, <2>3, FitLeaf, Zenon DEF i
  <2>6. Places(r.node) \cup Places(x.ptr) = P
    BY <1>4, <2>1, <2>2
  <2>7. r.nodes \in Int /\ r.nodes >= -1 /\ r.nodes >= 0 /\ r.node \in Leaves
    BY <1>4, <2>1
  <2>8. x.begin < Len(kn)
    BY <1>3, <2>2
  <2>9. <<r.node, {q \in Q : q > KeyAt(kn, x.begin)}>> \in Fits(kn, d)[0]
        /\ <<x.ptr, {q \in Q : KeyAt(kn, x.begin) >= q}>> \in Fits(kn, d)[0]
    BY ONLY <2>1, <2>2, <2>4, <2>5, Zenon DEF A, B
  <2> QED
    BY ONLY <2>1, <2>2, <2>6, <2>7, <2>8, <2>9, Zenon DEF Returns, E, P, j
<1>8. CASE ~(k >= KeyAt(key, i))
  <2> DEFINE x == [ptr |-> a, begin |-> j]
             A == {q \in Q : q > KeyAt(kn, j)}
             B == {q \in Q : KeyAt(kn, j) >= q}
  <2>1. r.node = t /\ r.xn = <<x>> /\ r.nodes = nodes
    BY <1>4, <1>6, <1>8 DEF j, a, Placed
  <2>2. x \in E /\ x.begin = j /\ x.ptr = a
    BY <1>1, <1>4 DEF Entries
  <2>3. k \in B /\ KeyAt(key, i) \in A /\ A \in SUBSET Nat /\ B \in SUBSET Nat
    <3>1. KeyAt(key, i) > KeyAt(kn, j) /\ KeyAt(kn, j) >= k
      BY ONLY <1>3, <1>5, <1>8, k \in Nat
    <3> QED
      BY ONLY <1>1, <3>1, k \in Q
  <2> HIDE DEF A, B, x
  <2>4. <<a, B>> \in Fits(kn, d)[0]
    BY ONLY <1>3, <1>4, <2>3, FitLeaf, Zenon
  <2>5. <<t, A>> \in Fits(kn, d)[0]
    BY ONLY <1>1, <1>3, <2>3, FitLeaf, Zenon DEF i
  <2>6. Places(r.node) \cup Places(x.ptr) = P
    BY <1>4, <2>1, <2>2
  <2>7. r.nodes \in Int /\ r.nodes >= -1 /\ r.nodes >= 0 /\ r.node \in Leaves
    BY <1>1, <2>1
  <2>8. x.begin < Len(kn)
    BY <1>3, <2>2
  <2>9. <<r.node, {q \in Q : q > KeyAt(kn, x.begin)}>> \in Fits(kn, d)[0]
        /\ <<x.ptr, {q \in Q : KeyAt(kn, x.begin) >= q}>> \in Fits(kn, d)[0]
    BY ONLY <2>1, <2>2, <2>4, <2>5, Zenon DEF A, B
  <2> QED
    BY ONLY <2>1, <2>2, <2>6, <2>7, <2>8, <2>9, Zenon DEF Returns, E, P, j
<1> QED
  BY <1>7, <1>8

\* What an insert keeps of the trees of height h.
InsertsIn(kn, k, nodes, h) ==
  \A t, Q : <<t, Q>> \in Fits(key, dimension)[h] /\ k \in Q /\ (\A i \in Places(t) : KeyAt(key, i) # k)
    => Returns(kn, Even[h], Fits(kn, dimension)[h], Q, Places(t) \cup {Len(key)},
               Insert1(t, Leaf(Len(key)), k, nodes))

\* An entry's share stays the same.
SameShare(ks, kn, e, p, Q) == Share(kn, e, p, Q) = Share(ks, e, p, Q)

\* A share does not change when keys are put behind the others.
LEMMA ShareStays ==
  ASSUME NEW ks \in Seq(Nat), NEW kn \in Seq(Nat), Len(ks) <= Len(kn),
         \A i \in 1 .. Len(ks) : kn[i] = ks[i],
         NEW e, Len(e) \in Nat, \A i \in 1 .. Len(e) : e[i].begin \in Nat /\ e[i].begin < Len(ks),
         NEW Q, NEW p \in 1 .. Len(e)
  PROVE  SameShare(ks, kn, e, p, Q)
<1>1. \A i \in 1 .. Len(e) : KeyAt(kn, e[i].begin) = KeyAt(ks, e[i].begin)
  BY KeysStay, Zenon
<1>2. KeyAt(kn, e[p].begin) = KeyAt(ks, e[p].begin)
  BY <1>1
<1>3. p < Len(e) => KeyAt(kn, e[p + 1].begin) = KeyAt(ks, e[p + 1].begin)
  BY <1>1
<1> QED
  BY <1>2, <1>3 DEF Share, SameShare
\* The items that an insert adds behind the others.
LEMMA KeyAdded ==
  ASSUME key \in Seq(Nat), NEW k \in Nat, NEW kn, kn = Append(key, k)
  PROVE  /\ kn \in Seq(Nat) /\ Len(kn) = Len(key) + 1 /\ Len(key) <= Len(kn)
         /\ \A i \in 1 .. Len(key) : kn[i] = key[i]
OBVIOUS

\* The node that a descent for a key goes through: where it goes on.
GoesOn(S, R, t, Q, k, pos) ==
  /\ t.entries \in Seq(Entries(S)) /\ Len(t.entries) \in Nat /\ Len(t.entries) >= 2
  /\ pos \in 0 .. Len(t.entries) - 1 /\ pos + 1 \in 1 .. Len(t.entries)
  /\ Child(t, k) = t.entries[pos + 1].ptr /\ Child(t, k) \in S
  /\ <<Child(t, k), Share(key, t.entries, pos + 1, Q)>> \in R
  /\ k \in Q => k \in Share(key, t.entries, pos + 1, Q)
  /\ Share(key, t.entries, pos + 1, Q) \in SUBSET Nat

\* The descent for a key goes on to a child that fits, and the key is in the child's share.
LEMMA Descent ==
  ASSUME key \in Seq(Nat), NEW S, NEW R, NEW t \in NodesOver(S), NEW Q \in SUBSET Nat,
         Sound(key, R, t.entries, Q), NEW k \in Nat
  PROVE  GoesOn(S, R, t, Q, k, LocateIn(t, k))
<1> DEFINE e == t.entries
           pos == LocateIn(t, k)
<1>1. e \in Seq([ptr : S, begin : Nat]) /\ Len(e) >= 2
  BY NodeIs, Zenon
<1>2. e \in Seq(Entries(S)) /\ Len(e) \in Nat /\ Len(e) >= 2
  BY <1>1 DEF Entries
<1>3. pos \in 0 .. Len(e) - 1 /\ pos + 1 \in 1 .. Len(e) /\ Child(t, k) \in S
  BY LocateInNode, Zenon
<1>4. Child(t, k) = e[pos + 1].ptr
  BY Zenon DEF Child
<1>5. <<e[pos + 1].ptr, Share(key, e, pos + 1, Q)>> \in R
  BY ONLY <1>2, <1>3, EntryIn, Sound(key, R, t.entries, Q), Zenon
<1>6. k \in Q => k \in Share(key, e, pos + 1, Q)
  <2>1. IsLocated(S, R, t, Q, k)
    BY LocateShare, Zenon
  <2> QED
    BY ONLY <2>1, Zenon DEF IsLocated
<1>7. Share(key, e, pos + 1, Q) \in SUBSET Nat
  BY DEF Share
<1> QED
  BY ONLY <1>2, <1>3, <1>4, <1>5, <1>6, <1>7, Zenon DEF GoesOn

\* The places of a node are those of the tree at an entry and of the others.
LEMMA PlacesAround ==
  ASSUME NEW t \in Tree, t \in NodesOver(Tree), NEW p \in 1 .. Len(t.entries)
  PROVE  \A x : x \in Places(t) <=>
           x \in Places(t.entries[p].ptr) \/ \E i \in 1 .. Len(t.entries) : i # p /\ x \in Places(t.entries[i].ptr)
<1>1. \A x : x \in Places(t) <=> \E j \in 1 .. Len(t.entries) : x \in Places(t.entries[j].ptr)
  BY PlacesOfNode, Zenon
<1> QED
  BY <1>1, Zenon

\* fs_btree_insert1 at a node: the node is kept, with an entry more at most, or split.
LEMMA NodeRises ==
  ASSUME key \in Seq(Nat), dimension \in Nat, dimension >= 3, NEW k \in Nat, NEW kn, kn = Append(key, k),
         NEW nodes, NEW h \in 1 .. MaxItems, InsertsIn(kn, k, nodes, h - 1),
         NEW t \in NodesOver(Even[h - 1]), NEW Q \in SUBSET Nat,
         Sound(key, Fits(key, dimension)[h - 1], t.entries, Q), Len(t.entries) <= dimension,
         k \in Q, \A i \in Places(t) : KeyAt(key, i) # k,
         NEW u, u = Insert1(t, Leaf(Len(key)), k, nodes)
  PROVE  /\ u.nodes \in Int /\ u.nodes >= -1
         /\ \/ Kept(kn, Even[h - 1], Fits(kn, dimension)[h - 1], Len(t.entries), dimension, Q,
                    Places(t) \cup {Len(key)}, u)
            \/ Halved(kn, Even[h - 1], Fits(kn, dimension)[h - 1], dimension, Q,
                      Places(t) \cup {Len(key)}, u)
<1> DEFINE d == dimension
           S == Even[h - 1]
           R == Fits(key, d)[h - 1]
           Rn == Fits(kn, d)[h - 1]
           e == t.entries
           pos == LocateIn(t, k)
           a == Leaf(Len(key))
           c == Child(t, k)
           W == Share(key, e, pos + 1, Q)
           r == Insert1(c, a, k, nodes)
           C == Places(c) \cup {Len(key)}
           P == Places(t) \cup {Len(key)}
<1>1. h - 1 \in 0 .. MaxItems /\ h \in 0 .. MaxItems /\ S \subseteq Tree /\ Even[h] = NodesOver(S)
  BY EvenHas, BTreeAssumption
<1>2. t \in Tree /\ ~IsLeaf(t) /\ t \in NodesOver(Tree)
  <2>1. Even[h] \subseteq Tree
    BY ONLY <1>1, EvenTrees
  <2>2. t \in Even[h]
    BY ONLY <1>1, t \in NodesOver(Even[h - 1]), Zenon
  <2>3. ~IsLeaf(t)
    BY NodeIs, Zenon
  <2>4. t \in NodesOver(Tree)
    BY ONLY <1>1, t \in NodesOver(Even[h - 1]), MoreNodes
  <2> QED
    BY ONLY <2>1, <2>2, <2>3, <2>4
<1>3. GoesOn(S, R, t, Q, k, pos)
  BY Descent, Zenon
<1>4. u = Rise(t, pos, r)
  BY <1>2, Insert1Is, Zenon
<1>5. kn \in Seq(Nat) /\ Len(key) <= Len(kn) /\ \A i \in 1 .. Len(key) : kn[i] = key[i]
  BY ONLY KeyAdded, key \in Seq(Nat), k \in Nat, kn = Append(key, k), Zenon
<1>6. /\ e \in Seq(Entries(S)) /\ Len(e) \in Nat /\ Len(e) >= 2
      /\ pos \in 0 .. Len(e) - 1 /\ pos + 1 \in 1 .. Len(e)
      /\ c = e[pos + 1].ptr /\ c \in S /\ <<c, W>> \in R /\ k \in W
  BY ONLY <1>3, k \in Q, Zenon DEF GoesOn
<1>7. \A x : x \in Places(t) <=>
        x \in Places(c) \/ \E i \in 1 .. Len(e) : i # pos + 1 /\ x \in Places(e[i].ptr)
  BY ONLY <1>2, <1>6, PlacesAround, Zenon
<1> HIDE DEF pos, c, r, W, a, C
<1>8. \A i \in Places(c) : KeyAt(key, i) # k
  BY ONLY <1>7, \A i \in Places(t) : KeyAt(key, i) # k, Zenon
<1>9. Returns(kn, S, Rn, W, C, r)
  BY ONLY <1>6, <1>8, InsertsIn(kn, k, nodes, h - 1), Zenon DEF InsertsIn, C, r, a
<1>10. W = Share(kn, e, pos + 1, Q)
  <2>1. Share(kn, e, pos + 1, Q) = Share(key, e, pos + 1, Q)
    <3>1. \A i \in 1 .. Len(e) : e[i].begin \in Nat /\ e[i].begin < Len(key)
      <4> SUFFICES ASSUME NEW i \in 1 .. Len(e) PROVE e[i].begin \in Nat /\ e[i].begin < Len(key)
        OBVIOUS
      <4> QED
        BY ONLY <1>6, i \in 1 .. Len(e), Sound(key, Fits(key, dimension)[h - 1], t.entries, Q), EntryIn, Zenon
    <3> DEFINE p == pos + 1
    <3>2. p \in 1 .. Len(e) /\ Len(e) \in Nat
      BY ONLY <1>6, Zenon DEF p
    <3> HIDE DEF p, e
    <3>3. SameShare(key, kn, e, p, Q)
      BY ONLY <1>5, <3>1, <3>2, ShareStays, key \in Seq(Nat), Zenon
    <3> QED
      BY ONLY <3>3, Zenon DEF p, SameShare
  <2> QED
    BY ONLY <2>1, Zenon DEF W
<1>11. Sound(kn, Rn, e, Q)
  <2>1. \A x, y : <<x, y>> \in R => <<x, y>> \in Rn
    BY ONLY <1>1, <1>5, FitsStay, key \in Seq(Nat), Zenon
  <2>2. Regular(key, S, R)
    BY <1>1, FitsRegular, Zenon
  <2>3. R \subseteq S \X SUBSET Nat
    BY ONLY <2>2, Zenon DEF Regular
  <2> HIDE DEF R, Rn, S
  <2>4. R \subseteq Rn
    BY ONLY <2>1, <2>3
  <2>5. e \in Seq([ptr : S, begin : Nat])
    BY <1>6 DEF Entries
  <2>6. Sound(key, R, e, Q)
    BY DEF R
  <2> QED
    BY ONLY <1>5, <2>4, <2>5, <2>6, SoundStays, key \in Seq(Nat), Zenon
<1>12. Regular(kn, S, Rn)
  BY <1>1, <1>5, FitsRegular, Zenon
<1>13. \A x : x \in P <=>
         x \in C \/ \E i \in 1 .. Len(e) : i # pos + 1 /\ x \in Places(e[i].ptr)
  BY <1>7 DEF C
<1>14. Len(e) \in 2 .. dimension
  BY <1>6
<1>15. Returns(kn, S, Rn, Share(kn, e, pos + 1, Q), C, r)
  BY ONLY <1>9, <1>10, Zenon
<1> HIDE DEF P
<1>16. /\ Rise(t, pos, r).nodes \in Int /\ Rise(t, pos, r).nodes >= -1
       /\ \/ Kept(kn, S, Rn, Len(e), d, Q, P, Rise(t, pos, r))
          \/ Halved(kn, S, Rn, d, Q, P, Rise(t, pos, r))
  BY ONLY <1>5, <1>6, <1>11, <1>12, <1>13, <1>14, <1>15, RiseKeeps, Q \in SUBSET Nat, dimension \in Nat,
     dimension >= 3, Zenon DEF d, e
<1> QED
  BY ONLY <1>4, <1>16, Zenon DEF P, S, Rn, d, e
\* What a node gives back is what a tree of its height does.
LEMMA KeptReturns ==
  ASSUME NEW ks \in Seq(Nat), NEW d \in Nat, d >= 3, NEW h \in 1 .. MaxItems, NEW Q \in SUBSET Nat,
         NEW n \in Nat, n >= halfdim(d), NEW P, NEW u, u.nodes \in Int, u.nodes >= -1,
         Kept(ks, Even[h - 1], Fits(ks, d)[h - 1], n, d, Q, P, u)
  PROVE  Returns(ks, Even[h], Fits(ks, d)[h], Q, P, u)
<1> DEFINE S == Even[h - 1]
           R == Fits(ks, d)[h - 1]
<1>1. PICK f \in Seq(Entries(S)) :
        /\ u.xn = <<>> /\ u.node = Node(f) /\ Sound(ks, R, f, Q) /\ Len(f) \in n .. d
        /\ Held(f) \subseteq P /\ (u.nodes >= 0 => Held(f) = P)
  BY Zenon DEF Kept
<1>2. halfdim(d) \in Nat
  BY HalfIsLess
<1>3. Len(f) \in halfdim(d) .. d
  BY <1>1, <1>2
<1>4. Whole(ks, S, R, Q, Held(f), Len(f), f)
  BY ONLY <1>1, f \in Seq(Entries(S)), Zenon DEF Whole
<1>5. <<u.node, Q>> \in Fits(ks, d)[h] /\ u.node \in Even[h] /\ Places(u.node) = Held(f)
  BY ONLY <1>1, <1>3, <1>4, FitMade, ks \in Seq(Nat), d \in Nat, d >= 3, h \in 1 .. MaxItems, Q \in SUBSET Nat, Zenon
<1> QED
  BY ONLY <1>1, <1>5, u.nodes \in Int, u.nodes >= -1, Zenon DEF Returns

\* Two halves of a node are returned to the parent as such.
LEMMA HalvedReturns ==
  ASSUME NEW ks \in Seq(Nat), NEW d \in Nat, d >= 3, NEW h \in 1 .. MaxItems, NEW Q \in SUBSET Nat,
         NEW P, NEW u, u.nodes \in Int, u.nodes >= -1,
         Halved(ks, Even[h - 1], Fits(ks, d)[h - 1], d, Q, P, u)
  PROVE  Returns(ks, Even[h], Fits(ks, d)[h], Q, P, u)
<1> DEFINE S == Even[h - 1]
           R == Fits(ks, d)[h - 1]
<1>1. PICK a \in Seq(Entries(S)), b \in Seq(Entries(S)) :
        /\ u.node = Node(a) /\ u.xn = <<[ptr |-> Node(b), begin |-> b[1].begin]>>
        /\ u.nodes >= 0 /\ b[1].begin < Len(ks)
        /\ Len(a) \in halfdim(d) .. d /\ Len(b) \in halfdim(d) .. d
        /\ Sound(ks, R, a, {q \in Q : q > KeyAt(ks, b[1].begin)})
        /\ Sound(ks, R, b, {q \in Q : KeyAt(ks, b[1].begin) >= q})
        /\ Held(a) \cup Held(b) = P
  BY Zenon DEF Halved
<1> DEFINE x == [ptr |-> Node(b), begin |-> b[1].begin]
           A == {q \in Q : q > KeyAt(ks, b[1].begin)}
           B == {q \in Q : KeyAt(ks, b[1].begin) >= q}
<1>2. A \in SUBSET Nat /\ B \in SUBSET Nat
  OBVIOUS
<1>3. Sound(ks, R, a, A) /\ Sound(ks, R, b, B)
  BY ONLY <1>1, Zenon DEF A, B
<1>4. b[1].begin \in Nat
  <2>1. b \in Seq([ptr : S, begin : Nat]) /\ b # <<>>
    BY <1>3 DEF Entries, Sound
  <2> QED
    BY ONLY <2>1, EntriesHave
<1> HIDE DEF A, B, x
<1>5. Whole(ks, S, R, A, Held(a), Len(a), a) /\ Whole(ks, S, R, B, Held(b), Len(b), b)
  BY ONLY <1>3, a \in Seq(Entries(S)), b \in Seq(Entries(S)), Zenon DEF Whole
<1>6. <<Node(a), A>> \in Fits(ks, d)[h] /\ Node(a) \in Even[h] /\ Places(Node(a)) = Held(a)
  BY ONLY <1>1, <1>2, <1>5, FitMade, ks \in Seq(Nat), d \in Nat, d >= 3, h \in 1 .. MaxItems, Zenon
<1>7. <<Node(b), B>> \in Fits(ks, d)[h] /\ Node(b) \in Even[h] /\ Places(Node(b)) = Held(b)
  BY ONLY <1>1, <1>2, <1>5, FitMade, ks \in Seq(Nat), d \in Nat, d >= 3, h \in 1 .. MaxItems, Zenon
<1>8. x \in Entries(Even[h]) /\ x.ptr = Node(b) /\ x.begin = b[1].begin
  BY ONLY <1>4, <1>7 DEF x, Entries
<1>9. /\ u.xn = <<x>> /\ u.nodes >= 0 /\ x.begin < Len(ks)
      /\ <<u.node, {q \in Q : q > KeyAt(ks, x.begin)}>> \in Fits(ks, d)[h]
      /\ <<x.ptr, {q \in Q : KeyAt(ks, x.begin) >= q}>> \in Fits(ks, d)[h]
      /\ Places(u.node) \cup Places(x.ptr) = P
  <2>1. u.xn = <<x>>
    BY <1>1 DEF x
  <2>2. <<u.node, {q \in Q : q > KeyAt(ks, x.begin)}>> \in Fits(ks, d)[h]
        /\ <<x.ptr, {q \in Q : KeyAt(ks, x.begin) >= q}>> \in Fits(ks, d)[h]
    BY ONLY <1>1, <1>6, <1>7, <1>8, Zenon DEF A, B
  <2>3. Places(u.node) \cup Places(x.ptr) = P
    BY ONLY <1>1, <1>6, <1>7, <1>8, Zenon
  <2> QED
    BY ONLY <1>1, <1>8, <2>1, <2>2, <2>3, Zenon
<1> QED
  BY ONLY <1>1, <1>6, <1>8, <1>9, u.nodes \in Int, u.nodes >= -1, Zenon DEF Returns

\* An insert into a tree that is no root keeps it what it is.
LEMMA InsertKeeps ==
  ASSUME key \in Seq(Nat), dimension \in Nat, dimension >= 3, NEW k \in Nat, NEW kn, kn = Append(key, k),
         NEW nodes \in Nat, NEW h \in 0 .. MaxItems
  PROVE  InsertsIn(kn, k, nodes, h)
<1> DEFINE T == {n \in 0 .. MaxItems : ~InsertsIn(kn, k, nodes, n)}
<1>1. MaxItems \in Nat /\ T \in SUBSET Nat
  BY BTreeAssumption
<1>2. ASSUME T # {} PROVE FALSE
  <2>1. PICK n \in T : \A j \in T : n <= j
    BY ONLY <1>1, <1>2, LeastOf
  <2>2. n \in 0 .. MaxItems /\ ~InsertsIn(kn, k, nodes, n)
    BY <2>1
  <2>3. PICK t, Q : /\ <<t, Q>> \in Fits(key, dimension)[n] /\ k \in Q
                    /\ \A i \in Places(t) : KeyAt(key, i) # k
                    /\ ~Returns(kn, Even[n], Fits(kn, dimension)[n], Q, Places(t) \cup {Len(key)},
                                Insert1(t, Leaf(Len(key)), k, nodes))
    BY ONLY <2>2, Zenon DEF InsertsIn
  <2> DEFINE u == Insert1(t, Leaf(Len(key)), k, nodes)
             P == Places(t) \cup {Len(key)}
  <2>4. CASE n = 0
    <3>1. t \in Leaves
      BY ONLY <2>3, <2>4, FitLeaf, Zenon
    <3>2. t \in Tree /\ IsLeaf(t)
      BY <3>1, TreeIs, LeafIs
    <3>3. u = Placed(t, Leaf(Len(key)), k, nodes)
      <4> DEFINE a == Leaf(Len(key))
      <4>1. \A v \in Tree : Insert1(v, a, k, nodes) =
              IF IsLeaf(v) THEN Placed(v, a, k, nodes)
              ELSE Rise(v, LocateIn(v, k), Insert1(Child(v, k), a, k, nodes))
        BY Insert1Is
      <4> HIDE DEF a
      <4>2. Insert1(t, a, k, nodes) = Placed(t, a, k, nodes)
        BY ONLY <3>2, <4>1
      <4> QED
        BY ONLY <4>2, Zenon DEF a, u
    <3> HIDE DEF u
    <3>4. Returns(kn, Leaves, Fits(kn, dimension)[0], Q, P, u)
      BY ONLY <2>3, <2>4, <3>3, PlaceReturns, key \in Seq(Nat), k \in Nat, kn = Append(key, k), nodes \in Nat,
         Zenon DEF P
    <3> QED
      BY ONLY <2>3, <2>4, <3>4, EvenHas, Zenon DEF u, P
  <2>5. CASE n # 0
    <3> DEFINE e == t.entries
    <3>1. n \in 1 .. MaxItems /\ n - 1 \in 0 .. MaxItems /\ ~(n <= n - 1)
      BY <1>1, <2>2, <2>5
    <3>2. n - 1 \notin T
      BY ONLY <2>1, <3>1, Zenon
    <3>3. InsertsIn(kn, k, nodes, n - 1)
      BY ONLY <3>1, <3>2
    <3>4. /\ t \in NodesOver(Even[n - 1]) /\ Q \in SUBSET Nat
          /\ Sound(key, Fits(key, dimension)[n - 1], e, Q)
          /\ Len(e) \in halfdim(dimension) .. dimension
      BY ONLY <2>3, <3>1, FitNode, Zenon
    <3>5. halfdim(dimension) \in Nat
      BY HalfIsLess
    <3>6. Len(e) \in Nat /\ Len(e) <= dimension /\ Len(e) >= halfdim(dimension)
      BY <3>4, <3>5
    <3>7. /\ u.nodes \in Int /\ u.nodes >= -1
          /\ \/ Kept(kn, Even[n - 1], Fits(kn, dimension)[n - 1], Len(e), dimension, Q, P, u)
             \/ Halved(kn, Even[n - 1], Fits(kn, dimension)[n - 1], dimension, Q, P, u)
      <4>1. u = Insert1(t, Leaf(Len(key)), k, nodes)
        BY Zenon
      <4> HIDE DEF u
      <4> QED
        BY ONLY <2>3, <3>1, <3>3, <3>4, <3>6, <4>1, NodeRises, key \in Seq(Nat), dimension \in Nat, dimension >= 3,
                k \in Nat, kn = Append(key, k), Zenon DEF P
    <3> HIDE DEF u, P, e
    <3>8. kn \in Seq(Nat)
      BY ONLY KeyAdded, key \in Seq(Nat), k \in Nat, kn = Append(key, k), Zenon
    <3>9. Returns(kn, Even[n], Fits(kn, dimension)[n], Q, P, u)
      <4>1. CASE Kept(kn, Even[n - 1], Fits(kn, dimension)[n - 1], Len(e), dimension, Q, P, u)
        BY ONLY <3>1, <3>4, <3>6, <3>7, <3>8, <4>1, KeptReturns, dimension \in Nat, dimension >= 3, Zenon
      <4>2. CASE Halved(kn, Even[n - 1], Fits(kn, dimension)[n - 1], dimension, Q, P, u)
        BY ONLY <3>1, <3>4, <3>7, <3>8, <4>2, HalvedReturns, dimension \in Nat, dimension >= 3, Zenon
      <4> QED
        BY ONLY <3>7, <4>1, <4>2, Zenon
    <3> QED
      BY ONLY <2>3, <3>9, Zenon DEF u, P
  <2> QED
    BY <2>4, <2>5
<1> QED
  BY <1>2
\* A node hands up whether the key was there.
LEMMA SinkAnswers ==
  ASSUME NEW t, NEW pos, NEW r
  PROVE  Sink(t, pos, r).retv = r.retv
BY Zenon DEF Sink

\* No key is in two shares of a node.
OneShare(ks, S, R, e, Q) ==
  \A i, j \in 1 .. Len(e) : \A q : q \in Share(ks, e, i, Q) /\ q \in Share(ks, e, j, Q) => i = j

\* The shares of a sound node have no key in common.
LEMMA OneShareEach ==
  ASSUME NEW ks \in Seq(Nat), NEW R, NEW S, NEW e \in Seq(Entries(S)), NEW Q \in SUBSET Nat,
         Sound(ks, R, e, Q)
  PROVE  OneShare(ks, S, R, e, Q)
<1>1. e \in Seq([ptr : S, begin : Nat])
  BY DEF Entries
<1> SUFFICES ASSUME NEW i \in 1 .. Len(e), NEW j \in 1 .. Len(e), NEW q,
                    q \in Share(ks, e, i, Q), q \in Share(ks, e, j, Q)
             PROVE  i = j
  BY Zenon DEF OneShare
<1> QED
  BY <1>1, SharesApart

\* What a removal keeps of the trees of height h.
Without(t, k) == {i \in Places(t) : KeyAt(key, i) # k}

\* Whether a tree holds a key.
Holds(t, k) == \E i \in Places(t) : KeyAt(key, i) = k

\* A remove in the fitting trees of height h: what is left fits or is one entry short, and the answer is right.
RemovesIn(k, h) ==
  \A t, Q : <<t, Q>> \in Fits(key, dimension)[h] /\ k \in Q
    => /\ Gives(key, dimension, h, Q, Without(t, k), Remove1(t, k))
       /\ Remove1(t, k).retv = Holds(t, k)
       /\ Remove1(t, k).result = "removed" => h = 0

\* A remove at a leaf.
LEMMA LeafRemoves ==
  ASSUME key \in Seq(Nat), NEW k \in Nat
  PROVE  RemovesIn(k, 0)
<1> SUFFICES ASSUME NEW t, NEW Q, <<t, Q>> \in Fits(key, dimension)[0], k \in Q
             PROVE  /\ Gives(key, dimension, 0, Q, Without(t, k), Remove1(t, k))
                    /\ Remove1(t, k).retv = Holds(t, k)
  BY Zenon DEF RemovesIn
<1> DEFINE i == t.vch_index
           r == Remove1(t, k)
<1>1. t \in Leaves /\ i \in Nat
  <2>1. t \in Leaves
    BY FitLeaf, Zenon
  <2> QED
    BY <2>1, LeafIs, Zenon
<1>2. Places(t) = {i}
  <2>1. t = Leaf(i)
    BY <1>1, LeafIs, Zenon
  <2> HIDE DEF i
  <2> QED
    BY ONLY <1>1, <2>1, PlacesOfLeaf, Zenon
<1>3. t \in Tree /\ IsLeaf(t)
  BY <1>1, TreeIs, LeafIs
<1>4. r = [node |-> t, retv |-> Rgetdata(key, i) = k, result |-> IF Rgetdata(key, i) = k THEN "removed" ELSE "ok"]
  <2>1. \A u \in Tree : Remove1(u, k) =
          IF IsLeaf(u) THEN Answered(u, k)
          ELSE Sink(u, LocateIn(u, k), Remove1(Child(u, k), k))
    BY Remove1Is
  <2> QED
    BY ONLY <1>3, <2>1 DEF Answered, i
<1>5. Rgetdata(key, i) = KeyAt(key, i)
  BY DEF Rgetdata, KeyAt
<1> HIDE DEF i, r
<1>6. CASE KeyAt(key, i) = k
  <2>1. r.retv = TRUE /\ r.result = "removed"
    BY <1>4, <1>5, <1>6
  <2>2. Without(t, k) = {} /\ Holds(t, k)
    BY <1>2, <1>6 DEF Without, Holds
  <2>3. Holds(t, k) = TRUE
    BY <2>2 DEF Holds
  <2> QED
    BY <2>1, <2>2, <2>3, Zenon DEF Gives, r
<1>7. CASE KeyAt(key, i) # k
  <2>1. r.retv = FALSE /\ r.result = "ok" /\ r.node = t
    BY <1>4, <1>5, <1>7
  <2>2. Without(t, k) = Places(t) /\ ~Holds(t, k)
    BY <1>2, <1>7 DEF Without, Holds
  <2>3. Holds(t, k) = FALSE
    BY <2>2 DEF Holds
  <2> QED
    BY <2>1, <2>2, <2>3, Zenon DEF Gives, r
<1> QED
  BY <1>6, <1>7

\* A node over trees of a height is a tree.
LEMMA NodeOfTree ==
  ASSUME NEW h \in 1 .. MaxItems, NEW t \in NodesOver(Even[h - 1])
  PROVE  t \in Tree /\ ~IsLeaf(t) /\ IsNode(t) /\ t \in NodesOver(Tree)
<1>1. h \in 0 .. MaxItems /\ Even[h - 1] \subseteq Tree /\ Even[h] = NodesOver(Even[h - 1])
  <2>1. h \in 0 .. MaxItems
    BY BTreeAssumption
  <2> QED
    BY <2>1, EvenHas, Zenon
<1>2. Even[h] \subseteq Tree
  BY ONLY <1>1, EvenTrees
<1>3. t \in Even[h]
  BY ONLY <1>1, t \in NodesOver(Even[h - 1]), Zenon
<1>4. ~IsLeaf(t) /\ IsNode(t)
  BY NodeIs, Zenon
<1>5. t \in NodesOver(Tree)
  BY ONLY <1>1, t \in NodesOver(Even[h - 1]), MoreNodes
<1> QED
  BY ONLY <1>2, <1>3, <1>4, <1>5

\* A key is only in the tree whose share it is.
NotElsewhere(S, R, e, Q, k, p) ==
  \A i \in 1 .. Len(e) : i # p => \A x \in Places(e[i].ptr) : KeyAt(key, x) # k

\* A key in the share of an entry is in no other entry's tree.
LEMMA OnlyThere ==
  ASSUME key \in Seq(Nat), NEW S, S \subseteq Tree, NEW R, Regular(key, S, R),
         NEW e \in Seq(Entries(S)), NEW Q \in SUBSET Nat, Sound(key, R, e, Q),
         NEW k, NEW p \in 1 .. Len(e), k \in Share(key, e, p, Q)
  PROVE  NotElsewhere(S, R, e, Q, k, p)
<1>1. e \in Seq([ptr : S, begin : Nat])
  BY DEF Entries
<1>2. HoldsApart(key, e, Q)
  BY <1>1, NodesRegular, Zenon
<1>3. \A j \in 1 .. Len(e) : \A i \in Places(e[j].ptr) : KeyAt(key, i) \in Share(key, e, j, Q)
  BY ONLY <1>2, Zenon DEF HoldsApart
<1> SUFFICES ASSUME NEW i \in 1 .. Len(e), NEW x \in Places(e[i].ptr), KeyAt(key, x) = k
             PROVE  i = p
  BY Zenon DEF NotElsewhere
<1>4. k \in Share(key, e, i, Q)
  BY ONLY <1>3, KeyAt(key, x) = k, Zenon
<1>5. OneShare(key, S, R, e, Q)
  BY OneShareEach, Zenon
<1>6. \A j, m \in 1 .. Len(e) : k \in Share(key, e, j, Q) /\ k \in Share(key, e, m, Q) => j = m
  BY ONLY <1>5, Zenon DEF OneShare
<1> QED
  BY ONLY <1>4, <1>6, k \in Share(key, e, p, Q), Zenon

\* A remove in a node, when one in its children does what it should.
LEMMA NodeSinks ==
  ASSUME key \in Seq(Nat), dimension \in Nat, dimension >= 3, NEW k \in Nat,
         NEW h \in 1 .. MaxItems, RemovesIn(k, h - 1),
         NEW t \in NodesOver(Even[h - 1]), NEW Q \in SUBSET Nat,
         Sound(key, Fits(key, dimension)[h - 1], t.entries, Q), k \in Q,
         NEW u, u = Remove1(t, k)
  PROVE  /\ Sunk(key, dimension, h - 1, Q, Without(t, k), Len(t.entries), u)
         /\ u.retv = Holds(t, k)
<1> DEFINE d == dimension
           S == Even[h - 1]
           R == Fits(key, d)[h - 1]
           e == t.entries
           pos == LocateIn(t, k)
           c == Child(t, k)
           W == Share(key, e, pos + 1, Q)
           r == Remove1(c, k)
           C == Without(c, k)
           P == Without(t, k)
<1>1. h - 1 \in 0 .. MaxItems /\ h \in 0 .. MaxItems /\ S \subseteq Tree /\ Even[h] = NodesOver(S)
  BY EvenHas, BTreeAssumption
<1>2. t \in Tree /\ ~IsLeaf(t) /\ t \in NodesOver(Tree)
  BY NodeOfTree, Zenon
<1>3. GoesOn(S, R, t, Q, k, pos)
  BY Descent, Zenon
<1>4. u = Sink(t, pos, r)
  BY <1>2, Remove1Is, Zenon
<1>5. Regular(key, S, R)
  BY <1>1, FitsRegular, Zenon
<1>6. /\ e \in Seq(Entries(S)) /\ Len(e) \in Nat /\ Len(e) >= 2
      /\ pos \in 0 .. Len(e) - 1 /\ pos + 1 \in 1 .. Len(e)
      /\ c = e[pos + 1].ptr /\ c \in S /\ <<c, W>> \in R /\ k \in W
  BY ONLY <1>3, k \in Q, Zenon DEF GoesOn
<1>7. \A x : x \in Places(t) <=>
        x \in Places(c) \/ \E i \in 1 .. Len(e) : i # pos + 1 /\ x \in Places(e[i].ptr)
  BY ONLY <1>2, <1>6, PlacesAround, Zenon
<1> HIDE DEF pos, c, r, W, C, e, R
<1>8. \A i \in 1 .. Len(e) : i # pos + 1 => \A x \in Places(e[i].ptr) : KeyAt(key, x) # k
  <2>1. Sound(key, R, e, Q) /\ k \in Share(key, e, pos + 1, Q)
    BY <1>6, Zenon DEF e, R, W
  <2> DEFINE p == pos + 1
  <2>2. p \in 1 .. Len(e) /\ k \in Share(key, e, p, Q)
    BY <1>6, <2>1, Zenon
  <2> HIDE DEF p
  <2>3. NotElsewhere(S, R, e, Q, k, p)
    BY ONLY <1>1, <1>5, <1>6, <2>1, <2>2, OnlyThere, key \in Seq(Nat), Q \in SUBSET Nat, Zenon
  <2> QED
    BY ONLY <2>3, Zenon DEF p, NotElsewhere
<1>9. /\ Gives(key, d, h - 1, W, C, r)
      /\ r.retv = Holds(c, k)
  BY ONLY <1>6, RemovesIn(k, h - 1), Zenon DEF RemovesIn, C, r, R
<1>10. \A x : x \in P <=>
         x \in C \/ \E i \in 1 .. Len(e) : i # pos + 1 /\ x \in Places(e[i].ptr)
  BY ONLY <1>7, <1>8 DEF C, Without
<1>11. Holds(t, k) = Holds(c, k)
  <2>1. Holds(t, k) <=> Holds(c, k)
    BY ONLY <1>7, <1>8, Zenon DEF Holds
  <2> QED
    BY <2>1, Zenon DEF Holds
<1> HIDE DEF P
<1>12. SinksIn(key, S, R, Q, e, pos, C, P)
  <2>1. Sound(key, R, e, Q)
    BY Zenon DEF e, R
  <2> QED
    BY ONLY <1>5, <1>6, <1>10, <2>1, Q \in SUBSET Nat, Zenon DEF SinksIn
<1>13. Sunk(key, d, h - 1, Q, P, Len(e), Sink(t, pos, r)) /\ Sink(t, pos, r).retv = r.retv
  <2>1. Gives(key, d, h - 1, Share(key, e, pos + 1, Q), C, r)
    BY ONLY <1>9, Zenon DEF W
  <2>2. e = t.entries
    BY Zenon DEF e
  <2> QED
    <3>1. Sunk(key, d, h - 1, Q, P, Len(e), Sink(t, pos, r))
      BY ONLY <1>1, <1>12, <2>1, <2>2, SinkKeeps, key \in Seq(Nat), dimension \in Nat, dimension >= 3,
         Zenon DEF S, R, d
    <3>2. Sink(t, pos, r).retv = r.retv
      BY SinkAnswers
    <3> QED
      BY ONLY <3>1, <3>2, Zenon
<1> QED
  BY ONLY <1>4, <1>9, <1>11, <1>13, Zenon DEF P, e, d
\* A removal from a tree that is no root keeps it what it is, or leaves one entry too few.
LEMMA SunkGives ==
  ASSUME NEW ks \in Seq(Nat), NEW d \in Nat, d >= 3, NEW h \in 1 .. MaxItems, NEW Q \in SUBSET Nat,
         NEW P, NEW n \in halfdim(d) .. d, NEW u, Sunk(ks, d, h - 1, Q, P, n, u)
  PROVE  Gives(ks, d, h, Q, P, u) /\ u.result # "removed"
<1>1. PICK f, m :
        /\ u.node = Node(f) /\ Whole(ks, Even[h - 1], Fits(ks, d)[h - 1], Q, P, m, f)
        /\ \/ u.result = "ok" /\ (m = n \/ (m = n - 1 /\ m >= halfdim(d)))
           \/ u.result = "need_merge" /\ m = n - 1 /\ m < halfdim(d)
  BY Zenon DEF Sunk
<1>2. halfdim(d) \in Nat /\ n \in Nat /\ n <= d /\ n >= halfdim(d) /\ h # 0
  BY HalfIsLess
<1>3. CASE u.result = "ok"
  <2>1. m \in halfdim(d) .. d
    BY ONLY <1>1, <1>2, <1>3, d \in Nat
  <2>2. <<u.node, Q>> \in Fits(ks, d)[h] /\ Places(u.node) = P
    BY ONLY <1>1, <2>1, FitMade, ks \in Seq(Nat), d \in Nat, d >= 3, h \in 1 .. MaxItems, Q \in SUBSET Nat, Zenon
  <2> QED
    BY <1>3, <2>2 DEF Gives
<1>4. CASE u.result = "need_merge"
  <2>1. m = halfdim(d) - 1
    BY ONLY <1>1, <1>2, <1>4
  <2>2. Whole(ks, Even[h - 1], Fits(ks, d)[h - 1], Q, P, halfdim(d) - 1, f)
    BY ONLY <1>1, <2>1, Zenon
  <2>3. Gives(ks, d, h, Q, P, u)
    BY ONLY <1>1, <1>2, <1>4, <2>2, Zenon DEF Gives
  <2> QED
    BY <1>4, <2>3
<1> QED
  BY <1>1, <1>3, <1>4

\* A remove in any tree that fits does what it should: by induction on the height.
LEMMA RemoveKeeps ==
  ASSUME key \in Seq(Nat), dimension \in Nat, dimension >= 3, NEW k \in Nat, NEW h \in 0 .. MaxItems
  PROVE  RemovesIn(k, h)
<1> DEFINE T == {n \in 0 .. MaxItems : ~RemovesIn(k, n)}
<1>1. MaxItems \in Nat /\ T \in SUBSET Nat
  BY BTreeAssumption
<1>2. ASSUME T # {} PROVE FALSE
  <2>1. PICK n \in T : \A j \in T : n <= j
    BY ONLY <1>1, <1>2, LeastOf
  <2>2. n \in 0 .. MaxItems /\ ~RemovesIn(k, n)
    BY <2>1
  <2>3. CASE n = 0
    BY ONLY <2>2, <2>3, LeafRemoves, key \in Seq(Nat), k \in Nat, Zenon
  <2>4. CASE n # 0
    <3>1. n \in 1 .. MaxItems /\ n - 1 \in 0 .. MaxItems /\ ~(n <= n - 1)
      BY <1>1, <2>2, <2>4
    <3>2. n - 1 \notin T
      BY ONLY <2>1, <3>1, Zenon
    <3>3. RemovesIn(k, n - 1)
      BY ONLY <3>1, <3>2
    <3>4. ASSUME NEW t, NEW Q, <<t, Q>> \in Fits(key, dimension)[n], k \in Q
          PROVE  /\ Gives(key, dimension, n, Q, Without(t, k), Remove1(t, k))
                 /\ Remove1(t, k).retv = Holds(t, k)
                 /\ Remove1(t, k).result # "removed"
      <4> DEFINE e == t.entries
                 u == Remove1(t, k)
      <4>1. /\ t \in NodesOver(Even[n - 1]) /\ Q \in SUBSET Nat
            /\ Sound(key, Fits(key, dimension)[n - 1], e, Q)
            /\ Len(e) \in halfdim(dimension) .. dimension
        BY ONLY <3>1, <3>4, FitNode, Zenon
      <4>2. /\ Sunk(key, dimension, n - 1, Q, Without(t, k), Len(e), u)
            /\ u.retv = Holds(t, k)
        BY ONLY <3>1, <3>3, <3>4, <4>1, NodeSinks, key \in Seq(Nat), dimension \in Nat, dimension >= 3,
           k \in Nat, Zenon
      <4>3. Gives(key, dimension, n, Q, Without(t, k), u) /\ u.result # "removed"
        BY ONLY <3>1, <4>1, <4>2, SunkGives, key \in Seq(Nat), dimension \in Nat, dimension >= 3, Zenon
      <4> QED
        BY ONLY <4>2, <4>3, Zenon
    <3> QED
      BY ONLY <2>2, <3>4, Zenon DEF RemovesIn
  <2> QED
    BY <2>3, <2>4
<1> QED
  BY <1>2

\* The leaf that a descent for a key ends in: a leaf of the tree, and that of the key
\* if there is one.
LocatesIn(k, h) ==
  \A t, Q : <<t, Q>> \in Fits(key, dimension)[h] /\ k \in Q
    => /\ LocatedLeaf(t, k) \in Leaves /\ LocatedLeaf(t, k).vch_index \in Places(t)
       /\ \A i \in Places(t) : KeyAt(key, i) = k => LocatedLeaf(t, k).vch_index = i

\* The descent that starts at a leaf.
LEMMA LeafLocates ==
  ASSUME key \in Seq(Nat), NEW k
  PROVE  LocatesIn(k, 0)
<1> SUFFICES ASSUME NEW t, NEW Q, <<t, Q>> \in Fits(key, dimension)[0], k \in Q
             PROVE  /\ LocatedLeaf(t, k) \in Leaves /\ LocatedLeaf(t, k).vch_index \in Places(t)
                    /\ \A i \in Places(t) : LocatedLeaf(t, k).vch_index = i
  BY Zenon DEF LocatesIn
<1> DEFINE i == t.vch_index
<1>1. t \in Leaves /\ i \in Nat
  <2>1. t \in Leaves
    BY FitLeaf, Zenon
  <2> QED
    BY <2>1, LeafIs, Zenon
<1>2. Places(t) = {i}
  <2>1. t = Leaf(i)
    BY <1>1, LeafIs, Zenon
  <2> HIDE DEF i
  <2> QED
    BY ONLY <1>1, <2>1, PlacesOfLeaf, Zenon
<1>3. t \in Tree /\ IsLeaf(t)
  BY <1>1, TreeIs, LeafIs
<1>4. LocatedLeaf(t, k) = t
  <2>1. \A u \in Tree : LocatedLeaf(u, k) = IF IsLeaf(u) THEN u ELSE LocatedLeaf(Child(u, k), k)
    BY LocatedLeafIs
  <2> QED
    BY ONLY <1>3, <2>1
<1> QED
  BY <1>1, <1>2, <1>4

\* The descent from a node, when that from its children is exact.
LEMMA NodeLocates ==
  ASSUME key \in Seq(Nat), dimension \in Nat, dimension >= 3, NEW k \in Nat,
         NEW h \in 1 .. MaxItems, LocatesIn(k, h - 1),
         NEW t \in NodesOver(Even[h - 1]), NEW Q \in SUBSET Nat,
         Sound(key, Fits(key, dimension)[h - 1], t.entries, Q), k \in Q
  PROVE  /\ LocatedLeaf(t, k) \in Leaves /\ LocatedLeaf(t, k).vch_index \in Places(t)
         /\ \A i \in Places(t) : KeyAt(key, i) = k => LocatedLeaf(t, k).vch_index = i
<1> DEFINE d == dimension
           S == Even[h - 1]
           R == Fits(key, d)[h - 1]
           e == t.entries
           pos == LocateIn(t, k)
           c == Child(t, k)
           W == Share(key, e, pos + 1, Q)
<1>1. h - 1 \in 0 .. MaxItems /\ h \in 0 .. MaxItems /\ S \subseteq Tree /\ Even[h] = NodesOver(S)
  BY EvenHas, BTreeAssumption
<1>2. t \in Tree /\ ~IsLeaf(t) /\ t \in NodesOver(Tree)
  BY NodeOfTree, Zenon
<1>3. GoesOn(S, R, t, Q, k, pos)
  BY Descent, Zenon
<1>4. LocatedLeaf(t, k) = LocatedLeaf(c, k)
  <2>1. \A u \in Tree : LocatedLeaf(u, k) = IF IsLeaf(u) THEN u ELSE LocatedLeaf(Child(u, k), k)
    BY LocatedLeafIs
  <2> QED
    BY ONLY <1>2, <2>1
<1>6. /\ e \in Seq(Entries(S)) /\ Len(e) \in Nat /\ Len(e) >= 2
      /\ pos \in 0 .. Len(e) - 1 /\ pos + 1 \in 1 .. Len(e)
      /\ c = e[pos + 1].ptr /\ c \in S /\ <<c, W>> \in R /\ k \in W
  BY ONLY <1>3, k \in Q, Zenon DEF GoesOn
<1>7. \A x : x \in Places(t) <=>
        x \in Places(c) \/ \E i \in 1 .. Len(e) : i # pos + 1 /\ x \in Places(e[i].ptr)
  BY ONLY <1>2, <1>6, PlacesAround, Zenon
<1>8. \A i \in 1 .. Len(e) : i # pos + 1 => \A x \in Places(e[i].ptr) : KeyAt(key, x) # k
  <2>1. Sound(key, R, e, Q) /\ Regular(key, S, R)
    BY <1>1, FitsRegular, Zenon
  <2> DEFINE p == pos + 1
  <2>2. p \in 1 .. Len(e) /\ k \in Share(key, e, p, Q)
    BY ONLY <1>6, Zenon DEF p, W
  <2> HIDE DEF p, e, R
  <2>3. NotElsewhere(S, R, e, Q, k, p)
    BY ONLY <1>1, <1>6, <2>1, <2>2, OnlyThere, key \in Seq(Nat), Q \in SUBSET Nat, Zenon
  <2> QED
    BY ONLY <2>3, Zenon DEF p, NotElsewhere
<1>9. /\ LocatedLeaf(c, k) \in Leaves /\ LocatedLeaf(c, k).vch_index \in Places(c)
      /\ \A i \in Places(c) : KeyAt(key, i) = k => LocatedLeaf(c, k).vch_index = i
  <2> HIDE DEF c, W
  <2> QED
    BY ONLY <1>6, LocatesIn(k, h - 1), Zenon DEF LocatesIn, R, d
<1> HIDE DEF c, e, pos
<1> QED
  BY ONLY <1>4, <1>7, <1>8, <1>9, Zenon
\* The one place of a leaf.
LEMMA LeafPlaces ==
  ASSUME NEW t \in Leaves
  PROVE  t.vch_index \in Places(t) /\ Places(t) = {t.vch_index} /\ t.vch_index \in Nat
<1> DEFINE i == t.vch_index
<1>1. t = Leaf(i) /\ i \in Nat
  BY LeafIs, Zenon
<1> HIDE DEF i
<1>2. Places(t) = {i}
  BY ONLY <1>1, PlacesOfLeaf, Zenon
<1> QED
  BY <1>1, <1>2 DEF i

\* The descent in any tree that fits is exact: by induction on the height.
LEMMA LocateKeeps ==
  ASSUME key \in Seq(Nat), dimension \in Nat, dimension >= 3, NEW k \in Nat, NEW h \in 0 .. MaxItems
  PROVE  LocatesIn(k, h)
<1> DEFINE T == {n \in 0 .. MaxItems : ~LocatesIn(k, n)}
<1>1. MaxItems \in Nat /\ T \in SUBSET Nat
  BY BTreeAssumption
<1>2. ASSUME T # {} PROVE FALSE
  <2>1. PICK n \in T : \A j \in T : n <= j
    BY ONLY <1>1, <1>2, LeastOf
  <2>2. n \in 0 .. MaxItems /\ ~LocatesIn(k, n)
    BY <2>1
  <2>3. CASE n = 0
    BY ONLY <2>2, <2>3, LeafLocates, key \in Seq(Nat), k \in Nat, Zenon
  <2>4. CASE n # 0
    <3>1. n \in 1 .. MaxItems /\ n - 1 \in 0 .. MaxItems /\ ~(n <= n - 1)
      BY <1>1, <2>2, <2>4
    <3>2. n - 1 \notin T
      BY ONLY <2>1, <3>1, Zenon
    <3>3. LocatesIn(k, n - 1)
      BY ONLY <3>1, <3>2
    <3>4. ASSUME NEW t, NEW Q, <<t, Q>> \in Fits(key, dimension)[n], k \in Q
          PROVE  /\ LocatedLeaf(t, k) \in Leaves /\ LocatedLeaf(t, k).vch_index \in Places(t)
                 /\ \A i \in Places(t) : KeyAt(key, i) = k => LocatedLeaf(t, k).vch_index = i
      <4>1. /\ t \in NodesOver(Even[n - 1]) /\ Q \in SUBSET Nat
            /\ Sound(key, Fits(key, dimension)[n - 1], t.entries, Q)
        BY ONLY <3>1, <3>4, FitNode, Zenon
      <4> QED
        BY ONLY <3>1, <3>3, <3>4, <4>1, NodeLocates, key \in Seq(Nat), dimension \in Nat, dimension >= 3,
           k \in Nat, Zenon
    <3> QED
      BY ONLY <2>2, <3>4, Zenon DEF LocatesIn
  <2> QED
    BY <2>3, <2>4
<1> QED
  BY <1>2

\* The leaves that a search looks at are leaves of the tree, and the located one is one.
LooksAt(t, k) ==
  /\ \A l \in Candidates(t, k) : l \in Leaves /\ l.vch_index \in Places(t)
  /\ LocatedLeaf(t, k) \in Candidates(t, k)

\* A search in the fitting trees of height h looks at such leaves.
LooksIn(k, h) ==
  \A t, Q : <<t, Q>> \in Fits(key, dimension)[h] /\ k \in Q => LooksAt(t, k)

\* A search at a leaf.
LEMMA LeafLooks ==
  ASSUME NEW k
  PROVE  LooksIn(k, 0)
<1> SUFFICES ASSUME NEW t, NEW Q, <<t, Q>> \in Fits(key, dimension)[0], k \in Q
             PROVE  LooksAt(t, k)
  BY Zenon DEF LooksIn
<1> DEFINE i == t.vch_index
<1>1. t \in Leaves /\ i \in Nat
  <2>1. t \in Leaves
    BY FitLeaf, Zenon
  <2> QED
    BY <2>1, LeafIs, Zenon
<1>2. Places(t) = {i}
  <2>1. t = Leaf(i)
    BY <1>1, LeafIs, Zenon
  <2> HIDE DEF i
  <2> QED
    BY ONLY <1>1, <2>1, PlacesOfLeaf, Zenon
<1>3. t \in Tree /\ IsLeaf(t)
  BY <1>1, TreeIs, LeafIs
<1>4. LocatedLeaf(t, k) = t
  <2>1. \A u \in Tree : LocatedLeaf(u, k) = IF IsLeaf(u) THEN u ELSE LocatedLeaf(Child(u, k), k)
    BY LocatedLeafIs
  <2> QED
    BY ONLY <1>3, <2>1
<1>5. Candidates(t, k) = {t}
  <2>1. \A u \in Tree : Candidates(u, k) =
           IF IsLeaf(u) THEN {u} ELSE (IF IsNode(Child(u, k)) THEN Candidates(Child(u, k), k) ELSE Children(u))
    BY CandidatesAre
  <2> QED
    BY ONLY <1>3, <2>1
<1> QED
  BY <1>1, <1>2, <1>4, <1>5 DEF LooksAt

\* A search at a node, when one at its children looks at the right leaves.
LEMMA NodeLooks ==
  ASSUME key \in Seq(Nat), dimension \in Nat, dimension >= 3, NEW k \in Nat,
         NEW h \in 1 .. MaxItems, LooksIn(k, h - 1),
         NEW t \in NodesOver(Even[h - 1]), NEW Q \in SUBSET Nat,
         Sound(key, Fits(key, dimension)[h - 1], t.entries, Q), k \in Q
  PROVE  LooksAt(t, k)
<1> DEFINE d == dimension
           S == Even[h - 1]
           R == Fits(key, d)[h - 1]
           e == t.entries
           pos == LocateIn(t, k)
           c == Child(t, k)
           W == Share(key, e, pos + 1, Q)
<1>1. h - 1 \in 0 .. MaxItems /\ S \subseteq Tree /\ Even[0] = Leaves
  BY EvenHas, Zenon
<1>2. t \in Tree /\ ~IsLeaf(t) /\ t \in NodesOver(Tree)
  BY NodeOfTree, Zenon
<1>3. GoesOn(S, R, t, Q, k, pos)
  BY Descent, Zenon
<1>4. LocatedLeaf(t, k) = LocatedLeaf(c, k)
  <2>1. \A u \in Tree : LocatedLeaf(u, k) = IF IsLeaf(u) THEN u ELSE LocatedLeaf(Child(u, k), k)
    BY LocatedLeafIs
  <2> QED
    BY ONLY <1>2, <2>1
<1>5. Candidates(t, k) = IF IsNode(c) THEN Candidates(c, k) ELSE {e[i].ptr : i \in DOMAIN e}
  <2>1. \A u \in Tree : Candidates(u, k) =
           IF IsLeaf(u) THEN {u} ELSE (IF IsNode(Child(u, k)) THEN Candidates(Child(u, k), k) ELSE Children(u))
    BY CandidatesAre
  <2> QED
    BY ONLY <1>2, <2>1 DEF Children
<1>6. /\ e \in Seq(Entries(S)) /\ Len(e) \in Nat /\ Len(e) >= 2
      /\ pos \in 0 .. Len(e) - 1 /\ pos + 1 \in 1 .. Len(e)
      /\ c = e[pos + 1].ptr /\ c \in S /\ <<c, W>> \in R /\ k \in W
  BY ONLY <1>3, k \in Q, Zenon DEF GoesOn
<1>7. \A x : x \in Places(t) <=> \E i \in 1 .. Len(e) : x \in Places(e[i].ptr)
  BY ONLY <1>2, PlacesOfNode, Zenon
<1>8. LooksAt(c, k)
  <2> HIDE DEF c, W
  <2> QED
    BY ONLY <1>6, LooksIn(k, h - 1), Zenon DEF LooksIn, R, d
<1> HIDE DEF c, e, pos, S
<1>9. CASE IsNode(c)
  <2>1. Candidates(t, k) = Candidates(c, k)
    BY ONLY <1>5, <1>9, Zenon
  <2>2. \A x \in Places(c) : x \in Places(t)
    BY ONLY <1>6, <1>7, Zenon
  <2> QED
    BY ONLY <1>4, <1>8, <2>1, <2>2, Zenon DEF LooksAt
<1>10. CASE ~IsNode(c)
  <2>1. h - 1 = 0
    <3>1. h - 1 # 0 => h - 1 \in 1 .. MaxItems
      BY <1>1
    <3>2. h - 1 \in 1 .. MaxItems => S = NodesOver(Even[(h - 1) - 1])
      BY ONLY EvenHas, Zenon DEF S
    <3>3. h - 1 # 0 => IsNode(c)
      BY ONLY <1>6, <3>1, <3>2, NodeIs, Zenon
    <3> QED
      BY ONLY <1>10, <3>3, Zenon
  <2>2. S = Leaves
    BY ONLY <1>1, <2>1, Zenon DEF S
  <2>3. Candidates(t, k) = {e[i].ptr : i \in 1 .. Len(e)}
    <3>1. DOMAIN e = 1 .. Len(e)
      BY <1>6
    <3> QED
      BY ONLY <1>5, <1>10, <3>1, Zenon
  <2>4. ASSUME NEW i \in 1 .. Len(e)
        PROVE  e[i].ptr \in Leaves /\ e[i].ptr.vch_index \in Places(t)
    <3>1. e \in Seq([ptr : S, begin : Nat])
      BY <1>6 DEF Entries
    <3>2. e[i].ptr \in Leaves
      BY ONLY <2>2, <3>1, EntriesHave, i \in 1 .. Len(e)
    <3>3. e[i].ptr.vch_index \in Places(e[i].ptr)
      BY ONLY <3>2, LeafPlaces, Zenon
    <3> QED
      BY ONLY <1>7, <3>2, <3>3, i \in 1 .. Len(e), Zenon
  <2>5. c \in Leaves
    BY ONLY <1>6, <2>2
  <2>6. LocatedLeaf(c, k) = c
    <3>1. \A u \in Tree : LocatedLeaf(u, k) = IF IsLeaf(u) THEN u ELSE LocatedLeaf(Child(u, k), k)
      BY LocatedLeafIs
    <3>2. c \in Tree /\ IsLeaf(c)
      BY <2>5, TreeIs, LeafIs
    <3> QED
      BY ONLY <3>1, <3>2
  <2>7. LocatedLeaf(t, k) \in Candidates(t, k)
    BY ONLY <1>4, <1>6, <2>3, <2>6
  <2>8. \A l \in Candidates(t, k) : l \in Leaves /\ l.vch_index \in Places(t)
    BY ONLY <2>3, <2>4
  <2> QED
    BY ONLY <2>7, <2>8, Zenon DEF LooksAt
<1> QED
  BY <1>9, <1>10

\* A search in any tree that fits looks at the right leaves: by induction on the height.
LEMMA LooksKeeps ==
  ASSUME key \in Seq(Nat), dimension \in Nat, dimension >= 3, NEW k \in Nat, NEW h \in 0 .. MaxItems
  PROVE  LooksIn(k, h)
<1> DEFINE T == {n \in 0 .. MaxItems : ~LooksIn(k, n)}
<1>1. MaxItems \in Nat /\ T \in SUBSET Nat
  BY BTreeAssumption
<1>2. ASSUME T # {} PROVE FALSE
  <2>1. PICK n \in T : \A j \in T : n <= j
    BY ONLY <1>1, <1>2, LeastOf
  <2>2. n \in 0 .. MaxItems /\ ~LooksIn(k, n)
    BY <2>1
  <2>3. CASE n = 0
    BY ONLY <2>2, <2>3, LeafLooks, Zenon
  <2>4. CASE n # 0
    <3>1. n \in 1 .. MaxItems /\ n - 1 \in 0 .. MaxItems /\ ~(n <= n - 1)
      BY <1>1, <2>2, <2>4
    <3>2. n - 1 \notin T
      BY ONLY <2>1, <3>1, Zenon
    <3>3. LooksIn(k, n - 1)
      BY ONLY <3>1, <3>2
    <3>4. ASSUME NEW t, NEW Q, <<t, Q>> \in Fits(key, dimension)[n], k \in Q
          PROVE  LooksAt(t, k)
      <4>1. /\ t \in NodesOver(Even[n - 1]) /\ Q \in SUBSET Nat
            /\ Sound(key, Fits(key, dimension)[n - 1], t.entries, Q)
        BY ONLY <3>1, <3>4, FitNode, Zenon
      <4> QED
        BY ONLY <3>1, <3>3, <3>4, <4>1, NodeLooks, key \in Seq(Nat), dimension \in Nat, dimension >= 3,
           k \in Nat, Zenon
    <3> QED
      BY ONLY <2>2, <3>4, Zenon DEF LooksIn
  <2> QED
    BY <2>3, <2>4
<1> QED
  BY <1>2
\* The place that the leftmost leaf holds is one of the tree.
LeftmostIn(ks, h) ==
  \A t, Q : <<t, Q>> \in Fits(ks, dimension)[h] => Leftmost[t] \in Places(t)

\* fs_btree_get_leftmost_leaf gives a place of the tree: by induction on the height.
LEMMA LeftmostKeeps ==
  ASSUME NEW ks \in Seq(Nat), dimension \in Nat, dimension >= 3, NEW h \in 0 .. MaxItems
  PROVE  LeftmostIn(ks, h)
<1> DEFINE T == {n \in 0 .. MaxItems : ~LeftmostIn(ks, n)}
<1>1. MaxItems \in Nat /\ T \in SUBSET Nat
  BY BTreeAssumption
<1>2. ASSUME T # {} PROVE FALSE
  <2>1. PICK n \in T : \A j \in T : n <= j
    BY ONLY <1>1, <1>2, LeastOf
  <2>2. n \in 0 .. MaxItems /\ ~LeftmostIn(ks, n)
    BY <2>1
  <2>3. CASE n = 0
    <3>1. ASSUME NEW t, NEW Q, <<t, Q>> \in Fits(ks, dimension)[0]
          PROVE  Leftmost[t] \in Places(t)
      <4>1. t \in Leaves
        BY <3>1, FitLeaf, Zenon
      <4>2. t \in Tree /\ IsLeaf(t)
        BY <4>1, TreeIs, LeafIs
      <4>3. Leftmost[t] = t.vch_index
        BY <4>2, LeftmostIs, Zenon
      <4>4. t.vch_index \in Places(t)
        BY <4>1, LeafPlaces, Zenon
      <4> QED
        BY ONLY <4>3, <4>4, Zenon
    <3> QED
      BY ONLY <2>2, <2>3, <3>1, Zenon DEF LeftmostIn
  <2>4. CASE n # 0
    <3>1. n \in 1 .. MaxItems /\ n - 1 \in 0 .. MaxItems /\ ~(n <= n - 1)
      BY <1>1, <2>2, <2>4
    <3>2. n - 1 \notin T
      BY ONLY <2>1, <3>1, Zenon
    <3>3. LeftmostIn(ks, n - 1)
      BY ONLY <3>1, <3>2
    <3>4. ASSUME NEW t, NEW Q, <<t, Q>> \in Fits(ks, dimension)[n]
          PROVE  Leftmost[t] \in Places(t)
      <4> DEFINE e == t.entries
                 S == Even[n - 1]
                 R == Fits(ks, dimension)[n - 1]
      <4>1. /\ t \in NodesOver(S) /\ Q \in SUBSET Nat /\ Sound(ks, R, e, Q)
        BY ONLY <3>1, <3>4, FitNode, Zenon
      <4>2. t \in Tree /\ ~IsLeaf(t) /\ t \in NodesOver(Tree)
        BY <3>1, <4>1, NodeOfTree, Zenon
      <4>3. Leftmost[t] = Leftmost[e[1].ptr]
        BY <4>2, LeftmostIs, Zenon
      <4>4. e \in Seq([ptr : S, begin : Nat]) /\ Len(e) >= 2
        BY <4>1, NodeIs, Zenon
      <4>5. 1 \in 1 .. Len(e)
        BY ONLY <4>4
      <4>6. <<e[1].ptr, Share(ks, e, 1, Q)>> \in R
        BY ONLY <4>1, <4>5, Zenon DEF Sound
      <4>7. Leftmost[e[1].ptr] \in Places(e[1].ptr)
        BY ONLY <3>3, <4>6, Zenon DEF LeftmostIn
      <4>8. \A i : i \in Places(t) <=> \E j \in 1 .. Len(t.entries) : i \in Places(t.entries[j].ptr)
        BY <4>2, PlacesOfNode, Zenon
      <4> QED
        BY ONLY <4>3, <4>5, <4>7, <4>8, Zenon
    <3> QED
      BY ONLY <2>2, <3>4, Zenon DEF LeftmostIn
  <2> QED
    BY <2>3, <2>4
<1> QED
  BY <1>2

\* A node takes the memory of one node at most.
LEMMA RiseSpends ==
  ASSUME NEW t, NEW pos, NEW r, r.nodes \in Int
  PROVE  Rise(t, pos, r).nodes \in {r.nodes, r.nodes - 1}
<1> DEFINE e   == [t.entries EXCEPT ![pos + 1] = [ptr |-> r.node, begin |-> t.entries[pos + 1].begin]]
           two == Split(e, pos, r.xn[1], dimension)
           Done(entries, n) == [node |-> Node(entries), xn |-> <<>>, nodes |-> n]
           a == InsertEntry(e, pos, r.xn[1])
           half == [node |-> Node(two.left), nodes |-> r.nodes - 1,
                    xn |-> <<[ptr |-> Node(two.right), begin |-> two.right[1].begin]>>]
<1>1. Rise(t, pos, r) =
        IF r.xn = <<>> THEN Done(e, r.nodes)
        ELSE IF Len(e) < dimension THEN Done(a, r.nodes)
        ELSE IF r.nodes = 0 THEN Done(e, -1)
        ELSE half
  BY Zenon DEF Rise
<1>2. Done(e, r.nodes).nodes = r.nodes /\ Done(a, r.nodes).nodes = r.nodes
      /\ Done(e, -1).nodes = -1 /\ half.nodes = r.nodes - 1
  OBVIOUS
<1>3. r.nodes = 0 => -1 = r.nodes - 1
  OBVIOUS
<1> HIDE DEF e, two, Done, a, half
<1> QED
  BY <1>1, <1>2, <1>3

\* An insert takes that of a node for each it goes through.
SpendsIn(a, k, nodes, h) ==
  \A t \in Even[h] : Insert1(t, a, k, nodes).nodes \in Int /\ Insert1(t, a, k, nodes).nodes >= nodes - h

\* An insert allocates one node for each level at most: by induction on the height.
LEMMA InsertSpends ==
  ASSUME NEW a, NEW k, NEW nodes \in Nat, NEW h \in 0 .. MaxItems
  PROVE  SpendsIn(a, k, nodes, h)
<1> DEFINE T == {n \in 0 .. MaxItems : ~SpendsIn(a, k, nodes, n)}
<1>1. MaxItems \in Nat /\ T \in SUBSET Nat
  BY BTreeAssumption
<1>2. ASSUME T # {} PROVE FALSE
  <2>1. PICK n \in T : \A j \in T : n <= j
    BY ONLY <1>1, <1>2, LeastOf
  <2>2. n \in 0 .. MaxItems /\ ~SpendsIn(a, k, nodes, n)
    BY <2>1
  <2>3. CASE n = 0
    <3>1. ASSUME NEW t \in Even[0]
          PROVE  Insert1(t, a, k, nodes).nodes = nodes
      <4>1. t \in Leaves
        BY <3>1, EvenHas, Zenon
      <4>2. t \in Tree /\ IsLeaf(t)
        BY <4>1, TreeIs, LeafIs
      <4>3. Insert1(t, a, k, nodes) = Placed(t, a, k, nodes)
        <5>1. \A u \in Tree : Insert1(u, a, k, nodes) =
                IF IsLeaf(u) THEN Placed(u, a, k, nodes)
                ELSE Rise(u, LocateIn(u, k), Insert1(Child(u, k), a, k, nodes))
          BY Insert1Is
        <5> QED
          BY ONLY <4>2, <5>1
      <4> QED
        BY ONLY <4>3 DEF Placed
    <3>2. \A t \in Even[0] : Insert1(t, a, k, nodes).nodes \in Int /\ Insert1(t, a, k, nodes).nodes >= nodes - 0
      BY ONLY <3>1, nodes \in Nat
    <3> QED
      BY ONLY <2>2, <2>3, <3>2, Zenon DEF SpendsIn
  <2>4. CASE n # 0
    <3>1. n \in 1 .. MaxItems /\ n - 1 \in 0 .. MaxItems /\ ~(n <= n - 1)
      BY <1>1, <2>2, <2>4
    <3>2. n - 1 \notin T
      BY ONLY <2>1, <3>1, Zenon
    <3>3. SpendsIn(a, k, nodes, n - 1)
      BY ONLY <3>1, <3>2
    <3>4. ASSUME NEW t \in Even[n]
          PROVE  Insert1(t, a, k, nodes).nodes \in Int /\ Insert1(t, a, k, nodes).nodes >= nodes - n
      <4> DEFINE c == Child(t, k)
                 r == Insert1(c, a, k, nodes)
                 u == Rise(t, LocateIn(t, k), r)
      <4>1. t \in NodesOver(Even[n - 1])
        BY <3>1, EvenHas, Zenon
      <4>2. t \in Tree /\ ~IsLeaf(t)
        BY <3>1, <4>1, NodeOfTree, Zenon
      <4>3. Insert1(t, a, k, nodes) = u
        BY <4>2, Insert1Is, Zenon
      <4>4. c \in Even[n - 1]
        BY <4>1, LocateInNode, Zenon
      <4>5. r.nodes \in Int /\ r.nodes >= nodes - (n - 1)
        BY ONLY <3>3, <4>4, Zenon DEF SpendsIn
      <4>6. u.nodes \in {r.nodes, r.nodes - 1}
        BY <4>5, RiseSpends, Zenon
      <4>7. n \in Int /\ nodes \in Int
        BY <3>1
      <4> HIDE DEF c, r, u
      <4>8. u.nodes \in Int /\ u.nodes >= nodes - n
        BY ONLY <4>5, <4>6, <4>7
      <4> QED
        BY ONLY <4>3, <4>8, Zenon
    <3> QED
      BY ONLY <2>2, <3>4, Zenon DEF SpendsIn
  <2> QED
    BY <2>3, <2>4
<1> QED
  BY <1>2
-----------------------------------------------------------------------------
(* The tree as a whole.                                                    *)

\* A root may have two entries, and holds any key.
RootAt(ks, d, h, t) ==
  IF h = 0 THEN <<t, Nat>> \in Fits(ks, d)[0]
  ELSE /\ t \in NodesOver(Even[h - 1]) /\ Sound(ks, Fits(ks, d)[h - 1], t.entries, Nat)
       /\ Len(t.entries) \in 2 .. d

\* A tree that is no root could be one.
LEMMA FitIsRoot ==
  ASSUME NEW ks \in Seq(Nat), NEW d \in Nat, d >= 3, NEW h \in 0 .. MaxItems, NEW t, NEW Q,
         <<t, Q>> \in Fits(ks, d)[h]
  PROVE  RootAt(ks, d, h, t)
<1>1. Regular(ks, Even[h], Fits(ks, d)[h])
  BY FitsRegular, Zenon
<1>2. t \in Even[h] /\ Q \in SUBSET Nat
  <2>1. Fits(ks, d)[h] \subseteq Even[h] \X SUBSET Nat
    BY <1>1, Zenon DEF Regular
  <2> QED
    BY ONLY <2>1, <<t, Q>> \in Fits(ks, d)[h]
<1>3. <<t, Nat>> \in Fits(ks, d)[h]
  <2>1. Nat \in SUBSET Nat /\ Q \subseteq Nat
    BY <1>2
  <2> QED
    BY ONLY <1>1, <1>2, <2>1, <<t, Q>> \in Fits(ks, d)[h], Zenon DEF Regular
<1>4. CASE h = 0
  BY <1>3, <1>4, Zenon DEF RootAt
<1>5. CASE h # 0
  <2>1. h \in 1 .. MaxItems
    BY <1>5
  <2>2. /\ t \in NodesOver(Even[h - 1])
        /\ Sound(ks, Fits(ks, d)[h - 1], t.entries, Nat)
        /\ Len(t.entries) \in halfdim(d) .. d
    BY ONLY <1>3, <2>1, FitNode, Zenon
  <2>3. halfdim(d) \in Nat /\ halfdim(d) >= 2
    BY HalfIsLess
  <2>4. Len(t.entries) \in 2 .. d
    BY ONLY <2>2, <2>3, d \in Nat
  <2> QED
    BY ONLY <1>5, <2>2, <2>4, Zenon DEF RootAt
<1> QED
  BY <1>4, <1>5

\* What an insert leaves as the root, when the tree was of height h and P are the
\* places that it should hold.
Grown(ks, d, h, P, r) ==
  /\ r.nodes \in Int
  /\ RootAt(ks, d, h, Grow(r)) \/ RootAt(ks, d, h + 1, Grow(r))
  /\ Places(Grow(r)) \subseteq P
  /\ ~(r.nodes < 0 \/ (r.xn # <<>> /\ r.nodes = 0)) => Places(Grow(r)) = P

\* fs_btree_insert makes a root of what insert1 returns, if need be of one level more.
LEMMA ReturnsGrow ==
  ASSUME NEW ks \in Seq(Nat), dimension \in Nat, dimension >= 3, NEW h \in 0 .. MaxItems, h + 1 <= MaxItems,
         NEW P, NEW r, Returns(ks, Even[h], Fits(ks, dimension)[h], Nat, P, r)
  PROVE  Grown(ks, dimension, h, P, r)
<1> DEFINE d == dimension
           S == Even[h]
           R == Fits(ks, d)[h]
<1>1. Regular(ks, S, R)
  BY FitsRegular, Zenon
<1>2. r.nodes \in Int /\ r.nodes >= -1 /\ r.node \in S
  BY Zenon DEF Returns
<1>3. CASE /\ r.xn = <<>> /\ <<r.node, Nat>> \in R
           /\ Places(r.node) \subseteq P /\ (r.nodes >= 0 => Places(r.node) = P)
  <2>1. Grow(r) = r.node
    BY <1>3 DEF Grow
  <2>2. RootAt(ks, d, h, r.node)
    BY <1>3, FitIsRoot, Zenon
  <2>3. ~(r.nodes < 0) => r.nodes >= 0
    BY <1>2
  <2> QED
    BY ONLY <1>2, <1>3, <2>1, <2>2, <2>3, Zenon DEF Grown, d
<1>4. ASSUME NEW x \in Entries(S),
             /\ r.xn = <<x>> /\ r.nodes >= 0 /\ x.begin < Len(ks)
             /\ <<r.node, {q \in Nat : q > KeyAt(ks, x.begin)}>> \in R
             /\ <<x.ptr, {q \in Nat : KeyAt(ks, x.begin) >= q}>> \in R
             /\ Places(r.node) \cup Places(x.ptr) = P
      PROVE  Grown(ks, d, h, P, r)
  <2>1. r.xn # <<>>
    BY <1>4
  <2>2. CASE r.nodes = 0
    <3>1. Grow(r) = r.node
      BY <2>2 DEF Grow
    <3>2. RootAt(ks, d, h, r.node)
      BY <1>4, FitIsRoot, Zenon
    <3> QED
      BY ONLY <1>2, <1>4, <2>1, <2>2, <3>1, <3>2, Zenon DEF Grown, d
  <2>3. CASE r.nodes # 0
    <3> DEFINE l == Leftmost[r.node]
               y == [ptr |-> r.node, begin |-> l]
               f == <<y, x>>
    <3>1. Grow(r) = Node(f)
      <4>1. r.xn[1] = x
        BY <1>4
      <4> QED
        BY <2>1, <2>3, <4>1, Zenon DEF Grow
    <3>2. l \in Nat /\ l < Len(ks)
      <4>1. LeftmostIn(ks, h)
        BY LeftmostKeeps, Zenon
      <4>2. l \in Places(r.node)
        BY <1>4, <4>1, Zenon DEF LeftmostIn
      <4>3. l \in 0 .. Len(ks) - 1
        <5>1. {q \in Nat : q > KeyAt(ks, x.begin)} \in SUBSET Nat
          OBVIOUS
        <5> QED
          BY ONLY <1>1, <1>2, <1>4, <4>2, <5>1, Zenon DEF Regular
      <4> QED
        BY <4>3
    <3> HIDE DEF l
    <3>3. y \in Entries(S) /\ y.ptr = r.node /\ y.begin = l
      BY <1>2, <3>2 DEF Entries
    <3> HIDE DEF y
    <3>4. /\ f \in Seq(Entries(S)) /\ Len(f) = 2 /\ f[1] = y /\ f[2] = x
          /\ Sound(ks, R, f, Nat)
      <4>1. Nat \in SUBSET Nat
        OBVIOUS
      <4>2. y.begin < Len(ks) /\ x.begin < Len(ks)
        BY <1>4, <3>2, <3>3
      <4>3. /\ <<y.ptr, {q \in Nat : q > KeyAt(ks, x.begin)}>> \in R
            /\ <<x.ptr, {q \in Nat : KeyAt(ks, x.begin) >= q}>> \in R
        BY ONLY <1>4, <3>3, Zenon
      <4> QED
        BY ONLY ks \in Seq(Nat), <1>1, <3>3, x \in Entries(S), <4>1, <4>2, <4>3, SoundTwo, Zenon
    <3> HIDE DEF f
    <3>5. Node(f) \in NodesOver(S) /\ Node(f).entries = f
      <4>1. f \in Seq([ptr : S, begin : Nat]) /\ Len(f) >= 2
        BY <3>4 DEF Entries
      <4> QED
        BY <4>1, NodeIs, NodeHas, Zenon
    <3>6. RootAt(ks, d, h + 1, Node(f))
      <4>1. h + 1 # 0 /\ (h + 1) - 1 = h
        OBVIOUS
      <4>2. Len(f) \in 2 .. d
        BY <3>4
      <4> HIDE DEF R
      <4>3. /\ Node(f) \in NodesOver(Even[(h + 1) - 1])
            /\ Sound(ks, Fits(ks, d)[(h + 1) - 1], Node(f).entries, Nat)
            /\ Len(Node(f).entries) \in 2 .. d
        <5>1. Sound(ks, Fits(ks, d)[h], f, Nat)
          BY <3>4, Zenon DEF R
        <5> QED
          BY ONLY <3>5, <4>1, <4>2, <5>1, Zenon DEF S
      <4> QED
        BY ONLY <4>1, <4>3, Zenon DEF RootAt
    <3>7. Places(Node(f)) = P
      <4>1. S \subseteq Tree
        BY EvenTrees, Zenon
      <4>2. Node(f) \in Tree /\ Node(f) \in NodesOver(Tree)
        <5>1. h + 1 \in 0 .. MaxItems /\ h + 1 \in 1 .. MaxItems /\ (h + 1) - 1 = h
          BY BTreeAssumption
        <5>2. Even[h + 1] = NodesOver(S)
          BY ONLY <5>1, EvenHas
        <5>3. Even[h + 1] \subseteq Tree
          BY ONLY <5>1, EvenTrees, Zenon
        <5>4. NodesOver(S) \subseteq NodesOver(Tree)
          BY ONLY <4>1, MoreNodes
        <5> QED
          BY ONLY <3>5, <5>2, <5>3, <5>4
      <4>3. Places(Node(f)) = Held(f)
        BY ONLY <3>5, <4>2, HeldByNode, Zenon
      <4>4. \A v : v \in Held(f) <=> \E i \in 1 .. Len(f) : v \in Places(f[i].ptr)
        BY HeldIs
      <4>5. \A i : i \in 1 .. Len(f) <=> i = 1 \/ i = 2
        BY <3>4
      <4>6. \A v : v \in Held(f) <=> v \in Places(r.node) \/ v \in Places(x.ptr)
        BY ONLY <3>3, <3>4, <4>4, <4>5, Zenon
      <4> QED
        BY ONLY <1>4, <4>3, <4>6
    <3> QED
      BY ONLY <1>2, <3>1, <3>6, <3>7, Zenon DEF Grown, d
  <2> QED
    BY <2>2, <2>3
<1>5. \/ /\ r.xn = <<>> /\ <<r.node, Nat>> \in R
         /\ Places(r.node) \subseteq P /\ (r.nodes >= 0 => Places(r.node) = P)
      \/ \E x \in Entries(S) :
             /\ r.xn = <<x>> /\ r.nodes >= 0 /\ x.begin < Len(ks)
             /\ <<r.node, {q \in Nat : q > KeyAt(ks, x.begin)}>> \in R
             /\ <<x.ptr, {q \in Nat : KeyAt(ks, x.begin) >= q}>> \in R
             /\ Places(r.node) \cup Places(x.ptr) = P
  BY Zenon DEF Returns
<1> HIDE DEF S, R
<1> QED
  BY ONLY <1>3, <1>4, <1>5, Zenon DEF d
\* A node over trees of height h - 1 is one of height h, and holds what they hold.
LEMMA NodeMade ==
  ASSUME NEW h \in 1 .. MaxItems, NEW f \in Seq(Entries(Even[h - 1])), Len(f) >= 2
  PROVE  /\ Node(f) \in NodesOver(Even[h - 1]) /\ Node(f).entries = f
         /\ Places(Node(f)) = Held(f)
<1>1. Node(f) \in NodesOver(Even[h - 1]) /\ Node(f).entries = f
  <2>1. f \in Seq([ptr : Even[h - 1], begin : Nat])
    BY DEF Entries
  <2> QED
    BY <2>1, NodeIs, NodeHas, Zenon
<1>2. Node(f) \in Tree /\ Node(f) \in NodesOver(Tree)
  BY ONLY <1>1, NodeOfTree, h \in 1 .. MaxItems, Zenon
<1>3. Places(Node(f)) = Held(f)
  BY ONLY <1>1, <1>2, HeldByNode, Zenon
<1> QED
  BY ONLY <1>1, <1>3

\* A root that was not split stays a root.
LEMMA KeptGrows ==
  ASSUME NEW ks \in Seq(Nat), dimension \in Nat, dimension >= 3, NEW h \in 1 .. MaxItems,
         NEW n \in Nat, n >= 2, NEW P, NEW r, r.nodes \in Int, r.nodes >= -1,
         Kept(ks, Even[h - 1], Fits(ks, dimension)[h - 1], n, dimension, Nat, P, r)
  PROVE  Grown(ks, dimension, h, P, r)
<1> DEFINE d == dimension
           S == Even[h - 1]
           R == Fits(ks, d)[h - 1]
<1>1. PICK f \in Seq(Entries(S)) :
        /\ r.xn = <<>> /\ r.node = Node(f) /\ Sound(ks, R, f, Nat) /\ Len(f) \in n .. d
        /\ Held(f) \subseteq P /\ (r.nodes >= 0 => Held(f) = P)
  BY Zenon DEF Kept
<1>2. Grow(r) = Node(f)
  BY <1>1 DEF Grow
<1>3. Len(f) >= 2 /\ Len(f) \in 2 .. d
  BY <1>1
<1>4. Node(f) \in NodesOver(S) /\ Node(f).entries = f /\ Places(Node(f)) = Held(f)
  BY <1>3, NodeMade, Zenon
<1>5. RootAt(ks, d, h, Node(f))
  <2>1. h # 0
    OBVIOUS
  <2>2. Sound(ks, Fits(ks, d)[h - 1], Node(f).entries, Nat) /\ Len(Node(f).entries) \in 2 .. d
    BY ONLY <1>1, <1>3, <1>4, Zenon
  <2> QED
    BY ONLY <1>4, <2>1, <2>2, Zenon DEF RootAt
<1>6. ~(r.nodes < 0) => r.nodes >= 0
  OBVIOUS
<1> QED
  BY ONLY <1>1, <1>2, <1>4, <1>5, <1>6, r.nodes \in Int, Zenon DEF Grown, d

\* The parts of a root that is a node.
LEMMA RootParts ==
  ASSUME NEW ks \in Seq(Nat), NEW d, NEW h \in 1 .. MaxItems, NEW t, RootAt(ks, d, h, t)
  PROVE  /\ t \in NodesOver(Even[h - 1]) /\ Nat \in SUBSET Nat
         /\ Sound(ks, Fits(ks, d)[h - 1], t.entries, Nat)
         /\ Len(t.entries) \in 2 .. d
<1>1. h # 0
  OBVIOUS
<1> QED
  BY <1>1, Zenon DEF RootAt

\* An insert in a tree leaves a tree that holds what it should.
LEMMA RootInserts ==
  ASSUME key \in Seq(Nat), dimension \in Nat, dimension >= 3, NEW k \in Nat, NEW kn, kn = Append(key, k),
         NEW nodes \in Nat, NEW h \in 0 .. MaxItems, h + 1 <= MaxItems, NEW t, RootAt(key, dimension, h, t),
         \A i \in Places(t) : KeyAt(key, i) # k
  PROVE  Grown(kn, dimension, h, Places(t) \cup {Len(key)}, Insert1(t, Leaf(Len(key)), k, nodes))
<1> DEFINE r == Insert1(t, Leaf(Len(key)), k, nodes)
           P == Places(t) \cup {Len(key)}
<1>1. kn \in Seq(Nat) /\ 0 \in 0 .. MaxItems
  BY KeyAdded, BTreeAssumption
<1>2. CASE h = 0
  <2>1. <<t, Nat>> \in Fits(key, dimension)[0]
    BY <1>2, Zenon DEF RootAt
  <2>2. InsertsIn(kn, k, nodes, 0)
    BY <1>1, InsertKeeps, Zenon
  <2>3. Returns(kn, Even[0], Fits(kn, dimension)[0], Nat, P, r)
    BY <2>1, <2>2, Zenon DEF InsertsIn
  <2> HIDE DEF r, P
  <2>4. Grown(kn, dimension, h, P, r)
    BY ONLY <1>1, <1>2, <2>3, ReturnsGrow, dimension \in Nat, dimension >= 3, h \in 0 .. MaxItems,
       h + 1 <= MaxItems, Zenon
  <2> QED
    BY ONLY <2>4, Zenon DEF r, P
<1>3. CASE h # 0
  <2>1. h \in 1 .. MaxItems /\ h - 1 \in 0 .. MaxItems
    BY <1>3, BTreeAssumption
  <2>2. /\ t \in NodesOver(Even[h - 1]) /\ Nat \in SUBSET Nat
        /\ Sound(key, Fits(key, dimension)[h - 1], t.entries, Nat)
        /\ Len(t.entries) \in 2 .. dimension
    BY <2>1, RootParts, Zenon
  <2>3. InsertsIn(kn, k, nodes, h - 1)
    BY <2>1, InsertKeeps, Zenon
  <2> HIDE DEF r, P
  <2> DEFINE n == Len(t.entries)
             S == Even[h - 1]
             R == Fits(kn, dimension)[h - 1]
  <2>4. n \in Nat /\ n >= 2 /\ n <= dimension
    BY <2>2
  <2>5. /\ r.nodes \in Int /\ r.nodes >= -1
        /\ \/ Kept(kn, S, R, n, dimension, Nat, P, r)
           \/ Halved(kn, S, R, dimension, Nat, P, r)
    <3>1. Len(t.entries) <= dimension
      BY <2>4
    <3>2. r = Insert1(t, Leaf(Len(key)), k, nodes) /\ P = Places(t) \cup {Len(key)}
      BY DEF r, P
    <3>3. /\ r.nodes \in Int /\ r.nodes >= -1
          /\ \/ Kept(kn, S, R, n, dimension, Nat, Places(t) \cup {Len(key)}, r)
             \/ Halved(kn, S, R, dimension, Nat, Places(t) \cup {Len(key)}, r)
      BY ONLY <2>1, <2>2, <2>3, <3>1, <3>2, key \in Seq(Nat), dimension \in Nat, dimension >= 3,
              k \in Nat, kn = Append(key, k), \A i \in Places(t) : KeyAt(key, i) # k, NodeRises, Zenon
    <3> QED
      BY ONLY <3>2, <3>3, Zenon
  <2> HIDE DEF n, S, R
  <2>6. CASE Kept(kn, S, R, n, dimension, Nat, P, r)
    <3>1. Grown(kn, dimension, h, P, r)
      BY ONLY <1>1, <2>1, <2>4, <2>5, <2>6, KeptGrows, dimension \in Nat, dimension >= 3, Zenon DEF S, R
    <3> QED
      BY ONLY <3>1, Zenon DEF r, P
  <2>7. CASE Halved(kn, S, R, dimension, Nat, P, r)
    <3>1. Returns(kn, Even[h], Fits(kn, dimension)[h], Nat, P, r)
      BY ONLY <1>1, <2>1, <2>2, <2>5, <2>7, HalvedReturns, dimension \in Nat, dimension >= 3, Zenon DEF S, R
    <3>2. Grown(kn, dimension, h, P, r)
      BY ONLY <1>1, <3>1, ReturnsGrow, dimension \in Nat, dimension >= 3, h \in 0 .. MaxItems,
         h + 1 <= MaxItems, Zenon
    <3> QED
      BY ONLY <3>2, Zenon DEF r, P
  <2> QED
    BY ONLY <2>5, <2>6, <2>7, Zenon
<1> QED
  BY <1>2, <1>3
\* What a remove leaves as the root, when P are the places that it should hold.
Shrunk(ks, d, h, P, r) ==
  \/ Shrink(r) = Null /\ P = {}
  \/ /\ RootAt(ks, d, h, Shrink(r)) \/ (h # 0 /\ RootAt(ks, d, h - 1, Shrink(r)))
     /\ Places(Shrink(r)) = P

\* fs_btree_remove makes a root of what remove1 returns, if need be of one level less.
LEMMA SunkShrinks ==
  ASSUME NEW ks \in Seq(Nat), dimension \in Nat, dimension >= 3, NEW h \in 1 .. MaxItems,
         NEW n \in 2 .. dimension, NEW P, NEW u, Sunk(ks, dimension, h - 1, Nat, P, n, u)
  PROVE  Shrunk(ks, dimension, h, P, u)
<1> DEFINE d == dimension
           S == Even[h - 1]
           R == Fits(ks, d)[h - 1]
<1>1. PICK f, m :
        /\ u.node = Node(f) /\ Whole(ks, S, R, Nat, P, m, f)
        /\ \/ u.result = "ok" /\ (m = n \/ (m = n - 1 /\ m >= halfdim(d)))
           \/ u.result = "need_merge" /\ m = n - 1 /\ m < halfdim(d)
  BY Zenon DEF Sunk
<1>2. halfdim(d) \in Nat /\ halfdim(d) >= 2 /\ h # 0 /\ h - 1 \in 0 .. MaxItems
  <2>1. halfdim(d) \in Nat /\ halfdim(d) >= 2
    BY HalfIsLess
  <2>2. h # 0 /\ h - 1 \in 0 .. MaxItems
    BY BTreeAssumption
  <2> QED
    BY ONLY <2>1, <2>2
<1>3. m \in Nat /\ m >= 1 /\ m <= d /\ (m >= 2 \/ m = 1) /\ (m = 1 => u.result = "need_merge")
  BY ONLY <1>1, <1>2, n \in 2 .. dimension, dimension \in Nat DEF d
<1>4. /\ f \in Seq(Entries(S)) /\ Len(f) = m /\ Sound(ks, R, f, Nat) /\ Held(f) = P
  BY ONLY <1>1, Zenon DEF Whole
<1>5. u.result # "removed" /\ u.node.entries = f
  BY ONLY <1>1, NodeHas
<1>6. CASE m >= 2
  <2>1. Shrink(u) = Node(f)
    <3>1. ~(Len(u.node.entries) = 1)
      <4>1. Len(u.node.entries) = m
        BY ONLY <1>4, <1>5, Zenon
      <4>2. m # 1
        BY ONLY <1>6
      <4> QED
        BY ONLY <4>1, <4>2, Zenon
    <3> QED
      BY ONLY <1>1, <1>5, <3>1, Zenon DEF Shrink
  <2>2. Node(f) \in NodesOver(S) /\ Node(f).entries = f /\ Places(Node(f)) = Held(f)
    <3>1. Len(f) >= 2
      BY <1>4, <1>6
    <3> QED
      BY <1>4, <3>1, NodeMade, Zenon
  <2>3. RootAt(ks, d, h, Node(f))
    <3>1. Len(Node(f).entries) \in 2 .. d
      BY <1>3, <1>4, <1>6, <2>2
    <3> QED
      BY ONLY <1>2, <1>4, <2>2, <3>1, Zenon DEF RootAt, S, R
  <2> QED
    BY ONLY <1>4, <2>1, <2>2, <2>3, Zenon DEF Shrunk, d
<1>7. CASE m = 1
  <2> DEFINE c == f[1].ptr
  <2>1. Shrink(u) = c
    <3>1. u.result = "need_merge" /\ Len(u.node.entries) = 1
      BY <1>3, <1>4, <1>5, <1>7
    <3> QED
      BY ONLY <1>5, <3>1, Zenon DEF Shrink
  <2>2. <<c, Nat>> \in R
    <3>1. 1 \in 1 .. Len(f) /\ ~(1 > 1) /\ ~(1 < Len(f))
      BY <1>4, <1>7
    <3>2. <<c, Share(ks, f, 1, Nat)>> \in R
      BY ONLY <1>4, <3>1, Zenon DEF Sound
    <3>3. Share(ks, f, 1, Nat) = Nat
      BY <3>1 DEF Share
    <3> QED
      BY ONLY <3>2, <3>3, Zenon
  <2>3. RootAt(ks, d, h - 1, c)
    BY ONLY <1>2, <2>2, FitIsRoot, ks \in Seq(Nat), dimension \in Nat, dimension >= 3, Zenon DEF R, d
  <2>4. Places(c) = P
    BY ONLY <1>4, <1>7, HeldByOne, Zenon
  <2> QED
    BY ONLY <1>2, <2>1, <2>3, <2>4, Zenon DEF Shrunk, d
<1> QED
  BY ONLY <1>3, <1>6, <1>7, Zenon

\* A remove in a tree leaves a tree that holds what it should.
LEMMA RootRemoves ==
  ASSUME key \in Seq(Nat), dimension \in Nat, dimension >= 3, NEW k \in Nat,
         NEW h \in 0 .. MaxItems, NEW t, RootAt(key, dimension, h, t)
  PROVE  /\ Shrunk(key, dimension, h, Without(t, k), Remove1(t, k))
         /\ Remove1(t, k).retv = Holds(t, k)
<1> DEFINE r == Remove1(t, k)
           P == Without(t, k)
<1>1. CASE h = 0
  <2>1. <<t, Nat>> \in Fits(key, dimension)[0]
    BY <1>1, Zenon DEF RootAt
  <2>2. RemovesIn(k, 0)
    BY LeafRemoves, Zenon
  <2>3. Gives(key, dimension, 0, Nat, P, r) /\ r.retv = Holds(t, k)
    BY <2>1, <2>2, Zenon DEF RemovesIn
  <2> HIDE DEF r, P
  <2>4. CASE r.result = "ok" /\ <<r.node, Nat>> \in Fits(key, dimension)[0] /\ Places(r.node) = P
    <3>1. Shrink(r) = r.node
      BY <2>4 DEF Shrink
    <3>2. RootAt(key, dimension, 0, r.node)
      BY <2>4, Zenon DEF RootAt
    <3>3. Shrunk(key, dimension, h, P, r)
      BY ONLY <1>1, <2>4, <3>1, <3>2, Zenon DEF Shrunk
    <3> QED
      BY ONLY <2>3, <3>3, Zenon DEF r, P
  <2>5. CASE r.result = "removed" /\ P = {}
    <3>1. Shrink(r) = Null
      BY <2>5 DEF Shrink
    <3>3. Shrunk(key, dimension, h, P, r)
      BY ONLY <2>5, <3>1, Zenon DEF Shrunk
    <3> QED
      BY ONLY <2>3, <3>3, Zenon DEF r, P
  <2> QED
    BY ONLY <2>3, <2>4, <2>5, Zenon DEF Gives
<1>2. CASE h # 0
  <2>1. h \in 1 .. MaxItems /\ h - 1 \in 0 .. MaxItems
    BY <1>2, BTreeAssumption
  <2>2. /\ t \in NodesOver(Even[h - 1]) /\ Nat \in SUBSET Nat
        /\ Sound(key, Fits(key, dimension)[h - 1], t.entries, Nat)
        /\ Len(t.entries) \in 2 .. dimension
    BY <2>1, RootParts, Zenon
  <2>3. RemovesIn(k, h - 1)
    BY <2>1, RemoveKeeps, Zenon
  <2> HIDE DEF r, P
  <2>4. Sunk(key, dimension, h - 1, Nat, P, Len(t.entries), r) /\ r.retv = Holds(t, k)
    <3>1. r = Remove1(t, k) /\ P = Without(t, k)
      BY DEF r, P
    <3>2. Sunk(key, dimension, h - 1, Nat, Without(t, k), Len(t.entries), r) /\ r.retv = Holds(t, k)
      BY ONLY <2>1, <2>2, <2>3, <3>1, NodeSinks, key \in Seq(Nat), dimension \in Nat, dimension >= 3, k \in Nat, Zenon
    <3> QED
      BY ONLY <3>1, <3>2, Zenon
  <2>5. Shrunk(key, dimension, h, P, r)
    BY ONLY <2>1, <2>2, <2>4, SunkShrinks, key \in Seq(Nat), dimension \in Nat, dimension >= 3, Zenon
  <2> QED
    BY ONLY <2>4, <2>5, Zenon DEF r, P
<1> QED
  BY <1>1, <1>2
\* Places are those of keys, each of which is there once.
Keyed(ks, P) ==
  /\ P # {} /\ P \subseteq 0 .. Len(ks) - 1
  /\ \A i, j \in P : KeyAt(ks, i) = KeyAt(ks, j) => i = j

\* A root is balanced and holds places of different keys.
LEMMA RootHas ==
  ASSUME NEW ks \in Seq(Nat), NEW d \in Nat, d >= 3, NEW h \in 0 .. MaxItems, NEW t, RootAt(ks, d, h, t)
  PROVE  t \in Even[h] /\ t \in Tree /\ Keyed(ks, Places(t))
<1>0. 0 \in 0 .. MaxItems /\ Even[0] = Leaves
  BY EvenHas, BTreeAssumption
<1>1. CASE h = 0
  <2>1. <<t, Nat>> \in Fits(ks, d)[0]
    BY <1>1, Zenon DEF RootAt
  <2>2. Regular(ks, Even[0], Fits(ks, d)[0])
    BY <1>0, FitsRegular, Zenon
  <2>3. t \in Even[0] /\ Nat \in SUBSET Nat
    <3>1. Fits(ks, d)[0] \subseteq Even[0] \X SUBSET Nat
      BY <2>2, Zenon DEF Regular
    <3> QED
      BY ONLY <2>1, <3>1
  <2>4. /\ Places(t) # {}
        /\ \A i \in Places(t) : i \in 0 .. Len(ks) - 1 /\ KeyAt(ks, i) \in Nat
        /\ \A i, j \in Places(t) : KeyAt(ks, i) = KeyAt(ks, j) => i = j
    BY ONLY <2>1, <2>2, <2>3, Zenon DEF Regular
  <2>5. t \in Tree
    BY <1>0, <2>3, EvenTrees, Zenon
  <2> QED
    BY ONLY <1>1, <2>3, <2>4, <2>5, Zenon DEF Keyed
<1>2. CASE h # 0
  <2> DEFINE S == Even[h - 1]
             R == Fits(ks, d)[h - 1]
             e == t.entries
  <2>1. h \in 1 .. MaxItems /\ h - 1 \in 0 .. MaxItems
    BY <1>2, BTreeAssumption
  <2>2. /\ t \in NodesOver(S) /\ Nat \in SUBSET Nat /\ Sound(ks, R, e, Nat)
    BY <2>1, RootParts, Zenon
  <2>3. t \in Tree /\ t \in NodesOver(Tree)
    BY <2>1, <2>2, NodeOfTree, Zenon
  <2>4. t \in Even[h] /\ S \subseteq Tree
    BY <2>1, <2>2, EvenHas, Zenon
  <2>5. HoldsApart(ks, e, Nat)
    <3>1. Regular(ks, S, R)
      BY <2>1, FitsRegular, Zenon
    <3>2. e \in Seq([ptr : S, begin : Nat])
      BY <2>2, NodeIs, Zenon
    <3> QED
      BY ONLY <2>2, <2>4, <3>1, <3>2, NodesRegular, ks \in Seq(Nat), Zenon
  <2>6. \A i : i \in Places(t) <=> \E j \in 1 .. Len(e) : i \in Places(e[j].ptr)
    BY <2>3, PlacesOfNode, Zenon
  <2> HIDE DEF e
  <2>7. Keyed(ks, Places(t))
    <3>1. Places(t) # {}
      BY ONLY <2>5, <2>6, Zenon DEF HoldsApart
    <3>2. \A i \in Places(t) : i \in 0 .. Len(ks) - 1
      BY ONLY <2>5, <2>6, Zenon DEF HoldsApart
    <3>3. ASSUME NEW i \in Places(t), NEW j \in Places(t), KeyAt(ks, i) = KeyAt(ks, j)
          PROVE  i = j
      <4>1. PICK m \in 1 .. Len(e) : i \in Places(e[m].ptr)
        BY ONLY <2>6, i \in Places(t), Zenon
      <4>2. PICK n \in 1 .. Len(e) : j \in Places(e[n].ptr)
        BY ONLY <2>6, j \in Places(t), Zenon
      <4> QED
        BY ONLY <2>5, <3>3, <4>1, <4>2, Zenon DEF HoldsApart
    <3> QED
      BY ONLY <3>1, <3>2, <3>3, Zenon DEF Keyed
  <2> QED
    BY ONLY <2>3, <2>4, <2>7, Zenon
<1> QED
  BY <1>1, <1>2

\* The leaves of a key that a search comes to.
Found(t, k) == {l \in Candidates(t, k) : Rgetdata(key, l.vch_index) = k}

\* A search finds the leaf of a key if there is one, and that is where a descent ends.
Finds(t, k) ==
  /\ LocatedLeaf(t, k).vch_index \in Places(t)
  /\ ~Holds(t, k) => Found(t, k) = {}
  /\ \A i \in Places(t) : KeyAt(key, i) = k =>
       Found(t, k) = {Leaf(i)} /\ LocatedLeaf(t, k).vch_index = i

\* A search that looks at the right leaves finds the leaf of the key, and no other.
LEMMA LooksFinds ==
  ASSUME NEW t, NEW k, LooksAt(t, k), Keyed(key, Places(t)),
         LocatedLeaf(t, k) \in Leaves, LocatedLeaf(t, k).vch_index \in Places(t),
         \A i \in Places(t) : KeyAt(key, i) = k => LocatedLeaf(t, k).vch_index = i
  PROVE  Finds(t, k)
<1>1. \A i : Rgetdata(key, i) = KeyAt(key, i)
  BY DEF Rgetdata, KeyAt
<1>2. /\ \A l \in Candidates(t, k) : l \in Leaves /\ l.vch_index \in Places(t)
      /\ LocatedLeaf(t, k) \in Candidates(t, k)
  BY Zenon DEF LooksAt
<1>3. \A l : l \in Found(t, k) <=> l \in Candidates(t, k) /\ KeyAt(key, l.vch_index) = k
  BY <1>1 DEF Found
<1>4. ASSUME ~Holds(t, k) PROVE Found(t, k) = {}
  <2>1. \A l : l \notin Found(t, k)
    BY ONLY <1>2, <1>3, <1>4, Zenon DEF Holds
  <2> QED
    BY <2>1
<1>5. ASSUME NEW i \in Places(t), KeyAt(key, i) = k
      PROVE  Found(t, k) = {Leaf(i)}
  <2>1. \A l \in Leaves : l = Leaf(l.vch_index)
    BY LeafIs, Zenon
  <2>2. LocatedLeaf(t, k) = Leaf(i)
    BY ONLY <1>5, <2>1, LocatedLeaf(t, k) \in Leaves, \A j \in Places(t) : KeyAt(key, j) = k => LocatedLeaf(t,
       k).vch_index = j, Zenon
  <2>3. Leaf(i) \in Found(t, k)
    <3>1. KeyAt(key, LocatedLeaf(t, k).vch_index) = k
      BY ONLY <1>5, \A j \in Places(t) : KeyAt(key, j) = k => LocatedLeaf(t, k).vch_index = j
    <3> QED
      BY ONLY <1>2, <1>3, <2>2, <3>1, Zenon
  <2>4. ASSUME NEW l \in Found(t, k) PROVE l = Leaf(i)
    <3>1. l \in Leaves /\ l.vch_index \in Places(t) /\ KeyAt(key, l.vch_index) = KeyAt(key, i)
      BY ONLY <1>2, <1>3, <1>5, <2>4, Zenon
    <3>2. l.vch_index = i
      BY ONLY <1>5, <3>1, Keyed(key, Places(t)), Zenon DEF Keyed
    <3> QED
      BY ONLY <2>1, <3>1, <3>2, Zenon
  <2> QED
    BY ONLY <2>3, <2>4
<1> QED
  BY ONLY <1>4, <1>5, LocatedLeaf(t, k).vch_index \in Places(t),
          \A i \in Places(t) : KeyAt(key, i) = k => LocatedLeaf(t, k).vch_index = i, Zenon DEF Finds

\* A search and a descent in a tree that is a root find what they should.
LEMMA RootFinds ==
  ASSUME key \in Seq(Nat), dimension \in Nat, dimension >= 3, NEW k \in Nat,
         NEW h \in 0 .. MaxItems, NEW t, RootAt(key, dimension, h, t)
  PROVE  Finds(t, k)
<1>1. Keyed(key, Places(t))
  BY RootHas, Zenon
<1>2. /\ LocatedLeaf(t, k) \in Leaves /\ LocatedLeaf(t, k).vch_index \in Places(t)
      /\ \A i \in Places(t) : KeyAt(key, i) = k => LocatedLeaf(t, k).vch_index = i
      /\ LooksAt(t, k)
  <2>1. CASE h = 0
    <3>1. <<t, Nat>> \in Fits(key, dimension)[0]
      BY <2>1, Zenon DEF RootAt
    <3>2. LocatesIn(k, 0) /\ LooksIn(k, 0)
      BY LeafLocates, LeafLooks, Zenon
    <3> QED
      BY <3>1, <3>2, Zenon DEF LocatesIn, LooksIn
  <2>2. CASE h # 0
    <3>1. h \in 1 .. MaxItems /\ h - 1 \in 0 .. MaxItems
      BY <2>2, BTreeAssumption
    <3>2. /\ t \in NodesOver(Even[h - 1]) /\ Nat \in SUBSET Nat
          /\ Sound(key, Fits(key, dimension)[h - 1], t.entries, Nat)
      BY <3>1, RootParts, Zenon
    <3>3. LocatesIn(k, h - 1) /\ LooksIn(k, h - 1)
      BY <3>1, LocateKeeps, LooksKeeps, Zenon
    <3>4. LooksAt(t, k)
      BY ONLY <3>1, <3>2, <3>3, NodeLooks, key \in Seq(Nat), dimension \in Nat, dimension >= 3, k \in Nat, Zenon
    <3>5. /\ LocatedLeaf(t, k) \in Leaves /\ LocatedLeaf(t, k).vch_index \in Places(t)
          /\ \A i \in Places(t) : KeyAt(key, i) = k => LocatedLeaf(t, k).vch_index = i
      BY ONLY <3>1, <3>2, <3>3, NodeLocates, key \in Seq(Nat), dimension \in Nat, dimension >= 3, k \in Nat, Zenon
    <3> QED
      BY ONLY <3>4, <3>5, Zenon
  <2> QED
    BY <2>1, <2>2
<1> QED
  BY ONLY <1>1, <1>2, LooksFinds, Zenon
\* Appended keys change nothing of a root.
LEMMA RootStays ==
  ASSUME NEW ks \in Seq(Nat), NEW kn \in Seq(Nat), Len(ks) <= Len(kn),
         \A i \in 1 .. Len(ks) : kn[i] = ks[i], NEW d, NEW h \in 0 .. MaxItems, NEW t,
         RootAt(ks, d, h, t)
  PROVE  RootAt(kn, d, h, t)
<1>0. 0 \in 0 .. MaxItems
  BY BTreeAssumption
<1>1. CASE h = 0
  <2>1. <<t, Nat>> \in Fits(ks, d)[0]
    BY <1>1, Zenon DEF RootAt
  <2>2. <<t, Nat>> \in Fits(kn, d)[0]
    BY <1>0, <2>1, FitsStay, Zenon
  <2> QED
    BY <1>1, <2>2, Zenon DEF RootAt
<1>2. CASE h # 0
  <2> DEFINE S == Even[h - 1]
             R == Fits(ks, d)[h - 1]
             Rn == Fits(kn, d)[h - 1]
             e == t.entries
  <2>1. h \in 1 .. MaxItems /\ h - 1 \in 0 .. MaxItems
    BY <1>2, BTreeAssumption
  <2>2. t \in NodesOver(S) /\ Sound(ks, R, e, Nat) /\ Len(e) \in 2 .. d
    BY <2>1, RootParts, Zenon
  <2>3. R \subseteq Rn
    <3>1. \A u, Q : <<u, Q>> \in R => <<u, Q>> \in Rn
      BY <2>1, FitsStay, Zenon
    <3>2. R \subseteq S \X SUBSET Nat
      <4>1. CASE h - 1 = 0
        <5>1. R = FitLeaves(ks) /\ S = Leaves
          BY <2>1, <4>1, FitsAre, EvenHas, Zenon
        <5> QED
          BY <5>1 DEF FitLeaves
      <4>2. CASE h - 1 # 0
        <5>1. h - 1 \in 1 .. MaxItems
          BY <2>1, <4>2
        <5>2. R = FitNodes(ks, d, Even[(h - 1) - 1], Fits(ks, d)[(h - 1) - 1])
          BY <2>1, <4>2, FitsNext, Zenon
        <5>3. S = NodesOver(Even[(h - 1) - 1])
          BY <5>1, EvenHas, Zenon
        <5> QED
          BY <5>2, <5>3 DEF FitNodes
      <4> QED
        BY <4>1, <4>2
    <3> QED
      BY ONLY <3>1, <3>2
  <2>4. e \in Seq([ptr : S, begin : Nat])
    BY <2>2, NodeIs, Zenon
  <2> HIDE DEF R, Rn, e, S
  <2>5. Sound(kn, Rn, e, Nat)
    BY ONLY <2>2, <2>3, <2>4, SoundStays, ks \in Seq(Nat), kn \in Seq(Nat), Len(ks) <= Len(kn),
         \A i \in 1 .. Len(ks) : kn[i] = ks[i], Zenon
  <2> QED
    BY ONLY <1>2, <2>2, <2>5, Zenon DEF RootAt, S, Rn, e
<1> QED
  BY <1>1, <1>2

\* The first leaf is a root.
LEMMA LeafIsRoot ==
  ASSUME NEW ks \in Seq(Nat), NEW d, NEW i \in 0 .. Len(ks) - 1
  PROVE  RootAt(ks, d, 0, Leaf(i))
<1>1. i \in Nat /\ i < Len(ks) /\ KeyAt(ks, i) \in Nat
  BY DEF KeyAt
<1>2. Leaf(i) \in Leaves /\ Leaf(i).vch_index = i
  BY <1>1, LeafIs, Zenon
<1>3. Nat \in SUBSET Nat
  OBVIOUS
<1>4. <<Leaf(i), Nat>> \in Fits(ks, d)[0]
  BY <1>1, <1>2, <1>3, FitLeaf, Zenon
<1> QED
  BY <1>4, Zenon DEF RootAt
-----------------------------------------------------------------------------
(* The invariant, and that every step keeps it.                            *)

\* A tree that is a root, of less height than there are keys in the stream.
RootFits(ks, d, t) == \E h \in 0 .. MaxItems : h < Len(ks) /\ RootAt(ks, d, h, t)

\* What root may be.
RootOK(ks, d, t) == t \in {Null, Invalid} \/ RootFits(ks, d, t)

\* Keys and data are in step; one item more of data is there when a stream is broken.
StreamsFit(ks, vs, broken, n) ==
  /\ ks \in Seq(Keys) /\ Len(ks) <= n
  /\ vs \in Seq(Keys \X Nat) /\ Len(vs) \in {Len(ks), Len(ks) + 1}
  /\ broken \in BOOLEAN /\ (~broken => Len(vs) = Len(ks))

\* What a handle has of its last call.
AnswerFits(ks, vs, overlap, st, p, rp) ==
  /\ overlap \in -1 .. Len(ks) - 1
  /\ st \in {"success", "no_data", "no_accept", "memory"}
  /\ p \in {"closed", "open", "wild"}
  /\ rp \in {<<>>} \cup {<<vs[i]>> : i \in DOMAIN vs}

\* The inductive invariant: the streams are in step and the root is a tree whose every
\* node is half full, in order and over trees that fit their share of the keys.
TreeInv ==
  /\ dimension \in Nat /\ dimension >= 3 /\ load \in Loads
  /\ StreamsFit(key, vch, streamBroken, MaxInserts)
  /\ RootOK(key, dimension, root)
  /\ AnswerFits(key, vch, overlap_index, status, pc, reply)

\* The numbers that the invariant speaks of.
LEMMA InvHas ==
  ASSUME TreeInv
  PROVE  /\ dimension \in Nat /\ dimension >= 3 /\ key \in Seq(Nat) /\ Len(key) \in Nat
         /\ MaxInserts \in Nat /\ MaxInserts <= MaxItems /\ Len(key) <= MaxInserts
         /\ vch \in Seq(Keys \X Nat) /\ Len(key) <= Len(vch) /\ key \in Seq(Keys)
<1>1. StreamsFit(key, vch, streamBroken, MaxInserts) /\ dimension \in Nat /\ dimension >= 3 /\ load \in Loads
  BY Zenon DEF TreeInv
<1>2. key \in Seq(Keys) /\ Len(key) <= MaxInserts /\ vch \in Seq(Keys \X Nat) /\ Len(vch) \in {Len(key), Len(key) + 1}
  BY <1>1, Zenon DEF StreamsFit
<1>3. key \in Seq(Nat) /\ Len(key) \in Nat
  <2>1. Keys \subseteq Nat
    BY BTreeAssumption
  <2> QED
    <3>1. Len(key) \in Nat /\ \A i \in 1 .. Len(key) : key[i] \in Keys
      BY <1>2
    <3>2. key = [i \in 1 .. Len(key) |-> key[i]]
      BY <1>2
    <3>3. \A i \in 1 .. Len(key) : key[i] \in Nat
      BY ONLY <2>1, <3>1
    <3> QED
      BY ONLY <3>1, <3>2, <3>3, SeqMade, Zenon
<1>4. Len(load) \in Nat /\ Extra \in Nat /\ Len(load) + Extra <= MaxItems
  <2>1. load \in Seq(Keys) /\ Extra \in Nat /\ Len(load) + Extra <= MaxItems
    BY <1>1, BTreeAssumption
  <2> QED
    BY <2>1
<1>5. MaxInserts \in Nat /\ MaxInserts <= MaxItems
  BY ONLY <1>4 DEF MaxInserts
<1> QED
  BY <1>1, <1>2, <1>3, <1>5

\* What a root is.
LEMMA RootIs ==
  ASSUME NEW ks \in Seq(Nat), NEW d \in Nat, d >= 3, NEW t, RootFits(ks, d, t)
  PROVE  t \in Tree /\ t \notin {Null, Invalid} /\ Keyed(ks, Places(t))
<1>1. PICK h \in 0 .. MaxItems : RootAt(ks, d, h, t)
  BY Zenon DEF RootFits
<1>2. t \in Tree /\ Keyed(ks, Places(t))
  BY <1>1, RootHas, Zenon
<1> QED
  BY <1>2, TreesAreSome, Zenon

\* A root that is a pointer to something is a tree.
LEMMA HasRootFits ==
  ASSUME TreeInv, HasRoot
  PROVE  RootFits(key, dimension, root)
BY Zenon DEF TreeInv, RootOK, HasRoot

\* A search, in a state of the program.
LEMMA Searched ==
  ASSUME TreeInv, HasRoot, NEW k \in Nat
  PROVE  Finds(root, k) /\ Search(k) = Found(root, k)
<1>1. PICK h \in 0 .. MaxItems : RootAt(key, dimension, h, root)
  BY HasRootFits, Zenon DEF RootFits
<1>2. key \in Seq(Nat) /\ dimension \in Nat /\ dimension >= 3
  BY InvHas, Zenon
<1>3. Finds(root, k)
  BY <1>1, <1>2, RootFinds, Zenon
<1>4. Search(k) = Found(root, k)
  BY Zenon DEF Search, Found
<1> QED
  BY <1>3, <1>4
\* A sequence with an item more.
IsLonger(E, s, t) == t \in Seq(E) /\ Len(t) = Len(s) + 1

\* A sequence with an item more.
LEMMA ItemAdded ==
  ASSUME NEW E, NEW s \in Seq(E), NEW v \in E, NEW t, t = Append(s, v)
  PROVE  IsLonger(E, s, t)
BY DEF IsLonger

\* The streams with one item more in each.
LEMMA StreamsGrow ==
  ASSUME NEW n \in Nat, NEW ks, NEW vs, StreamsFit(ks, vs, FALSE, n), Len(ks) < n, NEW k \in Keys,
         NEW kn, kn = Append(ks, k), NEW vn, vn = Append(vs, <<k, Len(ks)>>)
  PROVE  StreamsFit(kn, vn, FALSE, n)
<1>1. ks \in Seq(Keys) /\ vs \in Seq(Keys \X Nat) /\ Len(vs) = Len(ks)
  BY Zenon DEF StreamsFit
<1>2. kn \in Seq(Keys) /\ Len(kn) = Len(ks) + 1
  BY <1>1
<1>3. <<k, Len(ks)>> \in Keys \X Nat
  BY <1>1
<1>4. vn \in Seq(Keys \X Nat) /\ Len(vn) = Len(vs) + 1
  <2>1. IsLonger(Keys \X Nat, vs, vn)
    BY ONLY <1>1, <1>3, ItemAdded, vn = Append(vs, <<k, Len(ks)>>), Zenon
  <2> QED
    BY ONLY <2>1, Zenon DEF IsLonger
<1>5. Len(kn) <= n /\ Len(vn) = Len(kn)
  BY <1>1, <1>2, <1>4
<1> QED
  BY <1>2, <1>4, <1>5 DEF StreamsFit

\* A leaf that is allocated.
LEMMA AllocHas ==
  ASSUME TreeInv, Len(key) < MaxInserts, NEW k \in Keys, AllocLeaf(k)
  PROVE  /\ k \in Nat /\ key' = Append(key, k) /\ vch' = Append(vch, Datum(k))
         /\ streamBroken' = FALSE /\ streamBroken = FALSE /\ Len(vch) = Len(key)
         /\ StreamsFit(key', vch', streamBroken', MaxInserts)
         /\ NewLeaf = Leaf(Len(key))
         /\ Len(key') = Len(key) + 1 /\ key' \in Seq(Nat)
         /\ \A i \in 1 .. Len(key) : key'[i] = key[i]
<1>1. /\ ~streamBroken /\ key' = Append(key, k) /\ vch' = Append(vch, Datum(k))
      /\ streamBroken' = streamBroken
  BY Zenon DEF AllocLeaf, Lshift
<1>2. StreamsFit(key, vch, streamBroken, MaxInserts)
  BY Zenon DEF TreeInv
<1>3. streamBroken = FALSE
  BY <1>1, <1>2, Zenon DEF StreamsFit
<1>4. k \in Nat /\ key \in Seq(Nat) /\ Len(key) \in Nat /\ MaxInserts \in Nat
  <2>1. Keys \subseteq Nat
    BY BTreeAssumption
  <2> QED
    BY <2>1, InvHas
<1>5. StreamsFit(key, vch, FALSE, MaxInserts)
  BY ONLY <1>2, <1>3, Zenon
<1>6. StreamsFit(Append(key, k), Append(vch, <<k, Len(key)>>), FALSE, MaxInserts)
  BY ONLY <1>4, <1>5, Len(key) < MaxInserts, k \in Keys, StreamsGrow, Zenon
<1>7. StreamsFit(key', vch', streamBroken', MaxInserts)
  BY ONLY <1>1, <1>3, <1>6, Zenon DEF Datum
<1>8. Len(vch) = Len(key)
  BY <1>5, Zenon DEF StreamsFit
<1> DEFINE kn == Append(key, k)
<1>9. kn \in Seq(Nat) /\ Len(kn) = Len(key) + 1 /\ \A i \in 1 .. Len(key) : kn[i] = key[i]
  BY <1>4, KeyAdded, Zenon
<1>10. NewLeaf = Leaf(Len(key))
  <2>1. Len(kn) - 1 = Len(key)
    BY <1>4, <1>9
  <2>2. NewLeaf = Leaf(Len(key') - 1)
    BY Zenon DEF NewLeaf, Rgetlastindex, Rgetsize
  <2> QED
    BY ONLY <1>1, <2>1, <2>2, Zenon
<1> QED
  BY ONLY <1>1, <1>3, <1>4, <1>7, <1>8, <1>9, <1>10, Zenon

\* How an insert changes the tree: the new place joins the others, or some are lost
\* when there is no memory.
InsertEffect(k) ==
  /\ RootFits(key', dimension, root')
  /\ Places(root') \subseteq Places(root) \cup {Len(key)}
  /\ \/ status' = "success" /\ Places(root') = Places(root) \cup {Len(key)}
     \/ status' = "memory"

\* What an insert of a new key does: the tree is a root again and holds the new place, and all
\* others, when it succeeds, which it does with memory; without it some places are lost at most.
LEMMA InsertNewHas ==
  ASSUME TreeInv, NEW k \in Keys, NEW nodes \in Nat, InsertNew(k, nodes)
  PROVE  /\ InsertEffect(k) /\ ~Holds(root, k) /\ Len(key) < MaxInserts
         /\ (nodes = Enough => status' = "success")
<1>1. /\ Len(key) < MaxInserts /\ HasRoot /\ Search(k) = {} /\ AllocLeaf(k)
  BY Zenon DEF InsertNew, MayInsert
<1> DEFINE r == Insert1(root, NewLeaf, k, nodes)
<1>2. /\ root' = Grow(r)
      /\ status' = IF r.nodes < 0 \/ (r.xn # <<>> /\ r.nodes = 0) THEN "memory" ELSE "success"
  BY Zenon DEF InsertNew
<1>3. /\ k \in Nat /\ key' = Append(key, k) /\ NewLeaf = Leaf(Len(key)) /\ Len(key') = Len(key) + 1
  BY <1>1, AllocHas, Zenon
<1>4. /\ dimension \in Nat /\ dimension >= 3 /\ key \in Seq(Nat) /\ Len(key) \in Nat
      /\ MaxInserts \in Nat /\ MaxInserts <= MaxItems
  BY InvHas, Zenon
<1>5. PICK h \in 0 .. MaxItems : h < Len(key) /\ RootAt(key, dimension, h, root)
  BY <1>1, HasRootFits, Zenon DEF RootFits
<1>6. h \in Nat /\ h + 1 <= MaxItems /\ h + 1 \in 0 .. MaxItems /\ h + 1 < Len(key) + 1 /\ h < Len(key) + 1
      /\ h < MaxInserts /\ h < MaxItems
  BY ONLY <1>1, <1>4, <1>5, BTreeAssumption
<1>7. ~Holds(root, k)
  <2>1. Finds(root, k) /\ Found(root, k) = {}
    BY <1>1, <1>3, Searched, Zenon
  <2>2. ASSUME NEW i \in Places(root), KeyAt(key, i) = k PROVE FALSE
    <3>1. {} = {Leaf(i)}
      BY ONLY <2>1, <2>2, Zenon DEF Finds
    <3> QED
      BY <3>1
  <2> QED
    BY ONLY <2>2, Zenon DEF Holds
<1>8. r = Insert1(root, Leaf(Len(key)), k, nodes)
  BY ONLY <1>3, Zenon DEF r
<1> DEFINE P == Places(root) \cup {Len(key)}
<1>9. Grown(key', dimension, h, P, r)
  <2>1. \A i \in Places(root) : KeyAt(key, i) # k
    BY <1>7, Zenon DEF Holds
  <2>2. Grown(key', dimension, h, P, Insert1(root, Leaf(Len(key)), k, nodes))
    BY ONLY <1>3, <1>4, <1>5, <1>6, <2>1, RootInserts, nodes \in Nat, Zenon
  <2> QED
    BY ONLY <1>8, <2>2, Zenon
<1> HIDE DEF r
<1>10. RootFits(key', dimension, root')
  <2>1. RootAt(key', dimension, h, root') \/ RootAt(key', dimension, h + 1, root')
    BY ONLY <1>2, <1>9, Zenon DEF Grown
  <2>2. h < Len(key') /\ h + 1 < Len(key')
    BY ONLY <1>3, <1>6, Zenon
  <2> QED
    BY ONLY <1>5, <1>6, <2>1, <2>2, Zenon DEF RootFits
<1>11. /\ Places(root') \subseteq P
       /\ \/ status' = "success" /\ Places(root') = P
          \/ status' = "memory"
  <2>1. CASE r.nodes < 0 \/ (r.xn # <<>> /\ r.nodes = 0)
    BY ONLY <1>2, <1>9, <2>1, Zenon DEF Grown
  <2>2. CASE ~(r.nodes < 0 \/ (r.xn # <<>> /\ r.nodes = 0))
    BY ONLY <1>2, <1>9, <2>2, Zenon DEF Grown
  <2> QED
    BY ONLY <2>1, <2>2, Zenon
<1>12. ASSUME nodes = Enough PROVE status' = "success"
  <2>1. SpendsIn(Leaf(Len(key)), k, nodes, h)
    BY <1>5, InsertSpends, Zenon
  <2>2. root \in Even[h]
    BY <1>4, <1>5, RootHas, Zenon
  <2>3. r.nodes \in Int /\ r.nodes >= nodes - h
    BY ONLY <1>8, <2>1, <2>2, Zenon DEF SpendsIn
  <2>4. nodes = MaxInserts
    BY <1>12 DEF Enough
  <2>5. ~(r.nodes < 0 \/ r.nodes = 0)
    BY ONLY <1>4, <1>6, <2>3, <2>4
  <2> QED
    BY ONLY <1>2, <2>5, Zenon
<1> QED
  BY ONLY <1>1, <1>7, <1>10, <1>11, <1>12, Zenon DEF InsertEffect
\* How a remove changes the tree.
LEMMA RemoveHas ==
  ASSUME TreeInv, NEW k \in Nat, HasRoot, root' = Shrink(Remove1(root, k))
  PROVE  /\ root' = Null \/ RootFits(key, dimension, root')
         /\ Places(root') = Without(root, k)
         /\ Remove1(root, k).retv = Holds(root, k)
<1> DEFINE r == Remove1(root, k)
           P == Without(root, k)
<1>1. PICK h \in 0 .. MaxItems : h < Len(key) /\ RootAt(key, dimension, h, root)
  BY HasRootFits, Zenon DEF RootFits
<1>2. key \in Seq(Nat) /\ Len(key) \in Nat /\ dimension \in Nat /\ dimension >= 3
  BY InvHas, Zenon
<1>3. Shrunk(key, dimension, h, P, r) /\ r.retv = Holds(root, k)
  BY <1>1, <1>2, RootRemoves, Zenon
<1>4. root' = Shrink(r)
  BY DEF r
<1> HIDE DEF r, P
<1>5. CASE Shrink(r) = Null /\ P = {}
  <2>1. Places(Null) = {}
    BY PlacesOfNone, Zenon
  <2> QED
    BY ONLY <1>3, <1>4, <1>5, <2>1, Zenon DEF r, P
<1>6. CASE /\ RootAt(key, dimension, h, Shrink(r)) \/ (h # 0 /\ RootAt(key, dimension, h - 1, Shrink(r)))
           /\ Places(Shrink(r)) = P
  <2>1. h # 0 => h - 1 \in 0 .. MaxItems /\ h - 1 < Len(key)
    BY <1>1, <1>2, BTreeAssumption
  <2>2. RootFits(key, dimension, root')
    BY ONLY <1>1, <1>4, <1>6, <2>1, Zenon DEF RootFits
  <2> QED
    BY ONLY <1>3, <1>4, <1>6, <2>2, Zenon DEF r, P
<1> QED
  BY ONLY <1>3, <1>5, <1>6, Zenon DEF Shrunk

\* The parts of the invariant, for a step that opens nothing.
LEMMA InvFrom ==
  ASSUME TreeInv, UNCHANGED <<dimension, load>>,
         StreamsFit(key', vch', streamBroken', MaxInserts), RootOK(key', dimension, root'),
         AnswerFits(key', vch', overlap_index', status', pc', reply')
  PROVE  TreeInv'
<1>1. dimension' = dimension /\ load' = load /\ MaxInserts' = MaxInserts
  BY DEF MaxInserts
<1>2. StreamsFit(key', vch', streamBroken', MaxInserts') /\ RootOK(key', dimension', root')
  BY <1>1, Zenon
<1>3. dimension' \in Nat /\ dimension' >= 3 /\ load' \in Loads
  BY <1>1, Zenon DEF TreeInv
<1> QED
  BY ONLY <1>2, <1>3, AnswerFits(key', vch', overlap_index', status', pc', reply'), Zenon DEF TreeInv

\* An answer that gives no data.
LEMMA NoReply ==
  ASSUME TreeInv, NEW n, n >= Len(key), n \in Nat, NEW kn, Len(kn) = n, NEW vn,
         NEW st \in {"success", "no_data", "no_accept", "memory"}, NEW p \in {"closed", "open", "wild"}
  PROVE  AnswerFits(kn, vn, overlap_index, st, p, <<>>)
<1>1. overlap_index \in -1 .. Len(key) - 1
  BY Zenon DEF TreeInv, AnswerFits
<1>2. Len(key) \in Nat
  BY InvHas, Zenon
<1>3. overlap_index \in -1 .. Len(kn) - 1
  BY <1>1, <1>2
<1>4. <<>> \in {<<>>} \cup {<<vn[i]>> : i \in DOMAIN vn}
  BY Zenon
<1> QED
  BY ONLY <1>3, <1>4, st \in {"success", "no_data", "no_accept", "memory"}, p \in {"closed", "open", "wild"},
     Zenon DEF AnswerFits

\* The invariant stays when nothing changes but the answer and pc.
LEMMA InvStays ==
  ASSUME TreeInv, UNCHANGED <<dimension, streams, root, overlap_index, load>>, reply' = <<>>,
         status' \in {"success", "no_data", "no_accept", "memory"}, pc' \in {"closed", "open", "wild"}
  PROVE  TreeInv'
<1>1. /\ key' = key /\ vch' = vch /\ streamBroken' = streamBroken /\ root' = root /\ overlap_index' = overlap_index
      /\ dimension' = dimension /\ load' = load
  BY DEF streams
<1>2. StreamsFit(key', vch', streamBroken', MaxInserts) /\ RootOK(key', dimension, root')
  BY <1>1, Zenon DEF TreeInv
<1>3. Len(key) \in Nat /\ Len(key) >= Len(key)
  <2>1. Len(key) \in Nat
    BY InvHas, Zenon
  <2> QED
    BY <2>1
<1>4. AnswerFits(key, vch, overlap_index, status', pc', <<>>)
  BY <1>3, NoReply, Zenon
<1>5. AnswerFits(key', vch', overlap_index', status', pc', reply')
  BY ONLY <1>1, <1>4, reply' = <<>>, Zenon
<1> QED
  BY <1>2, <1>5, InvFrom, Zenon

\* The invariant holds at first.
LEMMA InitInv == BTreeInit => TreeInv
<1> SUFFICES ASSUME BTreeInit PROVE TreeInv
  OBVIOUS
<1>1. /\ dimension = 3 /\ key = <<>> /\ vch = <<>> /\ streamBroken = FALSE
      /\ root = Null /\ overlap_index = -1 /\ status = "success" /\ pc = "closed" /\ reply = <<>>
      /\ load \in Loads
  BY Zenon DEF BTreeInit
<1>2. MaxInserts \in Nat
  <2>1. load \in Seq(Keys) /\ Extra \in Nat
    BY <1>1, BTreeAssumption
  <2> QED
    BY <2>1 DEF MaxInserts
<1>3. StreamsFit(key, vch, streamBroken, MaxInserts)
  <2>1. <<>> \in Seq(Keys) /\ <<>> \in Seq(Keys \X Nat) /\ Len(<<>>) = 0
    OBVIOUS
  <2>2. 0 <= MaxInserts /\ 0 \in {0, 0 + 1}
    BY <1>2
  <2> QED
    BY ONLY <1>1, <2>1, <2>2, Zenon DEF StreamsFit
<1>4. AnswerFits(key, vch, overlap_index, status, pc, reply)
  <2>1. -1 \in -1 .. Len(<<>>) - 1
    OBVIOUS
  <2>2. reply \in {<<>>} \cup {<<vch[i]>> : i \in DOMAIN vch}
    BY <1>1, Zenon
  <2> QED
    BY ONLY <1>1, <2>1, <2>2, Zenon DEF AnswerFits
<1>5. RootOK(key, dimension, root)
  BY ONLY <1>1, Zenon DEF RootOK
<1>6. dimension \in Nat /\ dimension >= 3
  BY <1>1
<1> QED
  BY ONLY <1>1, <1>3, <1>4, <1>5, <1>6, Zenon DEF TreeInv
\* The streams are empty: the tree is opened or closed.
LEMMA InvEmpty ==
  ASSUME TreeInv, UNCHANGED load, dimension' \in Nat, dimension' >= 3,
         key' = <<>>, vch' = <<>>, streamBroken' = FALSE, root' = Null, overlap_index' = -1,
         status' = "success", pc' \in {"closed", "open"}, reply' = <<>>
  PROVE  TreeInv'
<1>1. MaxInserts' = MaxInserts /\ MaxInserts \in Nat /\ load' \in Loads
  <2>1. MaxInserts' = MaxInserts
    BY DEF MaxInserts
  <2>2. load \in Loads
    BY Zenon DEF TreeInv
  <2> QED
    BY <2>1, <2>2, InvHas
<1>2. StreamsFit(key', vch', streamBroken', MaxInserts')
  <2>1. <<>> \in Seq(Keys) /\ <<>> \in Seq(Keys \X Nat) /\ Len(<<>>) = 0
    OBVIOUS
  <2>2. 0 <= MaxInserts /\ 0 \in {0, 0 + 1}
    BY <1>1
  <2> QED
    BY ONLY <1>1, <2>1, <2>2, key' = <<>>, vch' = <<>>, streamBroken' = FALSE, Zenon DEF StreamsFit
<1>3. AnswerFits(key', vch', overlap_index', status', pc', reply')
  <2>1. -1 \in -1 .. Len(<<>>) - 1
    OBVIOUS
  <2>2. reply' \in {<<>>} \cup {<<(vch')[i]>> : i \in DOMAIN vch'}
    BY Zenon
  <2>3. overlap_index' \in -1 .. Len(key') - 1
    BY ONLY <2>1, overlap_index' = -1, key' = <<>>, Zenon
  <2> QED
    BY <2>2, <2>3, Zenon DEF AnswerFits
<1>4. RootOK(key', dimension', root')
  BY Zenon DEF RootOK
<1> QED
  BY <1>1, <1>2, <1>3, <1>4, Zenon DEF TreeInv

\* An open keeps the invariant.
LEMMA OpenInv == ASSUME TreeInv, NEW d \in Dimensions, Open(d) PROVE TreeInv'
<1>1. /\ UNCHANGED load /\ dimension' = d /\ key' = <<>> /\ vch' = <<>> /\ streamBroken' = FALSE
      /\ root' = Null /\ overlap_index' = -1 /\ status' = "success" /\ pc' = "open" /\ reply' = <<>>
  BY Zenon DEF Open
<1>2. d \in Nat /\ d >= 3
  BY BTreeAssumption
<1> QED
  BY <1>1, <1>2, InvEmpty, Zenon

\* A close keeps the invariant.
LEMMA CloseInv == ASSUME TreeInv, Close PROVE TreeInv'
<1>1. /\ UNCHANGED load /\ dimension' = dimension /\ key' = <<>> /\ vch' = <<>> /\ streamBroken' = FALSE
      /\ root' = Null /\ overlap_index' = -1 /\ status' = "success" /\ pc' = "closed" /\ reply' = <<>>
  BY Zenon DEF Close
<1>2. dimension \in Nat /\ dimension >= 3
  BY InvHas, Zenon
<1> QED
  BY <1>1, <1>2, InvEmpty, Zenon

\* A call that does nothing keeps the invariant.
LEMMA ReturnInv ==
  ASSUME TreeInv, NEW st \in {"success", "no_data", "no_accept", "memory"}, Return(st)
  PROVE  TreeInv'
<1>1. /\ UNCHANGED <<dimension, streams, root, overlap_index, load>> /\ reply' = <<>>
      /\ status' = st /\ pc' = pc
  BY DEF Return
<1>2. pc \in {"closed", "open", "wild"}
  BY Zenon DEF TreeInv, AnswerFits
<1> QED
  BY <1>1, <1>2, InvStays, Zenon

\* A process that dies keeps the invariant.
LEMMA GoWildInv == ASSUME TreeInv, GoWild PROVE TreeInv'
<1>1. /\ UNCHANGED <<dimension, streams, root, overlap_index, load>> /\ reply' = <<>>
      /\ status' = status /\ pc' = "wild"
  BY DEF GoWild
<1>2. status \in {"success", "no_data", "no_accept", "memory"}
  BY Zenon DEF TreeInv, AnswerFits
<1> QED
  BY <1>1, <1>2, InvStays, Zenon

\* The stream of keys has grown, and root is kept or made anew.
LEMMA InvGrown ==
  ASSUME TreeInv, NEW k \in Keys, Len(key) < MaxInserts, AllocLeaf(k),
         UNCHANGED <<dimension, overlap_index, pc, load>>, reply' = <<>>,
         status' \in {"success", "no_data", "no_accept", "memory"}, RootOK(key', dimension, root')
  PROVE  TreeInv'
<1>1. /\ key' = Append(key, k) /\ Len(key') = Len(key) + 1
      /\ StreamsFit(key', vch', streamBroken', MaxInserts)
  BY AllocHas, Zenon
<1>2. Len(key) \in Nat
  BY InvHas, Zenon
<1>3. overlap_index' = overlap_index /\ pc' = pc /\ dimension' = dimension /\ load' = load
  OBVIOUS
<1>4. AnswerFits(key', vch', overlap_index', status', pc', reply')
  <2> DEFINE n == Len(key) + 1
  <2>1. n \in Nat /\ n >= Len(key)
    BY <1>2
  <2>2. Len(key') = n
    BY ONLY <1>1, Zenon DEF n
  <2> HIDE DEF n
  <2>3. pc \in {"closed", "open", "wild"}
    BY Zenon DEF TreeInv, AnswerFits
  <2>4. AnswerFits(key', vch', overlap_index, status', pc, <<>>)
    BY ONLY TreeInv, <2>1, <2>2, <2>3, status' \in {"success", "no_data", "no_accept", "memory"}, NoReply, Zenon
  <2> QED
    BY ONLY <1>3, <2>4, reply' = <<>>, Zenon
<1> QED
  BY ONLY TreeInv, <1>1, <1>3, <1>4, RootOK(key', dimension, root'), InvFrom, Zenon

\* The first insert keeps the invariant.
LEMMA InsertRootInv == ASSUME TreeInv, NEW k \in Keys, InsertRoot(k) PROVE TreeInv'
<1>1. /\ Len(key) < MaxInserts /\ AllocLeaf(k) /\ root' = NewLeaf /\ status' = "success" /\ reply' = <<>>
      /\ UNCHANGED <<dimension, overlap_index, pc, load>>
  BY Zenon DEF InsertRoot, MayInsert
<1>2. NewLeaf = Leaf(Len(key)) /\ key' \in Seq(Nat) /\ Len(key') = Len(key) + 1
  BY <1>1, AllocHas, Zenon
<1>3. Len(key) \in Nat
  BY InvHas, Zenon
<1>4. RootFits(key', dimension, root')
  <2>1. Len(key) \in 0 .. (Len(key) + 1) - 1 /\ 0 < Len(key) + 1 /\ 0 \in 0 .. MaxItems
    BY <1>3, BTreeAssumption
  <2>2. Len(key) \in 0 .. Len(key') - 1 /\ 0 < Len(key')
    BY ONLY <1>2, <2>1, Zenon
  <2>3. RootAt(key', dimension, 0, Leaf(Len(key)))
    BY ONLY <1>2, <2>2, LeafIsRoot, Zenon
  <2> QED
    BY ONLY <1>1, <1>2, <2>1, <2>2, <2>3, Zenon DEF RootFits
<1>5. RootOK(key', dimension, root')
  BY <1>4, Zenon DEF RootOK
<1> QED
  BY <1>1, <1>5, InvGrown, Zenon

\* An insert of a new key keeps the invariant, with or without memory for its nodes.
LEMMA InsertNewInv == ASSUME TreeInv, NEW k \in Keys, NEW nodes \in Nat, InsertNew(k, nodes) PROVE TreeInv'
<1>1. /\ Len(key) < MaxInserts /\ AllocLeaf(k) /\ reply' = <<>>
      /\ UNCHANGED <<dimension, overlap_index, pc, load>>
  BY Zenon DEF InsertNew, MayInsert
<1>2. InsertEffect(k)
  BY InsertNewHas, Zenon
<1>3. RootOK(key', dimension, root') /\ status' \in {"success", "no_data", "no_accept", "memory"}
  BY <1>2, Zenon DEF InsertEffect, RootOK
<1> QED
  BY <1>1, <1>3, InvGrown, Zenon

\* An insert of a key that is there keeps the invariant: the place it meets is in the stream.
LEMMA InsertOverlapInv == ASSUME TreeInv, NEW k \in Keys, InsertOverlap(k) PROVE TreeInv'
<1>1. /\ HasRoot /\ overlap_index' = LocatedLeaf(root, k).vch_index /\ status' = "no_accept" /\ reply' = <<>>
      /\ UNCHANGED <<dimension, streams, root, pc, load>>
  BY Zenon DEF InsertOverlap
<1>2. /\ key' = key /\ vch' = vch /\ streamBroken' = streamBroken /\ root' = root /\ pc' = pc
      /\ dimension' = dimension /\ load' = load
  BY <1>1 DEF streams
<1>3. StreamsFit(key', vch', streamBroken', MaxInserts) /\ RootOK(key', dimension, root')
  BY <1>2, Zenon DEF TreeInv
<1>4. k \in Nat /\ Len(key) \in Nat /\ key \in Seq(Nat) /\ dimension \in Nat /\ dimension >= 3
  BY InvHas, BTreeAssumption
<1>5. overlap_index' \in 0 .. Len(key) - 1
  <2>1. LocatedLeaf(root, k).vch_index \in Places(root)
    BY <1>1, <1>4, Searched, Zenon DEF Finds
  <2>2. Keyed(key, Places(root))
    BY <1>1, <1>4, HasRootFits, RootIs, Zenon
  <2>3. Places(root) \subseteq 0 .. Len(key) - 1
    BY <2>2, Zenon DEF Keyed
  <2> QED
    BY ONLY <1>1, <2>1, <2>3
<1>6. overlap_index' \in -1 .. Len(key') - 1
  <2>1. overlap_index' \in -1 .. Len(key) - 1
    BY ONLY <1>4, <1>5
  <2> QED
    BY ONLY <1>2, <2>1, Zenon
<1>7. AnswerFits(key', vch', overlap_index', status', pc', reply')
  <2>1. pc \in {"closed", "open", "wild"}
    BY Zenon DEF TreeInv, AnswerFits
  <2>2. reply' \in {<<>>} \cup {<<(vch')[i]>> : i \in DOMAIN vch'}
    BY <1>1, Zenon
  <2> QED
    BY <1>1, <1>2, <1>6, <2>1, <2>2, Zenon DEF AnswerFits
<1> QED
  BY <1>2, <1>3, <1>7, InvFrom
\* The data of a leaf that a search comes to are those of its place.
LEMMA FoundPlace ==
  ASSUME TreeInv, HasRoot, NEW k \in Nat, NEW l \in Search(k)
  PROVE  /\ l.vch_index \in Places(root) /\ KeyAt(key, l.vch_index) = k /\ Holds(root, k)
         /\ l.vch_index \in 0 .. Len(key) - 1 /\ l.vch_index + 1 \in DOMAIN vch
<1>1. Finds(root, k) /\ Search(k) = Found(root, k)
  BY Searched, Zenon
<1>2. Keyed(key, Places(root))
  BY HasRootFits, RootIs, InvHas, Zenon
<1>3. Holds(root, k)
  <2>1. CASE ~Holds(root, k)
    <3>1. Search(k) = {}
      BY ONLY <1>1, <2>1, Zenon DEF Finds
    <3> QED
      BY <3>1
  <2> QED
    BY <2>1
<1>4. PICK i \in Places(root) : KeyAt(key, i) = k
  BY <1>3, Zenon DEF Holds
<1>5. Search(k) = {Leaf(i)}
  BY ONLY <1>1, <1>4, Zenon DEF Finds
<1>6. i \in 0 .. Len(key) - 1 /\ i \in Nat
  <2>1. Places(root) \subseteq 0 .. Len(key) - 1
    BY <1>2, Zenon DEF Keyed
  <2>2. Len(key) \in Nat
    BY InvHas, Zenon
  <2> QED
    BY ONLY <1>4, <2>1, <2>2
<1>7. l = Leaf(i) /\ Leaf(i).vch_index = i
  <2>1. l = Leaf(i)
    BY <1>5
  <2>2. Leaf(i).vch_index = i
    BY <1>6, LeafIs, Zenon
  <2> QED
    BY <2>1, <2>2
<1>8. i + 1 \in DOMAIN vch
  <2>1. Len(key) <= Len(vch) /\ Len(key) \in Nat /\ vch \in Seq(Keys \X Nat)
    BY InvHas, Zenon
  <2>2. DOMAIN vch = 1 .. Len(vch) /\ Len(vch) \in Nat
    BY <2>1
  <2>3. i + 1 \in 1 .. Len(vch)
    BY ONLY <1>6, <2>1, <2>2
  <2> QED
    BY ONLY <2>2, <2>3, Zenon
<1> QED
  BY ONLY <1>3, <1>4, <1>6, <1>7, <1>8, Zenon

\* A getdata keeps the invariant: its reply is an item of the stream.
LEMMA GetdataInv == ASSUME TreeInv, NEW k \in Keys, Getdata(k) PROVE TreeInv'
<1>1. CASE Return("no_data")
  BY <1>1, ReturnInv, Zenon
<1>2. CASE /\ HasRoot
           /\ \E l \in Search(k) : reply' = <<Rgetdata(vch, l.vch_index)>>
           /\ status' = "success"
           /\ UNCHANGED <<dimension, streams, root, overlap_index, pc, load>>
  <2>1. PICK l \in Search(k) : reply' = <<Rgetdata(vch, l.vch_index)>>
    BY <1>2
  <2>2. k \in Nat
    BY BTreeAssumption
  <2>3. l.vch_index + 1 \in DOMAIN vch
    BY <1>2, <2>1, <2>2, FoundPlace, Zenon
  <2>4. /\ key' = key /\ vch' = vch /\ streamBroken' = streamBroken /\ root' = root /\ pc' = pc
        /\ dimension' = dimension /\ load' = load /\ overlap_index' = overlap_index
    BY <1>2 DEF streams
  <2>5. StreamsFit(key', vch', streamBroken', MaxInserts) /\ RootOK(key', dimension, root')
    BY <2>4, Zenon DEF TreeInv
  <2>6. reply' \in {<<>>} \cup {<<(vch')[i]>> : i \in DOMAIN vch'}
    <3>1. reply' = <<vch[l.vch_index + 1]>>
      BY <2>1, Zenon DEF Rgetdata
    <3> DEFINE j == l.vch_index + 1
    <3>2. reply' = <<vch[j]>> /\ j \in DOMAIN vch
      BY <2>3, <3>1
    <3> HIDE DEF j
    <3>3. reply' \in {<<vch[i]>> : i \in DOMAIN vch}
      BY ONLY <3>2
    <3> QED
      BY ONLY <2>4, <3>3
  <2>7. AnswerFits(key', vch', overlap_index', status', pc', reply')
    <3>1. overlap_index \in -1 .. Len(key) - 1 /\ pc \in {"closed", "open", "wild"}
      BY Zenon DEF TreeInv, AnswerFits
    <3>2. status' \in {"success", "no_data", "no_accept", "memory"}
      BY <1>2
    <3> QED
      BY ONLY <2>4, <2>6, <3>1, <3>2, Zenon DEF AnswerFits
  <2> QED
    BY <2>4, <2>5, <2>7, InvFrom
<1> QED
  BY <1>1, <1>2, Zenon DEF Getdata

\* A remove keeps the invariant.
LEMMA RemoveInv == ASSUME TreeInv, NEW k \in Keys, Remove(k) PROVE TreeInv'
<1>1. CASE Return("no_data")
  BY <1>1, ReturnInv, Zenon
<1>2. CASE /\ HasRoot
           /\ root' = Shrink(Remove1(root, k))
           /\ status' = (IF Remove1(root, k).retv THEN "success" ELSE "no_data")
           /\ reply' = <<>>
           /\ UNCHANGED <<dimension, streams, overlap_index, pc, load>>
  <2>1. k \in Nat
    BY BTreeAssumption
  <2>2. root' = Null \/ RootFits(key, dimension, root')
    BY <1>2, <2>1, RemoveHas, Zenon
  <2>3. /\ key' = key /\ vch' = vch /\ streamBroken' = streamBroken /\ pc' = pc
        /\ dimension' = dimension /\ load' = load /\ overlap_index' = overlap_index
    BY <1>2 DEF streams
  <2>4. RootOK(key', dimension, root')
    BY <2>2, <2>3, Zenon DEF RootOK
  <2>5. StreamsFit(key', vch', streamBroken', MaxInserts)
    BY <2>3, Zenon DEF TreeInv
  <2>6. AnswerFits(key', vch', overlap_index', status', pc', reply')
    <3>1. overlap_index \in -1 .. Len(key) - 1 /\ pc \in {"closed", "open", "wild"}
      BY Zenon DEF TreeInv, AnswerFits
    <3>2. status' \in {"success", "no_data", "no_accept", "memory"}
      BY <1>2
    <3>3. reply' \in {<<>>} \cup {<<(vch')[i]>> : i \in DOMAIN vch'}
      BY <1>2, Zenon
    <3> QED
      BY ONLY <2>3, <3>1, <3>2, <3>3, Zenon DEF AnswerFits
  <2> QED
    BY <2>3, <2>4, <2>5, <2>6, InvFrom
<1> QED
  BY <1>1, <1>2, Zenon DEF Remove

\* An item of the data is stored, at most, and nothing else after it.
LEMMA StreamBreaks ==
  ASSUME TreeInv, NEW k \in Keys, key' = key, streamBroken' = TRUE, ~streamBroken,
         vch' \in {vch, Lshift(vch, Datum(k))}
  PROVE  StreamsFit(key', vch', streamBroken', MaxInserts)
<1>1. /\ key \in Seq(Keys) /\ Len(key) <= MaxInserts
      /\ vch \in Seq(Keys \X Nat) /\ Len(vch) = Len(key) /\ Len(key) \in Nat
  BY InvHas, Zenon DEF TreeInv, StreamsFit
<1>2. CASE vch' = vch
  <2>1. Len(vch') \in {Len(key'), Len(key') + 1}
    BY <1>1, <1>2, Zenon
  <2> QED
    BY <1>1, <1>2, <2>1, Zenon DEF StreamsFit
<1>3. CASE vch' = Append(vch, Datum(k))
  <2>1. Datum(k) \in Keys \X Nat
    BY <1>1 DEF Datum
  <2>2. IsLonger(Keys \X Nat, vch, vch')
    BY <1>1, <1>3, <2>1, ItemAdded, Zenon
  <2>3. Len(vch') \in {Len(key'), Len(key') + 1} /\ vch' \in Seq(Keys \X Nat)
    BY <1>1, <2>2, Zenon DEF IsLonger
  <2> QED
    BY <1>1, <2>3, Zenon DEF StreamsFit
<1> QED
  BY <1>2, <1>3 DEF Lshift

\* An insert without memory for its leaf keeps the invariant.
LEMMA InsertNoLeafInv == ASSUME TreeInv, NEW k \in Keys, InsertNoLeaf(k) PROVE TreeInv'
<1>1. /\ root' = Invalid \/ root' = root
      /\ \/ UNCHANGED streams
         \/ /\ ~streamBroken /\ streamBroken' = TRUE
            /\ vch' \in {vch, Lshift(vch, Datum(k))} /\ UNCHANGED key
      /\ status' = "memory" /\ reply' = <<>>
      /\ UNCHANGED <<dimension, overlap_index, pc, load>>
  BY DEF InsertNoLeaf
<1>2. key' = key
  BY <1>1 DEF streams
<1>3. StreamsFit(key', vch', streamBroken', MaxInserts)
  <2>1. CASE UNCHANGED streams
    <3>1. key' = key /\ vch' = vch /\ streamBroken' = streamBroken
      BY <2>1 DEF streams
    <3> QED
      BY <3>1, Zenon DEF TreeInv
  <2>2. CASE /\ ~streamBroken /\ streamBroken' = TRUE
             /\ vch' \in {vch, Lshift(vch, Datum(k))} /\ UNCHANGED key
    BY <1>2, <2>2, StreamBreaks, Zenon
  <2> QED
    BY <1>1, <2>1, <2>2, Zenon
<1>4. RootOK(key', dimension, root')
  <2>1. RootOK(key, dimension, root)
    BY Zenon DEF TreeInv
  <2> QED
    BY ONLY <1>1, <1>2, <2>1, Zenon DEF RootOK
<1>5. AnswerFits(key', vch', overlap_index', status', pc', reply')
  <2>1. overlap_index \in -1 .. Len(key) - 1 /\ pc \in {"closed", "open", "wild"}
    BY Zenon DEF TreeInv, AnswerFits
  <2>2. status' \in {"success", "no_data", "no_accept", "memory"}
    BY <1>1
  <2>3. reply' \in {<<>>} \cup {<<(vch')[i]>> : i \in DOMAIN vch'}
    BY <1>1, Zenon
  <2>4. overlap_index' = overlap_index /\ pc' = pc
    BY <1>1
  <2> QED
    BY ONLY <1>2, <2>1, <2>2, <2>3, <2>4, Zenon DEF AnswerFits
<1>6. UNCHANGED <<dimension, load>>
  BY <1>1
<1> QED
  BY <1>3, <1>4, <1>5, <1>6, InvFrom, Zenon

\* An insert without memory for a handle keeps the invariant.
LEMMA InsertNoHandleInv == ASSUME TreeInv, NEW k \in Keys, InsertNoHandle(k) PROVE TreeInv'
<1>1. /\ Len(key) < MaxInserts /\ HasRoot
      /\ UNCHANGED streams \/ AllocLeaf(k)
      /\ status' = "memory" /\ reply' = <<>>
      /\ UNCHANGED <<dimension, root, overlap_index, pc, load>>
  BY DEF InsertNoHandle, MayInsert
<1>2. status' \in {"success", "no_data", "no_accept", "memory"}
  BY <1>1
<1>3. CASE UNCHANGED streams
  <2>1. UNCHANGED <<dimension, streams, root, overlap_index, load>> /\ pc' \in {"closed", "open", "wild"}
    <3>1. pc \in {"closed", "open", "wild"}
      BY Zenon DEF TreeInv, AnswerFits
    <3> QED
      BY <1>1, <1>3, <3>1
  <2> QED
    BY <1>1, <1>2, <2>1, InvStays, Zenon
<1>4. CASE AllocLeaf(k)
  <2>1. PICK h \in 0 .. MaxItems : h < Len(key) /\ RootAt(key, dimension, h, root)
    BY <1>1, HasRootFits, Zenon DEF RootFits
  <2>2. /\ key' \in Seq(Nat) /\ Len(key') = Len(key) + 1 /\ \A i \in 1 .. Len(key) : key'[i] = key[i]
    BY <1>1, <1>4, AllocHas, Zenon
  <2>3. key \in Seq(Nat) /\ Len(key) \in Nat
    BY InvHas, Zenon
  <2>4. Len(key) <= Len(key) + 1 /\ h < Len(key) + 1
    BY <2>1, <2>3
  <2>5. Len(key) <= Len(key') /\ h < Len(key')
    BY ONLY <2>2, <2>4, Zenon
  <2>6. RootAt(key', dimension, h, root)
    BY ONLY <2>1, <2>2, <2>3, <2>5, RootStays, Zenon
  <2>7. RootOK(key', dimension, root')
    BY <1>1, <2>1, <2>5, <2>6, Zenon DEF RootOK, RootFits
  <2>8. UNCHANGED <<dimension, overlap_index, pc, load>>
    BY <1>1
  <2> QED
    BY ONLY TreeInv, k \in Keys, <1>1, <1>2, <1>4, <2>7, <2>8, InvGrown, Zenon
<1> QED
  BY <1>1, <1>3, <1>4

\* Every step keeps the invariant.
LEMMA InvStep == TreeInv /\ [BTreeNext]_vars => TreeInv'
<1> SUFFICES ASSUME TreeInv, [BTreeNext]_vars PROVE TreeInv'
  OBVIOUS
<1>0. Enough \in Nat
  BY InvHas DEF Enough
<1>1. ASSUME NEW d \in Dimensions, Open(d) PROVE TreeInv'
  BY <1>1, OpenInv, Zenon
<1>2. ASSUME NEW k \in Keys, InsertRoot(k) PROVE TreeInv'
  BY <1>2, InsertRootInv, Zenon
<1>3. ASSUME NEW k \in Keys, InsertOverlap(k) PROVE TreeInv'
  BY <1>3, InsertOverlapInv, Zenon
<1>4. ASSUME NEW k \in Keys, InsertNew(k, Enough) PROVE TreeInv'
  BY <1>0, <1>4, InsertNewInv, Zenon
<1>5. ASSUME NEW k \in Keys, Getdata(k) PROVE TreeInv'
  BY <1>5, GetdataInv, Zenon
<1>6. ASSUME NEW k \in Keys, Remove(k) PROVE TreeInv'
  BY <1>6, RemoveInv, Zenon
<1>7. ASSUME Close PROVE TreeInv'
  BY <1>7, CloseInv, Zenon
<1>8. ASSUME NEW k \in Keys, InsertNoLeaf(k) PROVE TreeInv'
  BY <1>8, InsertNoLeafInv, Zenon
<1>9. ASSUME NEW k \in Keys, InsertNoHandle(k) PROVE TreeInv'
  BY <1>9, InsertNoHandleInv, Zenon
<1>10. ASSUME NEW k \in Keys, InsertNoNode(k) PROVE TreeInv'
  <2>1. PICK nodes \in 0 .. 2 : InsertNew(k, nodes)
    BY <1>10, Zenon DEF InsertNoNode
  <2>2. nodes \in Nat
    OBVIOUS
  <2> QED
    BY <2>1, <2>2, InsertNewInv, Zenon
<1>11. ASSUME NEW k \in Keys, GetdataNoHandle(k) PROVE TreeInv'
  <2>1. Return("memory")
    BY <1>11, Zenon DEF GetdataNoHandle
  <2> QED
    BY <2>1, ReturnInv, Zenon
<1>12. ASSUME RemoveNoHandle PROVE TreeInv'
  <2>1. Return("no_data")
    BY <1>12, Zenon DEF RemoveNoHandle
  <2> QED
    BY <2>1, ReturnInv, Zenon
<1>13. ASSUME FollowNone PROVE TreeInv'
  <2>1. GoWild
    BY <1>13, Zenon DEF FollowNone
  <2> QED
    BY <2>1, GoWildInv, Zenon
<1>14. ASSUME UNCHANGED vars PROVE TreeInv'
  <2>1. /\ dimension' = dimension /\ key' = key /\ vch' = vch /\ streamBroken' = streamBroken
        /\ root' = root /\ overlap_index' = overlap_index /\ status' = status /\ pc' = pc
        /\ reply' = reply /\ load' = load
    BY <1>14 DEF vars, streams
  <2>2. MaxInserts' = MaxInserts
    BY <2>1, Zenon DEF MaxInserts
  <2> QED
    BY ONLY TreeInv, <2>1, <2>2, Zenon DEF TreeInv
<1> QED
  BY ONLY [BTreeNext]_vars, <1>1, <1>2, <1>3, <1>4, <1>5, <1>6, <1>7, <1>8, <1>9, <1>10, <1>11, <1>12, <1>13,
     <1>14, Zenon
     DEF BTreeNext, Call, FailingCall

\* fs_btree.h: whatever calls are made and whichever of them have no memory, the root is
\* a tree of one height whose nodes are half full and hold their shares of the keys.
THEOREM TreeInvHolds == BTreeSpec => []TreeInv
BY InitInv, InvStep, PTL DEF BTreeSpec
-----------------------------------------------------------------------------
(* What the invariant implies.                                             *)

\* A node of a tree: its entries are in order, and n to d.
NodeSound(ks, d, u, n) ==
  \E g \in 1 .. MaxItems : \E Q \in SUBSET Nat :
    /\ u \in NodesOver(Even[g - 1]) /\ Sound(ks, Fits(ks, d)[g - 1], u.entries, Q)
    /\ Len(u.entries) \in n .. d

\* All nodes of the fitting trees of height h are sound.
NodesIn(ks, d, h) ==
  \A t, Q : <<t, Q>> \in Fits(ks, d)[h] => \A u \in Nodes(t) : NodeSound(ks, d, u, halfdim(d))

\* The nodes of a node, when those of its children are sound.
LEMMA NodesBelow ==
  ASSUME NEW ks \in Seq(Nat), NEW d \in Nat, d >= 3, NEW h \in 1 .. MaxItems, NodesIn(ks, d, h - 1),
         NEW t \in NodesOver(Even[h - 1]), NEW Q, Sound(ks, Fits(ks, d)[h - 1], t.entries, Q),
         NEW u \in Nodes(t)
  PROVE  u = t \/ NodeSound(ks, d, u, halfdim(d))
<1>1. t \in Tree /\ t \in NodesOver(Tree)
  BY NodeOfTree, Zenon
<1>2. u = t \/ \E j \in 1 .. Len(t.entries) : u \in Nodes(t.entries[j].ptr)
  BY <1>1, NodesOfTree, Zenon
<1>3. ASSUME NEW j \in 1 .. Len(t.entries), u \in Nodes(t.entries[j].ptr)
      PROVE  NodeSound(ks, d, u, halfdim(d))
  <2>1. <<t.entries[j].ptr, Share(ks, t.entries, j, Q)>> \in Fits(ks, d)[h - 1]
    BY Zenon DEF Sound
  <2> QED
    BY ONLY <1>3, <2>1, NodesIn(ks, d, h - 1), Zenon DEF NodesIn
<1> QED
  BY <1>2, <1>3

\* All nodes of any tree that fits are sound: by induction on the height.
LEMMA NodesKeep ==
  ASSUME NEW ks \in Seq(Nat), NEW d \in Nat, d >= 3, NEW h \in 0 .. MaxItems
  PROVE  NodesIn(ks, d, h)
<1> DEFINE T == {n \in 0 .. MaxItems : ~NodesIn(ks, d, n)}
<1>1. MaxItems \in Nat /\ T \in SUBSET Nat
  BY BTreeAssumption
<1>2. ASSUME T # {} PROVE FALSE
  <2>1. PICK n \in T : \A j \in T : n <= j
    BY ONLY <1>1, <1>2, LeastOf
  <2>2. n \in 0 .. MaxItems /\ ~NodesIn(ks, d, n)
    BY <2>1
  <2>3. CASE n = 0
    <3>1. ASSUME NEW t, NEW Q, <<t, Q>> \in Fits(ks, d)[0] PROVE Nodes(t) = {}
      <4>1. t \in Leaves
        BY <3>1, FitLeaf, Zenon
      <4> QED
        BY <4>1, NodesOfTree, Zenon
    <3> QED
      BY ONLY <2>2, <2>3, <3>1 DEF NodesIn
  <2>4. CASE n # 0
    <3>1. n \in 1 .. MaxItems /\ n - 1 \in 0 .. MaxItems /\ ~(n <= n - 1)
      BY <1>1, <2>2, <2>4
    <3>2. n - 1 \notin T
      BY ONLY <2>1, <3>1, Zenon
    <3>3. NodesIn(ks, d, n - 1)
      BY ONLY <3>1, <3>2
    <3>4. ASSUME NEW t, NEW Q, <<t, Q>> \in Fits(ks, d)[n], NEW u \in Nodes(t)
          PROVE  NodeSound(ks, d, u, halfdim(d))
      <4>1. /\ t \in NodesOver(Even[n - 1]) /\ Q \in SUBSET Nat
            /\ Sound(ks, Fits(ks, d)[n - 1], t.entries, Q) /\ Len(t.entries) \in halfdim(d) .. d
        BY ONLY <3>1, <3>4, FitNode, Zenon
      <4>2. u = t \/ NodeSound(ks, d, u, halfdim(d))
        BY ONLY <3>1, <3>3, <4>1, u \in Nodes(t), NodesBelow, ks \in Seq(Nat), d \in Nat, d >= 3, Zenon
      <4>3. NodeSound(ks, d, t, halfdim(d))
        BY ONLY <3>1, <4>1, Zenon DEF NodeSound
      <4> QED
        BY ONLY <4>2, <4>3, Zenon
    <3> QED
      BY ONLY <2>2, <3>4, Zenon DEF NodesIn
  <2> QED
    BY <2>3, <2>4
<1> QED
  BY <1>2

\* All nodes of the root are sound, and only the root may have few entries.
LEMMA RootNodes ==
  ASSUME NEW ks \in Seq(Nat), NEW d \in Nat, d >= 3, NEW t, RootOK(ks, d, t), NEW u \in Nodes(t)
  PROVE  NodeSound(ks, d, u, IF u = t THEN 2 ELSE halfdim(d))
<1>1. t \notin {Null, Invalid}
  <2>1. u \in Nodes(t) /\ Nodes(Null) = {} /\ Nodes(Invalid) = {}
    BY PlacesOfNone, Zenon
  <2> QED
    BY <2>1
<1>2. PICK h \in 0 .. MaxItems : RootAt(ks, d, h, t)
  BY <1>1, Zenon DEF RootOK, RootFits
<1>3. h # 0
  <2>1. CASE h = 0
    <3>1. <<t, Nat>> \in Fits(ks, d)[0]
      BY <1>2, <2>1, Zenon DEF RootAt
    <3>2. t \in Leaves
      BY <3>1, FitLeaf, Zenon
    <3>3. Nodes(t) = {}
      BY <3>2, NodesOfTree, Zenon
    <3> QED
      BY <3>3
  <2> QED
    BY <2>1
<1>4. h \in 1 .. MaxItems /\ h - 1 \in 0 .. MaxItems
  BY <1>3, BTreeAssumption
<1>5. /\ t \in NodesOver(Even[h - 1]) /\ Nat \in SUBSET Nat
      /\ Sound(ks, Fits(ks, d)[h - 1], t.entries, Nat) /\ Len(t.entries) \in 2 .. d
  BY <1>2, <1>4, RootParts, Zenon
<1>6. NodesIn(ks, d, h - 1)
  BY <1>4, NodesKeep, Zenon
<1>7. u = t \/ NodeSound(ks, d, u, halfdim(d))
  BY ONLY <1>4, <1>5, <1>6, u \in Nodes(t), NodesBelow, ks \in Seq(Nat), d \in Nat, d >= 3, Zenon
<1>8. NodeSound(ks, d, t, 2)
  BY ONLY <1>4, <1>5, Zenon DEF NodeSound
<1> QED
  BY ONLY <1>7, <1>8, Zenon

\* What the invariants say of a node.
NodeOrdered(u) ==
  /\ \A i \in DOMAIN u.entries : u.entries[i].begin \in 0 .. Len(key) - 1
  /\ \A i \in 1 .. Len(u.entries) - 1 :
       \A a \in Places(u.entries[i].ptr), b \in Places(u.entries[i + 1].ptr) :
         fkeylt(KeyOf(a), KeyOf(b)) /\ KeyOf(a) # KeyOf(b)
  /\ \A k \in Keys :
       LocateIn(u, k) = Cardinality({i \in 2 .. Len(u.entries) : fkeylt(KeyOf(u.entries[i].begin), k)})

\* What a sound node has of the properties.
LEMMA NodeFacts ==
  ASSUME key \in Seq(Nat), dimension \in Nat, dimension >= 3, NEW u, NEW n \in Nat, NodeSound(key, dimension, u, n)
  PROVE  NodeOrdered(u) /\ Len(u.entries) \in Nat /\ Len(u.entries) >= n /\ Len(u.entries) <= dimension
<1> DEFINE e == u.entries
<1>1. PICK g \in 1 .. MaxItems, Q \in SUBSET Nat :
        /\ u \in NodesOver(Even[g - 1]) /\ Sound(key, Fits(key, dimension)[g - 1], e, Q)
        /\ Len(e) \in n .. dimension
  BY Zenon DEF NodeSound
<1> DEFINE S == Even[g - 1]
           R == Fits(key, dimension)[g - 1]
<1>2. g - 1 \in 0 .. MaxItems
  BY BTreeAssumption
<1>3. Regular(key, S, R) /\ S \subseteq Tree
  BY <1>2, FitsRegular, EvenTrees, Zenon
<1>4. e \in Seq([ptr : S, begin : Nat])
  BY <1>1, NodeIs, Zenon
<1>5. HoldsApart(key, e, Q)
  BY ONLY key \in Seq(Nat), <1>1, <1>3, <1>4, NodesRegular, Zenon
<1>6. \A k \in Keys :
        LocateIn(u, k) = Cardinality({i \in 2 .. Len(e) : fkeylt(KeyOf(e[i].begin), k)})
  <2> SUFFICES ASSUME NEW k \in Keys
               PROVE  LocateIn(u, k) = Cardinality({i \in 2 .. Len(e) : fkeylt(KeyOf(e[i].begin), k)})
    OBVIOUS
  <2>1. k \in Nat
    BY BTreeAssumption
  <2>2. IsLocated(S, R, u, Q, k)
    BY ONLY key \in Seq(Nat), <1>1, <2>1, LocateShare, Zenon
  <2> QED
    BY ONLY <2>2, Zenon DEF IsLocated
<1>7. \A i \in 1 .. Len(e) : KeyAt(key, e[i].begin) \in Nat
  BY ONLY key \in Seq(Nat), <1>1, <1>4, BeginKeys, Zenon
<1>8. \A i : KeyOf(i) = KeyAt(key, i)
  BY DEF KeyOf, KeyAt, Rgetdata
<1>9. Len(e) \in Nat /\ DOMAIN e = 1 .. Len(e) /\ Len(e) >= n /\ Len(e) <= dimension
  BY <1>1, <1>4
<1>10. \A i \in DOMAIN e : e[i].begin \in 0 .. Len(key) - 1
  <2>1. \A i \in 1 .. Len(e) : e[i].begin < Len(key)
    BY <1>1, Zenon DEF Sound
  <2>2. \A i \in 1 .. Len(e) : e[i].begin \in Nat
    BY <1>4, EntriesHave, Zenon
  <2>3. Len(key) \in Nat
    BY key \in Seq(Nat)
  <2> HIDE DEF e
  <2> QED
    BY ONLY <1>9, <2>1, <2>2, <2>3
<1>11. ASSUME NEW i \in 1 .. Len(e) - 1, NEW a \in Places(e[i].ptr), NEW b \in Places(e[i + 1].ptr)
       PROVE  fkeylt(KeyOf(a), KeyOf(b)) /\ KeyOf(a) # KeyOf(b)
  <2> DEFINE j == i + 1
             x == KeyAt(key, a)
             y == KeyAt(key, b)
             z == KeyAt(key, e[j].begin)
  <2>1. i \in 1 .. Len(e) /\ j \in 1 .. Len(e) /\ i < Len(e) /\ j > 1
    BY ONLY <1>9, <1>11
  <2>2. x \in Q /\ x \in Share(key, e, i, Q) /\ y \in Q /\ y \in Share(key, e, j, Q)
    BY ONLY <1>5, <1>11, <2>1, Zenon DEF HoldsApart, j
  <2>3. x > z /\ z >= y
    BY ONLY <2>1, <2>2 DEF Share
  <2>4. x \in Nat /\ y \in Nat /\ z \in Nat
    BY ONLY <1>7, <2>1, <2>2, Q \in SUBSET Nat
  <2> HIDE DEF x, y, z
  <2>5. x >= y /\ x # y
    BY ONLY <2>3, <2>4
  <2> QED
    BY ONLY <1>8, <2>5, Zenon DEF x, y, fkeylt
<1> QED
  BY ONLY <1>6, <1>9, <1>10, <1>11, Zenon DEF NodeOrdered
\* What the invariant says of each node.
LEMMA InvNodes ==
  ASSUME TreeInv, NEW u \in Nodes(root)
  PROVE  /\ NodeOrdered(u) /\ Len(u.entries) \in Nat /\ Len(u.entries) <= dimension
         /\ Len(u.entries) >= IF u = root THEN 2 ELSE halfdim(dimension)
<1>1. key \in Seq(Nat) /\ dimension \in Nat /\ dimension >= 3
  BY InvHas, Zenon
<1> DEFINE n == IF u = root THEN 2 ELSE halfdim(dimension)
<1>2. NodeSound(key, dimension, u, n)
  <2>1. RootOK(key, dimension, root)
    BY Zenon DEF TreeInv
  <2> QED
    BY <1>1, <2>1, RootNodes, Zenon
<1>3. n \in Nat
  <2>1. halfdim(dimension) \in Nat
    BY <1>1, HalfIsLess
  <2> QED
    BY <2>1
<1> HIDE DEF n
<1>4. NodeOrdered(u) /\ Len(u.entries) \in Nat /\ Len(u.entries) >= n /\ Len(u.entries) <= dimension
  BY ONLY <1>1, <1>2, <1>3, NodeFacts, Zenon
<1> QED
  BY ONLY <1>4, Zenon DEF n

\* What the invariant says of the places.
LEMMA InvPlaces ==
  ASSUME TreeInv
  PROVE  /\ root \in {Null, Invalid} \cup Tree
         /\ Places(root) \subseteq 0 .. Len(key) - 1
         /\ \A i, j \in Places(root) : KeyAt(key, i) = KeyAt(key, j) => i = j
         /\ \A i \in Places(root) : HasRoot
<1>1. CASE root \in {Null, Invalid}
  <2>1. Places(root) = {}
    BY <1>1, PlacesOfNone, Zenon
  <2> QED
    BY <1>1, <2>1
<1>2. CASE HasRoot
  <2>1. root \in Tree /\ Keyed(key, Places(root))
    BY <1>2, HasRootFits, RootIs, InvHas, Zenon
  <2>2. /\ Places(root) \subseteq 0 .. Len(key) - 1
        /\ \A i, j \in Places(root) : KeyAt(key, i) = KeyAt(key, j) => i = j
    BY <2>1, Zenon DEF Keyed
  <2> QED
    BY <1>2, <2>1, <2>2, Zenon
<1> QED
  BY <1>1, <1>2 DEF HasRoot

\* The invariant implies that the state is well typed.
LEMMA InvTypes == TreeInv => BTreeTypeOK
<1> SUFFICES ASSUME TreeInv PROVE BTreeTypeOK
  OBVIOUS
<1>1. /\ dimension \in Nat /\ StreamsFit(key, vch, streamBroken, MaxInserts)
      /\ AnswerFits(key, vch, overlap_index, status, pc, reply)
  BY Zenon DEF TreeInv
<1>2. root \in {Null, Invalid} \cup Tree /\ Places(root) \subseteq 0 .. Len(key) - 1
  BY InvPlaces, Zenon
<1>3. \A t \in Nodes(root) : \A i \in DOMAIN t.entries : t.entries[i].begin \in 0 .. Len(key) - 1
  BY InvNodes, Zenon DEF NodeOrdered
<1> QED
  BY ONLY <1>1, <1>2, <1>3, Zenon DEF BTreeTypeOK, StreamsFit, AnswerFits

\* The invariant implies that the tree is balanced.
LEMMA InvBalanced == TreeInv => Balanced
<1> SUFFICES ASSUME TreeInv PROVE Balanced
  OBVIOUS
<1>1. HasRoot => \E n \in 0 .. MaxItems : root \in Even[n]
  <2> SUFFICES ASSUME HasRoot PROVE \E n \in 0 .. MaxItems : root \in Even[n]
    OBVIOUS
  <2>1. PICK h \in 0 .. MaxItems : RootAt(key, dimension, h, root)
    BY HasRootFits, Zenon DEF RootFits
  <2>2. root \in Even[h]
    BY <2>1, InvHas, RootHas, Zenon
  <2> QED
    BY <2>2
<1>2. \A t \in Nodes(root) :
        /\ Len(t.entries) <= dimension
        /\ Len(t.entries) >= IF t = root THEN 2 ELSE halfdim(dimension)
  BY InvNodes, Zenon
<1> QED
  BY ONLY <1>1, <1>2, Zenon DEF Balanced

\* The invariant implies that the leaves are in order.
LEMMA InvInOrder == TreeInv => InOrder
<1> SUFFICES ASSUME TreeInv PROVE InOrder
  OBVIOUS
<1>1. \A t \in Nodes(root) : NodeOrdered(t)
  BY InvNodes, Zenon
<1> QED
  BY ONLY <1>1, Zenon DEF InOrder, NodeOrdered

\* The invariant implies that bisections are exact.
LEMMA InvLocatesLast == TreeInv => LocatesLast
<1> SUFFICES ASSUME TreeInv PROVE LocatesLast
  OBVIOUS
<1>1. \A t \in Nodes(root) : NodeOrdered(t)
  BY InvNodes, Zenon
<1> QED
  BY ONLY <1>1, Zenon DEF LocatesLast, NodeOrdered

\* The invariant implies that descents are exact.
LEMMA InvLocatedExactly == TreeInv => LocatedExactly
<1> SUFFICES ASSUME TreeInv, NEW i \in Places(root)
             PROVE  LocatedLeaf(root, KeyOf(i)).vch_index = i
  BY DEF LocatedExactly
<1> DEFINE k == KeyAt(key, i)
<1>1. HasRoot /\ i \in 0 .. Len(key) - 1
  BY InvPlaces
<1>2. k \in Nat
  <2>1. key \in Seq(Nat)
    BY InvHas, Zenon
  <2> QED
    BY <1>1, <2>1 DEF KeyAt
<1>3. Finds(root, k)
  BY <1>1, <1>2, Searched, Zenon
<1>4. LocatedLeaf(root, k).vch_index = i
  BY ONLY <1>3, i \in Places(root), Zenon DEF Finds, k
<1> QED
  BY ONLY <1>4, Zenon DEF k, KeyOf, KeyAt, Rgetdata

\* fs_btree.h: every leaf and every begin_ptr, the stale ones too, names a place that is in
\* the two streams, and the handle is well typed otherwise.
THEOREM BTreeTypesHold == BTreeSpec => []BTreeTypeOK
BY TreeInvHolds, InvTypes, PTL

\* fs_btree.h:310-329, 378-420, 464: splits, merges and the two ends of the root keep all
\* leaves equally deep and the nodes between half full and full, for every dimension.
THEOREM TreeStaysBalanced == BTreeSpec => []Balanced
BY TreeInvHolds, InvBalanced, PTL

\* fs_btree.h:256-329, 378-460: the leaves stay in the order of their keys, none of which
\* is there twice, whatever a failing insert loses.
THEOREM LeavesInOrder == BTreeSpec => []InOrder
BY TreeInvHolds, InvInOrder, PTL

\* fs_btree.h:157-185: the descent by getlocate comes to the very leaf of a key that is
\* there, although begin_ptr holds removed keys and a node's first place is stale.
THEOREM DescentsAreExact == BTreeSpec => []LocatedExactly
BY TreeInvHolds, InvLocatedExactly, PTL

\* fs_btree.h:164-183: in every node of every tree, and for every key, the bisection finds
\* the last entry that begins before it.
THEOREM BisectionsAreExact == BTreeSpec => []LocatesLast
BY TreeInvHolds, InvLocatesLast, PTL
-----------------------------------------------------------------------------
(* The streams are queues.                                                 *)

\* What a step does to the streams.
StreamGrows(k) ==
  /\ streamBroken = FALSE /\ streamBroken' = FALSE /\ Len(vch) = Len(key) /\ Len(vch') = Len(key')
  /\ key' = Append(key, k) /\ vch' = Append(vch, Datum(k)) /\ Datum(k) \in Keys \X (0 .. MaxItems)

\* A stream has no memory: an item of the data goes in, or none.
StreamFails(k) ==
  /\ Faults # {} /\ streamBroken = FALSE /\ streamBroken' = TRUE /\ key' = key /\ Len(vch) = Len(key)
  /\ vch' = vch \/ (vch' = Append(vch, Datum(k)) /\ Len(vch') # Len(key))
  /\ Datum(k) \in Keys \X (0 .. MaxItems)

\* The streams are emptied.
StreamsEmpty == key' = <<>> /\ vch' = <<>> /\ streamBroken' = FALSE

\* The data of an insert are data, of its key.
LEMMA DatumIs ==
  ASSUME TreeInv, NEW k \in Keys
  PROVE  Datum(k) \in Keys \X (0 .. MaxItems) /\ Datum(k)[1] = k
<1>1. Len(key) \in 0 .. MaxItems
  BY InvHas, BTreeAssumption
<1> QED
  BY <1>1 DEF Datum

\* A leaf that is allocated puts an item in both streams.
LEMMA AllocGrows ==
  ASSUME TreeInv, NEW k \in Keys, Len(key) < MaxInserts, AllocLeaf(k)
  PROVE  StreamGrows(k)
<1>1. /\ key' = Append(key, k) /\ vch' = Append(vch, Datum(k))
      /\ streamBroken' = FALSE /\ streamBroken = FALSE /\ Len(vch) = Len(key)
      /\ StreamsFit(key', vch', streamBroken', MaxInserts)
  BY AllocHas, Zenon
<1>2. Len(vch') = Len(key')
  BY ONLY <1>1, Zenon DEF StreamsFit
<1>3. Datum(k) \in Keys \X (0 .. MaxItems)
  BY DatumIs, Zenon
<1> QED
  BY ONLY <1>1, <1>2, <1>3, Zenon DEF StreamGrows

\* A leaf that is not for want of memory.
LEMMA BreakFails ==
  ASSUME TreeInv, NEW k \in Keys, "malloc" \in Faults, ~streamBroken, streamBroken' = TRUE, key' = key,
         vch' \in {vch, Lshift(vch, Datum(k))}
  PROVE  StreamFails(k)
<1>1. StreamsFit(key, vch, streamBroken, MaxInserts)
  BY Zenon DEF TreeInv
<1>2. streamBroken = FALSE /\ Len(vch) = Len(key)
  BY ONLY <1>1, ~streamBroken, Zenon DEF StreamsFit
<1>3. Datum(k) \in Keys \X (0 .. MaxItems)
  BY DatumIs, Zenon
<1>4. Faults # {}
  BY "malloc" \in Faults
<1>5. vch' = vch \/ (vch' = Append(vch, Datum(k)) /\ Len(vch') # Len(key))
  <2>1. CASE vch' = Append(vch, Datum(k))
    <3>1. Datum(k) \in Keys \X Nat /\ vch \in Seq(Keys \X Nat) /\ Len(key) \in Nat
      BY InvHas DEF Datum
    <3>2. IsLonger(Keys \X Nat, vch, vch')
      BY <2>1, <3>1, ItemAdded, Zenon
    <3>3. Len(vch') = Len(key) + 1
      BY ONLY <1>2, <3>2, Zenon DEF IsLonger
    <3>4. Len(key) + 1 # Len(key)
      BY <3>1
    <3> QED
      BY ONLY <2>1, <3>3, <3>4, Zenon
  <2> QED
    BY <2>1 DEF Lshift
<1> QED
  BY ONLY <1>2, <1>3, <1>4, <1>5, key' = key, streamBroken' = TRUE, Zenon DEF StreamFails

\* No step does more to the streams.
LEMMA StreamSteps ==
  ASSUME TreeInv, [BTreeNext]_vars
  PROVE  UNCHANGED streams \/ StreamsEmpty \/ \E k \in Keys : StreamGrows(k) \/ StreamFails(k)
<1> DEFINE G == UNCHANGED streams \/ StreamsEmpty \/ \E k \in Keys : StreamGrows(k) \/ StreamFails(k)
<1>1. ASSUME NEW d \in Dimensions, Open(d) PROVE G
  BY <1>1, Zenon DEF Open, StreamsEmpty
<1>2. ASSUME NEW k \in Keys, InsertRoot(k) PROVE G
  BY <1>2, AllocGrows, Zenon DEF InsertRoot, MayInsert
<1>3. ASSUME NEW k \in Keys, InsertOverlap(k) PROVE G
  BY <1>3 DEF InsertOverlap
<1>4. ASSUME NEW k \in Keys, NEW nodes, InsertNew(k, nodes) PROVE G
  BY <1>4, AllocGrows, Zenon DEF InsertNew, MayInsert
<1>5. ASSUME NEW st, Return(st) PROVE UNCHANGED streams
  BY <1>5 DEF Return
<1>6. ASSUME NEW k \in Keys, Getdata(k) PROVE G
  <2>1. UNCHANGED streams \/ Return("no_data")
    BY <1>6 DEF Getdata
  <2> QED
    BY <1>5, <2>1, Zenon
<1>7. ASSUME NEW k \in Keys, Remove(k) PROVE G
  <2>1. UNCHANGED streams \/ Return("no_data")
    BY <1>7 DEF Remove
  <2> QED
    BY <1>5, <2>1, Zenon
<1>8. ASSUME Close PROVE G
  BY <1>8, Zenon DEF Close, StreamsEmpty
<1>9. ASSUME NEW k \in Keys, InsertNoLeaf(k) PROVE G
  <2>1. \/ UNCHANGED streams
        \/ /\ "malloc" \in Faults /\ ~streamBroken /\ streamBroken' = TRUE
           /\ vch' \in {vch, Lshift(vch, Datum(k))} /\ key' = key
    BY <1>9 DEF InsertNoLeaf, NoMemory
  <2> QED
    BY <2>1, BreakFails, Zenon
<1>10. ASSUME NEW k \in Keys, InsertNoHandle(k) PROVE G
  <2>1. Len(key) < MaxInserts /\ (UNCHANGED streams \/ AllocLeaf(k))
    BY <1>10 DEF InsertNoHandle, MayInsert
  <2> QED
    BY <2>1, AllocGrows, Zenon
<1>11. ASSUME NEW k \in Keys, InsertNoNode(k) PROVE G
  BY <1>4, <1>11, Zenon DEF InsertNoNode
<1>12. ASSUME NEW k \in Keys, GetdataNoHandle(k) PROVE G
  BY <1>5, <1>12, Zenon DEF GetdataNoHandle
<1>13. ASSUME RemoveNoHandle PROVE G
  BY <1>5, <1>13, Zenon DEF RemoveNoHandle
<1>14. ASSUME FollowNone PROVE G
  BY <1>14 DEF FollowNone, GoWild
<1>15. ASSUME UNCHANGED vars PROVE G
  BY <1>15 DEF vars
<1> QED
  BY ONLY [BTreeNext]_vars, <1>1, <1>2, <1>3, <1>4, <1>6, <1>7, <1>8, <1>9, <1>10, <1>11, <1>12, <1>13, <1>14,
     <1>15, Zenon
     DEF BTreeNext, Call, FailingCall

\* The stream of keys is a queue of keys.
LEMMA KeysQueue ==
  ASSUME TreeInv, [BTreeNext]_vars
  PROVE  [KeyQueue!Next]_(KeyQueue!queueVars)
<1> DEFINE b == streamBroken /\ Len(vch) # Len(key)
           a == IF b THEN "memory" ELSE "success"
<1>1. CASE UNCHANGED streams
  <2>1. key' = key /\ vch' = vch /\ streamBroken' = streamBroken
    BY <1>1 DEF streams
  <2> QED
    BY <2>1, Zenon DEF KeyQueue!queueVars
<1>2. CASE StreamsEmpty
  <2>1. key' = <<>> /\ b' = FALSE /\ a' = "success"
    BY <1>2 DEF StreamsEmpty
  <2> QED
    BY <2>1, Zenon DEF KeyQueue!Next, KeyQueue!Lose
<1>3. ASSUME NEW k \in Keys, StreamGrows(k) PROVE KeyQueue!Next
  <2>1. key' = Append(key, k) /\ b = FALSE /\ b' = FALSE /\ a' = "success"
    BY <1>3 DEF StreamGrows
  <2> QED
    BY <2>1, Zenon DEF KeyQueue!Next, KeyQueue!ShiftIn
<1>4. ASSUME NEW k \in Keys, StreamFails(k) PROVE [KeyQueue!Next]_(KeyQueue!queueVars)
  <2>1. Faults # {} /\ b = FALSE /\ a = "success" /\ key' = key
    BY <1>4 DEF StreamFails
  <2>2. CASE vch' = vch
    <3>1. b' = FALSE /\ a' = "success"
      BY <1>4, <2>2 DEF StreamFails
    <3> QED
      BY <2>1, <3>1, Zenon DEF KeyQueue!queueVars
  <2>3. CASE Len(vch') # Len(key)
    <3>1. b' = TRUE /\ a' = "memory"
      BY <1>4, <2>3 DEF StreamFails
    <3> QED
      BY <2>1, <3>1, Zenon DEF KeyQueue!Next, KeyQueue!Fail
  <2> QED
    BY ONLY <1>4, <2>2, <2>3, Zenon DEF StreamFails
<1> QED
  BY <1>1, <1>2, <1>3, <1>4, StreamSteps, Zenon

\* The stream of data is one of data.
LEMMA DataQueues ==
  ASSUME TreeInv, [BTreeNext]_vars
  PROVE  [DataQueue!Next]_(DataQueue!queueVars)
<1> DEFINE b == streamBroken /\ Len(vch) = Len(key)
           a == IF b THEN "memory" ELSE "success"
<1>1. CASE UNCHANGED streams
  <2>1. key' = key /\ vch' = vch /\ streamBroken' = streamBroken
    BY <1>1 DEF streams
  <2> QED
    BY <2>1, Zenon DEF DataQueue!queueVars
<1>2. CASE StreamsEmpty
  <2>1. vch' = <<>> /\ b' = FALSE /\ a' = "success"
    BY <1>2 DEF StreamsEmpty
  <2> QED
    BY <2>1, Zenon DEF DataQueue!Next, DataQueue!Lose
<1>3. ASSUME NEW k \in Keys, StreamGrows(k) PROVE DataQueue!Next
  <2>1. /\ vch' = Append(vch, Datum(k)) /\ Datum(k) \in Keys \X (0 .. MaxItems)
        /\ b = FALSE /\ b' = FALSE /\ a' = "success"
    BY <1>3 DEF StreamGrows
  <2> QED
    BY <2>1, Zenon DEF DataQueue!Next, DataQueue!ShiftIn
<1>4. ASSUME NEW k \in Keys, StreamFails(k) PROVE DataQueue!Next
  <2>1. Faults # {} /\ b = FALSE /\ a = "success" /\ Datum(k) \in Keys \X (0 .. MaxItems)
    BY <1>4 DEF StreamFails
  <2>2. CASE vch' = vch
    <3>1. b' = TRUE /\ a' = "memory"
      BY <1>4, <2>2 DEF StreamFails
    <3> QED
      BY <2>1, <2>2, <3>1, Zenon DEF DataQueue!Next, DataQueue!Fail
  <2>3. CASE vch' = Append(vch, Datum(k)) /\ Len(vch') # Len(key)
    <3>1. b' = FALSE /\ a' = "success"
      BY <1>4, <2>3 DEF StreamFails
    <3> QED
      BY <2>1, <2>3, <3>1, Zenon DEF DataQueue!Next, DataQueue!ShiftIn
  <2> QED
    BY ONLY <1>4, <2>2, <2>3, Zenon DEF StreamFails
<1> QED
  BY <1>1, <1>2, <1>3, <1>4, StreamSteps, Zenon

\* fs_btree.h:226-233: the keys and the data are queues as DataStream implements them, whose
\* items stay where they are and which take nothing after a failure.
THEOREM TreeUsesQueues == BTreeSpec => StreamsSpec
<1>1. BTreeInit => KeyQueue!Init /\ DataQueue!Init
  <2> SUFFICES ASSUME BTreeInit PROVE KeyQueue!Init /\ DataQueue!Init
    OBVIOUS
  <2>1. key = <<>> /\ vch = <<>> /\ streamBroken = FALSE
    BY Zenon DEF BTreeInit
  <2> QED
    BY <2>1 DEF KeyQueue!Init, DataQueue!Init
<1>2. TreeInv /\ [BTreeNext]_vars => [KeyQueue!Next]_(KeyQueue!queueVars)
  BY KeysQueue
<1>3. TreeInv /\ [BTreeNext]_vars => [DataQueue!Next]_(DataQueue!queueVars)
  BY DataQueues
<1> QED
  BY <1>1, <1>2, <1>3, TreeInvHolds, PTL DEF BTreeSpec, StreamsSpec, KeyQueue!Spec, DataQueue!Spec
-----------------------------------------------------------------------------
(* The tree is a dictionary.                                               *)

\* The map that places stand for.
MapOf(ks, vs, P) ==
  [k \in {KeyAt(ks, i) : i \in P} |-> vs[(CHOOSE i \in P : KeyAt(ks, i) = k) + 1]]

\* No two of the places P have the same key.
Once(ks, P) == \A i, j \in P : KeyAt(ks, i) = KeyAt(ks, j) => i = j

\* The map that the places P stand for is f.
IsMap(f, ks, vs, P) ==
  /\ f = [k \in {KeyAt(ks, i) : i \in P} |-> f[k]]
  /\ \A i \in P : f[KeyAt(ks, i)] = vs[i + 1]

\* Places of different keys stand for a map.
LEMMA MapHas ==
  ASSUME NEW ks, NEW vs, NEW P, Once(ks, P)
  PROVE  IsMap(MapOf(ks, vs, P), ks, vs, P)
<1> DEFINE D == {KeyAt(ks, i) : i \in P}
           c(k) == CHOOSE i \in P : KeyAt(ks, i) = k
           f == MapOf(ks, vs, P)
<1>1. f = [k \in D |-> vs[c(k) + 1]]
  BY Zenon DEF MapOf
<1>2. \A i \in P : c(KeyAt(ks, i)) = i
  <2> SUFFICES ASSUME NEW i \in P PROVE c(KeyAt(ks, i)) = i
    BY Zenon
  <2>1. c(KeyAt(ks, i)) \in P /\ KeyAt(ks, c(KeyAt(ks, i))) = KeyAt(ks, i)
    BY Zenon
  <2> QED
    BY ONLY <2>1, i \in P, Once(ks, P), Zenon DEF Once
<1> HIDE DEF c, f
<1>3. \A i \in P : f[KeyAt(ks, i)] = vs[i + 1]
  <2> SUFFICES ASSUME NEW i \in P PROVE f[KeyAt(ks, i)] = vs[i + 1]
    BY Zenon
  <2>1. KeyAt(ks, i) \in D
    OBVIOUS
  <2>2. f[KeyAt(ks, i)] = vs[c(KeyAt(ks, i)) + 1]
    BY ONLY <1>1, <2>1, Zenon
  <2> QED
    BY ONLY <1>2, <2>2, i \in P, Zenon
<1>4. f = [k \in D |-> f[k]]
  BY ONLY <1>1
<1> QED
  BY ONLY <1>3, <1>4, Zenon DEF IsMap, f, D

\* They stand for one map only.
LEMMA MapOnly ==
  ASSUME NEW ks, NEW vs, NEW P, NEW f, NEW g, IsMap(f, ks, vs, P), IsMap(g, ks, vs, P)
  PROVE  f = g
<1> DEFINE D == {KeyAt(ks, i) : i \in P}
<1>1. /\ f = [k \in D |-> f[k]] /\ g = [k \in D |-> g[k]]
      /\ \A i \in P : f[KeyAt(ks, i)] = vs[i + 1] /\ g[KeyAt(ks, i)] = vs[i + 1]
  BY Zenon DEF IsMap
<1>2. \A k \in D : f[k] = g[k]
  BY <1>1
<1> HIDE DEF D
<1> QED
  BY ONLY <1>1, <1>2

\* A part of the places stands for a part of the map.
LEMMA MapPart ==
  ASSUME NEW ks, NEW vs, NEW P, NEW f, IsMap(f, ks, vs, P), NEW R \in SUBSET P,
         NEW D, D = {KeyAt(ks, i) : i \in R}
  PROVE  D \subseteq DOMAIN f /\ IsMap([k \in D |-> f[k]], ks, vs, R)
<1>1. DOMAIN f = {KeyAt(ks, i) : i \in P} /\ \A i \in P : f[KeyAt(ks, i)] = vs[i + 1]
  BY DEF IsMap
<1> DEFINE g == [k \in D |-> f[k]]
<1>2. \A i \in R : KeyAt(ks, i) \in D /\ i \in P
  OBVIOUS
<1>3. \A i \in R : g[KeyAt(ks, i)] = vs[i + 1]
  BY ONLY <1>1, <1>2
<1>4. g = [k \in {KeyAt(ks, i) : i \in R} |-> g[k]]
  <2>1. g = [k \in D |-> g[k]]
    OBVIOUS
  <2> HIDE DEF g
  <2> QED
    BY ONLY <2>1, D = {KeyAt(ks, i) : i \in R}, Zenon
<1>5. D \subseteq DOMAIN f
  BY ONLY <1>1, D = {KeyAt(ks, i) : i \in R}, R \in SUBSET P
<1> QED
  BY ONLY <1>3, <1>4, <1>5, Zenon DEF IsMap, g

\* Items that are appended change nothing of the map.
LEMMA MapStays ==
  ASSUME NEW ks, NEW vs, NEW kn, NEW vn, NEW P, NEW f, IsMap(f, ks, vs, P),
         \A i \in P : KeyAt(kn, i) = KeyAt(ks, i) /\ vn[i + 1] = vs[i + 1]
  PROVE  IsMap(f, kn, vn, P)
<1>1. f = [k \in {KeyAt(ks, i) : i \in P} |-> f[k]] /\ \A i \in P : f[KeyAt(ks, i)] = vs[i + 1]
  BY Zenon DEF IsMap
<1>2. {KeyAt(ks, i) : i \in P} = {KeyAt(kn, i) : i \in P}
  OBVIOUS
<1>3. f = [k \in {KeyAt(kn, i) : i \in P} |-> f[k]]
  BY ONLY <1>1, <1>2, Zenon
<1>4. \A i \in P : f[KeyAt(kn, i)] = vn[i + 1]
  BY ONLY <1>1, \A i \in P : KeyAt(kn, i) = KeyAt(ks, i) /\ vn[i + 1] = vs[i + 1], Zenon
<1> QED
  BY ONLY <1>3, <1>4, Zenon DEF IsMap

\* A place n of its own for a new key k with data v.
NewPlace(ks, vs, P, n, k, v) ==
  KeyAt(ks, n) = k /\ vs[n + 1] = v /\ k \notin {KeyAt(ks, i) : i \in P}

\* The map f with the key k more.
IsExtended(g, f, k, v) == g = [x \in DOMAIN f \cup {k} |-> IF x = k THEN v ELSE f[x]]

\* With a place of its own for a new key the places stand for the map with this key.
LEMMA MapMore ==
  ASSUME NEW ks, NEW vs, NEW P, NEW f, IsMap(f, ks, vs, P), NEW n, NEW k, NEW v,
         NewPlace(ks, vs, P, n, k, v), NEW w, IsExtended(w, f, k, v)
  PROVE  IsMap(w, ks, vs, P \cup {n})
<1>0. KeyAt(ks, n) = k /\ vs[n + 1] = v /\ k \notin {KeyAt(ks, i) : i \in P}
  BY Zenon DEF NewPlace
<1> DEFINE D == {KeyAt(ks, i) : i \in P}
           g == [x \in DOMAIN f \cup {k} |-> IF x = k THEN v ELSE f[x]]
           E == {KeyAt(ks, i) : i \in P \cup {n}}
<1>1. DOMAIN f = D /\ \A i \in P : f[KeyAt(ks, i)] = vs[i + 1]
  BY DEF IsMap
<1>2. E = DOMAIN f \cup {k}
  BY <1>0, <1>1
<1>3. g = [x \in E |-> g[x]]
  <2>1. g = [x \in DOMAIN f \cup {k} |-> g[x]]
    OBVIOUS
  <2> HIDE DEF g, E
  <2> QED
    BY ONLY <1>2, <2>1, Zenon
<1>4. \A i \in P \cup {n} : g[KeyAt(ks, i)] = vs[i + 1]
  <2>1. ASSUME NEW i \in P PROVE g[KeyAt(ks, i)] = vs[i + 1]
    <3>1. KeyAt(ks, i) \in D /\ KeyAt(ks, i) # k
      BY <1>0
    <3>2. g[KeyAt(ks, i)] = f[KeyAt(ks, i)]
      BY ONLY <1>1, <3>1
    <3> QED
      BY ONLY <1>1, <3>2, i \in P
  <2>2. g[KeyAt(ks, n)] = vs[n + 1]
    <3>1. g[k] = v
      OBVIOUS
    <3> HIDE DEF g
    <3> QED
      BY ONLY <1>0, <3>1, Zenon
  <2> HIDE DEF g
  <2> QED
    BY ONLY <2>1, <2>2
<1>5. IsMap(g, ks, vs, P \cup {n})
  BY ONLY <1>3, <1>4, Zenon DEF IsMap, g, E
<1>6. w = g
  BY Zenon DEF IsExtended
<1> QED
  BY ONLY <1>5, <1>6, Zenon

\* No places stand for the empty map.
LEMMA MapOfNone == \A ks, vs : IsMap(<<>>, ks, vs, {})
<1>1. \A ks, f : {KeyAt(ks, i) : i \in {}} = DOMAIN <<>>
  OBVIOUS
<1>2. <<>> = [k \in DOMAIN <<>> |-> <<>>[k]]
  OBVIOUS
<1> QED
  BY <1>1, <1>2 DEF IsMap

\* What the map of an open tree is.
LEMMA MapIs ==
  ASSUME TreeInv, pc = "open"
  PROVE  /\ Once(key, Places(root)) /\ IsMap(Map, key, vch, Places(root))
         /\ DOMAIN Map = {KeyAt(key, i) : i \in Places(root)}
<1>1. Once(key, Places(root))
  BY InvPlaces, Zenon DEF Once
<1>2. Map = MapOf(key, vch, Places(root))
  BY Zenon DEF Map, MapOf, KeyOf, KeyAt, Rgetdata
<1>3. IsMap(Map, key, vch, Places(root))
  BY <1>1, <1>2, MapHas, Zenon
<1>4. DOMAIN Map = {KeyAt(key, i) : i \in Places(root)}
  <2> HIDE DEF Map
  <2> QED
    BY ONLY <1>3 DEF IsMap
<1> QED
  BY ONLY <1>1, <1>3, <1>4
\* The map after a step is the one that the places stand for then.
LEMMA MapMade ==
  ASSUME pc' = "open", Once(key', Places(root')), NEW f, IsMap(f, key', vch', Places(root'))
  PROVE  Map' = f
<1>1. Map' = MapOf(key', vch', Places(root'))
  BY Zenon DEF Map, MapOf, KeyOf, KeyAt, Rgetdata
<1>2. IsMap(MapOf(key', vch', Places(root')), key', vch', Places(root'))
  BY MapHas, Zenon
<1>3. MapOf(key', vch', Places(root')) = f
  BY <1>2, MapOnly, Zenon
<1> QED
  BY ONLY <1>1, <1>3, Zenon

\* What the streams held they go on to hold.
Extended ==
  \A i \in 0 .. Len(key) - 1 : KeyAt(key', i) = KeyAt(key, i) /\ vch'[i + 1] = vch[i + 1]

\* An item that is appended changes none before it.
LEMMA Prefixed ==
  ASSUME NEW E, NEW s \in Seq(E), NEW v \in E, NEW n \in Nat, n <= Len(s)
  PROVE  \A i \in 0 .. n - 1 : Append(s, v)[i + 1] = s[i + 1]
OBVIOUS

\* No step of a tree that is open changes an item that is there.
LEMMA StreamsExtend ==
  ASSUME TreeInv, UNCHANGED streams \/ \E k \in Keys : StreamGrows(k) \/ StreamFails(k)
  PROVE  Extended
<1>1. /\ key \in Seq(Keys) /\ Len(key) \in Nat /\ Len(key) <= Len(key)
      /\ vch \in Seq(Keys \X Nat) /\ Len(key) <= Len(vch)
  BY InvHas
<1>2. CASE UNCHANGED streams
  <2>1. key' = key /\ vch' = vch
    BY <1>2 DEF streams
  <2> QED
    BY <2>1, Zenon DEF Extended
<1>3. ASSUME NEW k \in Keys, StreamGrows(k) \/ StreamFails(k) PROVE Extended
  <2>1. Datum(k) \in Keys \X Nat
    BY <1>1 DEF Datum
  <2>2. \A i \in 0 .. Len(key) - 1 : Append(vch, Datum(k))[i + 1] = vch[i + 1]
    BY ONLY <1>1, <2>1, Prefixed, Zenon
  <2>3. \A i \in 0 .. Len(key) - 1 : Append(key, k)[i + 1] = key[i + 1]
    BY ONLY <1>1, k \in Keys, Prefixed, Zenon
  <2>4. key' = key \/ key' = Append(key, k)
    BY <1>3, Zenon DEF StreamGrows, StreamFails
  <2>5. vch' = vch \/ vch' = Append(vch, Datum(k))
    BY <1>3, Zenon DEF StreamGrows, StreamFails
  <2> QED
    BY ONLY <2>2, <2>3, <2>4, <2>5, Zenon DEF Extended, KeyAt
<1> QED
  BY <1>2, <1>3

\* The map stays when the places do.
LEMMA MapKept ==
  ASSUME TreeInv, pc = "open", pc' = "open", Extended, Places(root') = Places(root)
  PROVE  Map' = Map
<1> DEFINE P == Places(root)
<1>1. Once(key, P) /\ IsMap(Map, key, vch, P) /\ P \subseteq 0 .. Len(key) - 1
  BY MapIs, InvPlaces, Zenon
<1> HIDE DEF P
<1>2. \A i \in P : KeyAt(key', i) = KeyAt(key, i) /\ vch'[i + 1] = vch[i + 1]
  BY ONLY <1>1, Extended, Zenon DEF Extended
<1>3. IsMap(Map, key', vch', P)
  BY <1>1, <1>2, MapStays, Zenon
<1>4. Once(key', P)
  BY ONLY <1>1, <1>2, Zenon DEF Once
<1>5. Once(key', Places(root')) /\ IsMap(Map, key', vch', Places(root'))
  BY ONLY <1>3, <1>4, Places(root') = Places(root), Zenon DEF P
<1> QED
  BY ONLY <1>5, pc' = "open", MapMade, Zenon

\* A key is in the map when the tree holds it.
LEMMA HoldsIs ==
  ASSUME TreeInv, pc = "open", NEW k
  PROVE  k \in DOMAIN Map <=> Holds(root, k)
<1>1. DOMAIN Map = {KeyAt(key, i) : i \in Places(root)}
  BY MapIs, Zenon
<1> HIDE DEF Map
<1> QED
  BY ONLY <1>1 DEF Holds

\* The map with one key more, of which some keys may be lost.
IsPart(g, w) == DOMAIN g \subseteq DOMAIN w /\ g = [x \in DOMAIN g |-> w[x]]
\* An insert: with all its places the map has the key more, with fewer of them fewer keys.
LEMMA MapGrows ==
  ASSUME TreeInv, pc = "open", pc' = "open", NEW k \in Keys, StreamGrows(k), ~Holds(root, k),
         Places(root') \subseteq Places(root) \cup {Len(key)}, Once(key', Places(root')),
         NEW w, IsExtended(w, Map, k, Datum(k))
  PROVE  /\ Places(root') = Places(root) \cup {Len(key)} => Map' = w
         /\ IsPart(Map', w)
<1> DEFINE P == Places(root)
           n == Len(key)
           f == Map
           R == Places(root')
<1>1. Once(key, P) /\ IsMap(f, key, vch, P) /\ P \subseteq 0 .. n - 1 /\ n \in Nat
  BY MapIs, InvPlaces, InvHas, Zenon
<1>2. Extended
  BY StreamsExtend, Zenon
<1>3. \A i \in P : KeyAt(key', i) = KeyAt(key, i) /\ vch'[i + 1] = vch[i + 1]
  BY ONLY <1>1, <1>2, Zenon DEF Extended, n
<1>4. KeyAt(key', n) = k /\ vch'[n + 1] = Datum(k)
  <2>1. key \in Seq(Keys) /\ vch \in Seq(Keys \X Nat) /\ Len(vch) = n
    BY InvHas, Zenon DEF StreamGrows
  <2>2. Append(key, k)[n + 1] = k /\ Append(vch, Datum(k))[n + 1] = Datum(k)
    BY ONLY <2>1, <1>1 DEF n
  <2>3. key' = Append(key, k) /\ vch' = Append(vch, Datum(k))
    BY Zenon DEF StreamGrows
  <2> QED
    BY ONLY <2>2, <2>3, Zenon DEF KeyAt
<1>5. k \notin {KeyAt(key', i) : i \in P}
  <2>1. \A i \in P : KeyAt(key, i) # k
    BY Zenon DEF Holds
  <2> QED
    BY ONLY <1>3, <2>1
<1> HIDE DEF P, n, f, R
<1>6. IsMap(f, key', vch', P)
  BY ONLY <1>1, <1>3, MapStays, Zenon
<1>7. IsMap(w, key', vch', P \cup {n})
  <2>1. NewPlace(key', vch', P, n, k, Datum(k))
    BY ONLY <1>4, <1>5, Zenon DEF NewPlace
  <2>2. IsExtended(w, f, k, Datum(k))
    BY ONLY IsExtended(w, Map, k, Datum(k)), Zenon DEF f
  <2> QED
    BY ONLY <1>6, <2>1, <2>2, MapMore, Zenon
<1>8. ASSUME R = P \cup {n} PROVE Map' = w
  <2>1. IsMap(w, key', vch', R)
    BY ONLY <1>7, <1>8, Zenon
  <2> QED
    BY ONLY <2>1, pc' = "open", Once(key', Places(root')), MapMade, Zenon DEF R
<1> DEFINE D == {KeyAt(key', i) : i \in R}
<1>9. D \subseteq DOMAIN w /\ IsMap([x \in D |-> w[x]], key', vch', R)
  <2>1. R \in SUBSET (P \cup {n})
    BY Places(root') \subseteq Places(root) \cup {Len(key)} DEF R, P, n
  <2> QED
    BY ONLY <1>7, <2>1, MapPart, Zenon
<1> HIDE DEF D
<1>10. Map' = [x \in D |-> w[x]]
  BY ONLY <1>9, pc' = "open", Once(key', Places(root')), MapMade, Zenon DEF R
<1>11. DOMAIN Map' = D
  BY ONLY <1>10
<1>12. DOMAIN Map' \subseteq DOMAIN w /\ Map' = [x \in DOMAIN Map' |-> w[x]]
  BY ONLY <1>9, <1>10, <1>11, Zenon
<1>13. IsPart(Map', w)
  BY ONLY <1>12, Zenon DEF IsPart
<1> QED
  BY ONLY <1>8, <1>13, Zenon DEF R, P, n

\* The map without a key.
LEMMA MapShrinks ==
  ASSUME TreeInv, pc = "open", pc' = "open", UNCHANGED streams, NEW k, Places(root') = Without(root, k)
  PROVE  Map' = [x \in DOMAIN Map \ {k} |-> Map[x]]
<1> DEFINE P == Places(root)
           R == Places(root')
           f == Map
           D == {KeyAt(key, i) : i \in R}
<1>1. Once(key, P) /\ IsMap(f, key, vch, P) /\ DOMAIN f = {KeyAt(key, i) : i \in P}
  BY MapIs, Zenon
<1>2. R \in SUBSET P /\ \A i \in P : i \in R <=> KeyAt(key, i) # k
  BY DEF Without
<1>3. key' = key /\ vch' = vch
  BY DEF streams
<1> HIDE DEF P, R, f
<1>4. D = DOMAIN f \ {k}
  BY ONLY <1>1, <1>2
<1>5. IsMap([x \in D |-> f[x]], key, vch, R)
  BY ONLY <1>1, <1>2, MapPart, Zenon
<1>6. Once(key, R)
  BY ONLY <1>1, <1>2 DEF Once
<1> HIDE DEF D
<1>7. Map' = [x \in D |-> f[x]]
  <2>1. Once(key', R) /\ IsMap([x \in D |-> f[x]], key', vch', R)
    BY ONLY <1>3, <1>5, <1>6, Zenon
  <2> QED
    BY ONLY <2>1, pc' = "open", MapMade, Zenon DEF R
<1> QED
  BY ONLY <1>4, <1>7, Zenon DEF f
\* A call that changes neither the streams nor the tree changes nothing of the map.
LEMMA MapSame ==
  ASSUME TreeInv, UNCHANGED <<streams, root, pc>>
  PROVE  Map' = Map
<1>1. UNCHANGED streams /\ root' = root /\ pc' = pc
  OBVIOUS
<1>2. CASE pc = "open"
  <2>1. Extended
    BY <1>1, StreamsExtend, Zenon
  <2>2. Places(root') = Places(root) /\ pc' = "open"
    BY <1>1, <1>2, Zenon
  <2> QED
    BY <1>2, <2>1, <2>2, MapKept, Zenon
<1>3. CASE pc # "open"
  BY <1>1, <1>3, Zenon DEF Map
<1> QED
  BY <1>2, <1>3, Zenon

\* A tree of no leaves is no map.
LEMMA MapLost ==
  ASSUME pc' # "open" \/ root' = Null
  PROVE  Map' = <<>>
<1>1. CASE pc' # "open"
  BY <1>1, Zenon DEF Map
<1>2. CASE pc' = "open" /\ root' = Null
  <2>1. Places(Null) = {}
    BY DEF Places, Subtrees
  <2>2. Places(root') = {}
    BY <1>2, <2>1, Zenon
  <2>3. Once(key', Places(root'))
    BY ONLY <2>2 DEF Once
  <2>4. IsMap(<<>>, key', vch', Places(root'))
    <3>1. IsMap(<<>>, key', vch', {})
      BY MapOfNone, Zenon
    <3> QED
      BY ONLY <2>2, <3>1, Zenon
  <2> QED
    BY <1>2, <2>3, <2>4, MapMade, Zenon
<1> QED
  BY <1>1, <1>2, Zenon

\* A call that does nothing changes nothing of the map.
LEMMA ReturnMap ==
  ASSUME TreeInv, NEW st, Return(st)
  PROVE  Map' = Map /\ status' = st /\ reply' = <<>>
<1>1. UNCHANGED <<streams, root, pc>> /\ status' = st /\ reply' = <<>>
  BY DEF Return
<1> QED
  BY <1>1, MapSame, Zenon

\* What a call asks is what the dictionary is asked.
LEMMA AskedIs ==
  ASSUME NEW op, NEW k, NEW m, Asked(op, k, m)
  PROVE  Promise!Asks(op, k) /\ asked'.memory = m
BY DEF Asked, Promise!Asks

\* A call that finds no leaf of its key misses it.
LEMMA MissStep ==
  ASSUME TreeInv, pc = "open", NEW k \in Keys, ~Holds(root, k), Return("no_data"),
         Promise!Asks("get", k) \/ Promise!Asks("remove", k)
  PROVE  Promise!Next
<1>1. k \notin DOMAIN Map
  BY HoldsIs, Zenon
<1>2. Map' = Map /\ status' = "no_data" /\ reply' = <<>>
  BY ReturnMap, Zenon
<1>3. Promise!Miss(k)
  BY <1>1, <1>2, Zenon DEF Promise!Miss, Promise!Answers
<1> QED
  BY <1>3, Zenon DEF Promise!Next

\* No tree holds no key.
LEMMA NullHolds == \A k : ~Holds(Null, k)
<1>1. Places(Null) = {}
  BY DEF Places, Subtrees
<1> QED
  BY ONLY <1>1, Zenon DEF Holds

\* A search that finds no leaf, in a tree that has none of the key.
LEMMA NothingFound ==
  ASSUME TreeInv, HasRoot, NEW k \in Nat
  PROVE  Search(k) = {} <=> ~Holds(root, k)
<1>1. Finds(root, k) /\ Search(k) = Found(root, k)
  BY Searched, Zenon
<1>2. ~Holds(root, k) => Search(k) = {}
  BY ONLY <1>1, Zenon DEF Finds
<1>3. ASSUME Holds(root, k) PROVE Search(k) # {}
  <2>1. PICK i \in Places(root) : KeyAt(key, i) = k
    BY <1>3, Zenon DEF Holds
  <2>2. Search(k) = {Leaf(i)}
    BY ONLY <1>1, <2>1, Zenon DEF Finds
  <2> QED
    BY ONLY <2>2
<1> QED
  BY ONLY <1>2, <1>3, Zenon

\* A getdata is a get of the dictionary, or a miss.
LEMMA GetdataStep ==
  ASSUME TreeInv, NEW k \in Keys, Getdata(k), Asked("get", k, TRUE)
  PROVE  Promise!Next
<1>1. pc = "open" /\ k \in Nat
  BY BTreeAssumption DEF Getdata
<1>a. Promise!Asks("get", k)
  BY AskedIs, Zenon
<1>2. CASE root = Null /\ Return("no_data")
  <2>1. ~Holds(root, k)
    BY <1>2, NullHolds, Zenon
  <2> QED
    BY <1>1, <1>a, <1>2, <2>1, MissStep, Zenon
<1>3. CASE HasRoot /\ Search(k) = {} /\ Return("no_data")
  <2>1. ~Holds(root, k)
    BY <1>1, <1>3, NothingFound, Zenon
  <2> QED
    BY <1>1, <1>a, <1>3, <2>1, MissStep, Zenon
<1>4. CASE /\ HasRoot
           /\ \E l \in Search(k) : reply' = <<Rgetdata(vch, l.vch_index)>>
           /\ status' = "success"
           /\ UNCHANGED <<dimension, streams, root, overlap_index, pc, load>>
  <2>1. PICK l \in Search(k) : reply' = <<Rgetdata(vch, l.vch_index)>>
    BY <1>4
  <2>2. l.vch_index \in Places(root) /\ KeyAt(key, l.vch_index) = k /\ Holds(root, k)
    BY <1>1, <1>4, <2>1, FoundPlace, Zenon
  <2>3. \A i \in Places(root) : Map[KeyAt(key, i)] = vch[i + 1]
    BY <1>1, MapIs, Zenon DEF IsMap
  <2>4. Map[k] = vch[l.vch_index + 1]
    BY ONLY <2>2, <2>3, Zenon
  <2>5. reply' = <<Map[k]>>
    BY ONLY <2>1, <2>4, Zenon DEF Rgetdata
  <2>6. k \in DOMAIN Map
    BY <1>1, <2>2, HoldsIs, Zenon
  <2>7. Map' = Map
    <3>1. UNCHANGED <<streams, root, pc>>
      BY <1>4, Zenon
    <3> QED
      BY <3>1, MapSame, Zenon
  <2>8. Promise!Get(k)
    BY <1>a, <1>4, <2>5, <2>6, <2>7, Zenon DEF Promise!Get
  <2> QED
    BY <2>8, Zenon DEF Promise!Next
<1> QED
  BY <1>2, <1>3, <1>4, Zenon DEF Getdata

\* A remove is one of the dictionary, or a miss.
LEMMA RemoveStep ==
  ASSUME TreeInv, NEW k \in Keys, Remove(k), Asked("remove", k, TRUE)
  PROVE  Promise!Next
<1>1. pc = "open" /\ k \in Nat
  BY BTreeAssumption DEF Remove
<1>a. Promise!Asks("remove", k)
  BY AskedIs, Zenon
<1>2. CASE root = Null /\ Return("no_data")
  <2>1. ~Holds(root, k)
    BY <1>2, NullHolds, Zenon
  <2> QED
    BY <1>1, <1>a, <1>2, <2>1, MissStep, Zenon
<1>3. CASE /\ HasRoot
           /\ root' = Shrink(Remove1(root, k))
           /\ status' = (IF Remove1(root, k).retv THEN "success" ELSE "no_data")
           /\ reply' = <<>>
           /\ UNCHANGED <<dimension, streams, overlap_index, pc, load>>
  <2>1. Places(root') = Without(root, k) /\ Remove1(root, k).retv = Holds(root, k)
    BY <1>1, <1>3, RemoveHas, Zenon
  <2>2. pc' = "open" /\ UNCHANGED streams /\ reply' = <<>>
    BY <1>1, <1>3, Zenon
  <2>3. CASE Holds(root, k)
    <3>1. Map' = [x \in DOMAIN Map \ {k} |-> Map[x]]
      BY <1>1, <2>1, <2>2, MapShrinks, Zenon
    <3>2. k \in DOMAIN Map
      BY <1>1, <2>3, HoldsIs, Zenon
    <3>3. status' = "success"
      BY <1>3, <2>1, <2>3, Zenon
    <3>4. Promise!Remove(k)
      BY <1>a, <2>2, <3>1, <3>2, <3>3, Zenon DEF Promise!Remove, Promise!Answers, Promise!Restrict
    <3> QED
      BY <3>4, Zenon DEF Promise!Next
  <2>4. CASE ~Holds(root, k)
    <3>1. Without(root, k) = Places(root)
      BY <2>4 DEF Holds, Without
    <3>2. Extended
      BY <2>2, StreamsExtend, Zenon
    <3>3. Map' = Map
      BY <1>1, <2>1, <2>2, <3>1, <3>2, MapKept, Zenon
    <3>4. k \notin DOMAIN Map
      BY <1>1, <2>4, HoldsIs, Zenon
    <3>5. status' = "no_data"
      BY <1>3, <2>1, <2>4, Zenon
    <3>6. Promise!Miss(k)
      BY <1>a, <2>2, <3>3, <3>4, <3>5, Zenon DEF Promise!Miss, Promise!Answers
    <3> QED
      BY <3>6, Zenon DEF Promise!Next
  <2> QED
    BY <2>3, <2>4, Zenon
<1> QED
  BY <1>2, <1>3, Zenon DEF Remove

\* An insert of a key that is there is refused.
LEMMA OverlapStep ==
  ASSUME TreeInv, NEW k \in Keys, InsertOverlap(k), Asked("insert", k, TRUE)
  PROVE  Promise!Next
<1>1. /\ pc = "open" /\ k \in Nat /\ HasRoot /\ Search(k) # {} /\ status' = "no_accept" /\ reply' = <<>>
      /\ UNCHANGED <<streams, root, pc>>
  BY BTreeAssumption DEF InsertOverlap, MayInsert
<1>2. k \in DOMAIN Map
  BY <1>1, NothingFound, HoldsIs, Zenon
<1>3. Map' = Map
  BY <1>1, MapSame, Zenon
<1>4. Promise!Refuse(k)
  BY AskedIs, <1>1, <1>2, <1>3, Zenon DEF Promise!Refuse, Promise!Answers
<1> QED
  BY <1>4, Zenon DEF Promise!Next

\* An insert that comes in with its own key and no other.
LEMMA InsertStep ==
  ASSUME TreeInv, NEW k \in Keys, pc = "open", pc' = "open", StreamGrows(k), ~Holds(root, k),
         Places(root') = Places(root) \cup {Len(key)}, Once(key', Places(root')),
         status' = "success", reply' = <<>>, NEW m, Asked("insert", k, m)
  PROVE  Promise!Next
<1> DEFINE w == [x \in DOMAIN Map \cup {k} |-> IF x = k THEN Datum(k) ELSE Map[x]]
<1>1. IsExtended(w, Map, k, Datum(k))
  BY Zenon DEF IsExtended
<1>2. Map' = w
  <2> HIDE DEF w
  <2>1. Places(root') \subseteq Places(root) \cup {Len(key)}
    BY Zenon
  <2> QED
    BY <1>1, <2>1, MapGrows, Zenon
<1>3. w = Promise!With(k, Datum(k))
  BY Zenon DEF Promise!With
<1>4. k \notin DOMAIN Map /\ Datum(k) \in Keys \X (0 .. MaxItems) /\ Datum(k)[1] = k
  BY HoldsIs, DatumIs, Zenon
<1> HIDE DEF w
<1>5. Promise!Insert(k, Datum(k))
  BY AskedIs, <1>2, <1>3, <1>4, Zenon DEF Promise!Insert, Promise!Answers
<1> QED
  BY <1>4, <1>5, Zenon DEF Promise!Next

\* The first insert is one of the dictionary.
LEMMA InsertRootStep ==
  ASSUME TreeInv, NEW k \in Keys, InsertRoot(k), Asked("insert", k, TRUE)
  PROVE  Promise!Next
<1>1. /\ pc = "open" /\ pc' = "open" /\ root = Null /\ Len(key) < MaxInserts /\ AllocLeaf(k)
      /\ root' = NewLeaf /\ status' = "success" /\ reply' = <<>>
  BY Zenon DEF InsertRoot, MayInsert
<1>2. StreamGrows(k)
  BY <1>1, AllocGrows, Zenon
<1>3. ~Holds(root, k)
  BY <1>1, NullHolds, Zenon
<1>4. root' = Leaf(Len(key)) /\ Len(key) \in Nat
  BY <1>1, AllocHas, InvHas, Zenon
<1>5. Places(root) = {} /\ Places(root') = {Len(key)}
  <2>1. Places(Null) = {}
    BY DEF Places, Subtrees
  <2>2. Places(Leaf(Len(key))) = {Len(key)}
    BY <1>4, PlacesOfLeaf, Zenon
  <2> QED
    BY <1>1, <1>4, <2>1, <2>2, Zenon
<1>6. Places(root') = Places(root) \cup {Len(key)}
  BY ONLY <1>5
<1>7. Once(key', Places(root'))
  BY ONLY <1>5 DEF Once
<1> QED
  BY <1>1, <1>2, <1>3, <1>6, <1>7, InsertStep, Zenon

\* An insert of a new key is one of the dictionary, or a failure that loses keys at most.
LEMMA InsertNewStep ==
  ASSUME TreeInv, NEW k \in Keys, NEW nodes \in Nat, InsertNew(k, nodes), NEW m \in BOOLEAN, Asked("insert", k, m),
         nodes = Enough \/ ~m
  PROVE  Promise!Next
<1>1. pc = "open" /\ pc' = "open" /\ AllocLeaf(k) /\ reply' = <<>> /\ Len(key) < MaxInserts
  BY Zenon DEF InsertNew, MayInsert
<1>2. StreamGrows(k)
  BY <1>1, AllocGrows, Zenon
<1>3. InsertEffect(k) /\ ~Holds(root, k) /\ (nodes = Enough => status' = "success")
  BY InsertNewHas, Zenon
<1>4. Once(key', Places(root'))
  <2>1. key' \in Seq(Nat) /\ dimension \in Nat /\ dimension >= 3
    BY <1>1, AllocHas, InvHas, Zenon
  <2>2. Keyed(key', Places(root'))
    BY <1>3, <2>1, RootIs, Zenon DEF InsertEffect
  <2> QED
    BY ONLY <2>2, Zenon DEF Keyed, Once
<1>5. CASE status' = "success" /\ Places(root') = Places(root) \cup {Len(key)}
  BY <1>1, <1>2, <1>3, <1>4, <1>5, InsertStep, Zenon
<1>6. CASE status' = "memory"
  <2> DEFINE w == [x \in DOMAIN Map \cup {k} |-> IF x = k THEN Datum(k) ELSE Map[x]]
             v == Datum(k)
  <2>1. IsExtended(w, Map, k, v)
    BY Zenon DEF IsExtended
  <2>2. v \in Keys \X (0 .. MaxItems) /\ v[1] = k
    BY DatumIs, Zenon
  <2>3. w = Promise!With(k, v)
    BY Zenon DEF Promise!With
  <2>4. k \notin DOMAIN Map
    BY <1>1, <1>3, HoldsIs, Zenon
  <2>5. IsPart(Map', w)
    <3> HIDE DEF w
    <3>1. IsExtended(w, Map, k, Datum(k))
      BY <2>1, Zenon DEF v
    <3>2. Places(root') \subseteq Places(root) \cup {Len(key)}
      BY <1>3, Zenon DEF InsertEffect
    <3> QED
      BY <1>1, <1>2, <1>3, <1>4, <3>1, <3>2, MapGrows, Zenon
  <2> HIDE DEF w, v
  <2>6. /\ v \in Keys \X (0 .. MaxItems) /\ v[1] = k /\ k \notin DOMAIN Map
        /\ DOMAIN Map' \in SUBSET DOMAIN Promise!With(k, v)
        /\ Map' = Promise!Restrict(Promise!With(k, v), DOMAIN Map')
    BY ONLY <2>2, <2>3, <2>4, <2>5, Zenon DEF IsPart, Promise!Restrict
  <2>7. Promise!Asks("insert", k) /\ ~asked'.memory
    <3>1. nodes # Enough
      BY <1>3, <1>6, Zenon
    <3>2. m = FALSE
      BY <3>1
    <3>3. Promise!Asks("insert", k) /\ asked'.memory = m
      BY AskedIs, Zenon
    <3> QED
      BY ONLY <3>2, <3>3
  <2>8. Promise!InsertLoses(k)
    BY ONLY <1>1, <1>6, <2>6, <2>7, Zenon DEF Promise!InsertLoses, Promise!Answers
  <2> QED
    BY <2>7, <2>8, Zenon DEF Promise!Next, Promise!Fail
<1> QED
  BY <1>3, <1>5, <1>6, Zenon DEF InsertEffect

\* The map is a function.
LEMMA MapIsMap == Map = [x \in DOMAIN Map |-> Map[x]]
<1>1. CASE pc = "open"
  <2>1. Map = MapOf(key, vch, Places(root))
    BY <1>1, Zenon DEF Map, MapOf, KeyOf, KeyAt, Rgetdata
  <2>2. MapOf(key, vch, Places(root)) = [x \in DOMAIN MapOf(key, vch, Places(root)) |-> MapOf(key, vch, Places(root))[x]]
    BY DEF MapOf
  <2> QED
    BY ONLY <2>1, <2>2, Zenon
<1>2. CASE pc # "open"
  <2>1. Map = <<>>
    BY <1>2, Zenon DEF Map
  <2>2. <<>> = [x \in DOMAIN <<>> |-> <<>>[x]]
    OBVIOUS
  <2> QED
    BY ONLY <2>1, <2>2, Zenon
<1> QED
  BY <1>1, <1>2, Zenon

\* A call without memory that keeps the leaves.
LEMMA FailStep ==
  ASSUME Map' = Map, reply' = <<>>, NEW k \in Keys, NEW op, NEW st, Asked(op, k, FALSE), status' = st,
         <<op, st>> \in {<<"insert", "memory">>, <<"get", "memory">>, <<"remove", "no_data">>}
  PROVE  Promise!Next
<1>1. Map = Promise!Restrict(Map, DOMAIN Map)
  BY MapIsMap, Zenon DEF Promise!Restrict
<1>2. \E ks \in SUBSET DOMAIN Map : Map' = Promise!Restrict(Map, ks)
  <2>1. DOMAIN Map \in SUBSET DOMAIN Map
    OBVIOUS
  <2>2. Map' = Promise!Restrict(Map, DOMAIN Map)
    BY ONLY <1>1, Map' = Map, Zenon
  <2> QED
    BY ONLY <2>1, <2>2, Zenon
<1>3. Promise!Asks(op, k) /\ ~asked'.memory
  BY AskedIs, Zenon
<1>4. CASE op = "insert" /\ st = "memory"
  BY <1>2, <1>3, <1>4, Zenon DEF Promise!Next, Promise!Fail, Promise!InsertLoses, Promise!Answers
<1>5. CASE op = "get" /\ st = "memory"
  BY <1>3, <1>5, Zenon DEF Promise!Next, Promise!Fail, Promise!GetFails, Promise!Answers
<1>6. CASE op = "remove" /\ st = "no_data"
  BY <1>3, <1>6, Zenon DEF Promise!Next, Promise!Fail, Promise!RemoveFails, Promise!Answers
<1> QED
  <2>1. (op = "insert" /\ st = "memory") \/ (op = "get" /\ st = "memory") \/ (op = "remove" /\ st = "no_data")
    OBVIOUS
  <2> QED
    BY ONLY <1>4, <1>5, <1>6, <2>1, Zenon

\* An insert without memory for its leaf or for a handle keeps the leaves.
LEMMA LeavesKept ==
  ASSUME TreeInv, pc = "open", pc' = "open",
         UNCHANGED streams \/ \E k \in Keys : StreamGrows(k) \/ StreamFails(k),
         root' = root \/ (root = Null /\ root' = Invalid)
  PROVE  Map' = Map
<1>1. Extended
  BY StreamsExtend, Zenon
<1>2. Places(Null) = {} /\ Places(Invalid) = {}
  BY DEF Places, Subtrees
<1>3. Places(root') = Places(root)
  BY ONLY <1>2, root' = root \/ (root = Null /\ root' = Invalid), Zenon
<1> QED
  BY <1>1, <1>3, MapKept, Zenon

\* An insert without memory for its leaf fails and changes nothing of the map.
LEMMA NoLeafStep ==
  ASSUME TreeInv, NEW k \in Keys, InsertNoLeaf(k), Asked("insert", k, FALSE)
  PROVE  Promise!Next
<1>1. /\ pc = "open" /\ pc' = "open" /\ "malloc" \in Faults /\ reply' = <<>> /\ status' = "memory"
      /\ root' = root \/ (root = Null /\ root' = Invalid)
      /\ \/ UNCHANGED streams
         \/ ~streamBroken /\ streamBroken' = TRUE /\ vch' \in {vch, Lshift(vch, Datum(k))} /\ key' = key
  BY DEF InsertNoLeaf, NoMemory
<1>2. UNCHANGED streams \/ StreamFails(k)
  BY <1>1, BreakFails, Zenon
<1>3. Map' = Map
  BY <1>1, <1>2, LeavesKept, Zenon
<1>4. <<"insert", "memory">> \in {<<"insert", "memory">>, <<"get", "memory">>, <<"remove", "no_data">>}
  OBVIOUS
<1> QED
  BY <1>1, <1>3, <1>4, FailStep, Zenon

\* An insert without memory for a handle fails and changes nothing of the map.
LEMMA NoHandleStep ==
  ASSUME TreeInv, NEW k \in Keys, InsertNoHandle(k), Asked("insert", k, FALSE)
  PROVE  Promise!Next
<1>1. /\ pc = "open" /\ pc' = "open" /\ reply' = <<>> /\ status' = "memory"
      /\ root' = root /\ Len(key) < MaxInserts
      /\ UNCHANGED streams \/ AllocLeaf(k)
  BY DEF InsertNoHandle, NoMemory, MayInsert
<1>2. UNCHANGED streams \/ StreamGrows(k)
  BY <1>1, AllocGrows, Zenon
<1>3. Map' = Map
  BY <1>1, <1>2, LeavesKept, Zenon
<1>4. <<"insert", "memory">> \in {<<"insert", "memory">>, <<"get", "memory">>, <<"remove", "no_data">>}
  OBVIOUS
<1> QED
  BY <1>1, <1>3, <1>4, FailStep, Zenon

\* A read that has no memory fails and changes nothing of the map.
LEMMA NoReadStep ==
  ASSUME TreeInv, NEW k \in Keys, NEW op, NEW st, Return(st), Asked(op, k, FALSE),
         <<op, st>> \in {<<"insert", "memory">>, <<"get", "memory">>, <<"remove", "no_data">>}
  PROVE  Promise!Next
<1>1. Map' = Map /\ status' = st /\ reply' = <<>>
  BY ReturnMap, Zenon
<1> QED
  BY <1>1, FailStep, Zenon

\* A process that dies loses the map.
LEMMA FollowNoneStep ==
  ASSUME FollowNone, NEW k, NEW op, Asked(op, k, FALSE)
  PROVE  Promise!Next
<1>1. pc' # "open" /\ status' = status /\ reply' = <<>>
  BY DEF FollowNone, GoWild
<1>2. Map' = <<>>
  BY <1>1, MapLost, Zenon
<1>3. Promise!Fail
  BY AskedIs, <1>1, <1>2, Zenon DEF Promise!Fail, Promise!Die
<1> QED
  BY <1>3, Zenon DEF Promise!Next

\* An open or a close leaves an empty map.
LEMMA ClearStep ==
  ASSUME (\E d \in Dimensions : Open(d)) \/ Close, NEW k, NEW op \in {"open", "close"}, Asked(op, k, TRUE)
  PROVE  Promise!Next
<1>1. root' = Null /\ status' = "success" /\ reply' = <<>>
  BY DEF Open, Close
<1>2. Map' = <<>>
  BY <1>1, MapLost, Zenon
<1>a. asked'.op \in {"open", "close"}
  BY DEF Asked
<1>3. Promise!Clear
  BY <1>1, <1>2, <1>a, Zenon DEF Promise!Clear, Promise!Answers
<1> QED
  BY <1>3, Zenon DEF Promise!Next

\* Every step of the tree is one of the dictionary or changes nothing of it.
LEMMA DictionaryStep ==
  ASSUME TreeInv, [BTreeNext]_vars
  PROVE  [Promise!Next]_(Promise!dictVars)
<1>1. ASSUME (\E d \in Dimensions : Open(d)) /\ Asked("open", 0, TRUE) PROVE Promise!Next
  BY <1>1, "open" \in {"open", "close"}, ClearStep, Zenon
<1>a. ASSUME Close /\ Asked("close", 0, TRUE) PROVE Promise!Next
  BY <1>a, "close" \in {"open", "close"}, ClearStep, Zenon
<1>2. ASSUME NEW k \in Keys, InsertNew(k, Enough), Asked("insert", k, TRUE) PROVE Promise!Next
  <2>1. Enough \in Nat
    BY InvHas, Zenon DEF Enough
  <2> QED
    BY <1>2, <2>1, InsertNewStep, Zenon
<1>3. ASSUME NEW k \in Keys, InsertNoNode(k), Asked("insert", k, FALSE) PROVE Promise!Next
  <2>1. PICK n \in 0 .. 2 : InsertNew(k, n)
    BY <1>3, Zenon DEF InsertNoNode
  <2>2. n \in Nat /\ ~FALSE
    BY <2>1
  <2> QED
    BY <1>3, <2>1, <2>2, InsertNewStep, Zenon
<1>4. ASSUME NEW k \in Keys, GetdataNoHandle(k), Asked("get", k, FALSE) PROVE Promise!Next
  <2>1. Return("memory") /\ <<"get", "memory">> \in {<<"insert", "memory">>, <<"get", "memory">>, <<"remove", "no_data">>}
    BY <1>4 DEF GetdataNoHandle
  <2> QED
    BY <1>4, <2>1, NoReadStep, Zenon
<1>5. ASSUME NEW k \in Keys, RemoveNoHandle, Asked("remove", k, FALSE) PROVE Promise!Next
  <2>1. Return("no_data") /\ <<"remove", "no_data">> \in {<<"insert", "memory">>, <<"get", "memory">>, <<"remove", "no_data">>}
    BY <1>5 DEF RemoveNoHandle
  <2> QED
    BY <1>5, <2>1, NoReadStep, Zenon
<1>6. ASSUME UNCHANGED vars PROVE UNCHANGED Promise!dictVars
  <2>1. UNCHANGED <<streams, root, pc>> /\ status' = status /\ reply' = reply /\ asked' = asked
    BY <1>6 DEF vars
  <2>2. Map' = Map
    BY <2>1, MapSame, Zenon
  <2> QED
    BY ONLY <2>1, <2>2 DEF Promise!dictVars
<1> QED
  BY ONLY TreeInv, [BTreeNext]_vars, <1>1, <1>a, <1>2, <1>3, <1>4, <1>5, <1>6, InsertRootStep,
     OverlapStep, GetdataStep, RemoveStep, NoLeafStep, NoHandleStep, FollowNoneStep, Zenon
     DEF BTreeNext, Call, FailingCall

\* The dictionary is empty at first.
LEMMA DictionaryInit == BTreeInit => Promise!Init
<1> SUFFICES ASSUME BTreeInit PROVE Promise!Init
  OBVIOUS
<1>1. pc # "open" /\ status = "success" /\ reply = <<>> /\ asked.op = "none"
  BY DEF BTreeInit
<1>2. Map = <<>>
  BY <1>1, Zenon DEF Map
<1> QED
  BY ONLY <1>1, <1>2, Zenon DEF Promise!Init

\* fs_btree.h: insert, getdata, remove, open and close are those of a dictionary: the key that
\* a call names is found, refused and removed exactly when it is there, with the data it was
\* inserted with; only a call whose memory failed may answer otherwise or lose keys.
THEOREM TreeIsADictionary == BTreeSpec => DictionarySpec
<1>1. BTreeInit => Promise!Init
  BY DictionaryInit
<1>2. TreeInv /\ [BTreeNext]_vars => [Promise!Next]_(Promise!dictVars)
  BY DictionaryStep
<1> QED
  BY <1>1, <1>2, TreeInvHolds, PTL DEF BTreeSpec, DictionarySpec, Promise!Spec
=============================================================================
