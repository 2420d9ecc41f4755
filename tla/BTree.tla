------------------------------- MODULE BTree --------------------------------
(***************************************************************************)
(* fs_btree.h: a tree whose leaves hold places in two data streams, one of *)
(* keys and one of data, for items of one cluster at most.  Insert and     *)
(* remove descend by fs_btree_getlocate alone; a search looks at all the   *)
(* leaves of the node it ends in.  Every read of a stream allocates a      *)
(* handle, so most steps can fail for want of memory.                      *)
(***************************************************************************)
EXTENDS BTreeNode, FiniteSets

CONSTANTS Keys,        \* natural numbers, in the order strcmp gives the keys
          Dimensions,  \* bound: arguments of open
          Loads,       \* bound: keys a client inserts before anything else
          Extra,       \* bound: the leaves it allocates after them
          MaxItems,    \* bound: the leaves it allocates in all
          Faults,      \* {"malloc"} when memory may run out
          FaultyLoad   \* bound: it does so behind loads of this length at most

ASSUME BTreeAssumption ==
  /\ Keys \subseteq Nat /\ IsFiniteSet(Keys) /\ Extra \in Nat /\ FaultyLoad \in Nat
  /\ Dimensions \subseteq {d \in Nat : d >= 3} /\ Loads \subseteq Seq(Keys)
  /\ MaxItems \in Nat /\ \A l \in Loads : Len(l) + Extra <= MaxItems
  /\ Faults \subseteq {"malloc"}

VARIABLES dimension,
          key, vch,       \* the streams: sequences of keys and of data
          root,           \* Null, Invalid, a leaf or a node
          overlap_index,  \* the place of the key that an insert met
          status,
          pc,             \* "closed", "open" or "wild"
          streamBroken,   \* ghost: memory of a stream is missing, as FragVector says
          reply,          \* <<what the last getdata gave>>, or <<>>
          load,           \* what the client inserts first
          asked           \* ghost: the last call, and whether its memory sufficed

streams == <<key, vch, streamBroken>>
vars == <<dimension, streams, root, overlap_index, status, pc, reply, load, asked>>

Leaf(i) == [type |-> "n_leaf", vch_index |-> i]
Node(e) == [type |-> "n_node", entries |-> e]
Null == [type |-> "null"]
Invalid == [type |-> "invalid"]
IsLeaf(t) == t.type = "n_leaf"
IsNode(t) == t.type = "n_node"

\* What hangs from a pointer: the trees of height n at most.  A node has two entries
\* or more, so none is higher than there are leaves.
Leaves == [type : {"n_leaf"}, vch_index : Nat]
NodesOver(trees) ==
  [type : {"n_node"}, entries : {e \in Seq([ptr : trees, begin : Nat]) : Len(e) >= 2}]
Trees[n \in 0 .. MaxItems] == IF n = 0 THEN Leaves ELSE Leaves \cup NodesOver(Trees[n - 1])
Tree == Trees[MaxItems]

\* A slip: the item is put before the others.
LshiftFront(stream, item) == <<item>> \o stream

\* The data streams: lshift puts an item behind the others, rgetdata reads the
\* item of an index, rgetsize counts them.
Lshift(stream, item) == Append(stream, item)
Rgetdata(stream, index) == stream[index + 1]
Rgetsize(stream) == Len(stream)

\* A slip in line 223: the size is taken for the last index.
RgetlastindexPast(stream) == Rgetsize(stream)
Rgetlastindex(stream) == Rgetsize(stream) - 1

\* The default order: it is that of strcmp turned round.
fkeylt(a, b) == a >= b

LocateIn(t, k) ==
  Locate([i \in 1 .. Len(t.entries) |-> fkeylt(Rgetdata(key, t.entries[i].begin), k)])

Child(t, k) == t.entries[LocateIn(t, k) + 1].ptr

\* The leaf that the descent for a key ends in.
LocatedLeaf(t, k) ==
  LET Down[u \in Tree] == IF IsLeaf(u) THEN u ELSE Down[Child(u, k)]
  IN  Down[t]

\* The leaves a search for a key looks at: those of the last node it comes to.
Candidates(t, k) ==
  LET Down[u \in Tree] == IF IsLeaf(u) THEN {u}
                          ELSE IF IsNode(Child(u, k)) THEN Down[Child(u, k)]
                          ELSE {u.entries[i].ptr : i \in DOMAIN u.entries}
  IN  Down[t]

\* fs_btree_search, of a tree that has a root: the leaves it may return.
Search(k) == {l \in Candidates(root, k) : Rgetdata(key, l.vch_index) = k}

\* A slip in lines 264-268: the new leaf always goes behind the one that was met.
PlaceBehind(l, a, k) == [node |-> l, xn |-> <<[ptr |-> a, begin |-> a.vch_index]>>]

\* fs_btree_insert1 at a leaf l, with the new leaf a: what takes the place of l,
\* and the entry that comes behind it.
Place(l, a, k) ==
  IF fkeylt(k, Rgetdata(key, l.vch_index))
  THEN [node |-> a, xn |-> <<[ptr |-> l, begin |-> l.vch_index]>>]
  ELSE [node |-> l, xn |-> <<[ptr |-> a, begin |-> a.vch_index]>>]

\* fs_btree_insert1 at a node t, when it returns from the one at place pos with r:
\* what becomes of t, the entry that goes behind it in the parent, if any, and how
\* many nodes more can be allocated: one that cannot makes them negative.  Its
\* entry is lost then, and nothing is taken back.
Rise(t, pos, r) ==
  LET e   == [t.entries EXCEPT ![pos + 1] = [ptr |-> r.node, begin |-> t.entries[pos + 1].begin]]
      two == Split(e, pos, r.xn[1], dimension)
      Done(entries, n) == [node |-> Node(entries), xn |-> <<>>, nodes |-> n]
  IN  IF r.xn = <<>> THEN Done(e, r.nodes)
      ELSE IF Len(e) < dimension THEN Done(InsertEntry(e, pos, r.xn[1]), r.nodes)
      ELSE IF r.nodes = 0 THEN Done(e, -1)
      ELSE [node |-> Node(two.left), nodes |-> r.nodes - 1,
            xn |-> <<[ptr |-> Node(two.right), begin |-> two.right[1].begin]>>]

\* fs_btree_insert1 in a tree t.
Insert1(t, a, k, nodes) ==
  LET Into[u \in Tree] ==
        IF IsLeaf(u) THEN [node |-> Place(u, a, k).node, xn |-> Place(u, a, k).xn, nodes |-> nodes]
        ELSE Rise(u, LocateIn(u, k), Into[Child(u, k)])
  IN  Into[t]

Leftmost[t \in Tree] == IF IsLeaf(t) THEN t.vch_index ELSE Leftmost[t.entries[1].ptr]

\* fs_btree_insert from line 350 on: a root that was split gets a node above it.
Grow(r) ==
  IF r.xn = <<>> \/ r.nodes = 0 THEN r.node
  ELSE Node(<<[ptr |-> r.node, begin |-> Leftmost[r.node]], r.xn[1]>>)

\* fs_btree_remove1 at a node t, when it returns from the one at place pos with r:
\* what becomes of t, whether the key was there (retv), and what the parent has to
\* do (result).
Sink(t, pos, r) ==
  LET e   == [t.entries EXCEPT ![pos + 1] = [ptr |-> r.node, begin |-> t.entries[pos + 1].begin]]
      sub == IF pos = 0 THEN 1 ELSE pos
      m   == Merge(e[sub].ptr.entries, e[sub + 1].ptr.entries, e[sub + 1].begin, dimension)
      one == [e EXCEPT ![sub] = [ptr |-> Node(m.left), begin |-> e[sub].begin]]
      two == [one EXCEPT ![sub + 1] = [ptr |-> Node(m.right), begin |-> m.right[1].begin]]
      Keep(entries) == [node |-> Node(entries), retv |-> r.retv, result |-> "ok"]
      Drop(entries) == [node |-> Node(entries), retv |-> r.retv, result |->
                          IF Len(entries) < halfdim(dimension) THEN "need_merge" ELSE "ok"]
  IN  IF r.result = "ok" THEN Keep(e)
      ELSE IF r.result = "removed" THEN Drop(RemoveEntry(e, pos))
      ELSE IF m.connected THEN Drop(RemoveEntry(one, sub))
      ELSE Keep(two)

\* fs_btree_remove1 in a tree t.
Remove1(t, k) ==
  LET Equ(u) == Rgetdata(key, u.vch_index) = k
      From[u \in Tree] ==
        IF IsLeaf(u) THEN [node |-> u, retv |-> Equ(u), result |-> IF Equ(u) THEN "removed" ELSE "ok"]
        ELSE Sink(u, LocateIn(u, k), From[Child(u, k)])
  IN  From[t]

\* A slip in line 464: a root of one entry stays.
ShrinkNever(r) == IF r.result = "removed" THEN Null ELSE r.node

\* fs_btree_remove: the last leaf goes, or a root of one entry.
Shrink(r) ==
  IF r.result = "removed" THEN Null
  ELSE IF r.result = "need_merge" /\ Len(r.node.entries) = 1 THEN r.node.entries[1].ptr
  ELSE r.node
-----------------------------------------------------------------------------
BTreeInit ==
  /\ dimension = 3 /\ key = <<>> /\ vch = <<>> /\ streamBroken = FALSE
  /\ root = Null /\ overlap_index = -1 /\ status = "success" /\ pc = "closed" /\ reply = <<>>
  /\ load \in Loads /\ asked = [op |-> "none", key |-> 0, memory |-> TRUE]

Open(d) ==
  /\ pc = "closed" /\ pc' = "open" /\ dimension' = d
  /\ key' = <<>> /\ vch' = <<>> /\ streamBroken' = FALSE
  /\ root' = Null /\ overlap_index' = -1 /\ status' = "success" /\ reply' = <<>>
  /\ UNCHANGED load

\* A call that does nothing but set the status.
Return(st) ==
  /\ status' = st /\ reply' = <<>>
  /\ UNCHANGED <<dimension, streams, root, overlap_index, pc, load>>

\* A pointer that is none is followed.
GoWild ==
  /\ pc' = "wild" /\ reply' = <<>>
  /\ UNCHANGED <<dimension, streams, root, overlap_index, status, load>>

Loaded == Len(key) >= Len(load)
MaxInserts == Len(load) + Extra
HasRoot == root \notin {Null, Invalid}
MayInsert(k) ==
  pc = "open" /\ Len(key) < MaxInserts /\ (~Loaded => k = load[Len(key) + 1])

\* The data of an insert: no two are the same.
Datum(k) == <<k, Len(key)>>

\* fs_btree_alloc of a leaf, when there is memory.
AllocLeaf(k) ==
  /\ ~streamBroken
  /\ vch' = Lshift(vch, Datum(k)) /\ key' = Lshift(key, k) /\ UNCHANGED streamBroken
NewLeaf == Leaf(Rgetlastindex(key'))

InsertRoot(k) ==
  /\ MayInsert(k) /\ root = Null
  /\ AllocLeaf(k) /\ root' = NewLeaf
  /\ status' = "success" /\ reply' = <<>>
  /\ UNCHANGED <<dimension, overlap_index, pc, load>>

\* The key is there: the place of the leaf that was met is kept.
InsertOverlap(k) ==
  /\ MayInsert(k) /\ HasRoot /\ Search(k) # {}
  /\ overlap_index' = LocatedLeaf(root, k).vch_index
  /\ status' = "no_accept" /\ reply' = <<>>
  /\ UNCHANGED <<dimension, streams, root, pc, load>>

\* The nodes that an insert needs at most, so as many as there may be memory for.
Enough == MaxInserts
InsertNew(k, nodes) ==
  /\ MayInsert(k) /\ HasRoot /\ Search(k) = {}
  /\ AllocLeaf(k)
  /\ LET r == Insert1(root, NewLeaf, k, nodes)
     IN  /\ root' = Grow(r)
         /\ status' = IF r.nodes < 0 \/ (r.xn # <<>> /\ r.nodes = 0) THEN "memory" ELSE "success"
  /\ reply' = <<>>
  /\ UNCHANGED <<dimension, overlap_index, pc, load>>

\* fs_btree_getdata.
Getdata(k) ==
  /\ pc = "open" /\ Loaded
  /\ \/ root = Null /\ Return("no_data")
     \/ HasRoot /\ Search(k) = {} /\ Return("no_data")
     \/ /\ HasRoot
        /\ \E l \in Search(k) : reply' = <<Rgetdata(vch, l.vch_index)>>
        /\ status' = "success"
        /\ UNCHANGED <<dimension, streams, root, overlap_index, pc, load>>

\* fs_btree_remove.
Remove(k) ==
  /\ pc = "open" /\ Loaded
  /\ \/ root = Null /\ Return("no_data")
     \/ /\ HasRoot
        /\ LET r == Remove1(root, k)
           IN  root' = Shrink(r) /\ status' = (IF r.retv THEN "success" ELSE "no_data")
        /\ reply' = <<>>
        /\ UNCHANGED <<dimension, streams, overlap_index, pc, load>>

\* fs_btree_close; from "wild" the process has died.
Close ==
  /\ \/ pc = "open" /\ Loaded /\ root # Invalid
     \/ pc = "wild"
  /\ pc' = "closed" /\ root' = Null /\ key' = <<>> /\ vch' = <<>> /\ streamBroken' = FALSE
  /\ overlap_index' = -1 /\ status' = "success" /\ reply' = <<>>
  /\ UNCHANGED <<dimension, load>>
-----------------------------------------------------------------------------
NoMemory == "malloc" \in Faults /\ pc = "open" /\ Len(load) <= FaultyLoad

\* An insert has no memory for the leaf, or for one of the streams to take its
\* item.  The first leaf's failure stays in root.
InsertNoLeaf(k) ==
  /\ NoMemory /\ MayInsert(k)
  /\ \/ root = Null /\ root' = Invalid
     \/ HasRoot /\ Search(k) = {} /\ UNCHANGED root
  /\ \/ UNCHANGED streams
     \/ /\ ~streamBroken /\ streamBroken' = TRUE
        /\ vch' \in {vch, Lshift(vch, Datum(k))} /\ UNCHANGED key
  /\ status' = "memory" /\ reply' = <<>>
  /\ UNCHANGED <<dimension, overlap_index, pc, load>>

\* The search of an insert has no memory for a handle, or (line 263) the read of
\* the leaf that was met, when the new leaf's items are in the streams.
InsertNoHandle(k) ==
  /\ NoMemory /\ MayInsert(k) /\ HasRoot
  /\ \/ UNCHANGED streams
     \/ Search(k) = {} /\ AllocLeaf(k)
  /\ status' = "memory" /\ reply' = <<>>
  /\ UNCHANGED <<dimension, root, overlap_index, pc, load>>

\* There is no memory for some nodes: see Insert1.
InsertNoNode(k) == NoMemory /\ \E nodes \in 0 .. 2 : InsertNew(k, nodes)

\* The last read of a getdata, or that of the leaf that a remove comes to, has no
\* memory: the remove finds no data then.
GetdataNoHandle(k) == NoMemory /\ Loaded /\ HasRoot /\ Search(k) # {} /\ Return("memory")
RemoveNoHandle == NoMemory /\ Loaded /\ HasRoot /\ Return("no_data")

\* A place is INDEX_ERROR when fs_btree_getlocate has no memory, and insert1 and
\* remove1 use it; getdata uses the INVALID_B_NODE that a search returns; a root
\* that is INVALID_B_NODE is used by all; a stream whose memory is missing stores
\* nowhere, and its pointer table is copied to nowhere.
FollowNone ==
  /\ NoMemory /\ (HasRoot \/ root = Invalid \/ Len(key) < MaxInserts)
  /\ GoWild

Asked(op, k, memory) == asked' = [op |-> op, key |-> k, memory |-> memory]

Call ==
  \/ (\E d \in Dimensions : Open(d)) /\ Asked("open", 0, TRUE)
  \/ Close /\ Asked("close", 0, TRUE)
  \/ \E k \in Keys :
       \/ (InsertRoot(k) \/ InsertOverlap(k) \/ InsertNew(k, Enough)) /\ Asked("insert", k, TRUE)
       \/ Getdata(k) /\ Asked("get", k, TRUE)
       \/ Remove(k) /\ Asked("remove", k, TRUE)
FailingCall ==
  \/ \E k \in Keys :
       \/ (InsertNoLeaf(k) \/ InsertNoHandle(k) \/ InsertNoNode(k)) /\ Asked("insert", k, FALSE)
       \/ GetdataNoHandle(k) /\ Asked("get", k, FALSE)
       \/ RemoveNoHandle /\ Asked("remove", k, FALSE)
  \/ FollowNone /\ Asked("any", 0, FALSE)

BTreeNext == Call \/ FailingCall
BTreeSpec == BTreeInit /\ [][BTreeNext]_vars
-----------------------------------------------------------------------------
\* A tree and all that is below it.
Below[t \in Tree] ==
  IF IsLeaf(t) THEN {t} ELSE {t} \cup UNION {Below[t.entries[i].ptr] : i \in DOMAIN t.entries}
Subtrees(t) == IF t \in {Null, Invalid} THEN {} ELSE Below[t]

Nodes(t) == {u \in Subtrees(t) : IsNode(u)}
\* The places that the leaves of a tree hold.
Places(t) == {u.vch_index : u \in {v \in Subtrees(t) : IsLeaf(v)}}
KeyOf(index) == Rgetdata(key, index)

\* The trees whose leaves are all n deep.
Even[n \in 0 .. MaxItems] == IF n = 0 THEN Leaves ELSE NodesOver(Even[n - 1])

\* The state is well typed: places are in the streams, and a handle's data come
\* from the tree that is open.
BTreeTypeOK ==
  /\ dimension \in Nat /\ key \in Seq(Keys) /\ Len(key) <= MaxInserts
  /\ vch \in Seq(Keys \X Nat) /\ Len(vch) \in {Len(key), Len(key) + 1}
  /\ root \in {Null, Invalid} \cup Tree
  /\ Places(root) \subseteq 0 .. Len(key) - 1
  /\ \A t \in Nodes(root) : \A i \in DOMAIN t.entries : t.entries[i].begin \in 0 .. Len(key) - 1
  /\ overlap_index \in -1 .. Len(key) - 1
  /\ status \in {"success", "no_data", "no_accept", "memory"}
  /\ pc \in {"closed", "open", "wild"} /\ streamBroken \in BOOLEAN
  /\ reply \in {<<>>} \cup {<<vch[i]>> : i \in DOMAIN vch}

\* All leaves are equally deep, and nodes are half full at least and never over
\* full: merges and splits keep it so, which is what the assertion of line 158
\* and the arrays of dimension places count on.
Balanced ==
  /\ HasRoot => \E n \in 0 .. MaxItems : root \in Even[n]
  /\ \A t \in Nodes(root) :
       /\ Len(t.entries) <= dimension
       /\ Len(t.entries) >= IF t = root THEN 2 ELSE halfdim(dimension)

\* The leaves are in the order of their keys, each of which is there once.
InOrder ==
  \A t \in Nodes(root) : \A i \in 1 .. Len(t.entries) - 1 :
    \A a \in Places(t.entries[i].ptr), b \in Places(t.entries[i + 1].ptr) :
      fkeylt(KeyOf(a), KeyOf(b)) /\ KeyOf(a) # KeyOf(b)

\* The descent by places comes to the very leaf of a key that is there, although
\* removed keys stay in begin_ptr and the first place of a node goes stale: this
\* is what remove1 and the overlap of insert1 count on (lines 157-185, 256, 437).
LocatedExactly == \A i \in Places(root) : LocatedLeaf(root, KeyOf(i)).vch_index = i

\* For any key, the bisection of a node finds the last entry behind the first
\* that begins before it (lines 164-183).
LocatesLast ==
  \A t \in Nodes(root), k \in Keys :
    LET Begins(i) == fkeylt(KeyOf(t.entries[i].begin), k)
    IN  LocateIn(t, k) = Cardinality({i \in 2 .. Len(t.entries) : Begins(i)})

\* The map that the leaves hold.
Map == IF pc # "open" THEN <<>>
       ELSE LET places == Places(root)
            IN  [k \in {KeyOf(i) : i \in places} |->
                   Rgetdata(vch, CHOOSE i \in places : KeyOf(i) = k)]

\* The tree is a map: the key that a call names is found, refused and removed exactly
\* when it is there, with the data it was inserted with, whatever inserts and removes
\* have done to the nodes; only a call in which memory failed may answer otherwise,
\* and an insert that does loses keys at most.
Promise == INSTANCE Dictionary WITH
  dict <- Map, answer <- status, Data <- Keys \X (0 .. MaxItems)
DictionarySpec == Promise!Spec

\* The two streams do what DataStream is shown to do, no more: the tree counts on items
\* that stay where they are, and on a stream that stores none after a failure, so that
\* keys and data are never out of step for a later leaf (lines 226-233).
KeyQueue == INSTANCE ItemQueue WITH
  Items <- Keys, items <- key, broken <- streamBroken /\ Len(vch) # Len(key),
  answer <- IF streamBroken /\ Len(vch) # Len(key) THEN "memory" ELSE "success",
  taken <- 0, given <- <<>>, MemoryMayFail <- (Faults # {})
DataQueue == INSTANCE ItemQueue WITH
  Items <- Keys \X (0 .. MaxItems), items <- vch,
  broken <- streamBroken /\ Len(vch) = Len(key),
  answer <- IF streamBroken /\ Len(vch) = Len(key) THEN "memory" ELSE "success",
  taken <- 0, given <- <<>>, MemoryMayFail <- (Faults # {})
StreamsSpec == KeyQueue!Spec /\ DataQueue!Spec
=============================================================================
