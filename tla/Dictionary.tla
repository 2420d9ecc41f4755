----------------------------- MODULE Dictionary -----------------------------
(***************************************************************************)
(* What the B-tree promises: a map from keys to data.  Each call is known  *)
(* by what was asked: the operation, the key and whether there was memory  *)
(* enough.  With memory the answer is that of the map for the very key that*)
(* was asked for: an insert of a key that is there is not accepted, a get  *)
(* gives the key's own datum, a get or remove finds no data exactly when   *)
(* the key is not there.  Without, an insert may lose other keys, whether  *)
(* its own comes in or not, but never gives a key data that are not its    *)
(* own or brings one back, and a remove may find nothing.                  *)
(***************************************************************************)
EXTENDS Functions

CONSTANTS Keys, Data  \* what is stored: data are pairs <<key, what>>

VARIABLES dict,    \* the map
          asked,   \* the last call: [op, key, memory]
          answer,  \* its status
          reply    \* <<the data it gave>>, or <<>>

dictVars == <<dict, asked, answer, reply>>

Init == dict = <<>> /\ asked.op = "none" /\ answer = "success" /\ reply = <<>>

With(k, v) == [x \in DOMAIN dict \cup {k} |-> IF x = k THEN v ELSE dict[x]]

Asks(op, k) == asked'.op = op /\ asked'.key = k
Answers(st) == answer' = st /\ reply' = <<>>

Insert(k, v) ==
  /\ Asks("insert", k) /\ k \notin DOMAIN dict /\ v[1] = k
  /\ dict' = With(k, v) /\ Answers("success")
Refuse(k) == Asks("insert", k) /\ k \in DOMAIN dict /\ Answers("no_accept") /\ UNCHANGED dict

Get(k) ==
  /\ Asks("get", k) /\ k \in DOMAIN dict
  /\ answer' = "success" /\ reply' = <<dict[k]>> /\ UNCHANGED dict
Remove(k) ==
  /\ Asks("remove", k) /\ k \in DOMAIN dict
  /\ dict' = Restrict(dict, DOMAIN dict \ {k}) /\ Answers("success")

\* A get or a remove of a key that is not there.
Miss(k) ==
  /\ Asks("get", k) \/ Asks("remove", k)
  /\ k \notin DOMAIN dict /\ Answers("no_data") /\ UNCHANGED dict

Clear == asked'.op \in {"open", "close"} /\ dict' = <<>> /\ Answers("success")

\* Calls without memory.
InsertLoses(k) ==
  /\ Asks("insert", k) /\ Answers("memory")
  /\ \/ \E ks \in SUBSET DOMAIN dict : dict' = Restrict(dict, ks)
     \/ \E v \in Data : \E ks \in SUBSET DOMAIN With(k, v) :
          v[1] = k /\ k \notin DOMAIN dict /\ dict' = Restrict(With(k, v), ks)
GetFails(k) == Asks("get", k) /\ Answers("memory") /\ UNCHANGED dict
RemoveFails(k) == Asks("remove", k) /\ Answers("no_data") /\ UNCHANGED dict

\* The process dies of it, and all that is in memory is lost.
Die == dict' = <<>> /\ reply' = <<>> /\ UNCHANGED answer

Fail ==
  /\ ~asked'.memory
  /\ Die \/ \E k \in Keys : InsertLoses(k) \/ GetFails(k) \/ RemoveFails(k)

Next == \/ \E k \in Keys : Refuse(k) \/ Get(k) \/ Remove(k) \/ Miss(k)
        \/ \E k \in Keys, v \in Data : Insert(k, v)
        \/ Clear \/ Fail
Spec == Init /\ [][Next]_dictVars
=============================================================================
