----------------------------- MODULE SectorMap ------------------------------
(***************************************************************************)
(* What the sector bitmap promises its callers, without bytes, buffers and *)
(* files: a set of used sectors that each update changes by exactly the    *)
(* range it was asked for, and that a crash can only set back by the       *)
(* latest update of each region.                                           *)
(***************************************************************************)
EXTENDS Integers

CONSTANTS Updates,    \* what callers ask for, records [op, begin, num]
          First,      \* the first sector that is recorded
          RegionSize  \* the sectors whose bits one meta file keeps

VARIABLES used,       \* the sectors recorded as used
          unsettled,  \* the sectors whose latest change a crash may still undo
          size,       \* the sectors the map has room for
          update,     \* the update in progress, or Idle
          ok          \* the last call that returned has reported success

mapVars == <<used, unsettled, size, update, ok>>

Idle == [op |-> "none", begin |-> 0, num |-> 1]
Room == 0 .. size - 1

\* The sectors that an update is to change: none of a range that begins below First.
Named == IF update.begin < First THEN {} ELSE update.begin .. update.begin + update.num - 1

Region(s) == s \div RegionSize
OtherRegions(R) == {s \in unsettled : \A r \in R : Region(s) # Region(r)}

Init == used = {} /\ unsettled = {} /\ size = RegionSize /\ update = Idle /\ ok = TRUE

\* A call that changes nothing, and the beginning of an update.
Other == /\ UNCHANGED <<used, size>> /\ unsettled' \subseteq unsettled
         /\ update = Idle /\ update' \in Updates \cup {Idle}

\* The update ends, perhaps with more room.
Ending == update # Idle /\ update' = Idle /\ size' >= size /\ used' \subseteq Room'

\* What the new part of the map records besides the update is anyone's guess, but
\* in the old part nothing else changes, and earlier updates of the regions that
\* this one touches are settled.
Succeed ==
  /\ Ending /\ ok'
  /\ IF update.op = "set" THEN Named \subseteq used' ELSE Named \cap used' = {}
  /\ (used' \cap Room) \ Named = used \ Named
  /\ unsettled' \subseteq Named \cup OtherRegions(Named) \cup (Room' \ Room)

\* An update that fails may have changed some of its sectors, and no other.
Fail ==
  /\ Ending /\ ~ok'
  /\ IF update.op = "set" THEN used \subseteq used' ELSE used' \cap Room \subseteq used
  /\ (used' \cap Room) \ Named = used \ Named
  /\ unsettled' \subseteq unsettled \cup Named \cup (Room' \ Room)

\* A crash undoes some of the unsettled changes; an update that was enlarging the
\* map may leave it larger.
Crash ==
  /\ used' \ unsettled = used \ unsettled
  /\ unsettled' = {} /\ update' = Idle
  /\ size' >= size /\ (size' # size => update # Idle)

Next == Other \/ Succeed \/ Fail \/ Crash
Spec == Init /\ [][Next]_mapVars
=============================================================================
