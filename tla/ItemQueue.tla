------------------------------ MODULE ItemQueue ------------------------------
(***************************************************************************)
(* What the data stream promises: items that stay in the order they came,  *)
(* taken one after the other from the first on, or read at any place.  A   *)
(* call without memory changes neither the items nor the place, but when   *)
(* it was to store an item, no other call stores one.                      *)
(***************************************************************************)
EXTENDS Integers, Sequences

CONSTANTS Items,         \* what is stored
          MemoryMayFail  \* whether there may be no memory

VARIABLES items,   \* the items, the first shifted in first
          taken,   \* how many of them have been shifted out
          given,   \* <<the item the last call gave>>, or <<>>
          answer,  \* its status
          broken   \* an item could not be stored: no other ever will be

queueVars == <<items, taken, given, answer, broken>>

Init == items = <<>> /\ taken = 0 /\ given = <<>> /\ answer = "success" /\ broken = FALSE

ShiftIn == /\ ~broken /\ \E item \in Items : items' = Append(items, item)
           /\ answer' = "success" /\ given' = <<>> /\ UNCHANGED <<taken, broken>>

ShiftOut == /\ taken < Len(items) /\ taken' = taken + 1
            /\ given' = << items[taken'] >> /\ answer' = "success" /\ UNCHANGED <<items, broken>>

Read == /\ \E i \in 1 .. Len(items) : given' = << items[i] >>
        /\ answer' = "success" /\ UNCHANGED <<items, taken, broken>>

Fail == /\ MemoryMayFail /\ given' = <<>> /\ answer' = "memory" /\ broken' \in {broken, TRUE}
        /\ UNCHANGED <<items, taken>>

\* A call has begun: what the last one gave is forgotten.
Begin == given' = <<>> /\ UNCHANGED <<items, taken, answer, broken>>

\* The stream is closed, or an allocation that failed is used and the process dies.
Lose == /\ items' = <<>> /\ taken' = 0 /\ given' = <<>>
        /\ \/ answer' = "success" /\ broken' = FALSE
           \/ MemoryMayFail /\ UNCHANGED answer /\ broken' = TRUE

Next == Begin \/ ShiftIn \/ ShiftOut \/ Read \/ Fail \/ Lose
Spec == Init /\ [][Next]_queueVars
=============================================================================
