----------------------------- MODULE DataStack ------------------------------
(***************************************************************************)
(* What the fragment vector promises: a stack of data, each of which can   *)
(* be read by its index.  An insertion without memory leaves the data as   *)
(* they are; what another insertion after it does is undefined.            *)
(***************************************************************************)
EXTENDS Integers, Sequences

CONSTANTS Values,        \* what is stored
          MemoryMayFail  \* whether there may be no memory

VARIABLES contents,  \* the data, the first inserted first
          reply,     \* what the last call gave: <<value>>, or <<>>
          failed     \* the memory of an insertion is missing

stackVars == <<contents, reply, failed>>

Init == contents = <<>> /\ reply = <<>> /\ failed = FALSE

Insert == /\ \E v \in Values : contents' = Append(contents, v)
          /\ reply' = <<>> /\ UNCHANGED failed
InsertFails ==
  MemoryMayFail /\ failed' = TRUE /\ reply' = <<>> /\ UNCHANGED contents

Get == /\ \E i \in 1 .. Len(contents) : reply' = <<contents[i]>>
       /\ UNCHANGED <<contents, failed>>
Pop == /\ contents # <<>>
       /\ reply' = <<contents[Len(contents)]>>
       /\ contents' = SubSeq(contents, 1, Len(contents) - 1) /\ UNCHANGED failed

\* clear, and close with the next open.
Clear == contents' = <<>> /\ reply' = <<>> /\ failed' \in {failed, FALSE}

\* An allocation that failed is used, and the data are gone with the process.
Break == MemoryMayFail /\ failed' = TRUE /\ contents' = <<>> /\ reply' = <<>>

Next == Insert \/ InsertFails \/ Get \/ Pop \/ Clear \/ Break
Spec == Init /\ [][Next]_stackVars
=============================================================================
