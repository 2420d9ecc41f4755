------------------------------- MODULE Hasher --------------------------------
(***************************************************************************)
(* What SHA-256 hashes (FIPS 180-4, 5.1.1 and 5.2.1): the message, a 1 bit *)
(* and as few 0 bits as fill a block with the length of the message, cut   *)
(* into blocks; however the message came in.                               *)
(***************************************************************************)
EXTENDS Integers, Sequences

CONSTANTS BlockBytes, LengthBytes,  \* the bytes of a block and of the length in it
          Lengths,                  \* the lengths of pieces of a message
          Bytes(_, _, _),           \* the bytes of message m from position p on, n of them
          Number(_)                 \* the byte of a value

VARIABLES message,   \* the number of the message, 0 before the first
          absorbed,  \* the bytes hashed since it began
          digested   \* the blocks of the last digest, or <<>>

hasherVars == <<message, absorbed, digested>>

Zeros(n) == [i \in 1 .. n |-> Number(0)]

\* n in base 256, the highest digit first.
BigEndian(n) ==
  LET rest[k \in 0 .. LengthBytes] == IF k = 0 THEN n ELSE rest[k - 1] \div 256
  IN  [k \in 1 .. LengthBytes |-> Number(rest[LengthBytes - k] % 256)]

Fill(n) == CHOOSE z \in 0 .. BlockBytes - 1 : ((n + 1 + z + LengthBytes) % BlockBytes) = 0

Padded(m) ==
  m \o << Number(128) >> \o Zeros(Fill(Len(m))) \o BigEndian(8 * Len(m))

Blocks(m) ==
  [b \in 1 .. Len(m) \div BlockBytes |-> SubSeq(m, (b - 1) * BlockBytes + 1, b * BlockBytes)]

Init == message = 0 /\ absorbed = <<>> /\ digested = <<>>

Begin == message' = message + 1 /\ absorbed' = <<>> /\ digested' = <<>>

Absorb == /\ \E n \in Lengths : absorbed' = absorbed \o Bytes(message, Len(absorbed), n)
          /\ UNCHANGED <<message, digested>>

\* The state of the hash goes on behind the padding, if it goes on.
Digest == /\ absorbed' = Padded(absorbed) /\ digested' = Blocks(absorbed')
          /\ UNCHANGED message

\* The hash is let go.
Release == digested' = <<>> /\ UNCHANGED <<message, absorbed>>

Next == Begin \/ Absorb \/ Digest \/ Release
Spec == Init /\ [][Next]_hasherVars
=============================================================================
