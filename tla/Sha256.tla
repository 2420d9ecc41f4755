------------------------------- MODULE Sha256 --------------------------------
(***************************************************************************)
(* fs_sha256.h: a hash over data that come in pieces.  What is less than a *)
(* block waits in buf, which keeps what it held before; final appends the  *)
(* padding and the length by two more updates.  The compression function   *)
(* is not interpreted: the state s is the sequence of the blocks that went *)
(* into it.  A byte is a pair: <<m, p>> is the byte at position p of       *)
(* message m, <<0, v>> one of value v.                                     *)
(***************************************************************************)
EXTENDS Integers, Sequences

CONSTANTS BlockBytes,   \* 64
          LengthBytes,  \* 8
          Pieces,       \* bound: the sizes of the data given to update
          MaxBytes,     \* bound: the bytes of a message
          Messages,     \* bound: the messages hashed one after the other
          Digests       \* bound: what the bytes of a hash may be

ASSUME Sha256Assumption ==
  /\ LengthBytes \in Nat \ {0} /\ BlockBytes \in Nat /\ BlockBytes > LengthBytes
  /\ Pieces \subseteq Nat
  /\ MaxBytes \in Nat /\ Messages \in Nat /\ \A d \in Digests : d \in Seq(0 .. 255) \ {<<>>}

VARIABLES s,        \* the blocks compressed since init
          buf,      \* the block that waits
          bytes,    \* the bytes hashed since init
          message,  \* how often init was called: which message it is
          hash,     \* the blocks that went into the hash, or <<>>
          digest,   \* the bytes of the hash, or <<>>
          hashstr,  \* the string of the last gethashstr, up to its end
          pc        \* "closed", "open" before init, "ready" or "final"

vars == <<s, buf, bytes, message, hash, digest, hashstr, pc>>

Number(v) == <<0, v>>
Bytes(m, p, n) == [i \in 1 .. n |-> <<m, p + i>>]

Sha256Init ==
  /\ s = <<>> /\ buf = [i \in 1 .. BlockBytes |-> <<-1, 0>>] /\ bytes = 0 /\ message = 0
  /\ hash = <<>> /\ digest = <<>> /\ hashstr = <<>> /\ pc = "closed"

\* fs_sha256_open clears the hash alone; the rest is what the memory held, perhaps that
\* of the object closed before.
Open ==
  /\ pc = "closed" /\ pc' = "open" /\ hash' = <<>> /\ digest' = <<>>
  /\ UNCHANGED <<s, buf, bytes, message, hashstr>>

\* fs_sha256_init: buf stays.
InitHash ==
  /\ pc # "closed" /\ message < Messages /\ pc' = "ready"
  /\ s' = <<>> /\ bytes' = 0 /\ message' = message + 1
  /\ hash' = <<>> /\ digest' = <<>> /\ UNCHANGED <<buf, hashstr>>

\* memcpy to an offset; what does not fit makes it longer.
Copied(to, at, data) ==
  [i \in 1 .. (IF at + Len(data) > Len(to) THEN at + Len(data) ELSE Len(to)) |->
     IF i \in at + 1 .. at + Len(data) THEN data[i - at] ELSE to[i]]
Skip(data, n) == SubSeq(data, n + 1, Len(data))

\* The state after some blocks at the front of data.
Transform(state, data, blocks) ==
  state \o [b \in 1 .. blocks |-> SubSeq(data, (b - 1) * BlockBytes + 1, b * BlockBytes)]

\* Whole blocks straight from the data, and what remains into the buffer.
Absorbed(h, data) ==
  LET blocks == Len(data) \div BlockBytes
  IN  [s     |-> Transform(h.s, data, blocks),
       buf   |-> Copied(h.buf, h.bytes % BlockBytes, Skip(data, blocks * BlockBytes)),
       bytes |-> h.bytes + Len(data)]

Fills(h, data) ==
  (h.bytes % BlockBytes) # 0 /\ (h.bytes % BlockBytes) + Len(data) >= BlockBytes

\* A slip in line 184: the block that has begun is not filled.
UpdatedNoFill(h, data) == Absorbed(h, data)

\* fs_sha256_update: a block that has begun is filled first.
Updated(h, data) ==
  LET missing == BlockBytes - (h.bytes % BlockBytes)
      filled == Copied(h.buf, h.bytes % BlockBytes, SubSeq(data, 1, missing))
  IN  IF Fills(h, data)
      THEN Absorbed([s |-> Transform(h.s, filled, 1), buf |-> filled, bytes |-> h.bytes + missing],
                    Skip(data, missing))
      ELSE Absorbed(h, data)

State == [s |-> s, buf |-> buf, bytes |-> bytes]
Becomes(h) == s' = h.s /\ buf' = h.buf /\ bytes' = h.bytes

Update(n) ==
  /\ pc \in {"ready", "final"} /\ Becomes(Updated(State, Bytes(message, bytes, n)))
  /\ UNCHANGED <<message, hash, digest, hashstr, pc>>

\* A word of the host in memory, its lowest byte first, with its bytes swapped.
Host(n) ==
  LET rest[k \in 0 .. LengthBytes] == IF k = 0 THEN n ELSE rest[k - 1] \div 256
  IN  [k \in 1 .. LengthBytes |-> Number(rest[k - 1] % 256)]
Bswap(word) == [i \in 1 .. Len(word) |-> word[Len(word) + 1 - i]]
WriteBE64(n) == Bswap(Host(n))

\* A slip in line 210: where the padding takes a whole block it takes none.
PadLengthShort == (2 * BlockBytes - LengthBytes - (bytes % BlockBytes)) % BlockBytes
PadLength == 1 + ((2 * BlockBytes - LengthBytes - 1 - (bytes % BlockBytes)) % BlockBytes)
pad == [i \in 1 .. BlockBytes |-> Number(IF i = 1 THEN 128 ELSE 0)]

\* fs_sha256_final.
Final ==
  /\ pc \in {"ready", "final"}
  /\ Becomes(Updated(Updated(State, SubSeq(pad, 1, PadLength)), WriteBE64(8 * bytes)))
  /\ hash' = s' /\ digest' \in Digests /\ pc' = "final"
  /\ UNCHANGED <<message, hashstr>>

Nul == -1
\* sprintf "%x" of a byte, and the two characters taken of it.
Formatted(v) == IF v < 16 THEN << v, Nul >> ELSE << v \div 16, v % 16 >>

\* What is before the first NUL of a string.
Seen(chars) ==
  LET ends == {i \in DOMAIN chars : chars[i] = Nul}
  IN  IF ends = {} THEN chars
      ELSE SubSeq(chars, 1, (CHOOSE i \in ends : \A k \in ends : i <= k) - 1)

\* fs_sha256_gethashstr, after final.
Gethashstr ==
  /\ pc = "final"
  /\ hashstr' = Seen([j \in 1 .. 2 * Len(digest) |-> Formatted(digest[(j + 1) \div 2])[2 - (j % 2)]])
  /\ UNCHANGED <<s, buf, bytes, message, hash, digest, pc>>

\* fs_sha256_close.
Close ==
  /\ pc # "closed" /\ pc' = "closed"
  /\ UNCHANGED <<s, buf, bytes, message, hash, digest, hashstr>>

Next ==
  \/ Open \/ InitHash \/ Gethashstr \/ Close
  \/ bytes <= MaxBytes /\ Final
  \/ \E n \in Pieces : bytes + n <= MaxBytes /\ Update(n)

Spec == Sha256Init /\ [][Next]_vars
-----------------------------------------------------------------------------
\* The buffer is never written past its end, and the counter is that of the bytes
\* that were compressed or wait.
Sha256TypeOK ==
  /\ bytes \in Nat /\ message \in 0 .. Messages /\ Len(buf) = BlockBytes
  /\ Len(s) = bytes \div BlockBytes /\ \A b \in DOMAIN s : Len(s[b]) = BlockBytes
  /\ digest \in Digests \cup {<<>>} /\ (digest # <<>> <=> hash # <<>>)
  /\ pc \in {"closed", "open", "ready", "final"}

\* The bytes that went into a state of the hash: the blocks, and what waits.
Content(h) ==
  [i \in 1 .. h.bytes |->
     LET b == ((i - 1) \div BlockBytes) + 1
         p == ((i - 1) % BlockBytes) + 1
     IN  IF b <= Len(h.s) THEN h.s[b][p] ELSE h.buf[p]]

\* However the data are cut into pieces, and whatever an earlier message has left in the
\* buffer, what is compressed is the message padded to whole blocks (lines 181-211).
Hash == INSTANCE Hasher WITH
  Lengths <- Pieces, digested <- hash, absorbed <- Content(State)
HasherSpec == Hash!Spec

\* gethashstr gives the hash in hexadecimal, two digits for each byte (lines 32-41).
HashstrIsHex ==
  [][Gethashstr =>
       hashstr' = [j \in 1 .. 2 * Len(digest) |->
                     LET v == digest[(j + 1) \div 2]
                     IN  IF (j % 2) = 1 THEN v \div 16 ELSE v % 16]]_vars
=============================================================================
