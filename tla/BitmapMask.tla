----------------------------- MODULE BitmapMask -----------------------------
(***************************************************************************)
(* The bit arithmetic of fs_bitmap.h.  The bitmap keeps one bit per sector;*)
(* bit s of the whole bitmap is bit s % SectorBits of meta sector          *)
(* s \div SectorBits.  A read-modify-write of a range works on a buffer of  *)
(* RwSectors(num) meta sectors, the first of which holds the bit of the     *)
(* range's first sector.  A buffer is modelled by the positions of the bits *)
(* that are set in it: bit k of byte j is position j * ByteBits + k.        *)
(***************************************************************************)
EXTENDS Integers

CONSTANTS ByteBits,     \* BITS_PER_BYTE
          SectorBytes   \* BYTES_PER_SECTOR

ASSUME MaskAssumption == ByteBits \in Nat \ {0} /\ SectorBytes \in Nat \ {0}

\* _BITS_PER_SECTOR: the bits of one meta sector, and the sectors at the
\* front of the volume (BCR and BPB) that have no bit at all.
SectorBits == ByteBits * SectorBytes

\* The division and the remainder of C truncate toward zero.
CDiv(n, d) == IF n >= 0 THEN n \div d ELSE -((-n) \div d)
CRem(n, d) == n - CDiv(n, d) * d

\* The sectors begin .. begin + num - 1.
Range0(begin, num) == begin .. begin + num - 1

\* -metabegin: the meta sector that holds the bit of a sector.
MetaSector(sector) == sector \div SectorBits

\* rwsec: how many meta sectors a read-modify-write of num bits transfers.
RwSectors(num) == (num \div SectorBits) + 2

\* z: the bits of the front byte, from the bit of begin to the end of that byte.
FrontBits(begin) == ByteBits - (begin % ByteBits)

\* a: the bits of the byte after the inner ones; negative when num < z.
BackBits(begin, num) == CRem(num - FrontBits(begin), ByteBits)

\* b: the whole bytes between the front byte and the back byte.
InnerBytes(begin, num) == CDiv(num - FrontBits(begin), ByteBits)

\* r and q: the index of the front byte and of the back byte in the buffer.
FrontByte(begin) == (begin % SectorBits) \div ByteBits

\* A slip in q: the front byte is not counted.
BackByteShort(begin, num) == FrontByte(begin) + InnerBytes(begin, num)
BackByte(begin, num) == FrontByte(begin) + 1 + InnerBytes(begin, num)

\* The buffer positions that fs_bitmap_setmask sets and fs_bitmap_erasemask
\* clears: the last z bits of byte r, the bytes r + 1 .. q - 1, and the first
\* a bits of byte q.
Mask(begin, num) ==
  LET inner == (FrontByte(begin) + 1) * ByteBits
      back  == BackByte(begin, num) * ByteBits
  IN  Range0(inner - FrontBits(begin), FrontBits(begin))
        \cup (inner .. back - 1)
        \cup Range0(back, BackBits(begin, num))

\* The sectors whose bits are in the buffer of a read-modify-write.
Window(begin, num) ==
  Range0(MetaSector(begin) * SectorBits, RwSectors(num) * SectorBits)

\* The sectors whose bits the masks touch.
MaskedSectors(begin, num) ==
  {MetaSector(begin) * SectorBits + p : p \in Mask(begin, num)}

\* The ranges for which the masks are exact: the range reaches the end of its
\* front byte.  A range of whole bytes does so wherever it begins, which is why
\* the cluster layer, whose clusters are whole bytes of the bitmap, is safe.
ReachesByteEnd(begin, num) == num >= FrontBits(begin)
=============================================================================
