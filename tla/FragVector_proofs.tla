------------------------- MODULE FragVector_proofs --------------------------
(***************************************************************************)
(* What holds of the fragment vector for all sizes of cells and arrays:    *)
(* its addresses stay in its arrays, and it implements DataStack.          *)
(***************************************************************************)
EXTENDS FragVector, NatFacts, SequenceTheorems

\* The shape of the arrays.
ShapeOK == firstArrayInsert \in Nat /\ reallocArrayInsert \in Nat \ {0}

\* The cells of the first n arrays.
CellsIn(n) == firstArrayInsert + reallocArrayInsert * (n - 1)

\* The address of an index is in the first n arrays just when these have more
\* cells than the index, and it is a place in its array.
LEMMA AddressInArrays ==
  ASSUME ShapeOK, NEW index \in Nat, NEW n \in Nat \ {0}
  PROVE  /\ Getaddr(index).array \in Nat \ {0}
         /\ Getaddr(index).cell \in 1 .. Length(Getaddr(index).array)
         /\ Getaddr(index).array <= n <=> index < CellsIn(n)
<1> DEFINE F == firstArrayInsert
           R == reallocArrayInsert
           rest == index - F
<1>1. F \in Nat /\ R \in Nat \ {0}
  BY DEF ShapeOK
<1>2. CASE rest < 0
  <2>1. Getaddr(index) = [array |-> 1, cell |-> index + 1]
    BY <1>2 DEF Getaddr
  <2>2. R * (n - 1) \in Nat
    BY <1>1
  <2> QED
    BY <1>1, <1>2, <2>1, <2>2 DEF Length, CellsIn
<1>3. CASE ~(rest < 0)
  <2> DEFINE q == rest \div R
             r == (rest % R)
  <2>1. rest \in Nat
    BY <1>1, <1>3
  <2>2. q \in Nat /\ r \in 0 .. R - 1 /\ rest = R * q + r
    BY <1>1, <2>1, NatDivision
  <2>3. Getaddr(index) = [array |-> q + 2, cell |-> r + 1]
    BY <1>3 DEF Getaddr
  <2> HIDE DEF q, r
  <2>4. Length(q + 2) = R
    BY <2>2 DEF Length
  <2>5. q < n - 1 <=> R * q + r < R * (n - 1)
    BY <1>1, <2>2, QuotientOrder
  <2>6. R * (n - 1) \in Nat
    BY <1>1
  <2>7. q + 2 <= n <=> index < CellsIn(n)
    BY <1>1, <2>1, <2>2, <2>5, <2>6 DEF CellsIn
  <2> QED
    BY <1>1, <2>2, <2>3, <2>4, <2>7
<1> QED
  BY <1>2, <1>3

\* fs_fragment_vector.h:172-183, for all lengths of the arrays: two indices never
\* share a cell.
THEOREM AddressesDiffer ==
  ASSUME ShapeOK, NEW i \in Nat, NEW j \in Nat, Getaddr(i) = Getaddr(j)
  PROVE  i = j
<1> DEFINE F == firstArrayInsert
           R == reallocArrayInsert
<1>1. F \in Nat /\ R \in Nat \ {0}
  BY DEF ShapeOK
<1>2. ASSUME NEW k \in Nat, k < F
      PROVE  Getaddr(k).array = 1 /\ k = Getaddr(k).cell - 1
  BY <1>1, <1>2 DEF Getaddr
<1>3. ASSUME NEW k \in Nat, ~(k < F)
      PROVE  /\ Getaddr(k).array \in Nat \ {0, 1} /\ Getaddr(k).cell \in Nat
             /\ k = F + R * (Getaddr(k).array - 2) + (Getaddr(k).cell - 1)
  <2> DEFINE q == (k - F) \div R
             r == ((k - F) % R)
  <2>1. k - F \in Nat
    BY <1>1, <1>3
  <2>2. q \in Nat /\ r \in 0 .. R - 1 /\ k - F = R * q + r
    BY <1>1, <2>1, NatDivision
  <2>3. Getaddr(k) = [array |-> q + 2, cell |-> r + 1]
    BY <1>1, <1>3 DEF Getaddr
  <2> HIDE DEF q, r
  <2>4. R * q \in Nat /\ (q + 2) - 2 = q /\ (r + 1) - 1 = r
    BY <1>1, <2>2
  <2> QED
    BY <1>1, <2>2, <2>3, <2>4
<1> QED
  BY <1>1, <1>2, <1>3
-----------------------------------------------------------------------------
(***************************************************************************)
(* The inductive invariant: the bytes that the vector counts are those of  *)
(* its arrays, but for less than a cell that the rounding of the first one *)
(* may leave; and the data are in arrays that exist.                       *)
(***************************************************************************)
Arrays == {Null} \cup Seq(Values \cup {Unwritten})
BytesAreCells ==
  \E r \in 0 .. CellSize - 1 : maxArraySize = CellSize * CellsIn(Len(bufferArray)) + r
InArrays(index) ==
  Getaddr(index).array \in DOMAIN bufferArray /\ bufferArray[Getaddr(index).array] # Null
DataInArrays == \A index \in 0 .. currentIndex - 1 : InArrays(index)
OpenOrEmpty ==
  /\ pc = "closed" => bufferArray = <<>> /\ maxArraySize = 0 /\ currentIndex = 0
  /\ pc # "closed" => bufferArray # <<>> /\ BytesAreCells
  /\ pc = "insert" => currentIndex < MaxData
VectorInv ==
  /\ VectorTypeOK /\ TableHoldsArrays
  /\ OpenOrEmpty /\ DataInArrays /\ WildOnlyWithoutMemory

\* The counted bytes make just the cells of the arrays.
LEMMA RoomIsCells ==
  ASSUME VectorAssumption, VectorInv, pc # "closed"
  PROVE  /\ Len(bufferArray) \in Nat \ {0} /\ CellsIn(Len(bufferArray)) \in Nat
         /\ \A n \in Nat : CellsIn(Len(bufferArray)) < n <=> maxArraySize < CellSize * n
         /\ HasRoom <=> currentIndex < CellsIn(Len(bufferArray))
<1> DEFINE n == Len(bufferArray)
           c == CellsIn(n)
<1>1. n \in Nat \ {0}
  BY DEF VectorInv, VectorTypeOK, OpenOrEmpty
<1>2. c \in Nat
  <2>1. n - 1 \in Nat /\ firstArrayInsert \in Nat /\ reallocArrayInsert \in Nat
    BY <1>1 DEF VectorInv, VectorTypeOK
  <2>2. reallocArrayInsert * (n - 1) \in Nat
    BY <2>1
  <2> QED
    BY <2>1, <2>2 DEF CellsIn
<1>3. PICK r \in 0 .. CellSize - 1 : maxArraySize = CellSize * c + r
  BY DEF VectorInv, OpenOrEmpty, BytesAreCells
<1> HIDE DEF c
<1>4. CellSize \in Nat \ {0} /\ currentIndex \in Nat
  BY DEF VectorAssumption, VectorInv, VectorTypeOK
<1>5. \A m \in Nat : c < m <=> maxArraySize < CellSize * m
  BY <1>2, <1>3, <1>4, QuotientOrder
<1>6. c < currentIndex + 1 <=> maxArraySize < CellSize * (currentIndex + 1)
  BY <1>4, <1>5
<1>7. CellSize * (currentIndex + 1) = currentIndex * CellSize + CellSize
  BY <1>4
<1>8. maxArraySize \in Nat /\ currentIndex * CellSize \in Nat
  BY <1>4 DEF VectorInv, VectorTypeOK
<1>9. HasRoom <=> currentIndex < c
  BY <1>2, <1>4, <1>6, <1>7, <1>8 DEF HasRoom
<1> QED
  BY <1>1, <1>2, <1>5, <1>9 DEF c

\* An insert that has room finds the address of its cell in an array.
LEMMA RoomHasAddress ==
  ASSUME VectorAssumption, VectorInv, pc # "closed", HasRoom
  PROVE  /\ Getaddr(currentIndex).array \in DOMAIN bufferArray
         /\ Getaddr(currentIndex).cell \in 1 .. Length(Getaddr(currentIndex).array)
<1>1. ShapeOK /\ currentIndex \in Nat
  BY DEF VectorInv, VectorTypeOK, ShapeOK
<1>2. Len(bufferArray) \in Nat \ {0} /\ currentIndex < CellsIn(Len(bufferArray))
  BY RoomIsCells
<1>3. DOMAIN bufferArray = 1 .. Len(bufferArray)
  BY DEF VectorInv, VectorTypeOK
<1> QED
  BY <1>1, <1>2, <1>3, AddressInArrays

\* One more array keeps all that the invariant says of the arrays.
LEMMA OneMoreArray ==
  ASSUME VectorAssumption, VectorInv, Inserting, NEW array \in Arrays,
         array # Null => Len(array) = reallocArrayInsert,
         numOfBufferAry' = Grown, bufferArray' = Append(bufferArray, array),
         maxArraySize' = maxArraySize + reallocArrayInsert * CellSize, UNCHANGED currentIndex
  PROVE  /\ numOfBufferAry' \in Nat /\ maxArraySize' \in Nat
         /\ bufferArray' \in Seq(Arrays) /\ bufferArray' # <<>>
         /\ \A a \in DOMAIN bufferArray' :
              bufferArray'[a] # Null => Len(bufferArray'[a]) = Length(a)'
         /\ TableHoldsArrays' /\ BytesAreCells' /\ DataInArrays'
<1> DEFINE n == Len(bufferArray)
<1>1. /\ UNCHANGED <<firstArrayInsert, reallocArrayInsert>> /\ pc = "insert"
      /\ firstArrayInsert \in Nat /\ reallocArrayInsert \in Nat \ {0}
      /\ CellSize \in Nat \ {0} /\ TableNum \in Nat \ {0}
  BY DEF Inserting, shape, VectorAssumption, VectorInv, VectorTypeOK
<1>2. bufferArray \in Seq(Arrays) /\ n \in Nat \ {0}
  BY <1>1, RoomIsCells DEF VectorInv, VectorTypeOK, Arrays
<1>3. /\ bufferArray' \in Seq(Arrays) /\ bufferArray' # <<>> /\ Len(bufferArray') = n + 1
      /\ DOMAIN bufferArray = 1 .. n /\ DOMAIN bufferArray' = 1 .. n + 1
      /\ \A i \in 1 .. n : bufferArray'[i] = bufferArray[i]
      /\ bufferArray'[n + 1] = array
  BY <1>2, AppendProperties
<1>4. ASSUME NEW a \in DOMAIN bufferArray', bufferArray'[a] # Null
      PROVE  Len(bufferArray'[a]) = Length(a)'
  <2>1. Length(a)' = Length(a)
    BY <1>1 DEF Length
  <2>2. CASE a \in 1 .. n
    BY <1>3, <1>4, <2>1, <2>2 DEF VectorInv, VectorTypeOK
  <2>3. CASE a = n + 1
    BY <1>2, <1>3, <1>4, <2>1, <2>3 DEF Length
  <2> QED
    BY <1>2, <1>3, <2>2, <2>3
<1>5. numOfBufferAry' \in Nat /\ TableHoldsArrays'
  BY <1>1, <1>2, <1>3 DEF Grown, TableFull, TableHoldsArrays, VectorInv, VectorTypeOK
<1>6. maxArraySize' \in Nat /\ BytesAreCells'
  <2>1. PICK r \in 0 .. CellSize - 1 : maxArraySize = CellSize * CellsIn(n) + r
    BY <1>1 DEF VectorInv, OpenOrEmpty, BytesAreCells
  <2> DEFINE c == CellsIn(n)
  <2>2. c \in Nat
    BY <1>1, RoomIsCells
  <2>4. CellsIn(Len(bufferArray))' = c + reallocArrayInsert
    <3>1. reallocArrayInsert * ((n + 1) - 1) = reallocArrayInsert * (n - 1) + reallocArrayInsert
      BY <1>1, <1>2
    <3>2. reallocArrayInsert * (n - 1) \in Int /\ reallocArrayInsert * ((n + 1) - 1) \in Int
      BY <1>1, <1>2
    <3>3. CellsIn(Len(bufferArray))' = firstArrayInsert + reallocArrayInsert * ((n + 1) - 1)
      BY <1>1, <1>3 DEF CellsIn
    <3> QED
      BY <1>1, <3>1, <3>2, <3>3 DEF CellsIn
  <2> HIDE DEF c
  <2>5. CellSize * (c + reallocArrayInsert) = CellSize * c + reallocArrayInsert * CellSize
    BY <1>1, <2>2
  <2>6. CellSize * c \in Nat /\ reallocArrayInsert * CellSize \in Nat
    BY <1>1, <2>2
  <2>7. maxArraySize = CellSize * c + r
    BY <2>1 DEF c
  <2>8. maxArraySize' = CellSize * (c + reallocArrayInsert) + r /\ maxArraySize' \in Nat
    BY <2>5, <2>6, <2>7
  <2> QED
    BY <1>1, <2>4, <2>8 DEF BytesAreCells
<1>7. DataInArrays'
  <2> SUFFICES ASSUME NEW i \in 0 .. currentIndex' - 1
               PROVE  InArrays(i)'
    BY DEF DataInArrays
  <2>1. InArrays(i) /\ Getaddr(i)' = Getaddr(i)
    BY <1>1 DEF VectorInv, DataInArrays, Getaddr
  <2> QED
    BY <1>2, <1>3, <2>1 DEF InArrays
<1> QED
  BY <1>3, <1>4, <1>5, <1>6, <1>7

\* What the invariant says of the arrays, their types apart.
ArraysInv ==
  /\ firstArrayInsert \in Nat /\ reallocArrayInsert \in Nat \ {0}
  /\ numOfBufferAry \in Nat /\ maxArraySize \in Nat /\ bufferArray \in Seq(Arrays)
  /\ \A a \in DOMAIN bufferArray : bufferArray[a] # Null => Len(bufferArray[a]) = Length(a)
  /\ TableHoldsArrays /\ DataInArrays

\* A step that leaves the arrays alone and adds no data keeps it.
LEMMA SameArrays ==
  ASSUME ArraysInv,
         UNCHANGED <<firstArrayInsert, reallocArrayInsert, numOfBufferAry, bufferArray, maxArraySize>>,
         currentIndex \in Nat, NEW n \in 0 .. currentIndex, currentIndex' = n
  PROVE  ArraysInv' /\ (BytesAreCells => BytesAreCells')
<1>1. TableHoldsArrays' /\ (BytesAreCells => BytesAreCells')
  BY DEF ArraysInv, TableHoldsArrays, BytesAreCells, CellsIn
<1>2. DataInArrays'
  <2> SUFFICES ASSUME NEW i \in 0 .. n - 1
               PROVE  InArrays(i)'
    BY DEF DataInArrays
  <2>1. Getaddr(i)' = Getaddr(i)
    BY DEF Getaddr
  <2>2. i \in 0 .. currentIndex - 1
    OBVIOUS
  <2>3. InArrays(i)
    BY <2>2 DEF ArraysInv, DataInArrays
  <2> QED
    BY <2>1, <2>3 DEF InArrays
<1>3. \A a : Length(a)' = Length(a)
  BY DEF Length
<1> QED
  BY <1>1, <1>2, <1>3 DEF ArraysInv

\* Storing the datum where its index says keeps it too, with that datum added.
LEMMA StoredInArrays ==
  ASSUME VectorAssumption, VectorInv, ArraysInv, Store
  PROVE  ArraysInv' /\ BytesAreCells' /\ bufferArray' # <<>> /\ WildOnlyWithoutMemory'
<1> DEFINE addr == Getaddr(currentIndex)
           Contents == Values \cup {Unwritten}
<1>1. /\ UNCHANGED <<firstArrayInsert, reallocArrayInsert, numOfBufferAry, maxArraySize>>
      /\ pc = "insert" /\ pc' = "idle" /\ datum \in Contents
      /\ currentIndex \in Nat /\ currentIndex' = currentIndex + 1
      /\ bufferArray' = [bufferArray EXCEPT ![addr.array] = [@ EXCEPT ![addr.cell] = datum]]
  BY DEF Store, Inserting, shape, Return, VectorInv, VectorTypeOK
<1>2. /\ addr.array \in DOMAIN bufferArray /\ bufferArray[addr.array] # Null
      /\ addr.cell \in DOMAIN bufferArray[addr.array]
  BY DEF Store, IsCell
<1>3. bufferArray[addr.array] \in Seq(Contents)
  BY <1>2 DEF ArraysInv, Arrays
<1> HIDE DEF addr
<1> DEFINE stored == [bufferArray[addr.array] EXCEPT ![addr.cell] = datum]
<1>4. stored \in Seq(Contents) /\ Len(stored) = Len(bufferArray[addr.array])
  BY <1>1, <1>2, <1>3, ExceptSeq
<1>5. stored # Null
  BY <1>4 DEF VectorAssumption
<1>6. bufferArray' = [bufferArray EXCEPT ![addr.array] = stored]
  BY <1>1
<1> HIDE DEF stored
<1>7. bufferArray \in Seq(Arrays) /\ stored \in Arrays
  BY <1>4 DEF ArraysInv, Arrays
<1>8. /\ bufferArray' \in Seq(Arrays) /\ Len(bufferArray') = Len(bufferArray)
      /\ DOMAIN bufferArray' = DOMAIN bufferArray
      /\ \A a \in DOMAIN bufferArray :
           bufferArray'[a] = IF a = addr.array THEN stored ELSE bufferArray[a]
  BY <1>2, <1>6, <1>7
<1>9. \A a : Length(a)' = Length(a)
  BY <1>1 DEF Length
<1>10. \A a \in DOMAIN bufferArray' : bufferArray'[a] # Null => Len(bufferArray'[a]) = Length(a)'
  BY <1>2, <1>4, <1>8, <1>9 DEF ArraysInv
<1>11. DataInArrays'
  <2> SUFFICES ASSUME NEW i \in 0 .. currentIndex' - 1
               PROVE  InArrays(i)'
    BY DEF DataInArrays
  <2>1. Getaddr(i)' = Getaddr(i)
    BY <1>1 DEF Getaddr
  <2>2. InArrays(i)
    BY <1>1, <1>2 DEF ArraysInv, DataInArrays, InArrays, addr
  <2> QED
    BY <1>5, <1>8, <2>1, <2>2 DEF InArrays
<1>12. BytesAreCells
  BY <1>1 DEF VectorInv, OpenOrEmpty
<1>13. TableHoldsArrays' /\ BytesAreCells'
  BY <1>1, <1>8, <1>12 DEF ArraysInv, TableHoldsArrays, BytesAreCells, CellsIn
<1>14. bufferArray' # <<>>
  BY <1>2, <1>7, <1>8
<1>15. WildOnlyWithoutMemory'
  BY <1>1 DEF WildOnlyWithoutMemory
<1> QED
  BY <1>1, <1>8, <1>10, <1>11, <1>13, <1>14, <1>15 DEF ArraysInv

\* Every call and every step of an insertion keeps the invariant.
LEMMA VectorStep ==
  ASSUME VectorAssumption, VectorInv, VectorNext
  PROVE  VectorInv'
<1> USE VectorAssumption
<1>1. /\ ArraysInv /\ currentIndex \in Nat /\ currentIndex <= MaxData /\ MaxData \in Nat
      /\ CellSize \in Nat \ {0} /\ Null \notin Seq(Values \cup {Unwritten})
      /\ Unwritten \notin Values
  BY DEF VectorInv, VectorTypeOK, ArraysInv, Arrays, VectorAssumption
<1>2. ASSUME NEW n \in 0 .. currentIndex, currentIndex' = n,
             UNCHANGED <<shape, numOfBufferAry, bufferArray, maxArraySize>>,
             pc = "idle", pc' \in {"idle", "insert"}, pc' = "insert" => currentIndex' < MaxData,
             datum' \in Values \cup {Unwritten}, pc' = "insert" <=> datum' \in Values,
             status' \in {"success", "memory"}
      PROVE  VectorInv'
  <2>1. UNCHANGED <<firstArrayInsert, reallocArrayInsert, numOfBufferAry, bufferArray, maxArraySize>>
    BY <1>2 DEF shape
  <2>2. ArraysInv' /\ (BytesAreCells => BytesAreCells')
    BY <1>1, <1>2, <2>1, SameArrays
  <2>3. BytesAreCells' /\ bufferArray' # <<>>
    BY <1>2, <2>1, <2>2 DEF VectorInv, OpenOrEmpty
  <2>4. currentIndex' \in 0 .. MaxData
    BY <1>1, <1>2
  <2>5. VectorTypeOK'
    BY <1>2, <2>2, <2>4 DEF VectorTypeOK, ArraysInv, Arrays
  <2>6. OpenOrEmpty'
    BY <1>2, <2>3 DEF OpenOrEmpty
  <2>7. WildOnlyWithoutMemory'
    BY <1>2 DEF WildOnlyWithoutMemory
  <2> QED
    BY <2>2, <2>5, <2>6, <2>7 DEF VectorInv, ArraysInv
<1>3. ASSUME NEW o \in Opens, Open(o)
      PROVE  VectorInv'
  <2> DEFINE f == IF o.first = 0 THEN 0 ELSE RoundUp(o.first)
             g == RoundUp(o.realloc)
             F == f \div CellSize
             R == g \div CellSize
  <2>1. f \in Nat /\ g \in Nat /\ g >= CellSize
    BY <1>1, <1>3 DEF Open, VectorAssumption
  <2>2. /\ firstArrayInsert' = F /\ reallocArrayInsert' = R /\ bufferArray' = << Cells(F) >>
        /\ maxArraySize' = f /\ numOfBufferAry' = TableNum /\ currentIndex' = 0
        /\ status' = "success" /\ pc' = "idle" /\ datum' = datum /\ pc = "closed"
    BY <1>3, Zenon DEF Open
  <2> HIDE DEF f, g
  <2>3. F \in Nat /\ R \in Nat /\ (f % CellSize) \in 0 .. CellSize - 1
        /\ f = CellSize * F + (f % CellSize)
    BY <1>1, <2>1, NatDivision
  <2>4. R \in Nat \ {0}
    <3>1. (g % CellSize) \in 0 .. CellSize - 1 /\ g = CellSize * R + (g % CellSize)
      BY <1>1, <2>1, NatDivision
    <3>2. R = 0 => CellSize * R = 0
      BY <1>1
    <3> QED
      BY <1>1, <2>1, <2>3, <3>1, <3>2
  <2> HIDE DEF F, R
  <2>5. Cells(F) \in Seq(Values \cup {Unwritten}) /\ Len(Cells(F)) = F
    BY <2>3 DEF Cells
  <2>6. /\ bufferArray' \in Seq(Arrays) /\ Len(bufferArray') = 1 /\ bufferArray' # <<>>
        /\ \A a \in DOMAIN bufferArray' : a = 1 /\ bufferArray'[a] = Cells(F)
    BY <2>2, <2>5 DEF Arrays
  <2>7. BytesAreCells'
    <3>1. R * (1 - 1) = 0
      BY <2>4
    <3>2. CellsIn(Len(bufferArray))' = F
      BY <2>2, <2>3, <2>6, <3>1 DEF CellsIn
    <3> QED
      BY <2>2, <2>3, <3>2 DEF BytesAreCells
  <2>8. datum \in Values \cup {Unwritten} /\ datum \notin Values
    BY <2>2 DEF VectorInv, VectorTypeOK
  <2>9. VectorTypeOK'
    <3>1. TableNum \in Nat
      BY DEF VectorAssumption
    <3>2. \A a \in DOMAIN bufferArray' : Len(bufferArray'[a]) = Length(a)'
      BY <2>2, <2>5, <2>6 DEF Length
    <3> QED
      BY <1>1, <2>1, <2>2, <2>3, <2>4, <2>6, <2>8, <3>1, <3>2 DEF VectorTypeOK, Arrays
  <2>10. TableHoldsArrays' /\ OpenOrEmpty' /\ DataInArrays' /\ WildOnlyWithoutMemory'
    BY <2>2, <2>6, <2>7
       DEF TableHoldsArrays, OpenOrEmpty, DataInArrays, WildOnlyWithoutMemory, VectorAssumption
  <2> QED
    BY <2>9, <2>10 DEF VectorInv
<1>4. ASSUME NEW v \in Values, currentIndex < MaxData, Insert(v)
      PROVE  VectorInv'
  BY <1>1, <1>2, <1>4 DEF Insert, VectorInv, VectorTypeOK
<1>5. ASSUME NEW index \in 0 .. MaxData, Getdata(index)
      PROVE  VectorInv'
  BY <1>1, <1>2, <1>5 DEF Getdata, VectorInv, VectorTypeOK
<1>6. ASSUME Pop
      PROVE  VectorInv'
  <2>1. currentIndex - 1 \in 0 .. currentIndex
    BY <1>1, <1>6 DEF Pop
  <2> QED
    BY <1>1, <1>2, <1>6, <2>1 DEF Pop, VectorInv, VectorTypeOK
<1>7. ASSUME Clear
      PROVE  VectorInv'
  <2>1. 0 \in 0 .. currentIndex
    BY <1>1
  <2> QED
    BY <1>1, <1>2, <1>7, <2>1 DEF Clear, VectorInv, VectorTypeOK
<1>8. ASSUME Close
      PROVE  VectorInv'
  <2>1. /\ firstArrayInsert' = 0 /\ reallocArrayInsert' = 1 /\ numOfBufferAry' = 0
        /\ bufferArray' = <<>> /\ maxArraySize' = 0 /\ currentIndex' = 0
        /\ status' = "success" /\ pc' = "closed" /\ datum' = datum /\ pc # "insert"
    BY <1>8, Zenon DEF Close
  <2>2. datum \in Values \cup {Unwritten} /\ datum \notin Values
    BY <2>1 DEF VectorInv, VectorTypeOK
  <2>3. VectorTypeOK'
    BY <1>1, <2>1, <2>2 DEF VectorTypeOK
  <2>4. TableHoldsArrays' /\ OpenOrEmpty' /\ DataInArrays' /\ WildOnlyWithoutMemory'
    BY <2>1 DEF TableHoldsArrays, OpenOrEmpty, DataInArrays, WildOnlyWithoutMemory
  <2> QED
    BY <2>3, <2>4 DEF VectorInv
<1>9. ASSUME InsertStep
      PROVE  VectorInv'
  <2>1. Inserting /\ pc = "insert" /\ UNCHANGED <<firstArrayInsert, reallocArrayInsert>>
    BY <1>9 DEF InsertStep, Realloc, ReallocFails, TableFails, Store, StoreWild, Inserting, shape
  <2>2. /\ datum \in Values /\ status \in {"success", "memory"} /\ currentIndex < MaxData
        /\ reallocArrayInsert \in Nat /\ BytesAreCells /\ bufferArray # <<>>
    BY <2>1 DEF VectorInv, VectorTypeOK, OpenOrEmpty
  <2>3. Cells(reallocArrayInsert) \in Seq(Values \cup {Unwritten})
        /\ Len(Cells(reallocArrayInsert)) = reallocArrayInsert
    BY <2>2 DEF Cells
  <2>4. CASE Realloc
    <3>1. /\ numOfBufferAry' \in Nat /\ maxArraySize' \in Nat
          /\ bufferArray' \in Seq(Arrays) /\ bufferArray' # <<>>
          /\ \A a \in DOMAIN bufferArray' :
               bufferArray'[a] # Null => Len(bufferArray'[a]) = Length(a)'
          /\ TableHoldsArrays' /\ BytesAreCells' /\ DataInArrays'
      BY <2>1, <2>3, <2>4, OneMoreArray DEF Realloc, Arrays
    <3>2. pc' = "insert" /\ UNCHANGED <<currentIndex, datum>> /\ status' = "success"
      BY <2>1, <2>4 DEF Realloc
    <3>3. VectorTypeOK'
      BY <2>1, <3>1, <3>2 DEF VectorTypeOK, Arrays, VectorInv
    <3> QED
      BY <2>2, <3>1, <3>2, <3>3 DEF VectorInv, OpenOrEmpty, WildOnlyWithoutMemory
  <2>5. CASE ReallocFails
    <3>1. /\ numOfBufferAry' \in Nat /\ maxArraySize' \in Nat
          /\ bufferArray' \in Seq(Arrays) /\ bufferArray' # <<>>
          /\ \A a \in DOMAIN bufferArray' :
               bufferArray'[a] # Null => Len(bufferArray'[a]) = Length(a)'
          /\ TableHoldsArrays' /\ BytesAreCells' /\ DataInArrays'
      BY <2>1, <2>5, OneMoreArray DEF ReallocFails, Arrays
    <3>2. /\ pc' = "idle" /\ currentIndex' = currentIndex
          /\ datum' = Unwritten /\ status' = "memory"
      BY <2>1, <2>5 DEF ReallocFails, Return
    <3>3. VectorTypeOK'
      BY <1>1, <2>1, <3>1, <3>2 DEF VectorTypeOK, Arrays, VectorInv
    <3> QED
      BY <3>1, <3>2, <3>3 DEF VectorInv, OpenOrEmpty, WildOnlyWithoutMemory
  <2>6. CASE Store
    <3>1. ArraysInv' /\ BytesAreCells' /\ bufferArray' # <<>> /\ WildOnlyWithoutMemory'
      BY <1>1, <2>6, StoredInArrays
    <3>2. /\ pc' = "idle" /\ currentIndex' = currentIndex + 1
          /\ datum' = Unwritten /\ status' = "success"
      BY <2>6 DEF Store, Return
    <3>3. currentIndex' \in 0 .. MaxData
      BY <1>1, <2>2, <3>2
    <3>4. VectorTypeOK'
      BY <1>1, <3>1, <3>2, <3>3 DEF VectorTypeOK, ArraysInv, Arrays
    <3> QED
      BY <3>1, <3>2, <3>4 DEF VectorInv, ArraysInv, OpenOrEmpty
  <2>7. ASSUME GoWild, \/ \E a \in DOMAIN bufferArray : bufferArray[a] = Null
                       \/ TableFull /\ ~HasRoom
        PROVE  VectorInv'
    <3>1. /\ pc' = "wild" /\ datum' = Unwritten
          /\ UNCHANGED <<firstArrayInsert, reallocArrayInsert, numOfBufferAry, bufferArray,
                         maxArraySize, currentIndex, status>>
      BY <2>1, <2>7, Zenon DEF GoWild
    <3>2. currentIndex \in 0 .. currentIndex
      BY <1>1
    <3>3. ArraysInv' /\ BytesAreCells'
      BY <1>1, <2>2, <3>1, <3>2, SameArrays
    <3>4. WildOnlyWithoutMemory'
      BY <2>7, <3>1 DEF WildOnlyWithoutMemory, TableFull, HasRoom
    <3>5. VectorTypeOK'
      BY <1>1, <3>1, <3>3 DEF VectorTypeOK, ArraysInv, Arrays, VectorInv
    <3> QED
      BY <2>2, <3>1, <3>3, <3>4, <3>5 DEF VectorInv, ArraysInv, OpenOrEmpty
  <2>8. CASE TableFails
    BY <2>7, <2>8 DEF TableFails
  <2>9. CASE StoreWild
    <3> DEFINE addr == Getaddr(currentIndex)
    <3>1. addr.array \in DOMAIN bufferArray /\ addr.cell \in 1 .. Length(addr.array)
      BY <2>1, <2>9, RoomHasAddress DEF StoreWild
    <3>2. ~IsCell(addr) /\ GoWild
      BY <2>9 DEF StoreWild
    <3> HIDE DEF addr
    <3>3. bufferArray[addr.array] # Null =>
            DOMAIN bufferArray[addr.array] = 1 .. Length(addr.array)
      BY <1>1, <3>1 DEF ArraysInv, Arrays
    <3>4. bufferArray[addr.array] = Null
      BY <3>1, <3>2, <3>3 DEF IsCell
    <3> QED
      BY <2>7, <3>1, <3>2, <3>4
  <2> QED
    BY <1>9, <2>4, <2>5, <2>6, <2>8, <2>9 DEF InsertStep
<1> QED
  BY <1>3, <1>4, <1>5, <1>6, <1>7, <1>8, <1>9 DEF VectorNext, VectorCall

\* So does a step that changes nothing.
LEMMA VectorStutter ==
  ASSUME VectorInv, UNCHANGED vars
  PROVE  VectorInv'
<1>1. /\ UNCHANGED <<firstArrayInsert, reallocArrayInsert, numOfBufferAry, bufferArray,
                     maxArraySize, currentIndex, status, pc, datum>>
  BY DEF vars, shape
<1>2. VectorTypeOK' /\ TableHoldsArrays' /\ OpenOrEmpty' /\ WildOnlyWithoutMemory'
  BY <1>1 DEF VectorInv, VectorTypeOK, Length, TableHoldsArrays, OpenOrEmpty, BytesAreCells,
              CellsIn, WildOnlyWithoutMemory, TableFull, HasRoom
<1>3. DataInArrays'
  BY <1>1 DEF VectorInv, DataInArrays, InArrays, Getaddr
<1> QED
  BY <1>2, <1>3 DEF VectorInv

\* The invariant holds of every behaviour.
THEOREM VectorInvariant ==
  ASSUME VectorAssumption
  PROVE  VectorSpec => []VectorInv
<1>1. VectorInit => VectorInv
  BY DEF VectorInit, VectorInv, VectorTypeOK, TableHoldsArrays, OpenOrEmpty, DataInArrays,
         WildOnlyWithoutMemory, VectorAssumption
<1>2. VectorInv /\ [VectorNext]_vars => VectorInv'
  BY VectorAssumption, VectorStutter, VectorStep
<1> QED
  BY <1>1, <1>2, PTL DEF VectorSpec

\* Type correctness: every array that exists has the length of its place.
THEOREM VectorTypes ==
  ASSUME VectorAssumption
  PROVE  VectorSpec => []VectorTypeOK
<1>1. VectorInv => VectorTypeOK
  BY DEF VectorInv
<1> QED
  BY <1>1, VectorInvariant, PTL

\* fs_fragment_vector.h:158-170: no array is ever put past the end of the table.
THEOREM TableIsLargeEnough ==
  ASSUME VectorAssumption
  PROVE  VectorSpec => []TableHoldsArrays
<1>1. VectorInv => TableHoldsArrays
  BY DEF VectorInv
<1> QED
  BY <1>1, VectorInvariant, PTL

\* fs_fragment_vector.h:172-194: the addresses of all the cells that are counted are
\* in the arrays, and those of the data in arrays that exist.
THEOREM AddressesStayInArrays ==
  ASSUME VectorAssumption
  PROVE  VectorSpec => []AddressesInArrays
<1>1. VectorInv => AddressesInArrays
  <2> SUFFICES ASSUME VectorInv, NEW index \in 0 .. (maxArraySize \div CellSize) - 1
               PROVE  /\ Getaddr(index).array \in DOMAIN bufferArray
                      /\ bufferArray[Getaddr(index).array] # Null =>
                           Getaddr(index).cell \in DOMAIN bufferArray[Getaddr(index).array]
                      /\ index < currentIndex => bufferArray[Getaddr(index).array] # Null
    BY DEF AddressesInArrays
  <2> DEFINE room == maxArraySize \div CellSize
             addr == Getaddr(index)
  <2>1. maxArraySize \in Nat /\ CellSize \in Nat \ {0} /\ currentIndex \in Nat
    BY DEF VectorInv, VectorTypeOK, VectorAssumption
  <2>2. room \in Nat /\ (maxArraySize % CellSize) \in 0 .. CellSize - 1
        /\ maxArraySize = CellSize * room + (maxArraySize % CellSize)
    BY <2>1, NatDivision
  <2>3. index \in Nat /\ index + 1 <= room
    BY <2>2
  <2> HIDE DEF room
  <2>4. ~(maxArraySize < CellSize * (index + 1))
    BY <2>1, <2>2, <2>3, QuotientOrder
  <2>5. pc # "closed"
    <3>1. CellSize * (index + 1) = CellSize * index + CellSize /\ CellSize * index \in Nat
      BY <2>1, <2>3
    <3>2. maxArraySize # 0
      BY <2>1, <2>4, <3>1
    <3> QED
      BY <3>2 DEF VectorInv, OpenOrEmpty
  <2>6. Len(bufferArray) \in Nat \ {0} /\ index < CellsIn(Len(bufferArray))
    <3>1. /\ Len(bufferArray) \in Nat \ {0} /\ CellsIn(Len(bufferArray)) \in Nat
          /\ \A n \in Nat : CellsIn(Len(bufferArray)) < n <=> maxArraySize < CellSize * n
      BY <2>5, RoomIsCells
    <3>2. index + 1 \in Nat
      BY <2>3
    <3>3. ~(CellsIn(Len(bufferArray)) < index + 1)
      BY <2>4, <3>1, <3>2, Zenon
    <3> QED
      BY <2>3, <3>1, <3>3
  <2>7. ShapeOK
    BY DEF ShapeOK, VectorInv, VectorTypeOK
  <2>8. addr.array \in 1 .. Len(bufferArray) /\ addr.cell \in 1 .. Length(addr.array)
    BY <2>3, <2>6, <2>7, AddressInArrays
  <2>9. index < currentIndex => bufferArray[addr.array] # Null
    BY <2>1, <2>3 DEF VectorInv, DataInArrays, InArrays
  <2> HIDE DEF addr
  <2>10. bufferArray \in Seq(Arrays)
    BY DEF VectorInv, VectorTypeOK, Arrays
  <2>11. bufferArray[addr.array] # Null =>
            DOMAIN bufferArray[addr.array] = 1 .. Length(addr.array)
    BY <2>8, <2>10 DEF VectorInv, VectorTypeOK, Arrays
  <2>12. DOMAIN bufferArray = 1 .. Len(bufferArray)
    BY <2>10
  <2> QED
    BY <2>8, <2>9, <2>11, <2>12, Zenon DEF addr
<1> QED
  BY <1>1, VectorInvariant, PTL

\* fs_fragment_vector.h:189-192: an insertion leaves the arrays only after memory was
\* missing.
THEOREM InsertionsStayInArrays ==
  ASSUME VectorAssumption
  PROVE  VectorSpec => []WildOnlyWithoutMemory
<1>1. VectorInv => WildOnlyWithoutMemory
  BY DEF VectorInv
<1> QED
  BY <1>1, VectorInvariant, PTL
-----------------------------------------------------------------------------
\* The cell of a datum holds the same as long as its array does.
LEMMA SameCell ==
  ASSUME NEW index, UNCHANGED <<firstArrayInsert, reallocArrayInsert>>,
         bufferArray'[Getaddr(index).array] = bufferArray[Getaddr(index).array]
  PROVE  Cell(index)' = Cell(index)
<1>1. Getaddr(index)' = Getaddr(index)
  BY DEF Getaddr
<1> QED
  BY <1>1 DEF Cell

\* More arrays change no datum, and memory is missing only if one of them is.
LEMMA MoreArraysSameData ==
  ASSUME VectorInv, pc # "wild", pc' # "wild", NEW array,
         UNCHANGED <<firstArrayInsert, reallocArrayInsert, currentIndex>>,
         bufferArray' = Append(bufferArray, array)
  PROVE  Data' = Data /\ (Broken' <=> Broken \/ array = Null)
<1> DEFINE n == Len(bufferArray)
<1>1. n \in Nat /\ DOMAIN bufferArray = 1 .. n /\ currentIndex \in Nat
  BY DEF VectorInv, VectorTypeOK
<1>2. /\ DOMAIN bufferArray' = 1 .. n + 1 /\ bufferArray'[n + 1] = array
      /\ \A a \in 1 .. n : bufferArray'[a] = bufferArray[a]
  BY DEF VectorInv, VectorTypeOK
<1>3. ASSUME NEW i \in 1 .. currentIndex
      PROVE  Cell(i - 1)' = Cell(i - 1)
  <2>1. i - 1 \in 0 .. currentIndex - 1
    BY <1>1
  <2>2. Getaddr(i - 1).array \in 1 .. n
    BY <1>1, <2>1 DEF VectorInv, DataInArrays, InArrays
  <2> QED
    BY <1>2, <2>2, SameCell
<1>4. Data' = Data
  BY <1>3 DEF Data
<1>5. Broken' <=> Broken \/ array = Null
  <2>1. \A a : a \in DOMAIN bufferArray' <=> a \in DOMAIN bufferArray \/ a = n + 1
    BY <1>1, <1>2
  <2>2. \A a \in DOMAIN bufferArray : bufferArray'[a] = bufferArray[a]
    BY <1>1, <1>2
  <2> QED
    BY <1>2, <2>1, <2>2, Zenon DEF Broken
<1> QED
  BY <1>4, <1>5

\* Storing a datum adds it behind the others and changes none of them.
LEMMA StoreAppends ==
  ASSUME VectorAssumption, VectorInv, Store
  PROVE  Data' = Append(Data, datum) /\ (Broken' <=> Broken)
<1> DEFINE addr == Getaddr(currentIndex)
<1>1. /\ UNCHANGED <<firstArrayInsert, reallocArrayInsert>>
      /\ pc = "insert" /\ pc' = "idle"
      /\ currentIndex \in Nat /\ currentIndex' = currentIndex + 1
      /\ bufferArray' = [bufferArray EXCEPT ![addr.array] = [@ EXCEPT ![addr.cell] = datum]]
  BY DEF Store, Inserting, shape, Return, VectorInv, VectorTypeOK
<1>2. /\ addr.array \in DOMAIN bufferArray /\ bufferArray[addr.array] # Null
      /\ addr.cell \in DOMAIN bufferArray[addr.array]
  BY DEF Store, IsCell
<1>3. /\ bufferArray \in Seq(Arrays) /\ bufferArray[addr.array] \in Seq(Values \cup {Unwritten})
      /\ ShapeOK /\ datum \in Values \cup {Unwritten}
      /\ Null \notin Seq(Values \cup {Unwritten})
  BY <1>2 DEF VectorInv, VectorTypeOK, Arrays, ShapeOK, VectorAssumption
<1>4. ASSUME NEW i \in 1 .. currentIndex
      PROVE  Cell(i - 1)' = Cell(i - 1)
  <2> DEFINE other == Getaddr(i - 1)
  <2>1. i - 1 \in Nat /\ i - 1 # currentIndex /\ i - 1 \in 0 .. currentIndex - 1
    BY <1>1
  <2>2. other # addr
    BY <1>1, <1>3, <2>1, AddressesDiffer
  <2>3. other.array \in DOMAIN bufferArray
    BY <2>1 DEF VectorInv, DataInArrays, InArrays
  <2>4. other.array # addr.array \/ other.cell # addr.cell
    BY <2>2 DEF Getaddr
  <2>5. Getaddr(i - 1)' = Getaddr(i - 1)
    BY <1>1 DEF Getaddr
  <2> HIDE DEF other, addr
  <2>6. bufferArray'[other.array][other.cell] = bufferArray[other.array][other.cell]
    BY <1>1, <1>2, <2>3, <2>4
  <2> QED
    BY <2>5, <2>6 DEF Cell, other
<1>5. ASSUME NEW i \in {currentIndex + 1}
      PROVE  Cell(i - 1)' = datum
  <2>1. i - 1 = currentIndex
    BY <1>1
  <2>2. Getaddr(i - 1)' = addr
    BY <1>1, <2>1 DEF Getaddr
  <2> HIDE DEF addr
  <2> QED
    BY <1>1, <1>2, <2>2 DEF Cell
<1> HIDE DEF addr
<1>6. Data' = Append(Data, datum)
  <2>1. Data = [i \in 1 .. currentIndex |-> Cell(i - 1)]
    BY <1>1 DEF Data
  <2>2. Data' = [i \in 1 .. currentIndex + 1 |-> Cell(i - 1)']
    BY <1>1 DEF Data
  <2>3. Append(Data, datum) =
          [i \in 1 .. currentIndex + 1 |-> IF i = currentIndex + 1 THEN datum ELSE Data[i]]
    BY <1>1, <2>1
  <2>4. ASSUME NEW i \in 1 .. currentIndex + 1
        PROVE  Cell(i - 1)' = IF i = currentIndex + 1 THEN datum ELSE Data[i]
    <3>1. CASE i = currentIndex + 1
      BY <1>5, <3>1
    <3>2. CASE i # currentIndex + 1
      <4>1. i \in 1 .. currentIndex
        BY <1>1, <3>2
      <4> QED
        BY <1>4, <2>1, <3>2, <4>1
    <3> QED
      BY <3>1, <3>2
  <2> QED
    BY <2>2, <2>3, <2>4
<1>7. Broken' <=> Broken
  <2> DEFINE stored == [bufferArray[addr.array] EXCEPT ![addr.cell] = datum]
  <2>1. stored \in Seq(Values \cup {Unwritten})
    BY <1>2, <1>3, ExceptSeq
  <2>2. stored # Null /\ bufferArray' = [bufferArray EXCEPT ![addr.array] = stored]
    BY <1>1, <1>3, <2>1
  <2> HIDE DEF stored
  <2>3. /\ DOMAIN bufferArray' = DOMAIN bufferArray
        /\ \A a \in DOMAIN bufferArray : bufferArray'[a] = Null <=> bufferArray[a] = Null
    BY <1>2, <1>3, <2>2
  <2> QED
    BY <1>1, <2>3, Zenon DEF Broken
<1> QED
  BY <1>6, <1>7

\* Memory is missing only where it may run out.
MissingByFault == Broken => Faults # {}

\* Every step of an insertion is an insertion of the stack, a failure of one, or none.
LEMMA InsertStepRefines ==
  ASSUME VectorAssumption, VectorInv, MissingByFault, InsertStep
  PROVE  [Stack!Next]_(Stack!stackVars)
<1>1. Inserting /\ pc = "insert" /\ UNCHANGED <<firstArrayInsert, reallocArrayInsert>>
  BY DEF InsertStep, Realloc, ReallocFails, TableFails, Store, StoreWild, Inserting, shape
<1>2. datum \in Values /\ reallocArrayInsert \in Nat /\ Null \notin Seq(Values \cup {Unwritten})
  BY <1>1 DEF VectorInv, VectorTypeOK, VectorAssumption
<1>3. CASE Realloc
  <2>1. Cells(reallocArrayInsert) # Null
    <3>1. Cells(reallocArrayInsert) \in Seq(Values \cup {Unwritten})
      BY <1>2 DEF Cells
    <3> QED
      BY <1>2, <3>1
  <2>2. /\ UNCHANGED <<currentIndex, pc, reply>>
        /\ bufferArray' = Append(bufferArray, Cells(reallocArrayInsert))
    BY <1>3, Zenon DEF Realloc
  <2>3. Data' = Data /\ (Broken' <=> Broken)
    BY <1>1, <2>1, <2>2, MoreArraysSameData
  <2> QED
    BY <2>2, <2>3, Zenon DEF Stack!stackVars, Broken
<1>4. CASE ReallocFails
  <2>1. /\ UNCHANGED currentIndex /\ pc' = "idle" /\ reply' = <<>> /\ Faults # {}
        /\ bufferArray' = Append(bufferArray, Null)
    BY <1>4 DEF ReallocFails, Return
  <2>2. Data' = Data /\ Broken'
    BY <1>1, <2>1, MoreArraysSameData
  <2> QED
    BY <2>1, <2>2, Zenon DEF Stack!Next, Stack!InsertFails, Broken
<1>5. CASE Store
  <2>1. Data' = Append(Data, datum) /\ (Broken' <=> Broken)
    BY <1>5, StoreAppends
  <2>2. reply' = <<>>
    BY <1>5 DEF Store, Return
  <2> QED
    BY <1>2, <2>1, <2>2, Zenon DEF Stack!Next, Stack!Insert, Broken
<1>6. ASSUME GoWild, Faults # {}
      PROVE  Stack!Next
  <2>1. pc' = "wild" /\ reply' = <<>>
    BY <1>6 DEF GoWild
  <2>2. Data' = <<>> /\ Broken'
    BY <2>1 DEF Data, Broken
  <2> QED
    BY <1>6, <2>1, <2>2, Zenon DEF Stack!Next, Stack!Break, Broken
<1>7. CASE TableFails
  <2>1. GoWild /\ Faults # {}
    BY <1>7 DEF TableFails
  <2> QED
    BY <1>6, <2>1
<1>8. CASE StoreWild
  <2> DEFINE addr == Getaddr(currentIndex)
  <2>1. addr.array \in DOMAIN bufferArray /\ addr.cell \in 1 .. Length(addr.array)
    BY <1>1, <1>8, RoomHasAddress DEF StoreWild
  <2>2. ~IsCell(addr) /\ GoWild
    BY <1>8 DEF StoreWild
  <2> HIDE DEF addr
  <2>3. bufferArray[addr.array] # Null =>
          DOMAIN bufferArray[addr.array] = 1 .. Length(addr.array)
    BY <2>1 DEF VectorInv, VectorTypeOK
  <2>4. Broken
    BY <2>1, <2>2, <2>3 DEF IsCell, Broken
  <2> QED
    BY <1>6, <2>2, <2>4 DEF MissingByFault
<1> QED
  BY <1>3, <1>4, <1>5, <1>7, <1>8 DEF InsertStep

\* Every call is one of the stack, or a step of the vector alone.
LEMMA VectorCallRefines ==
  ASSUME VectorAssumption, VectorInv, VectorCall
  PROVE  [Stack!Next]_(Stack!stackVars)
<1>1. currentIndex \in Nat /\ Null \notin Seq(Values \cup {Unwritten})
  BY DEF VectorInv, VectorTypeOK, VectorAssumption
<1>2. ASSUME UNCHANGED <<firstArrayInsert, reallocArrayInsert, bufferArray>>
      PROVE  \A i : Cell(i)' = Cell(i)
  <2> SUFFICES ASSUME NEW i
               PROVE  Cell(i)' = Cell(i)
    OBVIOUS
  <2> QED
    BY <1>2, SameCell
<1>3. ASSUME UNCHANGED <<shape, bufferArray>>, pc = "idle", pc' \in {"idle", "insert"}
      PROVE  /\ Data = [i \in 1 .. currentIndex |-> Cell(i - 1)]
             /\ Data' = [i \in 1 .. currentIndex' |-> Cell(i - 1)]
             /\ Broken' <=> Broken
  <2>1. \A i : Cell(i)' = Cell(i)
    BY <1>2, <1>3 DEF shape
  <2>2. Data = [i \in 1 .. currentIndex |-> Cell(i - 1)]
    BY <1>3 DEF Data
  <2>3. Data' = [i \in 1 .. currentIndex' |-> Cell(i - 1)]
    BY <1>3, <2>1 DEF Data
  <2>4. Broken' <=> Broken
    BY <1>3 DEF Broken
  <2> QED
    BY <2>2, <2>3, <2>4
<1>4. ASSUME NEW o \in Opens, Open(o)
      PROVE  UNCHANGED Stack!stackVars
  <2>1. pc = "closed" /\ bufferArray = <<>> /\ currentIndex = 0
    BY <1>4 DEF Open, VectorInv, OpenOrEmpty
  <2>2. Data = <<>> /\ ~Broken
    BY <2>1 DEF Data, Broken
  <2> DEFINE f == IF o.first = 0 THEN 0 ELSE RoundUp(o.first)
             F == f \div CellSize
  <2>3. /\ pc' = "idle" /\ currentIndex' = 0 /\ reply' = reply
        /\ bufferArray' = << Cells(F) >>
    BY <1>4, Zenon DEF Open
  <2>4. f \in Nat /\ CellSize \in Nat \ {0}
    BY DEF VectorAssumption
  <2> HIDE DEF f
  <2>5. F \in Nat
    BY <2>4, NatDivision
  <2> HIDE DEF F
  <2>6. Cells(F) \in Seq(Values \cup {Unwritten})
    BY <2>5 DEF Cells
  <2>7. Data' = <<>>
    BY <2>3 DEF Data
  <2>8. ~Broken'
    BY <1>1, <2>3, <2>6 DEF Broken
  <2> QED
    BY <2>2, <2>3, <2>7, <2>8, Zenon DEF Stack!stackVars, Broken
<1>5. ASSUME NEW v \in Values, Insert(v)
      PROVE  UNCHANGED Stack!stackVars
  <2>1. /\ UNCHANGED <<shape, bufferArray, currentIndex, reply>>
        /\ pc = "idle" /\ pc' = "insert"
    BY <1>5 DEF Insert
  <2>2. Data' = Data /\ (Broken' <=> Broken)
    BY <1>3, <2>1
  <2> QED
    BY <2>1, <2>2, Zenon DEF Stack!stackVars, Broken
<1>6. ASSUME NEW index \in 0 .. MaxData, Getdata(index)
      PROVE  Stack!Next
  <2>1. /\ UNCHANGED <<shape, bufferArray, currentIndex>>
        /\ pc = "idle" /\ pc' = "idle" /\ index < currentIndex /\ reply' = << Cell(index) >>
    BY <1>6 DEF Getdata
  <2>2. Data' = Data /\ (Broken' <=> Broken) /\ Data = [i \in 1 .. currentIndex |-> Cell(i - 1)]
    BY <1>3, <2>1
  <2>3. index \in Nat /\ index + 1 \in 1 .. currentIndex /\ (index + 1) - 1 = index
    BY <1>1, <2>1 DEF VectorAssumption
  <2>4. index + 1 \in 1 .. Len(Data) /\ Data[index + 1] = Cell(index)
    BY <1>1, <2>2, <2>3
  <2>5. \E i \in 1 .. Len(Data) : reply' = << Data[i] >>
    BY <2>1, <2>4
  <2> QED
    BY <2>2, <2>5, Zenon DEF Stack!Next, Stack!Get, Broken
<1>7. ASSUME Pop
      PROVE  Stack!Next
  <2>1. /\ UNCHANGED <<shape, bufferArray>> /\ currentIndex' = currentIndex - 1
        /\ pc = "idle" /\ pc' = "idle" /\ currentIndex > 0 /\ reply' = << Cell(currentIndex - 1) >>
    BY <1>7 DEF Pop
  <2>2. /\ Data = [i \in 1 .. currentIndex |-> Cell(i - 1)]
        /\ Data' = [i \in 1 .. currentIndex - 1 |-> Cell(i - 1)]
        /\ Broken' <=> Broken
    BY <1>3, <2>1
  <2>3. Data # <<>> /\ Len(Data) = currentIndex /\ reply' = << Data[Len(Data)] >>
    <3>1. currentIndex \in Nat
      BY <1>1
    <3>2. Len(Data) = currentIndex
      BY ONLY <3>1, <2>2
    <3>3. Data # <<>>
      BY ONLY <3>1, <3>2, <2>1
    <3>4. Data[currentIndex] = Cell(currentIndex - 1)
      BY ONLY <3>1, <2>1, <2>2
    <3> QED
      BY ONLY <3>2, <3>3, <3>4, <2>1
  <2>4. Data' = SubSeq(Data, 1, Len(Data) - 1)
    BY <1>1, <2>1, <2>2, <2>3
  <2> QED
    BY <2>2, <2>3, <2>4, Zenon DEF Stack!Next, Stack!Pop, Broken
<1>8. ASSUME Clear
      PROVE  Stack!Next
  <2>1. /\ UNCHANGED <<shape, bufferArray>> /\ currentIndex' = 0 /\ reply' = <<>>
        /\ pc = "idle" /\ pc' = "idle"
    BY <1>8 DEF Clear
  <2>2. Data' = [i \in 1 .. 0 |-> Cell(i - 1)] /\ (Broken' <=> Broken)
    BY <1>3, <2>1
  <2>3. Data' = <<>>
    BY <2>2
  <2> QED
    BY <2>1, <2>2, <2>3, Zenon DEF Stack!Next, Stack!Clear, Broken
<1>9. ASSUME Close
      PROVE  Stack!Next
  <2>1. pc' = "closed" /\ bufferArray' = <<>> /\ currentIndex' = 0 /\ reply' = <<>>
    BY <1>9 DEF Close
  <2>2. Data' = <<>> /\ ~Broken'
    BY <2>1 DEF Data, Broken
  <2> QED
    BY <2>1, <2>2, Zenon DEF Stack!Next, Stack!Clear, Broken
<1> QED
  BY <1>4, <1>5, <1>6, <1>7, <1>8, <1>9 DEF VectorCall

\* A step of the vector is one of the stack, or none; and memory stays missing only where
\* it may run out.
LEMMA VectorRefines ==
  ASSUME VectorAssumption, VectorInv, MissingByFault, [VectorNext]_vars
  PROVE  [Stack!Next]_(Stack!stackVars) /\ MissingByFault'
<1>1. UNCHANGED vars => UNCHANGED Stack!stackVars
  BY DEF vars, shape, Stack!stackVars, Data, Broken, Cell, Getaddr
<1>2. [Stack!Next]_(Stack!stackVars)
  BY <1>1, InsertStepRefines, VectorCallRefines DEF VectorNext
<1>3. MissingByFault'
  BY <1>2 DEF MissingByFault, Stack!stackVars, Stack!Next, Stack!Insert, Stack!InsertFails,
              Stack!Get, Stack!Pop, Stack!Clear, Stack!Break
<1> QED
  BY <1>2, <1>3

\* fs_fragment_vector.h, all of it, for all sizes and with memory failing: the vector
\* is a stack whose data stay as they were inserted.
THEOREM VectorImplementsStack ==
  ASSUME VectorAssumption
  PROVE  VectorSpec => StackSpec
<1>1. VectorInit => Stack!Init /\ MissingByFault
  <2> SUFFICES ASSUME VectorInit
               PROVE  Stack!Init /\ MissingByFault
    OBVIOUS
  <2>1. Data = <<>> /\ ~Broken /\ reply = <<>>
    BY DEF VectorInit, Data, Broken
  <2> QED
    BY <2>1, Zenon DEF Stack!Init, MissingByFault, Broken
<1>2. VectorInv /\ MissingByFault /\ [VectorNext]_vars =>
        [Stack!Next]_(Stack!stackVars) /\ MissingByFault'
  BY VectorAssumption, VectorRefines
<1> QED
  BY <1>1, <1>2, VectorInvariant, PTL DEF VectorSpec, StackSpec, Stack!Spec
-----------------------------------------------------------------------------
\* What a word has after it was spread by n: the n positions up to its highest.
Top(w, m, n) == w \subseteq 0 .. m /\ \A j \in 0 .. m : j > m - n => j \in w

LEMMA TopTwice ==
  ASSUME NEW m \in 0 .. WordBits - 1, NEW n \in 1 .. 16, NEW w, Top(w, m, n)
  PROVE  Top(Smeared(w, -n), m, 2 * n)
<1>1. m \in Nat /\ m <= 31 /\ WordBits - 1 = 31 /\ n \in Nat
  BY DEF WordBits
<1>2. ASSUME NEW j \in Smeared(w, -n)
      PROVE  j \in 0 .. m
  <2>1. CASE j \in w
    BY <2>1 DEF Top
  <2>2. CASE j \in 0 .. 31 /\ j - (-n) \in w
    <3>1. j \in Nat /\ j + n \in 0 .. m
      BY <1>1, <2>2 DEF Top
    <3> QED
      BY <1>1, <3>1
  <2> QED
    BY <1>1, <1>2, <2>1, <2>2 DEF Smeared
<1>3. ASSUME NEW j \in 0 .. m, j > m - 2 * n
      PROVE  j \in Smeared(w, -n)
  <2>1. CASE j > m - n
    BY <2>1 DEF Top, Smeared
  <2>2. CASE ~(j > m - n)
    <3>1. j \in 0 .. 31 /\ j + n \in 0 .. m /\ j + n > m - n /\ j - (-n) = j + n
      BY <1>1, <1>3, <2>2
    <3>2. j - (-n) \in w
      BY <3>1 DEF Top
    <3> QED
      BY <1>1, <3>1, <3>2 DEF Smeared
  <2> QED
    BY <2>1, <2>2
<1> QED
  BY <1>2, <1>3 DEF Top

\* Spread down, a word has all positions up to its highest.
LEMMA SpreadDown ==
  ASSUME NEW w, NEW m \in w, m \in 0 .. WordBits - 1, w \subseteq 0 .. m
  PROVE  Spread(w, -1) = 0 .. m
<1> DEFINE a == Smeared(w, -1)
           b == Smeared(a, -2)
           c == Smeared(b, -4)
           d == Smeared(c, -8)
           e == Smeared(d, -16)
<1>1. Top(w, m, 1)
  BY DEF Top
<1>2. Top(a, m, 2)
  BY <1>1, TopTwice
<1> HIDE DEF a
<1>3. Top(b, m, 4)
  BY <1>2, TopTwice
<1> HIDE DEF b
<1>4. Top(c, m, 8)
  BY <1>3, TopTwice
<1> HIDE DEF c
<1>5. Top(d, m, 16)
  BY <1>4, TopTwice
<1> HIDE DEF d
<1>6. Top(e, m, 32)
  BY <1>5, TopTwice
<1>7. Spread(w, -1) = e
  <2>1. 2 * (-1) = -2 /\ 4 * (-1) = -4 /\ 8 * (-1) = -8 /\ 16 * (-1) = -16
    OBVIOUS
  <2> QED
    BY ONLY <2>1, Zenon DEF Spread, a, b, c, d, e
<1> HIDE DEF e
<1>8. \A j \in 0 .. m : j > m - 32
  BY DEF WordBits
<1> QED
  BY <1>6, <1>7, <1>8 DEF Top

\* How many of the first c positions are in the field i of fields of s positions.
Share(c, i, s) == IF c >= s * i + s THEN s ELSE IF c <= s * i THEN 0 ELSE c - s * i
Shares(field, c, n, s) == \A i \in 0 .. n - 1 : field[i] = Share(c, i, s)

LEMMA SharesPaired ==
  ASSUME NEW c \in Nat, NEW n \in Nat, NEW s \in {1, 2, 4, 8, 16},
         NEW field, Shares(field, c, 2 * n, s)
  PROVE  Shares(Paired(field, n), c, n, 2 * s)
<1> SUFFICES ASSUME NEW i \in 0 .. n - 1
             PROVE  Paired(field, n)[i] = Share(c, i, 2 * s)
  BY DEF Shares
<1>1. 2 * i \in 0 .. 2 * n - 1 /\ 2 * i + 1 \in 0 .. 2 * n - 1
  OBVIOUS
<1>2. field[2 * i] = Share(c, 2 * i, s) /\ field[2 * i + 1] = Share(c, 2 * i + 1, s)
  BY <1>1 DEF Shares
<1>3. Share(c, 2 * i, s) + Share(c, 2 * i + 1, s) = Share(c, i, 2 * s)
  <2>1. s = 1 \/ s = 2 \/ s = 4 \/ s = 8 \/ s = 16
    OBVIOUS
  <2> QED
    BY <2>1 DEF Share
<1> QED
  BY <1>2, <1>3 DEF Paired

\* The bits of a word that has the first c positions are counted.
LEMMA CountsFirst ==
  ASSUME NEW c \in 0 .. WordBits
  PROVE  getnumbits(0 .. c - 1) = c
<1> DEFINE f0 == Ones(0 .. c - 1)
           f1 == Paired(f0, 16)
           f2 == Paired(f1, 8)
           f3 == Paired(f2, 4)
           f4 == Paired(f3, 2)
           f5 == Paired(f4, 1)
<1>1. c \in Nat /\ c <= 32
  BY DEF WordBits
<1>2. Shares(f0, c, 32, 1)
  BY <1>1 DEF Shares, Share, Ones, WordBits
<1> HIDE DEF f0
<1>3. Shares(f1, c, 16, 2)
  BY <1>1, <1>2, SharesPaired
<1> HIDE DEF f1
<1>4. Shares(f2, c, 8, 4)
  BY <1>1, <1>3, SharesPaired
<1> HIDE DEF f2
<1>5. Shares(f3, c, 4, 8)
  BY <1>1, <1>4, SharesPaired
<1> HIDE DEF f3
<1>6. Shares(f4, c, 2, 16)
  BY <1>1, <1>5, SharesPaired
<1> HIDE DEF f4
<1>7. Shares(f5, c, 1, 32)
  BY <1>1, <1>6, SharesPaired
<1>8. getnumbits(0 .. c - 1) = f5[0]
  BY DEF getnumbits, f0, f1, f2, f3, f4
<1> HIDE DEF f5
<1>9. f5[0] = Share(c, 0, 32)
  BY <1>7 DEF Shares
<1> QED
  BY <1>1, <1>8, <1>9 DEF Share

\* So the highest bit of a number is found.
LEMMA HighestBit ==
  ASSUME NEW val, val # 0, NEW m \in Bits(val), \A k \in Bits(val) : k <= m
  PROVE  fs_getMsb32(val) = m
<1>1. m \in Nat /\ m <= 30 /\ m + 1 - 1 = m /\ Bits(val) \subseteq 0 .. m
  BY DEF Bits, WordBits
<1>2. Spread(Bits(val), -1) = 0 .. m
  <2>1. m \in 0 .. WordBits - 1
    BY <1>1 DEF WordBits
  <2> QED
    BY ONLY <1>1, <2>1, SpreadDown, m \in Bits(val)
<1>3. getnumbits(0 .. m) = m + 1
  <2> DEFINE c == m + 1
  <2>1. c \in 0 .. WordBits /\ c - 1 = m
    BY <1>1 DEF WordBits
  <2> HIDE DEF c
  <2>2. getnumbits(0 .. m) = c
    BY ONLY <2>1, CountsFirst
  <2> QED
    BY <2>2 DEF c
<1> QED
  BY <1>1, <1>2, <1>3 DEF fs_getMsb32

\* The only bit of a power of two.
LEMMA BitOfPower ==
  ASSUME NEW m \in 0 .. 30
  PROVE  Bits(2^m) = {m}
<1> \A k \in 0 .. 30 : k \in 0 .. 31
  OBVIOUS
<1>1. 2^m \in Nat \ {0}
  BY PowerPositive, Zenon
<1>2. ASSUME NEW k \in 0 .. 30, k < m
      PROVE  ((2^m \div 2^k) % 2) = 0
  <2> DEFINE d == m - k - 1
             x == 2^k
             y == 2^d
  <2>1. d \in 0 .. 30 /\ d + 1 = m - k /\ k + (d + 1) = m /\ d + 1 \in Nat /\ k \in Nat
    BY <1>2
  <2>2. 2^(k + (d + 1)) = 2^k * 2^(d + 1)
    BY <2>1, PowersMultiply
  <2>3. 2^(d + 1) = 2 * y /\ y \in Nat
    BY <2>1, PowerNext
  <2>4. x \in Nat \ {0}
    BY PowerPositive, Zenon
  <2> HIDE DEF d
  <2>5. 2^m = x * (2 * y) + 0
    <3>1. 2^m = x * (2 * y)
      BY ONLY <2>1, <2>2, <2>3, Zenon
    <3> HIDE DEF x, y
    <3>2. x * (2 * y) + 0 = x * (2 * y)
      BY ONLY <2>3, <2>4
    <3> QED
      BY ONLY <3>1, <3>2, Zenon
  <2> HIDE DEF x, y
  <2>6. 2 * y \in Nat /\ 0 \in 0 .. x - 1 /\ x * (2 * y) + 0 \in Nat
    BY <2>3, <2>4
  <2>7. (x * (2 * y) + 0) \div x = 2 * y
    BY ONLY <2>4, <2>6, QuotientIs
  <2>8. (2 * y) % 2 = 0
    BY <2>3
  <2> QED
    BY ONLY <2>5, <2>7, <2>8, Zenon DEF x
<1>3. ((2^m \div 2^m) % 2) = 1
  <2> DEFINE x == 2^m
  <2>1. x \in Nat \ {0}
    BY <1>1
  <2> HIDE DEF x
  <2>2. x \div x = 1
    <3>1. x = x * 1 + 0 /\ 0 \in 0 .. x - 1 /\ 1 \in Nat
      BY <2>1
    <3>2. (x * 1 + 0) \div x = 1
      BY ONLY <2>1, <3>1, QuotientIs
    <3> QED
      BY ONLY <3>1, <3>2, Zenon
  <2>3. (1 % 2) = 1
    OBVIOUS
  <2> QED
    BY ONLY <2>2, <2>3, Zenon DEF x
<1>4. ASSUME NEW k \in 0 .. 30, m < k
      PROVE  ((2^m \div 2^k) % 2) = 0
  <2> DEFINE d == k - m - 1
             x == 2^m
             y == 2^d
  <2>1. d \in 0 .. 30 /\ d + 1 = k - m /\ m + (d + 1) = k /\ d + 1 \in Nat /\ m \in Nat
    BY <1>4
  <2>2. 2^(m + (d + 1)) = 2^m * 2^(d + 1)
    BY <2>1, PowersMultiply
  <2>3. 2^(d + 1) = 2 * y /\ y \in Nat \ {0}
    BY <2>1, PowerNext
  <2> HIDE DEF d
  <2>4. 2^k = x * (2 * y)
    BY ONLY <2>1, <2>2, <2>3, Zenon
  <2>5. x \in Nat \ {0}
    BY <1>1
  <2> HIDE DEF x, y
  <2>6. x * (2 * y) \in Nat \ {0} /\ x < x * (2 * y)
    BY <2>3, <2>5
  <2> DEFINE z == x * (2 * y)
  <2>7. z \in Nat \ {0} /\ x \in 0 .. z - 1 /\ x = z * 0 + x /\ 0 \in Nat
    BY <2>5, <2>6
  <2> HIDE DEF z
  <2>8. (z * 0 + x) \div z = 0
    BY ONLY <2>7, QuotientIs
  <2>9. x \div z = 0
    BY ONLY <2>7, <2>8, Zenon
  <2>10. 2^m \div 2^k = 0
    BY ONLY <2>4, <2>9, Zenon DEF x, z
  <2>11. (0 % 2) = 0
    OBVIOUS
  <2> QED
    BY ONLY <2>10, <2>11, Zenon
<1>5. \A k \in 0 .. 30 : k < m \/ k = m \/ m < k
  OBVIOUS
<1>6. 0 # 1
  OBVIOUS
<1>7. \A k \in 0 .. 30 : ((2^m \div 2^k) % 2) = 1 <=> k = m
  BY ONLY <1>2, <1>3, <1>4, <1>5, <1>6, Zenon
<1>8. Bits(2^m) = {k \in 0 .. 30 : ((2^m \div 2^k) % 2) = 1}
  BY DEF Bits, WordBits
<1> QED
  BY ONLY <1>7, <1>8, m \in 0 .. 30, Zenon

LEMMA HighestOfPower ==
  ASSUME NEW m \in 0 .. 30
  PROVE  fs_getMsb32(2^m) = m
<1>1. 2^m # 0 /\ m \in Bits(2^m) /\ \A k \in Bits(2^m) : k <= m
  <2> DEFINE x == 2^m
  <2>1. Bits(x) = {m}
    BY BitOfPower
  <2>2. m \in 0 .. 31
    OBVIOUS
  <2>3. x \in Nat \ {0}
    BY ONLY <2>2, PowerPositive, Zenon
  <2> HIDE DEF x
  <2>4. x # 0 /\ m \in Bits(x) /\ \A k \in Bits(x) : k <= m
    BY <2>1, <2>3
  <2> QED
    BY <2>4 DEF x
<1> QED
  BY ONLY <1>1, HighestBit, Zenon

\* A number of 31 bits that is not 0 has a bit.
LEMMA SomeBit ==
  ASSUME NEW val \in Nat, 0 < val, val < 2^31
  PROVE  Bits(val) # {}
<1>1. SUFFICES ASSUME Bits(val) = {}
               PROVE  FALSE
  OBVIOUS
<1> DEFINE T == {k \in 0 .. 31 : val # 2^k * (val \div 2^k)}
<1>2. ASSUME T # {} PROVE FALSE
  <2>1. T \in SUBSET Nat
    OBVIOUS
  <2>2. PICK k \in T : \A i \in T : k <= i
    BY ONLY <1>2, <2>1, LeastOf
  <2>3. k # 0
    <3>1. 2^0 = 1 /\ val \div 1 = val
      OBVIOUS
    <3>2. k = 0 => 2^k = 1
      BY <3>1
    <3> QED
      BY <2>2, <3>1, <3>2
  <2> DEFINE j == k - 1
             x == 2^j
             q == val \div x
  <2>4. j \in 0 .. 30 /\ k = j + 1 /\ ~(k <= j) /\ j \in 0 .. 31
    BY <2>2, <2>3
  <2>5. val = x * q
    BY <2>2, <2>4
  <2>6. x \in Nat \ {0} /\ 2^k = 2 * x
    BY <2>4, PowerNext
  <2>7. (q % 2) # 1
    <3>1. \A i \in 0 .. 30 : ((val \div 2^i) % 2) # 1
      <4>1. Bits(val) = {i \in 0 .. 30 : ((val \div 2^i) % 2) = 1}
        BY DEF Bits, WordBits
      <4> QED
        BY ONLY <1>1, <4>1, Zenon
    <3> HIDE DEF j
    <3> QED
      BY ONLY <2>4, <3>1, Zenon
  <2> HIDE DEF j, x
  <2>8. q \in Nat
    BY ONLY <2>6, NatDivision, val \in Nat
  <2> HIDE DEF q
  <2> DEFINE p == q \div 2
  <2>9. q = 2 * p /\ p \in Nat
    BY <2>7, <2>8
  <2> HIDE DEF p
  <2>10. val = (2 * x) * p
    BY ONLY <2>5, <2>6, <2>9
  <2>11. val \div (2 * x) = p
    <3>1. 2 * x \in Nat \ {0} /\ 0 \in 0 .. 2 * x - 1
      BY <2>6
    <3> DEFINE z == 2 * x
    <3>2. z \in Nat \ {0} /\ 0 \in 0 .. z - 1 /\ val = z * p + 0
      BY <2>9, <2>10, <3>1
    <3> HIDE DEF z
    <3>3. (z * p + 0) \div z = p
      BY ONLY <2>9, <3>2, QuotientIs
    <3> QED
      BY ONLY <3>2, <3>3, Zenon DEF z
  <2>12. val = 2^k * (val \div 2^k)
    BY ONLY <2>6, <2>10, <2>11, Zenon
  <2> QED
    BY <2>2, <2>12
<1>3. val = 2^31 * (val \div 2^31)
  <2>1. 31 \in 0 .. 31
    OBVIOUS
  <2> QED
    BY <1>2, <2>1
<1> DEFINE z == 2^31
           q == val \div z
<1>4. z \in Nat \ {0}
  BY PowerPositive
<1> HIDE DEF z
<1>5. q \in Nat
  BY ONLY <1>4, NatDivision, val \in Nat
<1>6. val = z * q /\ 0 < val /\ val < z
  BY <1>3 DEF z
<1> HIDE DEF q
<1>7. q = 0 \/ z * q >= z
  BY <1>4, <1>5
<1> QED
  BY <1>4, <1>5, <1>6, <1>7

\* The highest bit of such a number.
LEMMA HighestIsBit ==
  ASSUME NEW val \in Nat, 0 < val, val < 2^31
  PROVE  fs_getMsb32(val) \in 0 .. 30
<1> DEFINE T == {j \in 0 .. 30 : 30 - j \in Bits(val)}
<1>1. PICK k : k \in Bits(val)
  BY SomeBit
<1>2. \A i \in Bits(val) : i \in 0 .. 30
  BY DEF Bits, WordBits
<1>3. 30 - k \in T /\ T \in SUBSET Nat
  BY <1>1, <1>2
<1>4. PICK j \in T : \A i \in T : j <= i
  BY ONLY <1>3, LeastOf
<1> DEFINE m == 30 - j
<1>5. m \in Bits(val) /\ m \in 0 .. 30
  BY <1>4
<1>6. ASSUME NEW i \in Bits(val)
      PROVE  i <= m
  <2>1. 30 - i \in T /\ i \in 0 .. 30
    BY <1>2
  <2>2. j <= 30 - i
    BY <1>4, <2>1
  <2> QED
    BY <1>2, <1>4, <2>1, <2>2
<1> HIDE DEF m
<1> QED
  BY <1>5, <1>6, HighestBit

\* What a size is rounded up to is a power of two.
LEMMA RoundedIsPower ==
  ASSUME NEW size \in Nat, 0 < size, size <= IndexMax, RoundUp(size) <= IndexMax
  PROVE  \E j \in 0 .. 30 : RoundUp(size) = 2^j
<1> DEFINE m == fs_getMsb32(size)
<1>1. m \in 0 .. 30
  <2>1. size < 2^31
    <3>1. IndexMax < 2^31
      BY SMT DEF IndexMax
    <3>2. 2^31 \in Nat /\ IndexMax \in Nat
      BY SMT DEF IndexMax
    <3> QED
      BY <3>1, <3>2, SMT
  <2> QED
    BY ONLY <2>1, HighestIsBit, size \in Nat, 0 < size, Zenon
<1>2. RoundUp(size) = 2^(m + 1) \/ RoundUp(size) = 2^m
  BY Zenon DEF RoundUp
<1> HIDE DEF m
<1>3. ASSUME RoundUp(size) = 2^(m + 1)
      PROVE  m + 1 \in 0 .. 30
  <2>1. m = 30 => 2^(m + 1) = 2^31
    <3>1. 30 + 1 = 31
      OBVIOUS
    <3> QED
      BY ONLY <3>1, Zenon
  <2>2. ~(2^31 <= IndexMax)
    BY SMT DEF IndexMax
  <2>3. m # 30
    BY ONLY <1>3, <2>1, <2>2, RoundUp(size) <= IndexMax, Zenon
  <2> QED
    BY <1>1, <2>3
<1> QED
  BY ONLY <1>1, <1>2, <1>3, Zenon

\* The length of the later arrays is one of the powers of two.
PowerLength == pc # "closed" => \E i \in 0 .. 30 : reallocArrayInsert = 2^i

LEMMA OpenTakesPower ==
  ASSUME VectorAssumption, WidthAssumption, NEW o \in Opens, Open(o)
  PROVE  PowerLength'
<1> DEFINE size == RoundUp(o.realloc)
           r == size \div CellSize
<1>1. /\ o.realloc \in Nat /\ CellSize \in Nat \ {0} /\ o.realloc >= CellSize
      /\ size \in Nat /\ (size % CellSize) = 0
  BY DEF VectorAssumption, Open
<1>2. o.realloc <= IndexMax /\ RoundUp(o.realloc) <= IndexMax
  <2>1. RoundUp(o.realloc) \in 0 .. IndexMax /\ o.realloc \in 0 .. IndexMax
    BY Zenon DEF WidthAssumption
  <2> HIDE DEF size
  <2> DEFINE a == o.realloc
             b == RoundUp(o.realloc)
  <2>2. a \in 0 .. IndexMax /\ b \in 0 .. IndexMax
    BY <2>1
  <2> HIDE DEF a, b
  <2>3. a <= IndexMax /\ b <= IndexMax
    BY <2>2, SMT
  <2> QED
    BY <2>3, Zenon DEF a, b
<1>3. 0 < o.realloc
  BY <1>1
<1>4. PICK j \in 0 .. 30 : size = 2^j
  BY ONLY <1>1, <1>2, <1>3, RoundedIsPower, Zenon
<1>5. size = CellSize * r /\ r \in Nat
  <2> HIDE DEF size
  <2>1. size = CellSize * r + (size % CellSize) /\ r \in Nat
    BY ONLY <1>1, NatDivision DEF r
  <2> HIDE DEF r
  <2> QED
    BY <1>1, <2>1
<1>6. reallocArrayInsert' = r
  BY DEF Open
<1> HIDE DEF size, r
<1>7. PICK i \in 0 .. j : r = 2^i
  <2>1. 2^j = CellSize * r /\ CellSize \in Nat
    BY ONLY <1>1, <1>4, <1>5, Zenon
  <2> QED
    BY ONLY <1>5, <2>1, DivisorOfPower, j \in 0 .. 30, Zenon
<1>8. i \in 0 .. 30
  BY <1>7
<1> QED
  BY ONLY <1>6, <1>7, <1>8, Zenon DEF PowerLength

\* fs_fragment_vector.h:127-148, 179-180: the shift that addresses are computed with is
\* that of the length that arrays are allocated with, whatever sizes are asked for.
THEOREM ShiftsAreLengths ==
  ASSUME VectorAssumption, WidthAssumption
  PROVE  VectorSpec => []ShiftIsLength
<1>1. VectorInit => PowerLength
  BY Zenon DEF VectorInit, PowerLength
<1>2. PowerLength /\ [VectorNext]_vars => PowerLength'
  <2> SUFFICES ASSUME PowerLength, [VectorNext]_vars
               PROVE  PowerLength'
    OBVIOUS
  <2>1. ASSUME NEW o \in Opens, Open(o)
        PROVE  PowerLength'
    BY <2>1, OpenTakesPower
  <2>2. CASE Close
    BY <2>2, Zenon DEF Close, PowerLength
  <2>3. ASSUME reallocArrayInsert' = reallocArrayInsert, pc # "closed" \/ pc' = pc
        PROVE  PowerLength'
    BY <2>3, Zenon DEF PowerLength
  <2>4. CASE \/ \E v \in Values : Insert(v)
             \/ \E index \in 0 .. MaxData : Getdata(index)
             \/ Pop \/ Clear \/ InsertStep \/ UNCHANGED vars
    <3>1. reallocArrayInsert' = reallocArrayInsert /\ (pc # "closed" \/ pc' = pc)
      BY <2>4 DEF Insert, Getdata, Pop, Clear, InsertStep, Realloc, ReallocFails, TableFails, Store,
                  StoreWild, Inserting, shape, vars
    <3> QED
      BY <2>3, <3>1
  <2> QED
    BY <2>1, <2>2, <2>4 DEF VectorNext, VectorCall
<1>3. PowerLength => ShiftIsLength
  <2> SUFFICES ASSUME PowerLength, pc # "closed"
               PROVE  reallocArrayInsert = 2^fs_getMsb32(reallocArrayInsert)
    BY Zenon DEF ShiftIsLength
  <2>1. PICK i \in 0 .. 30 : reallocArrayInsert = 2^i
    BY Zenon DEF PowerLength
  <2>2. fs_getMsb32(2^i) = i
    BY ONLY HighestOfPower, Zenon
  <2> QED
    BY ONLY <2>1, <2>2, Zenon
<1> QED
  BY <1>1, <1>2, <1>3, PTL DEF VectorSpec
=============================================================================
