--------------------------- MODULE FileDataProofs ---------------------------
(***************************************************************************)
(* Proofs about FileData for every chunk size and every bound on the file: *)
(* the chunks mirror a flat file, and nothing is stored beyond its end.    *)
(***************************************************************************)
EXTENDS FileData, SequenceTheorems, TLAPS

\* The inductive invariant: a write reads the chunk it overlays, so Mirror needs NoTail
\* to know that the chunk holds nothing beyond the old end.
IInv == TypeOK /\ NoTail /\ Mirror

\* An earlier chunk ends before a later one starts.
LEMMA MulMonotone ==
  ASSUME NEW a \in Int, NEW b \in Int, NEW c \in Nat, a < b
  PROVE  a * c + c <= b * c
BY Z3

\* The chunk of a byte contains it.
LEMMA ChunkOfBounds ==
  ASSUME NEW i \in Nat
  PROVE  /\ ChunkOf(i) \in Nat
         /\ Start(ChunkOf(i)) \in Nat
         /\ Start(ChunkOf(i)) <= i
         /\ i < Start(ChunkOf(i)) + ChunkSize
BY ChunkAssumption DEF ChunkOf, Start

\* Only one chunk contains a byte.
LEMMA ChunkOfUnique ==
  ASSUME NEW i \in Nat, NEW k \in Nat, Start(k) <= i, i < Start(k) + ChunkSize
  PROVE  ChunkOf(i) = k
<1> DEFINE q == ChunkOf(i)
<1>1. q \in Nat /\ Start(q) \in Nat /\ Start(q) <= i /\ i < Start(q) + ChunkSize
  BY Zenon, ChunkOfBounds
<1>2. Start(k) \in Nat /\ ChunkSize \in Nat
  BY ChunkAssumption DEF Start
<1> HIDE DEF q
<1>3. ~(q < k)
  <2>1. q < k => Start(q) + ChunkSize <= Start(k)
    BY <1>1, <1>2, MulMonotone DEF Start
  <2> QED
    BY <1>1, <1>2, <2>1
<1>4. ~(k < q)
  <2>1. k < q => Start(k) + ChunkSize <= Start(q)
    BY <1>1, <1>2, MulMonotone DEF Start
  <2> QED
    BY <1>1, <1>2, <2>1
<1> QED
  BY <1>1, <1>3, <1>4 DEF q

\* Chunks start at a byte offset and are not empty.
LEMMA StartType ==
  ASSUME NEW k \in Nat
  PROVE  Start(k) \in Nat /\ ChunkSize \in Nat /\ ChunkSize > 0
BY ChunkAssumption DEF Start

\* A chunk ends at or before the start of every later one.
LEMMA StartOrder ==
  ASSUME NEW k \in Nat, NEW m \in Nat, k < m
  PROVE  Start(k) + ChunkSize <= Start(m)
BY MulMonotone, ChunkAssumption DEF Start

\* Chunk indices grow with offsets.
LEMMA ChunkOfMonotone ==
  ASSUME NEW a \in Nat, NEW b \in Nat, a <= b
  PROVE  ChunkOf(a) <= ChunkOf(b)
<1> DEFINE x == ChunkOf(a)
           y == ChunkOf(b)
<1>1. x \in Nat /\ Start(x) \in Nat /\ Start(x) <= a /\ a < Start(x) + ChunkSize
  BY Zenon, ChunkOfBounds
<1>2. y \in Nat /\ Start(y) \in Nat /\ Start(y) <= b /\ b < Start(y) + ChunkSize
  BY Zenon, ChunkOfBounds
<1> HIDE DEF x, y
<1>3. y < x => Start(y) + ChunkSize <= Start(x)
  BY Zenon, <1>1, <1>2, StartOrder
<1>4. ~(y < x)
  BY <1>1, <1>2, <1>3, ChunkAssumption
<1> QED
  BY <1>1, <1>2, <1>4 DEF x, y

\* A byte read from a chunk, or the zero read beyond its end, is a byte.
LEMMA BlobType ==
  ASSUME NEW b \in Seq(Byte), NEW j \in Nat \ {0}
  PROVE  BlobAt(b, j) \in Byte
BY ByteAssumption DEF BlobAt

\* Vec::resize gives n bytes: those of the chunk, then zeros.
LEMMA ResizeIs ==
  ASSUME NEW b \in Seq(Byte), NEW n \in Nat
  PROVE  /\ Resize(b, n) \in Seq(Byte)
         /\ Len(Resize(b, n)) = n
         /\ \A j \in 1..n : Resize(b, n)[j] = BlobAt(b, j)
<1>1. \A j \in 1..n : BlobAt(b, j) \in Byte
  BY BlobType
<1>2. Resize(b, n) \in [1..n -> Byte]
  BY Zenon, <1>1 DEF Resize
<1>3. Resize(b, n) \in Seq(Byte)
  BY <1>2, SeqDef
<1> QED
  BY <1>3 DEF Resize

\* A resized chunk shows the old bytes and zeros.
LEMMA ResizeAt ==
  ASSUME NEW b \in Seq(Byte), NEW n \in Nat, NEW j \in Nat \ {0}
  PROVE  BlobAt(Resize(b, n), j) = IF j <= n THEN BlobAt(b, j) ELSE Zero
<1>1. Len(Resize(b, n)) = n /\ \A i \in 1..n : Resize(b, n)[i] = BlobAt(b, i)
  BY Zenon, ResizeIs
<1>2. CASE j <= n
  <2>1. BlobAt(Resize(b, n), j) = Resize(b, n)[j]
    BY Zenon, <1>1, <1>2 DEF BlobAt
  <2> QED
    BY <1>1, <1>2, <2>1
<1>3. CASE ~(j <= n)
  BY Zenon, <1>1, <1>3 DEF BlobAt
<1> QED
  BY Zenon, <1>2, <1>3

\* What a SELECT returns is a chunk.
LEMMA StoredType ==
  ASSUME TypeOK, NEW k
  PROVE  Stored(k) \in Seq(Byte) /\ Len(Stored(k)) \in Nat /\ Len(Stored(k)) <= ChunkSize
<1>1. <<>> \in Seq(Byte) /\ Len(<<>>) = 0
  OBVIOUS
<1> QED
  BY <1>1, ChunkAssumption DEF Stored, Select, TypeOK

\* Beyond the end of the file the chunks hold nothing.
LEMMA BeyondEnd ==
  ASSUME TypeOK, NoTail, NEW k \in Nat, NEW j \in Nat \ {0}, Start(k) + j > size
  PROVE  BlobAt(Stored(k), j) = Zero
<1>1. Start(k) \in Nat /\ size \in Nat
  BY StartType, SizeAssumption DEF TypeOK
<1>2. CASE k \in DOMAIN chunks
  <2>1. Start(k) + Len(chunks[k]) <= size /\ Len(chunks[k]) \in Nat
    BY <1>2 DEF NoTail, TypeOK
  <2> QED
    BY <1>1, <1>2, <2>1 DEF BlobAt, Stored, Select
<1>3. CASE k \notin DOMAIN chunks
  <2>1. Len(Stored(k)) = 0
    BY Zenon, <1>3 DEF Stored, Select
  <2>2. ~(j <= Len(Stored(k)))
    BY <2>1
  <2> QED
    BY Zenon, <2>2 DEF BlobAt
<1> QED
  BY Zenon, <1>2, <1>3

\* The mirror, chunk by chunk.
LEMMA MirrorAt ==
  ASSUME TypeOK, NoTail, Mirror, NEW k \in Nat, NEW j \in 1..ChunkSize
  PROVE  BlobAt(Stored(k), j) = BlobAt(bytes, Start(k) + j)
<1>a. Start(k) \in Nat /\ ChunkSize \in Nat
  BY Zenon, StartType
<1>b. size \in Nat /\ Len(bytes) = size
  BY SizeAssumption DEF TypeOK
<1> DEFINE i == Start(k) + j - 1
<1>1. Start(k) \in Nat /\ ChunkSize \in Nat /\ size \in Nat /\ Len(bytes) = size
  BY Zenon, <1>a, <1>b
<1>2. i \in Nat /\ Start(k) <= i /\ i < Start(k) + ChunkSize /\ i + 1 = Start(k) + j /\ i - Start(k) + 1 = j
  BY <1>1
<1>3. ChunkOf(i) = k
  BY Zenon, <1>2, ChunkOfUnique
<1>4. CASE i < size
  <2>1. bytes[i + 1] = At(i)
    BY <1>1, <1>2, <1>4 DEF Mirror
  <2> QED
    BY <1>1, <1>2, <1>3, <1>4, <2>1, SMTT(60) DEF At, BlobAt
<1>5. CASE ~(i < size)
  <2>1. BlobAt(Stored(k), j) = Zero
    BY <1>1, <1>2, <1>5, BeyondEnd
  <2> QED
    BY <1>1, <1>2, <1>5, <2>1 DEF BlobAt
<1> QED
  BY Zenon, <1>4, <1>5

-----------------------------------------------------------------------------
\* A write that replaces the chunks of its range by chunks with the right bytes.
LEMMA WriteStep ==
  ASSUME IInv, NEW off \in Nat, NEW data \in Seq(Byte), Len(data) > 0, off + Len(data) <= MaxSize,
         NEW new,
         DOMAIN new = ChunkOf(off)..ChunkOf(off + Len(data) - 1),
         \A k \in DOMAIN new :
           /\ new[k] \in Seq(Byte)
           /\ Len(new[k]) <= ChunkSize
           /\ Start(k) + Len(new[k]) <= size \/ Start(k) + Len(new[k]) <= off + Len(data)
           /\ \A j \in 1..ChunkSize :
                BlobAt(new[k], j) =
                  IF off < Start(k) + j /\ Start(k) + j <= off + Len(data)
                  THEN data[Start(k) + j - off] ELSE BlobAt(Stored(k), j),
         exists' \in BOOLEAN,
         chunks' = Upsert(new),
         size' = IF size > off + Len(data) THEN size ELSE off + Len(data),
         bytes' = Written(bytes, off, data)
  PROVE  IInv'
<1> USE DEF IInv
<1> DEFINE L == Len(data)
           D == DOMAIN new
<1>1. /\ off \in Nat /\ L \in Nat /\ size \in Nat /\ size <= MaxSize /\ size' \in 0..MaxSize
      /\ MaxSize \in Nat /\ ChunkSize \in Nat /\ ChunkSize > 0
      /\ size <= size' /\ off + L <= size' /\ Len(bytes) = size /\ bytes \in Seq(Byte)
  BY SizeAssumption, ChunkAssumption DEF TypeOK
<1>2. D \subseteq Nat
  <2>1. off + L - 1 \in Nat
    BY <1>1
  <2>2. ChunkOf(off) \in Nat /\ ChunkOf(off + L - 1) \in Nat
    BY Zenon, <2>1, ChunkOfBounds
  <2> QED
    BY <2>2
<1>3. /\ DOMAIN chunks' = DOMAIN chunks \cup D
      /\ \A k \in DOMAIN chunks' : chunks'[k] = IF k \in D THEN new[k] ELSE chunks[k]
  BY Zenon DEF Upsert
<1>4. \A k : Stored(k)' = IF k \in D THEN new[k] ELSE Stored(k)
  BY Zenon, <1>3 DEF Stored, Select
<1>5. /\ bytes' \in Seq(Byte) /\ Len(bytes') = size'
      /\ \A i \in 1..size' : bytes'[i] = IF off < i /\ i <= off + L THEN data[i - off] ELSE BlobAt(bytes, i)
  <2>1. \A i \in 1..size' :
          (IF off < i /\ i <= off + L THEN data[i - off] ELSE BlobAt(bytes, i)) \in Byte
    <3> SUFFICES ASSUME NEW i \in 1..size'
                 PROVE  (IF off < i /\ i <= off + L THEN data[i - off] ELSE BlobAt(bytes, i)) \in Byte
      BY Zenon
    <3>1. i \in Nat \ {0}
      BY <1>1
    <3>2. BlobAt(bytes, i) \in Byte
      BY Zenon, <1>1, <3>1, BlobType
    <3>3. off < i /\ i <= off + L => data[i - off] \in Byte
      BY <1>1, <3>1
    <3> QED
      BY Zenon, <3>2, <3>3
  <2>2. bytes' = [i \in 1..size' |-> IF off < i /\ i <= off + L THEN data[i - off] ELSE BlobAt(bytes, i)]
    BY Zenon, <1>1 DEF Written, Greater
  <2>3. bytes' \in [1..size' -> Byte]
    BY Zenon, <2>1, <2>2
  <2>4. bytes' \in Seq(Byte)
    <3>1. size' \in Nat
      BY <1>1
    <3> HIDE <1>1
    <3> QED
      BY <2>3, <3>1, SeqDef, SMTT(60)
  <2> QED
    BY <1>1, <2>2, <2>4
<1>6. TypeOK'
  BY Zenon, <1>1, <1>2, <1>3, <1>5 DEF TypeOK
<1>7. NoTail'
  <2> SUFFICES ASSUME NEW k \in DOMAIN chunks' PROVE Start(k) + Len(chunks'[k]) <= size'
    BY Zenon DEF NoTail, Start
  <2>1. k \in Nat /\ Start(k) \in Nat
    BY Zenon, <1>2, <1>3, StartType DEF TypeOK
  <2>2. CASE k \in D
    BY <1>1, <1>3, <2>1, <2>2
  <2>3. CASE k \notin D
    <3>1. Start(k) + Len(chunks[k]) <= size /\ Len(chunks[k]) \in Nat
      BY <1>3, <2>3 DEF NoTail, TypeOK
    <3> QED
      BY <1>1, <1>3, <2>1, <2>3, <3>1
  <2> QED
    BY Zenon, <2>2, <2>3
<1>8. Mirror'
  <2> SUFFICES ASSUME NEW i \in 0..(size' - 1) PROVE bytes'[i + 1] = At(i)'
    BY Zenon DEF Mirror
  <2> DEFINE k == ChunkOf(i)
             j == i - Start(k) + 1
  <2>1. i \in Nat /\ i + 1 \in 1..size'
    BY <1>1
  <2>a. k \in Nat /\ Start(k) \in Nat /\ Start(k) <= i /\ i < Start(k) + ChunkSize
    BY Zenon, <2>1, ChunkOfBounds
  <2>2. k \in Nat /\ Start(k) \in Nat /\ j \in 1..ChunkSize /\ Start(k) + j = i + 1
    BY <1>1, <2>1, <2>a, SMTT(60)
  <2>3. At(i)' = BlobAt(IF k \in D THEN new[k] ELSE Stored(k), j)
    BY Zenon, <1>4 DEF At, BlobAt, ChunkOf, Start
  <2> HIDE DEF k, j
  <2>4. BlobAt(Stored(k), j) = BlobAt(bytes, i + 1)
    BY <2>2, MirrorAt
  <2>5. CASE k \in D
    <3>1. BlobAt(new[k], j) = IF off < i + 1 /\ i + 1 <= off + L THEN data[i + 1 - off]
                              ELSE BlobAt(Stored(k), j)
      <4>1. BlobAt(new[k], j) = IF off < Start(k) + j /\ Start(k) + j <= off + Len(data)
                                THEN data[Start(k) + j - off] ELSE BlobAt(Stored(k), j)
        BY Zenon, <2>2, <2>5, Zenon
      <4> QED
        BY <2>2, <4>1, SMTT(60)
    <3>2. bytes'[i + 1] = IF off < i + 1 /\ i + 1 <= off + L THEN data[i + 1 - off]
                          ELSE BlobAt(bytes, i + 1)
      BY <1>5, <2>1, SMTT(60)
    <3> QED
      BY Zenon, <2>3, <2>4, <2>5, <3>1, <3>2
  <2>6. CASE k \notin D
    <3>1. ~(off < i + 1 /\ i + 1 <= off + L)
      <4>1. off <= i /\ i <= off + L - 1 => ChunkOf(off) <= k /\ k <= ChunkOf(off + L - 1)
        BY <1>1, <2>1, ChunkOfMonotone DEF k
      <4>2. off + L - 1 \in Nat
        BY <1>1
      <4>3. ChunkOf(off) \in Nat /\ ChunkOf(off + L - 1) \in Nat
        BY Zenon, <1>1, <4>2, ChunkOfBounds
      <4> QED
        BY <1>1, <2>1, <2>2, <2>6, <4>1, <4>3
    <3> QED
      BY Zenon, <1>5, <2>1, <2>3, <2>4, <2>6, <3>1
  <2> QED
    BY Zenon, <2>5, <2>6
<1> QED
  BY Zenon, <1>6, <1>7, <1>8

\* A sequence of bytes given by its elements.
LEMMA ByteSeq ==
  ASSUME NEW n \in Nat, NEW f \in [1..n -> Byte]
  PROVE  f \in Seq(Byte) /\ Len(f) = n
<1>1. f \in Seq(Byte)
  BY Zenon, SeqDef
<1>2. DOMAIN f = 1..n /\ DOMAIN f = 1..Len(f) /\ Len(f) \in Nat
  BY Zenon, <1>1, LenProperties
<1> QED
  BY <1>1, <1>2

\* In a chunk that the write touches, the write covers the bytes lo+1..hi.
LEMMA Covered ==
  ASSUME NEW off \in Nat, NEW n \in Nat \ {0}, NEW k \in ChunkOf(off)..ChunkOf(off + n - 1)
  PROVE  /\ k \in Nat /\ Start(k) \in Nat
         /\ Start(k) < off + n
         /\ off < Start(k) + ChunkSize
<1>1. off + n - 1 \in Nat /\ ChunkSize \in Nat
  BY ChunkAssumption
<1> DEFINE a == ChunkOf(off)
           b == ChunkOf(off + n - 1)
<1>2. a \in Nat /\ b \in Nat
  BY Zenon, <1>1, ChunkOfBounds
<1>3. off < Start(a) + ChunkSize /\ Start(b) <= off + n - 1 /\ Start(a) \in Nat /\ Start(b) \in Nat
  BY Zenon, <1>1, ChunkOfBounds
<1>4. k \in Nat /\ a <= k /\ k <= b
  BY <1>2
<1>5. Start(k) \in Nat
  BY Zenon, <1>4, StartType
<1> HIDE DEF a, b
<1>6. Start(a) <= Start(k)
  <2>1. a < k => Start(a) + ChunkSize <= Start(k)
    BY Zenon, <1>2, <1>4, StartOrder
  <2>2. a = k => Start(a) = Start(k)
    BY Zenon
  <2> QED
    BY <1>1, <1>2, <1>3, <1>4, <1>5, <2>1, <2>2
<1>7. Start(k) <= Start(b)
  <2>1. k < b => Start(k) + ChunkSize <= Start(b)
    BY Zenon, <1>2, <1>4, StartOrder
  <2>2. b = k => Start(b) = Start(k)
    OBVIOUS
  <2> QED
    BY <1>1, <1>2, <1>3, <1>4, <1>5, <2>1, <2>2
<1> QED
  BY <1>1, <1>3, <1>4, <1>5, <1>6, <1>7

\* The chunk a handle write saves.
LEMMA PatchedIs ==
  ASSUME TypeOK, NEW off \in Nat, NEW data \in Seq(Byte), Len(data) > 0,
         NEW k \in ChunkOf(off)..ChunkOf(off + Len(data) - 1), NoTail
  PROVE  /\ Patched(k, off, data) \in Seq(Byte)
         /\ Len(Patched(k, off, data)) <= ChunkSize
         /\ \/ Start(k) + Len(Patched(k, off, data)) <= size
            \/ Start(k) + Len(Patched(k, off, data)) <= off + Len(data)
         /\ \A j \in 1..ChunkSize :
              BlobAt(Patched(k, off, data), j) =
                IF off < Start(k) + j /\ Start(k) + j <= off + Len(data)
                THEN data[Start(k) + j - off] ELSE BlobAt(Stored(k), j)
<1> DEFINE L == Len(data)
           S == Start(k)
           old == Stored(k)
           lo == IF off - S > 0 THEN off - S ELSE 0
           hi == IF off + L - S < ChunkSize THEN off + L - S ELSE ChunkSize
           len == IF Len(old) > hi THEN Len(old) ELSE hi
           new == [j \in 1..len |-> IF lo < j /\ j <= hi THEN data[S + j - off] ELSE BlobAt(old, j)]
<1>1. L \in Nat \ {0}
  OBVIOUS
<1>2. k \in Nat /\ S \in Nat /\ S < off + L /\ off < S + ChunkSize
  BY Zenon, <1>1, Covered
<1>3. ChunkSize \in Nat /\ ChunkSize > 0 /\ size \in Nat
  BY ChunkAssumption, SizeAssumption DEF TypeOK
<1>4. old \in Seq(Byte) /\ Len(old) \in Nat /\ Len(old) <= ChunkSize
  BY Zenon, StoredType
<1>5. S + Len(old) <= size \/ Len(old) = 0
  BY Zenon DEF NoTail, Stored, Select
<1>6. Patched(k, off, data) = new
  <2>1. len \in Nat
    BY <1>1, <1>2, <1>3, <1>4
  <2>2. Len(Resize(old, len)) = len /\ \A j \in 1..len : Resize(old, len)[j] = BlobAt(old, j)
    BY Zenon, <1>4, <2>1, ResizeIs
  <2> QED
    BY Zenon, <2>2 DEF Patched, Lesser, Greater
<1> HIDE DEF S, L, old
<1>7. lo \in Nat /\ hi \in Nat /\ len \in Nat /\ hi <= ChunkSize /\ len <= ChunkSize /\ lo <= hi /\ hi <= len
  BY <1>1, <1>2, <1>3, <1>4
<1>8. \A j \in 1..ChunkSize : lo < j /\ j <= hi <=> off < S + j /\ S + j <= off + L
  BY <1>1, <1>2, <1>3
<1>9. S + hi <= off + L
  BY <1>1, <1>2, <1>3
<1>10. data \in Seq(Byte) /\ L = Len(data)
  BY Zenon DEF L
<1>11. \A j \in 1..len : (IF lo < j /\ j <= hi THEN data[S + j - off] ELSE BlobAt(old, j)) \in Byte
  <2> SUFFICES ASSUME NEW j \in 1..len
               PROVE  (IF lo < j /\ j <= hi THEN data[S + j - off] ELSE BlobAt(old, j)) \in Byte
    BY Zenon
  <2>1. j \in 1..ChunkSize /\ j \in Nat \ {0}
    BY <1>3, <1>7
  <2>2. BlobAt(old, j) \in Byte
    BY Zenon, <1>4, <2>1, BlobType
  <2>3. lo < j /\ j <= hi => data[S + j - off] \in Byte
    <3>1. lo < j /\ j <= hi => S + j - off \in 1..L
      BY <1>1, <1>2, <1>8, <2>1
    <3> QED
      BY <1>10, <3>1
  <2> QED
    BY Zenon, <2>2, <2>3
<1> HIDE DEF lo, hi, len
<1>12. new \in Seq(Byte) /\ Len(new) = len
  <2>1. new \in [1..len -> Byte]
    BY Zenon, <1>11
  <2> QED
    BY Zenon, <1>7, <2>1, ByteSeq
<1>13. ASSUME NEW j \in 1..ChunkSize
       PROVE  BlobAt(new, j) = IF off < S + j /\ S + j <= off + L
                               THEN data[S + j - off] ELSE BlobAt(old, j)
  <2>1. CASE j <= len
    <3>1. BlobAt(new, j) = IF lo < j /\ j <= hi THEN data[S + j - off] ELSE BlobAt(old, j)
      BY <1>3, <1>7, <1>12, <2>1 DEF BlobAt
    <3> QED
      BY Zenon, <1>8, <3>1
  <2>2. CASE ~(j <= len)
    <3>1. BlobAt(new, j) = Zero
      BY Zenon, <1>12, <2>2 DEF BlobAt
    <3>2. ~(j <= hi) /\ ~(j <= Len(old))
      BY <1>3, <1>4, <1>7, <2>2 DEF len
    <3>3. BlobAt(old, j) = Zero
      BY Zenon, <3>2 DEF BlobAt
    <3> QED
      BY Zenon, <1>8, <3>1, <3>2, <3>3
  <2> QED
    BY Zenon, <2>1, <2>2
<1>14. S + len <= size \/ S + len <= off + L
  BY <1>1, <1>2, <1>3, <1>4, <1>5, <1>7, <1>9 DEF len
<1> QED
  BY Zenon, <1>6, <1>7, <1>12, <1>13, <1>14 DEF S, L, old

\* The chunk a path write saves.
LEMMA RewrittenIs ==
  ASSUME TypeOK, NEW off \in Nat, NEW data \in Seq(Byte), Len(data) > 0,
         NEW k \in ChunkOf(off)..ChunkOf(off + Len(data) - 1), NoTail
  PROVE  /\ Rewritten(k, off, data) \in Seq(Byte)
         /\ Len(Rewritten(k, off, data)) <= ChunkSize
         /\ \/ Start(k) + Len(Rewritten(k, off, data)) <= size
            \/ Start(k) + Len(Rewritten(k, off, data)) <= off + Len(data)
         /\ \A j \in 1..ChunkSize :
              BlobAt(Rewritten(k, off, data), j) =
                IF off < Start(k) + j /\ Start(k) + j <= off + Len(data)
                THEN data[Start(k) + j - off] ELSE BlobAt(Stored(k), j)
<1> DEFINE L == Len(data)
           S == Start(k)
           last == ChunkOf(off + L - 1)
           old == Stored(k)
           from == Greater(off - S, 0)
           to == Lesser(ChunkSize, off + L - S)
           src == Greater(S - off, 0)
           len == SavedLen(k, off + L)
           new == [j \in 1..len |-> IF from < j /\ j <= to THEN data[src + j - from]
                                    ELSE Resize(old, ChunkSize)[j]]
<1>1. L \in Nat \ {0} /\ off + L - 1 \in Nat
  OBVIOUS
<1>2. k \in Nat /\ S \in Nat /\ S < off + L /\ off < S + ChunkSize
  BY Zenon, <1>1, Covered
<1>3. ChunkSize \in Nat /\ ChunkSize > 0 /\ size \in Nat
  BY ChunkAssumption, SizeAssumption DEF TypeOK
<1>4. old \in Seq(Byte) /\ Len(old) \in Nat /\ Len(old) <= ChunkSize
  BY StoredType
<1>5. Rewritten(k, off, data) = new
  BY Zenon DEF Rewritten
<1>a. ChunkOf(off) \in Nat /\ last \in Nat
  BY Zenon, <1>1, ChunkOfBounds
<1>b. Start(last) \in Nat /\ Start(last) <= off + L - 1 /\ off + L - 1 < Start(last) + ChunkSize
  BY Zenon, <1>1, ChunkOfBounds
<1>6. /\ last \in Nat /\ k <= last
      /\ Start(last) \in Nat /\ Start(last) <= off + L - 1 /\ off + L - 1 < Start(last) + ChunkSize
  BY <1>2, <1>a, <1>b
<1>7. k # last => S + ChunkSize <= off + L
  <2>1. k < last => S + ChunkSize <= Start(last)
    BY Zenon, <1>2, <1>6, StartOrder
  <2> QED
    BY <1>1, <1>2, <1>3, <1>6, <2>1
<1>8. k = last => off + L - S <= ChunkSize
  BY <1>1, <1>2, <1>3, <1>6
<1> DEFINE oldEnd == IF size > S THEN Lesser(size - S, ChunkSize) ELSE 0
<1>c. len = IF k = last THEN Greater(off + L - S, oldEnd) ELSE ChunkSize
  BY <1>1, <1>2, <1>3, <1>6 DEF SavedLen
<1> HIDE DEF S, L, old, last, len
<1>9. /\ from \in Nat /\ to \in Nat /\ src \in Nat /\ oldEnd \in Nat /\ len \in Nat
      /\ len <= ChunkSize /\ oldEnd <= ChunkSize
  BY <1>1, <1>2, <1>3, <1>8, <1>c DEF Lesser, Greater
<1>10. \A j \in 1..ChunkSize :
         /\ from < j /\ j <= to <=> off < S + j /\ S + j <= off + L
         /\ from < j => src + j - from = S + j - off
  BY <1>1, <1>2, <1>3 DEF Lesser, Greater
<1>11. S + len <= size \/ S + len <= off + L
  BY <1>1, <1>2, <1>3, <1>7, <1>8, <1>c DEF Lesser, Greater
<1>12. \A j \in 1..ChunkSize : j > len => k = last /\ j > off + L - S /\ S + j > size
  BY <1>1, <1>2, <1>3, <1>c DEF Lesser, Greater
<1>13. \A j \in 1..ChunkSize : Resize(old, ChunkSize)[j] = BlobAt(old, j)
  BY Zenon, <1>3, <1>4, ResizeIs
<1>14. data \in Seq(Byte) /\ L = Len(data)
  BY DEF L
<1> HIDE DEF from, to, src, len
<1>15. \A j \in 1..len :
         (IF from < j /\ j <= to THEN data[src + j - from] ELSE Resize(old, ChunkSize)[j]) \in Byte
  <2> SUFFICES ASSUME NEW j \in 1..len
               PROVE  (IF from < j /\ j <= to THEN data[src + j - from]
                       ELSE Resize(old, ChunkSize)[j]) \in Byte
    BY Zenon
  <2>1. j \in 1..ChunkSize /\ j \in Nat \ {0}
    BY <1>3, <1>9
  <2>2. Resize(old, ChunkSize)[j] \in Byte
    BY Zenon, <1>4, <1>13, <2>1, BlobType
  <2>3. from < j /\ j <= to => data[src + j - from] \in Byte
    <3>1. from < j /\ j <= to => S + j - off \in 1..L /\ src + j - from = S + j - off
      BY <1>1, <1>2, <1>10, <2>1
    <3> QED
      BY <1>14, <3>1
  <2> QED
    BY Zenon, <2>2, <2>3
<1>16. new \in Seq(Byte) /\ Len(new) = len
  <2>1. new \in [1..len -> Byte]
    BY Zenon, <1>15
  <2> QED
    BY Zenon, <1>9, <2>1, ByteSeq
<1>17. ASSUME NEW j \in 1..ChunkSize
       PROVE  BlobAt(new, j) = IF off < S + j /\ S + j <= off + L
                               THEN data[S + j - off] ELSE BlobAt(old, j)
  <2>1. CASE j <= len
    <3>1. BlobAt(new, j) = IF from < j /\ j <= to THEN data[src + j - from]
                           ELSE Resize(old, ChunkSize)[j]
      BY <1>3, <1>9, <1>16, <2>1 DEF BlobAt
    <3> QED
      BY Zenon, <1>10, <1>13, <3>1
  <2>2. CASE ~(j <= len)
    <3>1. BlobAt(new, j) = Zero
      BY Zenon, <1>16, <2>2 DEF BlobAt
    <3>2. j > off + L - S /\ S + j > size
      BY <1>3, <1>9, <1>12, <2>2
    <3>3. BlobAt(old, j) = Zero
      BY <1>2, <1>3, <3>2, BeyondEnd DEF S, old
    <3>4. ~(S + j <= off + L)
      BY <1>1, <1>2, <1>3, <3>2
    <3> QED
      BY Zenon, <3>1, <3>3, <3>4
  <2> QED
    BY Zenon, <2>1, <2>2
<1> QED
  BY Zenon, <1>5, <1>9, <1>11, <1>16, <1>17 DEF S, L, old

-----------------------------------------------------------------------------
\* A change of size that keeps every byte below both sizes.
LEMMA ResizeStep ==
  ASSUME IInv, NEW n \in 0..MaxSize, NEW new,
         DOMAIN new \subseteq Nat,
         \A k \in DOMAIN new :
           new[k] \in Seq(Byte) /\ Len(new[k]) <= ChunkSize /\ Start(k) + Len(new[k]) <= n,
         \A k \in Nat : \A j \in 1..ChunkSize :
           Start(k) + j <= n => BlobAt(Select(new, k), j) = BlobAt(Stored(k), j),
         exists' = exists, chunks' = new, size' = n, bytes' = Sized(bytes, n)
  PROVE  IInv'
<1> USE DEF IInv
<1>1. n \in Nat /\ size \in Nat /\ ChunkSize \in Nat /\ bytes \in Seq(Byte)
  BY SizeAssumption, ChunkAssumption DEF TypeOK
<1>2. /\ bytes' \in Seq(Byte) /\ Len(bytes') = n
      /\ \A i \in 1..n : bytes'[i] = BlobAt(bytes, i)
  BY Zenon, <1>1, ResizeIs DEF Sized
<1>3. TypeOK'
  BY Zenon, <1>2 DEF TypeOK
<1>4. NoTail'
  BY Zenon DEF NoTail, Start
<1>5. Mirror'
  <2> SUFFICES ASSUME NEW i \in 0..(n - 1) PROVE bytes'[i + 1] = At(i)'
    BY Zenon DEF Mirror
  <2> DEFINE k == ChunkOf(i)
             j == i - Start(k) + 1
  <2>1. i \in Nat /\ i + 1 \in 1..n
    BY <1>1
  <2>a. k \in Nat /\ Start(k) \in Nat /\ Start(k) <= i /\ i < Start(k) + ChunkSize
    BY Zenon, <2>1, ChunkOfBounds
  <2>2. j \in 1..ChunkSize /\ Start(k) + j = i + 1
    BY <1>1, <2>1, <2>a
  <2>3. At(i)' = BlobAt(Select(new, k), j)
    BY Zenon DEF At, BlobAt, ChunkOf, Start, Stored
  <2> HIDE DEF k, j
  <2>4. BlobAt(Stored(k), j) = BlobAt(bytes, i + 1)
    BY Zenon, <2>a, <2>2, MirrorAt
  <2>5. BlobAt(Select(new, k), j) = BlobAt(Stored(k), j)
    BY <1>1, <2>1, <2>a, <2>2
  <2> QED
    BY Zenon, <1>2, <2>1, <2>3, <2>4, <2>5
<1> QED
  BY Zenon, <1>3, <1>4, <1>5

\* Cutting to n > 0 bytes.
LEMMA ShrunkIs ==
  ASSUME IInv, NEW n \in 1..MaxSize
  PROVE  /\ DOMAIN Shrunk(n) \subseteq Nat
         /\ \A k \in DOMAIN Shrunk(n) :
              /\ Shrunk(n)[k] \in Seq(Byte)
              /\ Len(Shrunk(n)[k]) <= ChunkSize
              /\ Start(k) + Len(Shrunk(n)[k]) <= n
         /\ \A k \in Nat : \A j \in 1..ChunkSize :
              Start(k) + j <= n => BlobAt(Select(Shrunk(n), k), j) = BlobAt(Stored(k), j)
<1> USE DEF IInv
<1> DEFINE last == ChunkOf(n - 1)
           cut == n - Start(last)
           room(k) == IF Len(chunks[k]) < cut THEN Len(chunks[k]) ELSE cut
<1>1. n - 1 \in Nat /\ n \in Nat /\ ChunkSize \in Nat /\ ChunkSize > 0
  BY SizeAssumption, ChunkAssumption
<1>2. last \in Nat /\ Start(last) \in Nat /\ Start(last) <= n - 1 /\ n - 1 < Start(last) + ChunkSize
  BY Zenon, <1>1, ChunkOfBounds
<1>3. cut \in Nat /\ cut <= ChunkSize /\ Start(last) + cut = n
  BY <1>1, <1>2
<1>4. /\ DOMAIN Shrunk(n) = {k \in DOMAIN chunks : k <= last}
      /\ \A k \in DOMAIN Shrunk(n) :
           Shrunk(n)[k] = IF k = last THEN Resize(chunks[k], room(k)) ELSE chunks[k]
  BY Zenon DEF Shrunk, Lesser
<1> HIDE DEF last, cut
<1>5. DOMAIN chunks \subseteq Nat /\ \A k \in DOMAIN chunks :
        chunks[k] \in Seq(Byte) /\ Len(chunks[k]) \in Nat /\ Len(chunks[k]) <= ChunkSize
  BY DEF TypeOK
<1>6. ASSUME NEW k \in DOMAIN Shrunk(n)
      PROVE  /\ Shrunk(n)[k] \in Seq(Byte) /\ Len(Shrunk(n)[k]) <= ChunkSize
             /\ Start(k) + Len(Shrunk(n)[k]) <= n
  <2>1. k \in Nat /\ k \in DOMAIN chunks /\ k <= last /\ Start(k) \in Nat
    BY Zenon, <1>4, <1>5, StartType
  <2>2. CASE k = last
    <3>1. room(k) \in Nat /\ room(k) <= cut
      BY <1>3, <1>5, <2>1
    <3>2. Resize(chunks[k], room(k)) \in Seq(Byte) /\ Len(Resize(chunks[k], room(k))) = room(k)
      BY Zenon, <1>5, <2>1, <3>1, ResizeIs
    <3> QED
      BY <1>1, <1>2, <1>3, <1>4, <2>1, <2>2, <3>1, <3>2
  <2>3. CASE k # last
    <3>1. Start(k) + ChunkSize <= Start(last)
      BY <1>2, <2>1, <2>3, StartOrder
    <3> QED
      BY <1>1, <1>2, <1>4, <1>5, <2>1, <2>3, <3>1
  <2> QED
    BY Zenon, <2>2, <2>3
<1>7. ASSUME NEW k \in Nat, NEW j \in 1..ChunkSize, Start(k) + j <= n
      PROVE  BlobAt(Select(Shrunk(n), k), j) = BlobAt(Stored(k), j)
  <2>1. Start(k) \in Nat /\ j \in Nat \ {0}
    BY <1>1, StartType
  <2>2. k <= last
    <3>1. last < k => Start(last) + ChunkSize <= Start(k)
      BY Zenon, <1>2, StartOrder
    <3> QED
      BY <1>1, <1>2, <1>7, <2>1, <3>1
  <2>3. CASE k \notin DOMAIN chunks
    BY Zenon, <1>4, <2>3 DEF Select, Stored
  <2>4. CASE k \in DOMAIN chunks /\ k # last
    BY Zenon, <1>4, <2>2, <2>4 DEF Select, Stored
  <2>5. CASE k \in DOMAIN chunks /\ k = last
    <3>1. room(k) \in Nat /\ j <= cut
      BY <1>2, <1>3, <1>5, <1>7, <2>1, <2>5
    <3>2. BlobAt(Resize(chunks[k], room(k)), j) = IF j <= room(k) THEN BlobAt(chunks[k], j) ELSE Zero
      BY <1>5, <2>1, <2>5, <3>1, ResizeAt
    <3>3. ~(j <= room(k)) => BlobAt(chunks[k], j) = Zero
      <4>1. ~(j <= room(k)) => ~(j <= Len(chunks[k]))
        BY Zenon, <1>3, <1>5, <2>1, <2>5, <3>1
      <4> QED
        BY Zenon, <4>1 DEF BlobAt
    <3>4. Select(Shrunk(n), k) = Resize(chunks[k], room(k)) /\ Stored(k) = chunks[k]
      BY Zenon, <1>4, <2>2, <2>5 DEF Select, Stored
    <3> QED
      BY Zenon, <3>2, <3>3, <3>4
  <2> QED
    BY Zenon, <2>3, <2>4, <2>5
<1>8. DOMAIN Shrunk(n) \subseteq Nat
  BY Zenon, <1>4, <1>5
<1> QED
  BY Zenon, <1>6, <1>7, <1>8

\* Extending to n bytes with rows of zeros.
LEMMA PaddedIs ==
  ASSUME IInv, NEW n \in 1..MaxSize, n > size, NewRows(n) \cap DOMAIN chunks = {}
  PROVE  /\ DOMAIN Upsert(Padded(n)) \subseteq Nat
         /\ \A k \in DOMAIN Upsert(Padded(n)) :
              /\ Upsert(Padded(n))[k] \in Seq(Byte)
              /\ Len(Upsert(Padded(n))[k]) <= ChunkSize
              /\ Start(k) + Len(Upsert(Padded(n))[k]) <= n
         /\ \A k \in Nat : \A j \in 1..ChunkSize :
              BlobAt(Select(Upsert(Padded(n)), k), j) = BlobAt(Stored(k), j)
<1> USE DEF IInv
<1> DEFINE last == ChunkOf(n - 1)
           P == Padded(n)
           need(k) == IF k = last THEN n - Start(k) ELSE ChunkSize
           len(k) == IF Len(Stored(k)) > need(k) THEN Len(Stored(k)) ELSE need(k)
<1>1. n - 1 \in Nat /\ n \in Nat /\ ChunkSize \in Nat /\ ChunkSize > 0 /\ size \in Nat
  BY SizeAssumption, ChunkAssumption DEF TypeOK
<1>2. last \in Nat /\ Start(last) \in Nat /\ Start(last) <= n - 1 /\ n - 1 < Start(last) + ChunkSize
  BY Zenon, <1>1, ChunkOfBounds
<1>3. DOMAIN P = LastRow \cup NewRows(n) /\ \A k \in DOMAIN P : P[k] = Resize(Stored(k), len(k))
  BY Zenon DEF Padded, Greater
<1>4. ASSUME NEW k \in DOMAIN P PROVE k \in Nat /\ k <= last
  <2>1. size > 0 => size - 1 \in Nat /\ size - 1 <= n - 1
    BY <1>1
  <2>2. size > 0 => ChunkOf(size - 1) \in Nat /\ ChunkOf(size - 1) <= last
    BY Zenon, <1>1, <2>1, ChunkOfBounds, ChunkOfMonotone
  <2>3. k \in LastRow => k \in Nat /\ k <= last
    BY Zenon, <2>2 DEF LastRow
  <2>4. k \in NewRows(n) => k \in Nat /\ k <= last
    BY <1>1, <1>2, <2>2 DEF NewRows
  <2> QED
    BY Zenon, <1>3, <2>3, <2>4
<1> HIDE DEF last, P
<1>5. ASSUME NEW k \in DOMAIN P
      PROVE  /\ P[k] \in Seq(Byte) /\ Len(P[k]) = len(k)
             /\ len(k) \in Nat /\ len(k) <= ChunkSize /\ Start(k) + len(k) <= n
             /\ Len(Stored(k)) <= len(k)
  <2>1. k \in Nat /\ Start(k) \in Nat /\ k <= last
    BY Zenon, <1>4, StartType
  <2>2. Stored(k) \in Seq(Byte) /\ Len(Stored(k)) \in Nat /\ Len(Stored(k)) <= ChunkSize
    BY Zenon, StoredType
  <2>3. Len(Stored(k)) = 0 \/ Start(k) + Len(Stored(k)) <= size
    BY Zenon DEF NoTail, Stored, Select
  <2>4. need(k) \in Nat /\ need(k) <= ChunkSize /\ Start(k) + need(k) <= n
    <3>1. CASE k = last
      BY <1>1, <1>2, <3>1
    <3>2. CASE k # last
      <4>1. Start(k) + ChunkSize <= Start(last)
        BY <1>2, <2>1, <3>2, StartOrder
      <4> QED
        BY <1>1, <1>2, <2>1, <3>2, <4>1
    <3> QED
      BY Zenon, <3>1, <3>2
  <2>5. /\ len(k) \in Nat /\ len(k) <= ChunkSize /\ Start(k) + len(k) <= n
        /\ Len(Stored(k)) <= len(k)
    BY <1>1, <2>1, <2>2, <2>3, <2>4
  <2>6. P[k] = Resize(Stored(k), len(k))
    BY Zenon, <1>3
  <2> HIDE DEF len
  <2>7. P[k] \in Seq(Byte) /\ Len(P[k]) = len(k)
    BY Zenon, <2>2, <2>5, <2>6, ResizeIs
  <2> QED
    BY Zenon, <2>5, <2>7
<1>6. ASSUME NEW k \in DOMAIN P, NEW j \in 1..ChunkSize
      PROVE  BlobAt(P[k], j) = BlobAt(Stored(k), j)
  <2>1. j \in Nat \ {0} /\ len(k) \in Nat /\ Len(Stored(k)) <= len(k)
    BY <1>1, <1>5
  <2>2. Stored(k) \in Seq(Byte) /\ Len(Stored(k)) \in Nat
    BY Zenon, StoredType
  <2> HIDE DEF len
  <2>3. BlobAt(P[k], j) = IF j <= len(k) THEN BlobAt(Stored(k), j) ELSE Zero
    BY Zenon, <1>3, <2>1, <2>2, ResizeAt
  <2>4. ~(j <= len(k)) => ~(j <= Len(Stored(k)))
    BY <2>1, <2>2
  <2>5. ~(j <= len(k)) => BlobAt(Stored(k), j) = Zero
    BY Zenon, <2>4 DEF BlobAt
  <2> QED
    BY Zenon, <2>3, <2>5
<1>7. /\ DOMAIN Upsert(P) = DOMAIN chunks \cup DOMAIN P
      /\ \A k \in DOMAIN Upsert(P) : Upsert(P)[k] = IF k \in DOMAIN P THEN P[k] ELSE chunks[k]
  BY Zenon DEF Upsert
<1>8. ASSUME NEW k \in DOMAIN chunks
      PROVE  /\ k \in Nat /\ Start(k) \in Nat
             /\ chunks[k] \in Seq(Byte) /\ Len(chunks[k]) \in Nat
             /\ Len(chunks[k]) <= ChunkSize /\ Start(k) + Len(chunks[k]) <= size
  BY StartType DEF TypeOK, NoTail
<1>9. ASSUME NEW k \in DOMAIN Upsert(P)
      PROVE  /\ k \in Nat /\ Upsert(P)[k] \in Seq(Byte)
             /\ Len(Upsert(P)[k]) <= ChunkSize /\ Start(k) + Len(Upsert(P)[k]) <= n
  <2>1. CASE k \in DOMAIN P
    BY Zenon, <1>4, <1>5, <1>7, <2>1
  <2>2. CASE k \notin DOMAIN P
    BY <1>1, <1>7, <1>8, <2>2
  <2> QED
    BY Zenon, <2>1, <2>2
<1>10. ASSUME NEW k \in Nat, NEW j \in 1..ChunkSize
       PROVE  BlobAt(Select(Upsert(P), k), j) = BlobAt(Stored(k), j)
  <2>1. CASE k \in DOMAIN P
    <3>1. Select(Upsert(P), k) = P[k]
      BY Zenon, <1>7, <2>1 DEF Select
    <3> QED
      BY Zenon, <1>6, <2>1, <3>1
  <2>2. CASE k \notin DOMAIN P
    BY Zenon, <1>7, <2>2 DEF Select, Stored
  <2> QED
    BY Zenon, <2>1, <2>2
<1> QED
  BY Zenon, <1>9, <1>10 DEF P

-----------------------------------------------------------------------------
\* A file that does not exist has no chunks and no bytes.
LEMMA InvInit == Init => IInv
<1> SUFFICES ASSUME Init PROVE IInv
  BY Zenon
<1>1. DOMAIN chunks = {} /\ size = 0 /\ bytes = <<>> /\ Len(bytes) = 0 /\ bytes \in Seq(Byte) /\ exists = FALSE
  BY DEF Init, NoRows
<1>2. 0 \in 0..MaxSize
  BY SizeAssumption
<1>3. TypeOK
  BY Zenon, <1>1, <1>2 DEF TypeOK
<1>4. NoTail /\ \A i \in 0..(size - 1) : FALSE
  BY <1>1 DEF NoTail
<1> QED
  BY Zenon, <1>3, <1>4 DEF IInv, Mirror

\* Both ways to write.
LEMMA WritesInv ==
  ASSUME IInv, NEW off \in 0..MaxSize, NEW data \in Data,
         HandlePwrite(off, data) \/ PathPwrite(off, data)
  PROVE  IInv'
<1>1. off \in Nat /\ data \in Seq(Byte) /\ Len(data) \in Nat
  <2>1. PICK n \in 0..MaxSize : data \in [1..n -> Byte]
    BY Zenon DEF Data
  <2>2. n \in Nat
    BY SizeAssumption
  <2> QED
    BY <2>1, <2>2, ByteSeq, SizeAssumption
<1>2. TypeOK /\ NoTail
  BY Zenon DEF IInv
<1>3. CASE HandlePwrite(off, data)
  <2> DEFINE new == [k \in ChunkOf(off)..ChunkOf(off + Len(data) - 1) |-> Patched(k, off, data)]
  <2>1. /\ chunks' = Upsert(new) /\ Len(data) > 0 /\ off + Len(data) <= MaxSize
        /\ bytes' = Written(bytes, off, data) /\ exists' \in BOOLEAN
        /\ size' = IF size > off + Len(data) THEN size ELSE off + Len(data)
    BY Zenon, <1>2, <1>3 DEF HandlePwrite, Greater, TypeOK
  <2>2. DOMAIN new = ChunkOf(off)..ChunkOf(off + Len(data) - 1)
    BY Zenon
  <2>3. \A k \in DOMAIN new :
           /\ new[k] \in Seq(Byte)
           /\ Len(new[k]) <= ChunkSize
           /\ Start(k) + Len(new[k]) <= size \/ Start(k) + Len(new[k]) <= off + Len(data)
           /\ \A j \in 1..ChunkSize :
                BlobAt(new[k], j) =
                  IF off < Start(k) + j /\ Start(k) + j <= off + Len(data)
                  THEN data[Start(k) + j - off] ELSE BlobAt(Stored(k), j)
    BY <1>1, <1>2, <2>1, PatchedIs
  <2> HIDE DEF new
  <2> QED
    BY Zenon, <1>1, <2>1, <2>2, <2>3, WriteStep
<1>4. CASE PathPwrite(off, data) /\ Len(data) > 0
  <2> DEFINE new == [k \in ChunkOf(off)..ChunkOf(off + Len(data) - 1) |-> Rewritten(k, off, data)]
  <2>1. /\ chunks' = Upsert(new) /\ off + Len(data) <= MaxSize
        /\ bytes' = Written(bytes, off, data) /\ exists' \in BOOLEAN
        /\ size' = IF size > off + Len(data) THEN size ELSE off + Len(data)
    BY <1>1, <1>4 DEF PathPwrite, Greater
  <2>2. DOMAIN new = ChunkOf(off)..ChunkOf(off + Len(data) - 1)
    BY Zenon
  <2>3. \A k \in DOMAIN new :
           /\ new[k] \in Seq(Byte)
           /\ Len(new[k]) <= ChunkSize
           /\ Start(k) + Len(new[k]) <= size \/ Start(k) + Len(new[k]) <= off + Len(data)
           /\ \A j \in 1..ChunkSize :
                BlobAt(new[k], j) =
                  IF off < Start(k) + j /\ Start(k) + j <= off + Len(data)
                  THEN data[Start(k) + j - off] ELSE BlobAt(Stored(k), j)
    BY <1>1, <1>2, <1>4, RewrittenIs
  <2> HIDE DEF new
  <2> QED
    BY Zenon, <1>1, <1>4, <2>1, <2>2, <2>3, WriteStep
\* An empty write that creates the file: the same as an extension.
<1>5. CASE PathPwrite(off, data) /\ ~(Len(data) > 0)
  <2>1. Len(data) = 0 /\ off + Len(data) = off
    BY <1>1, <1>5
  <2>2. /\ chunks' = chunks /\ exists' \in BOOLEAN /\ bytes' = Written(bytes, off, data)
        /\ size' = IF size > off THEN size ELSE off
    BY Zenon, <1>5, <2>1 DEF PathPwrite, Greater
  <2>3. size \in Nat /\ size <= MaxSize /\ Len(bytes) = size /\ bytes \in Seq(Byte) /\ MaxSize \in Nat
    BY <1>2, SizeAssumption DEF TypeOK
  <2>4. size' \in 0..MaxSize /\ size <= size' /\ size' \in Nat
    BY <2>2, <2>3
  <2>5. bytes' = [j \in 1..size' |-> IF off < j /\ j <= off THEN data[j - off] ELSE BlobAt(bytes, j)]
    BY Zenon, <2>1, <2>2, <2>3 DEF Written, Greater
  <2>6. \A j \in 1..size' : ~(off < j /\ j <= off)
    BY <1>1, <2>4
  <2>7. bytes' = [j \in 1..size' |-> BlobAt(bytes, j)]
    BY Zenon, <2>5, <2>6
  <2>8. /\ bytes' \in Seq(Byte) /\ Len(bytes') = size'
        /\ \A j \in 1..size' : bytes'[j] = BlobAt(bytes, j)
    BY Zenon, <2>3, <2>4, <2>7, ResizeIs DEF Resize
  <2>9. TypeOK'
    BY Zenon, <1>2, <2>2, <2>4, <2>8 DEF TypeOK
  <2>10. NoTail'
    <3> SUFFICES ASSUME NEW k \in DOMAIN chunks PROVE Start(k) + Len(chunks[k]) <= size'
      BY Zenon, <2>2 DEF NoTail, Start
    <3>1. Start(k) \in Nat /\ Len(chunks[k]) \in Nat /\ Start(k) + Len(chunks[k]) <= size
      BY <1>2, StartType DEF TypeOK, NoTail
    <3> QED
      BY <2>3, <2>4, <3>1
  <2>11. Mirror'
    <3>a. PICK m \in Nat : m = size'
      BY Zenon, <2>4
    <3> SUFFICES ASSUME NEW i \in 0..(m - 1) PROVE bytes'[i + 1] = At(i)'
      BY Zenon, <3>a DEF Mirror
    <3> DEFINE k == ChunkOf(i)
               j == i - Start(k) + 1
    <3>b. i \in Nat /\ i + 1 \in 1..m
      OBVIOUS
    <3>1. i \in Nat /\ i + 1 \in 1..size' /\ ChunkSize \in Nat
      BY Zenon, <3>a, <3>b, ChunkAssumption
    <3>2. k \in Nat /\ Start(k) \in Nat /\ Start(k) <= i /\ i < Start(k) + ChunkSize
      BY Zenon, <3>1, ChunkOfBounds
    <3>3. j \in 1..ChunkSize /\ Start(k) + j = i + 1
      BY <3>1, <3>2
    <3>4. At(i)' = BlobAt(Stored(k), j)
      BY Zenon, <2>2 DEF At, BlobAt, ChunkOf, Start, Stored, Select
    <3> HIDE DEF k, j
    <3>5. BlobAt(Stored(k), j) = BlobAt(bytes, i + 1)
      BY Zenon, <3>2, <3>3, MirrorAt DEF IInv
    <3> QED
      BY Zenon, <2>8, <3>1, <3>4, <3>5
  <2> QED
    BY Zenon, <2>9, <2>10, <2>11 DEF IInv
<1> QED
  BY Zenon, <1>3, <1>4, <1>5

\* Both ways to truncate.
LEMMA TruncatesInv ==
  ASSUME IInv, NEW n \in 0..MaxSize, HandleTruncate(n) \/ PathTruncate(n)
  PROVE  IInv'
<1>1. n \in Nat /\ ChunkSize \in Nat /\ size \in Nat
  BY SizeAssumption, ChunkAssumption DEF IInv, TypeOK
<1>2. exists' = exists /\ size' = n /\ bytes' = Sized(bytes, n)
  BY Zenon DEF HandleTruncate, PathTruncate
<1>3. CASE n = 0
  <2>1. chunks' = NoRows /\ DOMAIN NoRows = {}
    BY Zenon, <1>3 DEF HandleTruncate, PathTruncate, NoRows
  <2>2. \A k \in Nat : \A j \in 1..ChunkSize : ~(Start(k) + j <= n)
    <3> SUFFICES ASSUME NEW k \in Nat, NEW j \in 1..ChunkSize PROVE ~(Start(k) + j <= n)
      BY Zenon
    <3>1. Start(k) \in Nat
      BY Zenon, StartType
    <3> QED
      BY <1>1, <1>3, <3>1
  <2> HIDE DEF NoRows
  <2> QED
    BY Zenon, <1>2, <2>1, <2>2, ResizeStep
<1>4. CASE n > 0 /\ n < size
  <2>1. chunks' = Shrunk(n) /\ n \in 1..MaxSize
    BY <1>1, <1>4, SizeAssumption DEF HandleTruncate, PathTruncate
  <2>2. /\ DOMAIN Shrunk(n) \subseteq Nat
        /\ \A k \in DOMAIN Shrunk(n) :
              /\ Shrunk(n)[k] \in Seq(Byte)
              /\ Len(Shrunk(n)[k]) <= ChunkSize
              /\ Start(k) + Len(Shrunk(n)[k]) <= n
        /\ \A k \in Nat : \A j \in 1..ChunkSize :
              Start(k) + j <= n => BlobAt(Select(Shrunk(n), k), j) = BlobAt(Stored(k), j)
    BY Zenon, <2>1, ShrunkIs
  <2> QED
    BY Zenon, <1>2, <2>1, <2>2, ResizeStep
<1>5. CASE n > 0 /\ n >= size /\ chunks' = chunks
  <2>1. /\ DOMAIN chunks \subseteq Nat
        /\ \A k \in DOMAIN chunks :
              chunks[k] \in Seq(Byte) /\ Len(chunks[k]) <= ChunkSize /\ Start(k) + Len(chunks[k]) <= n
    <3> SUFFICES ASSUME NEW k \in DOMAIN chunks PROVE Start(k) + Len(chunks[k]) <= n
      BY Zenon DEF IInv, TypeOK
    <3>1. Start(k) \in Nat /\ Len(chunks[k]) \in Nat /\ Start(k) + Len(chunks[k]) <= size
      BY StartType DEF IInv, TypeOK, NoTail
    <3> QED
      BY <1>1, <1>5, <3>1
  <2>2. \A k \in Nat : \A j \in 1..ChunkSize :
          Start(k) + j <= n => BlobAt(Select(chunks, k), j) = BlobAt(Stored(k), j)
    BY Zenon DEF Stored
  <2> QED
    BY Zenon, <1>2, <1>5, <2>1, <2>2, ResizeStep
<1>6. CASE n > 0 /\ n > size /\ PathTruncate(n)
  <2> DEFINE new == Upsert(Padded(n))
  <2>1. chunks' = new /\ n \in 1..MaxSize /\ NewRows(n) \cap DOMAIN chunks = {}
    BY <1>1, <1>6, SizeAssumption DEF PathTruncate
  <2>2. /\ DOMAIN new \subseteq Nat
        /\ \A k \in DOMAIN new :
              new[k] \in Seq(Byte) /\ Len(new[k]) <= ChunkSize /\ Start(k) + Len(new[k]) <= n
        /\ \A k \in Nat : \A j \in 1..ChunkSize :
              Start(k) + j <= n => BlobAt(Select(new, k), j) = BlobAt(Stored(k), j)
    BY Zenon, <1>6, <2>1, PaddedIs
  <2> HIDE DEF new
  <2> QED
    BY Zenon, <1>2, <2>1, <2>2, ResizeStep
<1> QED
  BY <1>1, <1>3, <1>4, <1>5, <1>6 DEF HandleTruncate, PathTruncate

\* Every write, truncation and creation preserves the invariant.
LEMMA InvStep == IInv /\ [Next]_vars => IInv'
<1> SUFFICES ASSUME IInv, [Next]_vars PROVE IInv'
  BY Zenon
<1>1. ASSUME UNCHANGED <<chunks, size, bytes>>, exists' \in BOOLEAN PROVE IInv'
  BY Zenon, <1>1 DEF IInv, TypeOK, NoTail, Mirror, At, Stored, Select, BlobAt
<1>2. CASE CreateFile
  BY Zenon, <1>1, <1>2 DEF CreateFile
<1>3. CASE UNCHANGED vars
  BY Zenon, <1>1, <1>3 DEF vars, IInv, TypeOK
<1> QED
  BY Zenon, <1>2, <1>3, WritesInv, TruncatesInv DEF Next

-----------------------------------------------------------------------------
\* For every chunk size the chunks hold, byte by byte, what a flat file would
\* after the same writes and truncations, by handle or by path.
THEOREM ChunksMirrorFile == Spec => []Mirror
<1>1. IInv => Mirror
  BY Zenon DEF IInv
<1> QED
  BY <1>1, InvInit, InvStep, PTL DEF Spec

\* No byte is ever stored beyond the end of the file, so none comes back when
\* the file grows again.
THEOREM NothingBeyondEnd == Spec => []NoTail
<1>1. IInv => NoTail
  BY Zenon DEF IInv
<1> QED
  BY <1>1, InvInit, InvStep, PTL DEF Spec
=============================================================================
