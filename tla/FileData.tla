------------------------------ MODULE FileData ------------------------------
(***************************************************************************)
(* The contents of one SecAFS file: the fixed-size chunks of fs_data and   *)
(* the size in fs_inode (sdk/rust/src/filesystem/secafs.rs).  Two sets of  *)
(* operations share them: those of an open handle (SecAFSFile), which FUSE *)
(* and NFS use, and those that take a path, which the SDK and the CLI use. *)
(*                                                                         *)
(* Each writing operation is one transaction, so it is one step here; the  *)
(* operations of one mount run one after another.  A chunk that has no row *)
(* is a hole, and a chunk may be shorter than the chunk size.              *)
(***************************************************************************)
EXTENDS Integers, Sequences

CONSTANTS
  ChunkSize,  \* fs_config.chunk_size
  Byte,       \* the bytes that are written
  Zero,       \* the byte that fills gaps
  MaxSize     \* bound: no file grows beyond this many bytes

ASSUME ChunkAssumption == ChunkSize \in Nat \ {0}
ASSUME ByteAssumption == Zero \in Byte
ASSUME SizeAssumption == MaxSize \in Nat

VARIABLES
  exists,  \* the path has an inode
  chunks,  \* rows of fs_data: contents by chunk_index
  size,    \* fs_inode.size
  bytes    \* history: the contents a flat file would have

vars == <<exists, chunks, size, bytes>>

Lesser(a, b) == IF a < b THEN a ELSE b
Greater(a, b) == IF a > b THEN a ELSE b

ChunkOf(i) == i \div ChunkSize

Start(k) == k * ChunkSize

\* The chunk a SELECT finds; a missing row reads as an empty chunk.
Select(rows, k) == IF k \in DOMAIN rows THEN rows[k] ELSE <<>>

Stored(k) == Select(chunks, k)

\* The j-th byte of a chunk, zero beyond its end.
BlobAt(b, j) == IF j <= Len(b) THEN b[j] ELSE Zero

\* Vec::resize(n, 0)
Resize(b, n) == [j \in 1..n |-> BlobAt(b, j)]

-----------------------------------------------------------------------------
\* A flat file after a write and after a truncation.
Written(b, off, data) ==
  [j \in 1..Greater(Len(b), off + Len(data)) |->
     IF off < j /\ j <= off + Len(data) THEN data[j - off] ELSE BlobAt(b, j)]

Sized(b, n) == Resize(b, n)

-----------------------------------------------------------------------------
NoRows == [k \in {} |-> <<>>]

Init ==
  /\ exists = FALSE
  /\ chunks = NoRows
  /\ size = 0
  /\ bytes = <<>>

\* create_file: an inode of size 0 and its directory entry.
CreateFile ==
  /\ ~exists
  /\ exists' = TRUE
  /\ UNCHANGED <<chunks, size, bytes>>

\* Rows written by one operation replace or join the others.
Upsert(new) ==
  [k \in DOMAIN chunks \cup DOMAIN new |-> IF k \in DOMAIN new THEN new[k] ELSE chunks[k]]

\* Mutant: the chunk is cut to the end of the write.
PatchedShort(k, off, data) ==
  LET lo == Greater(off - Start(k), 0)
      hi == Lesser(off + Len(data) - Start(k), ChunkSize)
      base == Resize(Stored(k), hi)
  IN  [j \in 1..Len(base) |->
         IF lo < j /\ j <= hi THEN data[Start(k) + j - off] ELSE base[j]]

\* The chunk that write_data_at_offset_with_conn saves: the stored one, extended
\* if needed, with the bytes lo..hi-1 of the chunk overwritten.  A write of the
\* whole chunk does not read the stored one, and would not show it.
Patched(k, off, data) ==
  LET lo == Greater(off - Start(k), 0)
      hi == Lesser(off + Len(data) - Start(k), ChunkSize)
      base == Resize(Stored(k), Greater(Len(Stored(k)), hi))
  IN  [j \in 1..Len(base) |->
         IF lo < j /\ j <= hi THEN data[Start(k) + j - off] ELSE base[j]]

\* SecAFSFile::pwrite; an empty write returns before it changes anything.
HandlePwrite(off, data) ==
  /\ exists
  /\ Len(data) > 0
  /\ off + Len(data) <= MaxSize
  /\ chunks' = Upsert([k \in ChunkOf(off)..ChunkOf(off + Len(data) - 1) |->
                         Patched(k, off, data)])
  /\ size' = Greater(size, off + Len(data))
  /\ bytes' = Written(bytes, off, data)
  /\ UNCHANGED exists

\* Mutant: the last chunk kept is not cut.
ShrunkWhole(n) ==
  LET last == ChunkOf(n - 1) IN
  [k \in {i \in DOMAIN chunks : i <= last} |-> chunks[k]]

\* The rows left by a shrink to n > 0 bytes, the last one cut to its new length.
Shrunk(n) ==
  LET last == ChunkOf(n - 1) IN
  [k \in {i \in DOMAIN chunks : i <= last} |->
     IF k = last THEN Resize(chunks[k], Lesser(Len(chunks[k]), n - Start(last)))
     ELSE chunks[k]]

\* SecAFSFile::truncate: an extension only moves the size.
HandleTruncate(n) ==
  /\ exists
  /\ chunks' = IF n = 0 THEN NoRows
               ELSE IF n < size THEN Shrunk(n)
               ELSE chunks
  /\ size' = n
  /\ bytes' = Sized(bytes, n)
  /\ UNCHANGED exists

-----------------------------------------------------------------------------
\* The length of the chunk SecAFS::pwrite saves: the last one is cut to the end of
\* the write or of the file.
SavedLen(k, end) ==
  LET oldEnd == IF size > Start(k) THEN Lesser(size - Start(k), ChunkSize) ELSE 0
  IN  IF k = ChunkOf(end - 1) THEN Greater(end - Start(k), oldEnd) ELSE ChunkSize

\* Its bytes: those of the stored chunk, zero-filled to the chunk size, with the
\* bytes from..to-1 overwritten by those of the data from src on.
Rewritten(k, off, data) ==
  LET from == Greater(off - Start(k), 0)
      to == Lesser(ChunkSize, off + Len(data) - Start(k))
      src == Greater(Start(k) - off, 0)
      base == Resize(Stored(k), ChunkSize)
  IN  [j \in 1..SavedLen(k, off + Len(data)) |->
         IF from < j /\ j <= to THEN data[src + j - from] ELSE base[j]]

\* SecAFS::pwrite.  A missing file is created with the size the write ends at,
\* also when the write is empty; an empty write to a file changes nothing.
PathPwrite(off, data) ==
  /\ off + Len(data) <= MaxSize
  /\ exists => Len(data) > 0
  /\ exists' = TRUE
  /\ chunks' = IF Len(data) = 0 THEN chunks
               ELSE Upsert([k \in ChunkOf(off)..ChunkOf(off + Len(data) - 1) |->
                              Rewritten(k, off, data)])
  /\ size' = Greater(size, off + Len(data))
  /\ bytes' = Written(bytes, off, data)

\* The chunk of the last byte of the file, if it has a row, and the chunks that
\* an extension to n bytes inserts.
LastRow == {k \in DOMAIN chunks : size > 0 /\ k = ChunkOf(size - 1)}

NewRows(n) == (IF size = 0 THEN 0 ELSE ChunkOf(size - 1) + 1)..ChunkOf(n - 1)

\* The rows of an extension to n bytes: the last row padded, the new ones zeros.
Padded(n) ==
  LET len(k) == IF k = ChunkOf(n - 1) THEN n - Start(k) ELSE ChunkSize IN
  [k \in LastRow \cup NewRows(n) |-> Resize(Stored(k), Greater(Len(Stored(k)), len(k)))]

\* SecAFS::truncate; the INSERT of a chunk that has a row would fail it.
PathTruncate(n) ==
  /\ exists
  /\ n > size => NewRows(n) \cap DOMAIN chunks = {}
  /\ chunks' = IF n = 0 THEN NoRows
               ELSE IF n < size THEN Shrunk(n)
               ELSE IF n > size THEN Upsert(Padded(n))
               ELSE chunks
  /\ size' = n
  /\ bytes' = Sized(bytes, n)
  /\ UNCHANGED exists

-----------------------------------------------------------------------------
Data == UNION {[1..n -> Byte] : n \in 0..MaxSize}

Next ==
  \/ CreateFile
  \/ \E off \in 0..MaxSize, data \in Data : HandlePwrite(off, data) \/ PathPwrite(off, data)
  \/ \E n \in 0..MaxSize : HandleTruncate(n) \/ PathTruncate(n)

Spec == Init /\ [][Next]_vars

-----------------------------------------------------------------------------
\* Type invariant: chunks are blobs of at most ChunkSize bytes.
TypeOK ==
  /\ exists \in BOOLEAN
  /\ DOMAIN chunks \subseteq Nat
  /\ \A k \in DOMAIN chunks : chunks[k] \in Seq(Byte) /\ Len(chunks[k]) <= ChunkSize
  /\ size \in 0..MaxSize
  /\ bytes \in Seq(Byte)
  /\ Len(bytes) = size

\* The byte at offset i as the chunks have it; holes and short chunks are zeros.
At(i) == BlobAt(Stored(ChunkOf(i)), i - Start(ChunkOf(i)) + 1)

\* Nothing is stored beyond the end of the file, so that a later extension shows
\* zeros and never bytes that a truncation had removed; and the INSERTs of an
\* extension meet no row.
NoTail == \A k \in DOMAIN chunks : Start(k) + Len(chunks[k]) <= size

\* The chunks hold what a flat file would, byte by byte, whatever mixture of
\* handle and path operations wrote them.
Mirror == \A i \in 0..(size - 1) : bytes[i + 1] = At(i)
=============================================================================
