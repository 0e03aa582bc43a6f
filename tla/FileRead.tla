------------------------------ MODULE FileRead ------------------------------
(***************************************************************************)
(* Reading a SecAFS file: the loops of SecAFSFile::pread, SecAFS::pread    *)
(* and SecAFS::read_file over the rows that their SELECT returns, compared *)
(* with the bytes of a flat file.                                          *)
(***************************************************************************)
EXTENDS FileData, SequencesExt

Zeros(n) == [j \in 1..n |-> Zero]

\* ... WHERE chunk_index >= lo AND chunk_index <= hi ORDER BY chunk_index
Rows(lo, hi) == SetToSortSeq({k \in DOMAIN chunks : lo <= k /\ k <= hi}, LAMBDA a, b : a < b)

\* Mutant: a gap of missing chunks is not filled.
HandleRowNoGap(off, want, acc, k) ==
  LET skip == IF k = ChunkOf(off) THEN off - Start(k) ELSE 0
      room == want - Len(acc)
      b == chunks[k]
      take == Lesser(Len(b) - skip, room)
  IN  IF skip >= Len(b) THEN acc \o Zeros(Lesser(ChunkSize - skip, room))
      ELSE acc \o SubSeq(b, skip + 1, skip + take)
               \o Zeros(Lesser(ChunkSize - (skip + take), room - take))

\* One row of SecAFSFile::pread: zeros for the chunks missing before it, then its
\* bytes from the offset on, then zeros up to the chunk size.  The result so far
\* ends where the previous row's chunk ended, so its length tells the gap.
HandleRow(off, want, acc, k) ==
  LET skip == IF k = ChunkOf(off) THEN off - Start(k) ELSE 0
      full == acc \o Zeros(Start(k) + skip - (off + Len(acc)))
      room == want - Len(full)
      b == chunks[k]
      take == Lesser(Len(b) - skip, room)
  IN  IF skip >= Len(b) THEN full \o Zeros(Lesser(ChunkSize - skip, room))
      ELSE full \o SubSeq(b, skip + 1, skip + take)
                \o Zeros(Lesser(ChunkSize - (skip + take), room - take))

\* SecAFSFile::pread
HandlePread(off, n) ==
  LET want == Lesser(n, size - off)
      rows == Rows(ChunkOf(off), ChunkOf(IF off + want = 0 THEN 0 ELSE off + want - 1))
  IN  IF off >= size THEN <<>>
      ELSE Resize(FoldLeft(LAMBDA acc, k : HandleRow(off, want, acc, k), <<>>, rows), want)

\* One row of SecAFS::pread: the bytes of the rows follow one another.
PathRow(off, n, acc, k) ==
  LET skip == IF acc = <<>> THEN off % ChunkSize ELSE 0
      b == chunks[k]
  IN  IF skip >= Len(b) THEN acc
      ELSE acc \o SubSeq(b, skip + 1, skip + Lesser(Len(b) - skip, n - Len(acc)))

\* SecAFS::pread
PathPread(off, n) ==
  LET rows == Rows(ChunkOf(off), ChunkOf(IF off + n = 0 THEN 0 ELSE off + n - 1))
  IN  FoldLeft(LAMBDA acc, k : PathRow(off, n, acc, k), <<>>, rows)

\* SecAFS::read_file
ReadFile == FoldLeft(LAMBDA acc, k : acc \o chunks[k], <<>>, Rows(0, MaxSize))

-----------------------------------------------------------------------------
\* What a flat file would return.
Slice(off, n) == SubSeq(bytes, off + 1, Lesser(off + n, Len(bytes)))

\* Every chunk up to the end of the file has a row, and all but the last are full.
Dense ==
  \A k \in 0..MaxSize : Start(k) < size =>
    k \in DOMAIN chunks /\ Len(chunks[k]) = Lesser(ChunkSize, size - Start(k))

\* SecAFSFile::pread returns the bytes of the file for every offset and length, through
\* holes, short chunks and the end of the file.  SecAFS::pread and read_file append row
\* to row, so they return them of a file without holes.
ReadsBack ==
  /\ \A off \in 0..(MaxSize + 1), n \in 0..(MaxSize + 1) : HandlePread(off, n) = Slice(off, n)
  /\ Dense => /\ ReadFile = bytes
              /\ \A off \in 0..MaxSize, n \in 0..MaxSize : PathPread(off, n) = Slice(off, n)
=============================================================================
