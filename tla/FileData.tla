------------------------------- MODULE FileData -------------------------------
(* The bytes of a file (filesys/inode.c, file.c): reads and writes of any   *)
(* length at any offset, sector by sector through a bounce buffer, and the  *)
(* position of an open file; and the listing of a directory (directory.c).  *)
(* A disk is a function from sectors to their bytes.  The bounce buffer is  *)
(* allocated at most once in a call: memory says whether that succeeds.     *)
EXTENDS Integers, Sequences, FiniteSetsExt

CONSTANT BLOCK_SECTOR_SIZE

InSector == 0..BLOCK_SECTOR_SIZE - 1

byte_to_sector(inode, pos) ==
  IF pos < inode.length THEN inode.start + pos \div BLOCK_SECTOR_SIZE ELSE -1

sector_ofs(offset) == offset % BLOCK_SECTOR_SIZE
sector_left(offset) == BLOCK_SECTOR_SIZE - sector_ofs(offset)

(* The bytes copied in one round of the loops.                              *)
chunk_size(inode, size, offset) ==
  Min({size, inode.length - offset, sector_left(offset)})

(* The loop goes on: something is left, and there is a bounce buffer unless *)
(* the chunk is a whole sector.                                             *)
GoesOn(inode, size, offset, memory) ==
  LET n == chunk_size(inode, size, offset) IN
  n > 0 /\ (memory \/ n = BLOCK_SECTOR_SIZE)

(* The bytes read; the return value is their number.                        *)
RECURSIVE inode_read_at(_, _, _, _, _)
inode_read_at(disk, inode, size, offset, memory) ==
  IF ~GoesOn(inode, size, offset, memory) THEN <<>>
  ELSE LET n == chunk_size(inode, size, offset) IN
       [i \in 1..n |-> disk[byte_to_sector(inode, offset)][sector_ofs(offset) + i - 1]]
         \o inode_read_at(disk, inode, size - n, offset + n, memory)

(* The sector is read first when the chunk leaves a part of it alone.       *)
Bounce(disk, sec, n, offset) ==
  IF sector_ofs(offset) > 0 \/ n < sector_left(offset) THEN disk[sec] ELSE [j \in InSector |-> 0]

(* The sector that is written back for the first N bytes of BUFFER.         *)
Filled(disk, sec, buffer, n, offset) ==
  [j \in InSector |->
     IF j \in sector_ofs(offset)..sector_ofs(offset) + n - 1
     THEN buffer[j - sector_ofs(offset) + 1] ELSE Bounce(disk, sec, n, offset)[j]]

RECURSIVE WriteLoop(_, _, _, _, _)
WriteLoop(disk, inode, buffer, offset, memory) ==
  IF ~GoesOn(inode, Len(buffer), offset, memory) THEN [disk |-> disk, written |-> 0]
  ELSE LET n == chunk_size(inode, Len(buffer), offset)
           sec == byte_to_sector(inode, offset)
           rest == WriteLoop([disk EXCEPT ![sec] = Filled(disk, sec, buffer, n, offset)], inode,
                             SubSeq(buffer, n + 1, Len(buffer)), offset + n, memory)
       IN  [rest EXCEPT !.written = @ + n]

inode_write_at(disk, inode, buffer, offset, memory) ==
  IF inode.deny_write_cnt > 0 THEN [disk |-> disk, written |-> 0]
  ELSE WriteLoop(disk, inode, buffer, offset, memory)

-----------------------------------------------------------------------------
(* An open file has an inode and a position.                                *)
file_seek(file, new_pos) == [file EXCEPT !.pos = new_pos]
file_tell(file) == file.pos

file_read(disk, file, size, memory) ==
  LET data == inode_read_at(disk, file.inode, size, file.pos, memory)
  IN  [data |-> data, file |-> [file EXCEPT !.pos = @ + Len(data)]]

file_write(disk, file, buffer, memory) ==
  LET w == inode_write_at(disk, file.inode, buffer, file.pos, memory)
  IN  [disk |-> w.disk, file |-> [file EXCEPT !.pos = @ + w.written]]

(* dir_readdir: the next entry in use, if there is one before END, where a  *)
(* read is short.  in_use has one Boolean for each entry, an entry is its   *)
(* number, and 0 is none.                                                   *)
RECURSIVE dir_readdir(_, _, _)
dir_readdir(in_use, pos, end) ==
  IF pos >= end THEN [entry |-> 0, pos |-> pos]
  ELSE IF in_use[pos + 1] THEN [entry |-> pos + 1, pos |-> pos + 1]
  ELSE dir_readdir(in_use, pos + 1, end)

-----------------------------------------------------------------------------
(* What they are for.                                                       *)

Byte_(disk, inode, i) == disk[inode.start + i \div BLOCK_SECTOR_SIZE][i % BLOCK_SECTOR_SIZE]
Transferable(inode, size, offset) == Max({0, Min({size, inode.length - offset})})

(* inode_read_at returns the bytes of the file from OFFSET on, all of those *)
(* there are if there is memory and otherwise the first of them.            *)
ReadsExact(disk, inode, size, offset, memory) ==
  LET r == inode_read_at(disk, inode, size, offset, memory) IN
  /\ Len(r) <= Transferable(inode, size, offset)
  /\ memory => Len(r) = Transferable(inode, size, offset)
  /\ \A i \in 1..Len(r) : r[i] = Byte_(disk, inode, offset + i - 1)

(* inode_write_at changes exactly the bytes it counts, and no other byte of *)
(* the disk, also not those between the end of the file and of its sector.  *)
WritesExact(disk, inode, buffer, offset, memory) ==
  LET w == inode_write_at(disk, inode, buffer, offset, memory)
      at(s, j) == (s - inode.start) * BLOCK_SECTOR_SIZE + j - offset + 1
  IN  /\ w.written <= Transferable(inode, Len(buffer), offset)
      /\ memory /\ inode.deny_write_cnt = 0 => w.written = Transferable(inode, Len(buffer), offset)
      /\ inode.deny_write_cnt > 0 => w.written = 0
      /\ \A s \in DOMAIN disk, j \in InSector :
           w.disk[s][j] = IF at(s, j) \in 1..w.written THEN buffer[at(s, j)] ELSE disk[s][j]

(* Two reads or writes in a row are one of both lengths, and one that is    *)
(* past the end leaves the position where it is.                            *)
PositionsAdvance(disk, inode, buffer, offset) ==
  LET file == file_seek([inode |-> inode, pos |-> 0], offset) IN
  \A k \in 0..Len(buffer) :
    LET r1 == file_read(disk, file, k, TRUE)
        r2 == file_read(disk, r1.file, Len(buffer) - k, TRUE)
        r == file_read(disk, file, Len(buffer), TRUE)
        w1 == file_write(disk, file, SubSeq(buffer, 1, k), TRUE)
        w2 == file_write(w1.disk, w1.file, SubSeq(buffer, k + 1, Len(buffer)), TRUE)
        w == file_write(disk, file, buffer, TRUE)
    IN  /\ r1.data \o r2.data = r.data /\ r2.file = r.file
        /\ w2 = w
        /\ offset >= inode.length => file_tell(r.file) = offset /\ file_tell(w.file) = offset

(* Calls of dir_readdir until one finds nothing list every entry in use     *)
(* before END once, in order.                                               *)
ListsAll(in_use, end) ==
  LET list[pos \in 0..Len(in_use)] ==
        LET e == dir_readdir(in_use, pos, end)
        IN  IF e.entry = 0 THEN <<>> ELSE <<e.entry>> \o list[e.pos]
  IN  list[0] = SelectSeq([i \in 1..end |-> i], LAMBDA i : in_use[i])
==============================================================================
