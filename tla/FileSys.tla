------------------------------- MODULE FileSys -------------------------------
(***************************************************************************)
(* The file system: free map, inodes, the root directory and open files    *)
(* (filesys/free-map.c, inode.c, directory.c, file.c, filesys.c) on a disk *)
(* that keeps what was written when the machine stops.                     *)
(*                                                                         *)
(* The code has no locks, and the model has one caller at a time.  An      *)
(* operation that writes to the disk more than once is one action for each *)
(* write, since the machine may stop between two of them, and OP is the    *)
(* operation under way.  Lengths count sectors, and the map fits in one.   *)
(* The inodes of the free map and of the root directory and their data     *)
(* fill the sectors below Reserved.                                        *)
(***************************************************************************)
EXTENDS Integers, Sequences, FiniteSets, FiniteSetsExt

CONSTANTS
  SectorCnt,    \* sectors of the disk
  Reserved,     \* those of the free map and the root directory
  Name,         \* file names
  Slots,        \* entries of the root directory, 16 in do_format
  MaxLen,       \* the longest file
  Handle,       \* struct file objects, at most
  Value, Zero,  \* the data a sector may hold
  NONE,
  Failures      \* the allocations that may fail in this instance

Sector == 0..SectorCnt - 1
Slot == 1..Slots

(* What is on the disk and in memory; NONE is not any of it.                *)
DiskInode == [start : Sector, length : 0..MaxLen]
Entry == [name : Name, sector : Sector]
Inode == [open_cnt : Nat, deny_write_cnt : Nat, removed : BOOLEAN, data : DiskInode]
OpenFile == [inode : Sector, deny_write : BOOLEAN]

ASSUME FileSysAssumption ==
  /\ SectorCnt \in Nat /\ Reserved \in 2..SectorCnt
  /\ Slots \in Nat /\ MaxLen \in Nat
  /\ Zero \in Value
  /\ NONE \notin Entry \cup Inode \cup OpenFile
  /\ IsFiniteSet(Handle)

VARIABLES
  free_map,     \* sectors marked in memory
  disk_map,     \* sectors marked in the free map's file
  disk,         \* what each other sector holds: a struct inode_disk or data
  dir,          \* entries of the root directory
  open_inodes,  \* the struct inode of each sector that has one
  file,         \* open files
  op,           \* the operation under way, from one disk write to the next
  leaked        \* history: sectors that are marked and belong to nothing

diskVars == <<disk_map, disk, dir>>
fsVars == <<free_map, diskVars, open_inodes, file, op, leaked>>

Extent(start, len) == start..start + len - 1

Idle == op.step = "idle"
Done == op' = [step |-> "idle"]

-----------------------------------------------------------------------------
(* The free map.                                                           *)

(* The runs of CNT sectors that bitmap_scan may find; it takes the first.   *)
Runs(cnt) == {s \in Sector : Extent(s, cnt) \cap free_map = {} /\ s + cnt <= SectorCnt}

(* The map is written to its file after every allocation.                   *)
WriteMap_Never == UNCHANGED disk_map
WriteMap == disk_map' = free_map'

(* free_map_allocate, when there is a run; the marks are taken back when    *)
(* the file cannot be written.                                              *)
free_map_allocate(cnt) ==
  /\ Runs(cnt) # {}
  /\ free_map' = free_map \cup Extent(Min(Runs(cnt)), cnt)
  /\ WriteMap

(* free_map_release does not look at the outcome of the write.              *)
free_map_release(start, cnt) ==
  /\ free_map' = free_map \ Extent(start, cnt)
  /\ WriteMap \/ ("map" \in Failures /\ UNCHANGED disk_map)

-----------------------------------------------------------------------------
(* Inodes.                                                                 *)

Opened_Anew(s) == [open_cnt |-> 1, deny_write_cnt |-> 0, removed |-> FALSE, data |-> disk[s]]

(* The struct inode that inode_open returns for sector S.                   *)
Opened(s) ==
  IF open_inodes[s] # NONE
  THEN [open_inodes[s] EXCEPT !.open_cnt = @ + 1]
  ELSE [open_cnt |-> 1, deny_write_cnt |-> 0, removed |-> FALSE, data |-> disk[s]]

LastOpener(inode) == inode.open_cnt = 1

ToRelease_Never(inode) == FALSE
ToRelease(inode) == inode.removed

(* inode_close of the inode of sector S, whose struct is INODE by now, up   *)
(* to the first disk write.                                                 *)
inode_close(s, inode) ==
  IF LastOpener(inode)
  THEN /\ open_inodes' = [open_inodes EXCEPT ![s] = NONE]
       /\ IF ToRelease(inode)
          THEN op' = [step |-> "release", sector |-> s, data |-> inode.data]
          ELSE Done
  ELSE /\ open_inodes' = [open_inodes EXCEPT ![s] = [inode EXCEPT !.open_cnt = @ - 1]]
       /\ Done

(* The two releases in inode_close.                                         *)
ReleaseInode ==
  /\ op.step = "release"
  /\ free_map_release(op.sector, 1)
  /\ op' = [op EXCEPT !.step = "release_data"]
  /\ UNCHANGED <<disk, dir, open_inodes, file, leaked>>

ReleaseData ==
  /\ op.step = "release_data"
  /\ free_map_release(op.data.start, op.data.length)
  /\ Done
  /\ UNCHANGED <<disk, dir, open_inodes, file, leaked>>

-----------------------------------------------------------------------------
(* The root directory.                                                     *)

(* Where a scan of the directory ends: at its end, or at an entry whose     *)
(* read is short because there is no memory for the bounce buffer.          *)
ScanEnd == IF "scan" \in Failures THEN 1..Slots + 1 ELSE {Slots + 1}

(* The entries for NAME that lookup sees in a scan up to END.               *)
lookup(name, end) == {i \in Slot : i < end /\ dir[i] # NONE /\ dir[i].name = name}

(* The slot in which dir_add's scan stops.                                  *)
FreeSlot(end) ==
  LET free == {i \in Slot : dir[i] = NONE} IN Min(free \cup {end})

-----------------------------------------------------------------------------
(* filesys_create, one action for each write.  Nothing has changed when the *)
(* root directory cannot be opened or there is no sector for the inode.     *)

CreateAllocate(name, len) ==
  /\ Idle
  /\ free_map_allocate(1)
  /\ op' = [step |-> "create", name |-> name, len |-> len, sector |-> Min(Runs(1))]
  /\ UNCHANGED <<disk, dir, open_inodes, file, leaked>>

(* inode_create allocates the data, or fails.                               *)
CreateData ==
  /\ op.step = "create"
  /\ \/ /\ free_map_allocate(op.len)
        /\ op' = [step |-> "write", name |-> op.name, sector |-> op.sector,
                  data |-> [start |-> Min(Runs(op.len)), length |-> op.len]]
     \/ /\ Runs(op.len) = {} \/ {"malloc", "map"} \cap Failures # {}
        /\ op' = [step |-> "undo", sector |-> op.sector]
        /\ UNCHANGED <<free_map, disk_map>>
  /\ UNCHANGED <<disk, dir, open_inodes, file, leaked>>

CreateInode ==
  /\ op.step = "write"
  /\ disk' = [disk EXCEPT ![op.sector] = op.data]
  /\ op' = [step |-> "zero", name |-> op.name, sector |-> op.sector, data |-> op.data, next |-> 0]
  /\ UNCHANGED <<free_map, disk_map, dir, open_inodes, file, leaked>>

(* The loop that writes zeros goes on.                                      *)
ZerosLeft_ButOne == op.next < op.data.length - 1
ZerosLeft == op.next < op.data.length

CreateZero ==
  /\ op.step = "zero" /\ ZerosLeft
  /\ disk' = [disk EXCEPT ![op.data.start + op.next] = Zero]
  /\ op' = [op EXCEPT !.next = @ + 1]
  /\ UNCHANGED <<free_map, disk_map, dir, open_inodes, file, leaked>>

(* dir_add writes the entry in the slot where its second scan stopped; it   *)
(* fails for a name in use, at the end of the directory, for a name that is *)
(* not valid and without memory for the write ("entry").  filesys_create    *)
(* then has only the inode's own sector left to give back.                  *)
dir_add ==
  /\ op.step = "zero" /\ ~ZerosLeft
  /\ \E seen, end \in ScanEnd :
       \/ /\ lookup(op.name, seen) = {}
          /\ FreeSlot(end) \in Slot
          /\ dir' = [dir EXCEPT ![FreeSlot(end)] = [name |-> op.name, sector |-> op.sector]]
          /\ Done
          /\ UNCHANGED leaked
       \/ /\ \/ lookup(op.name, seen) # {}
             \/ FreeSlot(end) \notin Slot
             \/ "entry" \in Failures
          /\ op' = [step |-> "undo", sector |-> op.sector]
          /\ leaked' = leaked \cup Extent(op.data.start, op.data.length)
          /\ UNCHANGED dir
  /\ UNCHANGED <<free_map, disk_map, disk, open_inodes, file>>

CreateUndo ==
  /\ op.step = "undo"
  /\ free_map_release(op.sector, 1)
  /\ Done
  /\ UNCHANGED <<disk, dir, open_inodes, file, leaked>>

-----------------------------------------------------------------------------
(* The other operations.  One that finds no entry or no memory changes      *)
(* nothing: what it opened it closes, and that is never the last opener of  *)
(* a removed inode.                                                         *)

filesys_open(name, h) ==
  /\ Idle /\ file[h] = NONE
  /\ \E end \in ScanEnd :
       /\ lookup(name, end) # {}
       /\ LET s == dir[Min(lookup(name, end))].sector IN
            /\ open_inodes' = [open_inodes EXCEPT ![s] = Opened(s)]
            /\ file' = [file EXCEPT ![h] = [inode |-> s, deny_write |-> FALSE]]
  /\ UNCHANGED <<free_map, diskVars, op, leaked>>

filesys_remove(name) ==
  /\ Idle
  /\ \E end \in ScanEnd :
       /\ lookup(name, end) # {}
       /\ LET i == Min(lookup(name, end))
              s == dir[i].sector
          IN  /\ dir' = [dir EXCEPT ![i] = NONE]
              /\ inode_close(s, [Opened(s) EXCEPT !.removed = TRUE])
  /\ UNCHANGED <<free_map, disk_map, disk, file, leaked>>

file_reopen(f, h) ==
  /\ Idle /\ file[f] # NONE /\ file[h] = NONE
  /\ open_inodes' = [open_inodes EXCEPT ![file[f].inode].open_cnt = @ + 1]
  /\ file' = [file EXCEPT ![h] = [inode |-> file[f].inode, deny_write |-> FALSE]]
  /\ UNCHANGED <<free_map, diskVars, op, leaked>>

(* The struct inode of file F after file_allow_write.                       *)
Allowed(f) ==
  IF file[f].deny_write
  THEN [open_inodes[file[f].inode] EXCEPT !.deny_write_cnt = @ - 1]
  ELSE open_inodes[file[f].inode]

file_close(f) ==
  /\ Idle /\ file[f] # NONE
  /\ inode_close(file[f].inode, Allowed(f))
  /\ file' = [file EXCEPT ![f] = NONE]
  /\ UNCHANGED <<free_map, diskVars, leaked>>

file_deny_write(f) ==
  /\ Idle /\ file[f] # NONE /\ ~file[f].deny_write
  /\ open_inodes' = [open_inodes EXCEPT ![file[f].inode].deny_write_cnt = @ + 1]
  /\ file' = [file EXCEPT ![f].deny_write = TRUE]
  /\ UNCHANGED <<free_map, diskVars, op, leaked>>

file_allow_write(f) ==
  /\ Idle /\ file[f] # NONE /\ file[f].deny_write
  /\ open_inodes' = [open_inodes EXCEPT ![file[f].inode] = Allowed(f)]
  /\ file' = [file EXCEPT ![f].deny_write = FALSE]
  /\ UNCHANGED <<free_map, diskVars, op, leaked>>

(* A write of one sector at offset OFS; longer ones are several of these.   *)
file_write_at(f, v, ofs) ==
  /\ Idle /\ file[f] # NONE
  /\ LET inode == open_inodes[file[f].inode] IN
       /\ inode.deny_write_cnt = 0
       /\ ofs < inode.data.length
       /\ disk' = [disk EXCEPT ![inode.data.start + ofs] = v]
  /\ UNCHANGED <<free_map, disk_map, dir, open_inodes, file, op, leaked>>

-----------------------------------------------------------------------------
InUse == {i \in Slot : dir[i] # NONE}
SectorsOf(s, inode) == {s} \cup Extent(inode.start, inode.length)
EntrySectors(i) == SectorsOf(dir[i].sector, disk[dir[i].sector])
Fixed == 0..Reserved - 1
Listed == UNION {EntrySectors(i) : i \in InUse}

(* The machine stops at any moment and filesys_init (false) starts over     *)
(* from the disk: free_map_open reads the map from its file.                *)
Restart ==
  /\ free_map' = disk_map
  /\ open_inodes' = [s \in Sector |-> NONE]
  /\ file' = [h \in Handle |-> NONE]
  /\ Done
  /\ leaked' = disk_map \ (Fixed \cup Listed)
  /\ UNCHANGED diskVars

(* filesys_init (true): the disk as do_format leaves it, the other sectors  *)
(* with whatever was in them.                                               *)
FsInit ==
  /\ free_map = Fixed
  /\ disk_map = Fixed
  /\ disk \in {[s \in Sector |-> v] : v \in Value}
  /\ dir = [i \in Slot |-> NONE]
  /\ open_inodes = [s \in Sector |-> NONE]
  /\ file = [h \in Handle |-> NONE]
  /\ op = [step |-> "idle"]
  /\ leaked = {}

FsNext ==
  \/ \E n \in Name, len \in 0..MaxLen : CreateAllocate(n, len)
  \/ CreateData \/ CreateInode \/ CreateZero \/ dir_add \/ CreateUndo
  \/ ReleaseInode \/ ReleaseData
  \/ \E n \in Name, h \in Handle : filesys_open(n, h)
  \/ \E n \in Name : filesys_remove(n)
  \/ \E f, h \in Handle : file_reopen(f, h)
  \/ \E f \in Handle : file_close(f) \/ file_deny_write(f) \/ file_allow_write(f)
  \/ \E f \in Handle, v \in Value, ofs \in 0..MaxLen - 1 : file_write_at(f, v, ofs)
  \/ Restart

FsSpec == FsInit /\ [][FsNext]_fsVars

-----------------------------------------------------------------------------
(* Properties.                                                             *)

Removed == {s \in Sector : open_inodes[s] # NONE /\ open_inodes[s].removed}

OpSectors ==
  CASE op.step = "idle" -> {}
    [] op.step \in {"create", "undo"} -> {op.sector}
    [] op.step \in {"write", "zero", "release"} -> SectorsOf(op.sector, op.data)
    [] op.step = "release_data" -> Extent(op.data.start, op.data.length)

(* Who owns sectors: an entry, a removed file that is still open, the       *)
(* operation under way and the file system itself.                          *)
Owners ==
  {<<"entry", i>> : i \in InUse} \cup {<<"removed", s>> : s \in Removed}
    \cup {<<"op", 0>>, <<"fixed", 0>>}

Owned(o) ==
  CASE o[1] = "entry" -> EntrySectors(o[2])
    [] o[1] = "removed" -> SectorsOf(o[2], open_inodes[o[2]].data)
    [] o[1] = "op" -> OpSectors
    [] o[1] = "fixed" -> Fixed

(* No sector belongs to two files, not even to a removed file that some     *)
(* opener still uses and to a new one; so free_map_release's assertion that *)
(* all its sectors are marked cannot fail.  And every marked sector belongs *)
(* to something, except the data sectors that filesys_create leaves behind  *)
(* when dir_add fails and what a stop of the machine leaves behind: no      *)
(* other path loses a sector.                                               *)
SectorsAccounted ==
  /\ \A o, p \in Owners : o # p => Owned(o) \cap Owned(p) = {}
  /\ free_map = leaked \cup UNION {Owned(o) : o \in Owners}

(* Whenever the machine stops, the map on the disk has a mark for every     *)
(* sector that the directory on the disk leads to: the order of the writes  *)
(* in filesys_create, dir_remove and inode_close is safe, and a failed      *)
(* write of the map by free_map_release errs on the safe side.              *)
DiskMapCovers == Listed \subseteq disk_map /\ free_map \subseteq disk_map

(* A struct inode counts its openers and those of them that deny writes, so *)
(* the assertions in inode_deny_write and inode_allow_write hold; it holds  *)
(* what is on the disk; and it is marked removed exactly when no entry      *)
(* leads to it, so that a lookup never reaches a removed file.              *)
InodesExact ==
  \A s \in Sector :
    LET openers == {h \in Handle : file[h] # NONE /\ file[h].inode = s} IN
      IF open_inodes[s] = NONE THEN openers = {}
      ELSE /\ open_inodes[s].open_cnt = Cardinality(openers)
           /\ open_inodes[s].deny_write_cnt = Cardinality({h \in openers : file[h].deny_write})
           /\ open_inodes[s].data = disk[s]
           /\ open_inodes[s].removed <=> \A i \in InUse : dir[i].sector # s

(* Two entries never have one name, nor lead to one inode: dir_add checks   *)
(* the name long before the slot is written.                                *)
EntriesDistinct ==
  \A i, j \in InUse : i # j => dir[i].name # dir[j].name /\ dir[i].sector # dir[j].sector

(* What the disk holds, as a map from names to contents.                    *)
Contents(i) ==
  LET inode == disk[dir[i].sector]
  IN  [k \in 1..inode.length |-> disk[inode.start + k - 1]]

OnDisk ==
  [n \in {dir[i].name : i \in InUse} |-> Contents(CHOOSE i \in InUse : dir[i].name = n)]

Store == INSTANCE FileStore WITH files <- OnDisk

(* On the disk a file appears at once and full of zeros, changes only when  *)
(* it is written under its own name, and disappears at once, through        *)
(* failures, removals of open files, reuse of sectors and restarts; and no  *)
(* two entries have one name.                                               *)
IsFileStore == Store!Spec /\ []EntriesDistinct

==============================================================================
