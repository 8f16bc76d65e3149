---------------------------- MODULE FileSysProofs ----------------------------
(***************************************************************************)
(* The file system of FileSys keeps its sectors, its free map and its      *)
(* struct inodes in order and implements FileStore, for a disk, a          *)
(* directory and files of any size and any number of open files, with      *)
(* failing allocations and writes of the free map and a stop of the        *)
(* machine between any two writes.  Short reads of the directory ("scan"   *)
(* in Failures) are excluded: they make dir_add overwrite an entry.        *)
(***************************************************************************)
EXTENDS FileSys, Counting, TLAPS

-----------------------------------------------------------------------------
(* The inductive invariant.                                                *)

(* Every operation under way has the fields its next step reads.            *)
Operation ==
  [step : {"idle"}]
  \cup [step : {"create"}, name : Name, len : 0..MaxLen, sector : Sector]
  \cup [step : {"undo"}, sector : Sector]
  \cup [step : {"write"}, name : Name, sector : Sector, data : DiskInode]
  \cup [step : {"zero"}, name : Name, sector : Sector, data : DiskInode, next : Nat]
  \cup [step : {"release", "release_data"}, sector : Sector, data : DiskInode]

FsTypes ==
  /\ free_map \in SUBSET Sector /\ disk_map \in SUBSET Sector /\ leaked \in SUBSET Sector
  /\ disk \in [Sector -> Value \cup DiskInode]
  /\ dir \in [Slot -> Entry \cup {NONE}]
  /\ open_inodes \in [Sector -> Inode \cup {NONE}]
  /\ file \in [Handle -> OpenFile \cup {NONE}]
  /\ op \in Operation

(* The data of an inode in sector S are on the disk and are not S itself.   *)
Fits(s, inode) ==
  /\ inode \in DiskInode
  /\ inode.start + inode.length <= SectorCnt
  /\ s \notin Extent(inode.start, inode.length)

(* Entries and open inodes lead to inodes,                                  *)
InodesFit ==
  /\ \A i \in InUse : Fits(dir[i].sector, disk[dir[i].sector])
  /\ \A s \in Sector : open_inodes[s] # NONE => Fits(s, open_inodes[s].data)

(* and so does the operation under way, which has zeroed what it says.      *)
OpFits ==
  /\ op.step \in {"write", "zero", "release"} => Fits(op.sector, op.data)
  /\ op.step = "zero" =>
       /\ disk[op.sector] = op.data
       /\ op.next <= op.data.length
       /\ \A k \in 0..op.next - 1 : disk[op.data.start + k] = Zero

RemovedSectors(s) == SectorsOf(s, open_inodes[s].data)

(* The sectors of the files: those with an entry and those removed.         *)
Files == Listed \cup UNION {RemovedSectors(s) : s \in Removed}

(* The files have no sector in common,                                      *)
FilesApart ==
  /\ \A i, j \in InUse : i # j => EntrySectors(i) \cap EntrySectors(j) = {}
  /\ \A i \in InUse, s \in Removed : EntrySectors(i) \cap RemovedSectors(s) = {}
  /\ \A s, u \in Removed : s # u => RemovedSectors(s) \cap RemovedSectors(u) = {}

(* nor have they with the operation under way, the free map and the root    *)
(* directory, and the sectors that are lost; what is marked is one of these.*)
RestApart ==
  /\ Files \cap (OpSectors \cup leaked \cup Fixed) = {}
  /\ OpSectors \cap (leaked \cup Fixed) = {}
  /\ leaked \cap Fixed = {}
  /\ free_map = Files \cup OpSectors \cup leaked \cup Fixed

(* A struct inode has an opener.                                            *)
InodesOpen ==
  \A s \in Sector :
    open_inodes[s] # NONE => \E h \in Handle : file[h] # NONE /\ file[h].inode = s

FsInv ==
  /\ FsTypes /\ InodesFit /\ OpFits /\ FilesApart /\ RestApart
  /\ DiskMapCovers /\ InodesExact /\ InodesOpen /\ EntriesDistinct

-----------------------------------------------------------------------------
(* Operators of the model.                                                 *)

(* The files that have the inode of sector S open, and those that deny      *)
(* writes to it.                                                            *)
Openers(s) == {h \in Handle : file[h] # NONE /\ file[h].inode = s}
Deniers(s) == {h \in Openers(s) : file[h].deny_write}

Exact(s) ==
  IF open_inodes[s] = NONE THEN Openers(s) = {}
  ELSE /\ open_inodes[s].open_cnt = Cardinality(Openers(s))
       /\ open_inodes[s].deny_write_cnt = Cardinality(Deniers(s))
       /\ open_inodes[s].data = disk[s]
       /\ open_inodes[s].removed <=> \A i \in InUse : dir[i].sector # s

(* InodesExact, sector by sector.                                           *)
LEMMA ExactEverywhere == InodesExact <=> \A s \in Sector : Exact(s)
BY Zenon DEF InodesExact, Exact, Openers, Deniers

(* The same after a step.                                                   *)
LEMMA ExactThen == InodesExact' <=> \A s \in Sector : Exact(s)'
BY Zenon DEF InodesExact, Exact, Openers, Deniers

(* bitmap_scan finds free sectors on the disk.                              *)
LEMMA RunFound ==
  ASSUME Laws, NEW cnt \in Nat, Runs(cnt) # {}
  PROVE  /\ Min(Runs(cnt)) \in Sector
         /\ Min(Runs(cnt)) + cnt <= SectorCnt
         /\ Extent(Min(Runs(cnt)), cnt) \subseteq Sector
         /\ Extent(Min(Runs(cnt)), cnt) \cap free_map = {}
<1> DEFINE m == Min(Runs(cnt))
<1>3. m \in Sector /\ m + cnt <= SectorCnt /\ Extent(m, cnt) \cap free_map = {}
  BY FileSysAssumption DEF Runs, Sector, Laws, LeastNat
<1> QED BY <1>3, FileSysAssumption DEF Extent, Sector

(* A whole scan of the directory finds an entry of the name.                *)
LEMMA EntryFound ==
  ASSUME Laws, NEW name, NEW end, lookup(name, end) # {}
  PROVE  Min(lookup(name, end)) \in InUse /\ dir[Min(lookup(name, end))].name = name
BY FileSysAssumption DEF lookup, Slot, InUse, Laws, LeastNat

(* The slot in which a whole scan of the directory stops is free.           *)
LEMMA SlotFound ==
  ASSUME Laws, NEW end \in ScanEnd, "scan" \notin Failures, FreeSlot(end) \in Slot
  PROVE  dir[FreeSlot(end)] = NONE
BY FileSysAssumption DEF ScanEnd, Slot, FreeSlot, Laws, LeastNat

(* The flat form of the accounting is the one that SectorsAccounted states. *)
LEMMA Accounting == FilesApart /\ RestApart => SectorsAccounted
<1> SUFFICES ASSUME FilesApart, RestApart PROVE SectorsAccounted
  BY Zenon
<1> DEFINE E == {<<"entry", i>> : i \in InUse}
           R == {<<"removed", s>> : s \in Removed}
           O == <<"op", 0>>
           F == <<"fixed", 0>>
<1>1. Owners = E \cup R \cup {O, F}
  BY Zenon DEF Owners
<1>2. \A i \in InUse : Owned(<<"entry", i>>) = EntrySectors(i)
  BY Zenon DEF Owned
<1>3. \A s \in Removed : Owned(<<"removed", s>>) = RemovedSectors(s)
  BY Zenon DEF Owned, RemovedSectors
<1>4. Owned(O) = OpSectors /\ Owned(F) = Fixed
  BY Zenon DEF Owned
<1>12. \A o, p \in Owners : o # p => Owned(o) \cap Owned(p) = {}
  BY <1>1, <1>4, <1>2, <1>3 DEF FilesApart, Files, Listed, RestApart
<1>13. UNION {Owned(o) : o \in Owners} = Files \cup OpSectors \cup Fixed
  <2>1. Listed = UNION {Owned(o) : o \in E}
    BY <1>2, Zenon DEF Listed
  <2>2. UNION {RemovedSectors(s) : s \in Removed} = UNION {Owned(o) : o \in R}
    BY <1>3, Zenon
  <2> QED BY <1>1, <1>4, <2>1, <2>2 DEF Files
<1> QED BY <1>12, <1>13, Zenon DEF SectorsAccounted, RestApart

-----------------------------------------------------------------------------
(* Steps that leave the files alone.                                       *)

(* The sectors of the files are those of the entries and the removed        *)
(* inodes, and an inode that is entered or open is one of them.             *)
LEMMA InodeSectors ==
  ASSUME FsInv
  PROVE  /\ \A i \in InUse : EntrySectors(i) \subseteq Files
         /\ \A s \in Removed : RemovedSectors(s) \subseteq Files
         /\ \A i \in InUse : dir[i].sector \in EntrySectors(i)
         /\ \A s \in Removed : s \in RemovedSectors(s)
         /\ \A s \in Sector : open_inodes[s] # NONE => s \in Files
         /\ Files \subseteq free_map
<1>1. \A i \in InUse : EntrySectors(i) \subseteq Files
  BY Zenon DEF Files, Listed
<1>2. \A s \in Removed : RemovedSectors(s) \subseteq Files
  BY Zenon DEF Files
<1>3. \A i \in InUse : dir[i].sector \in EntrySectors(i)
  BY Zenon DEF EntrySectors, SectorsOf
<1>4. \A s \in Removed : s \in RemovedSectors(s)
  BY Zenon DEF RemovedSectors, SectorsOf
<1>5. ASSUME NEW s \in Sector, open_inodes[s] # NONE PROVE s \in Files
  BY <1>5, ExactEverywhere, <1>1, <1>2, <1>3, <1>4 DEF FsInv, Exact, Removed
<1> QED BY <1>1, <1>2, <1>3, <1>4, <1>5, Zenon DEF FsInv, RestApart

(* A step that changes neither the directory nor which open inodes are      *)
(* removed, and no sector that holds an inode of a file.                    *)
LEMMA FilesSame ==
  ASSUME FsInv, dir' = dir, Removed' = Removed,
         \A s \in Removed : open_inodes'[s].data = open_inodes[s].data,
         \A i \in InUse : disk'[dir[i].sector] = disk[dir[i].sector]
  PROVE  InUse' = InUse /\ Listed' = Listed /\ Files' = Files /\ FilesApart' /\ EntriesDistinct'
<1>1. InUse' = InUse
  BY Zenon DEF InUse
<1>3. \A s \in Removed : RemovedSectors(s)' = RemovedSectors(s)
  BY Zenon DEF RemovedSectors
<1>7. EntriesDistinct'
  BY <1>1 DEF FsInv, EntriesDistinct
<1> QED BY <1>1, <1>7, <1>3 DEF FsInv, FilesApart, Files, Listed, EntrySectors

(* A step of the operation under way that leaves the files as they are.     *)
LEMMA OpStep ==
  ASSUME FsInv, UNCHANGED <<dir, open_inodes, file>>, FsTypes', OpFits',
         \A s \in Files : disk'[s] = disk[s],
         (OpSectors' \cup leaked') \cap (Files \cup Fixed) = {},
         OpSectors' \cap leaked' = {},
         free_map' = Files \cup OpSectors' \cup leaked' \cup Fixed,
         free_map' \subseteq disk_map'
  PROVE  FsInv'
<1>3. \A i \in InUse : disk'[dir[i].sector] = disk[dir[i].sector]
  BY InodeSectors, Zenon
<1>4. \A s \in Sector : open_inodes[s] # NONE => disk'[s] = disk[s]
  BY InodeSectors, Zenon
<1>5. InUse' = InUse /\ Listed' = Listed /\ Files' = Files /\ FilesApart' /\ EntriesDistinct'
  BY <1>3, FilesSame, Zenon DEF Removed
<1>9. InodesExact'
  <2>1. \A s \in Sector : Exact(s)' <=> Exact(s)
    BY <1>4, <1>5 DEF Exact, Openers, Deniers
  <2> QED BY <2>1, ExactEverywhere, ExactThen, Zenon DEF FsInv
<1>10. InodesOpen'
  BY Zenon DEF FsInv, InodesOpen
<1> QED
  BY <1>5, <1>9, <1>10, <1>3, Zenon DEF FsInv, InodesFit, RestApart, Fixed,
     DiskMapCovers, Files

-----------------------------------------------------------------------------
(* filesys_create.                                                         *)

(* Taking CNT sectors for the operation under way.                          *)
LEMMA Allocated ==
  ASSUME Laws, FsInv, NEW cnt \in Nat, free_map_allocate(cnt)
  PROVE  /\ Min(Runs(cnt)) \in Sector
         /\ Min(Runs(cnt)) + cnt <= SectorCnt
         /\ Extent(Min(Runs(cnt)), cnt) \cap (Files \cup OpSectors \cup leaked \cup Fixed) = {}
         /\ free_map' = free_map \cup Extent(Min(Runs(cnt)), cnt)
         /\ disk_map' = free_map'
         /\ free_map' \in SUBSET Sector
BY RunFound, Zenon DEF free_map_allocate, WriteMap, FsInv, RestApart, FsTypes

(* filesys_create takes the sector of the inode.                            *)
LEMMA CreateAllocateKept ==
  ASSUME Laws, FsInv, NEW name \in Name, NEW len \in 0..MaxLen, CreateAllocate(name, len)
  PROVE  FsInv'
<1> DEFINE m == Min(Runs(1))
<1>1. /\ free_map_allocate(1)
      /\ op' = [step |-> "create", name |-> name, len |-> len, sector |-> m]
      /\ UNCHANGED <<disk, dir, open_inodes, file, leaked>>
      /\ op.step = "idle"
  BY Zenon DEF CreateAllocate, Idle
<1>2. /\ m \in Sector
      /\ Extent(m, 1) \cap (Files \cup OpSectors \cup leaked \cup Fixed) = {}
      /\ free_map' = free_map \cup Extent(m, 1)
      /\ disk_map' = free_map' /\ free_map' \in SUBSET Sector
  BY <1>1, Allocated, Zenon
<1>3. Extent(m, 1) = {m}
  BY <1>2, FileSysAssumption DEF Extent, Sector
<1> HIDE DEF m
<1>5. OpSectors' = {m} /\ OpSectors = {}
  BY <1>1, Zenon DEF OpSectors
<1>6. FsTypes'
  BY <1>1, <1>2, Zenon DEF FsInv, FsTypes, Operation
<1> QED BY <1>1, <1>2, <1>3, <1>5, <1>6, OpStep, Zenon DEF OpFits, FsInv, RestApart

(* The shapes of the operation under way.                                   *)
LEMMA OpShapes ==
  ASSUME FsTypes
  PROVE  /\ op.step = "create" => op.name \in Name /\ op.len \in 0..MaxLen /\ op.sector \in Sector
         /\ op.step = "undo" => op.sector \in Sector
         /\ op.step = "write" => op.name \in Name /\ op.sector \in Sector /\ op.data \in DiskInode
         /\ op.step = "zero" => /\ op.name \in Name /\ op.sector \in Sector
                                /\ op.data \in DiskInode /\ op.next \in Nat
                                /\ op \in [step : {"zero"}, name : Name, sector : Sector,
                                           data : DiskInode, next : Nat]
         /\ op.step \in {"release", "release_data"} =>
              /\ op.sector \in Sector /\ op.data \in DiskInode
              /\ op \in [step : {"release", "release_data"}, sector : Sector, data : DiskInode]
BY Zenon DEF FsTypes, Operation

(* What belongs to the operation under way.                                 *)
LEMMA OpApart ==
  ASSUME FsInv
  PROVE  /\ free_map = Files \cup OpSectors \cup leaked \cup Fixed
         /\ (OpSectors \cup leaked) \cap (Files \cup Fixed) = {}
         /\ OpSectors \cap leaked = {}
         /\ free_map \subseteq disk_map
BY Zenon DEF FsInv, RestApart, DiskMapCovers

(* inode_create takes the sectors of the data, or fails.                    *)
LEMMA CreateDataKept ==
  ASSUME Laws, FsInv, CreateData
  PROVE  FsInv'
<1>1. /\ op.step = "create"
      /\ UNCHANGED <<disk, dir, open_inodes, file, leaked>>
  BY Zenon DEF CreateData
<1>2. op.name \in Name /\ op.len \in Nat /\ op.len \in 0..MaxLen /\ op.sector \in Sector
  BY <1>1, OpShapes, FileSysAssumption DEF FsInv
<1>3. OpSectors = {op.sector}
  BY <1>1, Zenon DEF OpSectors
<1> DEFINE m == Min(Runs(op.len))
           data == [start |-> m, length |-> op.len]
<1>4. CASE /\ free_map_allocate(op.len)
           /\ op' = [step |-> "write", name |-> op.name, sector |-> op.sector, data |-> data]
  <2>1. /\ m \in Sector /\ m + op.len <= SectorCnt
        /\ Extent(m, op.len) \cap (Files \cup OpSectors \cup leaked \cup Fixed) = {}
        /\ free_map' = free_map \cup Extent(m, op.len)
        /\ disk_map' = free_map' /\ free_map' \in SUBSET Sector
    BY <1>2, <1>4, Allocated, Zenon
  <2>2. data \in DiskInode /\ data.start = m /\ data.length = op.len
    BY <1>2, <2>1, Zenon DEF DiskInode
  <2> HIDE DEF m, data
  <2>4. OpSectors' = {op.sector} \cup Extent(m, op.len)
    BY <1>4, <2>2, Zenon DEF OpSectors, SectorsOf
  <2>5. FsTypes'
    BY <1>1, <2>1, <1>2, <1>4, <2>2, Zenon DEF FsInv, FsTypes, Operation
  <2>6. op.sector \notin Extent(m, op.len)
    BY <1>3, <2>1, Zenon
  <2>8. OpFits'
    BY <1>4, <2>1, <2>2, <2>6, Zenon DEF OpFits, Fits, Extent
  <2> QED BY <1>1, <1>3, <2>1, <2>4, <2>5, <2>8, OpApart, OpStep, Zenon
<1>5. CASE op' = [step |-> "undo", sector |-> op.sector] /\ UNCHANGED <<free_map, disk_map>>
  BY <1>2, <1>5, <1>1, <1>3, OpApart, OpStep, ZenonT(30) DEF Operation, OpSectors, FsInv,
     FsTypes, OpFits
<1> QED BY <1>4, <1>5, Zenon DEF CreateData

(* inode_create writes the inode in a sector no file has.                   *)
LEMMA CreateInodeKept ==
  ASSUME FsInv, CreateInode
  PROVE  FsInv'
BY OpShapes, OpApart, OpStep DEF CreateInode, FsInv, Operation, OpSectors, SectorsOf,
   FsTypes, OpFits, Fits, DiskInode

(* inode_create writes zeros in sectors no file has.                        *)
LEMMA CreateZeroKept ==
  ASSUME FsInv, CreateZero
  PROVE  FsInv'
<1> DEFINE x == op.data.start + op.next
<1>1. /\ op.step = "zero" /\ op.next < op.data.length
      /\ disk' = [disk EXCEPT ![x] = Zero]
      /\ op' = [op EXCEPT !.next = @ + 1]
      /\ UNCHANGED <<free_map, disk_map, dir, open_inodes, file, leaked>>
  BY Zenon DEF CreateZero, ZerosLeft
<1>2. /\ op.name \in Name /\ op.sector \in Sector /\ op.data \in DiskInode /\ op.next \in Nat
      /\ op \in [step : {"zero"}, name : Name, sector : Sector, data : DiskInode, next : Nat]
  BY <1>1, OpShapes, Zenon DEF FsInv
<1>3. /\ Fits(op.sector, op.data) /\ disk[op.sector] = op.data
      /\ \A k \in 0..op.next - 1 : disk[op.data.start + k] = Zero
  BY <1>1, Zenon DEF FsInv, OpFits
<1>4. op.data.start \in Nat /\ op.data.length \in Nat
  BY <1>2, FileSysAssumption DEF DiskInode, Sector
<1>5. x \in Extent(op.data.start, op.data.length) /\ x \in Sector /\ x # op.sector
  BY <1>1, <1>2, <1>3, <1>4, FileSysAssumption DEF Extent, Fits, Sector
<1>6. /\ op'.step = "zero" /\ op'.name = op.name /\ op'.sector = op.sector
      /\ op'.data = op.data /\ op'.next = op.next + 1
      /\ op' \in [step : {"zero"}, name : Name, sector : Sector, data : DiskInode, next : Nat]
  BY <1>1, <1>2
<1>8. OpSectors' = OpSectors /\ x \in OpSectors
  BY <1>1, <1>5, <1>6, Zenon DEF OpSectors, SectorsOf
<1>9. /\ disk' \in [Sector -> Value \cup DiskInode] /\ disk'[x] = Zero
      /\ \A s \in Sector : s # x => disk'[s] = disk[s]
  BY <1>1, <1>5, FileSysAssumption, Zenon DEF FsInv, FsTypes
<1>10. FsTypes'
  BY <1>1, <1>9, <1>6, Zenon DEF FsInv, FsTypes, Operation
<1>11. OpFits'
  <2>1. Fits(op.sector, op.data)'
    BY <1>3, <1>6, Zenon DEF Fits
  <2>2. disk'[op.sector] = op.data
    BY <1>2, <1>3, <1>5, <1>9, Zenon
  <2>3. \A k \in 0..op.next : disk'[op.data.start + k] = Zero
    <3> SUFFICES ASSUME NEW k \in 0..op.next PROVE disk'[op.data.start + k] = Zero
      BY Zenon
    <3>1. CASE k = op.next
      BY <1>9, <3>1, Zenon
    <3>2. CASE k # op.next
      <4>1. k \in 0..op.next - 1 /\ op.data.start + k # x
        BY <1>2, <1>4, <3>2
      <4>2. op.data.start + k \in Sector
        BY <1>1, <1>2, <1>3, <1>4, <4>1, FileSysAssumption DEF Fits, Sector
      <4> QED BY <1>3, <1>9, <4>1, <4>2, Zenon
    <3> QED BY <3>1, <3>2, Zenon
  <2> QED BY <1>6, <2>1, <2>2, <2>3, <1>1, <1>2, <1>4 DEF OpFits
<1>12. \A s \in Files : disk'[s] = disk[s]
  BY <1>8, OpApart, <1>9, Zenon DEF FsInv, FsTypes
<1> QED BY <1>1, <1>8, <1>10, <1>11, <1>12, OpApart, OpStep, Zenon

(* Giving back sectors of the operation under way.                          *)
LEMMA Released ==
  ASSUME FsInv, NEW start, NEW cnt, free_map_release(start, cnt),
         Extent(start, cnt) \subseteq OpSectors
  PROVE  /\ free_map' = Files \cup (OpSectors \ Extent(start, cnt)) \cup leaked \cup Fixed
         /\ free_map' \subseteq disk_map'
         /\ free_map' \in SUBSET Sector /\ disk_map' \in SUBSET Sector
BY OpApart, Zenon DEF free_map_release, WriteMap, FsInv, FsTypes

(* A sector is an extent of length one.                                     *)
LEMMA OneSector == ASSUME NEW s \in Sector PROVE Extent(s, 1) = {s}
BY FileSysAssumption DEF Extent, Sector

(* filesys_create gives back the sector of the inode.                       *)
LEMMA CreateUndoKept ==
  ASSUME FsInv, CreateUndo
  PROVE  FsInv'
<1>1. /\ op.step = "undo"
      /\ free_map_release(op.sector, 1)
      /\ op' = [step |-> "idle"]
      /\ UNCHANGED <<disk, dir, open_inodes, file, leaked>>
  BY Zenon DEF CreateUndo, Done
<1>2. op.sector \in Sector /\ OpSectors = {op.sector} /\ OpSectors' = {}
  BY <1>1, OpShapes, Zenon DEF FsInv, OpSectors
<1>3. /\ free_map' = Files \cup leaked \cup Fixed
      /\ free_map' \subseteq disk_map'
      /\ free_map' \in SUBSET Sector /\ disk_map' \in SUBSET Sector
  BY <1>1, <1>2, OneSector, Released
<1>5. OpFits'
  BY <1>1, ZenonT(30) DEF OpFits
<1> QED BY <1>1, <1>2, <1>3, <1>5, OpApart, OpStep, Zenon DEF FsInv, FsTypes, Operation

(* inode_close gives back the sector of the inode,                          *)
LEMMA ReleaseInodeKept ==
  ASSUME FsInv, ReleaseInode
  PROVE  FsInv'
BY OpShapes, OneSector, Released, OpApart, OpStep DEF ReleaseInode, FsInv, OpFits,
   OpSectors, SectorsOf, Fits, FsTypes, Operation

(* and then the sectors of the data.                                        *)
LEMMA ReleaseDataKept ==
  ASSUME FsInv, ReleaseData
  PROVE  FsInv'
<1> DEFINE ext == Extent(op.data.start, op.data.length)
<1>1. /\ op.step = "release_data"
      /\ free_map_release(op.data.start, op.data.length)
      /\ op' = [step |-> "idle"]
      /\ UNCHANGED <<disk, dir, open_inodes, file, leaked>>
  BY Zenon DEF ReleaseData, Done
<1>2. OpSectors = ext /\ OpSectors' = {}
  BY <1>1, Zenon DEF OpSectors
<1>3. /\ free_map' = Files \cup leaked \cup Fixed
      /\ free_map' \subseteq disk_map'
      /\ free_map' \in SUBSET Sector /\ disk_map' \in SUBSET Sector
  BY <1>1, <1>2, Released, Zenon
<1>4. FsTypes'
  BY <1>1, <1>3, Zenon DEF FsInv, FsTypes, Operation
<1> QED BY <1>1, <1>2, <1>3, <1>4, OpApart, OpStep, Zenon DEF OpFits

(* dir_add gives the sectors of the operation under way to the new entry.   *)
LEMMA EntryAdded ==
  ASSUME FsInv, op.step = "zero", NEW i \in Slot, dir[i] = NONE,
         \A j \in InUse : dir[j].name # op.name,
         dir' = [dir EXCEPT ![i] = [name |-> op.name, sector |-> op.sector]],
         op' = [step |-> "idle"],
         UNCHANGED <<free_map, disk_map, disk, open_inodes, file, leaked>>
  PROVE  FsInv'
<1>1. /\ op.name \in Name /\ op.sector \in Sector /\ op.data \in DiskInode
      /\ Fits(op.sector, op.data) /\ disk[op.sector] = op.data
  BY OpShapes, Zenon DEF FsInv, OpFits
<1>2. /\ OpSectors = SectorsOf(op.sector, op.data) /\ op.sector \in OpSectors
      /\ OpSectors' = {}
  BY Zenon DEF OpSectors, SectorsOf
<1>4. /\ dir \in [Slot -> Entry \cup {NONE}]
      /\ dir' \in [Slot -> Entry \cup {NONE}]
      /\ dir'[i].name = op.name /\ dir'[i].sector = op.sector
      /\ dir'[i] # NONE
      /\ \A j \in Slot : j # i => dir'[j] = dir[j]
  BY FileSysAssumption, <1>1 DEF FsInv, FsTypes, Entry
<1>5. InUse' = InUse \cup {i} /\ i \notin InUse
  BY <1>4, Zenon DEF InUse
<1>7. EntrySectors(i)' = OpSectors
  BY <1>1, <1>2, <1>4, Zenon DEF EntrySectors
<1>8. \A j \in InUse : EntrySectors(j)' = EntrySectors(j) /\ dir'[j] = dir[j]
  BY <1>4, <1>5, Zenon DEF EntrySectors, InUse
<1>9. Removed' = Removed /\ \A s \in Removed : RemovedSectors(s)' = RemovedSectors(s)
  BY Zenon DEF Removed, RemovedSectors
<1>10. Listed' = Listed \cup OpSectors
  BY <1>5, <1>7, <1>8, ZenonT(30) DEF Listed
<1>11. Files' = Files \cup OpSectors
  BY <1>9, <1>10, Zenon DEF Files
<1>12. FsTypes'
  BY <1>4, Zenon DEF FsInv, FsTypes, Operation
<1>13. InodesFit'
  BY <1>8, <1>1, <1>4, <1>5 DEF FsInv, InodesFit, Fits, Extent
<1>14. OpFits'
  BY Zenon DEF OpFits
<1>15. FilesApart'
  BY InodeSectors, OpApart, <1>5, <1>7, <1>8, <1>9 DEF FsInv, FilesApart
<1>16. RestApart'
  BY <1>2, <1>11, Zenon DEF FsInv, RestApart, Fixed
<1>17. DiskMapCovers'
  BY OpApart, <1>10, Zenon DEF Files, DiskMapCovers
<1>18. InodesExact'
  <2>1. ASSUME NEW s \in Sector PROVE Exact(s)'
    <3>2. open_inodes[s] # NONE => s # op.sector
      BY <1>2, InodeSectors, OpApart
    <3>4. Openers(s)' = Openers(s) /\ Deniers(s)' = Deniers(s)
      BY Zenon DEF Openers, Deniers
    <3> QED BY <3>4, ExactEverywhere, <1>4, <1>5, <1>8, <3>2 DEF Exact, FsInv
  <2> QED BY <2>1, ExactThen, Zenon
<1>19. InodesOpen'
  BY Zenon DEF FsInv, InodesOpen
<1>20. EntriesDistinct'
  BY <1>2, InodeSectors, OpApart, <1>4, <1>5, <1>8 DEF FsInv, EntriesDistinct
<1> QED BY <1>12, <1>13, <1>14, <1>15, <1>16, <1>17, <1>18, <1>19, <1>20, Zenon DEF FsInv

(* dir_add, with whole scans of the directory.                              *)
LEMMA DirAddKept ==
  ASSUME Laws, FsInv, dir_add, "scan" \notin Failures
  PROVE  FsInv'
<1>1. /\ op.step = "zero"
      /\ UNCHANGED <<free_map, disk_map, disk, open_inodes, file>>
  BY Zenon DEF dir_add
<1>2. PICK seen \in ScanEnd, end \in ScanEnd :
       \/ /\ lookup(op.name, seen) = {}
          /\ FreeSlot(end) \in Slot
          /\ dir' = [dir EXCEPT ![FreeSlot(end)] = [name |-> op.name, sector |-> op.sector]]
          /\ Done
          /\ UNCHANGED leaked
       \/ /\ op' = [step |-> "undo", sector |-> op.sector]
          /\ leaked' = leaked \cup Extent(op.data.start, op.data.length)
          /\ UNCHANGED dir
  BY Zenon DEF dir_add
<1>3. CASE /\ lookup(op.name, seen) = {}
           /\ FreeSlot(end) \in Slot
           /\ dir' = [dir EXCEPT ![FreeSlot(end)] = [name |-> op.name, sector |-> op.sector]]
           /\ Done
           /\ UNCHANGED leaked
  <2>2. \A j \in InUse : dir[j].name # op.name
    BY <1>3, FileSysAssumption DEF lookup, InUse, Slot, ScanEnd
  <2>3. dir[FreeSlot(end)] = NONE
    BY <1>3, SlotFound, Zenon
  <2> QED BY <1>1, <1>3, <2>2, <2>3, EntryAdded, Zenon DEF Done
<1>4. CASE /\ op' = [step |-> "undo", sector |-> op.sector]
           /\ leaked' = leaked \cup Extent(op.data.start, op.data.length)
           /\ UNCHANGED dir
  <2> DEFINE ext == Extent(op.data.start, op.data.length)
  <2>1. op.sector \in Sector /\ Fits(op.sector, op.data)
    BY <1>1, OpShapes, Zenon DEF FsInv, OpFits
  <2>2. OpSectors = {op.sector} \cup ext /\ OpSectors' = {op.sector} /\ op.sector \notin ext
    BY <1>1, <1>4, <2>1, Zenon DEF OpSectors, SectorsOf, Fits
  <2>3. op' \in Operation
    BY <1>4, <2>1, Zenon DEF Operation
  <2> HIDE DEF ext
  <2>5. leaked' = leaked \cup ext
    BY <1>4, Zenon DEF ext
  <2>6. FsTypes'
    BY <1>1, <1>4, <2>3, <2>5, <2>2, OpApart, Zenon DEF FsInv, FsTypes
  <2> QED BY <1>1, <1>4, <2>2, <2>5, <2>6, OpApart, OpStep, Zenon DEF OpFits
<1> QED BY <1>2, <1>3, <1>4, Zenon

-----------------------------------------------------------------------------
(* Openers and those that deny writes.                                     *)

(* The openers of an inode can be counted.                                  *)
LEMMA OpenersFinite ==
  ASSUME Laws, NEW s
  PROVE  /\ IsFiniteSet(Openers(s)) /\ IsFiniteSet(Deniers(s))
         /\ Cardinality(Openers(s)) \in Nat /\ Cardinality(Deniers(s)) \in Nat
BY FileSysAssumption, Zenon DEF Openers, Deniers, Laws, CountSubset, CountType

(* A struct inode that is open has an opener, and a file an open inode.     *)
LEMMA OpenFacts ==
  ASSUME Laws, FsInv
  PROVE  /\ \A s \in Sector : open_inodes[s] # NONE =>
              /\ open_inodes[s] \in Inode /\ open_inodes[s].open_cnt >= 1
              /\ open_inodes[s].open_cnt = Cardinality(Openers(s))
              /\ open_inodes[s].deny_write_cnt = Cardinality(Deniers(s))
              /\ open_inodes[s].data = disk[s]
         /\ \A h \in Handle : file[h] # NONE =>
              /\ file[h] \in OpenFile /\ file[h].inode \in Sector
              /\ open_inodes[file[h].inode] # NONE
              /\ h \in Openers(file[h].inode)
<1>1. ASSUME NEW s \in Sector, open_inodes[s] # NONE
      PROVE  /\ open_inodes[s] \in Inode /\ open_inodes[s].open_cnt >= 1
             /\ open_inodes[s].open_cnt = Cardinality(Openers(s))
             /\ open_inodes[s].deny_write_cnt = Cardinality(Deniers(s))
             /\ open_inodes[s].data = disk[s]
  <2>3. /\ open_inodes[s].open_cnt = Cardinality(Openers(s))
        /\ open_inodes[s].deny_write_cnt = Cardinality(Deniers(s))
        /\ open_inodes[s].data = disk[s]
    BY <1>1, ExactEverywhere, Zenon DEF Exact, FsInv
  <2>4. open_inodes[s] \in Inode /\ Openers(s) # {}
    BY <1>1, Zenon DEF FsInv, FsTypes, InodesOpen, Openers
  <2>5. IsFiniteSet(Openers(s)) /\ Cardinality(Openers(s)) \in Nat
    BY OpenersFinite, Zenon
  <2>6. Cardinality(Openers(s)) # 0
    BY <2>4, <2>5, Zenon DEF Laws, CountEmpty
  <2>7. Cardinality(Openers(s)) >= 1
    BY ONLY <2>5, <2>6
  <2> QED BY <2>3, <2>4, <2>7, Zenon
<1>2. ASSUME NEW h \in Handle, file[h] # NONE
      PROVE  /\ file[h] \in OpenFile /\ file[h].inode \in Sector
             /\ open_inodes[file[h].inode] # NONE
             /\ h \in Openers(file[h].inode)
  <2>1. file[h] \in OpenFile
    BY <1>2, Zenon DEF FsInv, FsTypes
  <2> QED BY <2>1, <1>2, ExactEverywhere, Zenon DEF Exact, Openers, FsInv, OpenFile
<1> QED BY <1>1, <1>2, Zenon

(* A file that changes is counted with its inode only.                      *)
LEMMA OpenersOthers ==
  ASSUME FsInv, NEW h \in Handle, NEW s \in Sector, NEW f \in OpenFile \cup {NONE},
         file' = [file EXCEPT ![h] = f],
         f # NONE => f.inode = s, file[h] # NONE => file[h].inode = s
  PROVE  \A u \in Sector : u # s => Openers(u)' = Openers(u) /\ Deniers(u)' = Deniers(u)
BY DEF FsInv, FsTypes, Openers, Deniers

(* A new opener, which does not deny writes.                                *)
LEMMA OpenerAdded ==
  ASSUME Laws, FsInv, NEW h \in Handle, file[h] = NONE, NEW s \in Sector,
         file' = [file EXCEPT ![h] = [inode |-> s, deny_write |-> FALSE]]
  PROVE  /\ Cardinality(Openers(s)') = Cardinality(Openers(s)) + 1
         /\ Cardinality(Deniers(s)') = Cardinality(Deniers(s))
         /\ Openers(s)' # {}
         /\ [inode |-> s, deny_write |-> FALSE] \in OpenFile
<1> DEFINE f == [inode |-> s, deny_write |-> FALSE]
<1>1. f \in OpenFile /\ f.inode = s /\ ~f.deny_write /\ f # NONE
  <2>1. f \in OpenFile
    BY Zenon DEF OpenFile
  <2> QED BY <2>1, FileSysAssumption, Zenon
<1> HIDE DEF f
<1>2. file'[h] = f /\ \A g \in Handle : g # h => file'[g] = file[g]
  BY Zenon DEF FsInv, FsTypes, f
<1>3. Openers(s)' = Openers(s) \cup {h} /\ h \notin Openers(s)
  BY <1>1, <1>2, Zenon DEF Openers
<1>4. Deniers(s)' = Deniers(s)
  BY <1>1, <1>2, <1>3 DEF Deniers
<1> QED BY <1>1, <1>3, <1>4, OpenersFinite, Zenon DEF f, Laws, CountAdd

(* An opener less.                                                          *)
LEMMA OpenerGone ==
  ASSUME Laws, FsInv, NEW h \in Handle, file[h] # NONE, NEW s, s = file[h].inode,
         file' = [file EXCEPT ![h] = NONE]
  PROVE  /\ Openers(s)' = Openers(s) \ {h} /\ h \in Openers(s)
         /\ Cardinality(Openers(s)') = Cardinality(Openers(s)) - 1
         /\ file[h].deny_write => /\ Cardinality(Deniers(s)') = Cardinality(Deniers(s)) - 1
                                  /\ Cardinality(Deniers(s)) >= 1
         /\ ~file[h].deny_write => Cardinality(Deniers(s)') = Cardinality(Deniers(s))
<1>1. file'[h] = NONE /\ \A g \in Handle : g # h => file'[g] = file[g]
  BY Zenon DEF FsInv, FsTypes
<1>2. Openers(s)' = Openers(s) \ {h} /\ h \in Openers(s)
  BY <1>1, Zenon DEF Openers
<1>3. Cardinality(Openers(s)') = Cardinality(Openers(s)) - 1
  BY <1>2, OpenersFinite DEF Laws, CountRemove
<1>4. Deniers(s)' = Deniers(s) \ {h}
  BY <1>1, <1>2, Zenon DEF Deniers, Openers
<1>5. CASE file[h].deny_write
  <2>1. h \in Deniers(s)
    BY <1>2, <1>5, Zenon DEF Deniers
  <2>2. Cardinality(Deniers(s)') = Cardinality(Deniers(s)) - 1
    BY <1>4, <2>1, OpenersFinite DEF Laws, CountRemove
  <2> QED BY <1>2, <1>3, <1>5, <2>2, OpenersFinite, <2>1 DEF Laws, CountEmpty
<1>6. CASE ~file[h].deny_write
  BY <1>4, <1>6, <1>2, <1>3, Zenon DEF Deniers
<1> QED BY <1>5, <1>6, Zenon

(* An opener begins to deny writes, or stops.                               *)
LEMMA DenierChanged ==
  ASSUME Laws, FsInv, NEW h \in Handle, file[h] # NONE, NEW s, s = file[h].inode,
         NEW g \in OpenFile, g.inode = s, g.deny_write <=> ~file[h].deny_write,
         file' = [file EXCEPT ![h] = g]
  PROVE  /\ Openers(s)' = Openers(s)
         /\ g.deny_write => Cardinality(Deniers(s)') = Cardinality(Deniers(s)) + 1
         /\ ~g.deny_write => /\ Cardinality(Deniers(s)') = Cardinality(Deniers(s)) - 1
                             /\ Cardinality(Deniers(s)) >= 1
<1>1. file[h] \in OpenFile /\ file \in [Handle -> OpenFile \cup {NONE}] /\ g # NONE
  BY FileSysAssumption, Zenon DEF FsInv, FsTypes
<1>2. file'[h] = g /\ \A x \in Handle : x # h => file'[x] = file[x]
  BY <1>1, Zenon
<1>3. Openers(s)' = Openers(s) /\ h \in Openers(s)
  BY <1>1, <1>2, Zenon DEF Openers
<1>4. CASE g.deny_write
  <2>1. Deniers(s)' = Deniers(s) \cup {h} /\ h \notin Deniers(s)
    BY <1>2, <1>3, <1>4, Zenon DEF Deniers, Openers
  <2> QED BY <1>3, <1>4, <2>1, OpenersFinite, Zenon DEF Laws, CountAdd
<1>5. CASE ~g.deny_write
  <2>1. Deniers(s)' = Deniers(s) \ {h} /\ h \in Deniers(s)
    BY <1>2, <1>3, <1>5, Zenon DEF Deniers, Openers
  <2>2. Cardinality(Deniers(s) \ {h}) = Cardinality(Deniers(s)) - 1
    BY <2>1, OpenersFinite, Zenon DEF Laws, CountRemove
  <2> QED BY <1>3, <1>5, <2>1, <2>2, OpenersFinite DEF Laws, CountEmpty
<1> QED BY <1>4, <1>5, Zenon

(* A step that changes one file and its struct inode, which stays open and  *)
(* as much removed as it was.                                               *)
LEMMA OpenStep ==
  ASSUME FsInv, UNCHANGED <<free_map, diskVars, op, leaked>>,
         NEW s \in Sector, NEW h \in Handle, NEW inode \in Inode, NEW f \in OpenFile \cup {NONE},
         open_inodes' = [open_inodes EXCEPT ![s] = inode],
         file' = [file EXCEPT ![h] = f],
         f # NONE => f.inode = s, file[h] # NONE => file[h].inode = s,
         inode.data = disk[s],
         inode.removed <=> \A i \in InUse : dir[i].sector # s,
         open_inodes[s] = NONE => ~inode.removed,
         inode.open_cnt = Cardinality(Openers(s)'),
         inode.deny_write_cnt = Cardinality(Deniers(s)'),
         Openers(s)' # {}
  PROVE  FsInv'
<1>1. /\ UNCHANGED <<disk, dir, disk_map>>
      /\ open_inodes'[s] = inode /\ \A u \in Sector : u # s => open_inodes'[u] = open_inodes[u]
      /\ open_inodes' \in [Sector -> Inode \cup {NONE}]
      /\ file' \in [Handle -> OpenFile \cup {NONE}]
  BY Zenon DEF FsInv, FsTypes, diskVars
<1>2. FsTypes'
  BY <1>1, Zenon DEF FsInv, FsTypes
<1>3. inode # NONE /\ InUse' = InUse
  BY <1>1, FileSysAssumption, Zenon DEF InUse
<1>4. open_inodes[s] # NONE =>
        (open_inodes[s].removed <=> inode.removed) /\ open_inodes[s].data = inode.data
  BY ExactEverywhere, Zenon DEF FsInv, Exact
<1>7. Listed' = Listed /\ Files' = Files /\ FilesApart' /\ EntriesDistinct'
  BY <1>1, FilesSame, <1>4, <1>3 DEF Removed
<1>8. InodesFit'
  BY <1>4, <1>1, <1>3 DEF FsInv, InodesFit, Fits, Extent
<1>9. OpFits' /\ OpSectors' = OpSectors
  BY <1>1, Zenon DEF FsInv, OpFits, Fits, OpSectors
<1>10. RestApart'
  BY <1>7, <1>9, Zenon DEF FsInv, RestApart, Fixed
<1>11. DiskMapCovers'
  BY <1>1, <1>7, Zenon DEF FsInv, DiskMapCovers
<1>12. \A u \in Sector : u # s => Openers(u)' = Openers(u) /\ Deniers(u)' = Deniers(u)
  BY OpenersOthers, Zenon
<1>13. InodesExact'
  BY <1>1, <1>3, <1>12, ExactEverywhere, ExactThen DEF FsInv, Exact
<1>14. InodesOpen'
  BY <1>1, <1>12 DEF FsInv, InodesOpen, Openers
<1> QED BY <1>2, <1>7, <1>8, <1>9, <1>10, <1>11, <1>13, <1>14, Zenon DEF FsInv

-----------------------------------------------------------------------------
(* Open files.                                                             *)

(* filesys_open: inode_open finds or makes the struct inode.                *)
LEMMA OpenKept ==
  ASSUME Laws, FsInv, NEW name \in Name, NEW h \in Handle, filesys_open(name, h)
  PROVE  FsInv'
<1>2. PICK end \in ScanEnd :
        /\ lookup(name, end) # {}
        /\ LET s == dir[Min(lookup(name, end))].sector IN
             /\ open_inodes' = [open_inodes EXCEPT ![s] = Opened(s)]
             /\ file' = [file EXCEPT ![h] = [inode |-> s, deny_write |-> FALSE]]
  BY Zenon DEF filesys_open
<1> DEFINE i == Min(lookup(name, end))
<1>3. i \in InUse
  BY <1>2, EntryFound, Zenon
<1>5. PICK s \in Sector : s = dir[i].sector
  BY <1>3, Zenon DEF Entry, FsInv, FsTypes, InUse
<1> HIDE DEF i
<1>6. /\ open_inodes' = [open_inodes EXCEPT ![s] = Opened(s)]
      /\ file' = [file EXCEPT ![h] = [inode |-> s, deny_write |-> FALSE]]
  BY <1>2, <1>5, Zenon DEF i
<1>8. /\ Opened(s) \in Inode /\ Opened(s).data = disk[s] /\ ~Opened(s).removed
      /\ Opened(s).open_cnt = Cardinality(Openers(s)) + 1
      /\ Opened(s).deny_write_cnt = Cardinality(Deniers(s))
  <2>1. CASE open_inodes[s] = NONE
    <3>1. Exact(s)
      BY ExactEverywhere, Zenon DEF FsInv
    <3>2. Openers(s) = {}
      BY <2>1, <3>1, Zenon DEF Exact
    <3>5. Opened(s) = [open_cnt |-> 1, deny_write_cnt |-> 0, removed |-> FALSE, data |-> disk[s]]
      BY <2>1, Zenon DEF Opened
    <3> QED
      BY <3>2, <3>5, <1>3, <1>5 DEF Deniers, Inode, FsInv, InodesFit, Fits, Laws,
         CountEmpty
  <2>2. CASE open_inodes[s] # NONE
    BY <2>2, OpenFacts, <1>3, <1>5, ExactEverywhere DEF FsInv, Exact, Opened, Inode
  <2> QED BY <2>1, <2>2, Zenon
<1> QED BY <1>6, <1>8, OpenStep, OpenerAdded, <1>3, <1>5, Zenon DEF filesys_open

(* file_reopen: inode_reopen counts one more opener.                        *)
LEMMA ReopenKept ==
  ASSUME Laws, FsInv, NEW f \in Handle, NEW h \in Handle, file_reopen(f, h)
  PROVE  FsInv'
<1>1. /\ file[f] # NONE /\ file[h] = NONE /\ UNCHANGED <<free_map, diskVars, op, leaked>>
      /\ open_inodes' = [open_inodes EXCEPT ![file[f].inode].open_cnt = @ + 1]
      /\ file' = [file EXCEPT ![h] = [inode |-> file[f].inode, deny_write |-> FALSE]]
  BY Zenon DEF file_reopen
<1>2. PICK s \in Sector : s = file[f].inode
  BY <1>1, OpenFacts, Zenon
<1> DEFINE inode == [open_inodes[s] EXCEPT !.open_cnt = @ + 1]
<1>3. open_inodes[s] # NONE
  BY <1>1, <1>2, OpenFacts, Zenon
<1>4. /\ open_inodes[s] \in Inode
      /\ open_inodes[s].open_cnt = Cardinality(Openers(s))
      /\ open_inodes[s].deny_write_cnt = Cardinality(Deniers(s))
      /\ open_inodes[s].data = disk[s]
      /\ open_inodes[s].removed <=> \A i \in InUse : dir[i].sector # s
  BY <1>3, OpenFacts, ExactEverywhere, Zenon DEF FsInv, Exact
<1>5. /\ open_inodes' = [open_inodes EXCEPT ![s] = inode]
      /\ file' = [file EXCEPT ![h] = [inode |-> s, deny_write |-> FALSE]]
  BY <1>1, <1>2, Zenon
<1>6. /\ inode \in Inode /\ inode.open_cnt = open_inodes[s].open_cnt + 1
      /\ inode.deny_write_cnt = open_inodes[s].deny_write_cnt
      /\ inode.data = open_inodes[s].data /\ inode.removed = open_inodes[s].removed
  BY <1>4 DEF Inode
<1> HIDE DEF inode
<1>7. /\ Cardinality(Openers(s)') = Cardinality(Openers(s)) + 1
      /\ Cardinality(Deniers(s)') = Cardinality(Deniers(s))
      /\ Openers(s)' # {}
      /\ [inode |-> s, deny_write |-> FALSE] \in OpenFile
  BY <1>1, <1>5, OpenerAdded, Zenon
<1>9. /\ inode.removed <=> \A i \in InUse : dir[i].sector # s
      /\ inode.data = disk[s]
      /\ inode.open_cnt = Cardinality(Openers(s)') /\ inode.deny_write_cnt = Cardinality(Deniers(s)')
  BY <1>4, <1>6, <1>7, Zenon
<1>10. file[h] = NONE /\ UNCHANGED <<free_map, diskVars, op, leaked>>
  BY <1>1, Zenon
<1>11. inode \in Inode
  BY <1>6, Zenon
<1> QED BY <1>3, <1>5, <1>7, <1>9, <1>10, <1>11, OpenStep, Zenon

(* A step that only changes who denies writes to an open inode.             *)
LEMMA DenyKept ==
  ASSUME Laws, FsInv, NEW f \in Handle, file[f] # NONE, NEW s, s = file[f].inode,
         NEW g \in OpenFile, g.inode = s, g.deny_write <=> ~file[f].deny_write,
         file' = [file EXCEPT ![f] = g],
         NEW n, n = (IF g.deny_write THEN open_inodes[s].deny_write_cnt + 1
                     ELSE open_inodes[s].deny_write_cnt - 1),
         open_inodes' = [open_inodes EXCEPT ![s].deny_write_cnt = n],
         UNCHANGED <<free_map, diskVars, op, leaked>>
  PROVE  FsInv'
<1> DEFINE inode == [open_inodes[s] EXCEPT !.deny_write_cnt = n]
<1>1. s \in Sector /\ open_inodes[s] # NONE /\ Openers(s) # {}
  BY OpenFacts, Zenon
<1>2. /\ open_inodes[s] \in Inode
      /\ open_inodes[s].open_cnt = Cardinality(Openers(s))
      /\ open_inodes[s].deny_write_cnt = Cardinality(Deniers(s))
      /\ open_inodes[s].data = disk[s]
      /\ open_inodes[s].removed <=> \A i \in InUse : dir[i].sector # s
  BY <1>1, OpenFacts, ExactEverywhere, Zenon DEF FsInv, Exact
<1>3. open_inodes' = [open_inodes EXCEPT ![s] = inode]
  BY Zenon
<1>4. /\ Openers(s)' = Openers(s)
      /\ g.deny_write => Cardinality(Deniers(s)') = Cardinality(Deniers(s)) + 1
      /\ ~g.deny_write => /\ Cardinality(Deniers(s)') = Cardinality(Deniers(s)) - 1
                          /\ Cardinality(Deniers(s)) >= 1
  BY DenierChanged, Zenon
<1>5. n = Cardinality(Deniers(s)') /\ n \in Nat
  BY <1>2, <1>4, OpenersFinite
<1>6. /\ inode \in Inode /\ inode.open_cnt = open_inodes[s].open_cnt
      /\ inode.deny_write_cnt = n
      /\ inode.data = open_inodes[s].data /\ inode.removed = open_inodes[s].removed
  BY <1>2, <1>5, Zenon DEF Inode
<1> HIDE DEF inode
<1>7. /\ inode.removed <=> \A i \in InUse : dir[i].sector # s
      /\ inode.data = disk[s]
      /\ inode.open_cnt = Cardinality(Openers(s)') /\ Openers(s)' # {}
      /\ inode.deny_write_cnt = Cardinality(Deniers(s)')
  BY <1>1, <1>2, <1>4, <1>5, <1>6, Zenon
<1>8. inode \in Inode
  BY <1>6, Zenon
<1> QED BY <1>1, <1>3, <1>7, <1>8, OpenStep, Zenon

(* file_deny_write counts one more file that denies writes,                 *)
LEMMA DenyWriteKept ==
  ASSUME Laws, FsInv, NEW f \in Handle, file_deny_write(f)
  PROVE  FsInv'
<1>1. /\ file[f] # NONE /\ ~file[f].deny_write
      /\ open_inodes' = [open_inodes EXCEPT ![file[f].inode].deny_write_cnt = @ + 1]
      /\ file' = [file EXCEPT ![f].deny_write = TRUE]
      /\ UNCHANGED <<free_map, diskVars, op, leaked>>
  BY Zenon DEF file_deny_write
<1>3. PICK g \in OpenFile : /\ g.inode = file[f].inode /\ g.deny_write
                            /\ file' = [file EXCEPT ![f] = g]
  BY <1>1, OpenFacts, Zenon DEF OpenFile
<1>4. PICK n : /\ n = open_inodes[file[f].inode].deny_write_cnt + 1
               /\ open_inodes' = [open_inodes EXCEPT ![file[f].inode].deny_write_cnt = n]
  BY <1>1, Zenon
<1>5. file[f] # NONE /\ ~file[f].deny_write /\ UNCHANGED <<free_map, diskVars, op, leaked>>
  BY <1>1, Zenon
<1> QED BY <1>3, <1>4, <1>5, DenyKept, Zenon

(* and file_allow_write one less.                                           *)
LEMMA AllowWriteKept ==
  ASSUME Laws, FsInv, NEW f \in Handle, file_allow_write(f)
  PROVE  FsInv'
<1>1. /\ file[f] # NONE /\ file[f].deny_write
      /\ open_inodes' = [open_inodes EXCEPT ![file[f].inode] = Allowed(f)]
      /\ file' = [file EXCEPT ![f].deny_write = FALSE]
      /\ UNCHANGED <<free_map, diskVars, op, leaked>>
  BY Zenon DEF file_allow_write
<1>3. PICK g \in OpenFile : /\ g.inode = file[f].inode /\ ~g.deny_write
                            /\ file' = [file EXCEPT ![f] = g]
  BY <1>1, OpenFacts, Zenon DEF OpenFile
<1>4. PICK n : /\ n = open_inodes[file[f].inode].deny_write_cnt - 1
               /\ open_inodes' = [open_inodes EXCEPT ![file[f].inode].deny_write_cnt = n]
  BY <1>1, Zenon DEF Allowed
<1>5. file[f] # NONE /\ file[f].deny_write /\ UNCHANGED <<free_map, diskVars, op, leaked>>
  BY <1>1, Zenon
<1> QED BY <1>3, <1>4, <1>5, DenyKept, Zenon

-----------------------------------------------------------------------------
(* inode_close and filesys_remove.                                         *)

(* An inode whose count of openers is one has none when that one goes.      *)
LEMMA LastGone ==
  ASSUME Laws, FsInv, NEW h \in Handle, file[h] # NONE, NEW s, s = file[h].inode,
         open_inodes[s].open_cnt = 1, file' = [file EXCEPT ![h] = NONE]
  PROVE  Openers(s)' = {}
<1>1. /\ Openers(s)' = Openers(s) \ {h}
      /\ Cardinality(Openers(s)') = Cardinality(Openers(s)) - 1
  BY OpenerGone, Zenon
<1>3. IsFiniteSet(Openers(s) \ {h})
  BY OpenersFinite, Zenon DEF Laws, CountRemove
<1> QED BY <1>1, <1>3, OpenFacts DEF Laws, CountEmpty

(* When the last opener goes, a removed file becomes the operation that     *)
(* gives back its sectors, and any other file stays where it is.            *)
LEMMA LastClosed ==
  ASSUME Laws, FsInv, Idle, NEW h \in Handle, file[h] # NONE, NEW s, s = file[h].inode,
         open_inodes[s].open_cnt = 1, file' = [file EXCEPT ![h] = NONE],
         open_inodes' = [open_inodes EXCEPT ![s] = NONE],
         UNCHANGED <<free_map, diskVars, leaked>>,
         op' = IF open_inodes[s].removed
               THEN [step |-> "release", sector |-> s, data |-> open_inodes[s].data]
               ELSE [step |-> "idle"]
  PROVE  FsInv'
<1>1. /\ s \in Sector /\ open_inodes[s] # NONE /\ open_inodes[s] \in Inode
      /\ open_inodes[s].data \in DiskInode /\ Fits(s, open_inodes[s].data)
  BY OpenFacts, Zenon DEF FsInv, InodesFit, Inode
<1>2. /\ UNCHANGED <<disk, dir, disk_map>>
      /\ open_inodes'[s] = NONE /\ \A u \in Sector : u # s => open_inodes'[u] = open_inodes[u]
      /\ open_inodes' \in [Sector -> Inode \cup {NONE}]
      /\ file' \in [Handle -> OpenFile \cup {NONE}]
  BY <1>1, Zenon DEF FsInv, FsTypes, diskVars
<1>3. Openers(s)' = {}
  BY LastGone, Zenon
<1>4. \A u \in Sector : u # s => Openers(u)' = Openers(u) /\ Deniers(u)' = Deniers(u)
  BY <1>1, OpenersOthers, Zenon
<1>5. Removed' = Removed \ {s} /\ InUse' = InUse
  BY <1>1, <1>2, Zenon DEF Removed, InUse
<1>6. /\ \A i \in InUse : EntrySectors(i)' = EntrySectors(i)
      /\ \A u \in Removed \ {s} : RemovedSectors(u)' = RemovedSectors(u)
  BY <1>2, Zenon DEF EntrySectors, RemovedSectors, Removed
<1>7. Listed' = Listed
  BY <1>5, <1>6, Zenon DEF Listed
<1>8. Files' = Listed \cup UNION {RemovedSectors(u) : u \in Removed \ {s}}
  BY <1>5, <1>6, <1>7 DEF Files
<1>9. /\ op' \in Operation
      /\ OpSectors' = IF s \in Removed THEN RemovedSectors(s) ELSE {}
      /\ OpFits'
  <2>1. CASE open_inodes[s].removed
    BY <1>1, <2>1, Zenon DEF Removed, OpSectors, RemovedSectors, OpFits, Fits, Extent,
       Operation
  <2>2. CASE ~open_inodes[s].removed
    <3> QED BY <1>1, <2>2, Zenon DEF Operation, OpSectors, OpFits, Removed
  <2> QED BY <2>1, <2>2, Zenon
<1>10. FsTypes'
  BY <1>2, <1>9, Zenon DEF FsInv, FsTypes
<1>11. Files = Files' \cup OpSectors' /\ Files' \cap OpSectors' = {}
  <2>1. CASE s \in Removed
    <3>2. Listed \cap RemovedSectors(s) = {}
      BY <2>1 DEF FsInv, FilesApart, Listed
    <3>3. \A u \in Removed \ {s} : RemovedSectors(u) \cap RemovedSectors(s) = {}
      BY <2>1, Zenon DEF FsInv, FilesApart
    <3> QED BY <1>8, <1>9, <2>1, <3>2, <3>3 DEF Files
  <2>2. CASE s \notin Removed
    BY <1>8, <1>9, <2>2 DEF Files
  <2> QED BY <2>1, <2>2, Zenon
<1>12. FilesApart'
  BY <1>5, <1>6, Zenon DEF FsInv, FilesApart
<1>13. RestApart'
  <2>1. OpSectors = {}
    BY Zenon DEF Idle, OpSectors
  <2> QED BY <1>11, <2>1, Zenon DEF FsInv, RestApart, Fixed
<1>14. InodesFit'
  BY <1>2, <1>5, Zenon DEF FsInv, InodesFit, Fits, Extent
<1>15. DiskMapCovers'
  BY <1>2, <1>7, Zenon DEF FsInv, DiskMapCovers
<1>16. InodesExact'
  <2>1. \A u \in Sector : u # s => Exact(u)'
    BY <1>2, <1>4, <1>5, ExactEverywhere DEF FsInv, Exact
  <2>2. Exact(s)'
    BY <1>2, <1>3, Zenon DEF Exact
  <2> QED BY <2>1, <2>2, ExactThen, Zenon
<1>17. InodesOpen'
  BY <1>2, <1>4, Zenon DEF FsInv, InodesOpen, Openers
<1>18. EntriesDistinct'
  BY <1>2, <1>5 DEF FsInv, EntriesDistinct
<1> QED BY <1>9, <1>10, <1>12, <1>13, <1>14, <1>15, <1>16, <1>17, <1>18, Zenon DEF FsInv

(* file_close.                                                              *)
LEMMA CloseKept ==
  ASSUME Laws, FsInv, NEW h \in Handle, file_close(h)
  PROVE  FsInv'
<1>1. /\ Idle /\ file[h] # NONE
      /\ inode_close(file[h].inode, Allowed(h))
      /\ file' = [file EXCEPT ![h] = NONE]
      /\ UNCHANGED <<free_map, diskVars, leaked>>
  BY Zenon DEF file_close
<1>2. PICK s \in Sector : s = file[h].inode
  BY <1>1, OpenFacts, Zenon
<1>3. open_inodes[s] # NONE
  BY <1>1, <1>2, OpenFacts, Zenon
<1>4. /\ open_inodes[s] \in Inode
      /\ open_inodes[s].open_cnt = Cardinality(Openers(s)) /\ open_inodes[s].open_cnt >= 1
      /\ open_inodes[s].deny_write_cnt = Cardinality(Deniers(s))
      /\ open_inodes[s].data = disk[s]
      /\ open_inodes[s].removed <=> \A i \in InUse : dir[i].sector # s
  BY <1>3, OpenFacts, ExactEverywhere, Zenon DEF FsInv, Exact
<1>5. /\ Openers(s)' = Openers(s) \ {h}
      /\ Cardinality(Openers(s)') = Cardinality(Openers(s)) - 1
      /\ file[h].deny_write => /\ Cardinality(Deniers(s)') = Cardinality(Deniers(s)) - 1
                               /\ Cardinality(Deniers(s)) >= 1
      /\ ~file[h].deny_write => Cardinality(Deniers(s)') = Cardinality(Deniers(s))
  BY <1>1, <1>2, OpenerGone, Zenon
<1>6. PICK inode \in Inode :
        /\ inode = Allowed(h)
        /\ inode.open_cnt = open_inodes[s].open_cnt /\ inode.data = open_inodes[s].data
        /\ inode.removed = open_inodes[s].removed
        /\ inode.deny_write_cnt = Cardinality(Deniers(s)')
  <2>1. CASE file[h].deny_write
    <3> DEFINE a == [open_inodes[s] EXCEPT !.deny_write_cnt = @ - 1]
    <3>1. a = Allowed(h)
      BY <1>2, <2>1, Zenon DEF Allowed
    <3>3. /\ a \in Inode
          /\ a.open_cnt = open_inodes[s].open_cnt /\ a.data = open_inodes[s].data
          /\ a.removed = open_inodes[s].removed
          /\ a.deny_write_cnt = open_inodes[s].deny_write_cnt - 1
      BY <1>4, <1>5, <2>1, OpenersFinite DEF Inode
    <3> HIDE DEF a
    <3> QED BY <1>4, <1>5, <2>1, <3>1, <3>3, Zenon
  <2>2. CASE ~file[h].deny_write
    BY <1>2, <1>4, <1>5, <2>2, Zenon DEF Allowed
  <2> QED BY <2>1, <2>2, Zenon
<1>7. inode_close(s, inode)
  BY <1>1, <1>2, <1>6, Zenon
<1>8. CASE inode.open_cnt = 1
  <2>1. /\ open_inodes' = [open_inodes EXCEPT ![s] = NONE]
        /\ IF open_inodes[s].removed
           THEN op' = [step |-> "release", sector |-> s, data |-> open_inodes[s].data]
           ELSE op' = [step |-> "idle"]
    BY <1>6, <1>7, <1>8, Zenon DEF inode_close, LastOpener, ToRelease, Done
  <2> QED BY <1>1, <1>2, <2>1, LastClosed, <1>6, <1>8, Zenon
<1>9. CASE inode.open_cnt # 1
  <2> DEFINE less == [inode EXCEPT !.open_cnt = @ - 1]
  <2>1. open_inodes' = [open_inodes EXCEPT ![s] = less] /\ op' = [step |-> "idle"]
    BY <1>7, <1>9, Zenon DEF inode_close, LastOpener, Done
  <2>3. /\ less \in Inode /\ less.open_cnt = inode.open_cnt - 1
        /\ less.deny_write_cnt = inode.deny_write_cnt
        /\ less.data = inode.data /\ less.removed = inode.removed
    BY <1>4, <1>6, OpenersFinite DEF Inode
  <2> HIDE DEF less
  <2>4. UNCHANGED <<free_map, diskVars, op, leaked>>
    BY <1>1, <2>1, Zenon DEF Idle, FsInv, FsTypes, Operation
  <2>5. Openers(s)' # {}
    <3>1. Cardinality(Openers(s)') # 0
      BY <1>4, <1>5, <1>6, <1>9, OpenersFinite
    <3> QED BY <3>1, Zenon DEF Laws, CountEmpty
  <2>6. /\ less.data = disk[s]
        /\ less.removed <=> \A i \in InUse : dir[i].sector # s
        /\ less.open_cnt = Cardinality(Openers(s)')
        /\ less.deny_write_cnt = Cardinality(Deniers(s)')
    BY <1>4, <1>5, <1>6, <2>3, Zenon
  <2>7. less \in Inode /\ NONE \in OpenFile \cup {NONE}
    BY <2>3, Zenon
  <2>8. file' = [file EXCEPT ![h] = NONE] /\ file[h].inode = s
    BY <1>1, <1>2, Zenon
  <2> QED BY <1>3, <2>1, <2>4, <2>5, <2>6, <2>7, <2>8, OpenStep, Zenon
<1> QED BY <1>8, <1>9, Zenon

(* dir_remove takes one entry off the directory.                            *)
LEMMA EntryGone ==
  ASSUME FsInv, NEW i \in InUse, dir' = [dir EXCEPT ![i] = NONE], disk' = disk
  PROVE  /\ InUse' = InUse \ {i} /\ i \notin InUse'
         /\ dir' \in [Slot -> Entry \cup {NONE}]
         /\ \A j \in InUse' : dir'[j] = dir[j] /\ EntrySectors(j)' = EntrySectors(j)
         /\ Listed = Listed' \cup EntrySectors(i)
         /\ Listed' \cap EntrySectors(i) = {}
         /\ \A s \in Sector : s # dir[i].sector =>
              ((\A j \in InUse' : dir'[j].sector # s) <=> (\A j \in InUse : dir[j].sector # s))
         /\ \A j \in InUse' : dir'[j].sector # dir[i].sector
         /\ EntriesDistinct'
<1>1. /\ dir' \in [Slot -> Entry \cup {NONE}] /\ dir'[i] = NONE
      /\ \A j \in Slot : j # i => dir'[j] = dir[j]
  BY Zenon DEF FsInv, FsTypes, InUse
<1>2. InUse' = InUse \ {i}
  BY <1>1, Zenon DEF InUse
<1>3. \A j \in InUse' : dir'[j] = dir[j]
  BY <1>1, <1>2, Zenon DEF InUse
<1>4. \A j \in InUse' : EntrySectors(j)' = EntrySectors(j)
  BY <1>3, Zenon DEF EntrySectors
<1>5. Listed' = UNION {EntrySectors(j) : j \in InUse \ {i}}
  BY <1>2, <1>4, Zenon DEF Listed
<1>6. Listed = Listed' \cup EntrySectors(i)
  BY <1>5, Zenon DEF Listed
<1>8. Listed' \cap EntrySectors(i) = {}
  BY <1>5 DEF FsInv, FilesApart
<1>9. \A j \in InUse' : dir'[j].sector # dir[i].sector
  BY <1>2, <1>3 DEF FsInv, EntriesDistinct
<1>10. EntriesDistinct'
  BY <1>2, <1>3 DEF FsInv, EntriesDistinct
<1>11. \A s \in Sector : s # dir[i].sector =>
         ((\A j \in InUse' : dir'[j].sector # s) <=> (\A j \in InUse : dir[j].sector # s))
  BY <1>2, <1>3, Zenon
<1> QED BY <1>1, <1>2, <1>3, <1>4, <1>6, <1>8, <1>9, <1>10, <1>11, Zenon

(* The entry of a file that nobody has open: its sectors go to the          *)
(* operation that gives them back.                                          *)
LEMMA ClosedRemoved ==
  ASSUME FsInv, Idle, NEW i \in InUse, NEW s, s = dir[i].sector, open_inodes[s] = NONE,
         dir' = [dir EXCEPT ![i] = NONE],
         op' = [step |-> "release", sector |-> s, data |-> disk[s]],
         UNCHANGED <<free_map, disk_map, disk, open_inodes, file, leaked>>
  PROVE  FsInv'
<1>1. /\ InUse' = InUse \ {i}
      /\ dir' \in [Slot -> Entry \cup {NONE}]
      /\ \A j \in InUse' : dir'[j] = dir[j] /\ EntrySectors(j)' = EntrySectors(j)
      /\ Listed = Listed' \cup EntrySectors(i)
      /\ Listed' \cap EntrySectors(i) = {}
      /\ \A u \in Sector : u # s =>
           ((\A j \in InUse' : dir'[j].sector # u) <=> (\A j \in InUse : dir[j].sector # u))
      /\ EntriesDistinct'
  BY EntryGone, Zenon
<1>2. s \in Sector /\ Fits(s, disk[s]) /\ disk[s] \in DiskInode
  BY Zenon DEF FsInv, InodesFit, Fits, FsTypes, InUse, Entry
<1>3. /\ op'.step = "release" /\ op'.sector = s /\ op'.data = disk[s]
      /\ op' \in [step : {"release", "release_data"}, sector : Sector, data : DiskInode]
  BY <1>2, Zenon
<1>5. Removed' = Removed /\ \A u \in Removed : RemovedSectors(u)' = RemovedSectors(u)
  BY Zenon DEF Removed, RemovedSectors
<1>6. Files = Files' \cup EntrySectors(i) /\ Files' \cap EntrySectors(i) = {}
  BY <1>5, <1>1 DEF Files, FsInv, FilesApart
<1>7. FsTypes'
  BY <1>1, <1>3, Zenon DEF FsInv, FsTypes, Operation
<1>8. InodesFit'
  BY <1>1, Zenon DEF FsInv, InodesFit, Fits, Extent
<1>9. OpFits'
  BY <1>2, <1>3, Zenon DEF OpFits, Fits, Extent
<1>10. FilesApart'
  BY <1>1, <1>5 DEF FsInv, FilesApart
<1>11. RestApart'
  BY <1>6, <1>3, Zenon DEF FsInv, RestApart, Fixed, OpSectors, EntrySectors, Idle
<1>12. DiskMapCovers'
  BY <1>1, Zenon DEF FsInv, DiskMapCovers
<1>13. InodesExact'
  <2>1. ASSUME NEW u \in Sector PROVE Exact(u)'
    <3>2. Openers(u)' = Openers(u) /\ Deniers(u)' = Deniers(u)
      BY Zenon DEF Openers, Deniers
    <3> QED BY <1>1, <3>2, ExactEverywhere DEF Exact, FsInv
  <2> QED BY <2>1, ExactThen, Zenon
<1>14. InodesOpen'
  BY Zenon DEF FsInv, InodesOpen
<1> QED BY <1>1, <1>7, <1>8, <1>9, <1>10, <1>11, <1>12, <1>13, <1>14, Zenon DEF FsInv

(* The entry of a file that is open: its sectors stay with the openers.     *)
LEMMA OpenRemoved ==
  ASSUME FsInv, Idle, NEW i \in InUse, NEW s, s = dir[i].sector, open_inodes[s] # NONE,
         dir' = [dir EXCEPT ![i] = NONE], op' = op,
         NEW inode \in Inode, inode.removed,
         inode.open_cnt = open_inodes[s].open_cnt, inode.data = open_inodes[s].data,
         inode.deny_write_cnt = open_inodes[s].deny_write_cnt,
         open_inodes' = [open_inodes EXCEPT ![s] = inode],
         UNCHANGED <<free_map, disk_map, disk, file, leaked>>
  PROVE  FsInv'
<1>1. /\ InUse' = InUse \ {i}
      /\ dir' \in [Slot -> Entry \cup {NONE}]
      /\ \A j \in InUse' : dir'[j] = dir[j] /\ EntrySectors(j)' = EntrySectors(j)
      /\ Listed = Listed' \cup EntrySectors(i)
      /\ Listed' \cap EntrySectors(i) = {}
      /\ \A u \in Sector : u # s =>
           ((\A j \in InUse' : dir'[j].sector # u) <=> (\A j \in InUse : dir[j].sector # u))
      /\ \A j \in InUse' : dir'[j].sector # s
      /\ EntriesDistinct'
  BY EntryGone
<1>2. s \in Sector /\ open_inodes[s].data = disk[s] /\ ~open_inodes[s].removed
  <2>1. s \in Sector
    BY Zenon DEF FsInv, FsTypes, InUse, Entry
  <2> QED BY <2>1, ExactEverywhere, Zenon DEF FsInv, Exact
<1>3. /\ open_inodes'[s] = inode /\ \A u \in Sector : u # s => open_inodes'[u] = open_inodes[u]
      /\ open_inodes' \in [Sector -> Inode \cup {NONE}] /\ inode # NONE
  BY <1>2, FileSysAssumption, Zenon DEF FsInv, FsTypes
<1>4. Removed' = Removed \cup {s} /\ s \notin Removed
  BY <1>2, <1>3, Zenon DEF Removed
<1>5. /\ \A u \in Removed : RemovedSectors(u)' = RemovedSectors(u)
      /\ RemovedSectors(s)' = EntrySectors(i)
  BY <1>2, <1>3, <1>4, Zenon DEF RemovedSectors, EntrySectors, Removed
<1>6. Files' = Files
  BY <1>1, <1>4, <1>5 DEF Files
<1>7. FsTypes'
  BY <1>1, <1>3, Zenon DEF FsInv, FsTypes
<1>8. InodesFit'
  BY <1>3, <1>1 DEF FsInv, InodesFit, Fits, Extent
<1>9. OpFits' /\ OpSectors' = OpSectors
  BY Zenon DEF Idle, OpFits, OpSectors
<1>10. FilesApart'
  <2> QED BY <1>4, <1>5, <1>1 DEF FilesApart, FsInv
<1>11. RestApart'
  BY <1>6, <1>9, Zenon DEF FsInv, RestApart, Fixed
<1>12. DiskMapCovers'
  BY <1>1, Zenon DEF FsInv, DiskMapCovers
<1>13. \A u \in Sector : Openers(u)' = Openers(u) /\ Deniers(u)' = Deniers(u)
  BY Zenon DEF Openers, Deniers
<1>14. InodesExact'
  <2>1. \A u \in Sector : u # s => Exact(u)'
    BY <1>1, <1>3, <1>13, ExactEverywhere DEF FsInv, Exact
  <2>2. Exact(s)
    BY <1>2, ExactEverywhere, Zenon DEF FsInv
  <2>3. Exact(s)'
    BY <1>1, <1>2, <1>3, <1>13, <2>2 DEF Exact
  <2> QED BY <2>1, <2>3, ExactThen, Zenon
<1>15. InodesOpen'
  BY <1>3 DEF FsInv, InodesOpen
<1> QED BY <1>1, <1>7, <1>8, <1>9, <1>10, <1>11, <1>12, <1>14, <1>15, Zenon DEF FsInv

(* filesys_remove.                                                          *)
LEMMA RemoveKept ==
  ASSUME Laws, FsInv, NEW name \in Name, filesys_remove(name)
  PROVE  FsInv'
<1>1. Idle /\ UNCHANGED <<free_map, disk_map, disk, file, leaked>>
  BY Zenon DEF filesys_remove
<1>2. PICK end \in ScanEnd :
        /\ lookup(name, end) # {}
        /\ LET i == Min(lookup(name, end))
               s == dir[i].sector
           IN  /\ dir' = [dir EXCEPT ![i] = NONE]
               /\ inode_close(s, [Opened(s) EXCEPT !.removed = TRUE])
  BY Zenon DEF filesys_remove
<1>3. PICK i \in InUse : /\ dir' = [dir EXCEPT ![i] = NONE]
                         /\ inode_close(dir[i].sector, [Opened(dir[i].sector) EXCEPT !.removed = TRUE])
  BY <1>2, EntryFound, Zenon
<1>4. PICK s \in Sector : s = dir[i].sector
  BY Zenon DEF FsInv, FsTypes, InUse, Entry
<1>5. CASE open_inodes[s] = NONE
  <2> DEFINE o == [Opened(s) EXCEPT !.removed = TRUE]
  <2>1. o.open_cnt = 1 /\ o.removed /\ o.data = disk[s]
    BY <1>5, Zenon DEF Opened
  <2>2. inode_close(s, o)
    BY <1>3, <1>4, Zenon
  <2> HIDE DEF o
  <2>3. /\ open_inodes' = [open_inodes EXCEPT ![s] = NONE]
        /\ op' = [step |-> "release", sector |-> s, data |-> disk[s]]
    BY <2>1, <2>2, Zenon DEF inode_close, LastOpener, ToRelease
  <2>4. open_inodes' = open_inodes
    BY <1>5, <2>3, Zenon DEF FsInv, FsTypes
  <2> QED BY <1>1, <1>3, <1>4, <1>5, <2>3, <2>4, ClosedRemoved, Zenon
<1>6. CASE open_inodes[s] # NONE
  <2>1. open_inodes[s] \in Inode /\ open_inodes[s].open_cnt >= 1
    BY <1>6, OpenFacts, Zenon
  <2> DEFINE o == [Opened(s) EXCEPT !.removed = TRUE]
             inode == [o EXCEPT !.open_cnt = @ - 1]
  <2>2. Opened(s) = [open_inodes[s] EXCEPT !.open_cnt = @ + 1]
    BY <1>6, Zenon DEF Opened
  <2>3. /\ o \in Inode /\ o.open_cnt = open_inodes[s].open_cnt + 1 /\ o.removed
        /\ o.data = open_inodes[s].data /\ o.deny_write_cnt = open_inodes[s].deny_write_cnt
    <3>1. PICK a \in Inode :
            /\ a = Opened(s) /\ a.open_cnt = open_inodes[s].open_cnt + 1
            /\ a.data = open_inodes[s].data
            /\ a.deny_write_cnt = open_inodes[s].deny_write_cnt
      BY <2>1, <2>2 DEF Inode
    <3> QED BY <3>1, Zenon DEF Inode
  <2>4. inode_close(s, o)
    BY <1>3, <1>4, Zenon
  <2> HIDE DEF o
  <2>5. open_inodes[s].open_cnt \in Nat /\ o.open_cnt # 1
    BY <2>1, <2>3 DEF Inode
  <2>6. open_inodes' = [open_inodes EXCEPT ![s] = inode] /\ op' = [step |-> "idle"]
    BY <2>4, <2>5, Zenon DEF inode_close, LastOpener, Done
  <2>7. /\ inode \in Inode /\ inode.open_cnt = open_inodes[s].open_cnt /\ inode.removed
        /\ inode.data = open_inodes[s].data
        /\ inode.deny_write_cnt = open_inodes[s].deny_write_cnt
    BY <2>3, <2>5 DEF Inode
  <2> HIDE DEF inode
  <2>8. op' = op
    BY <1>1, <2>6, Zenon DEF Idle, FsInv, FsTypes, Operation
  <2>9. dir' = [dir EXCEPT ![i] = NONE] /\ open_inodes' = [open_inodes EXCEPT ![s] = inode]
    BY <1>3, <2>6, Zenon
  <2> QED BY <1>1, <1>4, <1>6, <2>7, <2>8, <2>9, OpenRemoved, Zenon
<1> QED BY <1>5, <1>6, Zenon

-----------------------------------------------------------------------------
(* Writing a file, and a stop of the machine.                              *)

(* What file_write_at writes is a data sector of the file, so no inode.     *)
LEMMA WritesData ==
  ASSUME Laws, FsInv, NEW s \in Sector, open_inodes[s] # NONE, NEW x \in Sector,
         x \in Extent(disk[s].start, disk[s].length)
  PROVE  /\ \A i \in InUse : dir[i].sector # x
         /\ \A u \in Sector : open_inodes[u] # NONE => u # x
         /\ x \in Files
<1>1. open_inodes[s].data = disk[s] /\ Fits(s, disk[s])
  BY OpenFacts, Zenon DEF FsInv, InodesFit
<1>2. x # s
  BY <1>1, Zenon DEF Fits
<1>3. \A u \in Sector : open_inodes[u] # NONE =>
        u \in Removed \/ \E i \in InUse : dir[i].sector = u
  BY ExactEverywhere, Zenon DEF FsInv, Exact, Removed
<1>4. CASE s \in Removed
  <2>1. x \in RemovedSectors(s)
    BY <1>1, Zenon DEF RemovedSectors, SectorsOf
  <2>2. \A i \in InUse : dir[i].sector # x
    BY <1>4, <2>1, InodeSectors DEF FsInv, FilesApart
  <2> QED BY <1>3, <1>4, <2>1, <2>2, InodeSectors, <1>2, Zenon DEF FsInv, FilesApart
<1>5. CASE \E i \in InUse : dir[i].sector = s
  <2>1. PICK i \in InUse : dir[i].sector = s
    BY <1>5, Zenon
  <2>2. x \in EntrySectors(i)
    BY <2>1, Zenon DEF EntrySectors, SectorsOf
  <2>3. \A j \in InUse : dir[j].sector # x
    BY <1>2, <2>1, <2>2, InodeSectors DEF FsInv, FilesApart
  <2> QED BY <1>3, <2>2, <2>3, InodeSectors DEF FsInv, FilesApart
<1> QED BY <1>3, <1>4, <1>5, Zenon

(* file_write_at.                                                           *)
LEMMA WriteKept ==
  ASSUME Laws, FsInv, NEW f \in Handle, NEW v \in Value, NEW ofs \in 0..MaxLen - 1,
         file_write_at(f, v, ofs)
  PROVE  FsInv'
<1>1. PICK s \in Sector : s = file[f].inode /\ open_inodes[s] # NONE
  BY OpenFacts, Zenon DEF file_write_at
<1>2. /\ open_inodes[s].data = disk[s] /\ Fits(s, disk[s]) /\ disk[s] \in DiskInode
  BY <1>1, OpenFacts, Zenon DEF FsInv, InodesFit, Fits
<1> DEFINE x == disk[s].start + ofs
<1>3. /\ Idle /\ ofs < disk[s].length
      /\ disk' = [disk EXCEPT ![x] = v]
      /\ UNCHANGED <<free_map, disk_map, dir, open_inodes, file, op, leaked>>
  BY <1>1, <1>2, Zenon DEF file_write_at
<1>4. x \in Extent(disk[s].start, disk[s].length) /\ x \in Sector
  BY <1>2, FileSysAssumption, <1>3 DEF DiskInode, Sector, Extent, Fits
<1> HIDE DEF x
<1>5. /\ \A i \in InUse : dir[i].sector # x
      /\ \A u \in Sector : open_inodes[u] # NONE => u # x
  BY <1>1, <1>4, WritesData, Zenon
<1>6. /\ disk' \in [Sector -> Value \cup DiskInode]
      /\ \A u \in Sector : u # x => disk'[u] = disk[u]
  BY <1>3, <1>4, Zenon DEF FsInv, FsTypes
<1>7. \A i \in InUse : disk'[dir[i].sector] = disk[dir[i].sector]
  BY <1>5, <1>6, Zenon DEF FsInv, FsTypes, InUse, Entry
<1>8. \A u \in Sector : open_inodes[u] # NONE => disk'[u] = disk[u]
  BY <1>5, <1>6, Zenon
<1>10. InUse' = InUse /\ Listed' = Listed /\ Files' = Files /\ FilesApart' /\ EntriesDistinct'
  BY <1>3, <1>7, FilesSame, Zenon DEF Removed
<1>11. FsTypes'
  BY <1>3, <1>6, Zenon DEF FsInv, FsTypes
<1>12. InodesFit'
  BY <1>3, <1>7, <1>10, Zenon DEF FsInv, InodesFit, Fits, Extent
<1>13. OpFits' /\ OpSectors' = OpSectors
  BY <1>3, Zenon DEF Idle, OpFits, OpSectors
<1>14. RestApart'
  BY <1>3, <1>10, <1>13, Zenon DEF FsInv, RestApart, Fixed
<1>15. DiskMapCovers'
  BY <1>3, <1>10, Zenon DEF FsInv, DiskMapCovers
<1>16. InodesExact'
  <2>1. \A u \in Sector : Exact(u)' <=> Exact(u)
    BY <1>3, <1>8, <1>10 DEF Exact, Openers, Deniers
  <2> QED BY <2>1, ExactEverywhere, ExactThen, Zenon DEF FsInv
<1>17. InodesOpen'
  BY <1>3, Zenon DEF FsInv, InodesOpen
<1> QED BY <1>10, <1>11, <1>12, <1>13, <1>14, <1>15, <1>16, <1>17, Zenon DEF FsInv

(* filesys_init after a stop of the machine: what it reads from the disk is *)
(* in order, whatever was under way and in memory.                          *)
LEMMA RestartKept ==
  ASSUME FsInv, Restart
  PROVE  FsInv'
<1>1. /\ free_map' = disk_map
      /\ open_inodes' = [s \in Sector |-> NONE]
      /\ file' = [h \in Handle |-> NONE]
      /\ op' = [step |-> "idle"]
      /\ leaked' = disk_map \ (Fixed \cup Listed)
      /\ UNCHANGED <<disk_map, disk, dir>>
  BY Zenon DEF Restart, Done, diskVars
<1>2. InUse' = InUse
  BY <1>1, Zenon DEF InUse
<1>3. \A i \in InUse : EntrySectors(i)' = EntrySectors(i)
  BY <1>1, Zenon DEF EntrySectors
<1>4. Listed' = Listed
  BY <1>2, <1>3, Zenon DEF Listed
<1>5. Removed' = {}
  BY <1>1, Zenon DEF Removed
<1>7. FsTypes'
  BY <1>1, Zenon DEF FsInv, FsTypes, Operation
<1>8. InodesFit'
  BY <1>1, <1>2, Zenon DEF FsInv, InodesFit, Fits, Extent
<1>9. OpFits' /\ OpSectors' = {}
  BY <1>1, Zenon DEF OpFits, OpSectors
<1>10. FilesApart'
  BY <1>2, <1>3, <1>5, Zenon DEF FsInv, FilesApart
<1>11. RestApart'
  BY OpApart, <1>1, <1>9, <1>4, <1>5 DEF FsInv, RestApart, Files, Fixed
<1>12. DiskMapCovers'
  BY <1>1, <1>4, Zenon DEF FsInv, DiskMapCovers
<1>13. InodesExact'
  BY <1>1, ExactThen, Zenon DEF Exact, Openers
<1>14. InodesOpen'
  BY <1>1, Zenon DEF InodesOpen
<1>15. EntriesDistinct'
  BY <1>1, <1>2 DEF FsInv, EntriesDistinct
<1> QED BY <1>7, <1>8, <1>9, <1>10, <1>11, <1>12, <1>13, <1>14, <1>15, Zenon DEF FsInv

-----------------------------------------------------------------------------
(* The invariant holds.                                                    *)

(* What do_format leaves is in order.                                       *)
LEMMA InitInv == FsInit => FsInv
<1> SUFFICES ASSUME FsInit PROVE FsInv
  BY Zenon
<1>1. /\ free_map = Fixed /\ disk_map = Fixed
      /\ \E v \in Value : disk = [s \in Sector |-> v]
      /\ dir = [i \in Slot |-> NONE]
      /\ open_inodes = [s \in Sector |-> NONE]
      /\ file = [h \in Handle |-> NONE]
      /\ op = [step |-> "idle"]
      /\ leaked = {}
  BY Zenon DEF FsInit
<1>2. InUse = {} /\ Removed = {} /\ OpSectors = {}
  BY <1>1, Zenon DEF InUse, Removed, OpSectors
<1>3. Listed = {}
  BY <1>2, Zenon DEF Listed
<1>8. FilesApart /\ RestApart
  BY <1>1, <1>2, <1>3, Zenon DEF FilesApart, RestApart, Files
<1>10. InodesExact
  BY <1>1, Zenon DEF InodesExact
<1>11. InodesOpen
  BY <1>1, Zenon DEF InodesOpen
<1> QED
  BY <1>8, <1>10, <1>11, <1>1, <1>2, FileSysAssumption, <1>3 DEF FsInv, InodesFit,
     OpFits, FsTypes, Operation, Fixed, Sector, DiskMapCovers, EntriesDistinct

(* Every step keeps it, unless a scan of the directory may end early.       *)
LEMMA NextInv ==
  ASSUME Laws, "scan" \notin Failures
  PROVE  FsInv /\ [FsNext]_fsVars => FsInv'
<1> SUFFICES ASSUME FsInv, [FsNext]_fsVars PROVE FsInv'
  BY Zenon
<1>1. ASSUME NEW n \in Name, NEW len \in 0..MaxLen, CreateAllocate(n, len) PROVE FsInv'
  BY <1>1, CreateAllocateKept, Zenon
<1>2. CASE CreateData
  BY <1>2, CreateDataKept, Zenon
<1>3. CASE CreateInode
  BY <1>3, CreateInodeKept, Zenon
<1>4. CASE CreateZero
  BY <1>4, CreateZeroKept, Zenon
<1>5. CASE dir_add
  BY <1>5, DirAddKept, Zenon
<1>6. CASE CreateUndo
  BY <1>6, CreateUndoKept, Zenon
<1>7. CASE ReleaseInode
  BY <1>7, ReleaseInodeKept, Zenon
<1>8. CASE ReleaseData
  BY <1>8, ReleaseDataKept, Zenon
<1>9. ASSUME NEW n \in Name, NEW h \in Handle, filesys_open(n, h) PROVE FsInv'
  BY <1>9, OpenKept, Zenon
<1>10. ASSUME NEW n \in Name, filesys_remove(n) PROVE FsInv'
  BY <1>10, RemoveKept, Zenon
<1>11. ASSUME NEW f \in Handle, NEW h \in Handle, file_reopen(f, h) PROVE FsInv'
  BY <1>11, ReopenKept, Zenon
<1>12. ASSUME NEW f \in Handle, file_close(f) PROVE FsInv'
  BY <1>12, CloseKept, Zenon
<1>13. ASSUME NEW f \in Handle, file_deny_write(f) PROVE FsInv'
  BY <1>13, DenyWriteKept, Zenon
<1>14. ASSUME NEW f \in Handle, file_allow_write(f) PROVE FsInv'
  BY <1>14, AllowWriteKept, Zenon
<1>15. ASSUME NEW f \in Handle, NEW v \in Value, NEW ofs \in 0..MaxLen - 1, file_write_at(f, v, ofs)
       PROVE  FsInv'
  BY <1>15, WriteKept, Zenon
<1>16. CASE Restart
  BY <1>16, RestartKept, Zenon
<1>17. CASE UNCHANGED fsVars
  BY <1>17, OpApart, OpStep, Zenon DEF fsVars, diskVars, FsInv, FsTypes, OpFits, Fits,
     OpSectors
<1> QED
  BY <1>1, <1>2, <1>3, <1>4, <1>5, <1>6, <1>7, <1>8, <1>9, <1>10, <1>11, <1>12, <1>13,
     <1>14, <1>15, <1>16, <1>17, Zenon DEF FsNext

-----------------------------------------------------------------------------
(* The disk implements FileStore.                                          *)

Names == {dir[i].name : i \in InUse}

(* The files on the disk have the names and contents of the entries.        *)
LEMMA OnDiskNow ==
  ASSUME EntriesDistinct
  PROVE  /\ OnDisk = [n \in Names |-> OnDisk[n]]
         /\ \A i \in InUse : OnDisk[dir[i].name] = Contents(i)
BY DEF OnDisk, Names, EntriesDistinct

(* The same after a step.                                                   *)
LEMMA OnDiskThen ==
  ASSUME EntriesDistinct'
  PROVE  /\ OnDisk' = [n \in Names' |-> OnDisk'[n]]
         /\ \A i \in InUse' : OnDisk'[dir'[i].name] = Contents(i)'
BY DEF OnDisk, Names, EntriesDistinct

(* An entry that stays leads to what it led to when its sectors stay.       *)
LEMMA ContentsSame ==
  ASSUME FsInv, NEW i \in InUse, dir'[i] = dir[i],
         \A x \in EntrySectors(i) : disk'[x] = disk[x]
  PROVE  Contents(i)' = Contents(i)
<1> DEFINE inode == disk[dir[i].sector]
<1>2. disk'[dir[i].sector] = inode
  BY Zenon DEF EntrySectors, SectorsOf
<1>4. EntrySectors(i) = {dir[i].sector} \cup Extent(inode.start, inode.length)
  BY Zenon DEF EntrySectors, SectorsOf
<1> HIDE DEF inode
<1> QED
  BY <1>2, <1>4, FileSysAssumption DEF Contents, inode, Extent, Fits, DiskInode, Sector,
     FsInv, InodesFit

(* A step that leaves the directory and the sectors of its files alone      *)
(* changes no file.                                                         *)
LEMMA StoreSame ==
  ASSUME FsInv, FsInv', dir' = dir, \A x \in Listed : disk'[x] = disk[x]
  PROVE  OnDisk' = OnDisk
<1>1. InUse' = InUse /\ Names' = Names
  BY Zenon DEF InUse, Names
<1>3. \A i \in InUse : Contents(i)' = Contents(i)
  BY ContentsSame, Zenon DEF Listed
<1>5. \A n \in Names : OnDisk'[n] = OnDisk[n]
  BY <1>1, <1>3, OnDiskNow, OnDiskThen DEF Names, FsInv
<1> QED BY <1>5, <1>1, OnDiskNow, OnDiskThen, Zenon DEF FsInv

(* dir_add creates a file of zeros at once, or nothing.                     *)
LEMMA AddStores ==
  ASSUME Laws, FsInv, FsInv', dir_add, "scan" \notin Failures
  PROVE  Store!Next \/ OnDisk' = OnDisk
<1>1. /\ op.step = "zero" /\ ~(op.next < op.data.length)
      /\ UNCHANGED <<free_map, disk_map, disk, open_inodes, file>>
  BY Zenon DEF dir_add, ZerosLeft
<1>2. PICK seen \in ScanEnd, end \in ScanEnd :
       \/ /\ lookup(op.name, seen) = {}
          /\ FreeSlot(end) \in Slot
          /\ dir' = [dir EXCEPT ![FreeSlot(end)] = [name |-> op.name, sector |-> op.sector]]
       \/ UNCHANGED dir
  BY Zenon DEF dir_add
<1>3. CASE UNCHANGED dir
  BY <1>1, <1>3, StoreSame, Zenon
<1>4. CASE /\ lookup(op.name, seen) = {}
           /\ FreeSlot(end) \in Slot
           /\ dir' = [dir EXCEPT ![FreeSlot(end)] = [name |-> op.name, sector |-> op.sector]]
  <2>1. PICK i \in Slot : i = FreeSlot(end)
    BY <1>4, Zenon
  <2>2. dir[i] = NONE
    BY <2>1, SlotFound, Zenon
  <2>3. \A j \in InUse : dir[j].name # op.name
    BY <1>4, FileSysAssumption DEF ScanEnd, lookup, InUse, Slot
  <2>4. /\ op.name \in Name /\ op.sector \in Sector /\ op.data \in DiskInode /\ op.next \in Nat
        /\ Fits(op.sector, op.data) /\ disk[op.sector] = op.data
        /\ op.next <= op.data.length
        /\ \A k \in 0..op.next - 1 : disk[op.data.start + k] = Zero
    BY <1>1, OpShapes, Zenon DEF FsInv, OpFits
  <2>5. /\ op.data.start \in Int /\ op.data.length \in 0..MaxLen /\ op.next = op.data.length
    BY <1>1, <2>4, FileSysAssumption DEF DiskInode, Sector
  <2>6. [name |-> op.name, sector |-> op.sector] \in Entry
    BY <2>4, Zenon DEF Entry
  <2>7. /\ dir'[i].name = op.name /\ dir'[i].sector = op.sector
        /\ dir'[i] # NONE
        /\ \A j \in Slot : j # i => dir'[j] = dir[j]
    BY <1>4, <2>1, <2>6, FileSysAssumption, Zenon DEF FsInv, FsTypes
  <2>8. InUse' = InUse \cup {i} /\ i \notin InUse /\ InUse \subseteq Slot
    BY <2>2, <2>7 DEF InUse
  <2>9. \A j \in InUse : dir'[j] = dir[j]
    BY <2>7, <2>8, Zenon
  <2>12. Contents(i)' = [k \in 1..op.data.length |-> Zero]
    BY <1>1, <2>4, <2>7, <2>5 DEF Contents
  <2>13. OnDisk'[op.name] = [k \in 1..op.data.length |-> Zero]
    BY <2>7, <2>8, <2>12, OnDiskThen, Zenon DEF FsInv
  <2>14. \A n \in Names : OnDisk'[n] = OnDisk[n]
    BY <2>8, <2>9, OnDiskNow, OnDiskThen, <1>1, ContentsSame DEF FsInv, Names
  <2>15. DOMAIN OnDisk = Names /\ OnDisk' = [n \in Names' |-> OnDisk'[n]]
    BY OnDiskNow, OnDiskThen, Zenon DEF FsInv
  <2>17. Store!Create(op.name, op.data.length)
    BY <2>15, <2>13, <2>14, <2>3, <2>7, <2>8, <2>9 DEF Store!Create, Names
  <2> QED BY <2>4, <2>5, <2>17, Zenon DEF Store!Next
<1> QED BY <1>2, <1>3, <1>4, Zenon

(* filesys_remove takes the file away at once, open or not.                 *)
LEMMA RemoveStores ==
  ASSUME Laws, FsInv, FsInv', NEW name \in Name, filesys_remove(name)
  PROVE  Store!Next
<1>1. PICK i \in InUse : dir[i].name = name /\ dir' = [dir EXCEPT ![i] = NONE] /\ disk' = disk
  BY EntryFound, Zenon DEF filesys_remove
<1>2. InUse' = InUse \ {i} /\ \A j \in InUse' : dir'[j] = dir[j]
  BY <1>1, EntryGone, Zenon
<1>5. \A j \in InUse' : Contents(j)' = Contents(j)
  BY <1>1, <1>2, ContentsSame, Zenon
<1>8. DOMAIN OnDisk = Names /\ OnDisk' = [n \in Names' |-> OnDisk'[n]]
  BY OnDiskNow, OnDiskThen, Zenon DEF FsInv
<1>10. Store!Remove(name)
  BY <1>8, <1>1, <1>2, <1>5, OnDiskNow, OnDiskThen DEF Store!Remove, Names, FsInv,
     EntriesDistinct
<1> QED BY <1>10, Zenon DEF Store!Next

(* file_write_at changes one place of the file it has open, and no file     *)
(* when that one is removed.                                                *)
LEMMA WriteStores ==
  ASSUME Laws, FsInv, FsInv', NEW f \in Handle, NEW v \in Value, NEW ofs \in 0..MaxLen - 1,
         file_write_at(f, v, ofs)
  PROVE  Store!Next \/ OnDisk' = OnDisk
<1>1. PICK s \in Sector : s = file[f].inode /\ open_inodes[s] # NONE
  BY OpenFacts, Zenon DEF file_write_at
<1>2. open_inodes[s].data = disk[s] /\ Fits(s, disk[s]) /\ disk[s] \in DiskInode
  BY <1>1, OpenFacts, Zenon DEF FsInv, InodesFit, Fits
<1> DEFINE x == disk[s].start + ofs
<1>3. /\ ofs < disk[s].length
      /\ disk' = [disk EXCEPT ![x] = v]
      /\ dir' = dir
  BY <1>1, <1>2, Zenon DEF file_write_at
<1>4. disk[s].start \in Nat /\ disk[s].length \in 0..MaxLen /\ ofs \in Nat
  BY <1>2, FileSysAssumption DEF DiskInode, Sector
<1>5. x \in Extent(disk[s].start, disk[s].length) /\ x \in Sector
  BY <1>2, <1>3, <1>4, FileSysAssumption DEF Extent, Fits, Sector
<1>6. disk'[x] = v /\ \A u \in Sector : u # x => disk'[u] = disk[u]
  BY <1>3, <1>5, Zenon DEF FsInv, FsTypes
<1>7. \A j \in InUse : EntrySectors(j) \subseteq Sector
  BY OpApart, InodeSectors, Zenon DEF FsInv, FsTypes
<1>9. CASE s \in Removed
  <2>1. x \in RemovedSectors(s)
    BY <1>2, <1>5, Zenon DEF RemovedSectors, SectorsOf
  <2>2. \A j \in InUse : x \notin EntrySectors(j)
    BY <1>9, <2>1, Zenon DEF FsInv, FilesApart
  <2> QED BY <1>3, StoreSame, <1>6, <1>7, <2>2, Zenon DEF Listed
<1>10. CASE \E i \in InUse : dir[i].sector = s
  <2>1. PICK i \in InUse : dir[i].sector = s
    BY <1>10, Zenon
  <2> DEFINE n == dir[i].name
  <2>3. \A j \in InUse : j # i => x \notin EntrySectors(j)
    BY <1>5, <2>1, Zenon DEF FsInv, FilesApart, EntrySectors, SectorsOf
  <2>4. \A j \in InUse : j # i => Contents(j)' = Contents(j)
    BY <1>3, <1>6, <1>7, <2>3, ContentsSame, Zenon
  <2>5. Contents(i) = [k \in 1..disk[s].length |-> disk[disk[s].start + k - 1]]
    BY <2>1, Zenon DEF Contents
  <2>6. Contents(i)' = [k \in 1..disk[s].length |-> disk'[disk[s].start + k - 1]]
    BY <1>2, <1>5, <1>6, <1>3, <2>1, Zenon DEF Fits, Contents
  <2>7. Contents(i)' = [Contents(i) EXCEPT ![ofs + 1] = v] /\ ofs + 1 \in DOMAIN Contents(i)
    <3>1. ofs + 1 \in 1..disk[s].length
      BY <1>3, <1>4
    <3>3. \A k \in 1..disk[s].length :
            disk'[disk[s].start + k - 1] = IF k = ofs + 1 THEN v ELSE disk[disk[s].start + k - 1]
      BY <1>6, <1>2, <1>4, FileSysAssumption DEF Fits, Sector
    <3> HIDE DEF x
    <3> QED BY <2>5, <2>6, <3>1, <3>3
  <2>8. InUse' = InUse /\ Names' = Names /\ n \in Names
    BY <1>3, Zenon DEF InUse, Names
  <2>9. OnDisk[n] = Contents(i) /\ OnDisk'[n] = [OnDisk[n] EXCEPT ![ofs + 1] = v]
    BY <1>3, <2>7, <2>8, OnDiskNow, OnDiskThen, Zenon DEF FsInv
  <2>12. n \in Name
    BY Zenon DEF FsInv, FsTypes, InUse, Entry
  <2> HIDE DEF n, x
  <2>14. Store!Write(n, ofs + 1, v)
    BY <2>7, <2>8, <2>9, OnDiskNow, OnDiskThen, <1>3, <2>4 DEF Store!Write, FsInv, Names
  <2>15. ofs + 1 \in 1..MaxLen
    BY <1>4, FileSysAssumption
  <2> QED BY <2>12, <2>14, <2>15, Zenon DEF Store!Next
<1> QED BY <1>9, <1>10, <1>1, ExactEverywhere DEF FsInv, Exact, Removed

(* Every step of the file system is one of FileStore or changes no file.    *)
LEMMA NextStore ==
  ASSUME Laws, "scan" \notin Failures
  PROVE  FsInv /\ FsInv' /\ [FsNext]_fsVars => [Store!Next]_OnDisk
<1> SUFFICES ASSUME FsInv, FsInv', [FsNext]_fsVars PROVE Store!Next \/ OnDisk' = OnDisk
  BY Zenon
<1>1. CASE dir_add
  BY <1>1, AddStores, Zenon
<1>2. ASSUME NEW n \in Name, filesys_remove(n) PROVE Store!Next
  BY <1>2, RemoveStores, Zenon
<1>3. ASSUME NEW f \in Handle, NEW v \in Value, NEW ofs \in 0..MaxLen - 1, file_write_at(f, v, ofs)
      PROVE  Store!Next \/ OnDisk' = OnDisk
  BY <1>3, WriteStores, Zenon
<1>4. ASSUME NEW x \in OpSectors, disk' = [disk EXCEPT ![x] = disk'[x]], dir' = dir
      PROVE  OnDisk' = OnDisk
  <2> QED BY <1>4, StoreSame, OpApart DEF FsInv, FsTypes, Files
<1>5. CASE CreateInode
  BY <1>5, OpShapes, <1>4, Zenon DEF CreateInode, OpSectors, SectorsOf, FsInv, FsTypes
<1>6. CASE CreateZero
  <2> DEFINE x == op.data.start + op.next
  <2>1. /\ op.step = "zero" /\ op.next < op.data.length
        /\ disk' = [disk EXCEPT ![x] = Zero] /\ dir' = dir
    BY <1>6, Zenon DEF CreateZero, ZerosLeft
  <2>3. x \in Extent(op.data.start, op.data.length) /\ x \in Sector
    BY <2>1, FileSysAssumption, OpShapes DEF DiskInode, Fits, Extent, Sector, FsInv,
       OpFits
  <2> HIDE DEF x
  <2> QED BY <1>4, <2>1, <2>3, Zenon DEF OpSectors, SectorsOf, FsInv, FsTypes
<1>7. ASSUME dir' = dir, disk' = disk PROVE OnDisk' = OnDisk
  BY <1>7, StoreSame, Zenon
<1>8. CASE \E n \in Name, len \in 0..MaxLen : CreateAllocate(n, len)
  BY <1>7, <1>8, Zenon DEF CreateAllocate
<1>9. CASE CreateData \/ CreateUndo \/ ReleaseInode \/ ReleaseData
  BY <1>7, <1>9, Zenon DEF CreateData, CreateUndo, ReleaseInode, ReleaseData
<1>10. CASE \/ \E n \in Name, h \in Handle : filesys_open(n, h)
            \/ \E f, h \in Handle : file_reopen(f, h)
            \/ \E f \in Handle : file_close(f) \/ file_deny_write(f) \/ file_allow_write(f)
  BY <1>7, <1>10, Zenon DEF filesys_open, file_reopen, file_close, file_deny_write,
     file_allow_write, diskVars
<1>11. CASE Restart \/ UNCHANGED fsVars
  BY <1>7, <1>11, Zenon DEF Restart, fsVars, diskVars
<1> QED BY <1>1, <1>2, <1>3, <1>5, <1>6, <1>8, <1>9, <1>10, <1>11, Zenon DEF FsNext

(* A formatted disk has no files.                                           *)
LEMMA InitStore == FsInit => Store!Init
BY OnDiskNow, Zenon DEF FsInit, InUse, Names, EntriesDistinct, Store!Init

-----------------------------------------------------------------------------
(* The laws of Counting, which the lemmas up to here assume.               *)
INSTANCE CountingProofs

(* The inductive invariant: the state of the file system is in order after  *)
(* every write, failure and restart.                                        *)
THEOREM FsInvariant ==
  ASSUME "scan" \notin Failures
  PROVE  FsSpec => []FsInv
<1>1. FsInv /\ [FsNext]_fsVars => FsInv'
  BY NextInv, Counted, Zenon
<1> QED BY <1>1, InitInv, PTL DEF FsSpec

(* No sector belongs to two files or is lost, except those that a failing   *)
(* dir_add and a stop of the machine leave behind.                          *)
THEOREM SectorsAreAccounted ==
  ASSUME "scan" \notin Failures
  PROVE  FsSpec => []SectorsAccounted
<1>1. FsInv => SectorsAccounted
  BY Accounting, Zenon DEF FsInv
<1> QED BY <1>1, FsInvariant, PTL

(* Whenever the machine stops, the map on the disk marks every sector that  *)
(* the directory leads to.                                                  *)
THEOREM DiskMapIsSafe ==
  ASSUME "scan" \notin Failures
  PROVE  FsSpec => []DiskMapCovers
<1>1. FsInv => DiskMapCovers
  BY Zenon DEF FsInv
<1> QED BY <1>1, FsInvariant, PTL

(* A struct inode counts its openers and those that deny writes, and is     *)
(* removed exactly when no entry leads to it.                               *)
THEOREM InodesAreExact ==
  ASSUME "scan" \notin Failures
  PROVE  FsSpec => []InodesExact
<1>1. FsInv => InodesExact
  BY Zenon DEF FsInv
<1> QED BY <1>1, FsInvariant, PTL

(* The disk implements FileStore: files appear at once and full of zeros,   *)
(* change only when they are written under their own name, and disappear at *)
(* once, through failures, removals of open files and restarts.             *)
THEOREM FilesAreStored ==
  ASSUME "scan" \notin Failures
  PROVE  FsSpec => IsFileStore
<1>1. FsInv => EntriesDistinct
  BY Zenon DEF FsInv
<1>2. FsInv /\ FsInv' /\ [FsNext]_fsVars => [Store!Next]_OnDisk
  BY NextStore, Counted
<1> QED BY <1>1, <1>2, InitStore, FsInvariant, PTL DEF FsSpec, IsFileStore, Store!Spec
==============================================================================
