------------------------------ MODULE Partition ------------------------------
(***************************************************************************)
(* Partitions (devices/partition.c): what found_partition registers.  The  *)
(* tables they come from are in PartitionTable.  Sector numbers count      *)
(* modulo SectorMod.                                                       *)
(***************************************************************************)
EXTENDS Integers

CONSTANTS NULL, SectorMod

SectorNumber == 0 .. SectorMod - 1

(* A partition on its way to found_partition.                               *)
PartitionType == {"kernel", "filesys", "scratch", "swap", "foreign"}
Partition == [type : PartitionType, start : SectorNumber, size : SectorNumber]

FitsDisk_StartOnly(capacity, start, size) == start < capacity

(* Both ends on the device, and the sum does not wrap around.               *)
FitsDisk(capacity, start, size) ==
  /\ start < capacity
  /\ (start + size) % SectorMod >= start
  /\ (start + size) % SectorMod <= capacity

(* The partitions P that are registered on a disk of CAPACITY sectors.      *)
found_partition(capacity, p) ==
  IF FitsDisk(capacity, p.start, p.size) THEN {p} ELSE {}
==============================================================================
