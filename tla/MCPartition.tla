----------------------------- MODULE MCPartition -----------------------------
(* Disks of six sectors with a primary and an extended partition, and a     *)
(* logical one in the table of the latter.                                  *)
EXTENDS PartitionTable

VARIABLE disk

Primary == {Entry("filesys", 1, 1), Entry("swap", 2, 2), Entry("empty", 0, 0)}

Init ==
  \E p \in Primary, e \in {Entry("extended", 3, 3), Entry("empty", 0, 0)}, n \in 1 .. 2 :
    disk = [size |-> 6, table |-> [s \in 0 .. 5 |->
      CASE s = 0 -> <<p, e>> [] s = 3 -> <<Entry("scratch", 1, n)>> [] OTHER -> NULL]]

Spec == Init /\ [][UNCHANGED disk]_disk

(* The partitions that are registered are those of the tables in the       *)
(* sectors that read_partition_table is asked for.                         *)
ReadsGivenSector == partition_scan(disk) = TablesFrom(disk, 0, 0)
==============================================================================
