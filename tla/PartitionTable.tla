---------------------------- MODULE PartitionTable ----------------------------
(***************************************************************************)
(* Partition tables (devices/partition.c): the partitions that             *)
(* read_partition_table hands to found_partition.  A disk is its size and  *)
(* a function from sectors to the table each holds, or NULL where the      *)
(* signature is wrong.                                                     *)
(***************************************************************************)
EXTENDS Partition, Sequences

(* An entry of a table: type "empty", "extended", "foreign" or a role.      *)
Entry(type, offset, size) == [type |-> type, offset |-> offset, size |-> size]

RECURSIVE read_partition_table(_, _, _)

(* The partitions of ENTRIES, a table the caller found in SECTOR; nested    *)
(* tables are relative to the extended partition in the master boot record. *)
TableEntries(disk, entries, sector, primary) ==
  UNION {LET e == entries[i]
         IN  CASE e.size = 0 \/ e.type = "empty" -> {}
               [] e.type = "extended" ->
                  IF sector = 0 THEN read_partition_table(disk, e.offset, e.offset)
                  ELSE read_partition_table(disk, (e.offset + primary) % SectorMod, primary)
               [] OTHER ->
                  {[type |-> e.type, start |-> (e.offset + sector) % SectorMod, size |-> e.size]}
         : i \in DOMAIN entries}

(* The table is read from sector 0, whatever SECTOR is.                     *)
read_partition_table(disk, sector, primary) ==
  IF sector >= disk.size \/ disk.table[0] = NULL THEN {}
  ELSE TableEntries(disk, disk.table[0], sector, primary)

partition_scan(disk) ==
  UNION {found_partition(disk.size, p) : p \in read_partition_table(disk, 0, 0)}

-----------------------------------------------------------------------------
RECURSIVE TablesFrom(_, _, _)

(* What the comment of read_partition_table describes: the table in SECTOR. *)
TablesFrom(disk, sector, primary) ==
  IF sector >= disk.size \/ disk.table[sector] = NULL THEN {}
  ELSE UNION {LET e == disk.table[sector][i]
                  base == IF sector = 0 THEN 0 ELSE primary
              IN  CASE e.size = 0 \/ e.type = "empty" -> {}
                    [] e.type = "extended" ->
                       TablesFrom(disk, base + e.offset, IF sector = 0 THEN e.offset ELSE primary)
                    [] OTHER -> found_partition(disk.size,
                         [type |-> e.type, start |-> e.offset + sector, size |-> e.size])
              : i \in DOMAIN disk.table[sector]}
==============================================================================
