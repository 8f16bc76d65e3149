------------------------------ MODULE MCDevices ------------------------------
(* The two devices that work through queues and interrupts, either of them  *)
(* alone: they share neither state nor locks.  The serial port has queues   *)
(* that hold two bytes, with enough bytes and keys to fill them, wrap them  *)
(* and wait.  The disk channel has two threads on two disks of two sectors; *)
(* the first disk has partitions, of which one reaches past its end.        *)
EXTENDS Serial, Disk, PartitionTable, TLC

CONSTANTS t1, t2, v1, v2

VARIABLE device

MCTable ==
  0 :> <<Entry("filesys", 1, 1), Entry("swap", 1, 2), Entry("foreign", 0, 1)>> @@ 1 :> NULL

MCDisk(d) == [size |-> Capacity, table |-> [s \in Sector |-> IF s = 0 THEN MCTable[d] ELSE NULL]]

MCFound == [d \in Disks |-> read_partition_table(MCDisk(d), 0, 0)]

Port_ == device = "serial"
Channel == device = "disk"

MCInit == device \in {"serial", "disk"} /\ SerialInit /\ DiskInit

MCNext ==
  \/ Port_ /\ SerialNext /\ UNCHANGED <<device, diskVars>>
  \/ Channel /\ DiskNext /\ UNCHANGED <<device, serialVars>>

MCSpec ==
  /\ MCInit /\ [][MCNext]_<<device, serialVars, diskVars>>
  /\ WF_serialVars(Port_ /\ PortSends)
  /\ WF_serialVars(Port_ /\ serial_interrupt)
  /\ WF_serialVars(Port_ /\ (ReceiveByte \/ ReceiveDone \/ TransmitByte \/ TransmitDone))
  /\ WF_serialVars(Port_ /\ PollSend)
  /\ WF_serialVars(Port_ /\ (FlushByte \/ FlushDone))
  /\ WF_serialVars(Port_ /\ (WriterReleases \/ PutcAgain))
  /\ WF_serialVars(Port_ /\ (ReaderReleases \/ GetcAgain))
  /\ WF_diskVars(Channel /\ Start)
  /\ WF_diskVars(Channel /\ Controller)
  /\ WF_diskVars(Channel /\ interrupt_handler)
  /\ \A t \in Actor : WF_diskVars(Channel /\ Proceed(t))
==============================================================================
