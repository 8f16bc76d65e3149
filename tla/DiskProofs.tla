------------------------------ MODULE DiskProofs ------------------------------
(* The disk driver: no completion interrupt is taken for another, a request *)
(* stays on its disk, and ide_read and ide_write implement a block store.   *)
EXTENDS Disk, TLAPS

Step == {"idle", "lock", "select", "issue", "wait", "busy", "transfer", "stored", "release"}

Req == [pc : Step, op : {"none", "read", "write", "identify"}, disk : Disks, sec : Sector,
        val : Value \cup {NULL}]

Ctl == [phase : {"idle", "command", "data", "store"}, op : {"none", "read", "write", "identify"},
        dev : Disks, lba : Sector, buf : Value \cup {NULL}]

Block == [disk : Disks, type : PartitionType \cup {"raw"}, start : Nat, size : Nat]

(* The types of the variables; a registered block device is on its disk.    *)
DiskTypes ==
  /\ lock \in Actor \cup {NULL} /\ expecting_interrupt \in BOOLEAN /\ completion_wait \in Nat
  /\ is_ata \in [Disks -> BOOLEAN] /\ boot \in 0 .. 3
  /\ all_blocks \subseteq Block /\ \A b \in all_blocks : b.start + b.size <= Capacity
  /\ io \in [Actor -> Req]
  /\ ctl \in Ctl
  /\ irq \in BOOLEAN /\ panic \in BOOLEAN
  /\ media \in [Disks -> [Sector -> Value]]

(* Who is past the lock, or identifies a disk without it.                   *)
Active(t) == io[t].pc \notin {"idle", "lock"}

(* One actor at a time uses the channel: the holder of the lock, or the     *)
(* start-up thread while no other thread may call the driver.               *)
OneUser ==
  /\ \A t \in Actor : Active(t) =>
       IF io[t].op = "identify" THEN t = START /\ lock = NULL ELSE lock = t
  /\ lock # NULL => Active(lock) /\ io[lock].op # "identify"
  /\ boot < 3 \/ io[START].pc # "idle" => \A t \in Thread : io[t].pc = "idle"
  /\ boot = 0 => io[START].pc = "idle" /\ ~panic /\ ~expecting_interrupt

(* Which operations get how far.                                            *)
OpsFit ==
  \A t \in Actor :
    /\ io[t].pc \in {"lock", "release"} => io[t].op \in {"read", "write"}
    /\ io[t].pc \in {"select", "issue", "busy", "transfer"} => io[t].op # "none"
    /\ io[t].pc = "wait" => io[t].op \in {"read", "identify"}
    /\ io[t].pc = "stored" => io[t].op = "write"
    /\ io[t].pc = "idle" => io[t] = NoRequest
    /\ io[t].op = "write" => t \in Thread /\ io[t].val \in Value
    /\ t \in Thread /\ io[t].op = "read" /\ io[t].pc # "release" => io[t].val = NULL

Quiet == ~irq /\ completion_wait = 0

(* The command has been answered, and the answer has not been taken.        *)
Answered == expecting_interrupt /\ completion_wait = IF irq THEN 0 ELSE 1

Rest == ctl.phase = "idle" /\ completion_wait = 0 /\ (irq => ~expecting_interrupt)

(* The channel is at rest when nobody uses it.                              *)
AtRest == (\A t \in Actor : ~Active(t)) => Rest

(* What the driver may rely on at each of its steps.                        *)
Channel(t) ==
  LET r == io[t]
  IN  /\ r.pc = "select" => Rest
      /\ r.pc = "issue" => ctl.phase = "idle" /\ Quiet
      /\ Active(t) /\ r.pc \notin {"select", "issue"} => expecting_interrupt /\ ctl.op = r.op
      /\ Active(t) /\ r.pc # "select" => ctl.dev = r.disk /\ ctl.lba = r.sec
      /\ r.pc = "wait" => \/ ctl.phase = "command" /\ Quiet
                          \/ ctl.phase \in {"data", "idle"} /\ Answered
      /\ r.pc = "busy" /\ r.op # "write" => ctl.phase \in {"data", "idle"} /\ Quiet
      /\ r.pc = "busy" /\ r.op = "write" =>
           \/ ctl.phase \in {"command", "data"} /\ Quiet
           \/ ctl.phase = "idle" /\ Answered
      /\ r.pc = "transfer" => ctl.phase = "data" /\ Quiet
      /\ r.pc = "stored" => \/ ctl.phase = "store" /\ Quiet /\ ctl.buf = r.val
                            \/ ctl.phase = "idle" /\ Answered
      /\ r.pc = "release" => ctl.phase = "idle" /\ Quiet
      /\ Active(t) /\ r.op = "read" /\ ctl.phase = "data" => ctl.buf = media[r.disk][r.sec]

DiskInv == DiskTypes /\ OneUser /\ OpsFit /\ AtRest /\ \A t \in Actor : Channel(t)

-----------------------------------------------------------------------------
(* The check of found_partition is exact: a partition that passes it ends   *)
(* on the disk, although the sum it computes may wrap around.               *)
LEMMA FitsExact ==
  ASSUME NEW start \in SectorNumber, NEW size \in SectorNumber,
         FitsDisk(Capacity, start, size)
  PROVE  start + size <= Capacity
<1>1. CASE start + size < SectorMod
  <2>1. (start + size) % SectorMod = start + size
    BY <1>1, FoundAssumption DEF SectorNumber
  <2> QED BY <2>1, Zenon DEF FitsDisk
<1>2. CASE start + size >= SectorMod
  <2>1. (start + size) % SectorMod = start + size - SectorMod
    BY <1>2, FoundAssumption DEF SectorNumber
  <2> QED BY <2>1, FoundAssumption DEF FitsDisk, SectorNumber
<1> QED BY <1>1, <1>2, FoundAssumption DEF SectorNumber

(* A whole disk, and every partition on it, is a block device that fits.    *)
LEMMA BlocksFit ==
  ASSUME NEW d \in Disks
  PROVE  /\ AsBlock(d) \in Block /\ AsBlock(d).start + AsBlock(d).size <= Capacity
         /\ PartitionBlocks(d) \subseteq Block
         /\ \A b \in PartitionBlocks(d) : b.start + b.size <= Capacity
<1>1. AsBlock(d) \in Block /\ AsBlock(d).start + AsBlock(d).size <= Capacity
  BY DiskAssumption DEF AsBlock, Block
<1>2. ASSUME NEW b \in PartitionBlocks(d)
      PROVE  b \in Block /\ b.start + b.size <= Capacity
  <2>1. PICK p \in Found[d] : /\ FitsDisk(Capacity, p.start, p.size)
                              /\ b = [disk |-> d, type |-> p.type, start |-> p.start, size |-> p.size]
    BY <1>2, Zenon DEF PartitionBlocks, found_partition
  <2>2. p \in Partition
    BY FoundAssumption, Zenon
  <2>3. p.start + p.size <= Capacity
    BY <2>1, <2>2, FitsExact, Zenon DEF Partition
  <2> QED BY <2>1, <2>2, <2>3, FoundAssumption DEF Partition, Block, SectorNumber
<1> QED BY <1>1, <1>2, Zenon

(* At most one actor uses the channel.                                      *)
LEMMA OneActive ==
  ASSUME DiskInv, NEW t \in Actor, NEW u \in Actor, Active(t), Active(u)
  PROVE  t = u
BY DiskAssumption DEF DiskInv, OneUser, Active, Actor

(* The record of T alone changes, and keeps its type.                       *)
LEMMA SetIo ==
  ASSUME io \in [Actor -> Req], NEW t \in Actor, NEW r \in Req, io' = [io EXCEPT ![t] = r]
  PROVE  io' \in [Actor -> Req]
BY Zenon

(* A thread that goes on keeps a well-formed request.                       *)
LEMMA GotoType ==
  ASSUME io \in [Actor -> Req], NEW t \in Actor, NEW pc \in Step, Goto(t, pc)
  PROVE  io' \in [Actor -> Req]
<1>1. [io[t] EXCEPT !.pc = pc] \in Req
  BY Zenon DEF Req
<1>2. io' = [io EXCEPT ![t] = [io[t] EXCEPT !.pc = pc]]
  BY Zenon DEF Goto
<1> QED BY <1>1, <1>2, SetIo, Zenon

(* A thread outside the driver has a well-formed request too.               *)
LEMMA NoRequestType == NoRequest \in Req
BY DiskAssumption DEF NoRequest, Req, Step, Disks, Sector

(* Before ide_init runs everything is at rest.                              *)
LEMMA InitInv == DiskInit => DiskInv
<1> USE DiskAssumption
<1> SUFFICES ASSUME DiskInit PROVE DiskInv
  BY Zenon
<1>1. NoRequest \in Req /\ \A t \in Actor : io[t] = NoRequest
  BY NoRequestType, Zenon DEF DiskInit
<1>2. DiskTypes
  <2>1. ctl \in Ctl
    BY DEF DiskInit, Ctl, Disks, Sector
  <2>2. io \in [Actor -> Req]
    BY <1>1, Zenon DEF DiskInit
  <2>3. media \in [Disks -> [Sector -> Value]] /\ is_ata \in [Disks -> BOOLEAN]
    BY Zenon DEF DiskInit
  <2>4. all_blocks \subseteq Block /\ \A b \in all_blocks : b.start + b.size <= Capacity
    BY Zenon DEF DiskInit
  <2>5. /\ expecting_interrupt \in BOOLEAN /\ irq \in BOOLEAN /\ panic \in BOOLEAN
        /\ lock \in Actor \cup {NULL}
    BY Zenon DEF DiskInit
  <2>6. completion_wait \in Nat /\ boot \in 0 .. 3
    BY DEF DiskInit
  <2> QED BY <2>1, <2>2, <2>3, <2>4, <2>5, <2>6, Zenon DEF DiskTypes
<1>3. OneUser /\ OpsFit /\ AtRest
  BY <1>1, Zenon DEF DiskInit, OneUser, OpsFit, AtRest, Rest, Active, Actor, NoRequest
<1>4. \A t \in Actor : Channel(t)
  BY <1>1 DEF Channel, Active, NoRequest
<1> QED BY <1>2, <1>3, <1>4, Zenon DEF DiskInv

-----------------------------------------------------------------------------
(* The controller and the handler.                                         *)

(* The device has the data ready, or is ready for them.                     *)
LEMMA DeviceReadyInv ==
  ASSUME DiskInv, DeviceReady
  PROVE  DiskInv'
<1> USE DiskAssumption DEF DiskInv
<1>1. DiskTypes'
  <2>1. media[ctl.dev][ctl.lba] \in Value
    BY DEF DiskTypes, Ctl
  <2>2. [ctl EXCEPT !.phase = "data", !.buf = NULL] \in Ctl
    BY Zenon DEF DiskTypes, Ctl
  <2>3. [ctl EXCEPT !.phase = "data", !.buf = media[ctl.dev][ctl.lba]] \in Ctl
    BY <2>1, Zenon DEF DiskTypes, Ctl
  <2>4. ctl' \in Ctl
    BY <2>2, <2>3, Zenon DEF DeviceReady
  <2> QED
    BY <2>1, <2>2, <2>3, <2>4, DiskAssumption, Zenon DEF DiskTypes, DeviceReady,
       chanVars, devVars
<1>2. OneUser'
  BY Zenon DEF OneUser, OpsFit, DiskTypes, Req, Active, DeviceReady, Answers, chanVars,
     devVars, NoRequest, Actor
<1>3. OpsFit'
  BY SMTT(40) DEF OpsFit, DiskTypes, Req, DeviceReady, Answers, chanVars, devVars, NoRequest,
     Actor
<1>4. AtRest' /\ \A u \in Actor : Channel(u)'
  BY OneActive DEF AtRest, Rest, Channel, Answered, Quiet, OneUser, OpsFit, DiskTypes, Req, Ctl,
     Active,
     DeviceReady, Answers, chanVars, devVars, NoRequest, Actor
<1> QED BY <1>1, <1>2, <1>3, <1>4, Zenon

(* The device stores the data of a write.                                   *)
LEMMA DeviceStoresInv ==
  ASSUME DiskInv, DeviceStores
  PROVE  DiskInv'
<1> USE DiskAssumption DEF DiskInv
<1>1. DiskTypes'
  <2>1. ctl' \in Ctl
    BY Zenon DEF DiskTypes, Ctl, Req, DeviceStores
  <2>2. PICK t \in Actor : Active(t)
    BY Zenon DEF DeviceStores, Answers, AtRest, Rest
  <2>3. ctl.buf = io[t].val /\ io[t].pc = "stored"
    BY <2>2, Zenon DEF DeviceStores, Answers, Channel, Rest, Active, DiskTypes, Req,
       Step
  <2>4. ctl.buf \in Value
    BY <2>3, Zenon DEF OpsFit
  <2>5. media' \in [Disks -> [Sector -> Value]]
    BY <2>4, Zenon DEF DiskTypes, Ctl, DeviceStores
  <2> QED
    BY <2>1, <2>2, <2>3, <2>4, <2>5, DiskAssumption, Zenon DEF DiskTypes, DeviceStores,
       chanVars, devVars
<1>2. OneUser'
  BY Zenon DEF OneUser, OpsFit, DiskTypes, Req, Active, DeviceStores, Answers, chanVars,
     devVars, NoRequest, Actor
<1>3. OpsFit'
  BY SMTT(40) DEF OpsFit, DiskTypes, Req, DeviceStores, Answers, chanVars, devVars, NoRequest,
     Actor
<1>4. AtRest' /\ \A u \in Actor : Channel(u)'
  BY OneActive DEF AtRest, Rest, Channel, Answered, Quiet, OneUser, OpsFit, DiskTypes, Req, Ctl,
     Active,
     DeviceStores, Answers, chanVars, devVars, NoRequest, Actor
<1> QED BY <1>1, <1>2, <1>3, <1>4, Zenon

(* The device fails the command, and says so with an interrupt.             *)
LEMMA DeviceFailsInv ==
  ASSUME DiskInv, DeviceFails
  PROVE  DiskInv'
<1> USE DiskAssumption DEF DiskInv
<1>1. DiskTypes'
  <2>1. ctl' \in Ctl
    BY Zenon DEF DiskTypes, Ctl, Req, DeviceFails
  <2> QED BY <2>1, DiskAssumption, Zenon DEF DiskTypes, DeviceFails, chanVars, devVars
<1>2. OneUser'
  BY Zenon DEF OneUser, OpsFit, DiskTypes, Req, Active, DeviceFails, Answers, chanVars,
     devVars, NoRequest, Actor
<1>3. OpsFit'
  BY SMTT(40) DEF OpsFit, DiskTypes, Req, DeviceFails, Answers, chanVars, devVars, NoRequest,
     Actor
<1>4. AtRest' /\ \A u \in Actor : Channel(u)'
  BY OneActive DEF AtRest, Rest, Channel, Answered, Quiet, OneUser, OpsFit, DiskTypes, Req, Ctl,
     Active,
     DeviceFails, Answers, chanVars, devVars, NoRequest, Actor
<1> QED BY <1>1, <1>2, <1>3, <1>4, Zenon

(* interrupt_handler acknowledges and ups the semaphore.                    *)
LEMMA HandlerInv ==
  ASSUME DiskInv, interrupt_handler
  PROVE  DiskInv'
<1> USE DiskAssumption DEF DiskInv
<1>1. DiskTypes'
  <2>1. completion_wait' \in Nat
    BY DEF DiskTypes, interrupt_handler
  <2> QED BY <2>1, DiskAssumption, Zenon DEF DiskTypes, interrupt_handler, chanVars, devVars
<1>2. OneUser'
  BY Zenon DEF OneUser, OpsFit, DiskTypes, Req, Active, interrupt_handler, chanVars,
     devVars, NoRequest, Actor
<1>3. OpsFit'
  BY SMTT(40) DEF OpsFit, DiskTypes, Req, interrupt_handler, chanVars, devVars, NoRequest, Actor
<1>4. AtRest' /\ \A u \in Actor : Channel(u)'
  BY OneActive DEF AtRest, Rest, Channel, Answered, Quiet, OneUser, OpsFit, DiskTypes, Req, Ctl,
     Active,
     interrupt_handler, chanVars, devVars, NoRequest, Actor
<1> QED BY <1>1, <1>2, <1>3, <1>4, Zenon

-----------------------------------------------------------------------------
(* The steps of ide_read and ide_write.                                    *)

(* lock_acquire of the channel.                                             *)
LEMMA AcquireInv ==
  ASSUME DiskInv, NEW t \in Actor, Acquire(t)
  PROVE  DiskInv'
<1> USE DiskAssumption DEF DiskInv
<1>1. DiskTypes'
  <2>1. io' \in [Actor -> Req]
    BY GotoType, Zenon DEF DiskTypes, Step, Acquire
  <2> QED BY <2>1, DiskAssumption, Zenon DEF DiskTypes, Acquire, chanVars, devVars
<1>2. OneUser'
  BY DEF OneUser, OpsFit, DiskTypes, Req, Active, Acquire, Goto, Runs, LockFree, chanVars,
     devVars, NoRequest, Actor
<1>3. OpsFit'
  BY SMTT(40) DEF OpsFit, DiskTypes, Req, Acquire, Goto, Runs, LockFree, chanVars, devVars,
     NoRequest, Actor
<1>4. AtRest' /\ \A u \in Actor : Channel(u)'
  BY OneActive DEF AtRest, Rest, Channel, Answered, Quiet, OneUser, OpsFit, DiskTypes, Req, Ctl,
     Active,
     Acquire, Goto, Runs, LockFree, chanVars, devVars, NoRequest, Actor
<1> QED BY <1>1, <1>2, <1>3, <1>4, Zenon

(* select_sector.                                                           *)
LEMMA SelectInv ==
  ASSUME DiskInv, NEW t \in Actor, select_sector(t)
  PROVE  DiskInv'
<1> USE DiskAssumption DEF DiskInv
<1>1. DiskTypes'
  <2>1. io' \in [Actor -> Req]
    BY GotoType, Zenon DEF DiskTypes, Step, select_sector
  <2>2. ctl' \in Ctl
    BY Zenon DEF DiskTypes, Ctl, Req, select_sector, select_device
  <2> QED BY <2>1, <2>2, DiskAssumption, Zenon
          DEF DiskTypes, select_sector, wait_until_idle, ClearsIrq, chanVars, devVars
<1>2. OneUser'
  BY DEF OneUser, OpsFit, DiskTypes, Req, Active, select_sector, select_device, wait_until_idle,
     ClearsIrq, Goto, Runs, Busy, Drq, chanVars, devVars, NoRequest, Actor
<1>3. OpsFit'
  BY SMTT(40) DEF OpsFit, DiskTypes, Req, select_sector, select_device, wait_until_idle,
     ClearsIrq, Goto, Runs, Busy, Drq, chanVars, devVars, NoRequest, Actor
<1>4. AtRest' /\ \A u \in Actor : Channel(u)'
  BY OneActive DEF AtRest, Rest, Channel, Answered, Quiet, OneUser, OpsFit, DiskTypes, Req, Ctl,
     Active,
     select_sector, select_device, wait_until_idle, ClearsIrq, Goto, Runs, Busy, Drq, chanVars,
     devVars, NoRequest, Actor
<1> QED BY <1>1, <1>2, <1>3, <1>4, Zenon

(* issue_pio_command.                                                       *)
LEMMA IssueInv ==
  ASSUME DiskInv, NEW t \in Actor, issue_pio_command(t)
  PROVE  DiskInv'
<1> USE DiskAssumption DEF DiskInv
<1>1. DiskTypes'
  <2>1. io' \in [Actor -> Req]
    BY GotoType, Zenon DEF DiskTypes, Step, issue_pio_command
  <2>2. ctl' \in Ctl
    BY Zenon DEF DiskTypes, Ctl, Req, issue_pio_command
  <2> QED
    BY <2>1, <2>2, DiskAssumption, Zenon DEF DiskTypes, issue_pio_command, ExpectOne,
       chanVars, devVars
<1>2. OneUser'
  BY DEF OneUser, OpsFit, DiskTypes, Req, Active, issue_pio_command, ExpectOne, Goto, Runs,
     chanVars, devVars, NoRequest, Actor
<1>3. OpsFit'
  BY SMTT(40) DEF OpsFit, DiskTypes, Req, issue_pio_command, ExpectOne, Goto, Runs, chanVars,
     devVars, NoRequest, Actor
<1>4. AtRest' /\ \A u \in Actor : Channel(u)'
  BY OneActive DEF AtRest, Rest, Channel, Answered, Quiet, OneUser, OpsFit, DiskTypes, Req, Ctl,
     Active,
     issue_pio_command, ExpectOne, Goto, Runs, chanVars, devVars, NoRequest, Actor
<1> QED BY <1>1, <1>2, <1>3, <1>4, Zenon

(* sema_down on completion_wait, before the transfer.                       *)
LEMMA AwaitDataInv ==
  ASSUME DiskInv, NEW t \in Actor, AwaitData(t)
  PROVE  DiskInv'
<1> USE DiskAssumption DEF DiskInv
<1>1. DiskTypes'
  <2>1. io' \in [Actor -> Req]
    BY GotoType, Zenon DEF DiskTypes, Step, AwaitData, sema_down
  <2> QED BY <2>1, DiskAssumption DEF DiskTypes, AwaitData, sema_down, chanVars, devVars
<1>2. OneUser'
  BY DEF OneUser, OpsFit, DiskTypes, Req, Active, AwaitData, sema_down, Goto, Runs, chanVars,
     devVars, NoRequest, Actor
<1>3. OpsFit'
  BY SMTT(40) DEF OpsFit, DiskTypes, Req, AwaitData, sema_down, Goto, Runs, chanVars, devVars,
     NoRequest, Actor
<1>4. AtRest' /\ \A u \in Actor : Channel(u)'
  BY OneActive DEF AtRest, Rest, Channel, Answered, Quiet, OneUser, OpsFit, DiskTypes, Req, Ctl,
     Active,
     AwaitData, sema_down, Goto, Runs, chanVars, devVars, NoRequest, Actor
<1> QED BY <1>1, <1>2, <1>3, <1>4, Zenon

(* wait_while_busy.                                                         *)
LEMMA BusyInv ==
  ASSUME DiskInv, NEW t \in Actor, wait_while_busy(t)
  PROVE  DiskInv'
<1> USE DiskAssumption DEF DiskInv
<1>1. DiskTypes'
  <2>1. io' \in [Actor -> Req]
    BY GotoType, SetIo, NoRequestType, Zenon DEF DiskTypes, Step, wait_while_busy,
       devVars
  <2>2. is_ata' \in [Disks -> BOOLEAN]
    BY Zenon DEF DiskTypes, wait_while_busy, devVars
  <2> QED BY <2>1, <2>2, DiskAssumption, Zenon DEF DiskTypes, wait_while_busy, chanVars, devVars
<1>2. OneUser'
  BY DEF OneUser, OpsFit, DiskTypes, Req, Active, wait_while_busy, Drq, Goto, Runs, chanVars,
     devVars, NoRequest, Actor
<1>3. OpsFit'
  BY SMTT(40) DEF OpsFit, DiskTypes, Req, wait_while_busy, Drq, Goto, Runs, chanVars, devVars,
     NoRequest, Actor
<1>4. AtRest' /\ \A u \in Actor : Channel(u)'
  BY OneActive DEF AtRest, Rest, Channel, Answered, Quiet, OneUser, OpsFit, DiskTypes, Req, Ctl,
     Active,
     wait_while_busy, Drq, Goto, Runs, chanVars, devVars, NoRequest, Actor
<1> QED BY <1>1, <1>2, <1>3, <1>4, Zenon

(* input_sector.                                                            *)
LEMMA InputInv ==
  ASSUME DiskInv, NEW t \in Actor, input_sector(t)
  PROVE  DiskInv'
<1> USE DiskAssumption DEF DiskInv
<1>1. DiskTypes'
  <2>1. ctl.buf \in Value \cup {NULL} /\ io[t] \in Req
    BY Zenon DEF DiskTypes, Ctl
  <2>2. [io[t] EXCEPT !.pc = "release", !.val = ctl.buf] \in Req
    BY <2>1, Zenon DEF Req, Step
  <2>3. io' \in [Actor -> Req]
    BY <2>2, SetIo, Zenon DEF DiskTypes, input_sector
  <2>4. ctl' \in Ctl
    BY ZenonT(30) DEF DiskTypes, Ctl, Req, input_sector
  <2> QED
    BY <2>1, <2>2, <2>3, <2>4, DiskAssumption, Zenon DEF DiskTypes, input_sector,
       chanVars, devVars
<1>2. OneUser'
  BY DEF OneUser, OpsFit, DiskTypes, Req, Active, input_sector, Goto, Runs, chanVars, devVars,
     NoRequest, Actor
<1>3. OpsFit'
  BY SMTT(40) DEF OpsFit, DiskTypes, Req, input_sector, Goto, Runs, chanVars, devVars,
     NoRequest, Actor
<1>4. AtRest' /\ \A u \in Actor : Channel(u)'
  BY OneActive DEF AtRest, Rest, Channel, Answered, Quiet, OneUser, OpsFit, DiskTypes, Req, Ctl,
     Active,
     input_sector, Goto, Runs, chanVars, devVars, NoRequest, Actor
<1> QED BY <1>1, <1>2, <1>3, <1>4, Zenon

(* output_sector.                                                           *)
LEMMA OutputInv ==
  ASSUME DiskInv, NEW t \in Actor, output_sector(t)
  PROVE  DiskInv'
<1> USE DiskAssumption DEF DiskInv
<1>1. DiskTypes'
  <2>1. io' \in [Actor -> Req]
    BY GotoType, Zenon DEF DiskTypes, Step, output_sector
  <2>2. ctl' \in Ctl
    BY ZenonT(30) DEF DiskTypes, Ctl, Req, output_sector
  <2> QED
    BY <2>1, <2>2, DiskAssumption, Zenon DEF DiskTypes, output_sector, chanVars, devVars
<1>2. OneUser'
  BY DEF OneUser, OpsFit, DiskTypes, Req, Active, output_sector, Goto, Runs, chanVars, devVars,
     NoRequest, Actor
<1>3. OpsFit'
  BY SMTT(40) DEF OpsFit, DiskTypes, Req, output_sector, Goto, Runs, chanVars, devVars,
     NoRequest, Actor
<1>4. AtRest' /\ \A u \in Actor : Channel(u)'
  BY OneActive DEF AtRest, Rest, Channel, Answered, Quiet, OneUser, OpsFit, DiskTypes, Req, Ctl,
     Active,
     output_sector, Goto, Runs, chanVars, devVars, NoRequest, Actor
<1> QED BY <1>1, <1>2, <1>3, <1>4, Zenon

(* sema_down on completion_wait, after a write.                             *)
LEMMA AwaitStoredInv ==
  ASSUME DiskInv, NEW t \in Actor, AwaitStored(t)
  PROVE  DiskInv'
<1> USE DiskAssumption DEF DiskInv
<1>1. DiskTypes'
  <2>1. io' \in [Actor -> Req]
    BY GotoType, Zenon DEF DiskTypes, Step, AwaitStored, sema_down
  <2> QED BY <2>1, DiskAssumption DEF DiskTypes, AwaitStored, sema_down, chanVars, devVars
<1>2. OneUser'
  BY DEF OneUser, OpsFit, DiskTypes, Req, Active, AwaitStored, sema_down, Goto, Runs, chanVars,
     devVars, NoRequest, Actor
<1>3. OpsFit'
  BY SMTT(40) DEF OpsFit, DiskTypes, Req, AwaitStored, sema_down, Goto, Runs, chanVars, devVars,
     NoRequest, Actor
<1>4. AtRest' /\ \A u \in Actor : Channel(u)'
  BY OneActive DEF AtRest, Rest, Channel, Answered, Quiet, OneUser, OpsFit, DiskTypes, Req, Ctl,
     Active,
     AwaitStored, sema_down, Goto, Runs, chanVars, devVars, NoRequest, Actor
<1> QED BY <1>1, <1>2, <1>3, <1>4, Zenon

(* lock_release of the channel.                                             *)
LEMMA ReleaseInv ==
  ASSUME DiskInv, NEW t \in Thread, Release(t)
  PROVE  DiskInv'
<1> USE DiskAssumption DEF DiskInv
<1>1. /\ t \in Actor /\ io[t].pc = "release" /\ lock' = NULL
      /\ UNCHANGED <<expecting_interrupt, completion_wait, devVars, ctl, irq, media, panic>>
      /\ \A u \in Actor : io'[u] = IF u = t THEN NoRequest ELSE io[u]
  BY Zenon DEF Release, Runs, Actor, DiskTypes
<1>2. \A u \in Actor : ~Active(u)'
  BY <1>1, OneActive DEF Active, NoRequest
<1>3. DiskTypes'
  <2>1. io' \in [Actor -> Req]
    BY <1>1, SetIo, NoRequestType, SMTT(40) DEF DiskTypes, Release
  <2> QED BY <1>1, <2>1, Zenon DEF DiskTypes, devVars
<1>4. OneUser'
  BY <1>1, <1>2, SMTT(40) DEF OneUser, Active, NoRequest, devVars, Actor
<1>5. OpsFit'
  BY <1>1, SMTT(40) DEF OpsFit, NoRequest
<1>6. AtRest' /\ \A u \in Actor : Channel(u)'
  <2>1. ctl.phase = "idle" /\ Quiet
    BY <1>1, Zenon DEF Channel
  <2> QED BY <1>1, <1>2, <2>1, SMTT(40) DEF AtRest, Rest, Quiet, Channel, Active
<1> QED BY <1>3, <1>4, <1>5, <1>6, Zenon

-----------------------------------------------------------------------------
(* Start-up, and the calls of the other threads.                           *)

(* reset_channel and check_device_type.                                     *)
LEMMA DetectInv ==
  ASSUME DiskInv, Detect
  PROVE  DiskInv'
<1> USE DiskAssumption DEF DiskInv
<1>a. \A u \in Actor : io[u].pc = "idle"
  <2>1. boot = 0
    BY Zenon DEF Detect
  <2> QED BY <2>1 DEF OneUser, Actor
<1>1. DiskTypes'
  <2>1. is_ata' \in [Disks -> BOOLEAN]
    BY ZenonT(30) DEF Detect, IsAta, MaybeSlave, Registers
  <2> QED BY <2>1, DiskAssumption DEF DiskTypes, Detect, chanVars, devVars
<1>2. OneUser'
  BY DEF OneUser, OpsFit, DiskTypes, Req, Active, Detect, IsAta, MaybeSlave, Registers,
     chanVars, devVars, NoRequest, Actor
<1>3. OpsFit'
  BY SMTT(40) DEF OpsFit, DiskTypes, Req, Detect, IsAta, MaybeSlave, Registers, chanVars,
     devVars, NoRequest, Actor
<1>4. AtRest' /\ \A u \in Actor : Channel(u)'
  BY <1>a DEF AtRest, Rest, Channel, Active, OneUser, Detect, chanVars
<1> QED BY <1>1, <1>2, <1>3, <1>4, Zenon

(* identify_ata_device issues its command.                                  *)
LEMMA IdentifyInv ==
  ASSUME DiskInv, Identify
  PROVE  DiskInv'
<1> USE DiskAssumption DEF DiskInv
<1>1. DiskTypes'
  <2>1. boot - 1 \in Disks
    BY DEF Identify, Disks
  <2>2. [NoRequest EXCEPT !.pc = "select", !.op = "identify", !.disk = boot - 1] \in Req
    BY <2>1, NoRequestType, Zenon DEF Req, Step
  <2>3. io' \in [Actor -> Req]
    BY <2>2, SetIo, Zenon DEF DiskTypes, Identify, Actor
  <2> QED BY <2>1, <2>2, <2>3, DiskAssumption DEF DiskTypes, Identify, chanVars, devVars
<1>2. OneUser'
  BY DEF OneUser, OpsFit, DiskTypes, Req, Active, Identify, Runs, chanVars, devVars, NoRequest,
     Actor
<1>3. OpsFit'
  BY SMTT(40) DEF OpsFit, DiskTypes, Req, Identify, Runs, chanVars, devVars, NoRequest, Actor
<1>4. AtRest' /\ \A u \in Actor : Channel(u)'
  BY OneActive DEF AtRest, Rest, Channel, Answered, Quiet, OneUser, OpsFit, DiskTypes, Req, Ctl,
     Active,
     Identify, Runs, chanVars, devVars, NoRequest, Actor
<1> QED BY <1>1, <1>2, <1>3, <1>4, Zenon

(* identify_ata_device reads the answer.                                    *)
LEMMA IdentifiedInv ==
  ASSUME DiskInv, Identified
  PROVE  DiskInv'
<1> USE DiskAssumption DEF DiskInv
<1>1. DiskTypes'
  <2>1. io[START].disk \in Disks
    BY Zenon DEF DiskTypes, Req, Actor
  <2>2. io' \in [Actor -> Req]
    BY <2>1, SetIo, NoRequestType DEF DiskTypes, Identified, Req, Step, Sector, Actor
  <2>3. ctl' \in Ctl
    BY Zenon DEF DiskTypes, Ctl, Req, Identified
  <2>4. all_blocks' \subseteq Block /\ \A b \in all_blocks' : b.start + b.size <= Capacity
    BY <2>1, BlocksFit, Zenon DEF DiskTypes, Identified
  <2>5. is_ata' \in [Disks -> BOOLEAN]
    BY Zenon DEF DiskTypes, Identified
  <2> QED
    BY <2>1, <2>2, <2>3, <2>4, <2>5, DiskAssumption, Zenon DEF DiskTypes, Identified,
       chanVars, devVars
<1>2. OneUser'
  BY DEF OneUser, OpsFit, DiskTypes, Req, Active, Identified, Runs, chanVars, devVars,
     NoRequest, Actor
<1>3. OpsFit'
  BY SMTT(40) DEF OpsFit, DiskTypes, Req, Identified, Runs, chanVars, devVars, NoRequest, Actor
<1>4. AtRest' /\ \A u \in Actor : Channel(u)'
  BY OneActive DEF AtRest, Rest, Channel, Answered, Quiet, OneUser, OpsFit, DiskTypes, Req, Ctl,
     Active,
     Identified, Runs, chanVars, devVars, NoRequest, Actor
<1> QED BY <1>1, <1>2, <1>3, <1>4, Zenon

(* partition_scan registers what it found.                                  *)
LEMMA ScannedInv ==
  ASSUME DiskInv, Scanned
  PROVE  DiskInv'
<1> USE DiskAssumption DEF DiskInv
<1>a. \A u \in Actor : u # START => ~Active(u)
  BY OneActive, SMTT(40) DEF Scanned, Runs, Active, Actor
<1>b. ctl.phase = "idle" /\ Quiet
  BY Zenon DEF Scanned, Runs, Channel, Actor
<1>1. DiskTypes'
  <2>1. io[START].disk \in Disks
    BY Zenon DEF DiskTypes, Req, Actor
  <2>2. io' \in [Actor -> Req]
    BY SetIo, NoRequestType, Zenon DEF DiskTypes, Scanned, Actor
  <2>3. all_blocks' \subseteq Block /\ \A b \in all_blocks' : b.start + b.size <= Capacity
    BY <2>1, BlocksFit, SMTT(40) DEF DiskTypes, Scanned
  <2> QED
    BY <2>1, <2>2, <2>3, DiskAssumption, Zenon DEF DiskTypes, Scanned, chanVars, devVars
<1>2. OneUser'
  BY SMTT(40) DEF OneUser, OpsFit, DiskTypes, Req, Active, Scanned, Runs, chanVars, devVars,
     NoRequest, Actor
<1>3. OpsFit'
  BY SMTT(40) DEF OpsFit, DiskTypes, Req, Scanned, Runs, chanVars, devVars, NoRequest, Actor
<1>4. AtRest' /\ \A u \in Actor : Channel(u)'
  <2>1. \A u \in Actor : ~Active(u)'
    BY <1>a, Zenon DEF Scanned, Active, NoRequest, DiskTypes
  <2> QED BY <1>b, <2>1, Zenon DEF AtRest, Rest, Quiet, Channel, Scanned, Active
<1> QED BY <1>1, <1>2, <1>3, <1>4, Zenon

(* block_read and block_write.                                              *)
LEMMA RequestInv ==
  ASSUME DiskInv, NEW t \in Thread, NEW b \in all_blocks, NEW s \in Sector, NEW v \in Value,
         Request(t, "read", b, s, NULL) \/ Request(t, "write", b, s, v)
  PROVE  DiskInv'
<1> USE DiskAssumption DEF DiskInv
<1>1. b \in Block /\ b.start + s \in Sector
  BY DEF DiskTypes, Request, InBlock, Sector, Block
<1>2. PICK r \in Req :
        /\ io' = [io EXCEPT ![t] = r] /\ r.pc = "lock" /\ r.sec = b.start + s
        /\ \/ r.op = "read" /\ r.val = NULL
           \/ r.op = "write" /\ r.val \in Value
  <2> DEFINE r(op, x) == [pc |-> "lock", op |-> op, disk |-> b.disk, sec |-> b.start + s, val |-> x]
  <2>1. r("read", NULL) \in Req /\ r("write", v) \in Req
    BY <1>1, SMTT(40) DEF Req, Step, Block
  <2>2. CASE Request(t, "read", b, s, NULL)
    BY <2>1, <2>2, Zenon DEF Request
  <2>3. CASE Request(t, "write", b, s, v)
    BY <2>1, <2>3, Zenon DEF Request
  <2> QED BY <2>2, <2>3, Zenon
<1>3. /\ io[t].pc = "idle" /\ boot = 3 /\ io[START].pc = "idle"
      /\ UNCHANGED <<chanVars, devVars, ctl, irq, media>> /\ panic' \in BOOLEAN
  BY ZenonT(30) DEF Request, Runs
<1>4. DiskTypes'
  <2>1. io' \in [Actor -> Req]
    BY <1>2, SetIo, SMTT(40) DEF DiskTypes, Actor
  <2> QED BY <1>3, <2>1, SMTT(40) DEF DiskTypes, chanVars, devVars
<1>5. \A u \in Actor : io'[u] = IF u = t THEN r ELSE io[u]
  BY <1>2, SMTT(40) DEF DiskTypes, Actor
<1>6. OneUser'
  BY <1>2, <1>3, <1>5, SMTT(40) DEF OneUser, Active, chanVars, devVars, Actor, DiskTypes
<1>7. OpsFit'
  BY <1>2, <1>5 DEF OpsFit, Actor
<1>8. AtRest' /\ \A u \in Actor : Channel(u)'
  <2>1. \A u \in Actor : Active(u)' => Active(u) /\ io'[u] = io[u]
    BY <1>2, <1>5, Zenon DEF Active
  <2>2. AtRest'
    BY <1>2, <1>3, <1>5, Zenon DEF AtRest, Rest, Active, chanVars
  <2>3. ASSUME NEW u \in Actor PROVE Channel(u)'
    <3>1. CASE Active(u)'
      BY <1>3, <2>1, <3>1, SMTT(40) DEF Channel, Rest, Answered, Quiet, Active, chanVars
    <3>2. CASE ~Active(u)'
      BY <3>2, Zenon DEF Channel, Active
    <3> QED BY <3>1, <3>2, SMTT(40)
  <2> QED BY <2>2, <2>3, Zenon
<1> QED BY <1>4, <1>6, <1>7, <1>8, SMTT(40)

(* Every step keeps the invariant.                                          *)
LEMMA NextInv == DiskInv /\ [DiskNext]_diskVars => DiskInv'
<1> SUFFICES ASSUME DiskInv, [DiskNext]_diskVars PROVE DiskInv'
  BY Zenon
<1>1. CASE Start
  BY <1>1, DetectInv, IdentifyInv, IdentifiedInv, ScannedInv, Zenon DEF Start
<1>2. CASE Controller
  BY <1>2, DeviceReadyInv, DeviceStoresInv, DeviceFailsInv, Zenon DEF Controller
<1>3. CASE interrupt_handler
  BY <1>3, HandlerInv, SMTT(40)
<1>4. ASSUME NEW t \in Actor, Proceed(t) PROVE DiskInv'
  BY <1>4, AcquireInv, SelectInv, IssueInv, AwaitDataInv, BusyInv, InputInv, OutputInv,
     AwaitStoredInv, ReleaseInv, Zenon DEF Proceed, Actor
<1>5. ASSUME NEW t \in Thread, Client(t) PROVE DiskInv'
  BY <1>5, RequestInv, Zenon DEF Client
<1>6. CASE UNCHANGED diskVars
  <2>1. DiskTypes' /\ OneUser' /\ OpsFit'
    BY <1>6, SMTT(40) DEF DiskInv, DiskTypes, OneUser, OpsFit, Active, diskVars, chanVars, devVars
  <2>2. AtRest'
    BY <1>6, SMTT(40) DEF DiskInv, AtRest, Rest, Active, diskVars, chanVars
  <2>3. ASSUME NEW t \in Actor PROVE Channel(t)'
    BY <1>6, ZenonT(30) DEF DiskInv, Channel, Rest, Quiet, Answered, Active, diskVars, chanVars
  <2> QED BY <2>1, <2>2, <2>3, SMTT(40) DEF DiskInv
<1> QED BY <1>1, <1>2, <1>3, <1>4, <1>5, <1>6, Zenon DEF DiskNext

(* The inductive invariant of the driver holds for any set of threads, any  *)
(* size of the disks and any partitions on them.                            *)
THEOREM DriverInvariant == DiskSpec => []DiskInv
BY InitInv, NextInv, PTL DEF DiskSpec

(* Commands and completions match one to one in every state: an interrupt   *)
(* that interrupt_handler counts is waited for, and select_sector finds the *)
(* channel idle.                                                            *)
THEOREM CompletionsMatched == DiskSpec => []CompletionsMatch
<1>1. DiskInv => CompletionsMatch
  <2> SUFFICES ASSUME DiskInv PROVE CompletionsMatch
    BY SMTT(40)
  <2> USE DEF DiskInv
  <2>1. completion_wait <= 1
    BY SMTT(40) DEF DiskTypes, AtRest, Rest, Channel, Quiet, Answered, Active, Req, Step
  <2>2. ASSUME lock = NULL, \A t \in Actor : io[t].op # "identify"
        PROVE  completion_wait = 0 /\ (irq => ~expecting_interrupt)
    BY <2>2, DiskAssumption, SMTT(40) DEF OneUser, AtRest, Rest, Actor
  <2>3. ASSUME NEW t \in Actor, io[t].pc = "select"
        PROVE  ~Busy /\ ~Drq /\ completion_wait = 0
    BY <2>3, Zenon DEF Channel, Rest, Busy, Drq
  <2> QED BY <2>1, <2>2, <2>3, Zenon DEF CompletionsMatch
<1> QED BY <1>1, DriverInvariant, PTL

(* No access leaves its disk: what found_partition registers lies on the    *)
(* device, so the checks block_read and block_write make on a partition     *)
(* cover those on the disk under it.                                        *)
THEOREM AccessesOnDisk == DiskSpec => []PartitionsOnDisk
<1>1. DiskInv => PartitionsOnDisk
  BY DiskAssumption DEF DiskInv, DiskTypes, PartitionsOnDisk, check_sector, Req, Sector, Actor
<1> QED BY <1>1, DriverInvariant, PTL

-----------------------------------------------------------------------------
(* What the threads see of a step that leaves their records alone.          *)
LEMMA SeenSame ==
  ASSUME NEW t \in Actor, io'[t] = io[t], io[t].pc = "stored" => ctl'.phase = ctl.phase
  PROVE  Seen(t)' = Seen(t)
BY Zenon DEF Seen, Stored

(* A thread outside the driver has no request.                              *)
LEMMA SeenIdle ==
  ASSUME NEW t \in Actor, io[t].pc = "idle"
  PROVE  Seen(t) = Store!Idle
BY Zenon DEF Seen, Stored, Store!Idle

(* The machine starts with any disks and no requests.                       *)
LEMMA InitStore == DiskInit => Store!Init
<1> SUFFICES ASSUME DiskInit PROVE Store!Init
  BY Zenon
<1>1. \A t \in Thread : Seen(t) = Store!Idle
  BY SeenIdle, Zenon DEF DiskInit, Actor, NoRequest
<1>2. media \in [Disks -> [Sector -> Value]]
  BY DiskAssumption, Zenon DEF DiskInit
<1> QED BY <1>1, <1>2, Zenon DEF Store!Init

(* A step that no thread sees, and one that only T sees.                    *)
LEMMA NobodySees ==
  ASSUME media' = media, \A u \in Thread : Seen(u)' = Seen(u)
  PROVE  UNCHANGED Store!vars
BY Zenon DEF Store!vars

(* A step that one thread sees.                                             *)
LEMMA OneSees ==
  ASSUME NEW t \in Thread, \A u \in Thread : u # t => Seen(u)' = Seen(u)
  PROVE  [u \in Thread |-> Seen(u)]' = [[u \in Thread |-> Seen(u)] EXCEPT ![t] = Seen(t)']
BY Zenon

(* The records of the requests under way, as their callers see them.        *)
LEMMA SeenCalled ==
  ASSUME NEW t \in Actor, io[t].pc \notin {"idle", "release", "stored"}
  PROVE  Seen(t) = [io[t] EXCEPT !.pc = "called"]
BY Zenon DEF Seen, Stored

(* A request whose data are where they belong is done,                      *)
LEMMA SeenDone ==
  ASSUME NEW t \in Actor, io[t].pc = "release" \/ Stored(t)
  PROVE  Seen(t) = [io[t] EXCEPT !.pc = "done"]
BY Zenon DEF Seen, Stored

(* and one whose data the device has yet to store is not.                   *)
LEMMA SeenStoring ==
  ASSUME NEW t \in Actor, io[t].pc = "stored", ctl.phase = "store"
  PROVE  Seen(t) = [io[t] EXCEPT !.pc = "called"]
BY Zenon DEF Seen, Stored

(* What each of the steps that the threads see is in the store: the read    *)
(* takes effect when the sector is copied, the write when the disk stores.  *)
LEMMA ReturnStore ==
  ASSUME DiskInv, NEW t \in Thread, Release(t)
  PROVE  Store!Return(t)
<1>1. Seen(t).pc = "done"
  <2>1. Seen(t) = [io[t] EXCEPT !.pc = "done"]
    BY SeenDone, Zenon DEF Release, Runs, Actor
  <2> QED BY <2>1 DEF DiskInv, DiskTypes, Req, Actor
<1>2. \A u \in Thread : u # t => Seen(u)' = Seen(u)
  BY SeenSame, Zenon DEF Release, Actor, DiskInv, DiskTypes
<1>3. Seen(t)' = Store!Idle
  <2>1. io'[t].pc = "idle"
    BY Zenon DEF Release, DiskInv, DiskTypes, Actor, NoRequest
  <2> QED BY <2>1, Zenon DEF Seen, Stored, Store!Idle
<1>4. UNCHANGED media
  BY Zenon DEF Release
<1> QED BY <1>1, <1>2, <1>3, <1>4, OneSees, Zenon DEF Store!Return

(* A read takes effect in input_sector.                                     *)
LEMMA ReadStore ==
  ASSUME DiskInv, NEW t \in Thread, input_sector(t)
  PROVE  Store!Effect(t)
<1> DEFINE r == Seen(t)
<1>0. t \in Actor /\ io[t] \in Req /\ io[t].pc = "transfer" /\ io[t].op = "read"
  BY Zenon DEF input_sector, Runs, Actor, DiskInv, DiskTypes
<1>1. r = [io[t] EXCEPT !.pc = "called"]
  BY <1>0, SeenCalled, SMTT(40)
<1>2. ctl.buf = media[io[t].disk][io[t].sec]
  BY <1>0, Zenon DEF DiskInv, Channel, Active
<1>3. Seen(t)' = [io'[t] EXCEPT !.pc = "done"]
  <2>1. io'[t].pc = "release"
    BY <1>0, Zenon DEF input_sector, DiskInv, DiskTypes, Req
  <2> QED BY <2>1, Zenon DEF Seen, Stored
<1>4. Seen(t)' = [r EXCEPT !.pc = "done", !.val = ctl.buf]
  BY <1>0, <1>1, <1>3, ZenonT(30) DEF input_sector, DiskInv, DiskTypes, Req
<1>5. \A u \in Thread : u # t => Seen(u)' = Seen(u)
  <2>1. ASSUME NEW u \in Thread, u # t PROVE io'[u] = io[u] /\ io[u].pc # "stored"
    BY <1>0, <2>1, OneActive, Zenon DEF input_sector, Active, Actor, DiskInv, DiskTypes
  <2> QED BY <2>1, SeenSame, Zenon DEF Actor
<1>6. r.pc = "called" /\ r.op = "read" /\ r.disk = io[t].disk /\ r.sec = io[t].sec
  BY <1>0, <1>1, Zenon DEF Req
<1>7. UNCHANGED media
  BY Zenon DEF input_sector
<1>8. [u \in Thread |-> Seen(u)]' =
        [[u \in Thread |-> Seen(u)] EXCEPT ![t].pc = "done", ![t].val = media[r.disk][r.sec]]
  BY <1>2, <1>4, <1>5, <1>6, OneSees, SMTT(40)
<1> QED BY <1>6, <1>7, <1>8, Zenon DEF Store!Effect

(* A write takes effect when the device stores the data.                    *)
LEMMA WriteStore ==
  ASSUME DiskInv, DeviceStores
  PROVE  \E t \in Thread : Store!Effect(t)
<1>1. PICK t \in Actor : Active(t)
  BY Zenon DEF DiskInv, DeviceStores, Answers, AtRest, Rest
<1>2. /\ io[t].pc = "stored" /\ ctl.buf = io[t].val /\ ctl.dev = io[t].disk /\ ctl.lba = io[t].sec
      /\ ctl.phase = "store"
  BY <1>1, SMTT(40) DEF DeviceStores, Answers, Channel, Rest, Active, DiskInv, DiskTypes, Req,
     Step
<1>3. t \in Thread /\ io[t] \in Req /\ io[t].op = "write"
  BY <1>2, Zenon DEF DiskInv, OpsFit, DiskTypes
<1> DEFINE r == Seen(t)
<1>4. r = [io[t] EXCEPT !.pc = "called"]
  BY <1>2, SeenStoring, Zenon
<1>5. Seen(t)' = [io[t] EXCEPT !.pc = "done"]
  <2>1. io' = io /\ ctl'.phase = "idle"
    BY Zenon DEF DeviceStores, DiskInv, DiskTypes, Ctl
  <2> QED BY <1>2, <2>1, Zenon DEF Seen, Stored
<1>6. \A u \in Thread : u # t => Seen(u)' = Seen(u)
  <2>1. ASSUME NEW u \in Thread, u # t PROVE io'[u] = io[u] /\ io[u].pc # "stored"
    BY <1>1, <2>1, OneActive, Zenon DEF DeviceStores, Active, Actor
  <2> QED BY <2>1, SeenSame, Zenon DEF Actor
<1>7. /\ r.pc = "called" /\ r.op = "write" /\ r.disk = ctl.dev /\ r.sec = ctl.lba /\ r.val = ctl.buf
      /\ Seen(t)' = [r EXCEPT !.pc = "done"]
  BY <1>2, <1>3, <1>4, <1>5, Zenon DEF Req
<1>8. [u \in Thread |-> Seen(u)]' = [[u \in Thread |-> Seen(u)] EXCEPT ![t].pc = "done"]
  BY <1>3, <1>6, <1>7, OneSees, Zenon
<1>9. media' = [media EXCEPT ![r.disk][r.sec] = r.val]
  BY <1>7, Zenon DEF DeviceStores
<1>10. Store!Effect(t)
  BY <1>3, <1>7, <1>8, <1>9, ZenonT(30) DEF Store!Effect
<1> QED BY <1>3, <1>10, Zenon

(* block_read and block_write call the abstract store.                      *)
LEMMA CallStore ==
  ASSUME DiskInv, NEW t \in Thread, NEW b \in all_blocks, NEW s \in Sector, NEW v \in Value,
         Request(t, "read", b, s, NULL) \/ Request(t, "write", b, s, v)
  PROVE  Store!Call(t)
<1> DEFINE new(op, x) == [pc |-> "lock", op |-> op, disk |-> b.disk, sec |-> b.start + s, val |-> x]
           called(op, x) == [pc |-> "called", op |-> op, disk |-> b.disk, sec |-> b.start + s, val |-> x]
<1>1. b.disk \in Disks /\ b.start + s \in Sector
  BY DiskAssumption, SMTT(40) DEF DiskInv, DiskTypes, Request, InBlock, Sector, Block
<1>2. io[t].pc = "idle" /\ UNCHANGED <<ctl, media>>
  BY SMTT(40) DEF Request, Runs
<1>3. \A u \in Thread : u # t => Seen(u)' = Seen(u)
  BY <1>2, SeenSame, SMTT(40) DEF Request, Actor, DiskInv, DiskTypes
<1>4. Seen(t).pc = "idle"
  BY <1>2, SeenIdle DEF Actor, Store!Idle
<1>5. ASSUME NEW op, NEW x, io' = [io EXCEPT ![t] = new(op, x)]
      PROVE  [u \in Thread |-> Seen(u)]' = [[u \in Thread |-> Seen(u)] EXCEPT ![t] = called(op, x)]
  <2>1. io'[t] = new(op, x) /\ io'[t].pc = "lock"
    BY <1>5, Zenon DEF DiskInv, DiskTypes, Actor
  <2>2. Seen(t)' = [new(op, x) EXCEPT !.pc = "called"]
    BY <2>1, Zenon DEF Seen, Stored
  <2>3. Seen(t)' = called(op, x)
    BY <2>2, SMTT(40)
  <2> QED BY <1>3, <2>3, OneSees, SMTT(40)
<1>6. CASE Request(t, "read", b, s, NULL)
  <2>1. io' = [io EXCEPT ![t] = new("read", NULL)]
    BY <1>6, Zenon DEF Request
  <2> QED BY <1>1, <1>2, <1>4, <1>5, <2>1, Zenon DEF Store!Call
<1>7. CASE Request(t, "write", b, s, v)
  <2>1. io' = [io EXCEPT ![t] = new("write", v)]
    BY <1>7, Zenon DEF Request
  <2> QED BY <1>1, <1>2, <1>4, <1>5, <2>1, ZenonT(30) DEF Store!Call
<1> QED BY <1>6, <1>7, SMTT(40)

(* The steps of the start-up thread: nobody else is in the driver.          *)
LEMMA StartUnseen ==
  ASSUME DiskInv, Start \/ Proceed(START)
  PROVE  UNCHANGED Store!vars
<1>1. media' = media /\ \A u \in Thread : io'[u] = io[u]
  BY DiskAssumption, SMTT(40) DEF Start, Detect, Identify, Identified, Scanned, Proceed,
     Acquire, select_sector,
     issue_pio_command, AwaitData, sema_down, wait_while_busy, input_sector, output_sector, AwaitStored,
     Goto, DiskInv, DiskTypes, Actor
<1>2. boot < 3 \/ io[START].pc # "idle"
  BY DEF Start, Detect, Identify, Identified, Scanned, Proceed, Acquire, select_sector,
     issue_pio_command,
     AwaitData, sema_down, wait_while_busy, input_sector, output_sector, AwaitStored, Runs
<1>3. \A u \in Thread : io[u].pc = "idle"
  BY <1>2, Zenon DEF DiskInv, OneUser
<1> QED BY <1>1, <1>3, SeenSame, NobodySees, SMTT(40) DEF Actor

(* A step of one thread that has been called and has not taken effect.      *)
LEMMA CalledUnseen ==
  ASSUME DiskInv, NEW t \in Thread, media' = media,
         Active(t) \/ ctl' = ctl, io[t].pc \notin {"idle", "release", "stored"},
         NEW pc \in {"select", "issue", "wait", "busy", "transfer"}, Goto(t, pc)
  PROVE  UNCHANGED Store!vars
<1>1. t \in Actor /\ io[t] \in Req /\ io'[t] = [io[t] EXCEPT !.pc = pc]
  BY Zenon DEF Goto, Actor, DiskInv, DiskTypes
<1>2. Seen(t)' = Seen(t)
  <2>1. Seen(t) = [io[t] EXCEPT !.pc = "called"]
    BY <1>1, SeenCalled, Zenon
  <2>2. Seen(t)' = [io'[t] EXCEPT !.pc = "called"]
    <3>1. io'[t].pc = pc
      BY <1>1, Zenon DEF Req
    <3> QED BY <3>1, Zenon DEF Seen, Stored
  <2> QED BY <1>1, <2>1, <2>2, ZenonT(30) DEF Req
<1>3. ASSUME NEW u \in Thread, u # t PROVE Seen(u)' = Seen(u)
  <2>1. io'[u] = io[u] /\ (io[u].pc = "stored" => ctl' = ctl)
    BY <1>1, <1>3, OneActive, Zenon DEF Goto, Actor, Active, DiskInv, DiskTypes
  <2> QED BY <2>1, SeenSame, Zenon DEF Actor
<1> QED BY <1>2, <1>3, NobodySees, Zenon

(* output_sector only hands the data to the device.                         *)
LEMMA OutputUnseen ==
  ASSUME DiskInv, NEW t \in Thread, output_sector(t)
  PROVE  UNCHANGED Store!vars
<1>1. t \in Actor /\ io[t] \in Req /\ io[t].pc = "transfer" /\ io'[t] = [io[t] EXCEPT !.pc = "stored"]
  BY Zenon DEF output_sector, Goto, Runs, Actor, DiskInv, DiskTypes
<1>2. Seen(t)' = Seen(t)
  <2>1. Seen(t) = [io[t] EXCEPT !.pc = "called"]
    BY <1>1, SeenCalled, Zenon
  <2>2. Seen(t)' = [io'[t] EXCEPT !.pc = "called"]
    <3>1. io'[t].pc = "stored" /\ ctl'.phase = "store"
      BY <1>1, Zenon DEF Req, output_sector, DiskInv, DiskTypes, Ctl
    <3> QED BY <3>1, Zenon DEF Seen, Stored
  <2> QED BY <1>1, <2>1, <2>2, ZenonT(30) DEF Req
<1>3. ASSUME NEW u \in Thread, u # t PROVE Seen(u)' = Seen(u)
  <2>1. io'[u] = io[u] /\ io[u].pc # "stored"
    BY <1>1, <1>3, OneActive, Zenon DEF output_sector, Goto, Actor, Active, DiskInv,
       DiskTypes
  <2> QED BY <2>1, SeenSame, Zenon DEF Actor
<1> QED BY <1>2, <1>3, NobodySees, Zenon DEF output_sector

(* The end of a write has no effect of its own.                             *)
LEMMA AwaitStoredUnseen ==
  ASSUME DiskInv, NEW t \in Thread, AwaitStored(t)
  PROVE  UNCHANGED Store!vars
<1>1. /\ t \in Actor /\ io[t] \in Req /\ io[t].pc = "stored" /\ io'[t] = [io[t] EXCEPT !.pc = "release"]
      /\ completion_wait > 0 /\ UNCHANGED <<ctl, media>>
  BY Zenon DEF AwaitStored, sema_down, Goto, Runs, Actor, DiskInv, DiskTypes
<1>2. Stored(t)
  BY <1>1 DEF Stored, DiskInv, Channel, Quiet
<1>3. Seen(t)' = Seen(t)
  <2>1. Seen(t) = [io[t] EXCEPT !.pc = "done"]
    BY <1>1, <1>2, SeenDone, Zenon
  <2>2. Seen(t)' = [io'[t] EXCEPT !.pc = "done"]
    <3>1. io'[t].pc = "release"
      BY <1>1, Zenon DEF Req
    <3> QED BY <3>1, Zenon DEF Seen, Stored
  <2> QED BY <1>1, <2>1, <2>2, ZenonT(30) DEF Req
<1>4. ASSUME NEW u \in Thread, u # t PROVE Seen(u)' = Seen(u)
  BY <1>1, <1>4, SeenSame, Zenon DEF AwaitStored, sema_down, Goto, Actor, DiskInv,
     DiskTypes
<1> QED BY <1>1, <1>3, <1>4, NobodySees, Zenon

(* Every step of a thread in the driver is a step of the store or none.     *)
LEMMA ProceedStore ==
  ASSUME DiskInv, NEW t \in Thread, Proceed(t)
  PROVE  Store!Next \/ UNCHANGED Store!vars
<1>1. CASE Acquire(t)
  BY <1>1, CalledUnseen, Zenon DEF Acquire, Runs
<1>2. CASE select_sector(t)
  BY <1>2, CalledUnseen, Zenon DEF select_sector, Runs, Active
<1>3. CASE issue_pio_command(t)
  BY <1>3, CalledUnseen, SMTT(40) DEF issue_pio_command, Runs, Active
<1>4. CASE AwaitData(t)
  BY <1>4, CalledUnseen, Zenon DEF AwaitData, sema_down, Runs, Active
<1>5. CASE wait_while_busy(t)
  <2>1. io[t].op # "identify"
    BY <1>5, DiskAssumption, SMTT(40) DEF wait_while_busy, Runs, DiskInv, OneUser, Active, Actor
  <2>2. CASE Drq /\ Goto(t, "transfer")
    BY <1>5, <2>2, CalledUnseen, SMTT(40) DEF wait_while_busy, Runs, Active
  <2>3. CASE UNCHANGED io
    BY <1>5, <2>3, SeenSame, NobodySees, Zenon DEF wait_while_busy, Actor
  <2> QED BY <1>5, <2>1, <2>2, <2>3, SMTT(40) DEF wait_while_busy
<1>6. CASE input_sector(t)
  BY <1>6, ReadStore, Zenon DEF Store!Next
<1>7. CASE output_sector(t)
  BY <1>7, OutputUnseen, Zenon
<1>8. CASE AwaitStored(t)
  BY <1>8, AwaitStoredUnseen, Zenon
<1>9. CASE Release(t)
  BY <1>9, ReturnStore, Zenon DEF Store!Next
<1> QED BY <1>1, <1>2, <1>3, <1>4, <1>5, <1>6, <1>7, <1>8, <1>9, SMTT(40) DEF Proceed

(* Every step of the driver is one of BlockStore or none.                   *)
LEMMA NextStore == DiskInv /\ [DiskNext]_diskVars => [Store!Next]_(Store!vars)
<1> SUFFICES ASSUME DiskInv, [DiskNext]_diskVars PROVE Store!Next \/ UNCHANGED Store!vars
  BY Zenon
<1>1. CASE Start \/ Proceed(START)
  BY <1>1, StartUnseen, Zenon
<1>2. CASE DeviceReady \/ DeviceFails
  <2>1. \A u \in Thread : io'[u] = io[u] /\ io[u].pc # "stored"
    BY <1>2, Zenon DEF DeviceReady, DeviceFails, Answers, DiskInv, Channel, Actor
  <2> QED BY <1>2, <2>1, SeenSame, NobodySees, Zenon DEF DeviceReady, DeviceFails, Actor
<1>3. CASE DeviceStores
  BY <1>3, WriteStore, Zenon DEF Store!Next
<1>4. CASE interrupt_handler
  BY <1>4, SeenSame, NobodySees, Zenon DEF interrupt_handler, Actor
<1>5. ASSUME NEW t \in Thread, Proceed(t) PROVE Store!Next \/ UNCHANGED Store!vars
  BY <1>5, ProceedStore, Zenon
<1>6. ASSUME NEW t \in Thread, Client(t) PROVE Store!Next
  BY <1>6, CallStore, Zenon DEF Client, Store!Next
<1>7. CASE UNCHANGED diskVars
  BY <1>7, SeenSame, NobodySees, Zenon DEF diskVars, Actor
<1> QED BY <1>1, <1>2, <1>3, <1>4, <1>5, <1>6, <1>7, Zenon DEF DiskNext, Controller, Actor

(* The driver implements an atomic block store: every call of block_read or *)
(* block_write takes effect at one moment between call and return, however  *)
(* many threads call, on whichever partitions, without locks of their own.  *)
THEOREM DriverIsBlockStore == DiskSpec => IsBlockStore
BY InitStore, NextStore, DriverInvariant, PTL DEF DiskSpec, IsBlockStore, Store!Spec
==============================================================================
