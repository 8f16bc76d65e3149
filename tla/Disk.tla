-------------------------------- MODULE Disk --------------------------------
(***************************************************************************)
(* The IDE driver (devices/ide.c) on one channel with two disks, under the *)
(* block layer and the partitions (devices/block.c, devices/partition.c).  *)
(*                                                                         *)
(* The start-up thread detects and identifies the disks without taking the *)
(* channel's lock; after that several threads read and write sectors of    *)
(* the block devices it registered.  The controller is external: it works  *)
(* on one command, raises its interrupt when a sector is ready to be read  *)
(* or has been stored, and may fail a command by clearing BSY without DRQ. *)
(* A wait for BSY that reaches its limit ends like a failure.              *)
(***************************************************************************)
EXTENDS Partition

CONSTANTS
  Thread, START,   \* threads that use the disks; the thread that starts up
  Value, Blank,    \* contents of a sector, at first
  Capacity,        \* sectors of each disk that is not too big to be used
  Found            \* disk -> partitions that read_partition_table finds on it

ASSUME DiskAssumption ==
  /\ START \notin Thread /\ NULL \notin Thread \cup {START}
  /\ Blank \in Value
  /\ Capacity \in Nat \ {0}

VARIABLES
  lock, expecting_interrupt, completion_wait,   \* struct channel
  is_ata,        \* struct ata_disk
  all_blocks,    \* registered block devices
  boot,          \* progress of ide_init: reset, one disk, the other, done
  io,            \* the request each thread is in
  ctl,           \* the controller: registers, buffer, command phase
  irq,           \* is its interrupt pending?
  media,         \* what the disks hold
  panic

chanVars == <<lock, expecting_interrupt, completion_wait>>
devVars == <<is_ata, all_blocks, boot>>
diskVars == <<chanVars, devVars, io, ctl, irq, media, panic>>

Disks == {0, 1}
Sector == 0 .. Capacity - 1

ASSUME FoundAssumption ==
  /\ SectorMod \in Nat /\ Capacity < SectorMod
  /\ Found \in [Disks -> SUBSET Partition]

NoRequest == [pc |-> "idle", op |-> "none", disk |-> 0, sec |-> 0, val |-> NULL]

Runs(t, pc) == ~panic /\ io[t].pc = pc

Goto(t, pc) == io' = [io EXCEPT ![t].pc = pc]

-----------------------------------------------------------------------------
(* The controller.                                                         *)

Answers(phase) == ~panic /\ ctl.phase = phase

(* A sector (or the identification) is in the buffer, or room for one.      *)
DeviceReady ==
  /\ Answers("command")
  /\ ctl' = [ctl EXCEPT !.phase = "data",
               !.buf = IF ctl.op = "read" THEN media[ctl.dev][ctl.lba] ELSE NULL]
  /\ irq' = (irq \/ ctl.op # "write")
  /\ UNCHANGED <<chanVars, devVars, io, media, panic>>

DeviceStores ==
  /\ Answers("store")
  /\ media' = [media EXCEPT ![ctl.dev][ctl.lba] = ctl.buf]
  /\ ctl' = [ctl EXCEPT !.phase = "idle", !.buf = NULL]
  /\ irq' = TRUE
  /\ UNCHANGED <<chanVars, devVars, io, panic>>

DeviceFails ==
  /\ Answers("command")
  /\ ctl' = [ctl EXCEPT !.phase = "idle"]
  /\ irq' = TRUE
  /\ UNCHANGED <<chanVars, devVars, io, media, panic>>

Busy == ctl.phase \in {"command", "store"}
Drq == ctl.phase = "data"

-----------------------------------------------------------------------------
(* The handler: reading the status acknowledges the interrupt.             *)
interrupt_handler ==
  /\ ~panic /\ irq
  /\ irq' = FALSE
  /\ completion_wait' = IF expecting_interrupt THEN completion_wait + 1 ELSE completion_wait
  /\ UNCHANGED <<lock, expecting_interrupt, devVars, io, ctl, media, panic>>

sema_down(pc, t, next) ==
  /\ Runs(t, pc) /\ completion_wait > 0
  /\ completion_wait' = completion_wait - 1
  /\ Goto(t, next)
  /\ UNCHANGED <<lock, expecting_interrupt, devVars, ctl, irq, media, panic>>

-----------------------------------------------------------------------------
(* block_read and block_write, through a partition to the disk.            *)

InBlock(b, sector) == sector < b.size

check_sector(d, sector) == sector < Capacity

Request(t, op, b, sector, v) ==
  LET lba == b.start + sector
  IN  /\ boot = 3 /\ io[START].pc = "idle" /\ Runs(t, "idle")
      /\ InBlock(b, sector)
      /\ op = "write" => b.type # "foreign"
      /\ io' = [io EXCEPT ![t] = [pc |-> "lock", op |-> op, disk |-> b.disk, sec |-> lba, val |-> v]]
      /\ panic' = ~check_sector(b.disk, lba)
      /\ UNCHANGED <<chanVars, devVars, ctl, irq, media>>

LockFree == lock = NULL

Acquire(t) ==
  /\ Runs(t, "lock") /\ LockFree
  /\ lock' = t
  /\ Goto(t, "select")
  /\ UNCHANGED <<expecting_interrupt, completion_wait, devVars, ctl, irq, media, panic>>

ClearsIrq_No == irq
ClearsIrq == FALSE

(* Reading the status register clears a pending interrupt.                 *)
wait_until_idle == ~Busy /\ ~Drq /\ irq' = ClearsIrq

select_device(d) == [ctl EXCEPT !.dev = d]

select_sector(t) ==
  /\ Runs(t, "select")
  /\ wait_until_idle
  /\ ctl' = [select_device(io[t].disk) EXCEPT !.lba = io[t].sec]
  /\ Goto(t, "issue")
  /\ UNCHANGED <<chanVars, devVars, media, panic>>

ExpectOne_Not == expecting_interrupt
ExpectOne == TRUE

issue_pio_command(t) ==
  /\ Runs(t, "issue")
  /\ expecting_interrupt' = ExpectOne
  /\ ctl' = [ctl EXCEPT !.phase = "command", !.op = io[t].op]
  /\ Goto(t, IF io[t].op = "write" THEN "busy" ELSE "wait")
  /\ UNCHANGED <<lock, completion_wait, devVars, irq, media, panic>>

(* A read waits for the interrupt, then for BSY; a write only for BSY.      *)
AwaitData(t) == sema_down("wait", t, "busy")

(* A command that fails is fatal; a disk that cannot be identified is left  *)
(* out.                                                                     *)
wait_while_busy(t) ==
  /\ Runs(t, "busy")
  /\ \/ Drq /\ Goto(t, "transfer") /\ UNCHANGED <<devVars, panic>>
     \/ /\ ~Drq /\ io[t].op = "identify"
        /\ is_ata' = [is_ata EXCEPT ![io[t].disk] = FALSE]
        /\ io' = [io EXCEPT ![t] = NoRequest]
        /\ UNCHANGED <<all_blocks, boot, panic>>
     \/ ~Drq /\ io[t].op # "identify" /\ panic' = TRUE /\ UNCHANGED <<devVars, io>>
  /\ UNCHANGED <<chanVars, ctl, irq, media>>

input_sector(t) ==
  /\ Runs(t, "transfer") /\ io[t].op = "read"
  /\ io' = [io EXCEPT ![t].pc = "release", ![t].val = ctl.buf]
  /\ ctl' = [ctl EXCEPT !.phase = "idle", !.buf = NULL]
  /\ UNCHANGED <<chanVars, devVars, irq, media, panic>>

output_sector(t) ==
  /\ Runs(t, "transfer") /\ io[t].op = "write"
  /\ Goto(t, "stored")
  /\ ctl' = [ctl EXCEPT !.phase = "store", !.buf = io[t].val]
  /\ UNCHANGED <<chanVars, devVars, irq, media, panic>>

AwaitStored_Not(t) ==
  /\ Runs(t, "stored") /\ Goto(t, "release")
  /\ UNCHANGED <<chanVars, devVars, ctl, irq, media, panic>>

AwaitStored(t) == sema_down("stored", t, "release")

Release(t) ==
  /\ Runs(t, "release")
  /\ lock' = NULL
  /\ io' = [io EXCEPT ![t] = NoRequest]
  /\ UNCHANGED <<expecting_interrupt, completion_wait, devVars, ctl, irq, media, panic>>

-----------------------------------------------------------------------------
(* ide_init.                                                               *)

(* What the registers of a disk show after a reset.                         *)
Registers == [error : {"ok", "slave_failed", "bad"}, ready : BOOLEAN, signature : {"ata", "other"}]

IsAta(d, r) ==
  /\ r.error = "ok" \/ (r.error = "slave_failed" /\ d = 0)
  /\ r.ready /\ r.signature = "ata"

(* May there be a slave, given the registers of the master?                 *)
MaybeSlave(r) == r.error # "slave_failed" \/ r.ready

(* reset_channel and check_device_type; a reset may leave an interrupt.     *)
Detect ==
  /\ boot = 0
  /\ \E m, s \in Registers :
       is_ata' = [d \in Disks |-> IF d = 0 THEN IsAta(0, m) ELSE MaybeSlave(m) /\ IsAta(1, s)]
  /\ irq' \in BOOLEAN
  /\ boot' = 1
  /\ UNCHANGED <<chanVars, all_blocks, io, ctl, media, panic>>

(* identify_ata_device sends its command without the channel's lock.        *)
Identify ==
  /\ boot \in {1, 2} /\ Runs(START, "idle")
  /\ boot' = boot + 1
  /\ io' = IF is_ata[boot - 1]
           THEN [io EXCEPT ![START] =
                   [NoRequest EXCEPT !.pc = "select", !.op = "identify", !.disk = boot - 1]]
           ELSE io
  /\ UNCHANGED <<chanVars, is_ata, all_blocks, ctl, irq, media, panic>>

AsBlock(d) == [disk |-> d, type |-> "raw", start |-> 0, size |-> Capacity]

PartitionBlocks(d) ==
  {[disk |-> d, type |-> p.type, start |-> p.start, size |-> p.size] :
     p \in UNION {found_partition(Capacity, q) : q \in Found[d]}}

(* The disk is registered, unless it is too big, and partition_scan goes on *)
(* to read its table; with that read the partitions are registered.         *)
Identified ==
  LET d == io[START].disk
  IN  /\ Runs(START, "transfer") /\ io[START].op = "identify"
      /\ ctl' = [ctl EXCEPT !.phase = "idle", !.buf = NULL]
      /\ \/ /\ all_blocks' = all_blocks \cup {AsBlock(d)}
            /\ io' = [io EXCEPT ![START] =
                        [pc |-> "lock", op |-> "read", disk |-> d, sec |-> 0, val |-> NULL]]
            /\ UNCHANGED is_ata
         \/ /\ is_ata' = [is_ata EXCEPT ![d] = FALSE]
            /\ io' = [io EXCEPT ![START] = NoRequest]
            /\ UNCHANGED all_blocks
      /\ UNCHANGED <<chanVars, boot, irq, media, panic>>

Scanned ==
  /\ Runs(START, "release")
  /\ lock' = NULL
  /\ all_blocks' = all_blocks \cup PartitionBlocks(io[START].disk)
  /\ io' = [io EXCEPT ![START] = NoRequest]
  /\ UNCHANGED <<expecting_interrupt, completion_wait, is_ata, boot, ctl, irq, media, panic>>

-----------------------------------------------------------------------------
Actor == Thread \cup {START}

DiskInit ==
  /\ lock = NULL /\ expecting_interrupt = FALSE /\ completion_wait = 0
  /\ is_ata = [d \in Disks |-> FALSE]
  /\ all_blocks = {} /\ boot = 0
  /\ io = [t \in Actor |-> NoRequest]
  /\ ctl = [phase |-> "idle", op |-> "none", dev |-> 0, lba |-> 0, buf |-> NULL]
  /\ irq = FALSE
  /\ media = [d \in Disks |-> [s \in Sector |-> Blank]]
  /\ panic = FALSE

Controller == DeviceReady \/ DeviceStores \/ DeviceFails

Proceed(t) ==
  \/ Acquire(t) \/ select_sector(t) \/ issue_pio_command(t) \/ AwaitData(t)
  \/ wait_while_busy(t) \/ input_sector(t) \/ output_sector(t) \/ AwaitStored(t)
  \/ t # START /\ Release(t)

Start == Detect \/ Identify \/ Identified \/ Scanned

Client(t) ==
  \E b \in all_blocks, s \in Sector, v \in Value :
    Request(t, "read", b, s, NULL) \/ Request(t, "write", b, s, v)

DiskNext ==
  \/ Start \/ Controller \/ interrupt_handler
  \/ \E t \in Actor : Proceed(t)
  \/ \E t \in Thread : Client(t)

(* Threads that can run do run, handlers are not put off for ever and the   *)
(* controller answers a command in the end.                                 *)
DiskSpec ==
  /\ DiskInit /\ [][DiskNext]_diskVars
  /\ WF_diskVars(Start) /\ WF_diskVars(Controller) /\ WF_diskVars(interrupt_handler)
  /\ \A t \in Actor : WF_diskVars(Proceed(t))

-----------------------------------------------------------------------------
(* Properties.                                                             *)

(* Commands and completions match one to one: whoever selects a disk finds *)
(* the channel idle (so wait_until_idle never runs into its limit) and no  *)
(* completion is left over from a request that has released the channel.   *)
CompletionsMatch ==
  /\ completion_wait <= 1
  /\ ~panic /\ lock = NULL /\ (\A t \in Actor : io[t].op # "identify") =>
       completion_wait = 0 /\ (irq => ~expecting_interrupt)
  /\ \A t \in Actor : io[t].pc = "select" => ~Busy /\ ~Drq /\ completion_wait = 0

(* A registered partition lies on its disk, so that the checks of the      *)
(* block layer on the partition cover the access to the disk under it.     *)
PartitionsOnDisk ==
  /\ \A b \in all_blocks : b.start + b.size <= Capacity
  /\ \A t \in Thread : io[t].pc # "idle" => check_sector(io[t].disk, io[t].sec)

Stored(t) == io[t].pc = "stored" /\ ctl.phase # "store"

(* A request as its caller sees it.                                         *)
Seen(t) ==
  LET r == io[t]
  IN  CASE r.pc = "idle" ->
            [pc |-> "idle", op |-> "none", disk |-> NULL, sec |-> NULL, val |-> NULL]
        [] r.pc = "release" \/ Stored(t) -> [r EXCEPT !.pc = "done"]
        [] OTHER -> [r EXCEPT !.pc = "called"]

Store == INSTANCE BlockStore WITH Disk <- Disks, req <- [t \in Thread |-> Seen(t)]

(* Without locks of their own, threads that read and write the same        *)
(* sectors see a store whose operations take effect one at a time, between *)
(* call and return: ide_read and ide_write synchronise the accesses.       *)
IsBlockStore == Store!Spec

(* Whoever holds the channel lets go of it, or a failed command has        *)
(* stopped the kernel, and start-up gets past the disks: no completion     *)
(* interrupt is lost.                                                      *)
ChannelFreed ==
  /\ lock # NULL ~> lock = NULL \/ panic
  /\ boot > 0 ~> panic \/ (boot = 3 /\ io[START].pc = "idle")
==============================================================================
