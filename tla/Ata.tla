--------------------------------- MODULE Ata ---------------------------------
(***************************************************************************)
(* The disk driver (kernel/ata.c): programmed I/O with polling, for one    *)
(* caller at a time, and the two drives of the cable it talks to.          *)
(*                                                                         *)
(* The driver polls with a limit.  A drive that answers later than that    *)
(* goes on with the old command, and the driver never looks at BSY before  *)
(* it issues the next one.  What a drive does with a command it gets then  *)
(* is undefined: while busy it is taken to ignore it, with DRQ up to       *)
(* ignore or to obey it.                                                   *)
(***************************************************************************)
EXTENDS Naturals, Sequences

CONSTANTS
    Present,    \* which of the two drives are there
    Sectors     \* sectors of a drive

Drives == {"master", "slave"}
ASSUME PresentAssumption == Present \subseteq Drives
ASSUME SectorsAssumption == Sectors \in Nat \ {0}

VARIABLES
    drive,      \* what each drive is doing
    disk,       \* what each sector holds: the sector it was meant for, and a stamp
    ata_pc,     \* where the driver is
    req,        \* the call: operation, drive, lba, sector_cnt
    buffer,     \* the sectors transferred so far, and what was read
    result,     \* 0 or -1
    stamp,      \* marks the data of the latest write
    suspect,    \* history: the drive was still at an earlier command at the call
    unseen      \* history: it failed to write a sector after the driver's last look

ataVars == <<drive, disk, ata_pc, req, buffer, result, stamp, suspect, unseen>>

Lba == 0..(Sectors - 1)
Data == (Drives \X Lba) \X BOOLEAN
Requests == [op : {"read", "write"}, drive : Drives, lba : Lba, count : 0..Sectors]
Nothing == <<>>

AtaTypeOK ==
    /\ drive \in [Drives -> [phase : {"idle", "busy", "drq", "err"},
                             op : {"read", "write", "flush"},
                             lba : 0..Sectors, left : 0..Sectors, held : Data \cup {Nothing}]]
    /\ disk \in [Drives \X Lba -> Data]
    /\ ata_pc \in {"idle", "bsy", "drq", "flush", "flushing"}
    /\ req \in Requests
    /\ Len(buffer) <= Sectors /\ \A i \in 1..Len(buffer) : buffer[i] \in Data \cup {Nothing}
    /\ result \in {"none", "ok", "failed"}
    /\ {stamp, suspect, unseen} \subseteq BOOLEAN

AtaInit ==
    /\ drive = [d \in Drives |-> [phase |-> "idle", op |-> "read", lba |-> 0, left |-> 0,
                                  held |-> Nothing]]
    /\ disk = [x \in Drives \X Lba |-> <<x, FALSE>>]
    /\ ata_pc = "idle"
    /\ req = [op |-> "read", drive |-> "master", lba |-> 0, count |-> 0]
    /\ buffer = <<>>
    /\ result = "none"
    /\ stamp = FALSE /\ suspect = FALSE /\ unseen = FALSE

-----------------------------------------------------------------------------
\* The status register of the drive selected: a drive that is not there reads as zero if
\* the other one answers for it, and as all ones if there is none.
Phase(d) == IF d \in Present THEN drive[d].phase ELSE IF Present = {} THEN "busy" ELSE "idle"
Bsy == Phase(req.drive) = "busy"
\* mutant: a drive that is not busy is taken to be ready
NotBusy == ~Bsy
Drq == Phase(req.drive) = "drq"
Err == Phase(req.drive) = "err"

\* What a command written to drive d makes of it.
Obeyed(d, op, lba, count) ==
    [phase |-> "busy", op |-> op, lba |-> lba, left |-> count, held |-> Nothing]
Issued(d, op, lba, count) ==
    IF d \notin Present \/ drive[d].phase = "busy" THEN {drive[d]}
    ELSE {Obeyed(d, op, lba, count)}
         \cup (IF drive[d].phase = "drq" THEN {drive[d]} ELSE {})

Return(r) == ata_pc' = "idle" /\ result' = r

\* ata_read_sectors, ata_write_sectors: nothing to transfer is an error.
RequestNothing(r) ==
    /\ ata_pc = "idle" /\ r.count = 0
    /\ req' = r /\ result' = "failed"
    /\ UNCHANGED <<drive, disk, ata_pc, buffer, stamp, suspect, unseen>>

\* ata_setup_lba and the command, whatever the drive is doing.
Request(r) ==
    /\ ata_pc = "idle" /\ ata_pc' = "bsy"
    /\ r.count > 0 /\ r.lba + r.count <= Sectors
    /\ req' = r
    /\ \E x \in Issued(r.drive, r.op, r.lba, r.count) : drive' = [drive EXCEPT ![r.drive] = x]
    /\ suspect' = (Phase(r.drive) \in {"busy", "drq"})
    /\ buffer' = <<>> /\ result' = "none"
    /\ stamp' = IF r.op = "write" THEN ~stamp ELSE stamp
    /\ unseen' = FALSE
    /\ UNCHANGED disk

\* ata_wait_bsy_clear.
WaitBsy ==
    /\ ata_pc = "bsy"
    /\ \/ ~Bsy /\ ata_pc' = "drq" /\ UNCHANGED result
       \/ Bsy /\ Return("failed")                           \* ATA_POLL_TIMEOUT
    /\ UNCHANGED <<drive, disk, req, buffer, stamp, suspect, unseen>>

\* ata_wait_drq_set: an error, or no answer in time.
WaitDrqFails ==
    /\ ata_pc = "drq"
    /\ ~Drq
    /\ Return("failed")
    /\ UNCHANGED <<drive, disk, req, buffer, stamp, suspect, unseen>>

LastOne == Len(buffer) + 1 = req.count

\* The drive has given one sector.
SectorGiven(d) ==
    [drive[d] EXCEPT !.lba = @ + 1, !.left = @ - 1,
                     !.phase = IF drive[d].left = 1 THEN "idle" ELSE "busy"]

\* 256 words out of the data register.
ReadSector ==
    /\ ata_pc = "drq" /\ req.op = "read" /\ Drq
    /\ LET x == drive[req.drive] IN
       /\ buffer' = Append(buffer, IF x.op = "read" THEN disk[<<req.drive, x.lba>>] ELSE Nothing)
       /\ drive' = [drive EXCEPT ![req.drive] = SectorGiven(req.drive)]
    /\ IF LastOne THEN Return("ok") ELSE ata_pc' = "bsy" /\ UNCHANGED result
    /\ UNCHANGED <<disk, req, stamp, suspect, unseen>>

\* 256 words into the data register.
WriteSector ==
    /\ ata_pc = "drq" /\ req.op = "write" /\ Drq
    /\ LET d == req.drive
           data == <<<<d, req.lba + Len(buffer)>>, stamp>>
       IN /\ buffer' = Append(buffer, Nothing)
          /\ drive' = [drive EXCEPT ![d] =
                IF @.op = "write" THEN [@ EXCEPT !.phase = "busy", !.held = data]
                ELSE SectorGiven(d)]
    /\ ata_pc' = IF LastOne THEN "flush" ELSE "bsy"
    /\ UNCHANGED <<disk, req, result, stamp, suspect, unseen>>

\* The cache flush; whether it ends, and how, is not looked at.
Flush ==
    /\ ata_pc = "flush" /\ ata_pc' = "flushing"
    /\ \E x \in Issued(req.drive, "flush", 0, 0) : drive' = [drive EXCEPT ![req.drive] = x]
    /\ UNCHANGED <<disk, req, buffer, result, stamp, suspect, unseen>>
FlushEnds ==
    /\ ata_pc = "flushing"
    /\ Return("ok")
    /\ UNCHANGED <<drive, disk, req, buffer, stamp, suspect, unseen>>

-----------------------------------------------------------------------------
\* The drive (external): it reads or writes its sector, or finds it cannot.
Turns(d, x) == drive' = [drive EXCEPT ![d] = x]
Busy(d) == d \in Present /\ drive[d].phase = "busy"
Driver == <<ata_pc, req, buffer, result, stamp, suspect, unseen>>

DriveFails(d) ==
    /\ Busy(d)
    /\ Turns(d, [drive[d] EXCEPT !.phase = "err", !.held = Nothing])
    /\ unseen' = (unseen \/ (drive[d].held # Nothing /\ ata_pc \notin {"bsy", "drq"}))
    /\ UNCHANGED <<disk, ata_pc, req, buffer, result, stamp, suspect>>
DriveReady(d) ==
    /\ Busy(d) /\ drive[d].held = Nothing
    /\ Turns(d, [drive[d] EXCEPT !.phase = IF drive[d].op = "flush" THEN "idle" ELSE "drq"])
    /\ UNCHANGED <<disk, Driver>>
DriveWrites(d) ==
    /\ Busy(d) /\ drive[d].held # Nothing
    /\ disk' = [disk EXCEPT ![<<d, drive[d].lba>>] = drive[d].held]
    /\ Turns(d, [drive[d] EXCEPT !.held = Nothing, !.lba = @ + 1, !.left = @ - 1,
                                 !.phase = IF drive[d].left = 1 THEN "idle" ELSE "drq"])
    /\ UNCHANGED Driver

AtaNext ==
    \/ \E r \in Requests : Request(r) \/ RequestNothing(r)
    \/ WaitBsy \/ WaitDrqFails \/ ReadSector \/ WriteSector \/ Flush \/ FlushEnds
    \/ \E d \in Drives : DriveFails(d) \/ DriveReady(d) \/ DriveWrites(d)

AtaSpec == AtaInit /\ [][AtaNext]_ataVars

-----------------------------------------------------------------------------
Asked == [i \in 1..req.count |-> <<req.drive, req.lba + i - 1>>]
Succeeded(op) == ata_pc = "idle" /\ result = "ok" /\ req.op = op /\ ~suspect

\* A read that returns 0 has delivered the sectors asked for, in their order, unless the
\* drive was still at work on a command the driver had given up on (ata.c:109-128).
ReadsRight == Succeeded("read") => buffer = [i \in 1..req.count |-> disk[Asked[i]]]

\* A write that returns 0 has put its data on the disk, unless the drive was at work on
\* an earlier command, has yet to write what it holds, or failed at it after it took the
\* last sector: neither a late flush nor the error bit is looked at (ata.c:147-153).
WritesLand ==
    Succeeded("write") =>
        \/ drive[req.drive].held # Nothing \/ unseen
        \/ \A i \in 1..req.count : disk[Asked[i]] = <<Asked[i], stamp>>

\* What the file system is told of a transfer is what has happened, whatever the drive was
\* late with (ata_read_sectors, ata_write_sectors: ata.c:109-154).
TransfersRight == ReadsRight /\ WritesLand
=============================================================================
