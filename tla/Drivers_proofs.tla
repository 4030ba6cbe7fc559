---------------------------- MODULE Drivers_proofs ----------------------------
(***************************************************************************)
(* What MCDrivers checks of the disk driver for one disk with two sectors, *)
(* of the clock for three small registers, and of the scrolling text and   *)
(* the melody for two characters and three notes, proved for any: a        *)
(* transfer that returns 0 has happened, the clock on the screen tells the *)
(* time, the text is where it should be, and a melody sounds as its table  *)
(* says.  With the start and the keyboard (Input_proofs) these are all the *)
(* parts of MCDrivers: what holds of each holds of them together.          *)
(***************************************************************************)
EXTENDS MCDrivers, Input_proofs

-----------------------------------------------------------------------------
\* The disk driver.
Drive == [phase : {"idle", "busy", "drq", "err"}, op : {"read", "write", "flush"},
          lba : 0..Sectors, left : 0..Sectors, held : Data \cup {Nothing}]

\* A drive at work on a transfer has sectors left, all of them on the disk, and
\* holds data only while it writes it.
Answering(x) == x.phase \in {"busy", "drq"}
DriveOK(x) ==
    /\ x.op = "flush" => x.phase # "drq"
    /\ Answering(x) /\ x.op # "flush" => x.left >= 1 /\ x.lba + x.left <= Sectors
    /\ x.held # Nothing => x.phase = "busy" /\ x.op = "write"

AtaTypes ==
    /\ AtaTypeOK
    /\ buffer \in Seq(Data \cup {Nothing})
    /\ \A d \in Drives : DriveOK(drive[d])

\* What the drive spoken to makes of the call, sector by sector.
Mine == drive[req.drive]
SectorAt(i) == <<req.drive, req.lba + i - 1>>
Got(n) == \A i \in 1..n : buffer[i] = disk[SectorAt(i)]
Landed(n) == \A i \in 1..n : disk[SectorAt(i)] = <<SectorAt(i), stamp>>
Polling == ata_pc \in {"bsy", "drq"}
Awaiting(op) ==
    /\ Mine.op = op /\ Mine.held = Nothing
    /\ Mine.lba = req.lba + Len(buffer) /\ Mine.left = req.count - Len(buffer)
Writing(n) ==
    /\ Mine.phase = "busy" /\ Mine.op = "write" /\ Mine.held = <<SectorAt(n), stamp>>
    /\ Mine.lba = req.lba + n - 1 /\ Mine.left = req.count - n + 1
    /\ Landed(n - 1)

CallOK ==
    /\ (ata_pc # "idle" \/ result = "ok") => req.count > 0 /\ req.lba + req.count <= Sectors
    /\ Polling => Len(buffer) < req.count
    /\ ata_pc \in {"flush", "flushing"} => req.op = "write"
ReadInv ==
    ~suspect /\ req.op = "read" =>
        /\ Polling /\ Answering(Mine) /\ req.drive \in Present =>
             Awaiting("read") /\ Got(Len(buffer))
        /\ ata_pc = "idle" /\ result = "ok" =>
             ~Answering(Mine) /\ Len(buffer) = req.count /\ Got(req.count)
WriteInv ==
    ~suspect /\ req.op = "write" =>
        /\ Polling /\ Answering(Mine) /\ req.drive \in Present =>
             \/ Awaiting("write") /\ Landed(Len(buffer))
             \/ Len(buffer) > 0 /\ Writing(Len(buffer))
        /\ ata_pc \in {"flush", "flushing"} \/ (ata_pc = "idle" /\ result = "ok") =>
             unseen \/ Writing(req.count) \/ (Mine.held = Nothing /\ Landed(req.count))

AtaInv == AtaTypes /\ CallOK /\ ReadInv /\ WriteInv

LEMMA AtaTyped ==
    ASSUME AtaTypes
    PROVE  /\ drive \in [Drives -> Drive] /\ disk \in [Drives \X Lba -> Data]
           /\ req.op \in {"read", "write"} /\ req.drive \in Drives /\ req.lba \in Nat
           /\ req.count \in Nat /\ req.lba < Sectors /\ req.count <= Sectors
           /\ Mine \in Drive /\ Mine.lba \in Nat /\ Mine.left \in Nat /\ DriveOK(Mine)
           /\ buffer \in Seq(Data \cup {Nothing}) /\ Len(buffer) \in Nat
           /\ Sectors \in Nat \ {0}
<1>1. Sectors \in Nat \ {0}
  BY SectorsAssumption
<1>2. drive \in [Drives -> Drive] /\ disk \in [Drives \X Lba -> Data] /\ req \in Requests
  BY DEF AtaTypes, AtaTypeOK, Drive
<1>3. /\ req.op \in {"read", "write"} /\ req.drive \in Drives /\ req.lba \in Nat
      /\ req.count \in Nat /\ req.lba < Sectors /\ req.count <= Sectors
  BY <1>1, <1>2 DEF Requests, Lba
<1>4. Mine \in Drive /\ Mine.lba \in Nat /\ Mine.left \in Nat
  BY <1>2, <1>3 DEF Mine, Drive
<1>5. DriveOK(Mine) /\ buffer \in Seq(Data \cup {Nothing}) /\ Len(buffer) \in Nat
  BY <1>3 DEF AtaTypes, Mine
<1> QED
  BY <1>1, <1>2, <1>3, <1>4, <1>5

LEMMA AtaInitInv == AtaInit => AtaInv
<1> SUFFICES ASSUME AtaInit PROVE AtaInv
  OBVIOUS
<1>1. 0 \in Lba /\ 0 \in 0..Sectors /\ Sectors \in Nat
  BY SectorsAssumption DEF Lba
<1>2. disk \in [Drives \X Lba -> Data]
  BY DEF AtaInit, Data
<1>3. drive \in [Drives -> Drive] /\ \A d \in Drives : DriveOK(drive[d])
  BY <1>1 DEF AtaInit, Drive, DriveOK, Answering
<1>4. req \in Requests /\ ata_pc = "idle" /\ result = "none" /\ buffer = <<>>
      /\ {stamp, suspect, unseen} \subseteq BOOLEAN
  BY <1>1 DEF AtaInit, Requests, Drives
<1>5. AtaTypes
  BY <1>1, <1>2, <1>3, <1>4 DEF AtaTypes, AtaTypeOK, Drive
<1> QED
  BY <1>4, <1>5 DEF AtaInv, CallOK, ReadInv, WriteInv, Polling

\* A drive that is given a command obeys it, unless it is still at another.
LEMMA Issuing ==
    ASSUME AtaTypes, NEW d \in Drives, NEW op \in {"read", "write", "flush"},
           NEW lba \in 0..Sectors, NEW count \in 0..Sectors,
           op # "flush" => count >= 1 /\ lba + count <= Sectors,
           NEW x \in Issued(d, op, lba, count)
    PROVE  /\ x \in Drive /\ DriveOK(x)
           /\ d \notin Present => x = drive[d]
           /\ drive[d].phase = "busy" => x = drive[d]
           /\ d \in Present /\ ~Answering(drive[d]) => x = Obeyed(d, op, lba, count)
<1>1. drive[d] \in Drive /\ DriveOK(drive[d])
  BY AtaTyped DEF AtaTypes
<1>2. Obeyed(d, op, lba, count) \in Drive /\ DriveOK(Obeyed(d, op, lba, count))
  BY DEF Obeyed, Drive, DriveOK, Answering
<1>3. x \in {drive[d], Obeyed(d, op, lba, count)}
  BY DEF Issued
<1>4. /\ d \notin Present => x = drive[d]
      /\ drive[d].phase = "busy" => x = drive[d]
  BY DEF Issued
<1>5. d \in Present /\ ~Answering(drive[d]) => x = Obeyed(d, op, lba, count)
  BY DEF Issued, Answering
<1> QED
  BY <1>1, <1>2, <1>3, <1>4, <1>5

LEMMA RequestInv == ASSUME AtaInv, NEW r \in Requests, Request(r) PROVE AtaInv'
<1>1. /\ AtaTypes /\ r.drive \in Drives /\ r.op \in {"read", "write"} /\ r.lba \in 0..Sectors
      /\ r.count \in 0..Sectors /\ r.count \in Nat /\ r.lba \in Nat
  BY SectorsAssumption DEF AtaInv, Requests, Lba
<1>2. /\ ata_pc' = "bsy" /\ r.count > 0 /\ r.lba + r.count <= Sectors /\ req' = r
      /\ suspect' = (Phase(r.drive) \in {"busy", "drq"})
      /\ buffer' = <<>> /\ result' = "none" /\ unseen' = FALSE /\ disk' = disk
      /\ stamp' \in {stamp, ~stamp}
  BY DEF Request
<1>3. PICK x \in Issued(r.drive, r.op, r.lba, r.count) : drive' = [drive EXCEPT ![r.drive] = x]
  BY DEF Request
<1>4. /\ x \in Drive /\ DriveOK(x)
      /\ r.drive \in Present /\ ~Answering(drive[r.drive]) =>
            x = Obeyed(r.drive, r.op, r.lba, r.count)
  BY <1>1, <1>2, <1>3, Issuing
<1>5. drive' \in [Drives -> Drive] /\ Mine' = x /\ \A d \in Drives : DriveOK(drive'[d])
  BY <1>1, <1>2, <1>3, <1>4, AtaTyped DEF Mine, AtaTypes
<1>6. AtaTypes'
  <2>1. /\ buffer' \in Seq(Data \cup {Nothing}) /\ Len(buffer') = 0
        /\ disk' \in [Drives \X Lba -> Data] /\ Sectors \in Nat
    BY <1>1, <1>2, AtaTyped
  <2>2. {stamp', suspect', unseen'} \subseteq BOOLEAN
    <3>1. suspect' \in BOOLEAN
      <4>1. suspect' = (Phase(r.drive) \in {"busy", "drq"})
        BY DEF Request
      <4> QED
        BY <4>1
    <3>2. stamp' \in BOOLEAN
      BY <1>1, <1>2 DEF AtaTypes, AtaTypeOK
    <3> QED
      BY <1>2, <3>1, <3>2
  <2>3. Len(buffer') <= Sectors /\ \A i \in 1..Len(buffer') : buffer'[i] \in Data \cup {Nothing}
    BY <2>1
  <2>4. AtaTypeOK'
    BY <1>2, <1>5, <2>1, <2>2, <2>3 DEF AtaTypeOK, Drive
  <2> QED
    BY <1>5, <2>1, <2>4 DEF AtaTypes
<1>7. CallOK'
  BY <1>1, <1>2 DEF CallOK, Polling
<1>8. ~suspect' /\ r.drive \in Present =>
        /\ x.op = r.op /\ x.held = Nothing /\ x.lba = r.lba /\ x.left = r.count
  <2>1. ~suspect' => Phase(r.drive) \notin {"busy", "drq"}
    BY <1>2
  <2>2. ~suspect' /\ r.drive \in Present => x = Obeyed(r.drive, r.op, r.lba, r.count)
    BY <2>1, <1>4 DEF Phase, Answering
  <2> QED
    BY <2>2 DEF Obeyed
<1>9. Len(buffer') = 0
  BY <1>2
<1>10. ReadInv'
  BY <1>1, <1>2, <1>5, <1>8, <1>9 DEF ReadInv, Awaiting, Got, Polling
<1>11. WriteInv'
  BY <1>1, <1>2, <1>5, <1>8, <1>9 DEF WriteInv, Awaiting, Landed, Polling
<1> QED
  BY <1>6, <1>7, <1>10, <1>11 DEF AtaInv

\* The driver's steps that move neither a sector nor the drive.
LEMMA WaitInv ==
    ASSUME AtaInv, WaitBsy \/ WaitDrqFails \/ FlushEnds \/ \E r \in Requests : RequestNothing(r)
    PROVE  AtaInv'
<1>1. UNCHANGED <<drive, disk, buffer, stamp, suspect, unseen>>
  BY DEF WaitBsy, WaitDrqFails, FlushEnds, RequestNothing
<1>2. CASE WaitBsy \/ WaitDrqFails
  <2>1. /\ Polling /\ req' = req
        /\ (ata_pc' = "drq" /\ result' = result) \/ (ata_pc' = "idle" /\ result' = "failed")
    BY <1>2 DEF WaitBsy, WaitDrqFails, Polling, Return
  <2> QED
    BY <1>1, <2>1 DEF AtaInv, AtaTypes, AtaTypeOK, CallOK, ReadInv, WriteInv, Polling, Mine, Awaiting,
       Writing, Got, Landed, SectorAt
<1>3. CASE FlushEnds
  <2>1. ata_pc = "flushing" /\ ata_pc' = "idle" /\ result' = "ok" /\ req' = req
    BY <1>3 DEF FlushEnds, Return
  <2> QED
    BY <1>1, <2>1 DEF AtaInv, AtaTypes, AtaTypeOK, CallOK, ReadInv, WriteInv, Polling, Mine, Awaiting,
       Writing, Got, Landed, SectorAt
<1>4. CASE \E r \in Requests : RequestNothing(r)
  <2>1. req' \in Requests /\ ata_pc' = "idle" /\ result' = "failed"
    BY <1>4 DEF RequestNothing
  <2> QED
    BY <1>1, <2>1 DEF AtaInv, AtaTypes, AtaTypeOK, CallOK, ReadInv, WriteInv, Polling
<1> QED
  BY <1>2, <1>3, <1>4

\* One sector leaves the drive.
Given(x) == [x EXCEPT !.lba = @ + 1, !.left = @ - 1,
                      !.phase = IF x.left = 1 THEN "idle" ELSE "busy"]

LEMMA GivenOK ==
    ASSUME NEW x \in Drive, DriveOK(x), x.phase = "drq", NEW y, y = Given(x)
    PROVE  /\ y \in Drive /\ DriveOK(y) /\ x.lba \in Lba /\ x.op \in {"read", "write"}
           /\ y.op = x.op /\ y.held = Nothing /\ x.held = Nothing /\ y.lba = x.lba + 1
           /\ y.left = x.left - 1 /\ y.phase = (IF x.left = 1 THEN "idle" ELSE "busy")
<1>1. /\ x.op \in {"read", "write"} /\ x.held = Nothing /\ x.left >= 1 /\ x.lba + x.left <= Sectors
      /\ x.lba \in Nat /\ x.left \in Nat /\ Sectors \in Nat
  BY SectorsAssumption DEF Drive, DriveOK, Answering
<1>2. /\ y \in Drive /\ y.op = x.op /\ y.held = x.held /\ y.lba = x.lba + 1
      /\ y.left = x.left - 1 /\ y.phase = (IF x.left = 1 THEN "idle" ELSE "busy")
  <2>1. x.lba + 1 \in 0..Sectors /\ x.left - 1 \in 0..Sectors
    BY <1>1
  <2>2. (IF x.left = 1 THEN "idle" ELSE "busy") \in {"idle", "busy", "drq", "err"}
    OBVIOUS
  <2>3. y \in Drive
    BY <2>1, <2>2 DEF Drive, Given
  <2> QED
    BY <2>3 DEF Drive, Given
<1> QED
  BY <1>1, <1>2 DEF DriveOK, Answering, Lba

\* A drive asked for data is the one spoken to, and it is there.
LEMMA DrqMine ==
    ASSUME AtaTypes, Drq
    PROVE  req.drive \in Present /\ Mine.phase = "drq" /\ Answering(Mine)
BY DEF Drq, Phase, Mine, Answering

LEMMA ReadSectorInv == ASSUME AtaInv, ReadSector PROVE AtaInv'
<1>1. /\ ata_pc = "drq" /\ req.op = "read" /\ Drq
      /\ UNCHANGED <<disk, req, stamp, suspect, unseen>>
      /\ drive' = [drive EXCEPT ![req.drive] = SectorGiven(req.drive)]
      /\ AtaTypes
  BY DEF ReadSector, AtaInv
<1> DEFINE given == IF Mine.op = "read" THEN disk[<<req.drive, Mine.lba>>] ELSE Nothing
<1>2. buffer' = Append(buffer, given)
  BY DEF ReadSector, Mine
<1>3. req.drive \in Present /\ Mine.phase = "drq" /\ Answering(Mine) /\ DriveOK(Mine) /\ Mine \in Drive
  BY <1>1, DrqMine, AtaTyped
<1>4. PICK y : y = SectorGiven(req.drive)
  OBVIOUS
<1>5. /\ y \in Drive /\ DriveOK(y) /\ Mine.lba \in Lba /\ y.op = Mine.op /\ y.held = Nothing
      /\ y.lba = Mine.lba + 1 /\ y.left = Mine.left - 1
      /\ y.phase = (IF Mine.left = 1 THEN "idle" ELSE "busy")
  <2>1. y = Given(Mine)
    BY <1>4 DEF SectorGiven, Mine, Given
  <2> QED
    BY <1>3, <2>1, GivenOK
<1>6. drive' \in [Drives -> Drive] /\ Mine' = y /\ \A d \in Drives : DriveOK(drive'[d])
  BY <1>1, <1>4, <1>5, AtaTyped DEF Mine, AtaTypes
<1>7. given \in Data \cup {Nothing}
  BY <1>1, <1>5, AtaTyped
<1> HIDE DEF given
<1>8. /\ Len(buffer') = Len(buffer) + 1 /\ buffer' \in Seq(Data \cup {Nothing})
      /\ buffer'[Len(buffer) + 1] = given /\ Len(buffer) \in Nat
      /\ \A i \in 1..Len(buffer) : buffer'[i] = buffer[i]
  BY <1>1, <1>2, <1>7, AtaTyped
<1>9. Len(buffer) < req.count /\ req.count <= Sectors /\ req.count \in Nat /\ Sectors \in Nat
      /\ req.count > 0 /\ req.lba + req.count <= Sectors
  BY <1>1, AtaTyped DEF AtaInv, CallOK, Polling
<1>10. \/ LastOne /\ ata_pc' = "idle" /\ result' = "ok"
       \/ ~LastOne /\ ata_pc' = "bsy" /\ result' = result
  BY DEF ReadSector, Return
<1>11. AtaTypes'
  <2>1. Len(buffer') <= Sectors /\ \A i \in 1..Len(buffer') : buffer'[i] \in Data \cup {Nothing}
    BY <1>8, <1>9
  <2> QED
    BY <1>1, <1>6, <1>8, <1>10, <2>1 DEF AtaTypes, AtaTypeOK, Drive
<1>12. CallOK'
  BY <1>1, <1>8, <1>9, <1>10 DEF CallOK, Polling, LastOne
<1>13. ReadInv'
  <2> SUFFICES ASSUME ~suspect PROVE ReadInv'
    BY <1>1 DEF ReadInv
  <2>1. Awaiting("read") /\ Got(Len(buffer))
    BY <1>1, <1>3 DEF AtaInv, ReadInv, Polling
  <2>2. given = disk[SectorAt(Len(buffer) + 1)]
    BY <1>8, <2>1, AtaTyped, <1>1 DEF given, Awaiting, SectorAt
  <2>3. Got(Len(buffer))'
    <3>1. SectorAt(Len(buffer) + 1) = <<req.drive, req.lba + Len(buffer)>>
      BY <1>8, AtaTyped, <1>1 DEF SectorAt
    <3>2. ASSUME NEW i \in 1..Len(buffer') PROVE buffer'[i] = disk[SectorAt(i)]
      <4>1. CASE i \in 1..Len(buffer)
        BY <1>8, <2>1, <4>1 DEF Got
      <4>2. CASE i = Len(buffer) + 1
        BY <1>8, <2>2, <4>2
      <4> QED
        BY <1>8, <4>1, <4>2
    <3> QED
      BY <1>1, <3>2 DEF Got, SectorAt
  <2>4. Awaiting("read")'
    <3>1. /\ Mine.op = "read" /\ Mine.lba = req.lba + Len(buffer)
          /\ Mine.left = req.count - Len(buffer)
      BY <2>1 DEF Awaiting
    <3>2. req.lba \in Nat /\ req.count \in Nat /\ Len(buffer) \in Nat /\ req' = req
      BY <1>1, AtaTyped
    <3>3. y.lba = req.lba + (Len(buffer) + 1) /\ y.left = req.count - (Len(buffer) + 1)
      BY <1>5, <3>1, <3>2
    <3> QED
      BY <1>5, <1>6, <1>8, <3>1, <3>2, <3>3 DEF Awaiting
  <2>5. LastOne => ~Answering(Mine')
    BY <1>5, <1>6, <1>8, <1>9, <2>1 DEF LastOne, Awaiting, Answering
  <2> QED
    <3>1. CASE LastOne
      <4>1. Len(buffer') = req.count /\ Got(req.count)'
        BY <1>1, <1>8, <2>3, <3>1 DEF LastOne, Got
      <4> QED
        BY <1>1, <1>10, <2>5, <3>1, <4>1 DEF ReadInv, Polling
    <3>2. CASE ~LastOne
      BY <1>1, <1>10, <2>3, <2>4, <3>2 DEF ReadInv, Polling
    <3> QED
      BY <3>1, <3>2
<1>14. WriteInv'
  BY <1>1 DEF WriteInv
<1> QED
  BY <1>11, <1>12, <1>13, <1>14 DEF AtaInv

LEMMA WriteSectorInv == ASSUME AtaInv, WriteSector PROVE AtaInv'
<1>1. /\ ata_pc = "drq" /\ req.op = "write" /\ Drq
      /\ UNCHANGED <<disk, req, result, stamp, suspect, unseen>>
      /\ buffer' = Append(buffer, Nothing)
      /\ ata_pc' = IF LastOne THEN "flush" ELSE "bsy"
      /\ AtaTypes
  BY DEF WriteSector, AtaInv
<1>0. PICK n \in Nat : n = Len(buffer) + 1
  BY <1>1, AtaTyped
<1>2. /\ n = Len(buffer) + 1 /\ n >= 1 /\ n <= req.count /\ req.count <= Sectors /\ req.count \in Nat
      /\ Sectors \in Nat /\ req.count > 0 /\ req.lba + req.count <= Sectors /\ req.lba \in Nat
      /\ Len(buffer) \in Nat
  BY <1>0, <1>1, AtaTyped DEF AtaInv, CallOK, Polling
<1>3. req.drive \in Present /\ Mine.phase = "drq" /\ Answering(Mine) /\ DriveOK(Mine) /\ Mine \in Drive
  BY <1>1, DrqMine, AtaTyped
<1>4. <<SectorAt(n), stamp>> \in Data
  <2>1. req.lba + n - 1 \in Lba /\ req.drive \in Drives
    BY <1>1, <1>2, AtaTyped DEF Lba
  <2>2. stamp \in BOOLEAN
    BY <1>1 DEF AtaTypes, AtaTypeOK
  <2> QED
    BY <2>1, <2>2 DEF SectorAt, Data
<1>5. PICK y : /\ drive' = [drive EXCEPT ![req.drive] = y]
               /\ y = IF Mine.op = "write"
                      THEN [Mine EXCEPT !.phase = "busy", !.held = <<SectorAt(n), stamp>>]
                      ELSE SectorGiven(req.drive)
  <2>1. req.lba + Len(buffer) = req.lba + n - 1
    BY <1>2
  <2> QED
    BY <1>1, <2>1, AtaTyped DEF WriteSector, Mine, SectorAt
<1>6. y \in Drive /\ DriveOK(y)
  <2>1. CASE Mine.op = "write"
    BY <1>3, <1>4, <1>5, <2>1 DEF Drive, DriveOK, Answering
  <2>2. CASE Mine.op # "write"
    <3>1. y = Given(Mine)
      BY <1>5, <2>2 DEF SectorGiven, Mine, Given
    <3> QED
      BY <1>3, <3>1, GivenOK
  <2> QED
    BY <2>1, <2>2
<1>7. drive' \in [Drives -> Drive] /\ Mine' = y /\ \A d \in Drives : DriveOK(drive'[d])
  BY <1>1, <1>5, <1>6, AtaTyped DEF Mine, AtaTypes
<1>8. /\ Len(buffer') = n /\ buffer' \in Seq(Data \cup {Nothing})
      /\ \A i \in 1..Len(buffer') : buffer'[i] \in Data \cup {Nothing}
  BY <1>1, <1>2, AtaTyped
<1>9. AtaTypes'
  BY <1>1, <1>2, <1>7, <1>8 DEF AtaTypes, AtaTypeOK, Drive
<1>10. CallOK'
  BY <1>1, <1>2, <1>8 DEF CallOK, Polling, LastOne
<1>11. ReadInv'
  BY <1>1 DEF ReadInv
<1>12. WriteInv'
  <2> SUFFICES ASSUME ~suspect PROVE WriteInv'
    BY <1>1 DEF WriteInv
  <2>1. Awaiting("write") /\ Landed(Len(buffer))
    BY <1>1, <1>3 DEF AtaInv, WriteInv, Polling, Writing
  <2>2. /\ y.phase = "busy" /\ y.op = "write" /\ y.held = <<SectorAt(n), stamp>>
        /\ y.lba = Mine.lba /\ y.left = Mine.left
    BY <1>3, <1>5, <2>1 DEF Awaiting, Drive
  <2>3. Landed(n - 1)'
    <3>1. n - 1 = Len(buffer)
      BY <1>2
    <3>2. \A i \in 1..(n - 1) : disk[SectorAt(i)] = <<SectorAt(i), stamp>>
      BY <2>1, <3>1 DEF Landed
    <3> QED
      BY <1>1, <3>2 DEF Landed, SectorAt
  <2>4. Writing(n)'
    <3>1. y.lba = req.lba + n - 1 /\ y.left = req.count - n + 1
      BY <1>2, <2>1, <2>2 DEF Awaiting
    <3>2. SectorAt(n)' = SectorAt(n) /\ stamp' = stamp /\ req' = req
      BY <1>1 DEF SectorAt
    <3> QED
      BY <1>7, <2>2, <2>3, <3>1, <3>2 DEF Writing
  <2>5. Writing(Len(buffer))' /\ (LastOne => Writing(req.count)')
    <3>1. LastOne => req.count = n /\ req'.count = n
      BY <1>1, <1>2 DEF LastOne
    <3> QED
      BY <1>8, <2>4, <3>1 DEF Writing
  <2> QED
    BY <1>1, <1>2, <1>8, <2>5 DEF WriteInv, Polling, LastOne
<1> QED
  BY <1>9, <1>10, <1>11, <1>12 DEF AtaInv

LEMMA FlushInv == ASSUME AtaInv, Flush PROVE AtaInv'
<1>1. /\ ata_pc = "flush" /\ ata_pc' = "flushing" /\ AtaTypes
      /\ UNCHANGED <<disk, req, buffer, result, stamp, suspect, unseen>>
  BY DEF Flush, AtaInv
<1>2. PICK x \in Issued(req.drive, "flush", 0, 0) : drive' = [drive EXCEPT ![req.drive] = x]
  BY DEF Flush
<1>3. /\ x \in Drive /\ DriveOK(x) /\ (Mine.phase = "busy" => x = Mine)
      /\ x \in {Mine, Obeyed(req.drive, "flush", 0, 0)}
  <2>1. req.drive \in Drives /\ 0 \in 0..Sectors
    BY <1>1, AtaTyped
  <2>2. x \in Drive /\ DriveOK(x) /\ (Mine.phase = "busy" => x = Mine)
    BY <1>1, <1>2, <2>1, Issuing DEF Mine
  <2> QED
    BY <1>2, <2>2 DEF Issued, Mine
<1>4. drive' \in [Drives -> Drive] /\ Mine' = x /\ \A d \in Drives : DriveOK(drive'[d])
  BY <1>1, <1>2, <1>3, AtaTyped DEF Mine, AtaTypes
<1>5. AtaTypes'
  BY <1>1, <1>4 DEF AtaTypes, AtaTypeOK, Drive
<1>6. CallOK' /\ ReadInv'
  BY <1>1 DEF AtaInv, CallOK, ReadInv, Polling
<1>7. WriteInv'
  <2> SUFFICES ASSUME ~suspect, ~unseen PROVE WriteInv'
    BY <1>1 DEF WriteInv, Polling
  <2>1. Writing(req.count) \/ (Mine.held = Nothing /\ Landed(req.count))
    BY <1>1 DEF AtaInv, WriteInv, CallOK
  <2>2. CASE Writing(req.count)
    <3>1. Writing(req.count)'
      BY <1>1, <1>3, <1>4, <2>2 DEF Writing, Landed, SectorAt
    <3> QED
      BY <1>1, <3>1 DEF WriteInv, Polling
  <2>3. CASE Mine.held = Nothing /\ Landed(req.count)
    <3>1. Mine'.held = Nothing /\ Landed(req.count)'
      BY <1>1, <1>3, <1>4, <2>3 DEF Obeyed, Landed, SectorAt
    <3> QED
      BY <1>1, <3>1 DEF WriteInv, Polling
  <2> QED
    BY <2>1, <2>2, <2>3
<1> QED
  BY <1>5, <1>6, <1>7 DEF AtaInv

-----------------------------------------------------------------------------
\* The drives' own steps.
LEMMA DriveTyped ==
    ASSUME AtaTypes, NEW d \in Drives, Busy(d)
    PROVE  /\ d \in Present /\ drive[d] \in Drive /\ DriveOK(drive[d]) /\ drive[d].phase = "busy"
           /\ drive[d].lba \in Nat /\ drive[d].left \in Nat
BY AtaTyped DEF Busy, AtaTypes, Drive

\* A drive other than the one spoken to changes nothing the call is about.
LEMMA OtherDrive ==
    ASSUME AtaInv, NEW d \in Drives, d # req.drive, NEW y, AtaTypes',
           drive' = [drive EXCEPT ![d] = y],
           UNCHANGED <<ata_pc, req, buffer, result, stamp, suspect>>,
           unseen => unseen',
           \A i \in Nat : disk'[SectorAt(i)] = disk[SectorAt(i)]
    PROVE  AtaInv'
<1>1. Mine' = Mine /\ Len(buffer) \in Nat /\ req.count \in Nat
  BY AtaTyped DEF Mine, AtaInv
<1>2. /\ \A n \in Nat : Got(n) => Got(n)'
      /\ \A n \in Int : Landed(n) => Landed(n)'
  <2>1. /\ \A i : SectorAt(i)' = SectorAt(i)
        /\ stamp' = stamp /\ buffer' = buffer
    BY DEF SectorAt
  <2>2. ASSUME NEW n \in Nat, Got(n) PROVE Got(n)'
    BY <2>1, <2>2 DEF Got
  <2>3. ASSUME NEW n \in Int, Landed(n) PROVE Landed(n)'
    BY <2>1, <2>3 DEF Landed
  <2> QED
    BY <2>2, <2>3
<1>3. /\ \A n \in Nat : Writing(n) => Writing(n)'
      /\ \A op : Awaiting(op) => Awaiting(op)'
  BY <1>1, <1>2 DEF Writing, Awaiting, SectorAt
<1>4. CallOK' /\ ReadInv'
  BY <1>1, <1>2, <1>3 DEF AtaInv, CallOK, ReadInv, Polling
<1>5. WriteInv'
  BY <1>1, <1>2, <1>3 DEF AtaInv, WriteInv, Polling
<1> QED
  BY <1>4, <1>5 DEF AtaInv

LEMMA DriveFailsInv == ASSUME AtaInv, NEW d \in Drives, DriveFails(d) PROVE AtaInv'
<1>1. /\ Busy(d) /\ AtaTypes /\ UNCHANGED <<disk, ata_pc, req, buffer, result, stamp, suspect>>
      /\ unseen' = (unseen \/ (drive[d].held # Nothing /\ ata_pc \notin {"bsy", "drq"}))
  BY DEF DriveFails, AtaInv
<1>2. PICK y : /\ y = [drive[d] EXCEPT !.phase = "err", !.held = Nothing]
               /\ drive' = [drive EXCEPT ![d] = y]
  BY DEF DriveFails, Turns
<1>3. y \in Drive /\ DriveOK(y) /\ ~Answering(y) /\ y.held = Nothing
  BY <1>1, <1>2, DriveTyped DEF Drive, DriveOK, Answering
<1>4. AtaTypes'
  <2>1. drive' \in [Drives -> Drive] /\ \A e \in Drives : DriveOK(drive'[e])
    BY <1>1, <1>2, <1>3, AtaTyped DEF AtaTypes
  <2>2. unseen' \in BOOLEAN
    <3>1. unseen' = (unseen \/ (drive[d].held # Nothing /\ ata_pc \notin {"bsy", "drq"}))
      BY <1>1
    <3> QED
      BY <3>1
  <2> QED
    BY <1>1, <2>1, <2>2 DEF AtaTypes, AtaTypeOK, Drive
<1>5. CASE d # req.drive
  BY <1>1, <1>2, <1>4, <1>5, OtherDrive
<1>6. CASE d = req.drive
  <2>1. Mine' = y
    BY <1>1, <1>2, <1>6, AtaTyped DEF Mine
  <2>2. CallOK' /\ ReadInv'
    <3>1. Answering(Mine)
      BY <1>1, <1>6 DEF Busy, Mine, Answering
    <3> QED
      BY <1>1, <1>3, <2>1, <3>1 DEF AtaInv, CallOK, ReadInv, Polling
  <2>3. WriteInv'
    <3> SUFFICES ASSUME ~suspect, req.op = "write", ~unseen',
                        ata_pc \in {"flush", "flushing"} \/ (ata_pc = "idle" /\ result = "ok")
                 PROVE  Mine'.held = Nothing /\ Landed(req.count)'
      BY <1>1, <1>3, <2>1 DEF WriteInv, Polling
    <3>1. ~unseen /\ Mine.held = Nothing
      BY <1>1, <1>6 DEF Mine
    <3>2. ~Writing(req.count)
      BY <3>1 DEF Writing, Nothing
    <3>3. Landed(req.count)
      BY <3>1, <3>2 DEF AtaInv, WriteInv
    <3> QED
      BY <1>1, <1>3, <2>1, <3>3 DEF Landed, SectorAt
  <2> QED
    BY <1>4, <2>2, <2>3 DEF AtaInv
<1> QED
  BY <1>5, <1>6

LEMMA DriveReadyInv == ASSUME AtaInv, NEW d \in Drives, DriveReady(d) PROVE AtaInv'
<1>1. /\ Busy(d) /\ AtaTypes /\ drive[d].held = Nothing
      /\ UNCHANGED <<disk, ata_pc, req, buffer, result, stamp, suspect, unseen>>
  BY DEF DriveReady, AtaInv, Driver
<1>2. PICK y : /\ y = [drive[d] EXCEPT !.phase = IF drive[d].op = "flush" THEN "idle" ELSE "drq"]
               /\ drive' = [drive EXCEPT ![d] = y]
  BY DEF DriveReady, Turns
<1>3. /\ y \in Drive /\ DriveOK(y) /\ y.held = Nothing /\ y.op = drive[d].op
      /\ y.lba = drive[d].lba /\ y.left = drive[d].left
  BY <1>1, <1>2, DriveTyped DEF Drive, DriveOK, Answering
<1>4. AtaTypes'
  <2>1. drive' \in [Drives -> Drive] /\ \A e \in Drives : DriveOK(drive'[e])
    BY <1>1, <1>2, <1>3, AtaTyped DEF AtaTypes
  <2> QED
    BY <1>1, <2>1 DEF AtaTypes, AtaTypeOK, Drive
<1>5. CASE d # req.drive
  BY <1>1, <1>2, <1>4, <1>5, OtherDrive
<1>6. CASE d = req.drive
  <2>1. Mine' = y /\ Answering(Mine) /\ Mine.held = Nothing /\ req.drive \in Present
    BY <1>1, <1>2, <1>6, AtaTyped DEF Mine, Busy, Answering
  <2>2. \A op : Awaiting(op) => Awaiting(op)'
    BY <1>1, <1>3, <1>6, <2>1 DEF Awaiting, Mine
  <2>3. /\ \A n : Got(n) => Got(n)'
        /\ \A n : Landed(n) => Landed(n)'
        /\ \A n : ~Writing(n)
    <3>1. \A n : Got(n) => Got(n)'
      BY <1>1 DEF Got, SectorAt
    <3>2. \A n : Landed(n) => Landed(n)'
      BY <1>1 DEF Landed, SectorAt
    <3>3. \A n : ~Writing(n)
      BY <2>1 DEF Writing, Nothing
    <3> QED
      BY <3>1, <3>2, <3>3
  <2>4. CallOK' /\ ReadInv'
    BY <1>1, <1>3, <2>1, <2>2, <2>3 DEF AtaInv, CallOK, ReadInv, Polling
  <2>5. WriteInv'
    BY <1>1, <1>3, <2>1, <2>2, <2>3 DEF AtaInv, WriteInv, Polling
  <2> QED
    BY <1>4, <2>4, <2>5 DEF AtaInv
<1> QED
  BY <1>5, <1>6

LEMMA DriveWritesInv == ASSUME AtaInv, NEW d \in Drives, DriveWrites(d) PROVE AtaInv'
<1>1. /\ Busy(d) /\ AtaTypes /\ drive[d].held # Nothing
      /\ UNCHANGED <<ata_pc, req, buffer, result, stamp, suspect, unseen>>
      /\ disk' = [disk EXCEPT ![<<d, drive[d].lba>>] = drive[d].held]
  BY DEF DriveWrites, AtaInv, Driver
<1>2. PICK y : /\ y = [drive[d] EXCEPT !.held = Nothing, !.lba = @ + 1, !.left = @ - 1,
                                       !.phase = IF drive[d].left = 1 THEN "idle" ELSE "drq"]
               /\ drive' = [drive EXCEPT ![d] = y]
  BY DEF DriveWrites, Turns
<1>3. /\ drive[d] \in Drive /\ drive[d].op = "write" /\ drive[d].left >= 1
      /\ drive[d].lba + drive[d].left <= Sectors /\ drive[d].held \in Data
      /\ drive[d].lba \in Nat /\ drive[d].left \in Nat /\ d \in Present
  BY <1>1, DriveTyped DEF Drive, DriveOK, Answering
<1>4. Sectors \in Nat /\ drive[d].lba \in Lba
  BY <1>3, SectorsAssumption DEF Lba
<1>5. /\ y \in Drive /\ y.op = "write" /\ y.held = Nothing /\ y.lba = drive[d].lba + 1
      /\ y.left = drive[d].left - 1 /\ y.phase = (IF drive[d].left = 1 THEN "idle" ELSE "drq")
  <2>1. drive[d].lba + 1 \in 0..Sectors /\ drive[d].left - 1 \in 0..Sectors
    BY <1>3, <1>4
  <2>2. (IF drive[d].left = 1 THEN "idle" ELSE "drq") \in {"idle", "busy", "drq", "err"}
    OBVIOUS
  <2>3. y \in Drive
    BY <1>2, <1>3, <2>1, <2>2 DEF Drive
  <2> QED
    BY <1>2, <1>3, <2>3 DEF Drive
<1>6. DriveOK(y)
  BY <1>3, <1>4, <1>5 DEF DriveOK, Answering
<1>7. AtaTypes'
  <2>1. drive' \in [Drives -> Drive] /\ \A e \in Drives : DriveOK(drive'[e])
    BY <1>1, <1>2, <1>5, <1>6, AtaTyped DEF AtaTypes
  <2>2. disk' \in [Drives \X Lba -> Data]
    BY <1>1, <1>3, <1>4, AtaTyped
  <2> QED
    BY <1>1, <2>1, <2>2 DEF AtaTypes, AtaTypeOK, Drive
<1>8. CASE d # req.drive
  <2>1. \A i \in Nat : disk'[SectorAt(i)] = disk[SectorAt(i)]
    BY <1>1, <1>8, AtaTyped DEF SectorAt
  <2> QED
    BY <1>1, <1>2, <1>7, <1>8, <2>1, OtherDrive
<1>9. CASE d = req.drive
  <2>1. Mine' = y /\ Answering(Mine) /\ Mine.held # Nothing /\ req.drive \in Present /\ Mine = drive[d]
    BY <1>1, <1>2, <1>3, <1>9, AtaTyped DEF Mine, Busy, Answering
  <2>2. \A op : ~Awaiting(op)
    BY <2>1 DEF Awaiting
  <2>3. CallOK' /\ ReadInv'
    BY <1>1, <2>1, <2>2 DEF AtaInv, CallOK, ReadInv, Polling
  <2>4. ASSUME NEW n \in 1..req.count, Writing(n)
        PROVE  /\ Landed(n)' /\ y.held = Nothing /\ y.op = "write" /\ y.lba = req.lba + n
               /\ y.left = req.count - n
    <3>1. req.count \in Nat /\ req.lba \in Nat /\ n \in Nat
          /\ drive[d].lba = req.lba + n - 1 /\ drive[d].left = req.count - n + 1
      BY <1>1, <2>1, <2>4, AtaTyped DEF Writing
    <3>2. y.lba = req.lba + n /\ y.left = req.count - n
      BY <1>5, <3>1
    <3>3. SectorAt(n) = <<d, drive[d].lba>> /\ SectorAt(n)' = SectorAt(n)
          /\ drive[d].held = <<SectorAt(n), stamp>>
      BY <1>1, <1>9, <2>1, <2>4, <3>1 DEF SectorAt, Writing
    <3>4. disk'[SectorAt(n)] = <<SectorAt(n), stamp>>
      BY <1>1, <1>3, <1>4, <3>3, AtaTyped
    <3>5. ASSUME NEW i \in 1..(n - 1)
          PROVE  disk'[SectorAt(i)] = <<SectorAt(i), stamp>>
      <4>1. disk[SectorAt(i)] = <<SectorAt(i), stamp>>
        BY <2>4 DEF Writing, Landed
      <4>2. req.lba + i - 1 # drive[d].lba
        BY <3>1
      <4>3. SectorAt(i) # <<d, drive[d].lba>> /\ SectorAt(i) = <<d, req.lba + i - 1>>
        BY <1>9, <4>2 DEF SectorAt
      <4>4. req.lba + i - 1 \in Lba
        BY <1>3, <3>1, <1>4, <3>2 DEF Lba
      <4>5. SectorAt(i) \in Drives \X Lba
        BY <4>3, <4>4
      <4> QED
        BY <1>1, <4>1, <4>3, <4>5, AtaTyped
    <3>6. \A i \in 1..n : disk'[SectorAt(i)] = <<SectorAt(i), stamp>>
      BY <3>1, <3>4, <3>5
    <3> QED
      BY <1>1, <1>5, <3>2, <3>6 DEF Landed, SectorAt
  <2>5. WriteInv'
    <3> SUFFICES ASSUME ~suspect, req.op = "write" PROVE WriteInv'
      BY <1>1 DEF WriteInv
    <3>1. CASE Polling
      <4>1. /\ Len(buffer) > 0 /\ Writing(Len(buffer)) /\ Len(buffer) \in 1..req.count
            /\ Len(buffer) \in Nat /\ req.count \in Nat
        BY <1>1, <2>1, <2>2, <3>1, AtaTyped DEF AtaInv, WriteInv, CallOK
      <4>2. Landed(Len(buffer))' /\ Awaiting("write")'
        BY <1>1, <2>1, <2>4, <4>1 DEF Awaiting
      <4> QED
        BY <1>1, <3>1, <4>2 DEF WriteInv, Polling
    <3>2. CASE ata_pc \in {"flush", "flushing"} \/ (ata_pc = "idle" /\ result = "ok")
      <4>1. unseen \/ Writing(req.count)
        BY <2>1, <3>2 DEF AtaInv, WriteInv
      <4>2. req.count \in 1..req.count
        BY <1>1, <3>2, AtaTyped DEF AtaInv, CallOK
      <4>3. unseen \/ (Mine'.held = Nothing /\ Landed(req.count)')
        <5>1. PICK n \in 1..req.count : n = req.count
          BY <4>2
        <5>2. Writing(req.count) => Writing(n)
          BY <5>1
        <5>3. Writing(n) => Mine'.held = Nothing /\ Landed(n)'
          BY <2>1, <2>4
        <5>4. Landed(n)' => Landed(req.count)'
          BY <1>1, <5>1 DEF Landed
        <5> QED
          BY <4>1, <5>2, <5>3, <5>4
      <4> QED
        BY <1>1, <3>2, <4>3 DEF WriteInv, Polling
    <3> QED
      BY <1>1, <3>1, <3>2 DEF WriteInv, Polling
  <2> QED
    BY <1>7, <2>3, <2>5 DEF AtaInv
<1> QED
  BY <1>8, <1>9

LEMMA AtaNextInv == AtaInv /\ [AtaNext]_ataVars => AtaInv'
<1> SUFFICES ASSUME AtaInv, [AtaNext]_ataVars PROVE AtaInv'
  OBVIOUS
<1>1. ASSUME NEW r \in Requests, Request(r) PROVE AtaInv'
  BY <1>1, RequestInv
<1>2. ASSUME WaitBsy \/ WaitDrqFails \/ FlushEnds \/ \E r \in Requests : RequestNothing(r)
      PROVE  AtaInv'
  BY <1>2, WaitInv
<1>3. ASSUME ReadSector \/ WriteSector \/ Flush PROVE AtaInv'
  BY <1>3, ReadSectorInv, WriteSectorInv, FlushInv
<1>4. ASSUME NEW d \in Drives, DriveFails(d) \/ DriveReady(d) \/ DriveWrites(d) PROVE AtaInv'
  BY <1>4, DriveFailsInv, DriveReadyInv, DriveWritesInv
<1>5. ASSUME UNCHANGED ataVars PROVE AtaInv'
  BY <1>5 DEF ataVars, AtaInv, AtaTypes, AtaTypeOK, CallOK, ReadInv, WriteInv, Polling, Mine, Awaiting,
     Writing, Got, Landed, SectorAt
<1> QED
  BY <1>1, <1>2, <1>3, <1>4, <1>5 DEF AtaNext

\* What the driver and the drive it speaks to make of a call, at every step of it.
THEOREM AtaInvariance == AtaSpec => []AtaInv
BY AtaInitInv, AtaNextInv, PTL DEF AtaSpec

\* The drives, the sectors in flight and the caller's buffer keep their types
\* (ata.c:62-154).
THEOREM AtaTypeCorrect == AtaSpec => []AtaTypeOK
<1>1. AtaInv => AtaTypeOK
  BY DEF AtaInv, AtaTypes
<1> QED
  BY <1>1, AtaInvariance, PTL

\* For any number of sectors and whichever drives are there: a read that returns 0 has
\* delivered the sectors asked for in their order, and a write that returns 0 has
\* put its data on the disk, with the exceptions the definitions name (ata.c:109-154).
THEOREM TransfersCorrect == AtaSpec => []TransfersRight
<1>1. AtaInv => TransfersRight
  <2> SUFFICES ASSUME AtaInv PROVE TransfersRight
    OBVIOUS
  <2>1. /\ buffer \in Seq(Data \cup {Nothing}) /\ req.count \in Nat /\ Len(buffer) \in Nat
        /\ Asked = [i \in 1..req.count |-> SectorAt(i)]
    BY AtaTyped DEF AtaInv, Asked, SectorAt
  <2>2. ReadsRight
    <3> SUFFICES ASSUME Succeeded("read")
                 PROVE  buffer = [i \in 1..req.count |-> disk[Asked[i]]]
      BY DEF ReadsRight
    <3>1. Len(buffer) = req.count /\ Got(req.count)
      BY DEF AtaInv, ReadInv, Succeeded
    <3> QED
      BY <2>1, <3>1 DEF Got
  <2>3. WritesLand
    <3> SUFFICES ASSUME Succeeded("write"), drive[req.drive].held = Nothing, ~unseen
                 PROVE  \A i \in 1..req.count : disk[Asked[i]] = <<Asked[i], stamp>>
      BY DEF WritesLand
    <3>1. ~Writing(req.count)
      BY DEF Writing, Mine, Nothing
    <3>2. Landed(req.count)
      BY <3>1 DEF AtaInv, WriteInv, Succeeded
    <3> QED
      BY <2>1, <3>2 DEF Landed
  <2> QED
    BY <2>2, <2>3 DEF TransfersRight
<1> QED
  BY <1>1, AtaInvariance, PTL

-----------------------------------------------------------------------------
\* The clock.  Weight is what its equation says.
WeightBody(w) == [i \in 1..Len(Radix) |-> IF i = 1 THEN 1 ELSE w[i - 1] * Radix[i - 1]]
LEMMA WeightExists == Weight = WeightBody(Weight)
<1> DEFINE N == Len(Radix)
           step == [x \in Nat \X Nat |-> <<IF x[2] + 1 < N THEN x[1] * Radix[x[2] + 1] ELSE x[1],
                                           x[2] + 1>>]
<1>1. N \in Nat \ {0} /\ \A i \in 1..N : Radix[i] \in Nat
  BY RadixAssumption, EmptySeq, LenProperties, ElementOfSeq
<1> HIDE DEF N
<1>2. step \in [Nat \X Nat -> Nat \X Nat]
  <2>1. ASSUME NEW d \in Nat, NEW k \in Nat, k + 1 < N PROVE d * Radix[k + 1] \in Nat
    <3>1. k + 1 \in 1..N
      BY <1>1, <2>1
    <3>2. PICK r \in Nat : r = Radix[k + 1]
      BY <1>1, <3>1
    <3> QED
      BY <3>2
  <2>2. ASSUME NEW x \in Nat \X Nat
        PROVE  <<IF x[2] + 1 < N THEN x[1] * Radix[x[2] + 1] ELSE x[1], x[2] + 1>> \in Nat \X Nat
    <3>1. PICK d \in Nat, k \in Nat : d = x[1] /\ k = x[2]
      OBVIOUS
    <3>2. k + 1 \in Nat /\ (k + 1 < N => d * Radix[k + 1] \in Nat)
      BY <2>1
    <3>3. (IF k + 1 < N THEN d * Radix[k + 1] ELSE d) \in Nat
      BY ONLY <3>1, <3>2
    <3> QED
      BY <3>1, <3>2, <3>3
  <2> QED
    BY ONLY <2>2
<1>3. PICK g \in [Nat -> Nat \X Nat] : Iterates(g, step, <<1, 0>>)
  <2>1. <<1, 0>> \in Nat \X Nat
    OBVIOUS
  <2> HIDE DEF step
  <2> QED
    BY <1>2, <2>1, Iteration
<1>0. \A x \in Nat \X Nat : step[x] = <<IF x[2] + 1 < N THEN x[1] * Radix[x[2] + 1] ELSE x[1], x[2] + 1>>
  OBVIOUS
<1> HIDE DEF step
<1>4. \A k \in Nat : g[k][2] = k
  <2> DEFINE T == {k \in Nat : g[k][2] = k}
  <2>1. 0 \in T
    BY <1>3 DEF Iterates
  <2>2. ASSUME NEW k \in Nat, k \in T PROVE k + 1 \in T
    <3>1. g[k + 1] = step[g[k]] /\ g[k] \in Nat \X Nat /\ g[k][2] = k
      BY <1>3, <2>2 DEF Iterates
    <3> QED
      BY <1>0, <3>1
  <2> HIDE DEF T
  <2>3. Nat \subseteq T
    BY <2>1, <2>2, SetInduction
  <2> QED
    BY <2>3 DEF T
<1> DEFINE h == [i \in 1..N |-> g[i - 1][1]]
<1>5. h = WeightBody(h)
  <2>1. ASSUME NEW i \in 1..N PROVE h[i] = IF i = 1 THEN 1 ELSE h[i - 1] * Radix[i - 1]
    <3>1. CASE i = 1
      <4>1. i - 1 = 0 /\ g[0] = <<1, 0>>
        BY <1>3, <3>1 DEF Iterates
      <4>2. h[i] = g[0][1]
        BY <4>1
      <4> QED
        BY <3>1, <4>1, <4>2
    <3>2. CASE i # 1
      <4>1. PICK k \in Nat : i = k + 2 /\ i - 1 = k + 1 /\ (k + 1) - 1 = k /\ k + 1 < N /\ k + 1 \in 1..N
        <5>1. i - 2 \in Nat /\ i = (i - 2) + 2 /\ i - 1 = (i - 2) + 1 /\ ((i - 2) + 1) - 1 = i - 2
              /\ (i - 2) + 1 < N /\ (i - 2) + 1 \in 1..N
          BY <1>1, <3>2
        <5> QED
          BY <5>1
      <4>2. g[k + 1] = step[g[k]] /\ g[k] \in Nat \X Nat /\ g[k][2] = k
        BY <1>3, <1>4 DEF Iterates
      <4>3. g[k + 1][1] = g[k][1] * Radix[k + 1]
        BY <1>0, <4>1, <4>2
      <4>4. h[i] = g[k + 1][1] /\ h[i - 1] = g[k][1]
        BY <4>1
      <4> QED
        BY <3>2, <4>1, <4>3, <4>4
    <3> QED
      BY <3>1, <3>2
  <2> HIDE DEF h
  <2>2. DOMAIN h = 1..N /\ h = [i \in 1..N |-> h[i]]
    BY DEF h
  <2> QED
    BY <2>1, <2>2 DEF WeightBody, N
<1> HIDE DEF h
<1>6. Weight = CHOOSE w : w = WeightBody(w)
  BY DEF Weight, WeightBody
<1> QED
  BY <1>5, <1>6

\* The registers of one time, and one after the other from x to y.
Exact(r, x, y) == \E t \in x..y : r = Registers(t)
Spread(r, x, y) ==
    /\ r # <<>> => r[1] = Register(x, 1)
    /\ \A i \in 1..Len(r) : \E t \in x..y : r[i] = Register(t, i)
\* The two readings, one after the other, with no garbage unless they say so.
Apiece(x, y, z) ==
    /\ since <= x /\ x <= y /\ y <= z /\ z <= rtc_time
    /\ hit_a # "undefined" => Spread(a, x, y)
    /\ hit_b # "undefined" => Spread(b, z, rtc_time)

RtcTypes ==
    /\ rtc_time \in Nat /\ since \in Nat /\ since <= rtc_time
    /\ rtc_pc \in {"idle", "wait", "read", "compare", "draw"}
    /\ a \in Seq(Nat) /\ b \in Seq(Nat)
    /\ Len(a) \in {0, Len(Radix)} /\ Len(b) <= Len(Radix)
    /\ {hit_a, hit_b} \subseteq Hits
ReadingInv ==
    /\ rtc_pc = "wait" => b = <<>> /\ hit_b = "clean"
    /\ rtc_pc = "read" => /\ Len(b) < Len(Radix)
                          /\ update = "now" => hit_b # "clean"
                          /\ hit_b = "clean" => \A i \in 1..Len(b) : b[i] = Register(rtc_time, i)
    /\ rtc_pc \in {"compare", "draw"} => Len(b) = Len(Radix)
    /\ rtc_pc \in {"compare", "draw"} /\ hit_b = "clean" => Exact(b, since, rtc_time)
    /\ a # <<>> /\ hit_a = "clean" => Exact(a, since, rtc_time)
    /\ rtc_pc = "draw" => a = b
RtcInv == RtcTypes /\ ReadingInv /\ \E x, y, z \in Nat : Apiece(x, y, z)

\* Every register has its place.
LEMMA Weights ==
    /\ Len(Radix) \in Nat \ {0} /\ Weight[1] = 1
    /\ \A i \in 1..Len(Radix) : Weight[i] \in Nat \ {0} /\ Radix[i] \in Nat \ {0, 1}
<1> DEFINE N == Len(Radix)
<1>1. N \in Nat \ {0} /\ \A i \in 1..N : Radix[i] \in Nat \ {0, 1}
  BY RadixAssumption, EmptySeq, LenProperties, ElementOfSeq
<1>2. \A i \in 1..N : Weight[i] = IF i = 1 THEN 1 ELSE Weight[i - 1] * Radix[i - 1]
  BY WeightExists DEF WeightBody
<1> HIDE DEF N
<1>3. Weight[1] = 1
  BY <1>1, <1>2
<1> DEFINE T == {k \in Nat : k + 1 <= N => Weight[k + 1] \in Nat \ {0}}
<1>4. 0 \in T
  BY <1>3
<1>5. ASSUME NEW k \in Nat, k \in T PROVE k + 1 \in T
  <2>1. SUFFICES ASSUME k + 2 <= N PROVE Weight[(k + 1) + 1] \in Nat \ {0}
    BY <1>1
  <2>2. PICK v \in Nat \ {0}, r \in Nat \ {0} : v = Weight[k + 1] /\ r = Radix[k + 1]
    BY <1>1, <1>5, <2>1
  <2>3. (k + 1) + 1 \in 1..N /\ (k + 1) + 1 # 1 /\ ((k + 1) + 1) - 1 = k + 1
    BY <1>1, <2>1
  <2>4. Weight[(k + 1) + 1] = v * r
    BY <1>2, <2>2, <2>3
  <2>5. v * r \in Nat \ {0}
    BY ONLY <2>2
  <2> QED
    BY <2>4, <2>5
<1> HIDE DEF T
<1>6. Nat \subseteq T
  BY <1>4, <1>5, SetInduction
<1>7. ASSUME NEW i \in 1..N PROVE Weight[i] \in Nat \ {0}
  <2>1. i - 1 \in T /\ (i - 1) + 1 = i /\ i <= N
    BY <1>1, <1>6
  <2> QED
    BY <2>1 DEF T
<1> QED
  BY <1>1, <1>3, <1>7 DEF N

\* And its range.
LEMMA RegisterRange ==
    ASSUME NEW t \in Nat, NEW i \in 1..Len(Radix)
    PROVE  Register(t, i) \in 0..(Radix[i] - 1) /\ Register(t, i) \in Nat
<1>1. PICK w \in Nat \ {0}, r \in Nat \ {0, 1} : w = Weight[i] /\ r = Radix[i]
  BY Weights
<1>2. PICK q \in Nat : q = t \div w
  BY <1>1
<1>3. q % r \in 0..(r - 1)
  BY <1>1, <1>2
<1> QED
  BY <1>1, <1>2, <1>3 DEF Register

\* Division with remainder.
LEMMA Euclid == ASSUME NEW x \in Nat, NEW r \in Nat \ {0} PROVE x = r * (x \div r) + (x % r)
OBVIOUS

\* Two seconds that look alike are one, within a minute.
LEMMA SecondsTell ==
    ASSUME NEW x \in Nat, NEW z \in Nat, x <= z, z - x < Radix[1], Register(x, 1) = Register(z, 1)
    PROVE  x = z
<1>1. PICK r \in Nat \ {0, 1} : r = Radix[1]
  BY Weights
<1>2. Register(x, 1) = (x \div 1) % r /\ Register(z, 1) = (z \div 1) % r
  BY <1>1, Weights DEF Register
<1>3. x \div 1 = x /\ z \div 1 = z
  OBVIOUS
<1>4. x % r = z % r
  BY <1>2, <1>3
<1>5. x = r * (x \div r) + (x % r) /\ z = r * (z \div r) + (z % r)
  <2>1. r \in Nat \ {0}
    BY <1>1
  <2>2. x = r * (x \div r) + (x % r)
    BY ONLY <2>1, x \in Nat, Euclid
  <2>3. z = r * (z \div r) + (z % r)
    BY ONLY <2>1, z \in Nat, Euclid
  <2> QED
    BY ONLY <2>2, <2>3
<1>6. PICK p \in Int, q \in Int : p = x \div r /\ q = z \div r
  BY <1>1
<1>7. z - x = r * (q - p)
  BY <1>4, <1>5, <1>6
<1>8. q - p = 0
  <2>1. CASE q - p >= 1
    <3>1. r * (q - p) >= r
      BY <1>1, <1>6, <2>1
    <3> QED
      BY <1>1, <1>7, <3>1
  <2>2. CASE q - p <= -1
    <3>1. r * (q - p) < 0
      BY <1>1, <1>6, <2>2
    <3> QED
      BY <1>7, <3>1
  <2> QED
    BY <1>6, <2>1, <2>2
<1> QED
  BY <1>7, <1>8

\* One more register.
LEMMA Longer ==
    ASSUME NEW r \in Seq(Nat), NEW v \in Nat
    PROVE  LET q == Append(r, v) IN
           /\ q \in Seq(Nat) /\ Len(q) = Len(r) + 1 /\ Len(r) \in Nat /\ q # <<>>
           /\ \A i \in 1..Len(r) : q[i] = r[i]
           /\ q[Len(r) + 1] = v
<1>1. Append(r, v) \in Seq(Nat) /\ Len(Append(r, v)) = Len(r) + 1 /\ Len(r) \in Nat
  BY LenProperties
<1>2. Append(r, v) # <<>>
  BY <1>1, EmptySeq
<1>3. \A i \in 1..Len(r) : Append(r, v)[i] = r[i]
  BY <1>1
<1> QED
  BY <1>1, <1>2, <1>3

\* A reading is as old as it was, or longer ago.
LEMMA Older ==
    ASSUME NEW r, NEW x \in Nat, NEW y \in Nat, NEW z \in Nat, y <= z
    PROVE  /\ Spread(r, x, y) => Spread(r, x, z)
           /\ Exact(r, x, y) => Exact(r, x, z)
<1>1. x..y \subseteq x..z
  OBVIOUS
<1> QED
  BY <1>1 DEF Spread, Exact

\* The chip and the timer.
LEMMA ChipInv ==
    ASSUME RtcInv, Announce \/ BeginUpdate \/ EndUpdate \/ TimerSecond
    PROVE  RtcInv'
<1>1. UNCHANGED <<rtc_pc, a, b, since, hit_a>> /\ rtc_time' \in {rtc_time, rtc_time + 1}
      /\ hit_b' \in {hit_b, "crossed"} /\ (hit_b # "clean" => hit_b' = hit_b)
  BY DEF Announce, BeginUpdate, EndUpdate, TimerSecond, readings, chip
<1>2. RtcTypes'
  BY <1>1 DEF RtcInv, RtcTypes, Hits
<1>3. rtc_time \in Nat /\ rtc_time' \in Nat /\ rtc_time <= rtc_time' /\ since \in Nat
  BY <1>1 DEF RtcInv, RtcTypes
<1>4. rtc_pc # "read" => hit_b' = hit_b
  BY DEF Announce, BeginUpdate, EndUpdate, TimerSecond, readings, chip
<1>5. rtc_pc = "read" =>
        /\ update' = "now" => hit_b' # "clean"
        /\ hit_b' = "clean" => rtc_time' = rtc_time /\ hit_b = "clean"
  BY DEF Announce, BeginUpdate, EndUpdate, TimerSecond, readings, chip, RtcInv, ReadingInv, RtcTypes, Hits
<1>6. \A r : Exact(r, since, rtc_time) => Exact(r, since, rtc_time')
  BY <1>3, Older
<1>7. ReadingInv'
  <2>1. /\ rtc_pc' = "wait" => b' = <<>> /\ hit_b' = "clean"
        /\ rtc_pc' = "read" => Len(b') < Len(Radix)
        /\ rtc_pc' \in {"compare", "draw"} => Len(b') = Len(Radix)
        /\ rtc_pc' = "draw" => a' = b'
    BY <1>1, <1>4 DEF RtcInv, ReadingInv
  <2>2. /\ rtc_pc' = "read" /\ update' = "now" => hit_b' # "clean"
        /\ rtc_pc' = "read" /\ hit_b' = "clean" => \A i \in 1..Len(b') : b'[i] = Register(rtc_time', i)
    BY <1>1, <1>5 DEF RtcInv, ReadingInv
  <2>3. /\ rtc_pc' \in {"compare", "draw"} /\ hit_b' = "clean" => Exact(b', since', rtc_time')
        /\ a' # <<>> /\ hit_a' = "clean" => Exact(a', since', rtc_time')
    BY <1>1, <1>4, <1>6 DEF RtcInv, ReadingInv
  <2>4. ReadingInv' <=>
          /\ rtc_pc' = "wait" => b' = <<>> /\ hit_b' = "clean"
          /\ rtc_pc' = "read" => /\ Len(b') < Len(Radix)
                                 /\ update' = "now" => hit_b' # "clean"
                                 /\ hit_b' = "clean" => \A i \in 1..Len(b') : b'[i] = Register(rtc_time', i)
          /\ rtc_pc' \in {"compare", "draw"} => Len(b') = Len(Radix)
          /\ rtc_pc' \in {"compare", "draw"} /\ hit_b' = "clean" => Exact(b', since', rtc_time')
          /\ a' # <<>> /\ hit_a' = "clean" => Exact(a', since', rtc_time')
          /\ rtc_pc' = "draw" => a' = b'
    BY DEF ReadingInv, Exact, Registers, Register
  <2> QED
    BY ONLY <2>1, <2>2, <2>3, <2>4
<1>8. PICK x \in Nat, y \in Nat, z \in Nat : Apiece(x, y, z)
  BY DEF RtcInv
<1>9. \A r : Spread(r, z, rtc_time) => Spread(r, z, rtc_time')
  BY <1>3, Older
<1>10. Apiece(x, y, z)'
  <2>1. /\ since <= x /\ x <= y /\ y <= z /\ z <= rtc_time'
    BY <1>3, <1>8 DEF Apiece
  <2>2. hit_a # "undefined" => Spread(a, x, y)
    BY <1>8 DEF Apiece
  <2>3. hit_b' # "undefined" => Spread(b, z, rtc_time')
    BY <1>1, <1>8, <1>9 DEF Apiece
  <2>4. Apiece(x, y, z)' <=> /\ since' <= x /\ x <= y /\ y <= z /\ z <= rtc_time'
                             /\ hit_a' # "undefined" => Spread(a', x, y)
                             /\ hit_b' # "undefined" => Spread(b', z, rtc_time')
    BY DEF Apiece, Spread, Register
  <2> QED
    BY <1>1, <2>1, <2>2, <2>3, <2>4
<1> QED
  BY <1>2, <1>7, <1>10 DEF RtcInv

\* rtc_read up to the comparison: it starts anew, waits, and reads a register.
LEMMA CmosInv ==
    ASSUME RtcInv, MaybeUpdateClock \/ UpdateTested \/ CmosRead
    PROVE  RtcInv'
<1>1. /\ rtc_time \in Nat /\ since \in Nat /\ since <= rtc_time /\ Len(Radix) \in Nat \ {0}
      /\ b \in Seq(Nat) /\ Len(b) \in Nat /\ Len(b) <= Len(Radix) /\ a \in Seq(Nat)
  BY Weights, LenProperties DEF RtcInv, RtcTypes
<1>2. ReadingInv' <=>
        /\ rtc_pc' = "wait" => b' = <<>> /\ hit_b' = "clean"
        /\ rtc_pc' = "read" => /\ Len(b') < Len(Radix)
                               /\ update' = "now" => hit_b' # "clean"
                               /\ hit_b' = "clean" => \A i \in 1..Len(b') : b'[i] = Register(rtc_time', i)
        /\ rtc_pc' \in {"compare", "draw"} => Len(b') = Len(Radix)
        /\ rtc_pc' \in {"compare", "draw"} /\ hit_b' = "clean" => Exact(b', since', rtc_time')
        /\ a' # <<>> /\ hit_a' = "clean" => Exact(a', since', rtc_time')
        /\ rtc_pc' = "draw" => a' = b'
  BY DEF ReadingInv, Exact, Registers, Register
<1>3. \A x, y, z : Apiece(x, y, z)' <=> /\ since' <= x /\ x <= y /\ y <= z /\ z <= rtc_time'
                                        /\ hit_a' # "undefined" => Spread(a', x, y)
                                        /\ hit_b' # "undefined" => Spread(b', z, rtc_time')
  BY DEF Apiece, Spread, Register
<1>4. <<>> \in Seq(Nat) /\ Len(<<>>) = 0 /\ \A x, y : Spread(<<>>, x, y)
  BY EmptySeq DEF Spread
<1>5. PICK x \in Nat, y \in Nat, z \in Nat : Apiece(x, y, z)
  BY DEF RtcInv
<1>6. CASE MaybeUpdateClock
  <2>1. /\ rtc_pc' = "wait" /\ since' = rtc_time /\ rtc_time' = rtc_time /\ a' = <<>> /\ b' = <<>>
        /\ hit_a' = "clean" /\ hit_b' = "clean"
    BY <1>6 DEF MaybeUpdateClock, Goes, chip
  <2>2. RtcTypes'
    BY <1>1, <1>4, <2>1 DEF RtcTypes, Hits
  <2>3. ReadingInv'
    BY <1>2, <2>1
  <2>4. Apiece(rtc_time, rtc_time, rtc_time)'
    <3>1. PICK n \in Nat : n = rtc_time
      BY <1>1
    <3>2. Apiece(n, n, n)'
      BY <1>3, <1>4, <2>1, <3>1
    <3> QED
      BY <2>1, <3>1, <3>2 DEF Apiece
  <2> QED
    <3>1. PICK n \in Nat : n = rtc_time
      BY <1>1
    <3>2. Apiece(n, n, n)'
      BY <1>3, <1>4, <2>1, <3>1
    <3> QED
      BY <2>2, <2>3, <3>2 DEF RtcInv
<1>7. CASE UpdateTested
  <2>1. rtc_pc = "wait" /\ rtc_pc' = "read" /\ update' # "now"
        /\ UNCHANGED <<rtc_time, update, a, b, since, hit_a, hit_b>>
    BY <1>7 DEF UpdateTested, UpdateOver, Goes, chip, readings
  <2>2. b = <<>> /\ hit_b = "clean"
    BY <2>1 DEF RtcInv, ReadingInv
  <2>3. RtcTypes'
    BY <2>1 DEF RtcInv, RtcTypes
  <2>4. ReadingInv'
    <3>1. a # <<>> /\ hit_a = "clean" => Exact(a, since, rtc_time)
      BY DEF RtcInv, ReadingInv
    <3> QED
      BY <1>1, <1>2, <1>4, <2>1, <2>2, <3>1
  <2>5. Apiece(x, y, z)'
    BY <1>3, <1>5, <2>1 DEF Apiece
  <2> QED
    BY <2>3, <2>4, <2>5 DEF RtcInv
<1>8. CASE CmosRead
  <2> DEFINE n == Len(b) + 1
  <2>1. /\ rtc_pc = "read" /\ rtc_pc' = (IF n = Len(Radix) THEN "compare" ELSE "read")
        /\ UNCHANGED <<rtc_time, update, a, since, hit_a>>
    BY <1>8 DEF CmosRead, Goes, chip
  <2>2. n \in 1..Len(Radix)
    BY <1>1, <2>1 DEF RtcInv, ReadingInv
  <2>3. PICK v \in Nat :
          /\ b' = Append(b, v)
          /\ \/ /\ update = "now"
                /\ hit_b' = IF hit_b = "clean" THEN "clean" ELSE "undefined"
             \/ v = Register(rtc_time, n) /\ hit_b' = hit_b /\ update # "now"
    <3>1. Register(rtc_time, n) \in Nat
      BY <1>1, <2>2, RegisterRange
    <3> QED
      BY <1>8, <3>1 DEF CmosRead
  <2>4. /\ b' \in Seq(Nat) /\ Len(b') = n /\ b' # <<>>
        /\ \A i \in 1..Len(b) : b'[i] = b[i]
        /\ b'[n] = v
    BY <1>1, <2>3, Longer
  <2>5. hit_b' # "undefined" => v = Register(rtc_time, n) /\ hit_b' = hit_b
    BY <2>1, <2>3 DEF RtcInv, ReadingInv
  <2>6. hit_b' \in Hits
    BY <2>3 DEF RtcInv, RtcTypes, Hits
  <2>7. \A i \in 1..n : i \in 1..Len(b) \/ i = n
    BY <1>1
  <2> HIDE DEF n
  <2>8. RtcTypes'
    BY <2>1, <2>2, <2>4, <2>6 DEF RtcInv, RtcTypes
  <2>9. hit_b' = "clean" => \A i \in 1..n : b'[i] = Register(rtc_time, i)
    BY <2>1, <2>4, <2>5, <2>7 DEF RtcInv, ReadingInv
  <2>10. ReadingInv'
    <3>1. hit_b' = "clean" /\ n = Len(Radix) => Exact(b', since, rtc_time)
      <4>1. SUFFICES ASSUME hit_b' = "clean", n = Len(Radix) PROVE Exact(b', since, rtc_time)
        OBVIOUS
      <4>2. b' = Registers(rtc_time)
        <5>1. b' = [i \in 1..n |-> b'[i]]
          BY <2>4, LenProperties
        <5> QED
          BY <2>9, <4>1, <5>1 DEF Registers
      <4> QED
        BY <1>1, <4>2 DEF Exact
    <3>2. /\ a # <<>> /\ hit_a = "clean" => Exact(a, since, rtc_time)
          /\ update = "now" => hit_b # "clean"
      BY <2>1 DEF RtcInv, ReadingInv
    <3>3. update = "now" => hit_b' # "clean"
      BY <2>3, <3>2
    <3>4. n < Len(Radix) \/ n = Len(Radix)
      BY <1>1, <2>2
    <3> QED
      BY <1>1, <1>2, <2>1, <2>4, <2>9, <3>1, <3>2, <3>3, <3>4
  <2>11. CASE b = <<>>
    <3>1. PICK k \in Nat : k = rtc_time
      BY <1>1
    <3>2. hit_b' # "undefined" => Spread(b', k, k)
      <4>1. n = 1
        BY <1>4, <2>11 DEF n
      <4> QED
        BY <2>4, <2>5, <3>1, <4>1 DEF Spread
    <3>3. Apiece(x, y, k)'
      BY <1>3, <1>5, <2>1, <3>1, <3>2 DEF Apiece
    <3> QED
      BY <2>8, <2>10, <3>3 DEF RtcInv
  <2>12. CASE b # <<>>
    <3>1. Len(b) >= 1
      BY <1>1, <2>12, EmptySeq
    <3>2. hit_b' # "undefined" => Spread(b', z, rtc_time)
      <4>1. SUFFICES ASSUME hit_b' # "undefined" PROVE Spread(b', z, rtc_time)
        OBVIOUS
      <4>2. Spread(b, z, rtc_time) /\ rtc_time \in z..rtc_time
        BY <1>1, <1>5, <2>5, <4>1 DEF Apiece
      <4>3. b'[1] = Register(z, 1)
        BY <1>1, <2>4, <2>12, <3>1, <4>2 DEF Spread
      <4>4. ASSUME NEW i \in 1..n PROVE \E t \in z..rtc_time : b'[i] = Register(t, i)
        <5>1. CASE i = n
          BY <2>4, <2>5, <4>1, <4>2, <5>1
        <5>2. CASE i \in 1..Len(b)
          BY <2>4, <4>2, <5>2 DEF Spread
        <5> QED
          BY <2>7, <5>1, <5>2
      <4> QED
        BY <2>4, <4>3, <4>4 DEF Spread
    <3>3. Apiece(x, y, z)'
      BY <1>3, <1>5, <2>1, <3>2 DEF Apiece
    <3> QED
      BY <2>8, <2>10, <3>3 DEF RtcInv
  <2> QED
    BY <2>11, <2>12
<1> QED
  BY <1>6, <1>7, <1>8

\* rtc_read compares, and what it has is drawn.
LEMMA CompareInv ==
    ASSUME RtcInv, Compare \/ DrawClock \/ UNCHANGED rtcVars
    PROVE  RtcInv'
<1>1. /\ rtc_time \in Nat /\ since \in Nat /\ since <= rtc_time /\ Len(Radix) \in Nat \ {0}
      /\ b \in Seq(Nat) /\ Len(b) \in Nat /\ Len(b) <= Len(Radix) /\ a \in Seq(Nat)
  BY Weights, LenProperties DEF RtcInv, RtcTypes
<1>2. ReadingInv' <=>
        /\ rtc_pc' = "wait" => b' = <<>> /\ hit_b' = "clean"
        /\ rtc_pc' = "read" => /\ Len(b') < Len(Radix)
                               /\ update' = "now" => hit_b' # "clean"
                               /\ hit_b' = "clean" => \A i \in 1..Len(b') : b'[i] = Register(rtc_time', i)
        /\ rtc_pc' \in {"compare", "draw"} => Len(b') = Len(Radix)
        /\ rtc_pc' \in {"compare", "draw"} /\ hit_b' = "clean" => Exact(b', since', rtc_time')
        /\ a' # <<>> /\ hit_a' = "clean" => Exact(a', since', rtc_time')
        /\ rtc_pc' = "draw" => a' = b'
  BY DEF ReadingInv, Exact, Registers, Register
<1>3. \A x, y, z : Apiece(x, y, z)' <=> /\ since' <= x /\ x <= y /\ y <= z /\ z <= rtc_time'
                                        /\ hit_a' # "undefined" => Spread(a', x, y)
                                        /\ hit_b' # "undefined" => Spread(b', z, rtc_time')
  BY DEF Apiece, Spread, Register
<1>4. <<>> \in Seq(Nat) /\ Len(<<>>) = 0 /\ \A x, y : Spread(<<>>, x, y)
  BY EmptySeq DEF Spread
<1>5. PICK x \in Nat, y \in Nat, z \in Nat : Apiece(x, y, z)
  BY DEF RtcInv
<1>6. RtcInv => RtcTypes /\ ReadingInv
  BY DEF RtcInv
<1>7. CASE UNCHANGED <<rtc_time, update, readings>> /\ (rtc_pc' = rtc_pc \/ rtc_pc' = "idle"
             \/ (rtc_pc = "compare" /\ rtc_pc' = "draw" /\ a = b))
  <2>1. UNCHANGED <<rtc_time, update, a, b, since, hit_a, hit_b>>
    BY <1>7 DEF readings
  <2>2. RtcTypes'
    BY <1>6, <1>7, <2>1 DEF RtcTypes
  <2>3. ReadingInv'
    BY <1>2, <1>6, <1>7, <2>1 DEF ReadingInv
  <2>4. Apiece(x, y, z)'
    BY <1>3, <1>5, <2>1 DEF Apiece
  <2> QED
    BY <2>2, <2>3, <2>4 DEF RtcInv
<1>8. CASE Compare /\ ~Same
  <2>1. /\ rtc_pc = "compare" /\ rtc_pc' = "wait" /\ a' = b /\ hit_a' = hit_b
        /\ b' = <<>> /\ hit_b' = "clean" /\ UNCHANGED <<rtc_time, update, since>>
    BY <1>8 DEF Compare, Goes, chip
  <2>2. Len(b) = Len(Radix) /\ (hit_b = "clean" => Exact(b, since, rtc_time))
    BY <1>6, <2>1 DEF ReadingInv
  <2>3. RtcTypes'
    BY <1>1, <1>4, <1>6, <2>1, <2>2 DEF RtcTypes, Hits
  <2>4. ReadingInv'
    BY <1>2, <2>1, <2>2
  <2>5. PICK k \in Nat : k = rtc_time
    BY <1>1
  <2>6. Apiece(z, k, k)'
    BY <1>1, <1>3, <1>4, <1>5, <2>1, <2>5 DEF Apiece
  <2> QED
    BY <2>3, <2>4, <2>6 DEF RtcInv
<1> QED
  BY <1>7, <1>8 DEF Compare, DrawClock, Same, Goes, chip, rtcVars

\* The clock before its first reading.
LEMMA RtcStart == ASSUME RtcInit PROVE RtcInv
<1>1. Len(Radix) \in Nat \ {0} /\ <<>> \in Seq(Nat) /\ Len(<<>>) = 0 /\ \A x, y : Spread(<<>>, x, y)
  BY Weights, EmptySeq DEF Spread
<1>2. RtcTypes
  BY <1>1 DEF RtcInit, RtcTypes, Hits
<1>3. ReadingInv
  BY DEF RtcInit, ReadingInv
<1>4. Apiece(0, 0, 0)
  BY <1>1 DEF RtcInit, Apiece
<1> QED
  BY <1>2, <1>3, <1>4 DEF RtcInv

\* A number as the chip codes it, and as it is read back.
LEMMA CodeRead ==
    ASSUME NEW binary \in BOOLEAN, NEW v \in 0..99
    PROVE  /\ Digits(Coded(v, binary), binary) = v /\ Coded(v, binary) \in Nat
           /\ v < 80 => Coded(v, binary) < 128
<1>1. PICK q \in 0..9, r \in 0..9 : v = 10 * q + r /\ q = v \div 10 /\ r = v % 10
  OBVIOUS
<1>2. CASE binary
  BY <1>2 DEF Digits, Coded
<1>3. CASE ~binary
  <2>1. Coded(v, binary) = 16 * q + r
    BY <1>1, <1>3 DEF Coded
  <2>2. /\ (16 * q + r) % 16 = r /\ (16 * q + r) \div 16 = q /\ (r + q * 10) % 256 = r + q * 10
        /\ v < 80 => 16 * q + r < 128
    BY <1>1
  <2> QED
    BY <1>1, <1>3, <2>1, <2>2 DEF Digits, bcd2bin
<1> QED
  BY <1>2, <1>3

\* The conversions, number by number.
LEMMA DigitsConverted == DigitsTrue
<1>1. ASSUME NEW binary \in BOOLEAN, NEW v \in 0..99
      PROVE  Put2(Digits(Coded(v, binary), binary)) = <<v \div 10, v % 10>>
  <2>1. v \div 10 \in 0..9
    OBVIOUS
  <2>2. (v \div 10) % 10 = v \div 10
    BY <2>1
  <2> QED
    BY <2>2, CodeRead DEF Put2
<1>2. ASSUME NEW binary \in BOOLEAN, NEW hours24 \in BOOLEAN, NEW h \in 0..23
      PROVE  Hour(CodedHour(h, binary, hours24), binary, hours24) =
                 IF ~hours24 /\ h % 12 = 0 THEN 12 - h ELSE h
  <2>0. ASSUME NEW v \in 0..23, NEW p \in 0..1
        PROVE  LET c == Coded(v, binary)
               IN  Hour(c + 128 * p, binary, hours24) =
                       IF ~hours24 /\ p = 1 THEN (v + 12) % 24 ELSE v + 128 * p
    <3>1. PICK c \in 0..127 : c = Coded(v, binary) /\ Digits(c, binary) = v
      <4>1. v \in 0..99 /\ v < 80
        OBVIOUS
      <4>2. /\ Coded(v, binary) \in Nat /\ Coded(v, binary) < 128
            /\ Digits(Coded(v, binary), binary) = v
        BY <4>1, CodeRead
      <4>3. Coded(v, binary) \in 0..127
        BY <4>2
      <4> QED
        BY <4>2, <4>3
    <3>2. (c + 128 * p) \div 128 = p /\ (c + 128 * p) % 128 = c /\ (v + 128 * p) % 128 = v
      OBVIOUS
    <3>3. (IF binary THEN c + 128 * p ELSE bcd2bin(c) + 128 * p) = v + 128 * p
      BY <3>1 DEF Digits
    <3>4. PICK e, w, m : e = c + 128 * p /\ w = v + 128 * p /\ m = (v + 12) % 24
      OBVIOUS
    <3>5. e \div 128 = p /\ e % 128 = c /\ w % 128 = v
      BY <3>2, <3>4
    <3>6. (IF binary THEN e ELSE bcd2bin(c) + 128 * p) = w
      BY <3>3, <3>4
    <3>7. Hour(e, binary, hours24) = IF ~hours24 /\ p = 1 THEN ((w % 128) + 12) % 24 ELSE w
      BY ONLY <3>5, <3>6 DEF Hour
    <3> QED
      BY <3>1, <3>4, <3>5, <3>7
  <2>1. CASE hours24
    <3>1. CodedHour(h, binary, hours24) = Coded(h, binary) /\ h \in 0..99
      BY <2>1 DEF CodedHour
    <3>2. PICK c \in Nat : c = Coded(h, binary)
      BY <3>1, CodeRead
    <3>3. c + 128 * 0 = c /\ h + 128 * 0 = h /\ 0 \in 0..1
      OBVIOUS
    <3>4. Hour(c + 128 * 0, binary, hours24) = h + 128 * 0
      BY <2>0, <2>1, <3>2, <3>3
    <3> QED
      BY <2>1, <3>1, <3>2, <3>3, <3>4
  <2>2. CASE ~hours24
    <3>1. PICK p \in 0..1, m \in 0..11 : h = 12 * p + m /\ p = h \div 12 /\ m = h % 12
      OBVIOUS
    <3>2. PICK t \in 1..12 : t = IF m = 0 THEN 12 ELSE m
      OBVIOUS
    <3>3. CodedHour(h, binary, hours24) = Coded(t, binary) + 128 * p
      BY <2>2, <3>1, <3>2 DEF CodedHour
    <3>4. Hour(CodedHour(h, binary, hours24), binary, hours24) =
              IF p = 1 THEN (t + 12) % 24 ELSE t + 128 * p
      BY <2>0, <2>2, <3>3
    <3>5. (IF p = 1 THEN (t + 12) % 24 ELSE t + 128 * p) = IF m = 0 THEN 12 - h ELSE h
      BY <3>1, <3>2
    <3> QED
      BY <2>2, <3>1, <3>4, <3>5
  <2> QED
    BY <2>1, <2>2
<1> QED
  BY <1>1, <1>2 DEF DigitsTrue

\* rtc_read and draw_clock as a whole.
LEMMA RtcInvariance == RtcSpec => []RtcInv
<1>1. ASSUME RtcInv, [RtcNext]_rtcVars PROVE RtcInv'
  BY <1>1, ChipInv, CmosInv, CompareInv DEF RtcNext, ClockCurrent
<1> QED
  BY <1>1, RtcStart, PTL DEF RtcSpec

\* A reading that is drawn, and what became of it and the one before.
LEMMA DrawnTrue == ASSUME RtcInv PROVE ReadingTrue
<1>1. SUFFICES ASSUME rtc_pc = "draw", rtc_time - since < Radix[1],
                      ~("clean" \notin {hit_a, hit_b} /\ "undefined" \in {hit_a, hit_b})
               PROVE  \E t \in since..rtc_time : b = Registers(t)
  <2>1. rtc_time - since \in Int /\ Radix[1] \in Int
    BY Weights DEF RtcInv, RtcTypes
  <2> QED
    BY <2>1 DEF ReadingTrue
<1>2. /\ a = b /\ Len(b) = Len(Radix) /\ Len(Radix) \in Nat \ {0} /\ b \in Seq(Nat) /\ b # <<>>
      /\ rtc_time \in Nat /\ since \in Nat
  BY <1>1, Weights, EmptySeq DEF RtcInv, RtcTypes, ReadingInv
<1>3. CASE hit_a = "clean" \/ hit_b = "clean"
  BY <1>1, <1>2, <1>3 DEF RtcInv, ReadingInv, Exact
<1>4. CASE hit_a # "clean" /\ hit_b # "clean"
  <2>1. hit_a # "undefined" /\ hit_b # "undefined"
    BY <1>1, <1>4
  <2>2. PICK x \in Nat, y \in Nat, z \in Nat : Apiece(x, y, z)
    BY DEF RtcInv
  <2>3. Spread(b, x, y) /\ Spread(b, z, rtc_time)
    BY <1>2, <2>1, <2>2 DEF Apiece
  <2>4. Register(x, 1) = Register(z, 1)
    BY <1>2, <2>3 DEF Spread
  <2>5. since <= x /\ x <= y /\ y <= z /\ z <= rtc_time
    BY <2>2 DEF Apiece
  <2>6. x = z
    <3>1. PICK r \in Nat : r = Radix[1]
      BY <1>2, Weights
    <3>2. x <= z /\ z - x < r
      BY <1>1, <1>2, <2>5, <3>1
    <3> QED
      BY <2>4, <3>1, <3>2, SecondsTell
  <2>7. y = x /\ x \in since..rtc_time
    BY <1>2, <2>5, <2>6
  <2>8. \A i \in 1..Len(b) : b[i] = Register(x, i)
    BY <2>3, <2>7 DEF Spread
  <2>9. b = [i \in 1..Len(b) |-> b[i]]
    BY <1>2, LenProperties
  <2> QED
    BY <1>2, <2>7, <2>8, <2>9 DEF Registers
<1> QED
  BY <1>3, <1>4

\* The time drawn is one the chip had while it was read, and its digits are the right ones
\* in every mode of the chip (rtc_read and draw_clock: kernel_main.c:82-147), for any
\* registers and however long it runs.
THEOREM ClockTellsTime == RtcSpec => []ClockRight
<1>1. RtcInv => ClockRight
  BY DrawnTrue, DigitsConverted DEF ClockRight
<1> QED
  BY <1>1, RtcInvariance, PTL

\* The registers stay within their ranges and the time within the century, an update under
\* way has a second left to count.
Ranges == RtcTypeOK /\ (update # "none" => rtc_time < MaxTime)

LEMMA RtcRanges == ASSUME RtcInv, Ranges, [RtcNext]_rtcVars PROVE Ranges'
<1>1. /\ MaxTime \in Nat /\ MaxSecs \in Nat /\ Len(Radix) \in Nat \ {0}
      /\ \A i \in 1..Len(Radix) : Radix[i] \in Nat \ {0, 1}
      /\ \A t \in Nat, i \in 1..Len(Radix) : Register(t, i) \in 0..(Radix[i] - 1)
  <2>1. /\ Len(Radix) \in Nat \ {0} /\ Weight[Len(Radix)] \in Nat \ {0}
        /\ Radix[Len(Radix)] \in Nat \ {0, 1}
    BY Weights
  <2>2. MaxTime \in Nat
    <3>1. PICK w \in Nat \ {0}, r \in Nat \ {0, 1} : w = Weight[Len(Radix)] /\ r = Radix[Len(Radix)]
      BY <2>1
    <3>2. w * r \in Nat /\ w * r >= 1
      OBVIOUS
    <3> QED
      BY <3>1, <3>2 DEF MaxTime
  <2>3. ASSUME NEW t \in Nat, NEW i \in 1..Len(Radix) PROVE Register(t, i) \in 0..(Radix[i] - 1)
    <3>1. PICK w \in Nat \ {0}, r \in Nat \ {0, 1} : w = Weight[i] /\ r = Radix[i]
      BY Weights
    <3>2. t \div w \in Nat
      OBVIOUS
    <3>3. (t \div w) % r \in 0..(r - 1)
      BY <3>2
    <3> QED
      BY <3>1, <3>3 DEF Register
  <2> QED
    BY <2>1, <2>2, <2>3, Weights, MaxSecsAssumption
<1>2. a \in Seq(Nat) /\ b \in Seq(Nat) /\ (rtc_pc = "read" => Len(b) < Len(Radix))
      /\ (rtc_pc \in {"compare", "draw"} => Len(b) = Len(Radix)) /\ rtc_time \in Nat
  BY DEF RtcInv, RtcTypes, ReadingInv
<1> USE DEF Ranges, RtcTypeOK, Hits
<1>3. CASE Announce \/ BeginUpdate \/ EndUpdate \/ TimerSecond
  <2>1. CASE Announce
    BY <1>1, <2>1 DEF Announce, readings
  <2>2. CASE BeginUpdate
    BY <1>1, <2>2 DEF BeginUpdate
  <2>3. CASE EndUpdate
    BY <1>1, <2>3 DEF EndUpdate, readings
  <2>4. CASE TimerSecond
    BY <1>1, <2>4 DEF TimerSecond, chip, readings
  <2> QED
    BY <1>3, <2>1, <2>2, <2>3, <2>4
<1>4. CASE MaybeUpdateClock \/ ClockCurrent \/ UpdateTested \/ DrawClock
  <2>1. CASE MaybeUpdateClock
    <3>1. Len(<<>>) = 0 /\ secs + 1 \in 0..(MaxSecs + 1)
      BY <1>1, EmptySeq
    <3> QED
      BY <1>1, <2>1, <3>1 DEF MaybeUpdateClock, Goes, chip
  <2>2. CASE ClockCurrent \/ UpdateTested \/ DrawClock
    BY <1>1, <2>2 DEF ClockCurrent, UpdateTested, DrawClock, Goes, chip, readings, rtcVars
  <2> QED
    BY <1>4, <2>1, <2>2
<1>5. CASE CmosRead
  <2> DEFINE i == Len(b) + 1
  <2>1. rtc_pc = "read" /\ i \in 1..Len(Radix) /\ Len(b) \in Nat
        /\ rtc_pc' \in {"read", "compare"}
    BY <1>1, <1>2, <1>5, LenProperties DEF CmosRead, Goes
  <2>2. PICK x \in 0..(Radix[i] - 1) : b' = Append(b, x)
    BY <1>1, <1>2, <1>5, <2>1 DEF CmosRead
  <2>3. UNCHANGED <<rtc_time, update, secs, clock_last_sec, a, since, hit_a>> /\ hit_b' \in Hits
    BY <1>5 DEF CmosRead, chip
  <2>4. x \in Nat /\ Len(b') = i /\ \A k \in 1..i : b'[k] = IF k = i THEN x ELSE b[k]
    <3>1. x \in Nat
      BY <1>1, <2>1
    <3> QED
      BY <1>2, <2>2, <3>1, AppendProperties
  <2>5. ASSUME NEW k \in 1..Len(b') PROVE b'[k] \in 0..(Radix[k] - 1)
    <3>1. k \in 1..i /\ b'[k] = IF k = i THEN x ELSE b[k]
      BY <2>4
    <3>2. CASE k = i
      BY <3>1, <3>2
    <3>3. CASE k # i
      <4>1. k \in 1..Len(b)
        BY <2>1, <3>1, <3>3
      <4>2. b[k] \in 0..(Radix[k] - 1)
        BY <1>1, <4>1
      <4> QED
        BY <3>1, <3>3, <4>2
    <3> QED
      BY <3>2, <3>3
  <2>6. Len(b') <= Len(Radix)
    BY <1>1, <2>1, <2>4
  <2> HIDE DEF i
  <2> QED
    BY <2>1, <2>3, <2>5, <2>6
<1>6. CASE Compare
  <2>1. /\ UNCHANGED <<rtc_time, update, secs, clock_last_sec, since>>
        /\ rtc_pc' \in {"draw", "wait"} /\ Len(b) = Len(Radix) /\ Len(<<>>) = 0
    BY <1>2, <1>6, EmptySeq DEF Compare, Goes, chip, readings
  <2>2. CASE Same
    BY <1>1, <1>6, <2>1, <2>2 DEF Compare, readings
  <2>3. CASE ~Same
    BY <1>1, <1>6, <2>1, <2>3 DEF Compare
  <2> QED
    BY <2>2, <2>3
<1>7. CASE UNCHANGED rtcVars
  BY <1>7 DEF rtcVars, chip, readings
<1> QED
  BY <1>3, <1>4, <1>5, <1>6, <1>7 DEF RtcNext

\* Each reading is of values its registers can hold, however far it is and whatever an
\* update left of it (rtc_read: kernel_main.c:82-128).
THEOREM RtcTyped == RtcSpec => []RtcTypeOK
<1>1. RtcInit => Ranges
  <2>1. Len(<<>>) = 0 /\ Len(Radix) \in Nat /\ MaxSecs \in Nat
    BY Weights, MaxSecsAssumption
  <2>2. Weight[Len(Radix)] * Radix[Len(Radix)] >= 1
    <3>1. PICK w \in Nat \ {0}, r \in Nat \ {0, 1} : w = Weight[Len(Radix)] /\ r = Radix[Len(Radix)]
      BY Weights
    <3>2. w * r >= 1
      OBVIOUS
    <3> QED
      BY <3>1, <3>2
  <2>3. 0 \in 0..MaxTime
    <3>1. PICK w \in Nat \ {0}, r \in Nat \ {0, 1} : w = Weight[Len(Radix)] /\ r = Radix[Len(Radix)]
      BY Weights
    <3>2. w * r \in Nat
      OBVIOUS
    <3> QED
      BY <2>2, <3>1, <3>2 DEF MaxTime
  <2> QED
    BY <2>1, <2>3 DEF RtcInit, Ranges, RtcTypeOK, Hits
<1>2. Ranges => RtcTypeOK
  BY DEF Ranges
<1> QED
  BY <1>1, <1>2, RtcRanges, RtcInvariance, PTL DEF RtcSpec
-----------------------------------------------------------------------------
\* The scrolling text.
Shades == Glyph \cup {Other, Bg}
Screens == [Columns -> Shades]
TextWidth == TextLen * FontW

\* The place with the first len characters in it, at an offset, on a screen.
Shade(off, len, c) ==
    LET t == c - StartX(off)
    IN  IF t \in 0..(len * FontW - 1) THEN <<t \div FontW + 1, t % FontW>> ELSE Bg
Shown(scr, off, len) == [c \in Columns |-> IF c \in Window THEN Shade(off, len, c) ELSE scr[c]]

LEMMA DivideExact ==
    ASSUME NEW q \in Nat, NEW f \in Nat \ {0}, NEW r \in 0..(f - 1), NEW t \in Nat, t = q * f + r
    PROVE  t \div f = q /\ t % f = r
<1>1. t = f * (t \div f) + (t % f)
  OBVIOUS
<1>2. PICK d \in Int, m \in 0..(f - 1) : d = t \div f /\ m = t % f
  OBVIOUS
<1>3. f * (q - d) = m - r
  <2>1. q * f + r = f * d + m
    BY <1>1, <1>2
  <2>2. f * (q - d) = q * f - f * d
    BY ONLY q \in Nat, f \in Nat \ {0}, <1>2
  <2>3. q * f \in Int /\ f * d \in Int
    BY ONLY q \in Nat, f \in Nat \ {0}, <1>2
  <2> QED
    BY <1>2, <2>1, <2>2, <2>3
<1>4. q - d = 0
  <2>1. CASE q - d >= 1
    <3>1. f * (q - d) >= f
      BY <1>2, <2>1
    <3> QED
      BY <1>2, <1>3, <3>1
  <2>2. CASE q - d <= -1
    <3>1. f * (q - d) <= -f
      BY <1>2, <2>2
    <3> QED
      BY <1>2, <1>3, <3>1
  <2> QED
    BY <1>2, <2>1, <2>2
<1> QED
  BY <1>2, <1>3, <1>4

\* The width of the text, and of a part of it.
LEMMA Widths ==
    /\ TextWidth \in Nat /\ FontW \in Nat \ {0} /\ MqW \in Nat \ {0} /\ MqX \in Nat /\ TextLen \in Nat
    /\ TickDiv \in Nat \ {0}
    /\ \A k \in Nat : /\ k * FontW \in Nat /\ (k + 1) * FontW = k * FontW + FontW
                      /\ k <= TextLen => k * FontW <= TextWidth
    /\ 0 * FontW = 0
    /\ \A c \in Window : c \in Int /\ MqX <= c /\ c < MqX + MqW
<1>1. PICK f \in Nat \ {0}, l \in Nat : f = FontW /\ l = TextLen
  BY MarqueeAssumption
<1>2. l * f \in Nat
  BY <1>1
<1>3. ASSUME NEW k \in Nat PROVE k * f \in Nat /\ (k + 1) * f = k * f + f /\ (k <= l => k * f <= l * f)
  <2>1. k * f \in Nat /\ (k + 1) * f = k * f + f
    BY <1>1
  <2>2. ASSUME k <= l PROVE k * f <= l * f
    <3>1. PICK n \in Nat : l = k + n
      <4>1. l - k \in Nat /\ l = k + (l - k)
        BY <1>1, <2>2
      <4> QED
        BY <4>1
    <3>2. (k + n) * f = k * f + n * f /\ n * f \in Nat
      BY <1>1
    <3> QED
      BY <2>1, <3>1, <3>2
  <2> QED
    BY <2>1, <2>2
<1>4. 0 * f = 0
  BY <1>1
<1> QED
  BY <1>1, <1>2, <1>3, <1>4, MarqueeAssumption DEF TextWidth, Window, Columns

\* Drawing the next character of the text.
LEMMA OneMore ==
    ASSUME NEW scr \in Screens, NEW off \in Int, NEW k \in Nat \ {0}
    PROVE  DrawNext(Shown(scr, off, k - 1), StartX(off), k) = Shown(scr, off, k)
<1> DEFINE p == (k - 1) * FontW
           cx == StartX(off) + p
<1>1. /\ p \in Nat /\ k * FontW = p + FontW /\ FontW \in Nat \ {0} /\ MqW \in Nat \ {0} /\ MqX \in Nat
      /\ k - 1 \in Nat
  <2>1. k - 1 \in Nat /\ (k - 1) + 1 = k
    OBVIOUS
  <2> QED
    BY <2>1, Widths
<1>2. StartX(off) \in Int /\ cx \in Int
  BY <1>1 DEF StartX
<1>3. DrawNext(Shown(scr, off, k - 1), StartX(off), k) =
          IF Visible(cx) THEN DrawChar(Shown(scr, off, k - 1), cx, k) ELSE Shown(scr, off, k - 1)
  BY DEF DrawNext
<1>4. ASSUME NEW c \in Window PROVE
          /\ c \in Int /\ c - cx = (c - StartX(off)) - p
          /\ Shade(off, k, c) = IF c - cx \in 0..(FontW - 1) THEN <<k, c - cx>> ELSE Shade(off, k - 1, c)
  <2>1. c \in Int
    BY Widths
  <2> DEFINE t == c - StartX(off)
  <2>2. t \in Int /\ c - cx = t - p
    BY <1>1, <1>2, <2>1
  <2>3. Shade(off, k, c) = (IF t \in 0..(p + FontW - 1) THEN <<t \div FontW + 1, t % FontW>> ELSE Bg)
        /\ Shade(off, k - 1, c) = (IF t \in 0..(p - 1) THEN <<t \div FontW + 1, t % FontW>> ELSE Bg)
    BY <1>1 DEF Shade
  <2>4. ASSUME t - p \in 0..(FontW - 1) PROVE t \div FontW = k - 1 /\ t % FontW = t - p
    <3>1. PICK r \in 0..(FontW - 1) : r = t - p
      BY <2>4
    <3>2. t = (k - 1) * FontW + r /\ t \in Nat
      BY <1>1, <2>2, <3>1
    <3>3. PICK m \in Nat, q \in Nat, f \in Nat \ {0} : m = t /\ q = k - 1 /\ f = FontW
      BY <1>1, <3>2
    <3>4. m = q * f + r /\ r \in 0..(f - 1)
      BY <3>1, <3>2, <3>3
    <3>5. m \div f = q /\ m % f = r
      BY ONLY <3>4, DivideExact
    <3> QED
      BY <3>1, <3>3, <3>5
  <2> HIDE DEF t, p, cx
  <2>5. CASE t - p \in 0..(FontW - 1)
    <3>1. t \in 0..(p + FontW - 1) /\ (k - 1) + 1 = k
      BY <1>1, <2>2, <2>5
    <3> QED
      BY <2>1, <2>2, <2>3, <2>4, <2>5, <3>1 DEF t
  <2>6. CASE t - p \notin 0..(FontW - 1)
    <3>1. t \in 0..(p + FontW - 1) <=> t \in 0..(p - 1)
      BY <1>1, <2>2, <2>6
    <3> QED
      BY <2>1, <2>2, <2>3, <2>6, <3>1 DEF t
  <2> QED
    BY <2>5, <2>6
<1>5. ASSUME NEW c \in Window, ~Visible(cx) PROVE c - cx \notin 0..(FontW - 1)
  <2>1. MqX <= c /\ c < MqX + MqW /\ c \in Int
    BY Widths
  <2> HIDE DEF cx
  <2> QED
    BY <1>1, <1>2, <1>5, <2>1 DEF Visible
<1> HIDE DEF p, cx
<1>6. CASE Visible(cx)
  BY <1>3, <1>4, <1>6 DEF DrawChar, Shown
<1>7. CASE ~Visible(cx)
  BY <1>3, <1>4, <1>5, <1>7 DEF Shown
<1> QED
  BY <1>6, <1>7

\* marquee_draw as a whole.
LEMMA DrawShows ==
    ASSUME NEW scr \in Screens, NEW off \in Int, NEW len \in Nat
    PROVE  Draw(scr, off, len) = Shown(scr, off, len)
<1> DEFINE Body(d) == [k \in 0..len |-> IF k = 0 THEN FillRect(scr, MqX, MqW, Bg)
                                        ELSE DrawNext(d[k - 1], StartX(off), k)]
           h == [k \in 0..len |-> Shown(scr, off, k)]
           d == CHOOSE d : d = Body(d)
<1>1. FillRect(scr, MqX, MqW, Bg) = Shown(scr, off, 0)
  <2>1. ASSUME NEW c \in Window PROVE Shade(off, 0, c) = Bg
    <3>1. 0..(0 * FontW - 1) = {}
      BY Widths
    <3> QED
      BY <3>1 DEF Shade
  <2>2. \A c \in Columns : c >= MqX /\ c < MqX + MqW <=> c \in Window
    BY Widths DEF Window, Columns
  <2> QED
    BY <2>1, <2>2 DEF FillRect, Shown
<1>2. h = Body(h)
  <2>1. ASSUME NEW k \in 0..len, k # 0 PROVE DrawNext(h[k - 1], StartX(off), k) = h[k]
    <3>1. k \in Nat \ {0} /\ k - 1 \in 0..len
      BY <2>1
    <3> QED
      BY <3>1, OneMore
  <2>2. \A k \in 0..len : h[k] = IF k = 0 THEN FillRect(scr, MqX, MqW, Bg)
                                  ELSE DrawNext(h[k - 1], StartX(off), k)
    BY <1>1, <2>1
  <2>3. h = [k \in 0..len |-> h[k]]
    OBVIOUS
  <2> HIDE DEF h
  <2> QED
    BY <2>2, <2>3
<1>3. d = Body(d)
  <2> HIDE DEF h, Body
  <2> QED
    BY <1>2
<1>4. Draw(scr, off, len) = d[len]
  BY DEF Draw
<1> HIDE DEF d, h
<1>5. \A k \in 0..len : d[k] = IF k = 0 THEN FillRect(scr, MqX, MqW, Bg)
                                ELSE DrawNext(d[k - 1], StartX(off), k)
  BY <1>3
<1> HIDE DEF Body
<1> DEFINE T == {k \in Nat : k <= len => d[k] = Shown(scr, off, k)}
<1>6. 0 \in T
  BY <1>1, <1>5
<1>7. ASSUME NEW k \in Nat, k \in T PROVE k + 1 \in T
  <2>1. SUFFICES ASSUME k + 1 <= len PROVE d[k + 1] = Shown(scr, off, k + 1)
    OBVIOUS
  <2>2. k + 1 \in 0..len /\ k + 1 # 0 /\ (k + 1) - 1 = k /\ k + 1 \in Nat \ {0}
    BY <2>1
  <2>3. d[k] = Shown(scr, off, k)
    BY <1>7, <2>1
  <2>4. d[k + 1] = DrawNext(d[k], StartX(off), k + 1)
    BY <1>5, <2>2
  <2> QED
    BY <2>2, <2>3, <2>4, OneMore
<1> HIDE DEF T
<1>8. Nat \subseteq T
  BY <1>6, <1>7, SetInduction
<1> QED
  BY <1>4, <1>8 DEF T

\* What is drawn is a screen, and differs from the one before inside the place only.
Within(scr, shown) == shown \in Screens /\ \A c \in Columns \ Window : shown[c] = scr[c]

LEMMA FillWithin == ASSUME NEW scr \in Screens PROVE Within(scr, FillRect(scr, MqX, MqW, Bg))
<1>1. \A c \in Columns : c >= MqX /\ c < MqX + MqW <=> c \in Window
  BY Widths DEF Window, Columns
<1> QED
  BY <1>1 DEF Within, FillRect, Screens, Shades

LEMMA NextWithin ==
    ASSUME NEW scr \in Screens, NEW start \in Int, NEW k \in 1..TextLen
    PROVE  Within(scr, DrawNext(scr, start, k))
<1> DEFINE cx == start + (k - 1) * FontW
<1>1. ASSUME NEW c \in Window, c - cx \in 0..(FontW - 1) PROVE <<k, c - cx>> \in Shades
  BY <1>1 DEF Shades, Glyph
<1>2. DrawNext(scr, start, k) = IF Visible(cx) THEN DrawChar(scr, cx, k) ELSE scr
  BY DEF DrawNext
<1> HIDE DEF cx
<1>3. DrawChar(scr, cx, k) \in Screens
  BY <1>1 DEF DrawChar, Screens
<1> QED
  BY <1>2, <1>3 DEF Within, DrawChar

LEMMA DrawWithin ==
    ASSUME NEW scr \in Screens, NEW off \in Int, NEW len \in 0..TextLen
    PROVE  Within(scr, Draw(scr, off, len))
<1>1. len \in Nat /\ len <= TextLen /\ Draw(scr, off, len) = Shown(scr, off, len)
  <2>1. len \in Nat /\ len <= TextLen
    BY Widths
  <2> QED
    BY <2>1, DrawShows
<1>2. ASSUME NEW c \in Window PROVE Shade(off, len, c) \in Shades
  <2> DEFINE t == c - StartX(off)
  <2>1. t \in Int
    BY Widths DEF StartX
  <2>2. CASE t \in 0..(len * FontW - 1)
    <3>1. PICK f \in Nat \ {0}, n \in Nat, m \in Nat : f = FontW /\ n = len * FontW /\ m = t
      <4>1. FontW \in Nat \ {0} /\ len * FontW \in Nat
        BY <1>1, Widths
      <4>2. t \in Nat
        BY <2>1, <2>2, <4>1
      <4> HIDE DEF t
      <4> QED
        BY <4>1, <4>2
    <3>2. m \div f \in Nat /\ m % f \in 0..(f - 1) /\ m = f * (m \div f) + (m % f)
      BY ONLY f \in Nat \ {0}, m \in Nat
    <3>3. m \div f < len
      <4>1. PICK q \in Nat, r \in 0..(f - 1) : q = m \div f /\ r = m % f
        BY <3>2
      <4>2. m = f * q + r /\ m < n /\ n = len * f
        BY <2>1, <2>2, <3>1, <3>2, <4>1
      <4>3. CASE q >= len
        <5>1. PICK e \in Nat : q = len + e
          <6>1. q - len \in Nat /\ q = len + (q - len)
            BY <1>1, <4>1, <4>3
          <6> QED
            BY <6>1
        <5>2. f * (len + e) = len * f + f * e /\ f * e \in Nat
          BY <1>1, <3>1
        <5>3. PICK u \in Nat : u = f * e
          BY <5>2
        <5>4. m = n + u + r
          BY <4>2, <5>1, <5>2, <5>3
        <5>5. m < n
          BY <4>2
        <5> QED
          BY ONLY <5>4, <5>5, u \in Nat, n \in Nat, r \in 0..(f - 1), f \in Nat
      <4> QED
        BY <1>1, <4>1, <4>3
    <3>4. m \div f + 1 \in 1..TextLen
      BY <1>1, <3>2, <3>3, Widths
    <3>5. Shade(off, len, c) = <<m \div f + 1, m % f>>
      BY <2>2, <3>1 DEF Shade
    <3> QED
      BY <3>1, <3>2, <3>4, <3>5 DEF Shades, Glyph
  <2>3. CASE t \notin 0..(len * FontW - 1)
    BY <2>3 DEF Shade, Shades
  <2> QED
    BY <2>2, <2>3
<1> QED
  BY <1>1, <1>2 DEF Within, Shown, Screens

\* The text while marquee_create puts it together, and what ticks leave meanwhile.
TextInv ==
    /\ text_px_w = IF mq_pc \in {"start", "copy"} THEN 0 ELSE TextWidth
    /\ mq_pc \in {"fill", "char", "done"} => text = TextLen
    /\ offset <= text_px_w + MqW
    /\ place = "whole" => mq_pc = "done"
MarqueeInv == MarqueeTypeOK /\ TextInv /\ KeepsToItsPlace /\ ShowsText

LEMMA MarqueeStart == ASSUME MarqueeInit PROVE MarqueeInv
<1>1. 0 \in 0..(TextWidth + MqW) /\ MqX \in (MqX - TextWidth)..(MqX + MqW) /\ 0 \in 0..(TickDiv - 1)
      /\ 0 \in 0..TextLen /\ 1 \in 1..(TextLen + 1) /\ 0 <= 0 + MqW
  BY Widths
<1>2. MarqueeTypeOK
  BY <1>1 DEF MarqueeInit, MarqueeTypeOK, TextWidth
<1> QED
  BY <1>1, <1>2 DEF MarqueeInit, MarqueeInv, TextInv, KeepsToItsPlace, ShowsText, Window

\* The next offset.
LEMMA NextOffsetIn ==
    ASSUME MarqueeInv
    PROVE  /\ offset \in Nat /\ NextOffset(offset) \in 0..(TextWidth + MqW)
           /\ NextOffset(offset) <= text_px_w + MqW
           /\ StartX(offset) \in (MqX - TextWidth)..(MqX + MqW)
<1>1. offset \in 0..(TextWidth + MqW) /\ text_px_w \in {0, TextWidth} /\ offset <= text_px_w + MqW
  BY DEF MarqueeInv, MarqueeTypeOK, TextInv, TextWidth
<1> QED
  BY <1>1, Widths DEF NextOffset, StartX

\* kernel_main in marquee_create, between the interrupts.
LEMMA CreateInv ==
    ASSUME MarqueeInv, CreateBegin \/ CopyChar \/ CopyEnd \/ DrawFill \/ DrawOne \/ DrawEnd
    PROVE  MarqueeInv'
<1>1. columns \in Screens /\ MarqueeTypeOK /\ TextInv /\ offset \in Nat /\ TextWidth \in Nat
      /\ place \in {"clear", "whole", "mixed"}
  BY NextOffsetIn, Widths DEF MarqueeInv, MarqueeTypeOK, Screens, Shades
<1>2. CASE CreateBegin \/ CopyChar \/ CopyEnd \/ DrawEnd
  <2>1. UNCHANGED <<columns, paused, drawing, place>> /\ mq_pc # "done"
    BY <1>2 DEF CreateBegin, CopyChar, CopyEnd, DrawEnd
  <2>2. UNCHANGED <<start_x, char_i>> /\ place # "whole"
    BY <1>1, <2>1 DEF drawing, TextInv
  <2>3. TextInv'
    BY <1>1, <1>2, <2>1, <2>2, Widths
       DEF CreateBegin, CopyChar, CopyEnd, DrawEnd, TextInv, scrolling, TextWidth, MarqueeTypeOK
  <2>4. text' \in 0..TextLen /\ offset' \in 0..(TextWidth + MqW) /\ tick_count' \in 0..(TickDiv - 1)
    BY <1>1, <1>2, Widths DEF CreateBegin, CopyChar, CopyEnd, DrawEnd, scrolling, TextWidth, MarqueeTypeOK
  <2>5. MarqueeTypeOK'
    BY <1>1, <1>2, <2>1, <2>2, <2>4
       DEF CreateBegin, CopyChar, CopyEnd, DrawEnd, TextWidth, MarqueeTypeOK
  <2>6. KeepsToItsPlace' /\ ShowsText'
    BY <2>1, <2>2 DEF MarqueeInv, KeepsToItsPlace, ShowsText
  <2> QED
    BY <2>3, <2>5, <2>6 DEF MarqueeInv
<1>3. CASE DrawFill \/ DrawOne
  <2>1. Within(columns, columns')
    <3>1. CASE DrawFill
      BY <1>1, <3>1, FillWithin DEF DrawFill
    <3>2. CASE DrawOne
      <4>1. char_i \in 1..TextLen /\ start_x \in Int
        BY <1>1, <3>2, Widths DEF DrawOne, MarqueeTypeOK, TextWidth
      <4> QED
        BY <1>1, <3>2, <4>1, NextWithin DEF DrawOne
    <3> QED
      BY <1>3, <3>1, <3>2
  <2>2. /\ place' = "mixed" /\ mq_pc \in {"fill", "char"} /\ mq_pc' = "char"
        /\ UNCHANGED <<active, paused, offset, tick_count, text, text_px_w>>
    BY <1>3 DEF DrawFill, DrawOne, scrolling
  <2>3. TextInv'
    BY <1>1, <2>2 DEF TextInv
  <2>4. start_x' \in (MqX - TextWidth)..(MqX + MqW) /\ char_i' \in 1..(TextLen + 1)
    BY <1>1, <1>3, NextOffsetIn, Widths DEF DrawFill, DrawOne, MarqueeTypeOK, TextWidth
  <2>5. MarqueeTypeOK'
    BY <1>1, <2>1, <2>2, <2>4 DEF MarqueeTypeOK, Within, Screens, Shades, TextWidth
  <2>6. KeepsToItsPlace' /\ ShowsText'
    BY <2>1, <2>2 DEF MarqueeInv, KeepsToItsPlace, ShowsText, Within
  <2> QED
    BY <2>3, <2>5, <2>6 DEF MarqueeInv
<1> QED
  BY <1>2, <1>3

\* A tick, at any point of marquee_create or after it.
LEMMA MarqueeTickInv == ASSUME MarqueeInv, MarqueeTick PROVE MarqueeInv'
<1>1. /\ columns \in Screens /\ MarqueeTypeOK /\ TextInv /\ text \in 0..TextLen /\ ~paused
      /\ UNCHANGED <<mq_pc, active, paused, text, text_px_w, start_x, char_i>>
  BY DEF MarqueeInv, MarqueeTypeOK, Screens, Shades, MarqueeTick, drawing
<1>2. CASE tick_count + 1 < TickDiv
  <2>1. tick_count' = tick_count + 1 /\ UNCHANGED <<offset, columns, place>>
    BY <1>2 DEF MarqueeTick
  <2>2. tick_count' \in 0..(TickDiv - 1)
    BY <1>1, <1>2, <2>1, Widths DEF MarqueeTypeOK
  <2>3. MarqueeTypeOK' /\ TextInv'
    BY <1>1, <2>1, <2>2 DEF MarqueeTypeOK, TextInv
  <2>4. KeepsToItsPlace' /\ ShowsText'
    BY <1>1, <2>1 DEF MarqueeInv, KeepsToItsPlace, ShowsText
  <2> QED
    BY <2>3, <2>4 DEF MarqueeInv
<1>3. CASE ~(tick_count + 1 < TickDiv)
  <2>1. /\ tick_count' = 0 /\ offset' = NextOffset(offset) /\ columns' = Draw(columns, offset', text)
        /\ place' = IF mq_pc = "done" THEN "whole" ELSE "mixed"
    BY <1>3 DEF MarqueeTick
  <2>2. offset' \in 0..(TextWidth + MqW) /\ offset' <= text_px_w + MqW /\ offset' \in Int
    <3>1. NextOffset(offset) \in 0..(TextWidth + MqW) /\ NextOffset(offset) <= text_px_w + MqW
      BY NextOffsetIn
    <3> QED
      BY <2>1, <3>1, Widths
  <2>3. Within(columns, columns')
    BY <1>1, <2>1, <2>2, DrawWithin
  <2>4. 0 \in 0..(TickDiv - 1)
    BY Widths
  <2>5. MarqueeTypeOK'
    BY <1>1, <2>1, <2>2, <2>3, <2>4 DEF MarqueeTypeOK, Within, Screens, Shades, TextWidth
  <2>6. TextInv'
    BY <1>1, <2>1, <2>2 DEF TextInv
  <2>7. KeepsToItsPlace'
    BY <1>1, <2>1, <2>3 DEF MarqueeInv, KeepsToItsPlace, Within
  <2>8. ShowsText'
    <3>1. SUFFICES ASSUME mq_pc = "done", NEW c \in Window PROVE columns'[c] = Picture(offset')[c]
      <4>1. ShowsText' <=> (place' = "whole" => \A c \in Window : columns'[c] = Picture(offset')[c])
        BY DEF ShowsText, Picture, StartX
      <4> QED
        BY <2>1, <4>1
    <3>2. text = TextLen /\ TextLen \in Nat
      BY <1>1, <3>1, Widths DEF TextInv
    <3>3. columns' = Shown(columns, offset', TextLen)
      BY <1>1, <2>1, <2>2, <3>2, DrawShows
    <3>4. c \in Columns
      BY DEF Window
    <3> QED
      BY <3>3, <3>4 DEF Shown, Shade, Picture
  <2> QED
    BY <2>5, <2>6, <2>7, <2>8 DEF MarqueeInv
<1> QED
  BY <1>2, <1>3

\* The logo screen comes and goes.
LEMMA SplashInv == ASSUME MarqueeInv, Splash \/ SplashExit PROVE MarqueeInv'
<1>1. /\ columns' = [c \in Columns |-> Other] /\ place' = "clear" /\ paused' \in BOOLEAN
      /\ UNCHANGED <<mq_pc, active, offset, tick_count, text, text_px_w, start_x, char_i>>
  BY DEF Splash, SplashExit, scrolling, drawing
<1>2. MarqueeTypeOK' /\ TextInv'
  BY <1>1 DEF MarqueeInv, MarqueeTypeOK, TextInv
<1>3. KeepsToItsPlace' /\ ShowsText'
  BY <1>1 DEF KeepsToItsPlace, ShowsText, Window
<1> QED
  BY <1>2, <1>3 DEF MarqueeInv

\* The picture moves by one column, also from its last position to its first.
LEMMA PictureMoves == ASSUME MarqueeInv PROVE Smooth
<1>1. SUFFICES ASSUME text_px_w = TextWidth, NEW c \in Window, c + 1 \in Window
               PROVE  Picture(NextOffset(offset))[c] = Picture(offset)[c + 1]
  BY DEF Smooth, TextWidth
<1>2. /\ offset \in Nat /\ offset <= TextWidth + MqW /\ TextWidth \in Nat /\ MqW \in Nat /\ MqX \in Nat
      /\ c \in Int /\ MqX <= c /\ c + 1 < MqX + MqW
  BY <1>1, NextOffsetIn, Widths DEF MarqueeInv, TextInv
<1> DEFINE Seen(t) == IF t \in 0..(TextWidth - 1) THEN <<t \div FontW + 1, t % FontW>> ELSE Bg
<1>3. \A off : \A e \in Window : Picture(off)[e] = Seen(e - StartX(off))
  BY DEF Picture, TextWidth
<1>4. CASE offset + 1 > text_px_w + MqW
  <2>1. NextOffset(offset) = 0 /\ offset = TextWidth + MqW
    BY <1>1, <1>2, <1>4 DEF NextOffset
  <2>2. c - StartX(0) \notin 0..(TextWidth - 1) /\ (c + 1) - StartX(offset) \notin 0..(TextWidth - 1)
    BY <1>2, <2>1 DEF StartX
  <2> QED
    BY <1>1, <1>3, <2>1, <2>2
<1>5. CASE ~(offset + 1 > text_px_w + MqW)
  <2>1. NextOffset(offset) = offset + 1
    BY <1>5 DEF NextOffset
  <2>2. c - StartX(offset + 1) = (c + 1) - StartX(offset)
    BY <1>2 DEF StartX
  <2> QED
    BY <1>1, <1>3, <2>1, <2>2
<1> QED
  BY <1>4, <1>5

\* The text, its columns and its offset at every step of marquee_create and of a tick.
THEOREM MarqueeInvariance == MarqueeSpec => []MarqueeInv
<1>1. MarqueeInv /\ [MarqueeNext]_marqueeVars => MarqueeInv'
  <2>1. ASSUME MarqueeInv, UNCHANGED marqueeVars PROVE MarqueeInv'
    <3>1. UNCHANGED <<mq_pc, columns, active, paused, offset, tick_count, text, text_px_w, start_x,
                      char_i, place>>
      BY <2>1 DEF marqueeVars
    <3>2. MarqueeTypeOK' /\ TextInv' /\ KeepsToItsPlace' /\ ShowsText'
      BY <2>1, <3>1 DEF MarqueeInv, MarqueeTypeOK, TextInv, KeepsToItsPlace, ShowsText
    <3> QED
      BY <3>2 DEF MarqueeInv
  <2> QED
    BY <2>1, CreateInv, MarqueeTickInv, SplashInv DEF MarqueeNext
<1> QED
  BY <1>1, MarqueeStart, PTL DEF MarqueeSpec

\* The offset stays within the text and the strip, and a column drawn within the strip
\* (marquee.c:39-110).
THEOREM MarqueeTypeCorrect == MarqueeSpec => []MarqueeTypeOK
<1>1. MarqueeInv => MarqueeTypeOK
  BY DEF MarqueeInv
<1> QED
  BY <1>1, MarqueeInvariance, PTL

\* Wherever ticks and the logo screen cut into marquee_create, for any text and any screen:
\* nothing of the text is outside its place or on the logo screen, what a tick shows after
\* it is the text at the offset, and it moves by one column at a time (marquee.c:39-110).
THEOREM TextScrolls == MarqueeSpec => []ScreenRight
<1>1. MarqueeInv => ScreenRight
  BY PictureMoves DEF MarqueeInv, ScreenRight
<1> QED
  BY <1>1, MarqueeInvariance, PTL

-----------------------------------------------------------------------------
\* The melody.
SoundNotes == [note : NoteNames, octave : 0..27, ms : 1..Longest]
SoundPoints == {"idle", "next", "low", "high", "on", "sleep", "hlt", "off", "gap", "gaphlt"}

\* The divisor of the note that is played.
Pitch == Bytes(Divisor(Freq(Note.note, Note.octave)))
\* What the speaker does has lasted as long as the sleep so far says, but for the request
\* that was up when the sleep began; a request that is up now is still to be counted.
Lasts(ms) == passed = Longest \/ ms + (IF pending THEN 1 ELSE 0) <= passed + sleep + 1

SoundTypes ==
    /\ snd_pc \in SoundPoints /\ notes \in Seq(SoundNotes)
    /\ sleep \in 0..Longest /\ passed \in 0..Longest
    /\ pending \in BOOLEAN /\ speaker \in BOOLEAN
    /\ snd_pc \notin {"idle", "next"} => notes # <<>>
Loading ==
    /\ snd_pc = "low" => channel = <<>>
    /\ snd_pc = "high" => channel = <<Pitch[1]>>
    /\ snd_pc = "on" => channel = Pitch
    /\ speaker => snd_pc \in {"sleep", "hlt", "off"} /\ channel = Pitch
Lasting ==
    /\ snd_pc \in {"sleep", "hlt", "off"} => Lasts(Note.ms)
    /\ snd_pc = "off" => sleep = 0
    /\ snd_pc \in {"gap", "gaphlt"} => Lasts(Gap)
    /\ snd_pc \in {"idle", "next", "low"} => passed + 1 >= Gap
SoundInv == SoundTypes /\ Loading /\ Lasting

LEMMA MelodyNotes ==
    /\ Longest \in Nat /\ Gap \in 1..Longest /\ <<>> \in Seq(SoundNotes)
    /\ Melodies \subseteq Seq(SoundNotes)
    /\ \A s \in Seq(SoundNotes) : s # <<>> => Tail(s) \in Seq(SoundNotes) /\ Head(s).ms \in 1..Longest
<1>1. ASSUME NEW S, NEW s \in Seq(S), s # <<>> PROVE Tail(s) \in Seq(S) /\ Head(s) \in S
  BY <1>1, HeadTailProperties
<1>2. \A n \in SoundNotes : n.ms \in 1..Longest
  BY DEF SoundNotes
<1>3. \A s \in Seq(SoundNotes) : s # <<>> => Tail(s) \in Seq(SoundNotes) /\ Head(s) \in SoundNotes
  BY ONLY <1>1
<1>4. Melodies \subseteq Seq(SoundNotes)
  BY MelodyAssumption DEF SoundNotes
<1> QED
  BY <1>2, <1>3, <1>4, EmptySeq, SoundBoundAssumption

LEMMA SoundStart == ASSUME SoundInit PROVE SoundInv
<1>1. Longest \in Nat /\ Gap \in 1..Longest /\ <<>> \in Seq(SoundNotes)
  BY MelodyNotes
<1>2. 0 \in 0..Longest /\ Longest \in 0..Longest /\ Longest + 1 >= Gap
  BY <1>1
<1>3. SoundTypes /\ Loading
  BY <1>1, <1>2 DEF SoundInit, SoundTypes, SoundPoints, Loading
<1>4. Lasting
  BY <1>2 DEF SoundInit, Lasting
<1> QED
  BY <1>3, <1>4 DEF SoundInv

\* The two bytes of a divisor, one after the other.
LEMMA AppendFirst == ASSUME NEW S, NEW x \in S PROVE Append(<<>>, x) = <<x>>
OBVIOUS
LEMMA AppendSecond == ASSUME NEW S, NEW x \in S, NEW y \in S PROVE Append(<<x>>, y) = <<x, y>>
<1>1. <<x>> \in Seq(S) /\ Len(<<x>>) = 1
  OBVIOUS
<1>2. /\ Append(<<x>>, y) \in Seq(S) /\ Len(Append(<<x>>, y)) = 2
      /\ Append(<<x>>, y)[1] = x /\ Append(<<x>>, y)[2] = y
  BY <1>1
<1>3. <<x, y>> \in Seq(S) /\ Len(<<x, y>>) = 2 /\ <<x, y>>[1] = x /\ <<x, y>>[2] = y
  OBVIOUS
<1>4. 1..2 = {1, 2}
  OBVIOUS
<1> QED
  BY <1>2, <1>3, <1>4, SeqEqual

LEMMA TwoBytes ==
    /\ Append(<<>>, Pitch[1]) = <<Pitch[1]>>
    /\ Append(<<Pitch[1]>>, Pitch[2]) = Pitch
    /\ Len(<<>>) = 0 /\ Len(<<Pitch[1]>>) = 1
<1>1. PICK x, y : Pitch = <<x, y>>
  BY DEF Pitch, Bytes
<1>2. x \in {x, y} /\ y \in {x, y}
  OBVIOUS
<1>3. Append(<<>>, x) = <<x>> /\ Append(<<x>>, y) = <<x, y>>
  BY ONLY <1>2, AppendFirst, AppendSecond
<1>4. Len(<<>>) = 0 /\ Len(<<x>>) = 1 /\ <<x, y>>[1] = x /\ <<x, y>>[2] = y
  OBVIOUS
<1> QED
  BY <1>1, <1>3, <1>4

\* The note that is played, its channel and its sleep.
LEMMA NoteInv ==
    ASSUME SoundInv, PlayMelody \/ EndMelody \/ PlayRest \/ LoadCommand \/ SpeakerOn \/ SilenceNote
    PROVE  SoundInv'
<1>1. SoundTypes /\ Loading /\ Lasting
  BY DEF SoundInv
<1>2. \A s \in Seq(SoundNotes) : s # <<>> => Head(s).ms \in 1..Longest
  BY MelodyNotes
<1>3. notes # <<>> => Note.ms \in 1..Longest
  BY <1>1, <1>2 DEF SoundTypes, Note
<1>4. Longest \in Nat /\ Gap \in 1..Longest
  BY MelodyNotes
<1>5. CASE PlayMelody
  <2>1. /\ snd_pc = "idle" /\ snd_pc' = "next" /\ notes' \in Seq(SoundNotes)
        /\ UNCHANGED <<sleep, pending, channel, speaker, passed>>
    BY <1>5, MelodyNotes DEF PlayMelody, SndStep
  <2> QED
    BY <1>1, <2>1 DEF SoundInv, SoundTypes, SoundPoints, Loading, Lasting
<1>6. CASE EndMelody
  <2>1. /\ snd_pc = "next" /\ snd_pc' = "idle" /\ speaker' = FALSE /\ ~speaker
        /\ UNCHANGED <<notes, sleep, pending, channel, passed>>
    BY <1>1, <1>6 DEF EndMelody, SndStep, SetSpeaker, Loading, SoundTypes
  <2> QED
    BY <1>1, <2>1 DEF SoundInv, SoundTypes, SoundPoints, Loading, Lasting
<1>7. CASE PlayRest
  <2>1. /\ snd_pc = "next" /\ snd_pc' = "sleep" /\ speaker' = FALSE /\ notes # <<>>
        /\ sleep' = Note.ms /\ UNCHANGED <<notes, pending, channel, passed>>
    BY <1>1, <1>7 DEF PlayRest, SndStep, SetSpeaker, SleepFor, Loading, SoundTypes
  <2>2. Note' = Note /\ Note.ms \in 1..Longest
    BY <1>3, <2>1 DEF Note
  <2>0. sleep' \in 0..Longest /\ passed' \in 0..Longest
    BY <1>1, <1>4, <2>1, <2>2 DEF SoundTypes
  <2>3. SoundTypes'
    BY <1>1, <2>0, <2>1 DEF SoundTypes, SoundPoints
  <2>4. Loading'
    BY <2>1 DEF Loading
  <2>5. Lasts(Note.ms)'
    BY <1>1, <1>4, <2>1, <2>2 DEF Lasts, SoundTypes
  <2>6. Lasting'
    BY <2>1, <2>5 DEF Lasting
  <2> QED
    BY <2>3, <2>4, <2>6 DEF SoundInv
<1>8. CASE LoadCommand
  <2>1. /\ snd_pc = "next" /\ snd_pc' = "low" /\ notes # <<>> /\ channel' = <<>>
        /\ UNCHANGED <<notes, sleep, pending, speaker, passed>>
    BY <1>8 DEF LoadCommand, SndStep
  <2> QED
    BY <1>1, <2>1 DEF SoundInv, SoundTypes, SoundPoints, Loading, Lasting
<1>9. CASE SpeakerOn
  <2>1. /\ snd_pc = "on" /\ snd_pc' = "sleep" /\ speaker' = TRUE /\ notes # <<>>
        /\ passed' = 0 /\ sleep' = Note.ms /\ channel = Pitch
        /\ UNCHANGED <<notes, pending, channel>>
    BY <1>1, <1>9 DEF SpeakerOn, SndStep, SetSpeaker, SleepFor, Loading, SoundTypes
  <2>2. Note' = Note /\ Pitch' = Pitch /\ Note.ms \in 1..Longest
    BY <1>3, <2>1 DEF Note, Pitch, Bytes, Divisor, Freq
  <2>0. sleep' \in 0..Longest /\ passed' \in 0..Longest
    BY <1>1, <1>4, <2>1, <2>2 DEF SoundTypes
  <2>3. SoundTypes'
    BY <1>1, <2>0, <2>1 DEF SoundTypes, SoundPoints
  <2>4. Loading'
    BY <2>1, <2>2 DEF Loading
  <2>5. Lasts(Note.ms)'
    BY <1>1, <1>4, <2>1, <2>2 DEF Lasts, SoundTypes
  <2>6. Lasting'
    BY <2>1, <2>5 DEF Lasting
  <2> QED
    BY <2>3, <2>4, <2>6 DEF SoundInv
<1>10. CASE SilenceNote
  <2>1. /\ snd_pc = "off" /\ snd_pc' = "gap" /\ speaker' = FALSE /\ notes # <<>>
        /\ passed' \in {0, passed} /\ sleep' = Gap /\ UNCHANGED <<notes, pending, channel>>
    BY <1>1, <1>10 DEF SilenceNote, SndStep, SetSpeaker, SleepFor, SoundTypes
  <2>0. sleep' \in 0..Longest /\ passed' \in 0..Longest /\ pending' \in BOOLEAN
    BY <1>1, <1>4, <2>1 DEF SoundTypes
  <2>2. SoundTypes'
    BY <1>1, <2>0, <2>1 DEF SoundTypes, SoundPoints
  <2>3. Loading'
    BY <2>1 DEF Loading
  <2>4. Lasts(Gap)'
    <3>1. PICK m \in Nat, n \in Nat : m = Gap /\ n = passed' /\ sleep' = m
      BY <1>4, <2>0, <2>1
    <3>2. m + (IF pending' THEN 1 ELSE 0) <= n + m + 1
      OBVIOUS
    <3> QED
      BY <2>1, <3>1, <3>2 DEF Lasts
  <2>5. Lasting'
    BY <2>1, <2>4 DEF Lasting, Lasts
  <2> QED
    BY <2>2, <2>3, <2>5 DEF SoundInv
<1> QED
  BY <1>5, <1>6, <1>7, <1>8, <1>9, <1>10

\* The channel is loaded.
LEMMA LoadInv == ASSUME SoundInv, LoadByte PROVE SoundInv'
<1>1. SoundTypes /\ Loading /\ Lasting
  BY DEF SoundInv
<1>2. /\ \/ snd_pc = "low" /\ snd_pc' = "high"
         \/ snd_pc = "high" /\ snd_pc' = "on"
      /\ channel' = Append(channel, Pitch[Len(channel) + 1])
      /\ UNCHANGED <<notes, sleep, pending, speaker, passed>>
  BY DEF LoadByte, SndStep, Pitch
<1>3. Pitch' = Pitch
  BY <1>2 DEF Pitch, Note, Bytes, Divisor, Freq
<1>4. 0 + 1 = 1 /\ 1 + 1 = 2
  OBVIOUS
<1>5. IF snd_pc = "low" THEN channel' = <<Pitch[1]>> ELSE channel' = Pitch
  BY <1>1, <1>2, <1>4, TwoBytes DEF Loading
<1>6. SoundTypes' /\ Lasting'
  BY <1>1, <1>2 DEF SoundTypes, SoundPoints, Lasting
<1>7. Loading'
  BY <1>1, <1>2, <1>3, <1>5 DEF Loading
<1> QED
  BY <1>6, <1>7 DEF SoundInv

\* pit_sleep_ms tests and halts.
LEMMA TestInv ==
    ASSUME SoundInv, Test("sleep", "hlt", "off") \/ Test("gap", "gaphlt", "next")
    PROVE  SoundInv'
<1>1. SoundTypes /\ Loading /\ Lasting /\ Longest \in Nat /\ Gap \in 1..Longest
  BY MelodyNotes DEF SoundInv
<1>2. UNCHANGED <<sleep, pending, channel, speaker, passed>>
  BY DEF Test
<1>3. CASE Test("sleep", "hlt", "off")
  <2>1. snd_pc = "sleep" /\ snd_pc' = (IF sleep > 0 THEN "hlt" ELSE "off") /\ notes' = notes
    BY <1>3 DEF Test, SndStep
  <2>2. Note' = Note /\ Pitch' = Pitch
    BY <2>1 DEF Note, Pitch, Bytes, Divisor, Freq
  <2>3. sleep > 0 \/ sleep = 0
    BY <1>1 DEF SoundTypes
  <2>4. Lasts(Note.ms)'
    BY <1>1, <1>2, <2>1, <2>2 DEF Lasting, Lasts
  <2>5. SoundTypes' /\ Loading'
    BY <1>1, <1>2, <2>1, <2>2 DEF SoundTypes, SoundPoints, Loading
  <2>6. Lasting'
    BY <1>2, <2>1, <2>3, <2>4 DEF Lasting
  <2> QED
    BY <2>5, <2>6 DEF SoundInv
<1>4. CASE Test("gap", "gaphlt", "next")
  <2>1. /\ snd_pc = "gap" /\ snd_pc' = (IF sleep > 0 THEN "gaphlt" ELSE "next") /\ ~speaker
        /\ notes' = (IF sleep = 0 THEN Tail(notes) ELSE notes) /\ notes # <<>>
    BY <1>1, <1>4 DEF Test, SndStep, Loading, SoundTypes
  <2>2. sleep > 0 \/ sleep = 0
    BY <1>1 DEF SoundTypes
  <2>3. SoundTypes'
    BY <1>1, <1>2, <2>1, <2>2, MelodyNotes DEF SoundTypes, SoundPoints
  <2>4. Loading'
    BY <1>2, <2>1 DEF Loading
  <2>5. Lasts(Gap) /\ Lasts(Gap)'
    BY <1>1, <1>2, <2>1 DEF Lasting, Lasts
  <2>6. sleep = 0 => passed + 1 >= Gap
    BY <1>1, <2>5 DEF Lasts, SoundTypes
  <2>7. Lasting'
    BY <1>2, <2>1, <2>2, <2>5, <2>6 DEF Lasting
  <2> QED
    BY <2>3, <2>4, <2>7 DEF SoundInv
<1> QED
  BY <1>3, <1>4

\* A timer period, its interrupt, and other interrupts.
LEMMA TimerInv == ASSUME SoundInv, Period \/ PitIrq \/ OtherIrq PROVE SoundInv'
<1>1. SoundTypes /\ Loading /\ Lasting /\ Longest \in Nat /\ Gap \in 1..Longest
  BY MelodyNotes DEF SoundInv
<1>2. UNCHANGED <<notes, channel, speaker>> /\ snd_pc' \in {snd_pc, Awake}
  BY DEF Period, PitIrq, OtherIrq
<1>3. Note' = Note /\ Pitch' = Pitch
  BY <1>2 DEF Note, Pitch, Bytes, Divisor, Freq
<1>4. /\ snd_pc' \in {snd_pc} \cup {"sleep", "gap"}
      /\ snd_pc' = "sleep" => snd_pc \in {"sleep", "hlt"}
      /\ snd_pc' = "gap" => snd_pc \in {"gap", "gaphlt"}
  BY <1>2 DEF Awake
<1>a. PICK l \in Nat : l = Longest
  BY <1>1
<1>b. PICK s \in 0..l, n \in 0..l : s = sleep /\ n = passed
  BY <1>1, <1>a DEF SoundTypes
<1>c. pending' \in BOOLEAN
  BY <1>1 DEF SoundTypes, Period, PitIrq, OtherIrq
<1>5. sleep' \in 0..l /\ passed' \in 0..l /\ passed' >= n /\ (s = 0 => sleep' = 0)
  <2>1. CASE Period
    BY <1>a, <1>b, <2>1 DEF Period
  <2>2. CASE PitIrq
    <3>1. sleep' = (IF s > 0 THEN s - 1 ELSE 0) /\ passed' = n
      BY <1>a, <1>b, <2>2 DEF PitIrq
    <3>2. (IF s > 0 THEN s - 1 ELSE 0) \in 0..l
      BY <1>a, <1>b
    <3> QED
      BY <1>a, <1>b, <3>1, <3>2
  <2>3. CASE OtherIrq
    BY <1>a, <1>b, <1>1, <2>3 DEF OtherIrq, SoundTypes
  <2> QED
    BY <2>1, <2>2, <2>3
<1>6. ASSUME NEW ms \in 1..Longest, Lasts(ms)
      PROVE  passed' = Longest \/ ms + (IF pending' THEN 1 ELSE 0) <= passed' + sleep' + 1
  <2>1. CASE passed = Longest
    <3>1. n = l /\ passed' = l
      BY <1>a, <1>b, <1>5, <2>1
    <3> QED
      BY <1>a, <1>b, <3>1
  <2>2. CASE ms + (IF pending THEN 1 ELSE 0) <= passed + sleep + 1 /\ passed # Longest
    <3>1. CASE Period
      BY <1>1, <2>2, <3>1 DEF Period, SoundTypes
    <3>2. CASE PitIrq
      BY <1>1, <2>2, <3>2 DEF PitIrq, SoundTypes
    <3>3. CASE OtherIrq
      BY <2>2, <3>3 DEF OtherIrq
    <3> QED
      BY <3>1, <3>2, <3>3
  <2> QED
    BY <1>6, <2>1, <2>2 DEF Lasts
<1>7. notes # <<>> => Note.ms \in 1..Longest
  BY <1>1, MelodyNotes DEF SoundTypes, Note
<1>8. SoundTypes'
  BY <1>a, <1>b, <1>c, <1>1, <1>2, <1>4, <1>5 DEF SoundTypes, SoundPoints
<1>9. Loading'
  BY <1>1, <1>2, <1>3, <1>4 DEF Loading
<1>10. Lasting'
  <2>1. snd_pc' \in {"sleep", "hlt", "off"} => Lasts(Note.ms)'
    <3>1. SUFFICES ASSUME snd_pc' \in {"sleep", "hlt", "off"} PROVE Lasts(Note.ms)'
      OBVIOUS
    <3>2. snd_pc \in {"sleep", "hlt", "off"} /\ Note.ms \in 1..Longest
      BY <1>1, <1>4, <1>7, <3>1 DEF SoundTypes
    <3>3. PICK ms \in 1..Longest : ms = Note.ms /\ Lasts(ms)
      BY <1>1, <3>2 DEF Lasting
    <3>4. passed' = Longest \/ ms + (IF pending' THEN 1 ELSE 0) <= passed' + sleep' + 1
      BY <1>6, <3>3
    <3>5. Note.ms' = ms
      BY <1>3, <3>3
    <3> QED
      BY <3>4, <3>5 DEF Lasts
  <2>2. snd_pc' \in {"gap", "gaphlt"} => Lasts(Gap)'
    <3>1. snd_pc' \in {"gap", "gaphlt"} => Lasts(Gap)
      BY <1>1, <1>4 DEF Lasting
    <3> QED
      BY <1>1, <1>6, <3>1 DEF Lasts
  <2>3. snd_pc' = "off" => sleep' = 0
    BY <1>a, <1>b, <1>1, <1>4, <1>5 DEF Lasting
  <2>4. snd_pc' \in {"idle", "next", "low"} => passed' + 1 >= Gap
    <3>1. snd_pc' \in {"idle", "next", "low"} => passed + 1 >= Gap
      BY <1>1, <1>4 DEF Lasting
    <3>2. PICK m \in Nat, k \in Nat : m = Gap /\ k = passed' /\ k >= n
      BY <1>a, <1>1, <1>5
    <3>3. n \in Int /\ k \in Int /\ m \in Int /\ k >= n
      BY <1>a, <1>b, <3>2
    <3>4. n + 1 >= m => k + 1 >= m
      BY ONLY <3>3
    <3> QED
      BY <1>a, <1>b, <3>1, <3>2, <3>4
  <2> QED
    BY <2>1, <2>2, <2>3, <2>4 DEF Lasting
<1> QED
  BY <1>8, <1>9, <1>10 DEF SoundInv

\* Each note, octave by octave: what two bytes keep of its divisor is within a hundredth.
Tuned(d, exact) ==
    LET loaded == (d % 256) + 256 * ((d \div 256) % 256)
    IN  loaded > 0 /\ 100 * 16 * 1193182 \in (99 * exact * loaded)..(101 * exact * loaded)

LEMMA OctavesTuned ==
    \A f \in {262, 277, 294, 311, 330, 349, 370, 392, 415, 440, 466, 494} :
        /\ Tuned(1193182 \div (f \div 2), f * 8) /\ Tuned(1193182 \div f, f * 16)
        /\ Tuned(1193182 \div (f * 2), f * 32) /\ Tuned(1193182 \div (f * 4), f * 64)
BY DEF Tuned

Pitched == DOMAIN note_freqs
Octaves == {3, 4, 5, 6}

LEMMA AllInTune == InTune
<1> DEFINE Fs == {262, 277, 294, 311, 330, 349, 370, 392, 415, 440, 466, 494}
<1>1. ASSUME NEW n \in Pitched PROVE note_freqs[n] \in Fs
  BY DEF note_freqs, Pitched
<1>2. ASSUME NEW n \in Pitched, NEW o \in Octaves
      PROVE  Tuned(Divisor(Freq(n, o)), note_freqs[n] * 2^o)
  <2>1. PICK f \in Fs : f = note_freqs[n]
    BY <1>1
  <2>2. 2^1 = 2 /\ 2^2 = 4 /\ 2^3 = 8 /\ 2^4 = 16 /\ 2^5 = 32 /\ 2^6 = 64 /\ 2^0 = 1
    OBVIOUS
  <2>3. f * 1 = f /\ f \div 1 = f
    BY <2>1
  <2>4. CASE o = 3
    <3>1. Freq(n, o) = f \div 2
      BY <2>1, <2>2, <2>4 DEF Freq
    <3> QED
      BY <2>1, <2>2, <2>4, <3>1, OctavesTuned DEF Divisor
  <2>5. CASE o = 4
    <3>1. Freq(n, o) = f
      BY <2>1, <2>2, <2>3, <2>5 DEF Freq
    <3> QED
      BY <2>1, <2>2, <2>5, <3>1, OctavesTuned DEF Divisor
  <2>6. CASE o = 5
    <3>1. Freq(n, o) = f * 2
      BY <2>1, <2>2, <2>6 DEF Freq
    <3> QED
      BY <2>1, <2>2, <2>6, <3>1, OctavesTuned DEF Divisor
  <2>7. CASE o = 6
    <3>1. Freq(n, o) = f * 4
      BY <2>1, <2>2, <2>7 DEF Freq
    <3> QED
      BY <2>1, <2>2, <2>7, <3>1, OctavesTuned DEF Divisor
  <2> QED
    BY <2>4, <2>5, <2>6, <2>7 DEF Octaves
<1>3. BootPitches \cup ErrorPitches \cup CustomPitches \subseteq Pitched \X Octaves
  <2>1. /\ {"C", "D", "E", "F", "G", "A", "AS", "B"} \subseteq Pitched
        /\ {"C", "D", "E", "F", "G", "A", "B"} \subseteq Pitched
        /\ {"C", "D"} \subseteq Pitched /\ {"C", "DS", "G"} \subseteq Pitched
        /\ {"C", "A", "AS"} \subseteq Pitched /\ {"C", "E", "G", "A", "B"} \subseteq Pitched
        /\ {"C", "D", "E", "G"} \subseteq Pitched
    BY DEF Pitched, note_freqs
  <2>2. ASSUME NEW S, NEW o \in Octaves, S \subseteq Pitched
        PROVE  S \X {o} \subseteq Pitched \X Octaves
    BY <2>2
  <2>3. 3 \in Octaves /\ 4 \in Octaves /\ 5 \in Octaves /\ 6 \in Octaves
    BY DEF Octaves
  <2>4. /\ {"C", "D", "E", "F", "G", "A", "AS", "B"} \X {4} \subseteq Pitched \X Octaves
        /\ {"C", "D", "E", "F", "G", "A", "B"} \X {5} \subseteq Pitched \X Octaves
        /\ {"C", "D"} \X {6} \subseteq Pitched \X Octaves
        /\ {"C", "DS", "G"} \X {5} \subseteq Pitched \X Octaves
    BY ONLY <2>1, <2>2, <2>3
  <2>5. /\ {"C", "A", "AS"} \X {3} \subseteq Pitched \X Octaves
        /\ {"C", "E", "G", "A", "B"} \X {4} \subseteq Pitched \X Octaves
        /\ {"C", "D", "E", "G"} \X {5} \subseteq Pitched \X Octaves
    BY ONLY <2>1, <2>2, <2>3
  <2> QED
    BY <2>4, <2>5 DEF BootPitches, ErrorPitches, CustomPitches
<1>4. ASSUME NEW p \in BootPitches \cup ErrorPitches \cup CustomPitches
      PROVE  LET d == Bytes(Divisor(Freq(p[1], p[2])))
                 loaded == d[1] + 256 * d[2]
                 exact == note_freqs[p[1]] * 2^p[2]
             IN  /\ loaded > 0
                 /\ 100 * 16 * 1193182 \in (99 * exact * loaded)..(101 * exact * loaded)
  <2>1. PICK n \in Pitched, o \in Octaves : p = <<n, o>>
    <3>1. p \in Pitched \X Octaves
      BY <1>3
    <3> QED
      BY ONLY <3>1
  <2>2. Tuned(Divisor(Freq(n, o)), note_freqs[n] * 2^o)
    BY <1>2
  <2>3. p[1] = n /\ p[2] = o
    BY <2>1
  <2> QED
    BY <2>2, <2>3 DEF Tuned, Bytes
<1> QED
  BY <1>4 DEF InTune

\* What is loaded and played at every step of pcspk_play_melody and pit_sleep_ms.
THEOREM SoundInvariance == SoundSpec => []SoundInv
<1>1. ASSUME SoundInv, [SoundNext]_soundVars PROVE SoundInv'
  <2>1. CASE UNCHANGED soundVars
    <3>1. UNCHANGED <<snd_pc, notes, sleep, pending, channel, speaker, passed>>
      BY <2>1 DEF soundVars
    <3>2. UNCHANGED <<Note, Pitch>>
      BY <3>1 DEF Note, Pitch, Bytes, Divisor, Freq
    <3> QED
      BY <1>1, <3>1, <3>2 DEF SoundInv, SoundTypes, Loading, Lasting, Lasts
  <2> QED
    BY <1>1, <2>1, NoteInv, LoadInv, TestInv, TimerInv DEF SoundNext
<1> QED
  BY <1>1, SoundStart, PTL DEF SoundSpec

\* For any melody, and however long the main task is held up: nothing sounds but the whole
\* divisor of a note, for as long as its note says, and the kernel's own melodies are in
\* tune (pcspk.c:35-150, pit.c:73-110).
THEOREM MelodyPlays == SoundSpec => []MelodyRight
<1>1. ASSUME SoundInv PROVE MelodyRight
  <2>1. SoundTypes /\ Loading /\ Lasting /\ Longest \in Nat /\ Gap \in 1..Longest
    BY <1>1, MelodyNotes DEF SoundInv
  <2>2. snd_pc = "off" => passed + 1 >= Note.ms
    <3>1. SUFFICES ASSUME snd_pc = "off" PROVE passed + 1 >= Note.ms
      OBVIOUS
    <3>2. Note.ms \in 1..Longest
      BY <2>1, <3>1, MelodyNotes DEF SoundTypes, Note
    <3>3. sleep = 0 /\ Lasts(Note.ms)
      BY <2>1, <3>1 DEF Lasting
    <3> QED
      BY <2>1, <3>2, <3>3 DEF Lasts, SoundTypes
  <2>3. NotesWhole
    BY <2>1, <2>2 DEF NotesWhole, Loading, Lasting, Pitch
  <2> QED
    BY <2>3, AllInTune DEF MelodyRight
<1> QED
  BY <1>1, SoundInvariance, PTL

\* The powers of two by which a frequency is shifted: a predicate, as the provers reckon
\* only with those of a number that is written down.
ShiftsUp(n) == 2^n \in Nat \ {0}
ShiftsDown(n) == 2^n \in {2, 4, 8, 16}

LEMMA PowersShift == (\A n \in 1..23 : ShiftsUp(n)) /\ (\A n \in 1..4 : ShiftsDown(n))
<1>1. /\ ShiftsUp(1) /\ ShiftsUp(2) /\ ShiftsUp(3) /\ ShiftsUp(4) /\ ShiftsUp(5) /\ ShiftsUp(6)
      /\ ShiftsUp(7) /\ ShiftsUp(8) /\ ShiftsUp(9) /\ ShiftsUp(10) /\ ShiftsUp(11) /\ ShiftsUp(12)
      /\ ShiftsUp(13) /\ ShiftsUp(14) /\ ShiftsUp(15) /\ ShiftsUp(16) /\ ShiftsUp(17) /\ ShiftsUp(18)
      /\ ShiftsUp(19) /\ ShiftsUp(20) /\ ShiftsUp(21) /\ ShiftsUp(22) /\ ShiftsUp(23)
  BY SMTT(30) DEF ShiftsUp
<1>2. ShiftsDown(1) /\ ShiftsDown(2) /\ ShiftsDown(3) /\ ShiftsDown(4)
  BY SMTT(30) DEF ShiftsDown
<1>3. ASSUME NEW n \in 1..23 PROVE ShiftsUp(n)
  BY <1>1
<1>4. ASSUME NEW n \in 1..4 PROVE ShiftsDown(n)
  BY <1>2
<1> QED
  BY <1>3, <1>4

\* A note other than a rest has a frequency, so its divisor is a number of which two bytes
\* are loaded.
LEMMA PitchTyped ==
    ASSUME Note \in SoundNotes, Note.note # "REST"
    PROVE  \E x, y \in 0..255 : Pitch = <<x, y>>
<1> DEFINE Fs == {262, 277, 294, 311, 330, 349, 370, 392, 415, 440, 466, 494}
           freq == Freq(Note.note, Note.octave)
           d == Divisor(freq)
<1>1. PICK n, o : n = Note.note /\ o = Note.octave
  OBVIOUS
<1>2. n \in Pitched /\ o \in 0..27
  BY <1>1 DEF SoundNotes, NoteNames, Pitched
<1>3. PICK f \in Fs : f = note_freqs[n]
  BY <1>2 DEF note_freqs, Pitched
<1>4. freq \in Nat \ {0}
  <2>1. CASE o > 4
    <3>1. o - 4 \in 1..23
      BY <1>2, <2>1
    <3>2. ShiftsUp(o - 4)
      BY <3>1, PowersShift
    <3>3. PICK k : k = 2^(o - 4)
      OBVIOUS
    <3>5. k \in Nat \ {0}
      BY <3>2, <3>3, Zenon DEF ShiftsUp
    <3>4. freq = f * k
      BY <1>1, <1>3, <2>1, <3>3, Zenon DEF Freq
    <3> QED
      BY <3>4, <3>5, SMTT(30)
  <2>2. CASE o = 4
    <3>1. 4 - o = 0 /\ 2^0 = 1 /\ ~(o > 4)
      BY <2>2
    <3>2. freq = f \div 1
      BY <1>1, <1>3, <3>1, Zenon DEF Freq
    <3> QED
      BY <3>2, SMTT(30)
  <2>3. CASE o < 4
    <3>1. 4 - o \in 1..4 /\ ~(o > 4)
      BY <1>2, <2>3
    <3>2. ShiftsDown(4 - o)
      BY <3>1, PowersShift
    <3>3. PICK k : k = 2^(4 - o)
      OBVIOUS
    <3>5. k \in {2, 4, 8, 16}
      BY <3>2, <3>3, Zenon DEF ShiftsDown
    <3>4. freq = f \div k
      BY <1>1, <1>3, <3>1, <3>3, Zenon DEF Freq
    <3> QED
      BY <3>4, <3>5, SMTT(30)
  <2> QED
    BY <1>2, <2>1, <2>2, <2>3
<1>5. d \in Nat
  <2>1. PICK q \in Nat \ {0} : q = freq
    BY <1>4
  <2> QED
    BY <2>1, SMTT(30) DEF Divisor
<1>6. PICK e : e = d
  OBVIOUS
<1>7. PICK x, y : x = e % 256 /\ y = (e \div 256) % 256
  OBVIOUS
<1>8. e \in Nat /\ Pitch = Bytes(e)
  BY <1>5, <1>6, Zenon DEF Pitch
<1>9. x \in 0..255 /\ y \in 0..255
  BY ONLY <1>7, <1>8, SMTT(30)
<1>10. Pitch = <<x, y>>
  BY <1>7, <1>8, Zenon DEF Bytes
<1> QED
  <2> HIDE DEF Fs, freq, d
  <2> USE <1>9
  <2> WITNESS x \in 0..255, y \in 0..255
  <2> QED
    BY <1>10

\* What SoundInv leaves open of the types: the notes are what is left of a melody, a note
\* that is loaded is no rest, and what is loaded of it is bytes.
SoundKept ==
    /\ \E m \in Melodies : \E i \in 1..(Len(m) + 1) : notes = SubSeq(m, i, Len(m))
    /\ snd_pc \in {"low", "high", "on"} => Note.note # "REST"
    /\ Len(channel) <= 2 /\ \A i \in 1..Len(channel) : channel[i] \in 0..255
    /\ plays \in 0..MaxPlays

\* What is left of a melody after a note is left of it too.
LEMMA RestOfMelody ==
    ASSUME NEW m \in Melodies, NEW i \in 1..(Len(m) + 1), notes = SubSeq(m, i, Len(m)),
           notes # <<>>
    PROVE  Tail(notes) = SubSeq(m, i + 1, Len(m)) /\ i + 1 \in 1..(Len(m) + 1)
<1>1. m \in Seq(SoundNotes) /\ Len(m) \in Nat
  BY MelodyNotes, LenProperties
<1>2. i # Len(m) + 1
  <2>1. ASSUME i = Len(m) + 1 PROVE FALSE
    <3>1. i \in Int /\ Len(m) \in Int /\ Len(m) < i
      BY <1>1, <2>1
    <3> QED
      BY <3>1, SubSeqEmpty
  <2> QED
    BY <2>1
<1>3. i \in 1..Len(m) /\ Len(m) \in i..Len(m) /\ i + 1 \in 1..(Len(m) + 1)
  BY <1>1, <1>2
<1> QED
  BY <1>1, <1>3, HeadTailOfSubSeq

\* The types of the player: what is left of a melody, a sleep and two bytes in the channel
\* at most (pcspk.c:35-150, pit.c:73-110).
THEOREM SoundTypeCorrect == SoundSpec => []SoundTypeOK
<1>1. ASSUME SoundInit PROVE SoundKept
  <2>1. PICK m \in Melodies : TRUE
    BY MelodyAssumption
  <2>2. m \in Seq(SoundNotes)
    BY MelodyNotes
  <2>3. Len(m) + 1 \in Int /\ Len(m) \in Int /\ Len(m) < Len(m) + 1 /\ Len(m) + 1 \in 1..(Len(m) + 1)
    BY <2>2, LenProperties
  <2>4. SubSeq(m, Len(m) + 1, Len(m)) = <<>>
    BY <2>3, SubSeqEmpty
  <2>5. Len(<<>>) = 0
    OBVIOUS
  <2>6. plays \in 0..MaxPlays
    BY <1>1, SoundBoundAssumption DEF SoundInit
  <2>7. snd_pc = "idle" /\ notes = <<>> /\ channel = <<>>
    BY <1>1 DEF SoundInit
  <2>8. Len(channel) <= 2 /\ \A i \in 1..Len(channel) : channel[i] \in 0..255
    BY <2>5, <2>7
  <2> QED
    BY <2>1, <2>3, <2>4, <2>6, <2>7, <2>8 DEF SoundKept
<1>2. ASSUME SoundInv, SoundKept, [SoundNext]_soundVars PROVE SoundKept'
  <2>1. CASE PlayMelody
    <3>1. PICK m \in Melodies : notes' = m
      BY <2>1 DEF PlayMelody
    <3>2. m \in Seq(SoundNotes)
      BY MelodyNotes
    <3>3. m = SubSeq(m, 1, Len(m)) /\ 1 \in 1..(Len(m) + 1)
      BY <3>2, SubSeqFull, LenProperties
    <3>4. plays' \in 0..MaxPlays /\ snd_pc' = "next" /\ channel' = channel
      BY <1>2, <2>1, SoundBoundAssumption DEF PlayMelody, SndStep, SoundKept
    <3> QED
      BY <1>2, <3>1, <3>3, <3>4 DEF SoundKept
  <2>2. CASE LoadByte
    <3>1. snd_pc \in {"low", "high"} /\ snd_pc' \in {"high", "on"} /\ UNCHANGED <<notes, plays>>
      BY <2>2 DEF LoadByte, SndStep
    <3>2. Note.note # "REST" /\ Note' = Note
      BY <1>2, <3>1 DEF SoundKept, Note
    <3>3. notes \in Seq(SoundNotes) /\ notes # <<>>
      BY <1>2, <3>1 DEF SoundInv, SoundTypes
    <3>4. Note \in SoundNotes
      BY <3>3, HeadTailProperties DEF Note
    <3>5. PICK x, y \in 0..255 : Pitch = <<x, y>>
      BY <3>2, <3>4, PitchTyped
    <3>6. channel' = <<x>> \/ channel' = <<x, y>>
      <4>1. channel' = Append(channel, Pitch[Len(channel) + 1])
        BY <2>2 DEF LoadByte, Pitch
      <4>2. Pitch[1] = x /\ Pitch[2] = y
        BY <3>5
      <4>3. CASE snd_pc = "low"
        <5>1. channel = <<>> /\ Len(channel) = 0
          BY <1>2, <4>3, TwoBytes, Zenon DEF SoundInv, Loading
        <5>2. Len(channel) + 1 = 1
          BY <5>1
        <5> QED
          BY <4>1, <4>2, <5>1, <5>2, TwoBytes, Zenon
      <4>4. CASE snd_pc = "high"
        <5>1. channel = <<Pitch[1]>> /\ Len(channel) = 1
          BY <1>2, <4>4, TwoBytes, Zenon DEF SoundInv, Loading
        <5>2. Len(channel) + 1 = 2
          BY <5>1
        <5> QED
          BY <3>5, <4>1, <5>1, <5>2, TwoBytes, Zenon
      <4> QED
        BY <3>1, <4>3, <4>4
    <3>7. Len(channel') <= 2 /\ \A i \in 1..Len(channel') : channel'[i] \in 0..255
      <4>1. PICK c : c = channel'
        OBVIOUS
      <4>2. CASE c = <<x>>
        <5>1. Len(c) = 1 /\ c[1] = x
          BY <4>2
        <5> QED
          BY <4>1, <5>1
      <4>3. CASE c = <<x, y>>
        <5>1. Len(c) = 2 /\ c[1] = x /\ c[2] = y
          BY <4>3
        <5>2. 1..2 = {1, 2}
          OBVIOUS
        <5> QED
          BY <4>1, <5>1, <5>2
      <4> QED
        BY <3>6, <4>1, <4>2, <4>3
    <3> QED
      BY <1>2, <3>1, <3>2, <3>7 DEF SoundKept
  <2>3. CASE LoadCommand
    <3>1. channel' = <<>> /\ Note.note # "REST" /\ UNCHANGED <<notes, plays>>
      BY <2>3 DEF LoadCommand
    <3>2. Len(channel') <= 2 /\ \A i \in 1..Len(channel') : channel'[i] \in 0..255
      BY <3>1
    <3>3. Note' = Note
      BY <3>1 DEF Note
    <3> QED
      BY <1>2, <3>1, <3>2, <3>3 DEF SoundKept
  <2>4. CASE Test("gap", "gaphlt", "next")
    <3>1. /\ notes' = notes \/ notes' = Tail(notes)
          /\ snd_pc = "gap" /\ snd_pc' \in {"gaphlt", "next"} /\ UNCHANGED <<channel, plays>>
      BY <2>4 DEF Test, SndStep
    <3>2. notes # <<>>
      BY <1>2, <3>1 DEF SoundInv, SoundTypes
    <3>3. \E m \in Melodies : \E i \in 1..(Len(m) + 1) : notes' = SubSeq(m, i, Len(m))
      BY <1>2, <3>1, <3>2, RestOfMelody DEF SoundKept
    <3> QED
      BY <1>2, <3>1, <3>3 DEF SoundKept
  <2>5. ASSUME UNCHANGED <<notes, channel, plays>>, snd_pc' \in {"low", "high", "on"} => snd_pc' = snd_pc
        PROVE  SoundKept'
    <3>1. Note' = Note
      BY <2>5 DEF Note
    <3> QED
      BY <1>2, <2>5, <3>1 DEF SoundKept
  <2>6. CASE EndMelody \/ PlayRest \/ SpeakerOn \/ Test("sleep", "hlt", "off") \/ SilenceNote
    <3>1. UNCHANGED <<notes, channel, plays>> /\ snd_pc' \in {"idle", "sleep", "hlt", "off", "gap"}
      BY <2>6 DEF EndMelody, PlayRest, SpeakerOn, Test, SilenceNote, SndStep
    <3> QED
      BY <2>5, <3>1
  <2>7. CASE Period \/ PitIrq \/ OtherIrq \/ UNCHANGED soundVars
    <3>1. UNCHANGED <<notes, channel, plays>> /\ (snd_pc' = snd_pc \/ snd_pc' = Awake)
      BY <2>7 DEF Period, PitIrq, OtherIrq, soundVars
    <3>2. Awake = snd_pc \/ Awake \in {"sleep", "gap"}
      BY DEF Awake
    <3> QED
      BY <2>5, <3>1, <3>2
  <2> QED
    BY <1>2, <2>1, <2>2, <2>3, <2>4, <2>6, <2>7 DEF SoundNext
<1>3. SoundInv /\ SoundKept => SoundTypeOK
  BY DEF SoundInv, SoundTypes, SoundPoints, SoundKept, SoundTypeOK
<1> QED
  BY <1>1, <1>2, <1>3, SoundInvariance, PTL DEF SoundSpec

-----------------------------------------------------------------------------
\* The parts together.

\* A step of MCDrivers is a step of one part, in which the others rest.
THEOREM EachPartRuns ==
    Spec => RtcSpec /\ AtaSpec /\ BootSpec /\ SoundSpec /\ MarqueeSpec /\ TypingSpec
<1>1. Init => RtcInit /\ AtaInit /\ BootInit /\ SoundInit /\ MarqueeInit /\ TypingInit
  BY DEF Init
<1>2. ASSUME [Next]_<<rtcVars, ataVars, bootVars, soundVars, marqueeVars, typingVars>>
      PROVE  /\ [RtcNext]_rtcVars /\ [AtaNext]_ataVars /\ [BootNext]_bootVars
             /\ [SoundNext]_soundVars /\ [MarqueeNext]_marqueeVars /\ [TypingNext]_typingVars
  <2>1. CASE ClockRuns
    BY <2>1 DEF ClockRuns
  <2>2. CASE DiskRuns
    BY <2>2 DEF DiskRuns
  <2>3. CASE BootRuns
    BY <2>3 DEF BootRuns
  <2>4. CASE SpeakerRuns
    BY <2>4 DEF SpeakerRuns
  <2>5. CASE MarqueeRuns
    BY <2>5 DEF MarqueeRuns
  <2>6. CASE KeysRun
    BY <2>6 DEF KeysRun
  <2>7. CASE UNCHANGED <<rtcVars, ataVars, bootVars, soundVars, marqueeVars, typingVars>>
    BY <2>7
  <2> QED
    BY <1>2, <2>1, <2>2, <2>3, <2>4, <2>5, <2>6, <2>7 DEF Next
<1> QED
  BY <1>1, <1>2, PTL DEF Spec, RtcSpec, AtaSpec, BootSpec, SoundSpec, MarqueeSpec, TypingSpec

\* Every part keeps the types of its variables, for any drives, melodies, texts, keys and
\* sizes, whichever of them runs.
THEOREM DriversTyped == Spec => []TypeOK
<1>1. TypingSpec => []TypingTypeOK
  BY LineIsMeant, PTL
<1>2. /\ RtcTypeOK /\ AtaTypeOK /\ BootTypeOK /\ SoundTypeOK /\ MarqueeTypeOK /\ TypingTypeOK
      => TypeOK
  BY DEF TypeOK
<1> QED
  BY <1>1, <1>2, EachPartRuns, RtcTyped, AtaTypeCorrect, BootTypeCorrect, SoundTypeCorrect,
     MarqueeTypeCorrect, PTL

\* What is right of each part alone is right of them together: the clock, a transfer, the
\* input after boot, a melody, the scrolling text and what is typed.
THEOREM DriversRight ==
    Spec => [](/\ ClockRight /\ TransfersRight /\ InputAlive
               /\ MelodyRight /\ ScreenRight /\ TypingRight)
BY EachPartRuns, ClockTellsTime, TransfersCorrect, InputComesAlive, MelodyPlays, TextScrolls,
   TypedIsDone, PTL
=============================================================================
