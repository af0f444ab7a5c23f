---------------------------- MODULE AtaPioProofs ----------------------------
(***************************************************************************)
(* What the ATA driver does, for a device of any size, any chunk length,   *)
(* any poll bound and any number of device errors: a read that answers     *)
(* true has the sectors asked for (ReadExact), a write touches no other    *)
(* sector and is complete when nothing failed (WriteExact), and the device *)
(* is free whenever a command is sent (DeviceFree).                        *)
(***************************************************************************)
EXTENDS AtaPio, TLAPS

-----------------------------------------------------------------------------
(* The inductive invariant.                                                *)

Steps == {"off", "init_busy", "init_drq", "init_data", "idle", "issue", "drq",
          "data", "flush", "not_busy", "ret"}

Cells == Values \cup {NoVal}

DevType == [st : {"idle", "busy", "drq", "err"},
            cmd : {"none", "identify", "read", "write", "flush"},
            lba : Nat, left : Nat, data : Cells]

CallType == [write : BOOLEAN, first : Nat, count : Nat, data : Seq(Cells), moved : Nat,
             chunk : Nat, sector : Nat, ret : BOOLEAN]

\* A command the device works on stays on the medium, and only a write leaves
\* a sector with the device.
DevShape ==
  /\ dev \in DevType
  /\ dev.cmd \in {"read", "write"} => dev.left >= 1 /\ dev.lba + dev.left <= Sectors
  /\ dev.data # NoVal => dev.cmd = "write" /\ dev.st = "busy"
  /\ dev.st = "drq" => dev.cmd \in {"identify", "read", "write"}
  /\ dev.st = "busy" => dev.cmd # "none"

\* The types that TypeOK leaves open.
Types ==
  /\ medium \in [Lbas -> Values] /\ old \in [Lbas -> Values]
  /\ bus \in {"device", "zero", "floating"} /\ pc \in Steps
  /\ ready \in BOOLEAN /\ late \in BOOLEAN /\ failed \in BOOLEAN
  /\ polls \in 0 .. ATA_TIMEOUT /\ errors \in 0 .. MaxErrors
  /\ t \in CallType /\ DevShape

\* How far the call is, at each step of it.
Progress ==
  /\ pc \in {"off", "init_busy", "init_drq", "init_data", "idle"} => t = NoCall
  /\ t.first + t.count <= Sectors /\ t.moved <= t.count
  /\ t.chunk <= ATA_TRANSFER_MAX /\ t.sector <= t.chunk
  /\ t.write => t.data \in Seq(Values) /\ Len(t.data) = t.count
  /\ pc = "issue" => t.moved < t.count
  /\ pc \in {"drq", "data"} => t.sector < t.chunk /\ t.moved + t.chunk <= t.count + t.sector
  /\ pc \in {"flush", "not_busy"} => t.write /\ t.sector = t.chunk /\ 1 <= t.moved
  /\ t.ret => t.moved = t.count
  /\ pc = "ret" /\ ~t.ret => t.moved = 0 \/ t.moved < t.count

\* Who is on the bus. Nothing is sent to a bus without a device.
Attached ==
  /\ pc \in {"off", "init_busy", "init_drq", "init_data"} => ~ready
  /\ pc \in {"issue", "drq", "data", "flush", "not_busy"} => ready
  /\ ready \/ pc \in {"init_drq", "init_data"} => bus = "device"
  /\ bus = "floating" => pc \in {"off", "init_busy"}
  /\ bus = "zero" => pc \in {"off", "idle", "ret"}

\* The device and the driver agree about the command in progress, until a wait
\* runs out. A sector the device was given and has not stored is the last one
\* the driver moved.
Agree ==
  ~late =>
    /\ pc \in {"off", "idle", "issue", "ret"} => dev.st \in {"idle", "err"}
    /\ pc = "data" => dev.st = "drq"
    /\ pc \in {"drq", "data"} /\ dev.data = NoVal =>
         \/ dev.st = "err"
         \/ /\ dev.st \in {"busy", "drq"} /\ dev.cmd = (IF t.write THEN "write" ELSE "read")
            /\ dev.lba = t.first + t.moved /\ dev.left = t.chunk - t.sector
    /\ pc \in {"flush", "not_busy"} /\ dev.data = NoVal =>
         dev.st \in {"idle", "err"} \/ (dev.st = "busy" /\ dev.cmd = "flush")
    /\ dev.data # NoVal =>
         /\ pc \in {"drq", "flush", "not_busy"} /\ t.write /\ 1 <= t.moved
         /\ dev.st = "busy" /\ dev.cmd = "write" /\ dev.data = t.data[t.moved]
         /\ dev.lba = t.first + t.moved - 1 /\ dev.left = t.chunk - t.sector + 1

\* What a read has so far.
ReadSoFar ==
  ~late /\ ~t.write => /\ Len(t.data) = t.moved
                       /\ \A k \in 1 .. t.moved : t.data[k] = medium[t.first + k - 1]

\* What a write has done so far.
WriteSoFar ==
  ~late /\ t.write =>
    /\ \A lba \in Lbas \ Asked : medium[lba] = old[lba]
    /\ t.moved = 0 => medium = old
    /\ ~failed => \A k \in 1 .. t.moved :
                    dev.data = NoVal \/ k < t.moved => medium[t.first + k - 1] = t.data[k]

IInv == Types /\ Progress /\ Attached /\ Agree /\ ReadSoFar /\ WriteSoFar
-----------------------------------------------------------------------------
(* Every step preserves it.                                                *)

\* The device may become ready at any time.
LEMMA DeviceReadyKeeps ==
  ASSUME IInv, DeviceReady
  PROVE  IInv'
<1>1. Types'
  <2>1. DevShape'
    BY AtaAssumption DEF IInv, Types, DevShape, DevType, Cells, Idle, DeviceReady, DeviceOnly
  <2>2. t' \in CallType
    BY DEF IInv, Types, CallType, DeviceReady, DeviceOnly
  <2>3. polls' \in 0 .. ATA_TIMEOUT /\ errors' \in 0 .. MaxErrors
    BY AtaAssumption DEF IInv, Types, DeviceReady, DeviceOnly
  <2> QED BY <2>1, <2>2, <2>3 DEF IInv, Types, Steps, DeviceReady, DeviceOnly
<1>2. Progress'
  BY AtaAssumption DEF IInv, Types, Progress, CallType, Idle, DeviceReady, DeviceOnly
<1>3. Attached'
  BY AtaAssumption DEF IInv, Types, Attached, Idle, DeviceReady, DeviceOnly
<1>4. Agree'
  BY AtaAssumption DEF IInv, Types, Progress, Attached, Agree, DevShape, DevType, CallType, Cells, Idle, DeviceReady, DeviceOnly
<1>5. ReadSoFar'
  BY AtaAssumption DEF IInv, Types, Progress, Attached, Agree, ReadSoFar, CallType, Idle, Lbas, DeviceReady, DeviceOnly
<1>6. WriteSoFar'
  BY AtaAssumption DEF IInv, Types, Progress, Attached, Agree, WriteSoFar, Asked, DevShape, DevType, CallType, Cells, Idle, Lbas, DeviceReady, DeviceOnly
<1> QED BY <1>1, <1>2, <1>3, <1>4, <1>5, <1>6 DEF IInv

\* The sector the device stores is the last one it was given.
LEMMA DeviceStoresKeeps ==
  ASSUME IInv, DeviceStores
  PROVE  IInv'
<1>1. Types'
  <2>1. dev.cmd = "write" /\ dev.left >= 1 /\ dev.lba + dev.left <= Sectors /\ dev \in DevType
    BY DEF IInv, Types, DevShape, DeviceStores
  <2>2. DevShape'
    <3>1. CASE dev.left = 1
      BY <3>1, <2>1 DEF DevShape, DevType, Cells, Idle, DeviceStores
    <3>2. CASE dev.left # 1
      <4>1. /\ dev'.st = "drq" /\ dev'.cmd = "write" /\ dev'.lba = dev.lba + 1
            /\ dev'.left = dev.left - 1 /\ dev'.data = NoVal
        BY <3>2, <2>1 DEF DevType, DeviceStores
      <4>2. dev' \in DevType
        <5>1. dev.lba + 1 \in Nat /\ dev.left - 1 \in Nat
          BY <3>2, <2>1 DEF DevType
        <5> QED BY <3>2, <2>1, <5>1 DEF DevType, Cells, DeviceStores
      <4> QED BY <3>2, <2>1, <4>1, <4>2, AtaAssumption DEF DevShape, DevType
    <3> QED BY <3>1, <3>2
  <2>3. medium' \in [Lbas -> Values]
    BY DEF IInv, Types, DevShape, DevType, Cells, DeviceStores
  <2> QED BY <2>1, <2>2, <2>3 DEF IInv, Types, DeviceStores, DeviceOnly
<1>2. Progress'
  BY AtaAssumption DEF IInv, Types, Progress, CallType, Idle, DeviceStores, DeviceOnly
<1>3. Attached'
  BY AtaAssumption DEF IInv, Types, Attached, Idle, DeviceStores, DeviceOnly
<1>4. Agree'
  <2> SUFFICES ASSUME ~late PROVE Agree'
    BY DEF Agree, DeviceStores, DeviceOnly
  <2>1. CASE dev.left = 1
    BY <2>1 DEF IInv, Types, Progress, Agree, DevShape, DevType, CallType, Idle, DeviceStores, DeviceOnly
  <2>2. CASE dev.left # 1
    <3>1. /\ dev'.st = "drq" /\ dev'.cmd = "write" /\ dev'.data = NoVal
          /\ dev'.lba = dev.lba + 1 /\ dev'.left = dev.left - 1
      BY <2>2 DEF IInv, Types, Agree, DevShape, DevType, DeviceStores
    <3>2. pc = "drq" /\ t.write /\ dev.lba = t.first + t.moved - 1
      BY <2>2 DEF IInv, Types, Progress, Agree, DevShape, DevType, CallType, DeviceStores
    <3>3. dev.left = t.chunk - t.sector + 1
      BY DEF IInv, Agree, DeviceStores
    <3>4. UNCHANGED <<pc, t, late>> /\ t \in CallType /\ dev \in DevType
      BY DEF IInv, Types, DevShape, DeviceStores, DeviceOnly
    <3> QED BY <3>1, <3>2, <3>3, <3>4 DEF Agree, DevType, CallType
  <2> QED BY <2>1, <2>2
<1>5. ReadSoFar'
  BY AtaAssumption DEF IInv, Types, Progress, Attached, Agree, ReadSoFar, CallType, Idle, Lbas, DeviceStores, DeviceOnly
<1>6. WriteSoFar'
  <2> SUFFICES ASSUME ~late, t.write PROVE WriteSoFar'
    BY DEF WriteSoFar, DeviceStores, DeviceOnly
  <2>a. t \in CallType /\ t.first + t.count <= Sectors /\ t.moved <= t.count
    BY DEF IInv, Types, Progress
  <2>b. dev.lba = t.first + t.moved - 1 /\ 1 <= t.moved /\ dev.data = t.data[t.moved]
    BY DEF IInv, Agree, DeviceStores
  <2>c. dev'.data = NoVal
    BY DEF IInv, Types, DevShape, DevType, Idle, DeviceStores
  <2>d. \A k \in 1 .. t.moved : t.first + k - 1 \in Lbas
    BY <2>a, AtaAssumption DEF CallType, Lbas
  <2>1. dev.lba \in Lbas /\ dev.lba \in Asked
    BY <2>a, <2>b, <2>d DEF CallType, Asked
  <2>2. medium'[dev.lba] = t.data[t.moved]
        /\ \A lba \in Lbas : lba # dev.lba => medium'[lba] = medium[lba]
    BY <2>1, <2>b DEF IInv, Types, DeviceStores
  <2>3. \A lba \in Lbas \ Asked : medium'[lba] = old[lba]
    BY <2>1, <2>2 DEF IInv, WriteSoFar
  <2>4. ~failed => \A k \in 1 .. t.moved : medium'[t.first + k - 1] = t.data[k]
    <3> SUFFICES ASSUME ~failed, NEW k \in 1 .. t.moved
                 PROVE  medium'[t.first + k - 1] = t.data[k]
      OBVIOUS
    <3>1. t.first + k - 1 \in Lbas
      BY <2>d
    <3>2. CASE k = t.moved
      BY <3>2, <2>b, <2>2
    <3>3. CASE k # t.moved
      <4>1. k < t.moved /\ t.first + k - 1 # dev.lba
        BY <3>3, <2>a, <2>b DEF CallType
      <4> QED BY <4>1, <3>1, <2>2 DEF IInv, WriteSoFar
    <3> QED BY <3>2, <3>3
  <2> QED BY <2>a, <2>b, <2>3, <2>4 DEF CallType, WriteSoFar, Asked, DeviceStores, DeviceOnly
<1> QED BY <1>1, <1>2, <1>3, <1>4, <1>5, <1>6 DEF IInv

\* A device that gives up forgets the sector it was given.
LEMMA DeviceFailsKeeps ==
  ASSUME IInv, DeviceFails
  PROVE  IInv'
<1>1. Types'
  <2>1. DevShape'
    BY AtaAssumption DEF IInv, Types, DevShape, DevType, Cells, Idle, DeviceFails, DeviceOnly
  <2>2. t' \in CallType
    BY DEF IInv, Types, CallType, DeviceFails, DeviceOnly
  <2>3. polls' \in 0 .. ATA_TIMEOUT /\ errors' \in 0 .. MaxErrors
    BY AtaAssumption DEF IInv, Types, DeviceFails, DeviceOnly
  <2> QED BY <2>1, <2>2, <2>3 DEF IInv, Types, Steps, DeviceFails, DeviceOnly
<1>2. Progress'
  BY AtaAssumption DEF IInv, Types, Progress, CallType, Idle, DeviceFails, DeviceOnly
<1>3. Attached'
  BY AtaAssumption DEF IInv, Types, Attached, Idle, DeviceFails, DeviceOnly
<1>4. Agree'
  BY AtaAssumption DEF IInv, Types, Progress, Attached, Agree, DevShape, DevType, CallType, Cells, Idle, DeviceFails, DeviceOnly
<1>5. ReadSoFar'
  BY AtaAssumption DEF IInv, Types, Progress, Attached, Agree, ReadSoFar, CallType, Idle, Lbas, DeviceFails, DeviceOnly
<1>6. WriteSoFar'
  BY AtaAssumption DEF IInv, Types, Progress, Attached, Agree, WriteSoFar, Asked, DevShape, DevType, CallType, Cells, Idle, Lbas, DeviceFails, DeviceOnly
<1> QED BY <1>1, <1>2, <1>3, <1>4, <1>5, <1>6 DEF IInv

\* A poll of ata_wait_drq.
LEMMA WaitDrqKeeps ==
  ASSUME IInv, ata_wait_drq
  PROVE  IInv'
<1>1. Types'
  <2>1. polls' \in 0 .. ATA_TIMEOUT /\ UNCHANGED <<dev, t, errors>>
    BY AtaAssumption DEF IInv, Types, ata_wait_drq
  <2>2. DevShape'
    BY <2>1 DEF IInv, Types, DevShape
  <2> QED BY <2>1, <2>2 DEF IInv, Types, Steps, ata_wait_drq
<1>2. Progress'
  BY AtaAssumption DEF IInv, Types, Progress, CallType, Idle, ata_wait_drq, BSY, DRQ, ERR
<1>3. Attached'
  BY AtaAssumption DEF IInv, Types, Attached, Idle, ata_wait_drq, BSY, DRQ, ERR
<1>4. Agree'
  <2> SUFFICES ASSUME ~late' PROVE Agree'
    BY DEF Agree
  <2>1. ~late /\ polls > 0 /\ bus = "device" /\ UNCHANGED <<dev, t, bus>>
    BY DEF IInv, Types, Attached, Agree, ata_wait_drq
  <2>2. CASE ERR
    BY <2>1, <2>2 DEF IInv, Types, Agree, ata_wait_drq, ERR
  <2>3. CASE ~ERR /\ ~BSY /\ DRQ
    BY <2>1, <2>3 DEF IInv, Types, Agree, ata_wait_drq, DRQ
  <2>4. CASE ~ERR /\ (BSY \/ ~DRQ)
    BY <2>1, <2>4 DEF IInv, Types, Agree, ata_wait_drq
  <2> QED BY <2>2, <2>3, <2>4
<1>5. ReadSoFar'
  BY AtaAssumption DEF IInv, Types, Progress, Attached, Agree, ReadSoFar, CallType, Idle, Lbas, ata_wait_drq, BSY, DRQ, ERR
<1>6. WriteSoFar'
  BY AtaAssumption DEF IInv, Types, Progress, Attached, Agree, WriteSoFar, Asked, DevShape, DevType, CallType, Cells, Idle, Lbas, ata_wait_drq, BSY, DRQ, ERR
<1> QED BY <1>1, <1>2, <1>3, <1>4, <1>5, <1>6 DEF IInv

\* ata_pio_init.
LEMMA InitKeeps ==
  ASSUME IInv, ata_pio_init
  PROVE  IInv'
<1> USE AtaAssumption DEF ata_pio_init, Identify, InitPolls, InitNotBusy, InitData, vars
<1>1. Types'
  <2>1. DevShape'
    <3>1. CASE Identify
      BY <3>1 DEF IInv, Types, DevShape, DevType, Cells, Command
    <3>2. CASE InitData
      BY <3>2 DEF DevShape, DevType, Cells, Idle
    <3> QED BY <3>1, <3>2 DEF IInv, Types, DevShape
  <2>2. polls' \in 0 .. ATA_TIMEOUT /\ UNCHANGED <<t, errors, late, failed>>
    BY DEF IInv, Types
  <2> QED BY <2>1, <2>2 DEF IInv, Types, Steps
<1>2. Progress'
  BY DEF IInv, Types, Progress, NoCall
<1>3. Attached'
  <2>1. CASE Identify
    BY <2>1 DEF IInv, Types, Attached
  <2>2. CASE InitNotBusy
    BY <2>2 DEF IInv, Types, Attached, BSY, ERR
  <2>3. CASE InitData
    BY <2>3 DEF IInv, Types, Attached
  <2> QED BY <2>1, <2>2, <2>3 DEF IInv, Attached
<1>4. Agree'
  BY DEF IInv, Types, Progress, Attached, Agree, Idle, BSY, ERR, Command
<1>5. ReadSoFar'
  BY DEF IInv, ReadSoFar
<1>6. WriteSoFar'
  BY DEF IInv, Progress, NoCall, WriteSoFar
<1> QED BY <1>1, <1>2, <1>3, <1>4, <1>5, <1>6 DEF IInv

\* ata_transfer sends the command of the next chunk to a device that takes it.
LEMMA TransferKeeps ==
  ASSUME IInv, ata_transfer
  PROVE  IInv'
<1> DEFINE left == t.count - t.moved
           chunk == IF left > ATA_TRANSFER_MAX THEN ATA_TRANSFER_MAX ELSE left
<1>a. /\ t.count \in Nat /\ t.moved \in Nat /\ t.first \in Nat /\ t.moved < t.count
      /\ t.first + t.count <= Sectors
  BY DEF IInv, Types, Progress, CallType, ata_transfer
<1>b. chunk \in Nat /\ 1 <= chunk /\ chunk <= ATA_TRANSFER_MAX /\ t.moved + chunk <= t.count
  BY <1>a, AtaAssumption
<1>c. t' = [t EXCEPT !.chunk = chunk, !.sector = 0] /\ pc' = "drq"
  BY DEF ata_transfer
<1>d. Command(IF t.write THEN "write" ELSE "read", t.first + t.moved, chunk)
  BY DEF ata_transfer
<1> HIDE DEF chunk
<1>e. /\ t' \in CallType /\ t'.chunk = chunk /\ t'.sector = 0
      /\ t'.write = t.write /\ t'.first = t.first /\ t'.count = t.count /\ t'.moved = t.moved
      /\ t'.data = t.data /\ t'.ret = t.ret
  BY <1>b, <1>c DEF IInv, Types, CallType
<1>1. Types'
  <2>1. DevShape'
    <3>1. CASE dev' = dev
      BY <3>1 DEF IInv, Types, DevShape
    <3>2. CASE dev' = [st |-> "busy", cmd |-> IF t.write THEN "write" ELSE "read",
                       lba |-> t.first + t.moved, left |-> chunk, data |-> NoVal]
      BY <1>a, <1>b, <3>2, AtaAssumption DEF DevShape, DevType, Cells
    <3> QED BY <1>d, <3>1, <3>2 DEF Command
  <2>2. polls' \in 0 .. ATA_TIMEOUT
    BY AtaAssumption DEF ata_transfer
  <2> QED BY <1>e, <2>1, <2>2 DEF IInv, Types, Steps, ata_transfer
<1>2. Progress'
  BY <1>a, <1>b, <1>c, <1>e DEF IInv, Types, Progress, CallType
<1>3. Attached'
  BY DEF IInv, Types, Attached, ata_transfer
<1>4. Agree'
  BY <1>a, <1>b, <1>c, <1>d, <1>e DEF IInv, Types, Attached, Agree, DevShape, DevType, Command, ata_transfer
<1>5. ReadSoFar'
  BY <1>e DEF IInv, ReadSoFar, ata_transfer
<1>6. WriteSoFar'
  BY <1>d, <1>e DEF IInv, Types, Agree, WriteSoFar, Asked, Command, ata_transfer
<1> QED BY <1>1, <1>2, <1>3, <1>4, <1>5, <1>6 DEF IInv

\* A sector goes through the data port.
LEMMA MoveSectorKeeps ==
  ASSUME IInv, MoveSector
  PROVE  IInv'
<1> DEFINE last == t.sector + 1 = t.chunk
           value == IF dev.st = "drq" /\ dev.cmd = "read" THEN medium[dev.lba] ELSE NoVal
<1>a. /\ t \in CallType /\ dev \in DevType /\ t.moved < t.count /\ t.sector < t.chunk
      /\ t.moved + t.chunk <= t.count + t.sector
  <2>1. t \in CallType /\ dev \in DevType
    BY DEF IInv, Types, DevShape
  <2>2. pc = "data"
    BY DEF MoveSector
  <2> QED BY <2>1, <2>2 DEF IInv, Progress, CallType
<1>b. value \in Cells
  BY AtaAssumption DEF IInv, Types, DevShape, DevType, Cells, Lbas
<1>c. /\ t'.moved = t.moved + 1 /\ t'.sector = t.sector + 1 /\ t'.chunk = t.chunk
      /\ t'.write = t.write /\ t'.first = t.first /\ t'.count = t.count
      /\ t'.data = (IF t.write THEN t.data ELSE Append(t.data, value))
      /\ t'.ret = (last /\ ~t.write /\ t.moved + 1 = t.count)
  BY <1>a DEF CallType, MoveSector
<1>d. t' \in CallType
  <2>1. t.data \in Seq(Cells) /\ Append(t.data, value) \in Seq(Cells)
    BY <1>a, <1>b DEF CallType
  <2>2. t' = [t EXCEPT !.moved = t.moved + 1, !.sector = t.sector + 1,
                       !.data = IF t.write THEN t.data ELSE Append(t.data, value),
                       !.ret = last /\ ~t.write /\ t.moved + 1 = t.count]
    BY DEF MoveSector
  <2> HIDE DEF value
  <2>3. t.moved + 1 \in Nat /\ t.sector + 1 \in Nat
    BY <1>a DEF CallType
  <2> QED BY <1>a, <2>1, <2>2, <2>3 DEF CallType
<1>e. t.write => t.data[t.moved + 1] \in Values
  BY <1>a DEF IInv, Progress, CallType
<1> HIDE DEF value
<1>1. Types'
  <2>1. DevShape'
    <3>1. CASE dev.st # "drq"
      <4>1. dev' = dev
        BY <3>1 DEF IInv, Types, DevShape, MoveSector
      <4> QED BY <4>1 DEF IInv, Types, DevShape
    <3>2. CASE dev.st = "drq" /\ dev.cmd = "write"
      <4>1. dev' = [dev EXCEPT !.st = "busy", !.data = IF t.write THEN t.data[t.moved + 1] ELSE NoVal]
        BY <3>2 DEF MoveSector
      <4> QED BY <1>a, <1>e, <3>2, <4>1 DEF IInv, Types, DevShape, DevType, Cells
    <3>3. CASE dev.st = "drq" /\ dev.cmd = "read"
      <4>1. dev' = IF dev.left = 1 THEN Idle
                   ELSE [dev EXCEPT !.st = "busy", !.lba = @ + 1, !.left = @ - 1]
        BY <3>3 DEF MoveSector
      <4>2. dev.left >= 1 /\ dev.lba + dev.left <= Sectors /\ dev.data = NoVal
        BY <3>3 DEF IInv, Types, DevShape
      <4>3. CASE dev.left = 1
        BY <4>1, <4>3 DEF DevShape, DevType, Cells, Idle
      <4>4. CASE dev.left # 1
        <5>1. /\ dev'.st = "busy" /\ dev'.cmd = "read" /\ dev'.lba = dev.lba + 1
              /\ dev'.left = dev.left - 1 /\ dev'.data = NoVal
          BY <1>a, <3>3, <4>1, <4>2, <4>4 DEF DevType
        <5>2. dev' \in DevType
          <6>1. dev.lba + 1 \in Nat /\ dev.left - 1 \in Nat
            BY <1>a, <4>2, <4>4 DEF DevType
          <6> QED BY <1>a, <4>1, <4>4, <6>1 DEF DevType, Cells
        <5> QED BY <1>a, <4>2, <4>4, <5>1, <5>2, AtaAssumption DEF DevShape, DevType
      <4> QED BY <4>3, <4>4
    <3>4. CASE dev.st = "drq" /\ dev.cmd = "identify"
      BY <3>4 DEF MoveSector, DevShape, DevType, Cells, Idle
    <3> QED BY <3>1, <3>2, <3>3, <3>4 DEF IInv, Types, DevShape
  <2>2. polls' \in 0 .. ATA_TIMEOUT
    BY AtaAssumption DEF MoveSector
  <2> QED BY <1>d, <2>1, <2>2 DEF IInv, Types, Steps, MoveSector
<1>2. Progress'
  <2>1. t.write => t'.data \in Seq(Values) /\ Len(t'.data) = t'.count
    BY <1>c DEF IInv, Progress
  <2>2. pc' \in {"drq", "flush", "ret", "issue"}
    BY DEF MoveSector
  <2>3. pc' = "issue" => t'.moved < t'.count
    BY <1>a, <1>c DEF CallType, MoveSector
  <2>4. pc' = "drq" => t'.sector < t'.chunk /\ t'.moved + t'.chunk <= t'.count + t'.sector
    BY <1>a, <1>c DEF CallType, MoveSector
  <2>5. pc' = "flush" => t'.write /\ t'.sector = t'.chunk /\ 1 <= t'.moved
    BY <1>a, <1>c DEF CallType, MoveSector
  <2>6. pc' = "ret" => t'.ret
    BY <1>c DEF MoveSector
  <2>7. t'.ret => t.moved + 1 = t.count
    BY <1>c
  <2>8. t'.moved <= t'.count /\ t'.sector <= t'.chunk
    BY <1>a, <1>c DEF CallType
  <2> QED BY <1>c, <2>1, <2>2, <2>3, <2>4, <2>5, <2>6, <2>7, <2>8 DEF IInv, Progress
<1>3. Attached'
  BY DEF IInv, Types, Attached, MoveSector
<1>4. Agree'
  <2> SUFFICES ASSUME ~late PROVE Agree'
    BY DEF Agree, MoveSector
  <2>1. /\ dev.st = "drq" /\ dev.cmd = (IF t.write THEN "write" ELSE "read") /\ dev.data = NoVal
        /\ dev.lba = t.first + t.moved /\ dev.left = t.chunk - t.sector
    BY DEF IInv, Types, Agree, MoveSector
  <2>2. CASE t.write
    <3>1. dev' = [dev EXCEPT !.st = "busy", !.data = t.data[t.moved + 1]] /\ pc' \in {"drq", "flush"}
      BY <2>1, <2>2 DEF MoveSector
    <3>2. /\ dev'.st = "busy" /\ dev'.cmd = "write" /\ dev'.data = t'.data[t'.moved]
          /\ dev'.data # NoVal /\ dev'.lba = dev.lba /\ dev'.left = dev.left
      BY <1>a, <1>c, <1>e, <2>1, <2>2, <3>1, AtaAssumption DEF DevType
    <3>3. t'.moved >= 1 /\ dev'.lba = t'.first + t'.moved - 1 /\ dev'.left = t'.chunk - t'.sector + 1
      <4>1. t.moved \in Nat /\ t.sector \in Nat /\ t.chunk \in Nat /\ t.first \in Nat
        BY <1>a DEF CallType
      <4> QED BY <1>c, <2>1, <3>2, <4>1
    <3> QED BY <1>c, <2>2, <3>1, <3>2, <3>3 DEF Agree
  <2>3. CASE ~t.write
    BY <1>a, <1>c, <2>1, <2>3 DEF Agree, DevType, CallType, Idle, MoveSector
  <2> QED BY <2>2, <2>3
<1>5. ReadSoFar'
  <2> SUFFICES ASSUME ~late, ~t.write PROVE ReadSoFar'
    BY <1>c DEF ReadSoFar, MoveSector
  <2>1. value = medium[t.first + t.moved]
    BY DEF IInv, Types, Agree, MoveSector, value
  <2>2. t.data \in Seq(Cells) /\ Len(t.data) = t.moved
    BY <1>a DEF IInv, ReadSoFar, CallType
  <2>3. Len(t'.data) = t.moved + 1 /\ t'.data[t.moved + 1] = value
        /\ \A k \in 1 .. t.moved : t'.data[k] = t.data[k]
    BY <1>b, <1>c, <2>2
  <2> QED BY <1>a, <1>c, <2>1, <2>3 DEF IInv, ReadSoFar, CallType, MoveSector
<1>6. WriteSoFar'
  <2> SUFFICES ASSUME ~late, t.write PROVE WriteSoFar'
    BY <1>c DEF WriteSoFar, MoveSector
  <2>1. dev'.data # NoVal /\ dev.data = NoVal /\ medium' = medium /\ old' = old /\ failed' = failed
    BY <1>a, <1>e, AtaAssumption DEF IInv, Types, Agree, DevShape, DevType, MoveSector
  <2> QED BY <1>a, <1>c, <2>1 DEF IInv, WriteSoFar, Asked, CallType
<1> QED BY <1>1, <1>2, <1>3, <1>4, <1>5, <1>6 DEF IInv

\* The flush is taken, or ignored by a device that still stores a sector.
LEMMA CacheFlushKeeps ==
  ASSUME IInv, CacheFlush
  PROVE  IInv'
<1>1. Types'
  <2>1. DevShape'
    BY AtaAssumption DEF IInv, Types, DevShape, DevType, Cells, Idle, CacheFlush, Command
  <2>2. t' \in CallType
    BY DEF IInv, Types, CallType, CacheFlush, Command
  <2>3. polls' \in 0 .. ATA_TIMEOUT /\ errors' \in 0 .. MaxErrors
    BY AtaAssumption DEF IInv, Types, CacheFlush, Command
  <2> QED BY <2>1, <2>2, <2>3 DEF IInv, Types, Steps, CacheFlush, Command
<1>2. Progress'
  BY AtaAssumption DEF IInv, Types, Progress, CallType, Idle, CacheFlush, Command
<1>3. Attached'
  BY AtaAssumption DEF IInv, Types, Attached, Idle, CacheFlush, Command
<1>4. Agree'
  BY AtaAssumption DEF IInv, Types, Progress, Attached, Agree, DevShape, DevType, CallType, Cells, Idle, CacheFlush, Command
<1>5. ReadSoFar'
  BY AtaAssumption DEF IInv, Types, Progress, Attached, Agree, ReadSoFar, CallType, Idle, Lbas, CacheFlush, Command
<1>6. WriteSoFar'
  BY AtaAssumption DEF IInv, Types, Progress, Attached, Agree, WriteSoFar, Asked, DevShape, DevType, CallType, Cells, Idle, Lbas, CacheFlush, Command
<1> QED BY <1>1, <1>2, <1>3, <1>4, <1>5, <1>6 DEF IInv

\* A poll of ata_wait_not_busy.
LEMMA WaitNotBusyKeeps ==
  ASSUME IInv, ata_wait_not_busy
  PROVE  IInv'
<1>a. /\ t' \in CallType /\ t'.ret \in {t.ret, t.moved = t.count}
      /\ t'.write = t.write /\ t'.first = t.first /\ t'.count = t.count /\ t'.moved = t.moved
      /\ t'.chunk = t.chunk /\ t'.sector = t.sector /\ t'.data = t.data
  BY DEF IInv, Types, CallType, ata_wait_not_busy
<1>1. Types'
  <2>1. polls' \in 0 .. ATA_TIMEOUT /\ UNCHANGED <<dev, errors, failed, ready, medium, old, bus>>
    BY AtaAssumption DEF IInv, Types, ata_wait_not_busy
  <2>2. late' \in BOOLEAN /\ pc' \in Steps
    BY DEF IInv, Types, Steps, BSY, ata_wait_not_busy
  <2> QED BY <1>a, <2>1, <2>2 DEF IInv, Types, DevShape
<1>2. Progress'
  BY <1>a DEF IInv, Types, Progress, CallType, ata_wait_not_busy
<1>3. Attached'
  BY DEF IInv, Types, Attached, ata_wait_not_busy
<1>4. Agree'
  BY <1>a DEF IInv, Types, Attached, Agree, DevShape, DevType, BSY, ata_wait_not_busy
<1>5. ReadSoFar'
  BY <1>a DEF IInv, Types, ReadSoFar, ata_wait_not_busy
<1>6. WriteSoFar'
  BY <1>a DEF IInv, Types, WriteSoFar, Asked, ata_wait_not_busy
<1> QED BY <1>1, <1>2, <1>3, <1>4, <1>5, <1>6 DEF IInv

\* The call returns.
LEMMA ReturnsKeeps ==
  ASSUME IInv, Returns
  PROVE  IInv'
<1>1. Types'
  <2>1. DevShape'
    BY AtaAssumption DEF IInv, Types, DevShape, DevType, Cells, Idle, Returns, NoCall
  <2>2. t' \in CallType
    BY DEF IInv, Types, CallType, Returns, NoCall
  <2>3. polls' \in 0 .. ATA_TIMEOUT /\ errors' \in 0 .. MaxErrors
    BY AtaAssumption DEF IInv, Types, Returns, NoCall
  <2> QED BY <2>1, <2>2, <2>3 DEF IInv, Types, Steps, Returns, NoCall
<1>2. Progress'
  BY AtaAssumption DEF IInv, Types, Progress, CallType, Idle, Returns, NoCall
<1>3. Attached'
  BY AtaAssumption DEF IInv, Types, Attached, Idle, Returns, NoCall
<1>4. Agree'
  BY AtaAssumption DEF IInv, Types, Progress, Attached, Agree, DevShape, DevType, CallType, Cells, Idle, Returns, NoCall
<1>5. ReadSoFar'
  BY AtaAssumption DEF IInv, Types, Progress, Attached, Agree, ReadSoFar, CallType, Idle, Lbas, Returns, NoCall
<1>6. WriteSoFar'
  BY AtaAssumption DEF IInv, Types, Progress, Attached, Agree, WriteSoFar, Asked, DevShape, DevType, CallType, Cells, Idle, Lbas, Returns, NoCall
<1> QED BY <1>1, <1>2, <1>3, <1>4, <1>5, <1>6 DEF IInv

\* ata_pio_read and ata_pio_write begin.
LEMMA StartKeeps ==
  ASSUME IInv, Call
  PROVE  IInv'
<1>1. PICK lba \in Lbas, count \in Counts :
        /\ lba + count <= Sectors
        /\ \/ ata_pio_read(lba, count)
           \/ \E data \in [1 .. count -> Values] : ata_pio_write(lba, data)
  BY DEF Call
<1>2. PICK write \in BOOLEAN, data \in Seq(Values) :
        /\ Start(lba, count, data, write)
        /\ write => Len(data) = count
        /\ ~write => data = <<>>
  <2>1. ASSUME NEW d \in [1 .. count -> Values], ata_pio_write(lba, d)
        PROVE  Start(lba, count, d, TRUE) /\ d \in Seq(Values) /\ Len(d) = count
    <3>1. d \in Seq(Values) /\ Len(d) = count
      BY AtaAssumption
    <3> QED BY <2>1, <3>1 DEF ata_pio_write
  <2>2. CASE ata_pio_read(lba, count)
    <3>1. <<>> \in Seq(Values)
      OBVIOUS
    <3>2. Start(lba, count, <<>>, FALSE)
      BY <2>2 DEF ata_pio_read
    <3> QED BY <3>1, <3>2
  <2>3. CASE \E data \in [1 .. count -> Values] : ata_pio_write(lba, data)
    BY <2>1, <2>3
  <2> QED BY <1>1, <2>2, <2>3
<1>3. data \in Seq(Cells) /\ lba \in Nat /\ count \in Nat
  BY AtaAssumption DEF Lbas, Cells
<1>4. t' = [write |-> write, first |-> lba, count |-> count, data |-> data, moved |-> 0,
            chunk |-> 0, sector |-> 0, ret |-> FALSE]
  BY <1>2 DEF Start, NoCall
<1>5. t' \in CallType
  BY <1>3, <1>4 DEF CallType
<1>6. Types'
  <2>1. failed' \in BOOLEAN /\ old' = medium /\ pc' \in Steps
    BY <1>2 DEF Start, Steps
  <2>2. UNCHANGED <<bus, medium, dev, errors, ready, polls, late>>
    BY <1>2 DEF Start
  <2> QED BY <1>5, <2>1, <2>2 DEF IInv, Types, DevShape
<1>7. Progress'
  <2>1. pc' \in {"ret", "issue"} /\ (pc' = "issue" => count > 0)
    BY <1>2, <1>3 DEF Start
  <2> QED BY <1>1, <1>2, <1>3, <1>4, <2>1, AtaAssumption DEF Progress
<1>8. Attached'
  BY <1>2 DEF IInv, Types, Attached, Start
<1>9. Agree'
  BY <1>2 DEF IInv, Types, Agree, Start
<1>10. ReadSoFar' /\ WriteSoFar'
  <2>1. old' = medium /\ medium' = medium
    BY <1>2 DEF Start
  <2>2. t'.moved = 0 /\ t'.write = write /\ t'.data = data
    BY <1>4
  <2> QED BY <1>2, <2>1, <2>2 DEF ReadSoFar, WriteSoFar
<1> QED BY <1>6, <1>7, <1>8, <1>9, <1>10 DEF IInv

\* IInv holds when the kernel starts.
LEMMA InitIInv == Init => IInv
<1> SUFFICES ASSUME Init PROVE IInv
  OBVIOUS
<1>1. Types
  <2>1. Idle \in DevType /\ NoCall \in CallType
    BY DEF Idle, DevType, NoCall, CallType, Cells
  <2>2. DevShape
    BY <2>1 DEF Init, DevShape, Idle
  <2>3. 0 \in 0 .. ATA_TIMEOUT /\ 0 \in 0 .. MaxErrors
    BY AtaAssumption
  <2> QED BY <2>1, <2>2, <2>3, AtaAssumption DEF Init, Types, Steps
<1>2. Progress
  BY AtaAssumption DEF Init, Progress, NoCall
<1>3. Attached /\ Agree /\ ReadSoFar /\ WriteSoFar
  BY DEF Init, Attached, Agree, ReadSoFar, WriteSoFar, Idle, NoCall
<1> QED BY <1>1, <1>2, <1>3 DEF IInv

\* IInv is inductive: one case per action of the driver, the device and its
\* callers.
LEMMA NextIInv == IInv /\ [Next]_vars => IInv'
<1> SUFFICES ASSUME IInv, [Next]_vars PROVE IInv'
  OBVIOUS
<1>1. CASE Driver
  BY <1>1, InitKeeps, WaitDrqKeeps, TransferKeeps, MoveSectorKeeps, CacheFlushKeeps,
     WaitNotBusyKeeps, ReturnsKeeps DEF Driver
<1>2. CASE Device
  BY <1>2, DeviceReadyKeeps, DeviceStoresKeeps, DeviceFailsKeeps DEF Device
<1>3. CASE Call
  BY <1>3, StartKeeps
<1>4. CASE UNCHANGED vars
  BY <1>4 DEF vars, IInv, Types, DevShape, Progress, Attached, Agree, ReadSoFar, WriteSoFar, Asked
<1> QED BY <1>1, <1>2, <1>3, <1>4 DEF Next

-----------------------------------------------------------------------------
(* What follows from it.                                                   *)

\* IInv holds throughout.
LEMMA Invariance == Spec => []IInv
  BY InitIInv, NextIInv, PTL DEF Spec

\* The device is idle or has reported an error whenever a command is sent to
\* it, so the command is taken, as long as no wait has run out; the variables
\* keep their types and no call moves more than it was asked to.
THEOREM DeviceIsFree == Spec => []DeviceFree
<1>1. IInv => DeviceFree
  BY AtaAssumption DEF IInv, Types, Progress, Agree, DevShape, DevType, CallType, DeviceFree, TypeOK
<1> QED BY <1>1, Invariance, PTL

\* As long as no wait has run out of polls, a read that answers true has every
\* sector asked for, in order, whatever the split into chunks.
THEOREM ReadsAreExact == Spec => []ReadExact
<1>1. IInv => ReadExact
  <2> SUFFICES ASSUME IInv, pc = "ret", t.ret, ~t.write, ~late
               PROVE  t.data = [k \in 1 .. t.count |-> medium[t.first + k - 1]]
    BY DEF ReadExact
  <2>1. t.data \in Seq(Cells) /\ Len(t.data) = t.count
        /\ \A k \in 1 .. t.count : t.data[k] = medium[t.first + k - 1]
    BY DEF IInv, Types, Progress, ReadSoFar, CallType
  <2> QED BY <2>1
<1> QED BY <1>1, Invariance, PTL

\* As long as no wait has run out of polls, a write changes no sector outside
\* its range; if it answers true and the device reported no error, the range
\* holds the data; and a write of one sector that answers false has changed
\* nothing.
THEOREM WritesAreExact == Spec => []WriteExact
<1>1. IInv => WriteExact
  <2> SUFFICES ASSUME IInv, pc = "ret", t.write, ~late
               PROVE  /\ \A lba \in Lbas \ Asked : medium[lba] = old[lba]
                      /\ t.ret /\ ~failed => \A k \in 1 .. t.count :
                                             medium[t.first + k - 1] = t.data[k]
                      /\ t.count = 1 /\ ~t.ret => medium = old
    BY DEF WriteExact
  <2>1. dev.data = NoVal
    BY DEF IInv, Agree
  <2>2. t.ret => t.moved = t.count
    BY DEF IInv, Progress
  <2>3. t.count = 1 /\ ~t.ret => t.moved = 0
    BY DEF IInv, Progress, Types, CallType
  <2> QED BY <2>1, <2>2, <2>3 DEF IInv, WriteSoFar
<1> QED BY <1>1, Invariance, PTL
=============================================================================
