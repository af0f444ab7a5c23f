------------------------------- MODULE AtaPio -------------------------------
(***************************************************************************)
(* The ATA driver (kernel/drivers/storage/ata_pio.c): it writes a command  *)
(* to the device and then polls the status register, a bounded number of   *)
(* times, before each sector it moves through the data port. The device is *)
(* external; it goes on at its own pace between any two polls.             *)
(*                                                                         *)
(* A sector is one value. A device that is busy, or waits for data to be   *)
(* moved, takes no command.                                                *)
(***************************************************************************)
EXTENDS Integers, Sequences

CONSTANTS
  Sectors,           \* the number of sectors of the device; 0 if it reports none
  Values,            \* what a sector can hold
  ATA_TRANSFER_MAX,
  ATA_TIMEOUT,
  Counts,            \* the sector counts callers ask for
  Presence,          \* what may be on the bus: "device", "zero", "floating"
  MaxErrors          \* bound: errors of the device

NoVal == "none"                  \* no data

ASSUME AtaAssumption ==
  /\ NoVal \notin Values
  /\ Sectors \in Nat /\ Values # {}
  /\ ATA_TRANSFER_MAX \in Nat \ {0} /\ ATA_TIMEOUT \in Nat \ {0}
  /\ Counts \subseteq Nat /\ MaxErrors \in Nat
  /\ Presence \subseteq {"device", "zero", "floating"} /\ Presence # {}

VARIABLES
  bus,      \* what is there
  medium,   \* what the sectors hold
  dev,      \* the device's state and the command it works on
  errors,   \* how much of MaxErrors is used
  ready,    \* ata_ctx.ready
  pc,       \* what the driver does next
  t,        \* the locals of the call
  polls,    \* timeout of the wait in progress
  old,      \* history: medium when the call began
  late,     \* history: some wait ran out of polls
  failed    \* history: the device failed to write a sector of this call

vars == <<bus, medium, dev, errors, ready, pc, t, polls, old, late, failed>>

Lbas == 0 .. Sectors - 1
Idle == [st |-> "idle", cmd |-> "none", lba |-> 0, left |-> 0, data |-> NoVal]
NoCall == [write |-> FALSE, first |-> 0, count |-> 0, data |-> <<>>, moved |-> 0,
           chunk |-> 0, sector |-> 0, ret |-> FALSE]

-----------------------------------------------------------------------------
(* The bus and the device (external).                                      *)

\* The bits of the status register. A bus with nothing on it reads as all
\* zeros or as all ones.
BSY == bus = "floating" \/ (bus = "device" /\ dev.st = "busy")
DRQ == bus = "floating" \/ (bus = "device" /\ dev.st = "drq")
ERR == bus = "floating" \/ (bus = "device" /\ dev.st = "err")

Command(cmd, lba, count) ==
  dev' = IF bus # "device" \/ dev.st \in {"busy", "drq"} THEN dev
         ELSE [st |-> "busy", cmd |-> cmd, lba |-> lba, left |-> count, data |-> NoVal]

DeviceOnly == UNCHANGED <<bus, ready, pc, t, polls, old, late>>

\* The device is ready to move the next sector, or done.
DeviceReady ==
  /\ bus = "device" /\ dev.st = "busy" /\ dev.data = NoVal
  /\ dev' = IF dev.cmd = "flush" THEN Idle ELSE [dev EXCEPT !.st = "drq"]
  /\ DeviceOnly /\ UNCHANGED <<medium, errors, failed>>

\* The sector it was given is on the medium.
DeviceStores ==
  /\ bus = "device" /\ dev.st = "busy" /\ dev.data # NoVal
  /\ medium' = [medium EXCEPT ![dev.lba] = dev.data]
  /\ dev' = IF dev.left = 1 THEN Idle
            ELSE [dev EXCEPT !.st = "drq", !.lba = @ + 1, !.left = @ - 1, !.data = NoVal]
  /\ DeviceOnly /\ UNCHANGED <<errors, failed>>

DeviceFails ==
  /\ bus = "device" /\ dev.st = "busy"
  /\ errors < MaxErrors /\ errors' = errors + 1
  /\ dev' = [Idle EXCEPT !.st = "err"]
  /\ failed' = (failed \/ dev.cmd = "write")
  /\ DeviceOnly /\ UNCHANGED medium

-----------------------------------------------------------------------------
(* The driver.                                                             *)

\* Mutation: the wait does not count its polls.
WaitDrqForever ==
  /\ pc \in {"drq", "init_drq"}
  /\ IF ERR THEN pc' = (IF pc = "drq" THEN "ret" ELSE "idle")
     ELSE IF ~BSY /\ DRQ THEN pc' = (IF pc = "drq" THEN "data" ELSE "init_data")
     ELSE UNCHANGED pc
  /\ UNCHANGED <<bus, medium, dev, errors, ready, t, polls, old, late, failed>>

\* Mutation: the wait ends as soon as the device is not busy.
WaitDrqNotBusy ==
  /\ pc \in {"drq", "init_drq"}
  /\ IF ~BSY THEN pc' = (IF pc = "drq" THEN "data" ELSE "init_data")
                  /\ UNCHANGED <<polls, late>>
     ELSE IF polls = 0 THEN pc' = (IF pc = "drq" THEN "ret" ELSE "idle")
                            /\ late' = TRUE /\ UNCHANGED polls
     ELSE polls' = polls - 1 /\ UNCHANGED <<pc, late>>
  /\ UNCHANGED <<bus, medium, dev, errors, ready, t, old, failed>>

\* One poll of ata_wait_drq. The call fails on an error and when the polls
\* have run out.
ata_wait_drq ==
  LET fail == pc' = IF pc = "drq" THEN "ret" ELSE "idle"
  IN  /\ pc \in {"drq", "init_drq"}
      /\ \/ polls = 0 /\ fail /\ late' = TRUE /\ UNCHANGED polls
         \/ polls > 0 /\ ERR /\ fail /\ UNCHANGED <<polls, late>>
         \/ /\ polls > 0 /\ ~ERR /\ ~BSY /\ DRQ
            /\ pc' = IF pc = "drq" THEN "data" ELSE "init_data"
            /\ UNCHANGED <<polls, late>>
         \/ polls > 0 /\ ~ERR /\ (BSY \/ ~DRQ) /\ polls' = polls - 1 /\ UNCHANGED <<pc, late>>
      /\ UNCHANGED <<bus, medium, dev, errors, ready, t, old, failed>>

\* ata_pio_init: the command and the first look at the status.
Identify ==
  /\ pc = "off" /\ ready' = FALSE
  /\ IF bus = "zero" THEN pc' = "idle" /\ UNCHANGED dev
     ELSE Command("identify", 0, 1) /\ pc' = "init_busy"
  /\ UNCHANGED <<bus, medium, errors, t, polls, old, late, failed>>

\* It waits for the device to be done for as long as it takes.
InitPolls == pc = "init_busy" /\ BSY /\ UNCHANGED vars

InitNotBusy ==
  /\ pc = "init_busy" /\ ~BSY
  /\ pc' = IF ERR THEN "idle" ELSE "init_drq"
  /\ polls' = ATA_TIMEOUT
  /\ UNCHANGED <<bus, medium, dev, errors, ready, t, old, late, failed>>

InitData ==
  /\ pc = "init_data"
  /\ dev' = Idle
  /\ ready' = (Sectors # 0) /\ pc' = "idle"
  /\ UNCHANGED <<bus, medium, errors, t, polls, old, late, failed>>

ata_pio_init == Identify \/ InitPolls \/ InitNotBusy \/ InitData

\* ata_pio_read and ata_pio_write.
Start(lba, count, data, write) ==
  /\ pc = "idle"
  /\ t' = [NoCall EXCEPT !.write = write, !.first = lba, !.count = count, !.data = data]
  /\ pc' = IF ~ready \/ count = 0 THEN "ret" ELSE "issue"
  /\ old' = medium /\ failed' = FALSE
  /\ UNCHANGED <<bus, medium, dev, errors, ready, polls, late>>

ata_pio_read(lba, count) == Start(lba, count, <<>>, FALSE)
ata_pio_write(lba, data) == Start(lba, Len(data), data, TRUE)

\* Mutation: every chunk begins at the first sector of the call.
TransferAtFirst ==
  LET left == t.count - t.moved
      chunk == IF left > ATA_TRANSFER_MAX THEN ATA_TRANSFER_MAX ELSE left
  IN  /\ pc = "issue"
      /\ Command(IF t.write THEN "write" ELSE "read", t.first, chunk)
      /\ t' = [t EXCEPT !.chunk = chunk, !.sector = 0]
      /\ pc' = "drq" /\ polls' = ATA_TIMEOUT
      /\ UNCHANGED <<bus, medium, errors, ready, old, late, failed>>

\* ata_transfer sends the command for the next chunk.
ata_transfer ==
  LET left == t.count - t.moved
      chunk == IF left > ATA_TRANSFER_MAX THEN ATA_TRANSFER_MAX ELSE left
  IN  /\ pc = "issue"
      /\ Command(IF t.write THEN "write" ELSE "read", t.first + t.moved, chunk)
      /\ t' = [t EXCEPT !.chunk = chunk, !.sector = 0]
      /\ pc' = "drq" /\ polls' = ATA_TIMEOUT
      /\ UNCHANGED <<bus, medium, errors, ready, old, late, failed>>

\* The words of one sector go through the data port. What the device makes of
\* them depends on the command it is working on.
MoveSector ==
  LET last == t.sector + 1 = t.chunk
      value == IF dev.st = "drq" /\ dev.cmd = "read" THEN medium[dev.lba] ELSE NoVal
      sent == t.data[t.moved + 1]
  IN  /\ pc = "data"
      /\ dev' = IF dev.st # "drq" THEN dev
                ELSE IF dev.cmd = "write"
                THEN [dev EXCEPT !.st = "busy", !.data = IF t.write THEN sent ELSE NoVal]
                ELSE IF dev.cmd = "identify" \/ dev.left = 1 THEN Idle
                ELSE [dev EXCEPT !.st = "busy", !.lba = @ + 1, !.left = @ - 1]
      /\ t' = [t EXCEPT !.moved = @ + 1, !.sector = @ + 1,
                        !.data = IF t.write THEN @ ELSE Append(@, value),
                        !.ret = last /\ ~t.write /\ t.moved + 1 = t.count]
      /\ pc' = IF ~last THEN "drq" ELSE IF t.write THEN "flush"
               ELSE IF t.moved + 1 = t.count THEN "ret" ELSE "issue"
      /\ polls' = ATA_TIMEOUT
      /\ UNCHANGED <<bus, medium, errors, ready, old, late, failed>>

\* After the sectors of a write: flush the cache, and wait.
CacheFlush ==
  /\ pc = "flush"
  /\ Command("flush", 0, 0)
  /\ pc' = "not_busy" /\ polls' = ATA_TIMEOUT
  /\ UNCHANGED <<bus, medium, errors, ready, t, old, late, failed>>

\* Mutation: the chunk is counted as written without a wait for the device.
FlushUnwaited ==
  /\ pc = "not_busy"
  /\ t' = [t EXCEPT !.ret = t.moved = t.count]
  /\ pc' = IF t.moved = t.count THEN "ret" ELSE "issue"
  /\ UNCHANGED <<bus, medium, dev, errors, ready, polls, old, late, failed>>

\* One poll of ata_wait_not_busy. Its result is not looked at, and neither is
\* the error bit.
ata_wait_not_busy ==
  /\ pc = "not_busy"
  /\ IF BSY /\ polls > 0 THEN polls' = polls - 1 /\ UNCHANGED <<pc, t, late>>
     ELSE /\ late' = (late \/ BSY)
          /\ t' = [t EXCEPT !.ret = t.moved = t.count]
          /\ pc' = IF t.moved = t.count THEN "ret" ELSE "issue"
          /\ UNCHANGED polls
  /\ UNCHANGED <<bus, medium, dev, errors, ready, old, failed>>

Returns ==
  /\ pc = "ret"
  /\ pc' = "idle" /\ t' = NoCall
  /\ UNCHANGED <<bus, medium, dev, errors, ready, polls, old, late, failed>>

Driver == \/ ata_pio_init \/ ata_wait_drq \/ ata_transfer \/ MoveSector
          \/ CacheFlush \/ ata_wait_not_busy \/ Returns

Device == DeviceReady \/ DeviceStores \/ DeviceFails

Call == \E lba \in Lbas, count \in Counts :
          /\ lba + count <= Sectors
          /\ \/ ata_pio_read(lba, count)
             \/ \E data \in [1 .. count -> Values] : ata_pio_write(lba, data)

Init ==
  /\ bus \in Presence
  /\ medium \in [Lbas -> Values]
  /\ dev = Idle /\ errors = 0 /\ ready = FALSE
  /\ pc = "off" /\ t = NoCall /\ polls = 0
  /\ old = medium /\ late = FALSE /\ failed = FALSE

Next == Driver \/ Device \/ Call

Spec == Init /\ [][Next]_vars

\* The kernel has one thread, which nothing stops. The device owes nothing.
FairSpec == Spec /\ WF_vars(Driver)

-----------------------------------------------------------------------------
(* Properties.                                                             *)

\* The sectors the call in progress is about.
Asked == t.first .. t.first + t.count - 1

\* Types, and the call moves no more than it was asked to.
TypeOK ==
  /\ medium \in [Lbas -> Values]
  /\ dev.st \in {"idle", "busy", "drq", "err"}
  /\ ready \in BOOLEAN /\ late \in BOOLEAN /\ failed \in BOOLEAN
  /\ polls \in 0 .. ATA_TIMEOUT /\ errors \in 0 .. MaxErrors
  /\ t.chunk \in 0 .. ATA_TRANSFER_MAX /\ t.sector \in 0 .. t.chunk
  /\ t.moved \in 0 .. t.count

\* A read that answers true has the sectors that were asked for, in order,
\* across chunks (ata_pio_read, ata_transfer), as long as no wait has run out
\* of polls. A device so slow that one does is left out: after it the next
\* read may take stale data (ReadMeansRead below).
ReadExact ==
  pc = "ret" /\ t.ret /\ ~t.write /\ ~late =>
    t.data = [k \in 1 .. t.count |-> medium[t.first + k - 1]]

\* As long as no wait has run out of polls, a write touches no sector but
\* those it was asked to write, and if it answers true and the device reported
\* no error they hold the data (ata_pio_write). What the filesystem builds on:
\* a write of one sector that answers false has left the sector as it was.
WriteExact ==
  pc = "ret" /\ t.write /\ ~late =>
    /\ \A lba \in Lbas \ Asked : medium[lba] = old[lba]
    /\ t.ret /\ ~failed => \A k \in 1 .. t.count : medium[t.first + k - 1] = t.data[k]
    /\ t.count = 1 /\ ~t.ret => medium = old

\* As long as no wait has run out of polls, every call leaves the device idle,
\* so that the next command is taken; and no call moves more than it was asked
\* to (ata_transfer, ata_wait_not_busy).
DeviceFree ==
  /\ TypeOK
  /\ pc \in {"idle", "issue"} /\ ready /\ ~late => dev.st \in {"idle", "err"}

\* Every transfer answers, whatever the device does or fails to do: each wait
\* is bounded.
TransfersEnd == pc \in {"issue", "drq", "data", "flush", "not_busy"} ~> pc = "ret"

(* Sentences of the source that the code does not keep (README, section 4). *)

\* ata_pio_init answers ("`false` otherwise (e.g., no device present, ...)").
InitEnds == pc = "off" ~> pc = "idle"

\* "`true` if all sectors were written successfully".
WriteMeansWritten ==
  pc = "ret" /\ t.write /\ t.ret /\ ~late =>
    \A k \in 1 .. t.count : medium[t.first + k - 1] = t.data[k]

\* "`true` if all requested sectors were read successfully", also after a
\* call that answered false because the device was slow.
ReadMeansRead ==
  pc = "ret" /\ t.ret /\ ~t.write =>
    t.data = [k \in 1 .. t.count |-> medium[t.first + k - 1]]
=============================================================================
