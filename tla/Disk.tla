-------------------------------- MODULE Disk --------------------------------
(***************************************************************************)
(* The IDE disk driver, k/ide.c: finding the drives, and sectors to and    *)
(* from one of them.                                                       *)
(*                                                                         *)
(* The drives are hardware, modelled from how the code uses them: the two  *)
(* of a channel share its registers, which keep the last two bytes written *)
(* to each; a command makes the selected one busy; in its own time it asks *)
(* for data (drq), fails or is done; a command it gets while busy or while *)
(* it waits for data is lost.  A drive is numbered 2 * channel + drive.    *)
(* Numbers keep the proportions of the code's: Byte is 256, Nibble 16 and  *)
(* SectorsPerTrack 63.  A sector holds Old until it is written, and k when *)
(* the k-th sector of the caller's memory was written to it.               *)
(***************************************************************************)
EXTENDS Integers, Sequences

CONSTANTS
    Byte, Nibble, SectorsPerTrack,
    Positions,   \* positions where there may be a drive
    Kinds,       \* what is found there: "ATA", "ATAPI", "none"
    DiskSize,    \* sectors of an ATA drive
    Counts,      \* numbers of sectors asked for
    Lbas,        \* first sectors asked for
    Slots,       \* indices of ide_devices passed by the callers
    Builds,      \* do EDI and ESI go back to `buffer' after each sector?
    Faults,      \* may a drive fail?
    MaxCalls     \* bound: calls

\* The bytes hold the counts asked for, four of them the sectors, and
\* SectorsPerTrack < Byte; a build is "reloaded" or "kept".

VARIABLES
    kind,       \* what is at each position
    disk,       \* of each drive: the sectors written, and what they hold
    status,     \* of each drive: "none", "idle", "busy", "drq", "error"
    job,        \* of each drive: the command it runs, [op, at, left]
    ports,      \* of each channel: the two last values of each register
    ide_devices,
    ide, probed,    \* where the driver is; the position it probes
    request,        \* the call in progress
    sent, memory,   \* its sectors done, and the caller's memory after a read
    result, calls,
    compiled,
    \* History variables, read by the properties only.
    zero,           \* a call passed 0 sectors, or 256
    failed,         \* a drive failed
    targets         \* of each drive: the sectors writes were asked for

hardware == <<kind, disk, status, job, ports>>
caller == <<request, sent, memory, result, calls>>
history == <<zero, failed, targets>>
vars == <<hardware, ide_devices, ide, probed, caller, compiled, history>>

Word == Byte * Byte
DoubleWord == Word * Word

AllPositions == 0..3
ChannelOf(p) == p \div 2

-----------------------------------------------------------------------------
(* Registers.                                                              *)

\* Where a register number of the code leads.  No drive is at offset 2 of
\* its control port: what the code sends to register 12 goes elsewhere.
Port(reg) ==
    IF reg < 8 THEN <<"base", reg>>
    ELSE IF reg < 12 THEN <<"base", reg - 6>>
    ELSE IF reg < 14 THEN <<"control", reg - 10>> ELSE <<"bm_ide", reg - 14>>
DrivePorts == {<<"base", n>> : n \in 2..6} \cup {<<"control", 0>>}

Latch(registers, port, data) ==
    IF port \notin DrivePorts THEN registers
    ELSE [registers EXCEPT ![port] = <<@[2], data>>]

\* The registers of a channel after IDE_write_register, which writes registers
\* 8 to 11 between two writes to the control register.
IDE_write_register(registers, reg, data) ==
    IF reg \in 8..11
    THEN Latch(Latch(Latch(registers, Port(12), 128), Port(reg), data), Port(12), 2)
    ELSE Latch(registers, Port(reg), data)

BugSelect(registers, drive, lba, head) ==
    IDE_write_register(registers, 6, [drive |-> 0, lba |-> lba, head |-> head])
Select(registers, drive, lba, head) ==
    IDE_write_register(registers, 6, [drive |-> drive, lba |-> lba, head |-> head])

\* The position the registers of a channel stand for.
Selected(registers, channel) == 2 * channel + registers[<<"base", 6>>][2].drive

\* IDE_read_buffer goes through inl, which returns 16 of 32 bits: the upper
\* half of every long word read is 0.
Insl(long) == [lo |-> long.lo, hi |-> 0]
LongWord(n) == [lo |-> n % Word, hi |-> n \div Word]
Number(long) == long.lo + Word * long.hi

-----------------------------------------------------------------------------
(* The drives.                                                             *)

Old == -1
Content(p, s) == IF s \in DOMAIN disk[p] THEN disk[p][s] ELSE Old
\* What is there once `value' was stored at n.
Put(n, value, old) ==
    [m \in {n} \cup DOMAIN old |-> IF m = n THEN value ELSE old[m]]

NoJob == [op |-> "none", at |-> 0, left |-> 0]

\* The sector the registers of a channel address, and how many they ask for:
\* 0 stands for 256, or 65536.
Address(registers, ext) ==
    LET new(n) == registers[<<"base", n>>][2]
        old(n) == registers[<<"base", n>>][1]
        low == new(3) + Byte * new(4) + Word * new(5)
    IN  IF ext THEN low + Byte * Word * (old(3) + Byte * old(4) + Word * old(5))
        ELSE IF new(6).lba THEN low + Byte * Word * new(6).head
        ELSE ((new(4) + Byte * new(5)) * Nibble + new(6).head) * SectorsPerTrack
             + new(3) - 1
Asked(registers, ext) ==
    LET n == registers[<<"base", 2>>][2]
             + (IF ext THEN Byte * registers[<<"base", 2>>][1] ELSE 0)
    IN  IF n # 0 THEN n ELSE IF ext THEN Word ELSE Byte

\* Drive p gets a command.
Command(p, op, first, n) ==
    IF status[p] \in {"none", "busy", "drq"} THEN UNCHANGED <<status, job>>
    ELSE /\ status' = [status EXCEPT ![p] = "busy"]
         /\ job' = [job EXCEPT ![p] = [op |-> op, at |-> first, left |-> n]]

\* A busy drive has done what it was doing.  It fails by itself if Faults, and
\* on a sector it does not have; an ATAPI drive refuses IDENTIFY.
DriveReady(p) ==
    LET j == job[p]
        atapi == j.op = "IDENTIFY" /\ kind[p] = "ATAPI"
        refuses == atapi \/ (j.op \in {"read", "write"} /\ j.left > 0 /\ j.at >= DiskSize)
        wants == j.op \in {"IDENTIFY", "IDENTIFY_PACKET"} \/ j.left > 0
    IN  /\ status[p] = "busy"
        /\ \E fails \in {refuses, refuses \/ Faults} :
              /\ status' = [status EXCEPT ![p] = IF fails THEN "error"
                                                 ELSE IF wants THEN "drq" ELSE "idle"]
              /\ job' = IF fails \/ ~wants THEN [job EXCEPT ![p] = NoJob] ELSE job
              /\ failed' = (failed \/ (fails /\ ~atapi))
        /\ UNCHANGED <<kind, disk, ports, ide_devices, ide, probed, caller, compiled, zero, targets>>

\* Drive p gave or took the data it asked for.
DataDone(p) ==
    /\ status' = [status EXCEPT ![p] = IF job[p].left = 0 THEN "idle" ELSE "busy"]
    /\ job' = [job EXCEPT ![p] = [op |-> @.op, at |-> @.at + 1,
                                  left |-> IF @.left = 0 THEN 0 ELSE @.left - 1]]

-----------------------------------------------------------------------------
NoCall == [fn |-> "none", slot |-> 0, nb_sects |-> 0, lba |-> 0]

Init ==
    /\ kind \in {k \in [AllPositions -> Kinds \cup {"none"}] :
                    \A p \in AllPositions :
                        k[p] \in IF p \in Positions THEN Kinds ELSE {"none"}}
    /\ disk = [p \in AllPositions |-> <<>>]
    /\ status = [p \in AllPositions |-> IF kind[p] = "none" THEN "none" ELSE "idle"]
    /\ job = [p \in AllPositions |-> NoJob]
    /\ ports = [channel \in 0..1 |-> [port \in DrivePorts |->
           IF port = <<"base", 6>>
           THEN [n \in 1..2 |-> [drive |-> 0, lba |-> FALSE, head |-> 0]] ELSE <<0, 0>>]]
    /\ ide_devices = <<>>
    /\ ide = "probe" /\ probed = 0
    /\ request = NoCall
    /\ sent = 0 /\ memory = <<>> /\ result = 0 /\ calls = 0
    /\ compiled \in Builds
    /\ zero = FALSE /\ failed = FALSE /\ targets = [p \in AllPositions |-> {}]

-----------------------------------------------------------------------------
(* init_IDE.                                                               *)

BugNextPosition ==
    /\ probed' = IF probed % 2 = 0 /\ status[probed] = "none" THEN probed + 2 ELSE probed + 1
    /\ ide' = IF probed' = 4 THEN "idle" ELSE "probe"
NextPosition ==
    /\ probed' = probed + 1
    /\ ide' = IF probed = 3 THEN "idle" ELSE "probe"

\* Select the drive and send it IDENTIFY.
Identify ==
    /\ ide = "probe"
    /\ LET registers == Select(ports[ChannelOf(probed)], probed % 2, FALSE, 0)
       IN  /\ ports' = [ports EXCEPT ![ChannelOf(probed)] = registers]
           /\ Command(Selected(registers, ChannelOf(probed)), "IDENTIFY", 0, 0)
    /\ ide' = "present"
    /\ UNCHANGED <<kind, disk, ide_devices, probed, caller, compiled, history>>

\* The drive whose registers are read.
polled == Selected(ports[ChannelOf(probed)], ChannelOf(probed))

\* A status of 0 says there is no drive.
Present ==
    /\ ide = "present"
    /\ IF status[polled] = "none" THEN NextPosition ELSE ide' = "polling" /\ UNCHANGED probed
    /\ UNCHANGED <<hardware, ide_devices, caller, compiled, history>>

\* The loop ends on an error or on data; then the signature of an ATAPI drive
\* is looked for, and IDENTIFY_PACKET_DEVICE sent to it.
Polled ==
    /\ ide = "polling" /\ status[polled] \in {"error", "drq"}
    /\ IF status[polled] = "drq" THEN ide' = "read" /\ UNCHANGED <<probed, status, job>>
       ELSE IF kind[polled] # "ATAPI" THEN NextPosition /\ UNCHANGED <<status, job>>
       ELSE Command(polled, "IDENTIFY_PACKET", 0, 0) /\ ide' = "read" /\ UNCHANGED probed
    /\ UNCHANGED <<kind, disk, ports, ide_devices, caller, compiled, history>>

\* Read the identification; an ATAPI drive is not waited for.
ReadIdentification ==
    /\ ide = "read"
    /\ LET capabilities == Insl([lo |-> 0, hi |-> 1])  \* bit 9 of word 49: LBA
           size == Insl(LongWord(DiskSize))            \* words 60 and 61
           type == IF job[polled].op = "IDENTIFY" THEN "ATA" ELSE "ATAPI"
       IN  ide_devices' = Append(ide_devices,
               [channel |-> ChannelOf(probed), drive |-> probed % 2, type |-> type,
                lba |-> capabilities.hi = 1,
                size |-> IF type = "ATA" THEN Number(size) ELSE 0])
    /\ IF status[polled] = "drq"
       THEN /\ status' = [status EXCEPT ![polled] = "idle"]
            /\ job' = [job EXCEPT ![polled] = NoJob]
       ELSE UNCHANGED <<status, job>>
    /\ NextPosition
    /\ UNCHANGED <<kind, disk, ports, caller, compiled, history>>

-----------------------------------------------------------------------------
(* Calls.                                                                  *)

\* What the error register says, the highest bit winning; 2 if nothing.
ErrorCodes == {2, 7, 3, 20, 21, 22, 13}
IDE_print_error(err) ==
    CASE err = 1 -> {19} [] err = 2 -> ErrorCodes [] err = 3 -> {23} [] err = 4 -> {8}
      [] OTHER -> {err}

device == ide_devices[request.slot + 1]
\* The drive its ports lead to.
drive_ == Selected(ports[device.channel], device.channel)

Sectors(lba, n) == {lba + k : k \in 0..(n - 1)}

\* IDE_read_sectors passes ATA_WRITE, as IDE_write_sectors does.
Direction(fn) == IF fn = "ATA_READ" THEN "read" ELSE "write"

InRange(d, lba, n) == (lba + n) % DoubleWord <= d.size

\* IDE_read_sectors and IDE_write_sectors check their arguments; for an ATAPI
\* drive they return a variable nobody set.  IDE_ATA_access, called directly
\* with ATA_READ, does not.
Begin(fn, slot, nb_sects, lba) ==
    /\ ide = "idle" /\ calls < MaxCalls
    /\ calls' = calls + 1
    /\ request' = [fn |-> fn, slot |-> slot, nb_sects |-> nb_sects, lba |-> lba]
    /\ sent' = 0 /\ memory' = <<>>
    /\ LET here == slot < Len(ide_devices)
           d == ide_devices[slot + 1]
           starts == here /\ d.type = "ATA"
                     /\ (fn = "ATA_READ" \/ InRange(d, lba, nb_sects))
           p == 2 * d.channel + d.drive
       IN  /\ fn = "ATA_READ" => here
           /\ ide' = IF starts THEN "busy" ELSE "returned"
           /\ result' \in IF starts THEN {0} ELSE IF ~here THEN {-1}
                          ELSE IF d.type = "ATA" THEN {-2}
                          ELSE UNION {IDE_print_error(err) : err \in 0..3}
           /\ zero' = (zero \/ (starts /\ nb_sects = 0))
           /\ targets' = IF starts /\ Direction(fn) = "write"
                       THEN [targets EXCEPT ![p] = @ \cup Sectors(lba, nb_sects)]
                       ELSE targets
    /\ UNCHANGED <<hardware, ide_devices, probed, compiled, failed>>

Lba28 == Byte * Word * Nibble
Mode(lba, d) == IF lba >= Lba28 THEN "LBA48" ELSE IF d.lba THEN "LBA28" ELSE "CHS"

\* `cyl' has 16 bits.
Cylinder(lba) == (lba \div (Nibble * SectorsPerTrack)) % Word

\* The four bytes of a double word; the two above them are 0.
Bytes(lba) ==
    <<lba % Byte, (lba \div Byte) % Byte, (lba \div Word) % Byte,
      (lba \div (Byte * Word)) % Byte, 0, 0>>
BugLbaBytes(lba, mode) == Bytes(lba)
\* The bytes of an address for registers 3, 4, 5 and 9, 10, 11; and the head.
LbaBytes(lba, mode) ==
    IF mode # "CHS" THEN Bytes(lba)
    ELSE <<(lba % SectorsPerTrack) + 1,
           Cylinder(lba) % Byte, Cylinder(lba) \div Byte, 0, 0, 0>>
Head_(lba, mode) ==
    CASE mode = "LBA48" -> 0
      [] mode = "LBA28" -> lba \div (Byte * Word)
      [] mode = "CHS" -> (lba \div SectorsPerTrack) % Nibble

\* The registers after the writes of IDE_ATA_access up to the command.
Parameters(registers) ==
    LET mode == Mode(request.lba, device)
        lba_io == LbaBytes(request.lba, mode)
        out(r, reg, data) == IDE_write_register(r, reg, data)
        selected == Select(registers, device.drive, mode # "CHS", Head_(request.lba, mode))
        high == IF mode # "LBA48" THEN selected
                ELSE out(out(out(out(selected, 8, 0), 9, lba_io[4]), 10, lba_io[5]),
                         11, lba_io[6])
    IN  out(out(out(out(high, 2, request.nb_sects), 3, lba_io[1]), 4, lba_io[2]),
            5, lba_io[3])

\* busy_wait looks at the drive selected last; then the drive is selected, the
\* registers are written and the command is sent.
Issue ==
    /\ ide = "busy"
    /\ status[drive_] # "busy"
    /\ LET registers == Parameters(ports[device.channel])
           ext == Mode(request.lba, device) = "LBA48"
       IN  /\ ports' = [ports EXCEPT ![device.channel] = registers]
           /\ Command(Selected(registers, device.channel), Direction(request.fn),
                      Address(registers, ext), Asked(registers, ext))
    /\ ide' = "sector"
    /\ UNCHANGED <<kind, disk, ide_devices, probed, caller, compiled, history>>

\* Where the i-th sector goes to or comes from: `rep insw' leaves EDI behind
\* the sector, and a build that keeps `buffer' in EDI counts it twice.
Place == IF compiled = "kept" THEN 2 * sent ELSE sent

BugFlush ==
    /\ ide = "sector" /\ Direction(request.fn) = "write" /\ sent = request.nb_sects
    /\ Command(drive_, "flush", 0, 0)
    /\ ide' = "sector"
    /\ UNCHANGED <<kind, disk, ports, ide_devices, probed, caller, compiled, history>>
\* IDE_polling without the advanced check, then 256 words to the drive.
WriteSector ==
    /\ ide = "sector" /\ Direction(request.fn) = "write" /\ sent < request.nb_sects
    /\ status[drive_] # "busy"
    /\ IF status[drive_] = "drq" /\ job[drive_].op = "write"
       THEN /\ disk' = [disk EXCEPT ![drive_] = Put(job[drive_].at, Place, @)]
            /\ DataDone(drive_)
       ELSE UNCHANGED <<disk, status, job>>
    /\ sent' = sent + 1
    /\ UNCHANGED <<kind, ports, ide_devices, ide, probed, request, memory, result, calls,
                   compiled, history>>

\* The flush is sent without a look at BSY: a drive that is still writing the
\* last sector loses it.
Flush ==
    /\ ide = "sector" /\ Direction(request.fn) = "write" /\ sent = request.nb_sects
    /\ Command(drive_, "flush", 0, 0)
    /\ ide' = "flushed"
    /\ UNCHANGED <<kind, disk, ports, ide_devices, probed, caller, compiled, history>>

Flushed ==
    /\ ide = "flushed" /\ status[drive_] # "busy"
    /\ ide' = "returned"
    /\ UNCHANGED <<hardware, ide_devices, probed, caller, compiled, history>>

\* IDE_polling with the advanced check: an error or no data ends the call.
ReadSector ==
    /\ ide = "sector" /\ Direction(request.fn) = "read" /\ sent < request.nb_sects
    /\ status[drive_] # "busy"
    /\ IF status[drive_] = "drq"
       THEN /\ memory' = Put(Place, Content(drive_, job[drive_].at), memory)
            /\ DataDone(drive_)
            /\ sent' = sent + 1
            /\ UNCHANGED <<ide, result>>
       ELSE /\ ide' = "returned"
            /\ result' = IF status[drive_] = "error" THEN 2 ELSE 3
            /\ UNCHANGED <<memory, sent, status, job>>
    /\ UNCHANGED <<kind, disk, ports, ide_devices, probed, request, calls, compiled, history>>

ReadDone ==
    /\ ide = "sector" /\ Direction(request.fn) = "read" /\ sent = request.nb_sects
    /\ ide' = "returned"
    /\ UNCHANGED <<hardware, ide_devices, probed, caller, compiled, history>>

Return ==
    /\ ide = "returned" /\ ide' = "idle"
    /\ request' = NoCall /\ sent' = 0 /\ memory' = <<>> /\ result' = 0
    /\ UNCHANGED <<hardware, ide_devices, probed, calls, compiled, history>>

-----------------------------------------------------------------------------
Probing == Identify \/ Present \/ Polled \/ ReadIdentification
Access == \/ Issue \/ WriteSector \/ Flush \/ Flushed \/ ReadSector \/ ReadDone
          \/ Return
Calls == \E fn \in {"IDE_read_sectors", "IDE_write_sectors", "ATA_READ"},
            slot \in Slots, n \in Counts, lba \in Lbas : Begin(fn, slot, n, lba)

Next == Probing \/ Access \/ Calls \/ \E p \in AllPositions : DriveReady(p)

Spec == Init /\ [][Next]_vars

\* The CPU runs, and no drive stays busy for ever: nothing in the code gives
\* up on one that does.
Fairness == /\ WF_vars(Probing \/ Access)
            /\ \A p \in AllPositions : WF_vars(DriveReady(p))
FairSpec == Spec /\ Fairness

-----------------------------------------------------------------------------
(* Properties.                                                             *)

\* The type invariant.
TypeOK ==
    /\ kind \in [AllPositions -> Kinds \cup {"none"}]
    /\ \A p \in AllPositions : DOMAIN disk[p] \subseteq 0..(DiskSize - 1)
    /\ status \in [AllPositions -> {"none", "idle", "busy", "drq", "error"}]
    /\ \A p \in AllPositions : /\ job[p].left \in 0..Word
                               /\ status[p] \in {"none", "idle", "error"} => job[p] = NoJob
    /\ Len(ide_devices) <= 4
    /\ ide \in {"probe", "present", "polling", "read", "idle", "busy", "sector",
               "flushed", "returned"}
    /\ probed \in 0..4 /\ sent \in 0..request.nb_sects /\ calls \in 0..MaxCalls

\* The drives are all found, in order, each at its own position, and none is
\* believed larger than it is (ide.c:281-371; the lost halves of the long words
\* make it at most smaller).
DrivesFound ==
    LET found == {p \in AllPositions : kind[p] # "none"}
        position(d) == 2 * d.channel + d.drive
    IN  /\ ide \notin {"probe", "present", "polling", "read"} /\ ~failed =>
               {position(ide_devices[k]) : k \in DOMAIN ide_devices} = found
        /\ \A k, m \in DOMAIN ide_devices :
               k < m => position(ide_devices[k]) < position(ide_devices[m])
        /\ \A k \in DOMAIN ide_devices :
               /\ ide_devices[k].type = kind[position(ide_devices[k])]
               /\ ide_devices[k].size <= DiskSize

\* Whatever is called in whatever order, only sectors a write was asked for
\* change, on the drive it was asked of: as long as no call passed a count of
\* 0, which the loop takes for none and the drive for 256 (ide.c:496-517).
OnlyAsked ==
    ~zero => \A p \in AllPositions : DOMAIN disk[p] \subseteq targets[p]

\* Before the cylinder number outgrows its 16 bits (ide.c:441).
Addressable == request.lba + request.nb_sects <= Word * Nibble * SectorsPerTrack
Clean == ~zero /\ ~failed /\ compiled = "reloaded" /\ Addressable

\* A write that returns 0 has put the caller's sectors where it was asked to,
\* and a read by ATA_READ has brought them back from there, in order: if no
\* drive failed, no call passed a count of 0 and the build reloads `buffer'
\* (ide.c:391-525).
Transferred ==
    ide = "returned" /\ result = 0 /\ device.type = "ATA" /\ Clean =>
        LET p == 2 * device.channel + device.drive
        IN  \A k \in 0..(request.nb_sects - 1) :
            IF request.fn = "ATA_READ"
            THEN request.lba + k < DiskSize => memory[k] = Content(p, request.lba + k)
            ELSE Content(p, request.lba + k) = k

\* Every call returns, if every drive ends what it is doing (ide.c:144-182).
CallsReturn == []<>(ide = "idle")

\* "Read in PIO mode" (ide.c:554): reading changes no sector.
ReadLeavesDisk == [][request.fn = "IDE_read_sectors" => UNCHANGED disk]_vars
=============================================================================
