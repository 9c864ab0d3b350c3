---------------------------- MODULE DriversProofs ----------------------------
(***************************************************************************)
(* What holds of the drivers for all values of the constants.              *)
(***************************************************************************)
EXTENDS Drivers, FiniteSetTheorems, TLAPS

-----------------------------------------------------------------------------
(* The disk: what init_IDE finds, what calls change, and what they bring,  *)
(* for any drives, any numbers of sectors and any calls.                   *)

Byte == DiskByte

\* Of an entry of ide_devices.
Position(d) == 2 * d.channel + d.drive
ByDrive(p) == D!Selected(ports[D!ChannelOf(p)], D!ChannelOf(p))

Ops == {"none", "IDENTIFY", "IDENTIFY_PACKET", "read", "write", "flush"}
Probes == {"probe", "present", "polling", "read"}
InCall == {"busy", "sector", "flushed"}

\* The drives, and the registers of the channels.
Wired ==
    /\ kind \in [0..3 -> {"ATA", "ATAPI", "none"}]
    /\ status \in [0..3 -> {"none", "idle", "busy", "drq", "error"}]
    /\ \A p \in 0..3 : status[p] = "none" <=> kind[p] = "none"
    /\ job \in [0..3 -> [op : Ops, at : Int, left : Nat]]
    /\ DOMAIN ports = 0..1
    /\ \A c \in 0..1 : /\ DOMAIN ports[c] = D!DrivePorts
                       /\ ports[c][<<"base", 6>>][2].drive \in 0..1

\* Where init_IDE is with the drive it probes: what it sees there is the answer
\* to what it sent.
Probed ==
    /\ probed \in 0..4 /\ (probed = 4 <=> ide \notin Probes)
    /\ ide \in Probes \cup InCall \cup {"idle", "returned"}
    /\ ide \in Probes => \A p \in 0..3 :
           p > probed \/ (ide = "probe" /\ p = probed) => status[p] \in {"none", "idle"}
    /\ ide \in Probes \ {"probe"} => ByDrive(probed) = probed
    /\ ide \in {"present", "polling"} =>
           /\ status[probed] # "idle"
           /\ status[probed] \in {"busy", "drq"} => job[probed].op = "IDENTIFY"
           /\ status[probed] = "drq" => kind[probed] = "ATA"
           /\ status[probed] = "error" => failed \/ kind[probed] = "ATAPI"
    /\ ide = "polling" => kind[probed] # "none"
    /\ ide = "read" =>
           \/ kind[probed] = "ATA" /\ status[probed] = "drq" /\ job[probed].op = "IDENTIFY"
           \/ kind[probed] = "ATAPI" /\ job[probed].op # "IDENTIFY"

\* The table so far.
Listed ==
    /\ \E S : ide_devices \in Seq(S)
    /\ \A k \in 1..Len(ide_devices) :
           /\ ide_devices[k].channel \in 0..1 /\ ide_devices[k].drive \in 0..1
           /\ ide_devices[k].size \in Nat /\ ~ide_devices[k].lba
           /\ Position(ide_devices[k]) < probed
           /\ ide_devices[k].type = kind[Position(ide_devices[k])]
           /\ ide_devices[k].type # "none"
           /\ ide_devices[k].size <= DiskSize /\ ide_devices[k].size < Byte * Byte
    /\ \A k, m \in 1..Len(ide_devices) :
           k < m => Position(ide_devices[k]) < Position(ide_devices[m])
    /\ ~failed => \A p \in 0..(probed - 1) : kind[p] # "none" =>
           \E k \in 1..Len(ide_devices) : Position(ide_devices[k]) = p

\* The call in progress was checked.
Started ==
    /\ request.slot + 1 \in 1..Len(ide_devices)
    /\ D!device.type = "ATA"
    /\ request.nb_sects \in 0..(Byte - 1)
    /\ request.lba \in 0..(Byte * Byte * (Byte * Byte) - 1)
    /\ request.nb_sects = 0 => zero
    /\ D!Direction(request.fn) = "write" =>
           /\ D!InRange(D!device, request.lba, request.nb_sects)
           /\ D!Sectors(request.lba, request.nb_sects) \subseteq targets[Position(D!device)]
Called ==
    /\ sent \in Nat /\ (ide = "busy" => sent = 0)
    /\ DOMAIN disk = 0..3 /\ DOMAIN targets = 0..3
    /\ ide \in InCall => Started /\ result = 0
    /\ ide = "returned" /\ result = 0 /\ D!device.type = "ATA" => Started

\* The sectors drives have yet to be given are of those that were asked for.
Granted ==
    ~zero => \A p \in 0..3 :
        /\ DOMAIN disk[p] \subseteq targets[p]
        /\ job[p].op = "write" =>
               /\ status[p] = "drq" => job[p].left > 0
               /\ \A k \in 0..(job[p].left - 1) : job[p].at + k \in targets[p]

\* A drive left to itself has nothing more to ask for, and if it is not done it
\* is the one that is selected.
Quiet(p) ==
    /\ status[p] \in {"idle", "busy"}
    /\ status[p] = "busy" => /\ job[p].left = 0 /\ ByDrive(p) = p
                             /\ job[p].op \in {"read", "write", "flush"}
\* The drive and the loop of IDE_ATA_access are at the same sector.
Together ==
    LET p == Position(D!device)
        n == request.nb_sects
    IN  /\ D!drive_ = p /\ sent \in 0..n
        /\ status[p] \in {"idle", "busy", "drq"}
        /\ status[p] = "idle" => sent = n
        /\ status[p] = "drq" => job[p].left > 0
        /\ status[p] # "idle" =>
               /\ job[p].op = D!Direction(request.fn)
               /\ job[p].left = n - sent
               /\ D!Addressable => job[p].at = request.lba + sent
InTurn ==
    ~zero /\ ~failed =>
        /\ ide = "sector" => Together
        /\ ide = "flushed" => D!drive_ = Position(D!device) /\ sent = request.nb_sects
        /\ \A p \in 0..3 :
               kind[p] = "ATA" /\ (ide \in Probes => p < probed) =>
                   \/ Quiet(p) /\ (ide \in Probes => status[p] = "idle")
                   \/ ide = "sector" /\ p = Position(D!device)

\* What went over so far.
Brought ==
    D!Clean =>
        /\ ide = "returned" /\ result = 0 /\ D!device.type = "ATA" => sent = request.nb_sects
        /\ ide \in {"sector", "flushed"} \/ (ide = "returned" /\ result = 0 /\ D!device.type = "ATA") =>
            \A k \in 0..(sent - 1) :
                IF D!Direction(request.fn) = "write"
                THEN D!Content(Position(D!device), request.lba + k) = k
                ELSE k \in DOMAIN memory /\ memory[k] = D!Content(Position(D!device), request.lba + k)

-----------------------------------------------------------------------------
(* The registers.                                                          *)

\* The last value sent to register n of a channel, and the one before.
Last(r, n) == r[<<"base", n>>][2]
Prior(r, n) == r[<<"base", n>>][1]
\* The registers of a channel after a write to the n-th.
Sends(r, new, n, data) ==
    /\ DOMAIN new = D!DrivePorts
    /\ Last(new, n) = data /\ Prior(new, n) = Last(r, n)
    /\ \A m \in 2..6 \ {n} : Last(new, m) = Last(r, m) /\ Prior(new, m) = Prior(r, m)

\* A byte for a port of a drive.
LEMMA Latched ==
    ASSUME NEW r, DOMAIN r = D!DrivePorts, NEW n \in 2..6, NEW data
    PROVE  Sends(r, D!Latch(r, <<"base", n>>, data), n, data)
<1>1. \A m \in 2..6 : <<"base", m>> \in D!DrivePorts /\ (<<"base", m>> = <<"base", n>> <=> m = n)
    BY DEF D!DrivePorts
<1>2. D!Latch(r, <<"base", n>>, data)
      = [r EXCEPT ![<<"base", n>>] = <<r[<<"base", n>>][2], data>>]
    BY <1>1 DEF D!Latch
<1>0. PICK new : new = D!Latch(r, <<"base", n>>, data)
    OBVIOUS
<1>3. DOMAIN new = D!DrivePorts
    BY <1>0, <1>2
<1>4. new[<<"base", n>>] = <<r[<<"base", n>>][2], data>>
    BY <1>0, <1>1, <1>2
<1>5. \A m \in 2..6 \ {n} : new[<<"base", m>>] = r[<<"base", m>>]
    BY <1>0, <1>1, <1>2
<1>6. Sends(r, new, n, data)
    BY <1>3, <1>4, <1>5 DEF Sends, Last, Prior
<1> QED BY <1>0, <1>6

\* A byte for any other port.
LEMMA LatchedElsewhere ==
    ASSUME NEW r, NEW data
    PROVE  D!Latch(r, D!Port(12), data) = r
<1>1. D!Port(12) = <<"control", 2>>
    BY DEF D!Port
<1>2. <<"control", 2>> \notin D!DrivePorts
    BY DEF D!DrivePorts
<1> QED BY <1>1, <1>2 DEF D!Latch

\* What IDE_write_register changes: registers 8 to 11 are 2 to 5 again.
LEMMA Out ==
    ASSUME NEW r, DOMAIN r = D!DrivePorts, NEW reg \in 2..6 \cup 8..11, NEW data
    PROVE  Sends(r, D!IDE_write_register(r, reg, data), IF reg < 8 THEN reg ELSE reg - 6, data)
<1>1. CASE reg \in 2..6
  <2>1. D!Port(reg) = <<"base", reg>>
      BY <1>1 DEF D!Port
  <2>2. D!IDE_write_register(r, reg, data) = D!Latch(r, <<"base", reg>>, data)
      BY <1>1, <2>1 DEF D!IDE_write_register
  <2> QED BY <1>1, <2>2, Latched
<1>2. CASE reg \in 8..11
  <2>1. D!Port(reg) = <<"base", reg - 6>>
      BY <1>2 DEF D!Port
  <2>2. D!IDE_write_register(r, reg, data) = D!Latch(r, <<"base", reg - 6>>, data)
      BY <1>2, <2>1, LatchedElsewhere DEF D!IDE_write_register
  <2> QED BY <1>2, <2>2, Latched
<1> QED BY <1>1, <1>2

\* The registers when IDE_ATA_access sends the command.
LEMMA Sent ==
    ASSUME NEW old, DOMAIN old = D!DrivePorts
    PROVE  LET r == D!Parameters(old)
               mode == D!Mode(request.lba, D!device)
               bytes == D!LbaBytes(request.lba, mode)
           IN  /\ DOMAIN r = D!DrivePorts
               /\ Last(r, 6) = [drive |-> D!device.drive, lba |-> mode # "CHS",
                                head |-> D!Head_(request.lba, mode)]
               /\ Last(r, 2) = request.nb_sects
               /\ \A n \in 3..5 : Last(r, n) = bytes[n - 2]
               /\ mode = "LBA48" => Prior(r, 2) = 0 /\ \A n \in 3..5 : Prior(r, n) = bytes[n + 1]
<1> PICK mode, bytes : mode = D!Mode(request.lba, D!device)
                      /\ bytes = D!LbaBytes(request.lba, mode)
    OBVIOUS
<1> DEFINE out(r, reg, data) == D!IDE_write_register(r, reg, data)
<1>1. PICK head : head = [drive |-> D!device.drive, lba |-> mode # "CHS",
                          head |-> D!Head_(request.lba, mode)]
    OBVIOUS
<1>2. PICK s : s = out(old, 6, head)
    OBVIOUS
<1>3. Sends(old, s, 6, head)
    BY <1>2, Out
<1>4. PICK h1 : h1 = out(s, 8, 0)
    OBVIOUS
<1>5. PICK h2 : h2 = out(h1, 9, bytes[4])
    OBVIOUS
<1>6. PICK h3 : h3 = out(h2, 10, bytes[5])
    OBVIOUS
<1>7. PICK h4 : h4 = out(h3, 11, bytes[6])
    OBVIOUS
<1>8. PICK high : high = IF mode # "LBA48" THEN s ELSE h4
    OBVIOUS
<1>9. PICK l1 : l1 = out(high, 2, request.nb_sects)
    OBVIOUS
<1>10. PICK l2 : l2 = out(l1, 3, bytes[1])
    OBVIOUS
<1>11. PICK l3 : l3 = out(l2, 4, bytes[2])
    OBVIOUS
<1>12. PICK l4 : l4 = out(l3, 5, bytes[3])
    OBVIOUS
<1>13. D!Parameters(old) = l4
    BY <1>1, <1>2, <1>4, <1>5, <1>6, <1>7, <1>8, <1>9, <1>10, <1>11, <1>12
       DEF D!Parameters, D!Select
<1> HIDE DEF out
<1>14. /\ Sends(s, h1, 2, 0) /\ Sends(h1, h2, 3, bytes[4])
       /\ Sends(h2, h3, 4, bytes[5]) /\ Sends(h3, h4, 5, bytes[6])
  <2> USE DEF out
  <2>1. Sends(s, h1, 2, 0)
      BY <1>3, <1>4, Out DEF Sends
  <2>2. Sends(h1, h2, 3, bytes[4])
      BY <2>1, <1>5, Out DEF Sends
  <2>3. Sends(h2, h3, 4, bytes[5])
      BY <2>2, <1>6, Out DEF Sends
  <2>4. Sends(h3, h4, 5, bytes[6])
      BY <2>3, <1>7, Out DEF Sends
  <2> QED BY <2>1, <2>2, <2>3, <2>4
<1>15. /\ DOMAIN high = D!DrivePorts /\ Last(high, 6) = head
       /\ mode = "LBA48" => /\ Last(high, 2) = 0
                            /\ \A n \in 3..5 : Last(high, n) = bytes[n + 1]
    BY <1>3, <1>8, <1>14 DEF Sends
<1>16. /\ Sends(high, l1, 2, request.nb_sects) /\ Sends(l1, l2, 3, bytes[1])
       /\ Sends(l2, l3, 4, bytes[2]) /\ Sends(l3, l4, 5, bytes[3])
  <2> USE DEF out
  <2>0. DOMAIN high = D!DrivePorts
      BY <1>15
  <2>1. Sends(high, l1, 2, request.nb_sects)
      BY <2>0, <1>9, Out
  <2>2. Sends(l1, l2, 3, bytes[1])
      BY <2>1, <1>10, Out DEF Sends
  <2>3. Sends(l2, l3, 4, bytes[2])
      BY <2>2, <1>11, Out DEF Sends
  <2>4. Sends(l3, l4, 5, bytes[3])
      BY <2>3, <1>12, Out DEF Sends
  <2> QED BY <2>1, <2>2, <2>3, <2>4
<1>17. /\ DOMAIN l4 = D!DrivePorts /\ Last(l4, 6) = head
       /\ Last(l4, 2) = request.nb_sects /\ \A n \in 3..5 : Last(l4, n) = bytes[n - 2]
       /\ mode = "LBA48" => Prior(l4, 2) = 0 /\ \A n \in 3..5 : Prior(l4, n) = bytes[n + 1]
  <2>1. /\ DOMAIN l4 = D!DrivePorts
        /\ \A n \in {2, 6} : Last(l4, n) = Last(l1, n) /\ Prior(l4, n) = Prior(l1, n)
      BY <1>16 DEF Sends
  <2>2. Last(l1, 6) = head /\ Last(l1, 2) = request.nb_sects /\ Prior(l1, 2) = Last(high, 2)
      BY <1>15, <1>16 DEF Sends
  <2>3. /\ Last(l4, 3) = bytes[1] /\ Last(l4, 4) = bytes[2] /\ Last(l4, 5) = bytes[3]
        /\ \A n \in 3..5 : Prior(l4, n) = Last(high, n)
      BY <1>16 DEF Sends
  <2> QED BY <1>15, <2>1, <2>2, <2>3
<1> QED BY <1>1, <1>13, <1>17

-----------------------------------------------------------------------------
(* Sector numbers, as registers.                                           *)

\* The quotient and the remainder.
LEMMA Quotient ==
    ASSUME NEW a \in Nat, NEW b \in Nat \ {0}
    PROVE  /\ a \div b \in Nat /\ a % b \in 0..(b - 1)
           /\ a = b * (a \div b) + (a % b)
    OBVIOUS

\* The same, of natural numbers.
LEMMA Remainder ==
    ASSUME NEW a \in Nat, NEW b \in Nat \ {0}
    PROVE  a \div b \in Nat /\ a % b \in Nat /\ a = b * (a \div b) + (a % b)
    OBVIOUS

\* A quotient and a remainder are the only ones.
LEMMA Unique ==
    ASSUME NEW b \in Nat \ {0}, NEW q \in Nat, NEW r \in 0..(b - 1)
    PROVE  (b * q + r) \div b = q
    OBVIOUS

\* Multiples of b are b apart.
LEMMA Least ==
    ASSUME NEW b \in Nat, NEW m \in Nat, NEW n \in Nat, m < n
    PROVE  b * m + b <= b * n
<1>1. PICK k \in Nat : n = m + 1 + k
  <2>1. n - m - 1 \in Nat
      OBVIOUS
  <2> QED BY <2>1
<1>2. b * n = b * m + b + b * k
    BY <1>1
<1>3. b * k \in Nat /\ b * m \in Nat
    BY <1>1
<1> QED BY <1>2, <1>3

\* Dividing by a product is dividing twice.
LEMMA DivTwice ==
    ASSUME NEW a \in Nat, NEW b \in Nat \ {0}, NEW c \in Nat \ {0}
    PROVE  a \div (b * c) = (a \div b) \div c
<1>1. PICK q, r, s, t : q = (a \div b) \div c /\ r = a % b /\ s = (a \div b) % c /\ t = a \div b
    OBVIOUS
<1>2. q \in Nat /\ t \in Nat /\ r \in 0..(b - 1) /\ s \in 0..(c - 1) /\ a = b * t + r /\ t = c * q + s
    BY <1>1, Quotient
<1>3. a = (b * c) * q + (b * s + r)
    BY <1>2
<1>4. b * c \in Nat \ {0} /\ b * s + r \in Nat
    BY <1>2
<1>5. b * s + b <= b * c
    BY <1>2, Least
<1>6. b * s + r \in 0..(b * c - 1)
    BY <1>2, <1>4, <1>5
<1>7. PICK d : d = b * c
    OBVIOUS
<1>8. PICK u : u = b * s + r
    OBVIOUS
<1>9. a = d * q + u /\ d \in Nat \ {0} /\ u \in 0..(d - 1)
    BY <1>3, <1>4, <1>6, <1>7, <1>8
<1>10. a \div d = q
    BY <1>9, <1>2, Unique
<1> QED BY <1>1, <1>7, <1>10

\* What is below c times b has a quotient below c.
LEMMA Bounded ==
    ASSUME NEW a \in Nat, NEW b \in Nat \ {0}, NEW c \in Nat, a < b * c
    PROVE  a \div b < c
<1>1. PICK q, r : q = a \div b /\ r = a % b
    OBVIOUS
<1>2. q \in Nat /\ r \in 0..(b - 1) /\ a = b * q + r
    BY <1>1, Quotient
<1>3. ~(q >= c)
  <2> SUFFICES ASSUME q >= c PROVE FALSE
    OBVIOUS
  <2>1. PICK k \in Nat : q = c + k
    <3>1. q - c \in Nat
        BY <1>2
    <3> QED BY <1>2, <3>1
  <2>2. b * q = b * c + b * k
    BY <2>1
  <2>3. b * k \in Nat /\ b * c \in Nat
    BY <2>1
  <2> QED BY <1>2, <2>2, <2>3
<1> QED BY <1>1, <1>2, <1>3

\* The numbers of the disk.
LEMMA Numbers ==
    /\ Byte \in Nat \ {0} /\ Nibble \in Nat \ {0} /\ SectorsPerTrack \in Nat \ {0}
    /\ D!Word \in Nat \ {0} /\ Byte * D!Word \in Nat \ {0} /\ D!DoubleWord \in Nat \ {0}
    /\ D!Lba28 \in Nat \ {0} /\ Nibble * SectorsPerTrack \in Nat \ {0}
<1>1. Byte \in Nat \ {0} /\ Nibble \in Nat \ {0} /\ SectorsPerTrack \in Nat \ {0}
    BY DiskAssumption DEF Byte
<1>2. \A m, n \in Nat \ {0} : m * n \in Nat \ {0}
    OBVIOUS
<1>3. D!Word \in Nat \ {0}
    BY <1>1, <1>2 DEF D!Word, Byte
<1>4. Byte * D!Word \in Nat \ {0} /\ D!DoubleWord \in Nat \ {0}
    BY <1>1, <1>2, <1>3 DEF D!DoubleWord
<1>5. D!Lba28 \in Nat \ {0}
    BY <1>1, <1>2, <1>4 DEF D!Lba28, Byte
<1>6. Nibble * SectorsPerTrack \in Nat \ {0}
    BY <1>1, <1>2
<1> QED BY <1>1, <1>3, <1>4, <1>5, <1>6

\* Four bytes make the number again.
LEMMA FourBytes ==
    ASSUME NEW lba \in 0..(D!DoubleWord - 1)
    PROVE  LET b == D!Bytes(lba)
           IN  /\ \A n \in 1..6 : b[n] \in Nat
               /\ b[5] = 0 /\ b[6] = 0
               /\ lba = b[1] + Byte * b[2] + D!Word * b[3]
                        + Byte * D!Word * (b[4] + Byte * 0 + D!Word * 0)
<1> PICK B, Z : B = Byte /\ Z = D!Word
    OBVIOUS
<1>1. B \in Nat \ {0} /\ Z \in Nat \ {0} /\ B * Z \in Nat \ {0} /\ Z = B * B
    BY Numbers DEF D!Word, Byte
<1>2. lba \in Nat /\ D!DoubleWord = (B * Z) * B /\ lba < (B * Z) * B
    BY <1>1, Numbers DEF D!DoubleWord, D!Word, Byte
<1>3. PICK q1, q2, q3 : q1 = lba \div B /\ q2 = q1 \div B /\ q3 = q2 \div B
    OBVIOUS
<1>4. /\ q1 \in Nat /\ q2 \in Nat /\ q3 \in Nat
      /\ lba = B * q1 + (lba % B) /\ q1 = B * q2 + (q1 % B) /\ q2 = B * q3 + (q2 % B)
      /\ lba % B \in Nat /\ q1 % B \in Nat /\ q2 % B \in Nat
    BY <1>1, <1>2, <1>3, Quotient
<1>5. lba \div Z = q2
  <2>0. lba \in Nat /\ B \in Nat \ {0}
      BY <1>1, <1>2
  <2>1. lba \div (B * B) = (lba \div B) \div B
      BY Zenon, <2>0, DivTwice
  <2> QED BY <1>1, <1>3, <2>1
<1>6. lba \div (B * Z) = q3
  <2>0. lba \in Nat /\ B \in Nat \ {0} /\ Z \in Nat \ {0}
      BY <1>1, <1>2
  <2>1. lba \div (Z * B) = (lba \div Z) \div B
      BY Zenon, <2>0, DivTwice
  <2>2. B * Z = Z * B
      BY <1>1
  <2> QED BY Zenon, <1>3, <1>5, <2>1, <2>2
<1>7. q3 < B
    BY <1>1, <1>2, <1>6, Bounded
<1>8. q3 % B = q3
    BY <1>1, <1>4, <1>7
<1>9. D!Bytes(lba) = <<lba % B, q1 % B, q2 % B, q3, 0, 0>>
    BY <1>3, <1>5, <1>6, <1>8 DEF D!Bytes, Byte
<1>10. lba = (lba % B) + B * (q1 % B) + Z * (q2 % B) + B * Z * q3
  <2>1. lba = (lba % B) + B * (q1 % B) + B * (B * q2)
    <3>1. PICK r : r = q1 % B
        OBVIOUS
    <3>2. q1 = B * q2 + r /\ r \in Nat /\ B * q2 \in Nat
        BY <1>1, <1>4, <3>1
    <3>3. B * q1 = B * (B * q2) + B * r
        BY <1>1, <3>2
    <3> QED BY <1>1, <1>4, <3>1, <3>3
  <2>2. B * (B * q2) = Z * q2 /\ Z * q2 = Z * (B * q3) + Z * (q2 % B)
      BY <1>1, <1>4
  <2>3. Z * (B * q3) = B * Z * q3
      BY <1>1, <1>4
  <2> QED BY <1>1, <1>4, <2>1, <2>2, <2>3
<1>11. q3 + B * 0 + Z * 0 = q3
    BY <1>1, <1>4
<1> QED BY <1>4, <1>9, <1>10, <1>11

\* Cylinder, head and sector make the number again, as long as the cylinder
\* fits its two bytes.
LEMMA ThreeNumbers ==
    ASSUME NEW lba \in Nat, lba < D!Word * (Nibble * SectorsPerTrack)
    PROVE  LET b == D!LbaBytes(lba, "CHS")
           IN  ((b[2] + Byte * b[3]) * Nibble + D!Head_(lba, "CHS")) * SectorsPerTrack
               + b[1] - 1 = lba
<1> PICK B, N, S : B = Byte /\ N = Nibble /\ S = SectorsPerTrack
    OBVIOUS
<1>1. B \in Nat \ {0} /\ N \in Nat \ {0} /\ S \in Nat \ {0} /\ N * S \in Nat \ {0}
    BY Numbers
<1>2. PICK cyl, head, track, sector :
          /\ track = lba \div S /\ sector = lba % S
          /\ cyl = track \div N /\ head = track % N
    OBVIOUS
<1>3. /\ track \in Nat /\ sector \in Nat /\ lba = S * track + sector
      /\ cyl \in Nat /\ head \in Nat /\ track = N * cyl + head
  <2>1. track \in Nat /\ sector \in Nat /\ lba = S * track + sector
    <3>1. S \in Nat \ {0} /\ lba \in Nat
        BY <1>1
    <3> QED BY Zenon, <1>2, <3>1, Remainder
  <2>2. cyl \in Nat /\ head \in Nat /\ track = N * cyl + head
    <3>1. N \in Nat \ {0} /\ track \in Nat
        BY <1>1, <2>1
    <3> QED BY Zenon, <1>2, <3>1, Remainder
  <2> QED BY <2>1, <2>2
<1>4. lba \div (N * S) = cyl
  <2>0. N \in Nat \ {0} /\ S \in Nat \ {0}
      BY <1>1
  <2>1. lba \div (S * N) = (lba \div S) \div N
      BY Zenon, <2>0, DivTwice
  <2>2. N * S = S * N
      BY <1>1
  <2> QED BY Zenon, <1>2, <2>1, <2>2
<1>5. cyl < D!Word
  <2>1. PICK d : d = N * S
      OBVIOUS
  <2>2. PICK w : w = D!Word
      OBVIOUS
  <2>3. d \in Nat \ {0} /\ w \in Nat /\ lba < w * d
      BY <1>1, <2>1, <2>2, Numbers
  <2>4. lba < d * w
      BY <2>3
  <2>5. lba \div d < w
      BY <2>3, <2>4, Bounded
  <2> QED BY <1>4, <2>1, <2>2, <2>5
<1>6. D!Cylinder(lba) = cyl
  <2>1. cyl % D!Word = cyl
      BY <1>3, <1>5, Numbers
  <2> QED BY <1>4, <2>1 DEF D!Cylinder
<1>7. D!LbaBytes(lba, "CHS") = <<sector + 1, cyl % B, cyl \div B, 0, 0, 0>>
    BY <1>2, <1>6 DEF D!LbaBytes, Byte
<1>8. D!Head_(lba, "CHS") = head
    BY <1>2 DEF D!Head_
<1>9. (cyl % B) + B * (cyl \div B) = cyl
    BY <1>1, <1>3, Quotient
<1>10. (cyl * N + head) * S = S * track
    BY <1>1, <1>3
<1>11. (cyl * N + head) * S + (sector + 1) - 1 = lba
  <2>1. S * track \in Nat
      BY <1>1, <1>3
  <2> QED BY <1>3, <1>10, <2>1
<1> QED BY <1>7, <1>8, <1>9, <1>11

\* What a command addresses is what the call asked for: always by LBA48, by CHS
\* below the last cylinder of 16 bits.
LEMMA Addressed ==
    ASSUME NEW old, DOMAIN old = D!DrivePorts,
           request.lba \in 0..(D!DoubleWord - 1),
           request.nb_sects \in 0..(Byte - 1), ~D!device.lba
    PROVE  LET r == D!Parameters(old)
               ext == D!Mode(request.lba, D!device) = "LBA48"
           IN  /\ DOMAIN r = D!DrivePorts
               /\ r[<<"base", 6>>][2].drive = D!device.drive
               /\ D!Address(r, ext) \in Int
               /\ ext \/ request.lba < D!Word * (Nibble * SectorsPerTrack) =>
                      D!Address(r, ext) = request.lba
               /\ D!Asked(r, ext) \in Nat
               /\ request.nb_sects # 0 => D!Asked(r, ext) = request.nb_sects
<1> PICK r, mode, b, lba, n :
        /\ r = D!Parameters(old) /\ mode = D!Mode(request.lba, D!device)
        /\ b = D!LbaBytes(request.lba, mode)
        /\ lba = request.lba /\ n = request.nb_sects
    OBVIOUS
<1>1. /\ DOMAIN r = D!DrivePorts
      /\ Last(r, 6) = [drive |-> D!device.drive, lba |-> mode # "CHS",
                       head |-> D!Head_(lba, mode)]
      /\ Last(r, 2) = n
      /\ Last(r, 3) = b[1] /\ Last(r, 4) = b[2] /\ Last(r, 5) = b[3]
      /\ mode = "LBA48" => /\ Prior(r, 2) = 0 /\ Prior(r, 3) = b[4]
                           /\ Prior(r, 4) = b[5] /\ Prior(r, 5) = b[6]
    BY Sent
<1>2. mode = IF lba >= D!Lba28 THEN "LBA48" ELSE "CHS"
    BY DEF D!Mode
<1>3. lba \in Nat /\ n \in Nat
    BY Numbers
<1>4. r[<<"base", 6>>][2].drive = D!device.drive
    BY <1>1 DEF Last
<1>5. CASE mode = "LBA48"
  <2>1. D!Address(r, TRUE) = b[1] + Byte * b[2] + D!Word * b[3]
                             + Byte * D!Word * (b[4] + Byte * b[5] + D!Word * b[6])
      BY <1>1, <1>5 DEF D!Address, Last, Prior, Byte
  <2>2. b = D!Bytes(lba)
      BY <1>5 DEF D!LbaBytes
  <2>3. D!Address(r, TRUE) = lba
      BY <2>1, <2>2, FourBytes
  <2>4. n # 0 => D!Asked(r, TRUE) = n
      BY <1>1, <1>3, <1>5, Numbers DEF D!Asked, Last, Prior, Byte
  <2>5. D!Asked(r, TRUE) \in Nat
      BY <1>1, <1>3, <1>5, Numbers DEF D!Asked, Last, Prior, Byte
  <2>6. /\ DOMAIN r = D!DrivePorts /\ D!Address(r, TRUE) \in Int
    <3>1. lba \in Int
        BY <1>3
    <3> QED BY Zenon, <1>1, <2>3, <3>1
  <2> QED BY <1>4, <1>5, <2>3, <2>4, <2>5, <2>6
<1>6. CASE mode = "CHS"
  <2>1. D!Address(r, FALSE) = ((b[2] + Byte * b[3]) * Nibble + D!Head_(lba, "CHS"))
                              * SectorsPerTrack + b[1] - 1
    <3>1. /\ ~r[<<"base", 6>>][2].lba
          /\ r[<<"base", 6>>][2].head = D!Head_(lba, "CHS")
      <4>1. (mode # "CHS") = FALSE
          BY <1>6
      <4>2. r[<<"base", 6>>][2]
            = [drive |-> D!device.drive, lba |-> FALSE, head |-> D!Head_(lba, "CHS")]
          BY Zenon, <1>1, <1>6, <4>1 DEF Last
      <4> QED BY <4>2
    <3>2. /\ r[<<"base", 3>>][2] = b[1] /\ r[<<"base", 4>>][2] = b[2]
          /\ r[<<"base", 5>>][2] = b[3]
        BY <1>1 DEF Last
    <3> QED BY Zenon, <3>1, <3>2 DEF D!Address, Byte
  <2>2. lba < D!Word * (Nibble * SectorsPerTrack) => D!Address(r, FALSE) = lba
      BY <1>3, <1>6, <2>1, ThreeNumbers
  <2>3. D!Address(r, FALSE) \in Int
    <3>1. D!Cylinder(lba) \in Nat /\ lba % SectorsPerTrack \in Nat
        BY <1>3, Numbers DEF D!Cylinder
    <3>2. b[1] \in Nat /\ b[2] \in Nat /\ b[3] \in Nat
        BY <1>6, <3>1, Numbers DEF D!LbaBytes, Byte
    <3>3. D!Head_(lba, "CHS") \in Nat
        BY <1>3, Numbers DEF D!Head_
    <3>4. PICK c : c = b[2] + Byte * b[3]
        OBVIOUS
    <3>5. c \in Nat /\ c * Nibble \in Nat
        BY <3>2, <3>4, Numbers
    <3>6. (c * Nibble + D!Head_(lba, "CHS")) * SectorsPerTrack \in Nat
        BY <3>3, <3>5, Numbers
    <3>7. (c * Nibble + D!Head_(lba, "CHS")) * SectorsPerTrack + b[1] - 1 \in Int
        BY <3>2, <3>6
    <3> QED BY Zenon, <2>1, <3>4, <3>7
  <2>4. D!Asked(r, FALSE) = IF n # 0 THEN n ELSE Byte
      BY <1>1, <1>3 DEF D!Asked, Last, Byte
  <2> QED BY <1>1, <1>3, <1>4, <1>6, <2>2, <2>3, <2>4, Numbers
<1> QED BY <1>2, <1>5, <1>6

-----------------------------------------------------------------------------
(* The drives.                                                             *)

\* A position is a channel and a drive.
LEMMA Halves ==
    \A p \in 0..3 : /\ D!ChannelOf(p) \in 0..1 /\ p % 2 \in 0..1
                     /\ 2 * D!ChannelOf(p) + (p % 2) = p
    BY DEF D!ChannelOf

Others(p) == \A q \in 0..3 \ {p} : status'[q] = status[q] /\ job'[q] = job[q]
Typed ==
    /\ status' \in [0..3 -> {"none", "idle", "busy", "drq", "error"}]
    /\ job' \in [0..3 -> [op : Ops, at : Int, left : Nat]]

\* A drive that waits takes a command, any other one loses it.
LEMMA Commanded ==
    ASSUME Wired, NEW p \in 0..3, NEW op \in Ops, NEW first \in Int, NEW n \in Nat,
           D!Command(p, op, first, n)
    PROVE  /\ Others(p) /\ Typed
           /\ status[p] \in {"none", "busy", "drq"} => status'[p] = status[p] /\ job'[p] = job[p]
           /\ status[p] \notin {"none", "busy", "drq"} =>
                  /\ status'[p] = "busy"
                  /\ job'[p] = [op |-> op, at |-> first, left |-> n]
    BY DEF Wired, D!Command, Others, Typed

\* A drive that is busy fails, or has or wants data, or is done.
LEMMA Readied ==
    ASSUME Wired, NEW p \in 0..3, D!DriveReady(p)
    PROVE  /\ Others(p) /\ Typed /\ status[p] = "busy"
           /\ status'[p] \in {"error", "drq", "idle"}
           /\ status'[p] = "error" =>
                  /\ job'[p] = D!NoJob
                  /\ failed' \/ (job[p].op = "IDENTIFY" /\ kind[p] = "ATAPI")
           /\ status'[p] = "drq" =>
                  /\ job'[p] = job[p] /\ ~(job[p].op = "IDENTIFY" /\ kind[p] = "ATAPI")
                  /\ job[p].op \in {"IDENTIFY", "IDENTIFY_PACKET"} \/ job[p].left > 0
           /\ status'[p] = "idle" =>
                  /\ job'[p] = D!NoJob /\ job[p].left = 0
                  /\ job[p].op \notin {"IDENTIFY", "IDENTIFY_PACKET"}
           /\ failed => failed'
           /\ UNCHANGED <<kind, disk, ports, ide_devices, ide, probed, D!caller, compiled, zero, targets>>
<1>1. UNCHANGED <<kind, disk, ports, ide_devices, ide, probed, D!caller, compiled, zero, targets>>
      /\ status[p] = "busy"
    BY DEF D!DriveReady
<1>2. PICK refuses, wants, fails, atapi :
        /\ atapi <=> job[p].op = "IDENTIFY" /\ kind[p] = "ATAPI"
        /\ wants <=> job[p].op \in {"IDENTIFY", "IDENTIFY_PACKET"} \/ job[p].left > 0
        /\ atapi => refuses
        /\ fails \in {refuses, refuses \/ Faults}
        /\ status' = [status EXCEPT ![p] = IF fails THEN "error"
                                           ELSE IF wants THEN "drq" ELSE "idle"]
        /\ job' = IF fails \/ ~wants THEN [job EXCEPT ![p] = D!NoJob] ELSE job
        /\ failed' = (failed \/ (fails /\ ~atapi))
    BY Zenon DEF D!DriveReady
<1>3. D!NoJob \in [op : Ops, at : Int, left : Nat]
    BY DEF D!NoJob, Ops
<1>4. Others(p) /\ Typed
    BY <1>2, <1>3 DEF Wired, Others, Typed
<1>5. /\ status'[p] = IF fails THEN "error" ELSE IF wants THEN "drq" ELSE "idle"
      /\ job'[p] = IF fails \/ ~wants THEN D!NoJob ELSE job[p]
    BY <1>2 DEF Wired
<1>6. atapi => fails
    BY <1>2
<1>7. job[p].left \in Nat
    BY DEF Wired
<1>8. failed' <=> failed \/ (fails /\ ~atapi)
    BY Zenon, <1>2
<1>9. CASE fails
  <2>1. status'[p] = "error" /\ job'[p] = D!NoJob /\ (failed => failed')
        /\ (failed' \/ (job[p].op = "IDENTIFY" /\ kind[p] = "ATAPI"))
      BY Zenon, <1>2, <1>5, <1>8, <1>9
  <2> QED BY <1>1, <1>4, <2>1
<1>10. CASE ~fails /\ wants
  <2>1. /\ status'[p] = "drq" /\ job'[p] = job[p] /\ (failed => failed')
        /\ ~(job[p].op = "IDENTIFY" /\ kind[p] = "ATAPI")
        /\ job[p].op \in {"IDENTIFY", "IDENTIFY_PACKET"} \/ job[p].left > 0
      BY Zenon, <1>2, <1>5, <1>6, <1>8, <1>10
  <2> QED BY <1>1, <1>4, <2>1
<1>11. CASE ~fails /\ ~wants
  <2>1. status'[p] = "idle" /\ job'[p] = D!NoJob /\ (failed => failed')
      BY Zenon, <1>5, <1>8, <1>11
  <2>2. job[p].op \notin {"IDENTIFY", "IDENTIFY_PACKET"} /\ ~(job[p].left > 0)
      BY Zenon, <1>2, <1>11
  <2>3. job[p].left = 0
      BY <1>7, <2>2
  <2> QED BY <1>1, <1>4, <2>1, <2>2, <2>3
<1> QED BY <1>9, <1>10, <1>11

\* A drive that gave or took a sector goes on to the next.
LEMMA Transported ==
    ASSUME Wired, NEW p \in 0..3, D!DataDone(p)
    PROVE  /\ Others(p) /\ Typed
           /\ status'[p] = IF job[p].left = 0 THEN "idle" ELSE "busy"
           /\ job'[p].op = job[p].op /\ job'[p].at = job[p].at + 1
           /\ job'[p].left = IF job[p].left = 0 THEN 0 ELSE job[p].left - 1
<1>1. status' = [status EXCEPT ![p] = IF job[p].left = 0 THEN "idle" ELSE "busy"]
    BY DEF D!DataDone
<1>2. PICK next : next = [op |-> job[p].op, at |-> job[p].at + 1,
                          left |-> IF job[p].left = 0 THEN 0 ELSE job[p].left - 1]
    OBVIOUS
<1>3. job' = [job EXCEPT ![p] = next]
    BY <1>2 DEF D!DataDone
<1>4. next \in [op : Ops, at : Int, left : Nat]
  <2>1. job[p].op \in Ops /\ job[p].at \in Int /\ job[p].left \in Nat
      BY DEF Wired
  <2> QED BY <1>2, <2>1
<1>5. job'[p] = next
    BY <1>3 DEF Wired
<1>6. Others(p) /\ Typed /\ status'[p] = IF job[p].left = 0 THEN "idle" ELSE "busy"
    BY <1>1, <1>3, <1>4 DEF Wired, Others, Typed
<1> QED BY <1>2, <1>5, <1>6

\* What a change to one drive and its channel leaves as it was.
LEMMA StillWired ==
    ASSUME Wired, NEW p \in 0..3, Others(p), Typed, kind' = kind,
           status'[p] = "none" <=> status[p] = "none",
           \/ ports' = ports
           \/ \E c \in 0..1 : \E r : /\ ports' = [ports EXCEPT ![c] = r]
                                     /\ DOMAIN r = D!DrivePorts
                                     /\ r[<<"base", 6>>][2].drive \in 0..1
    PROVE  Wired'
<1>1. \A q \in 0..3 : status'[q] = "none" <=> kind[q] = "none"
    BY DEF Wired, Others
<1>2. /\ DOMAIN ports' = 0..1
      /\ \A c \in 0..1 : /\ DOMAIN ports'[c] = D!DrivePorts
                         /\ ports'[c][<<"base", 6>>][2].drive \in 0..1
    BY DEF Wired
<1> QED BY <1>1, <1>2 DEF Wired, Typed

-----------------------------------------------------------------------------
(* What init_IDE finds.                                                    *)

Found == Wired /\ Probed /\ Listed

\* A step of init_IDE touches the drive that is probed alone, and leaves an ATA
\* drive idle behind unless one failed.
Passes ==
    /\ UNCHANGED <<kind, disk, zero, failed, sent, targets>>
    /\ ide \in Probes /\ ide' \in Probes \cup {"idle"} /\ Others(probed)
    /\ \/ status'[probed] = status[probed] /\ job'[probed] = job[probed]
       \/ job'[probed].op # "write"
    /\ \/ probed' = probed /\ ide' \in Probes
       \/ /\ probed' = probed + 1
          /\ kind[probed] = "ATA" /\ ~failed => status'[probed] = "idle"

\* At first there is nothing in the table.
LEMMA FoundInit == D!Init => Found
<1> SUFFICES ASSUME D!Init PROVE Found
    OBVIOUS
<1>1. /\ kind \in [0..3 -> Kinds \cup {"none"}]
      /\ status = [p \in 0..3 |-> IF kind[p] = "none" THEN "none" ELSE "idle"]
      /\ job = [p \in 0..3 |-> D!NoJob]
      /\ ide_devices = <<>> /\ ide = "probe" /\ probed = 0
    BY DEF D!Init, D!AllPositions
<1>2. kind \in [0..3 -> {"ATA", "ATAPI", "none"}]
    BY <1>1, DiskAssumption
<1>3. job \in [0..3 -> [op : Ops, at : Int, left : Nat]]
    BY <1>1 DEF D!NoJob, Ops
<1>4. /\ DOMAIN ports = 0..1
      /\ \A c \in 0..1 : /\ DOMAIN ports[c] = D!DrivePorts
                         /\ ports[c][<<"base", 6>>][2].drive \in 0..1
  <2>1. ports = [channel \in 0..1 |-> [port \in D!DrivePorts |->
            IF port = <<"base", 6>>
            THEN [n \in 1..2 |-> [drive |-> 0, lba |-> FALSE, head |-> 0]] ELSE <<0, 0>>]]
      BY DEF D!Init
  <2>2. <<"base", 6>> \in D!DrivePorts
      BY DEF D!DrivePorts
  <2> QED BY <2>1, <2>2
<1>5. Wired
    BY <1>1, <1>2, <1>3, <1>4 DEF Wired
<1>6. Probed
    BY <1>1, <1>2 DEF Probed, Probes, InCall
<1>7. Listed
    BY <1>1 DEF Listed
<1> QED BY <1>5, <1>6, <1>7 DEF Found

\* IDENTIFY goes to the drive that is probed.
LEMMA FoundIdentify == Found /\ D!Identify => Found' /\ Passes
<1> SUFFICES ASSUME Found, D!Identify PROVE Found' /\ Passes
    OBVIOUS
<1> USE DEF Found
<1>1. /\ ide = "probe" /\ ide' = "present" /\ probed \in 0..3
      /\ UNCHANGED <<kind, ide_devices, probed, failed>> /\ UNCHANGED <<disk, zero, sent, targets>>
    BY DEF D!Identify, D!caller, D!history, Probed, Probes
<1>2. PICK c, r : /\ c = D!ChannelOf(probed)
                  /\ r = D!Select(ports[c], probed % 2, FALSE, 0)
    OBVIOUS
<1>3. c \in 0..1 /\ probed % 2 \in 0..1 /\ 2 * c + (probed % 2) = probed
    BY <1>1, <1>2, Halves
<1>4. DOMAIN r = D!DrivePorts /\ r[<<"base", 6>>][2].drive = probed % 2
  <2>1. DOMAIN ports[c] = D!DrivePorts
      BY <1>3 DEF Wired
  <2>2. Sends(ports[c], r, 6, [drive |-> probed % 2, lba |-> FALSE, head |-> 0])
      BY <1>2, <2>1, Out DEF D!Select
  <2> QED BY <2>2 DEF Sends, Last
<1>5. D!Selected(r, c) = probed
    BY <1>3, <1>4 DEF D!Selected
<1>6. ports' = [ports EXCEPT ![c] = r] /\ D!Command(probed, "IDENTIFY", 0, 0)
    BY <1>2, <1>5 DEF D!Identify
<1>7. /\ Others(probed) /\ Typed
      /\ status[probed] = "none" => status'[probed] = status[probed] /\ job'[probed] = job[probed]
      /\ status[probed] = "idle" => status'[probed] = "busy" /\ job'[probed].op = "IDENTIFY"
  <2>1. "IDENTIFY" \in Ops /\ 0 \in Int /\ 0 \in Nat /\ probed \in 0..3
      BY <1>1 DEF Ops
  <2>2. /\ Others(probed) /\ Typed
        /\ status[probed] \in {"none", "busy", "drq"} =>
              status'[probed] = status[probed] /\ job'[probed] = job[probed]
        /\ status[probed] \notin {"none", "busy", "drq"} =>
              /\ status'[probed] = "busy"
              /\ job'[probed] = [op |-> "IDENTIFY", at |-> 0, left |-> 0]
      BY <1>6, <2>1, Commanded
  <2> QED BY <2>2
<1>8. status[probed] \in {"none", "idle"}
    BY <1>1 DEF Probed, Probes
<1>9. Wired'
    BY <1>1, <1>3, <1>4, <1>6, <1>7, <1>8, StillWired
<1>10. ByDrive(probed)' = probed
  <2>1. ports'[c] = r
      BY <1>3, <1>6 DEF Wired
  <2> QED BY <1>1, <1>2, <1>5, <2>1 DEF ByDrive
<1>11. Probed'
    BY <1>1, <1>7, <1>8, <1>10 DEF Probed, Probes, Others
<1>12. Listed'
    BY <1>1 DEF Listed, Position
<1>13. Passes
    BY <1>1, <1>7, <1>8 DEF Passes, Probes
<1> QED BY <1>9, <1>11, <1>12, <1>13

\* On to the next position.
LEMMA Onward ==
    ASSUME Found, ide \in Probes, D!NextPosition, Others(probed),
           UNCHANGED <<kind, ide_devices, failed>>
    PROVE  /\ Probed'
           /\ failed \/ kind[probed] = "none" => Listed'
<1> USE DEF Found
<1>1. /\ probed \in 0..3 /\ probed' = probed + 1
      /\ ide' = IF probed = 3 THEN "idle" ELSE "probe"
    BY DEF D!NextPosition, Probed
<1>2. \A p \in 0..3 : p > probed => status'[p] \in {"none", "idle"}
    BY <1>1 DEF Probed, Others
<1>3. Probed'
    BY <1>1, <1>2 DEF Probed, Probes, InCall
<1>4. ASSUME failed \/ kind[probed] = "none" PROVE Listed'
  <2>1. \A k \in 1..Len(ide_devices) :
            Position(ide_devices[k]) < probed' /\ Position(ide_devices'[k]) = Position(ide_devices[k])
      BY <1>1 DEF Listed, Position
  <2>2. ~failed => \A p \in 0..(probed' - 1) : kind[p] # "none" =>
            \E k \in 1..Len(ide_devices) : Position(ide_devices[k]) = p
      BY <1>1, <1>4 DEF Listed
  <2> QED BY <2>1, <2>2 DEF Listed, Position
<1> QED BY <1>3, <1>4

\* The status says whether there is a drive.
LEMMA FoundPresent == Found /\ D!Present => Found' /\ Passes
<1> SUFFICES ASSUME Found, D!Present PROVE Found' /\ Passes
    OBVIOUS
<1> USE DEF Found
<1>1. /\ ide = "present" /\ probed \in 0..3 /\ D!polled = probed
      /\ UNCHANGED <<kind, status, job, ports, ide_devices, failed>>
      /\ UNCHANGED <<disk, zero, sent, targets>>
    BY DEF D!Present, D!caller, D!hardware, D!history, Probed, Probes, D!polled, ByDrive
<1>2. Wired'
    BY <1>1 DEF Wired
<1>3. CASE status[probed] = "none"
  <2>1. D!NextPosition
      BY <1>1, <1>3 DEF D!Present
  <2>2. kind[probed] = "none"
      BY <1>1, <1>3 DEF Wired
  <2>3. Others(probed) /\ ide \in Probes
      BY <1>1 DEF Others, Probes
  <2>4. Passes
      BY <1>1, <2>1, <2>2, <2>3 DEF D!NextPosition, Passes, Probes
  <2> QED BY <1>1, <1>2, <2>1, <2>2, <2>3, <2>4, Onward
<1>4. CASE status[probed] # "none"
  <2>1. ide' = "polling" /\ UNCHANGED probed
      BY <1>1, <1>4 DEF D!Present
  <2>2. kind[probed] # "none"
      BY <1>1, <1>4 DEF Wired
  <2>3. ByDrive(probed)' = ByDrive(probed)
      BY <1>1, <2>1 DEF ByDrive
  <2>4. Probed'
      BY <1>1, <2>1, <2>2, <2>3 DEF Probed, Probes, InCall
  <2>5. Listed'
      BY <1>1, <2>1 DEF Listed, Position
  <2>6. Passes
      BY <1>1, <2>1 DEF Passes, Probes, Others
  <2> QED BY <1>2, <2>4, <2>5, <2>6
<1> QED BY <1>3, <1>4

\* A drive that has data is an ATA one, one that refused is an ATAPI one.
LEMMA FoundPolled == Found /\ D!Polled => Found' /\ Passes
<1> SUFFICES ASSUME Found, D!Polled PROVE Found' /\ Passes
    OBVIOUS
<1> USE DEF Found
<1>1. /\ ide = "polling" /\ probed \in 0..3 /\ D!polled = probed
      /\ status[probed] \in {"error", "drq"} /\ kind[probed] # "none"
      /\ UNCHANGED <<kind, ports, ide_devices, failed>>
      /\ UNCHANGED <<disk, zero, sent, targets>>
    BY DEF D!Polled, D!caller, D!history, Probed, Probes, D!polled, ByDrive
<1>2. ASSUME ide' = "read", UNCHANGED probed, Others(probed),
             job'[probed].op # "write",
             \/ kind[probed] = "ATA" /\ status'[probed] = "drq" /\ job'[probed].op = "IDENTIFY"
             \/ kind[probed] = "ATAPI" /\ job'[probed].op # "IDENTIFY"
      PROVE  Probed' /\ Listed' /\ Passes
  <2>1. ByDrive(probed)' = ByDrive(probed)
      BY <1>1, <1>2 DEF ByDrive
  <2>2. Probed'
      BY <1>1, <1>2, <2>1 DEF Probed, Probes, InCall, Others
  <2>3. Listed'
      BY <1>1, <1>2 DEF Listed, Position
  <2>4. Passes
      BY <1>1, <1>2 DEF Passes, Probes
  <2> QED BY <2>2, <2>3, <2>4
<1>3. CASE status[probed] = "drq"
  <2>1. ide' = "read" /\ UNCHANGED <<probed, status, job>>
      BY <1>1, <1>3 DEF D!Polled
  <2>2. kind[probed] = "ATA" /\ job[probed].op = "IDENTIFY"
      BY <1>1, <1>3 DEF Probed
  <2>3. Others(probed) /\ Wired'
      BY <1>1, <2>1 DEF Others, Wired
  <2> QED BY <1>2, <1>3, <2>1, <2>2, <2>3
<1>4. CASE status[probed] = "error" /\ kind[probed] # "ATAPI"
  <2>1. D!NextPosition /\ UNCHANGED <<status, job>>
      BY <1>1, <1>4 DEF D!Polled
  <2>2. failed
      BY <1>1, <1>4 DEF Probed
  <2>3. Others(probed) /\ Wired' /\ ide \in Probes
      BY <1>1, <2>1 DEF Others, Wired, Probes
  <2>4. Passes
      BY <1>1, <2>1, <2>2, <2>3 DEF D!NextPosition, Passes, Probes
  <2> QED BY <1>1, <2>1, <2>2, <2>3, <2>4, Onward
<1>5. CASE status[probed] = "error" /\ kind[probed] = "ATAPI"
  <2>1. /\ D!Command(probed, "IDENTIFY_PACKET", 0, 0)
        /\ ide' = "read" /\ UNCHANGED probed
      BY <1>1, <1>5 DEF D!Polled
  <2>2. "IDENTIFY_PACKET" \in Ops /\ 0 \in Int /\ 0 \in Nat
      BY DEF Ops
  <2>3. /\ Others(probed) /\ Typed
        /\ status[probed] \notin {"none", "busy", "drq"} =>
              /\ status'[probed] = "busy"
              /\ job'[probed] = [op |-> "IDENTIFY_PACKET", at |-> 0, left |-> 0]
      BY <1>1, <2>1, <2>2, Commanded
  <2>4. status'[probed] = "busy" /\ job'[probed].op # "IDENTIFY" /\ job'[probed].op # "write"
      BY <1>5, <2>3
  <2>5. Wired'
      BY <1>1, <1>5, <2>3, <2>4, StillWired
  <2> QED BY <1>2, <1>5, <2>1, <2>3, <2>4, <2>5
<1> QED BY <1>1, <1>3, <1>4, <1>5

\* The identification makes one entry more.
LEMMA FoundRead == Found /\ D!ReadIdentification => Found' /\ Passes
<1> SUFFICES ASSUME Found, D!ReadIdentification PROVE Found' /\ Passes
    OBVIOUS
<1> USE DEF Found
<1>1. /\ ide = "read" /\ probed \in 0..3 /\ D!polled = probed
      /\ UNCHANGED <<kind, ports, failed>> /\ D!NextPosition
      /\ UNCHANGED <<disk, zero, sent, targets>>
    BY DEF D!ReadIdentification, D!caller, D!history, Probed, Probes, D!polled, ByDrive
<1>2. PICK e : /\ ide_devices' = Append(ide_devices, e)
               /\ e.channel = D!ChannelOf(probed) /\ e.drive = probed % 2
               /\ e.type = IF job[probed].op = "IDENTIFY" THEN "ATA" ELSE "ATAPI"
               /\ ~e.lba
               /\ e.size \in {D!Number(D!Insl(D!LongWord(DiskSize))), 0}
  <2>1. PICK e, cap, type, size :
            /\ cap = D!Insl([lo |-> 0, hi |-> 1]) /\ size = D!Insl(D!LongWord(DiskSize))
            /\ type = IF job[probed].op = "IDENTIFY" THEN "ATA" ELSE "ATAPI"
            /\ e = [channel |-> D!ChannelOf(probed), drive |-> probed % 2, type |-> type,
                    lba |-> cap.hi = 1, size |-> IF type = "ATA" THEN D!Number(size) ELSE 0]
            /\ ide_devices' = Append(ide_devices, e)
      BY <1>1 DEF D!ReadIdentification
  <2>2. cap.hi # 1
      BY <2>1 DEF D!Insl
  <2>3. (cap.hi = 1) = FALSE
      BY <2>2
  <2>4. e = [channel |-> D!ChannelOf(probed), drive |-> probed % 2, type |-> type,
             lba |-> FALSE, size |-> IF type = "ATA" THEN D!Number(size) ELSE 0]
      BY Zenon, <2>1, <2>3
  <2>5. e.channel = D!ChannelOf(probed) /\ e.drive = probed % 2 /\ e.type = type /\ ~e.lba
        /\ e.size \in {D!Number(size), 0}
      BY <2>4
  <2> QED BY Zenon, <2>1, <2>5
<1>3. e.channel \in 0..1 /\ e.drive \in 0..1 /\ Position(e) = probed
    BY <1>1, <1>2, Halves DEF Position
<1>4. e.type = kind[probed]
    BY <1>1, <1>2 DEF Probed
<1>5. e.size \in Nat /\ e.size <= DiskSize /\ e.size < Byte * Byte
  <2>1. D!Number(D!Insl(D!LongWord(DiskSize))) = (DiskSize % D!Word) + D!Word * 0
      BY DEF D!Number, D!Insl, D!LongWord
  <2>2. D!Word * 0 = 0 /\ D!Word = Byte * Byte
      BY Numbers DEF D!Word, Byte
  <2>3. DiskSize % D!Word \in Nat /\ DiskSize % D!Word <= DiskSize /\ DiskSize % D!Word < D!Word
      BY Numbers, DiskAssumption
  <2> QED BY <1>2, <2>1, <2>2, <2>3, Numbers, DiskAssumption
<1>6. /\ Others(probed) /\ Typed /\ (status'[probed] = "none" <=> status[probed] = "none")
  <2>1. CASE status[probed] = "drq"
    <3>1. /\ status' = [status EXCEPT ![probed] = "idle"]
          /\ job' = [job EXCEPT ![probed] = D!NoJob]
        BY <1>1, <2>1 DEF D!ReadIdentification
    <3>2. D!NoJob \in [op : Ops, at : Int, left : Nat]
        BY DEF D!NoJob, Ops
    <3> QED BY <1>1, <2>1, <3>1, <3>2 DEF Wired, Others, Typed
  <2>2. CASE status[probed] # "drq"
    <3>1. UNCHANGED <<status, job>>
        BY <1>1, <2>2 DEF D!ReadIdentification
    <3> QED BY <3>1 DEF Wired, Others, Typed
  <2> QED BY <2>1, <2>2
<1>7. Wired'
    BY <1>1, <1>6, StillWired
<1>8. probed' = probed + 1 /\ ide \in Probes
    BY <1>1 DEF D!NextPosition, Probes
<1>9. Probed'
  <2>1. /\ probed \in 0..3 /\ probed' = probed + 1
        /\ ide' = IF probed = 3 THEN "idle" ELSE "probe"
      BY <1>1 DEF D!NextPosition
  <2>2. \A p \in 0..3 : p > probed => status'[p] \in {"none", "idle"}
      BY <1>6, <1>8, <2>1 DEF Probed, Others
  <2> QED BY <2>1, <2>2 DEF Probed, Probes, InCall
<1>10. PICK n : n = Len(ide_devices)
    OBVIOUS
<1>11. /\ n \in Nat /\ Len(ide_devices') = n + 1 /\ ide_devices'[n + 1] = e
       /\ \A k \in 1..n : ide_devices'[k] = ide_devices[k]
       /\ \E S : ide_devices' \in Seq(S)
  <2>1. PICK S : ide_devices \in Seq(S)
      BY DEF Listed
  <2>2. ide_devices \in Seq(S \cup {e})
      BY <2>1
  <2>3. ide_devices' \in Seq(S \cup {e})
      BY <1>2, <2>2
  <2> QED BY <1>2, <1>10, <2>2, <2>3
<1>12. \A k \in 1..n : Position(ide_devices[k]) < probed /\ Position(ide_devices'[k]) = Position(ide_devices[k])
    BY <1>10, <1>11 DEF Listed, Position
<1>13. Position(ide_devices'[n + 1]) = probed
    BY <1>3, <1>11
<1>14. \A k \in 1..(n + 1) :
           /\ ide_devices'[k].channel \in 0..1 /\ ide_devices'[k].drive \in 0..1
           /\ ide_devices'[k].size \in Nat /\ ~ide_devices'[k].lba
           /\ Position(ide_devices'[k]) < probed'
           /\ ide_devices'[k].type = kind'[Position(ide_devices'[k])]
           /\ ide_devices'[k].type # "none"
           /\ ide_devices'[k].size <= DiskSize /\ ide_devices'[k].size < Byte * Byte
  <2> TAKE k \in 1..(n + 1)
  <2>1. CASE k \in 1..n
    <3>1. /\ ide_devices[k].channel \in 0..1 /\ ide_devices[k].drive \in 0..1
          /\ ide_devices[k].size \in Nat /\ ~ide_devices[k].lba
          /\ ide_devices[k].type = kind[Position(ide_devices[k])]
          /\ ide_devices[k].type # "none"
          /\ ide_devices[k].size <= DiskSize /\ ide_devices[k].size < Byte * Byte
        BY <1>10, <2>1 DEF Listed
    <3>2. Position(ide_devices'[k]) < probed'
        BY <1>1, <1>3, <1>8, <1>12, <2>1, <3>1 DEF Position
    <3>3. ide_devices'[k] = ide_devices[k] /\ kind' = kind
        BY <1>1, <1>11, <2>1
    <3> QED BY Zenon, <3>1, <3>2, <3>3
  <2>2. CASE k = n + 1
      BY <1>1, <1>2, <1>3, <1>4, <1>5, <1>8, <1>11, <1>13, <2>2
  <2> QED BY <1>11, <2>1, <2>2
<1>15. \A k, m \in 1..(n + 1) :
           k < m => Position(ide_devices'[k]) < Position(ide_devices'[m])
  <2> SUFFICES ASSUME NEW k \in 1..(n + 1), NEW m \in 1..(n + 1), k < m
               PROVE  Position(ide_devices'[k]) < Position(ide_devices'[m])
      OBVIOUS
  <2>1. CASE m \in 1..n
      BY <1>10, <1>11, <1>12, <2>1 DEF Listed
  <2>2. CASE m = n + 1
      BY <1>11, <1>12, <1>13, <2>2
  <2> QED BY <1>11, <2>1, <2>2
<1>16. ~failed => \A p \in 0..(probed' - 1) : kind[p] # "none" =>
           \E k \in 1..(n + 1) : Position(ide_devices'[k]) = p
  <2> SUFFICES ASSUME ~failed, NEW p \in 0..probed, kind[p] # "none"
               PROVE  \E k \in 1..(n + 1) : Position(ide_devices'[k]) = p
      BY <1>1, <1>8
  <2>1. CASE p = probed
      BY <1>11, <1>13, <2>1
  <2>2. CASE p < probed
    <3>1. PICK k \in 1..n : Position(ide_devices[k]) = p
        BY <1>1, <1>10, <2>2 DEF Listed
    <3> QED BY <1>11, <1>12, <3>1
  <2> QED BY <1>1, <2>1, <2>2
<1>17. Listed'
    BY <1>1, <1>11, <1>14, <1>15, <1>16 DEF Listed, Position
<1>18. Passes
  <2>1. CASE status[probed] = "drq"
    <3>1. /\ status' = [status EXCEPT ![probed] = "idle"]
          /\ job' = [job EXCEPT ![probed] = D!NoJob]
        BY <1>1, <2>1 DEF D!ReadIdentification
    <3>2. status'[probed] = "idle" /\ job'[probed].op # "write"
        BY <1>1, <3>1 DEF Wired, D!NoJob
    <3> QED BY <1>1, <1>6, <3>2 DEF D!NextPosition, Passes, Probes
  <2>2. CASE status[probed] # "drq"
    <3>1. UNCHANGED <<status, job>> /\ kind[probed] # "ATA"
        BY <1>1, <2>2 DEF D!ReadIdentification, Probed
    <3> QED BY <1>1, <1>6, <3>1 DEF D!NextPosition, Passes, Probes
  <2> QED BY <2>1, <2>2
<1> QED BY <1>7, <1>9, <1>17, <1>18

\* A drive gets on with the answer.
LEMMA FoundReady ==
    ASSUME Found, NEW p \in 0..3, D!DriveReady(p)
    PROVE  Found'
<1> USE DEF Found
<1>1. /\ Others(p) /\ Typed /\ status[p] = "busy"
      /\ status'[p] \in {"error", "drq", "idle"}
      /\ status'[p] = "error" =>
             failed' \/ (job[p].op = "IDENTIFY" /\ kind[p] = "ATAPI")
      /\ status'[p] = "error" => job'[p] = D!NoJob
      /\ status'[p] = "drq" =>
             /\ job'[p] = job[p] /\ ~(job[p].op = "IDENTIFY" /\ kind[p] = "ATAPI")
      /\ status'[p] = "idle" =>
             job'[p] = D!NoJob /\ job[p].op \notin {"IDENTIFY", "IDENTIFY_PACKET"}
      /\ failed => failed'
      /\ UNCHANGED <<kind, ports, ide_devices, ide, probed>>
    BY Readied
<1>2. Wired'
    BY <1>1, StillWired
<1>3. ByDrive(probed)' = ByDrive(probed)
    BY <1>1 DEF ByDrive
<1>4. Probed'
  <2>1. CASE ide \in Probes /\ p = probed
    <3>1. p \in 0..3 /\ kind[p] # "none" /\ kind[p] \in {"ATA", "ATAPI"} /\ ide # "probe"
        BY <1>1, <2>1 DEF Probed, Probes, Wired
    <3>2. CASE ide \in {"present", "polling"}
      <4>1. job[p].op = "IDENTIFY"
          BY <1>1, <2>1, <3>2 DEF Probed
      <4>2. \/ status'[p] = "drq" /\ job'[p].op = "IDENTIFY" /\ kind[p] = "ATA"
            \/ status'[p] = "error" /\ (failed' \/ kind[p] = "ATAPI")
          BY <1>1, <3>1, <4>1
      <4> QED BY <1>1, <1>3, <2>1, <3>1, <3>2, <4>2 DEF Probed, Probes, Others
    <3>3. CASE ide = "read"
      <4>1. kind[p] = "ATAPI" /\ job[p].op # "IDENTIFY"
          BY <1>1, <2>1, <3>3 DEF Probed
      <4>2. job'[p].op # "IDENTIFY"
          BY <1>1, <4>1 DEF D!NoJob
      <4> QED BY <1>1, <1>3, <2>1, <3>1, <3>3, <4>1, <4>2 DEF Probed, Probes, Others
    <3> QED BY <2>1, <3>1, <3>2, <3>3 DEF Probes
  <2>2. CASE ~(ide \in Probes /\ p = probed)
    <3>1. ide \in Probes => probed \in 0..3 /\ status'[probed] = status[probed] /\ job'[probed] = job[probed]
        BY <1>1, <2>2 DEF Probed, Others
    <3>2. ide \in Probes => \A q \in 0..3 :
             q > probed \/ (ide = "probe" /\ q = probed) => status'[q] \in {"none", "idle"}
        BY <1>1, <2>2 DEF Probed, Others
    <3> QED BY <1>1, <1>3, <3>1, <3>2 DEF Probed, Probes
  <2> QED BY <2>1, <2>2
<1>5. Listed'
    BY <1>1 DEF Listed, Position
<1> QED BY <1>2, <1>4, <1>5

\* Calls leave the table and what was found alone.
LEMMA FoundCalls ==
    ASSUME Found, ide \notin Probes, ide' \in InCall \cup {"idle", "returned"},
           UNCHANGED <<kind, ide_devices, probed, failed>>,
           Wired'
    PROVE  Found'
<1>1. Probed'
    BY DEF Found, Probed, Probes, InCall
<1>2. Listed'
    BY DEF Found, Listed, Position
<1> QED BY <1>1, <1>2 DEF Found

-----------------------------------------------------------------------------
(* The calls.                                                              *)

\* The drive a call is about.
LEMMA Target ==
    ASSUME Found, Started
    PROVE  /\ D!device.channel \in 0..1 /\ D!device.drive \in 0..1 /\ ~D!device.lba
           /\ D!device.size \in Nat /\ D!device.size < Byte * Byte
           /\ Position(D!device) \in 0..3 /\ kind[Position(D!device)] = "ATA"
           /\ D!ChannelOf(Position(D!device)) = D!device.channel
<1>1. PICK k \in 1..Len(ide_devices) : D!device = ide_devices[k]
    BY DEF Started, D!device
<1>2. /\ D!device.channel \in 0..1 /\ D!device.drive \in 0..1 /\ ~D!device.lba
      /\ D!device.size \in Nat /\ D!device.size < Byte * Byte
      /\ D!device.type = kind[Position(D!device)]
    BY <1>1 DEF Found, Listed
<1>3. Position(D!device) \in 0..3 /\ D!ChannelOf(Position(D!device)) = D!device.channel
    BY <1>2 DEF Position, D!ChannelOf
<1>4. D!device.type = "ATA"
    BY DEF Started
<1> QED BY <1>2, <1>3, <1>4

\* The drive the registers of its channel lead to.
LEMMA Driven ==
    ASSUME Found, Started
    PROVE  /\ D!drive_ \in 0..3 /\ D!ChannelOf(D!drive_) = D!device.channel
           /\ ByDrive(D!drive_) = D!drive_ /\ ByDrive(Position(D!device)) = D!drive_
<1>1. PICK c, n : c = D!device.channel /\ n = ports[c][<<"base", 6>>][2].drive
    OBVIOUS
<1>2. c \in 0..1 /\ n \in 0..1
    BY <1>1, Target DEF Found, Wired
<1>3. D!drive_ = 2 * c + n
    BY <1>1 DEF D!drive_, D!Selected
<1>4. D!ChannelOf(D!drive_) = c /\ D!drive_ \in 0..3
    BY <1>2, <1>3 DEF D!ChannelOf
<1>5. ByDrive(D!drive_) = D!drive_ /\ ByDrive(Position(D!device)) = D!drive_
    BY <1>1, <1>4, Target DEF ByDrive, D!drive_
<1> QED BY <1>1, <1>4, <1>5

\* The call is in a range where the registers can say it.
Within == \/ D!Mode(request.lba, D!device) = "LBA48"
          \/ request.lba < D!Word * (Nibble * SectorsPerTrack)

\* Up to the end of the disk a number fits, and one that wraps needs LBA48.
LEMMA RangeWithin ==
    ASSUME Found, Started, D!InRange(D!device, request.lba, request.nb_sects)
    PROVE  Within
<1> PICK lba, n, size : lba = request.lba /\ n = request.nb_sects /\ size = D!device.size
    OBVIOUS
<1> PICK Z, Q : Z = D!Word /\ Q = D!DoubleWord
    OBVIOUS
<1>1. /\ Z \in Nat \ {0} /\ Q \in Nat \ {0} /\ Q = Z * Z /\ Byte \in Nat \ {0} /\ Z = Byte * Byte
      /\ lba \in 0..(Q - 1) /\ n \in 0..(Byte - 1) /\ size \in Nat /\ size < Z
    BY Numbers, Target DEF D!DoubleWord, D!Word, Byte, Started
<1>2. (lba + n) % Q <= size
    BY DEF D!InRange
<1>3. CASE lba + n < Q
  <2>1. (lba + n) % Q = lba + n
      BY <1>1, <1>3
  <2>2. lba < Z
      BY <1>1, <1>2, <2>1
  <2>3. PICK d : d = Nibble * SectorsPerTrack
      OBVIOUS
  <2>4. d \in Nat \ {0}
      BY <2>3, Numbers
  <2>5. PICK e \in Nat : d = e + 1
    <3>1. d - 1 \in Nat
        BY <2>4
    <3> QED BY <2>4, <3>1
  <2>6. Z * d = Z * e + Z /\ Z * e \in Nat
      BY <1>1, <2>5
  <2>7. lba < Z * d
      BY <1>1, <2>2, <2>6
  <2> QED BY <2>3, <2>7 DEF Within
<1>4. CASE lba + n >= Q
  <2>1. PICK u : u = Byte * Z
      OBVIOUS
  <2>2. u \in Nat \ {0} /\ Q = u * Byte /\ D!Lba28 = u * Nibble
      BY <1>1, <2>1, Numbers DEF D!Lba28, Byte
  <2>3. Nibble \in Nat /\ Nibble < Byte
      BY DiskAssumption DEF Byte
  <2>4. u * Nibble + u <= u * Byte
      BY <1>1, <2>2, <2>3, Least
  <2>5. Byte <= u
    <3>1. PICK e \in Nat : Z = e + 1
      <4>1. Z - 1 \in Nat
          BY <1>1
      <4> QED BY <1>1, <4>1
    <3>2. u = Byte * e + Byte /\ Byte * e \in Nat
        BY <1>1, <2>1, <3>1
    <3> QED BY <1>1, <3>2
  <2>6. PICK x : x = u * Nibble
      OBVIOUS
  <2>7. x \in Nat
      BY <2>2, <2>3, <2>6
  <2>8. lba >= x
      BY <1>1, <1>4, <2>2, <2>4, <2>5, <2>6, <2>7
  <2> QED BY <2>2, <2>6, <2>8 DEF Within, D!Mode
<1> QED BY <1>1, <1>3, <1>4

\* The registers can say what is below the last cylinder of 16 bits.
LEMMA AddressableWithin ==
    ASSUME Found, Started, D!Addressable, request.nb_sects # 0
    PROVE  Within
<1>1. request.lba \in Nat /\ request.nb_sects \in Nat
    BY Numbers DEF Started
<1>2. D!Word * Nibble * SectorsPerTrack = D!Word * (Nibble * SectorsPerTrack)
    BY Numbers
<1>3. D!Word * (Nibble * SectorsPerTrack) \in Nat
    BY Numbers
<1> QED BY <1>1, <1>2, <1>3 DEF Within, D!Addressable
-----------------------------------------------------------------------------
(* The calls, step by step.                                                *)

Steps == Found /\ Called /\ Granted /\ InTurn /\ Brought

\* The call in progress is the one that was checked.
LEMMA StillStarted ==
    ASSUME Started, UNCHANGED <<ide_devices, request, zero, targets>>
    PROVE  Started'
    BY DEF Started, D!device, D!InRange, D!Direction, D!Sectors, Position

\* What was granted stays so while no new write starts.
LEMMA StillGranted ==
    ASSUME Granted, zero => zero', UNCHANGED disk,
           \A p \in 0..3 : targets[p] \subseteq targets'[p],
           \A p \in 0..3 : \/ job'[p].op # "write"
                           \/ /\ job'[p] = job[p]
                              /\ status'[p] = "drq" => status[p] = "drq" \/ job[p].left > 0
    PROVE  Granted'
<1> SUFFICES ASSUME ~zero', NEW p \in 0..3
             PROVE  /\ DOMAIN disk'[p] \subseteq targets'[p]
                    /\ job'[p].op = "write" =>
                           /\ status'[p] = "drq" => job'[p].left > 0
                           /\ \A k \in 0..(job'[p].left - 1) : job'[p].at + k \in targets'[p]
    BY DEF Granted
<1>1. /\ DOMAIN disk[p] \subseteq targets[p]
      /\ job[p].op = "write" =>
             /\ status[p] = "drq" => job[p].left > 0
             /\ \A k \in 0..(job[p].left - 1) : job[p].at + k \in targets[p]
    BY DEF Granted
<1> QED BY <1>1

\* A drive that has nothing to do with a step is as quiet as before.
LEMMA StillQuiet ==
    ASSUME NEW p \in 0..3, Quiet(p), status'[p] = status[p], job'[p] = job[p],
           status[p] = "busy" => ports'[D!ChannelOf(p)] = ports[D!ChannelOf(p)]
    PROVE  Quiet(p)'
    BY DEF Quiet, ByDrive

\* A command asks for the sectors of the call.
LEMMA Issued ==
    ASSUME Found, Started, D!Issue
    PROVE  /\ UNCHANGED <<kind, disk, ide_devices, probed, request, sent, memory, result,
                          compiled, zero, failed, targets>>
           /\ ide = "busy" /\ ide' = "sector" /\ status[D!drive_] # "busy"
           /\ D!drive_' = Position(D!device)
           /\ \A q \in 0..3 : D!ChannelOf(q) # D!device.channel =>
                  ports'[D!ChannelOf(q)] = ports[D!ChannelOf(q)]
           /\ \E at \in Int : \E n \in Nat :
                  /\ D!Command(Position(D!device), D!Direction(request.fn), at, n)
                  /\ Within => at = request.lba
                  /\ request.nb_sects # 0 => n = request.nb_sects
           /\ Wired'
<1> PICK c, r, ext : /\ c = D!device.channel /\ r = D!Parameters(ports[c])
                     /\ ext = (D!Mode(request.lba, D!device) = "LBA48")
    OBVIOUS
<1>1. /\ UNCHANGED <<kind, disk, ide_devices, probed, request, sent, memory, result,
                     compiled, zero, failed, targets>>
      /\ ide = "busy" /\ ide' = "sector" /\ status[D!drive_] # "busy"
    BY DEF D!Issue, D!caller, D!history
<1>2. /\ ports' = [ports EXCEPT ![c] = r]
      /\ D!Command(D!Selected(r, c), D!Direction(request.fn), D!Address(r, ext),
                   D!Asked(r, ext))
    BY DEF D!Issue
<1>3. c \in 0..1 /\ DOMAIN ports = 0..1 /\ DOMAIN ports[c] = D!DrivePorts
    BY Target DEF Found, Wired
<1>4. /\ DOMAIN r = D!DrivePorts
      /\ r[<<"base", 6>>][2].drive = D!device.drive
      /\ D!Address(r, ext) \in Int
      /\ ext \/ request.lba < D!Word * (Nibble * SectorsPerTrack) =>
             D!Address(r, ext) = request.lba
      /\ D!Asked(r, ext) \in Nat
      /\ request.nb_sects # 0 => D!Asked(r, ext) = request.nb_sects
  <2>1. request.lba \in 0..(D!DoubleWord - 1) /\ request.nb_sects \in 0..(Byte - 1) /\ ~D!device.lba
      BY Target DEF Started, D!DoubleWord, D!Word, Byte
  <2> QED BY <1>3, <2>1, Addressed
<1>5. D!Selected(r, c) = Position(D!device)
    BY <1>4 DEF D!Selected, Position
<1>6. PICK at \in Int, n \in Nat :
          /\ D!Command(Position(D!device), D!Direction(request.fn), at, n)
          /\ Within => at = request.lba
          /\ request.nb_sects # 0 => n = request.nb_sects
  <2>1. Within => ext \/ request.lba < D!Word * (Nibble * SectorsPerTrack)
      BY DEF Within
  <2> QED BY <1>2, <1>4, <1>5, <2>1
<1>7. ports'[c] = r /\ \A q \in 0..3 : D!ChannelOf(q) # c =>
          ports'[D!ChannelOf(q)] = ports[D!ChannelOf(q)]
  <2>1. \A q \in 0..3 : D!ChannelOf(q) \in 0..1
      BY Halves
  <2> QED BY <1>2, <1>3, <2>1
<1>8. D!drive_' = Position(D!device)
  <2>1. D!device' = D!device
      BY <1>1 DEF D!device
  <2> QED BY <1>5, <1>7, <2>1 DEF D!drive_
<1>9. Wired'
  <2>1. Position(D!device) \in 0..3 /\ D!device.drive \in 0..1
      BY Target
  <2>2. D!Direction(request.fn) \in Ops
      BY DEF D!Direction, Ops
  <2>3. /\ Others(Position(D!device)) /\ Typed
        /\ status'[Position(D!device)] = "none" <=> status[Position(D!device)] = "none"
      BY <1>6, <2>1, <2>2, Commanded DEF Found
  <2> QED BY <1>1, <1>2, <1>3, <1>4, <2>1, <2>3, StillWired DEF Found
<1> QED BY <1>1, <1>6, <1>7, <1>8, <1>9
\* While the drives are probed nothing is written.
LEMMA WhileProbing ==
    ASSUME Steps, Probed', Passes
    PROVE  (Called /\ Granted /\ InTurn /\ Brought)'
<1> USE DEF Passes
<1>1. probed \in 0..3 /\ UNCHANGED <<kind, disk, zero, failed, sent, targets>>
    BY DEF Steps, Found, Probed
<1>2. Called'
    BY <1>1 DEF Steps, Called, Probes, InCall
<1>3. Granted'
  <2>1. \A p \in 0..3 : \/ job'[p].op # "write"
                        \/ job'[p] = job[p] /\ (status'[p] = "drq" => status[p] = "drq" \/ job[p].left > 0)
      BY DEF Others
  <2> QED BY <1>1, <2>1, StillGranted DEF Steps
<1>4. InTurn'
  <2>1. ide' # "sector" /\ ide' # "flushed"
      BY DEF Probes
  <2>2. ASSUME ~zero, ~failed, NEW p \in 0..3, kind[p] = "ATA", ide' \in Probes => p < probed'
        PROVE  status'[p] = "idle"
    <3>1. CASE p = probed
        BY <1>1, <2>2, <3>1
    <3>2. CASE p < probed
        BY <2>2, <3>2 DEF Steps, InTurn, Probes, Others
    <3>3. CASE p > probed /\ ide' = "idle"
        BY <1>1, <3>3 DEF Steps, Found, Probed, Probes
    <3> QED BY <1>1, <2>2, <3>1, <3>2, <3>3
  <2>3. \A p \in 0..3 : status'[p] = "idle" => Quiet(p)'
      BY DEF Quiet
  <2>4. ASSUME ~zero', ~failed'
        PROVE  \A p \in 0..3 : kind'[p] = "ATA" /\ (ide' \in Probes => p < probed') =>
                   \/ Quiet(p)' /\ (ide' \in Probes => status'[p] = "idle")
                   \/ ide' = "sector" /\ p = Position(D!device)'
      BY <1>1, <2>2, <2>3, <2>4
  <2> QED BY <2>1, <2>4 DEF InTurn
<1>5. Brought'
    BY DEF Brought, Probes
<1> QED BY <1>2, <1>3, <1>4, <1>5

\* init_IDE, step by step.
LEMMA StepsProbing == Steps /\ D!Probing => Steps'
<1> SUFFICES ASSUME Steps, D!Probing PROVE Steps'
    OBVIOUS
<1>1. Found' /\ Passes
    BY FoundIdentify, FoundPresent, FoundPolled, FoundRead DEF Steps, D!Probing
<1> QED BY <1>1, WhileProbing DEF Steps, Found
\* A drive gets on: in a call with a sector, or by itself with the last one.
LEMMA StepsReady ==
    ASSUME Steps, NEW p \in 0..3, D!DriveReady(p)
    PROVE  Steps'
<1>1. /\ Others(p) /\ status[p] = "busy"
      /\ status'[p] \in {"error", "drq", "idle"}
      /\ status'[p] = "error" =>
             /\ job'[p] = D!NoJob
             /\ failed' \/ (job[p].op = "IDENTIFY" /\ kind[p] = "ATAPI")
      /\ status'[p] = "drq" =>
             /\ job'[p] = job[p]
             /\ job[p].op \in {"IDENTIFY", "IDENTIFY_PACKET"} \/ job[p].left > 0
      /\ status'[p] = "idle" => job'[p] = D!NoJob /\ job[p].left = 0
      /\ failed => failed'
      /\ UNCHANGED <<kind, disk, ports, ide_devices, ide, probed, request, sent, memory,
                     result, compiled, zero, targets>>
    BY Readied DEF Steps, Found, D!caller
<1>2. Found'
    BY FoundReady DEF Steps
<1>3. Called'
  <2>1. Started => Started'
      BY <1>1, StillStarted
  <2>2. D!device' = D!device
      BY <1>1 DEF D!device
  <2> QED BY <1>1, <2>1, <2>2 DEF Steps, Called
<1>4. Granted'
  <2>1. D!NoJob.op # "write"
      BY DEF D!NoJob
  <2>2. \A q \in 0..3 : \/ job'[q].op # "write"
                        \/ job'[q] = job[q] /\ (status'[q] = "drq" => status[q] = "drq" \/ job[q].left > 0)
      BY <1>1, <2>1 DEF Others
  <2> QED BY <1>1, <2>2, StillGranted DEF Steps
<1>5. InTurn'
  <2> SUFFICES ASSUME ~zero', ~failed' PROVE InTurn'
      BY DEF InTurn
  <2>1. /\ ide = "sector" => Together
        /\ ide = "flushed" => D!drive_ = Position(D!device) /\ sent = request.nb_sects
        /\ \A q \in 0..3 : kind[q] = "ATA" /\ (ide \in Probes => q < probed) =>
               \/ Quiet(q) /\ (ide \in Probes => status[q] = "idle")
               \/ ide = "sector" /\ q = Position(D!device)
      BY <1>1 DEF Steps, InTurn
  <2>2. D!drive_' = D!drive_ /\ D!device' = D!device /\ Position(D!device)' = Position(D!device)
      BY <1>1 DEF D!drive_, D!device, Position
  <2>3. ASSUME ide = "sector" PROVE Together'
    <3>1. Together
        BY <2>1, <2>3
    <3>2. CASE p # Position(D!device)
      <4>1. Position(D!device) \in 0..3
          BY <2>3, Target DEF Steps, Called, InCall
      <4>2. status'[Position(D!device)] = status[Position(D!device)]
            /\ job'[Position(D!device)] = job[Position(D!device)]
          BY <1>1, <3>2, <4>1 DEF Others
      <4> QED BY <1>1, <2>2, <3>1, <4>2 DEF Together, D!Addressable, D!Direction
    <3>3. CASE p = Position(D!device)
      <4>1. job[p].op = D!Direction(request.fn) /\ job[p].left = request.nb_sects - sent
            /\ D!drive_ = p /\ sent \in 0..request.nb_sects
            /\ (D!Addressable => job[p].at = request.lba + sent)
          BY <1>1, <3>1, <3>3 DEF Together
      <4>2. job[p].op \in {"read", "write"}
          BY <4>1 DEF D!Direction
      <4>3. status'[p] # "error"
          BY <1>1, <4>2
      <4>4. CASE status'[p] = "drq"
          BY <1>1, <2>2, <3>3, <4>1, <4>2, <4>4 DEF Together, D!Addressable, D!Direction
      <4>5. CASE status'[p] = "idle"
        <5>1. request.nb_sects \in Nat
            BY <2>3, Numbers DEF Steps, Called, InCall, Started
        <5>2. sent = request.nb_sects
            BY <1>1, <4>1, <4>5, <5>1
        <5> QED BY <1>1, <2>2, <3>3, <4>1, <4>5, <5>2 DEF Together
      <4> QED BY <1>1, <4>3, <4>4, <4>5
    <3> QED BY <3>2, <3>3
  <2>4. ASSUME NEW q \in 0..3, Quiet(q), ide \in Probes => status[q] = "idle"
        PROVE  Quiet(q)' /\ (ide \in Probes => status'[q] = "idle")
    <3>1. CASE q # p
        BY <1>1, <2>4, <3>1, StillQuiet DEF Others
    <3>2. CASE q = p
      <4>1. job[p].left = 0 /\ job[p].op \in {"read", "write", "flush"}
          BY <1>1, <2>4, <3>2 DEF Quiet
      <4>2. status'[p] = "idle"
          BY <1>1, <4>1
      <4> QED BY <3>2, <4>2 DEF Quiet
    <3> QED BY <3>1, <3>2
  <2> QED BY <1>1, <2>1, <2>2, <2>3, <2>4 DEF InTurn
<1>6. Brought'
  <2>1. D!Clean' => D!Clean
      BY <1>1 DEF D!Clean, D!Addressable
  <2>2. D!device' = D!device /\ Position(D!device)' = Position(D!device)
      BY <1>1 DEF D!device, Position
  <2> QED BY <1>1, <2>1, <2>2 DEF Steps, Brought, D!Content, D!Direction
<1> QED BY <1>2, <1>3, <1>4, <1>5, <1>6 DEF Steps

\* A call that starts was checked; a write says what it is going to change.
LEMMA StepsBegin ==
    ASSUME Steps, NEW f \in {"IDE_read_sectors", "IDE_write_sectors", "ATA_READ"},
           NEW slot \in Slots, NEW n \in Counts, NEW lba \in Lbas,
           D!Begin(f, slot, n, lba)
    PROVE  Steps'
<1>1. PICK starts, here, d, p :
        /\ here <=> slot < Len(ide_devices)
        /\ d = ide_devices[slot + 1]
        /\ starts <=> /\ here /\ d.type = "ATA"
                      /\ f = "ATA_READ" \/ D!InRange(d, lba, n)
        /\ p = 2 * d.channel + d.drive
        /\ f = "ATA_READ" => here
        /\ ide' = IF starts THEN "busy" ELSE "returned"
        /\ result' \in IF starts THEN {0} ELSE IF ~here THEN {-1}
                       ELSE IF d.type = "ATA" THEN {-2}
                       ELSE UNION {D!IDE_print_error(err) : err \in 0..3}
        /\ zero' = (zero \/ (starts /\ n = 0))
        /\ targets' = IF starts /\ D!Direction(f) = "write"
                      THEN [targets EXCEPT ![p] = @ \cup D!Sectors(lba, n)]
                      ELSE targets
    BY Zenon DEF D!Begin
<1>2. /\ ide = "idle" /\ sent' = 0
      /\ request' = [fn |-> f, slot |-> slot, nb_sects |-> n, lba |-> lba]
      /\ UNCHANGED <<kind, disk, status, job, ports, ide_devices, probed, compiled, failed>>
    BY DEF D!Begin, D!hardware
<1>3. D!device' = d /\ request'.fn = f /\ request'.slot = slot
      /\ request'.nb_sects = n /\ request'.lba = lba
    BY <1>1, <1>2 DEF D!device
<1>4. ide' \in {"busy", "returned"} /\ (ide' = "busy" <=> starts)
    BY <1>1
<1>5. Wired'
    BY <1>2 DEF Steps, Found, Wired
<1>6. Found'
    BY <1>2, <1>4, <1>5, FoundCalls DEF Steps, Probes, InCall
<1>7. /\ DOMAIN targets = 0..3 /\ DOMAIN targets' = 0..3
      /\ \A q \in 0..3 : targets[q] \subseteq targets'[q]
  <2>1. DOMAIN targets = 0..3
      BY DEF Steps, Called
  <2>2. CASE starts /\ D!Direction(f) = "write"
    <3>1. targets' = [targets EXCEPT ![p] = @ \cup D!Sectors(lba, n)]
        BY <1>1, <2>2
    <3> QED BY <2>1, <3>1
  <2>3. CASE ~(starts /\ D!Direction(f) = "write")
    <3>1. targets' = targets
        BY <1>1, <2>3
    <3> QED BY <2>1, <3>1
  <2> QED BY <2>2, <2>3
<1>8. ASSUME starts PROVE Started'
  <2>1. slot \in Nat /\ slot + 1 \in 1..Len(ide_devices) /\ d.type = "ATA"
    <3>1. slot \in Nat
        BY DiskAssumption
    <3>2. Len(ide_devices) \in Nat
        BY DEF Steps, Found, Listed
    <3> QED BY <1>1, <1>8, <3>1, <3>2
  <2>2. n \in 0..(Byte - 1) /\ lba \in 0..(Byte * Byte * (Byte * Byte) - 1)
      BY DiskAssumption DEF Byte
  <2>3. n = 0 => zero'
      BY <1>1, <1>8
  <2>4. ASSUME D!Direction(f) = "write"
        PROVE  D!InRange(d, lba, n) /\ D!Sectors(lba, n) \subseteq targets'[Position(d)]
    <3>1. D!InRange(d, lba, n)
        BY <1>1, <1>8, <2>4 DEF D!Direction
    <3>2. d.channel \in 0..1 /\ d.drive \in 0..1
        BY <1>1, <2>1 DEF Steps, Found, Listed
    <3>3. p \in 0..3 /\ p = Position(d)
        BY <1>1, <3>2 DEF Position
    <3>4. targets' = [targets EXCEPT ![p] = @ \cup D!Sectors(lba, n)]
        BY <1>1, <1>8, <2>4
    <3>5. targets'[p] = targets[p] \cup D!Sectors(lba, n)
        BY <1>7, <3>3, <3>4
    <3> QED BY <3>1, <3>3, <3>5
  <2>5. D!InRange(D!device, request.lba, request.nb_sects)' <=> D!InRange(d, lba, n)
      BY <1>3 DEF D!InRange
  <2>6. Position(D!device)' = Position(d)
      BY <1>3 DEF Position
  <2>7. D!Direction(request.fn)' = D!Direction(f)
        /\ D!Sectors(request.lba, request.nb_sects)' = D!Sectors(lba, n)
      BY <1>3 DEF D!Direction, D!Sectors
  <2> QED BY <1>2, <1>3, <2>1, <2>2, <2>3, <2>4, <2>5, <2>6, <2>7 DEF Started
<1>9. ide' = "returned" /\ result' = 0 => D!device'.type # "ATA"
    BY <1>1, <1>3, <1>4
<1>10. ide' \in InCall => starts /\ result' = 0
    BY <1>1, <1>4 DEF InCall
<1>11. Called'
    BY <1>2, <1>7, <1>8, <1>9, <1>10 DEF Steps, Called
<1>12. zero => zero'
    BY Zenon, <1>1
<1>13. Granted'
    BY <1>2, <1>7, <1>12, StillGranted DEF Steps
<1>14. InTurn'
  <2> SUFFICES ASSUME ~zero', ~failed', NEW q \in 0..3, kind[q] = "ATA" PROVE Quiet(q)'
      BY <1>2, <1>4 DEF InTurn, Probes
  <2>1. Quiet(q)
      BY <1>2, <1>12 DEF Steps, InTurn, Probes
  <2> QED BY <1>2, <2>1, StillQuiet
<1>15. Brought'
    BY <1>4, <1>9 DEF Brought
<1> QED BY <1>6, <1>11, <1>13, <1>14, <1>15 DEF Steps
\* The command finds the drive idle, and asks it for the sectors of the call.
LEMMA StepsIssue == Steps /\ D!Issue => Steps'
<1> SUFFICES ASSUME Steps, D!Issue PROVE Steps'
    OBVIOUS
<1> PICK p : p = Position(D!device)
    OBVIOUS
<1>1. Found /\ Started /\ sent = 0 /\ ide = "busy"
    BY DEF D!Issue, Steps, Called, InCall
<1>2. /\ UNCHANGED <<kind, disk, ide_devices, probed, request, sent, memory, result,
                     compiled, zero, failed, targets>>
      /\ ide' = "sector" /\ status[D!drive_] # "busy" /\ D!drive_' = p
      /\ \A q \in 0..3 : D!ChannelOf(q) # D!device.channel =>
             ports'[D!ChannelOf(q)] = ports[D!ChannelOf(q)]
      /\ Wired'
    BY <1>1, Issued
<1>3. PICK at \in Int, n \in Nat :
          /\ D!Command(p, D!Direction(request.fn), at, n)
          /\ Within => at = request.lba
          /\ request.nb_sects # 0 => n = request.nb_sects
    BY <1>1, Issued
<1>4. p \in 0..3 /\ kind[p] = "ATA" /\ D!ChannelOf(p) = D!device.channel
    BY <1>1, Target
<1>5. D!Direction(request.fn) \in {"read", "write"} /\ D!Direction(request.fn) \in Ops
    BY DEF D!Direction, Ops
<1>6. /\ Others(p)
      /\ status[p] \in {"none", "busy", "drq"} => status'[p] = status[p] /\ job'[p] = job[p]
      /\ status[p] \notin {"none", "busy", "drq"} =>
             /\ status'[p] = "busy"
             /\ job'[p] = [op |-> D!Direction(request.fn), at |-> at, left |-> n]
    BY <1>1, <1>3, <1>4, <1>5, Commanded DEF Found
<1>7. Found'
    BY <1>1, <1>2, FoundCalls DEF Probes, InCall
<1>8. /\ request.nb_sects \in Nat /\ request.lba \in Nat
      /\ zero' = zero /\ (~zero => request.nb_sects # 0)
    BY <1>1, <1>2, Numbers DEF Started
<1>9. D!device' = D!device /\ Position(D!device)' = p
    BY <1>2 DEF D!device, Position
<1>10. Called'
  <2>1. Started'
      BY <1>1, <1>2, StillStarted
  <2> QED BY <1>1, <1>2, <2>1 DEF Steps, Called, InCall
<1>11. Granted'
  <2> SUFFICES ASSUME ~zero, NEW q \in 0..3
               PROVE  /\ DOMAIN disk[q] \subseteq targets[q]
                      /\ job'[q].op = "write" =>
                             /\ status'[q] = "drq" => job'[q].left > 0
                             /\ \A k \in 0..(job'[q].left - 1) : job'[q].at + k \in targets[q]
      BY <1>2 DEF Granted
  <2>1. /\ DOMAIN disk[q] \subseteq targets[q]
        /\ job[q].op = "write" =>
               /\ status[q] = "drq" => job[q].left > 0
               /\ \A k \in 0..(job[q].left - 1) : job[q].at + k \in targets[q]
      BY DEF Steps, Granted
  <2>2. CASE status'[q] = status[q] /\ job'[q] = job[q]
      BY <2>1, <2>2
  <2>3. CASE q = p /\ status'[p] = "busy"
             /\ job'[p] = [op |-> D!Direction(request.fn), at |-> at, left |-> n]
    <3>1. ASSUME D!Direction(request.fn) = "write", NEW k \in 0..(n - 1)
          PROVE  at + k \in targets[p]
      <4>1. /\ D!InRange(D!device, request.lba, request.nb_sects)
            /\ D!Sectors(request.lba, request.nb_sects) \subseteq targets[p]
          BY <1>1, <3>1 DEF Started
      <4>2. at = request.lba /\ n = request.nb_sects
          BY <1>1, <1>3, <1>8, <4>1, RangeWithin
      <4> QED BY <3>1, <4>1, <4>2 DEF D!Sectors
    <3> QED BY <2>1, <2>3, <3>1
  <2> QED BY <1>6, <2>2, <2>3 DEF Others
<1>12. InTurn'
  <2> SUFFICES ASSUME ~zero, ~failed PROVE InTurn'
      BY <1>2 DEF InTurn
  <2>1. \A q \in 0..3 : kind[q] = "ATA" => Quiet(q)
      BY <1>1 DEF Steps, InTurn, Probes
  <2>2. \A q \in 0..3 : D!ChannelOf(q) = D!device.channel /\ kind[q] = "ATA" => status[q] = "idle"
    <3> SUFFICES ASSUME NEW q \in 0..3, D!ChannelOf(q) = D!device.channel,
                        Quiet(q), status[q] = "busy"
                 PROVE  FALSE
        BY <2>1 DEF Quiet
    <3>1. ByDrive(q) = q
        BY DEF Quiet
    <3>2. ByDrive(q) = D!drive_
        BY DEF ByDrive, D!drive_
    <3> QED BY <1>2, <3>1, <3>2
  <2>3. /\ status'[p] = "busy" /\ job'[p].op = D!Direction(request.fn)
        /\ job'[p].left = request.nb_sects /\ job'[p].at = at
      BY <1>3, <1>4, <1>6, <1>8, <2>2
  <2>4. D!Addressable => at = request.lba
      BY <1>1, <1>3, <1>8, AddressableWithin
  <2>5. Together'
    <3>1. D!Addressable' <=> D!Addressable
        BY <1>2 DEF D!Addressable
    <3>2. D!Addressable => job'[p].at = request.lba + sent
        BY <1>1, <1>8, <2>3, <2>4
    <3>3. job'[p].left = request.nb_sects - sent /\ sent \in 0..request.nb_sects
        BY <1>1, <1>8, <2>3
    <3>4. D!Direction(request.fn)' = D!Direction(request.fn)
        BY <1>2 DEF D!Direction
    <3> QED BY <1>2, <1>9, <2>3, <3>1, <3>2, <3>3, <3>4 DEF Together
  <2>6. ASSUME NEW q \in 0..3, kind[q] = "ATA", q # p PROVE Quiet(q)'
      BY <1>2, <1>6, <2>1, <2>2, <2>6, StillQuiet DEF Others
  <2> QED BY <1>2, <1>9, <2>5, <2>6 DEF InTurn, Probes
<1>13. Brought'
    BY <1>1, <1>2 DEF Brought
<1> QED BY <1>7, <1>10, <1>11, <1>12, <1>13 DEF Steps

\* Data that a drive takes or gives leave what was granted granted.
LEMMA PartGranted ==
    ASSUME Wired, Granted, NEW p \in 0..3, Others(p), UNCHANGED <<zero, targets>>,
           \A q \in 0..3 \ {p} : disk'[q] = disk[q],
           status[p] = "drq", status'[p] \in {"idle", "busy"},
           job'[p].op = job[p].op, job'[p].at = job[p].at + 1,
           job'[p].left = IF job[p].left = 0 THEN 0 ELSE job[p].left - 1,
           \/ disk'[p] = disk[p]
           \/ job[p].op = "write" /\ DOMAIN disk'[p] = {job[p].at} \cup DOMAIN disk[p]
    PROVE  Granted'
<1> SUFFICES ASSUME ~zero, NEW q \in 0..3
             PROVE  /\ DOMAIN disk'[q] \subseteq targets[q]
                    /\ job'[q].op = "write" =>
                           /\ status'[q] = "drq" => job'[q].left > 0
                           /\ \A k \in 0..(job'[q].left - 1) : job'[q].at + k \in targets[q]
    BY DEF Granted
<1>1. /\ DOMAIN disk[q] \subseteq targets[q]
      /\ job[q].op = "write" =>
             /\ status[q] = "drq" => job[q].left > 0
             /\ \A k \in 0..(job[q].left - 1) : job[q].at + k \in targets[q]
    BY DEF Granted
<1>2. CASE q # p
    BY <1>1, <1>2 DEF Others
<1>3. CASE q = p
  <2> PICK at, left : at = job[p].at /\ left = job[p].left
      OBVIOUS
  <2>1. at \in Int /\ left \in Nat
      BY DEF Wired
  <2>2. ASSUME job[p].op = "write"
        PROVE  /\ left > 0 /\ at \in targets[p]
               /\ \A k \in 0..(left - 2) : (at + 1) + k \in targets[p]
    <3>1. left > 0 /\ \A k \in 0..(left - 1) : at + k \in targets[p]
        BY <1>1, <1>3, <2>2
    <3>2. 0 \in 0..(left - 1) /\ at + 0 = at
        BY <2>1, <3>1
    <3>3. \A k \in 0..(left - 2) : k + 1 \in 0..(left - 1) /\ (at + 1) + k = at + (k + 1)
        BY <2>1
    <3> QED BY <3>1, <3>2, <3>3
  <2>3. DOMAIN disk'[p] \subseteq targets[p]
      BY <1>1, <1>3, <2>2
  <2>4. job'[p].op = "write" => job'[p].left - 1 = left - 2 /\ job'[p].at = at + 1
      BY <2>1, <2>2
  <2> QED BY <1>3, <2>2, <2>3, <2>4
<1> QED BY <1>2, <1>3
\* In a call that goes well the drive that is not busy waits for the sector the
\* loop is at.
LEMMA InStepWith ==
    ASSUME Steps, ide = "sector", sent < request.nb_sects, status[D!drive_] # "busy",
           ~zero, ~failed
    PROVE  /\ D!drive_ = Position(D!device) /\ status[D!drive_] = "drq"
           /\ job[D!drive_].op = D!Direction(request.fn)
           /\ job[D!drive_].left = request.nb_sects - sent /\ job[D!drive_].left > 0
           /\ D!Addressable => job[D!drive_].at = request.lba + sent
<1>1. Together
    BY DEF Steps, InTurn
<1>2. sent # request.nb_sects
    BY DEF Steps, Called, InCall, Started
<1> QED BY <1>1, <1>2 DEF Together

\* After the sector they are both at the next one.
LEMMA NextSector ==
    ASSUME Steps, ide = "sector", sent < request.nb_sects, status[D!drive_] # "busy",
           UNCHANGED <<kind, ports, ide_devices, ide, request, zero, failed>>,
           sent' = sent + 1,
           status[D!drive_] = "drq" /\ job[D!drive_].op = D!Direction(request.fn) =>
               D!DataDone(D!drive_)
    PROVE  InTurn'
<1> SUFFICES ASSUME ~zero, ~failed PROVE InTurn'
    BY DEF InTurn
<1> PICK p, n : p = Position(D!device) /\ n = request.nb_sects
    OBVIOUS
<1>1. /\ D!drive_ = p /\ status[p] = "drq" /\ job[p].op = D!Direction(request.fn)
      /\ job[p].left = n - sent /\ job[p].left > 0
      /\ D!Addressable => job[p].at = request.lba + sent
    BY InStepWith
<1>2. Wired /\ Started /\ p \in 0..3 /\ sent \in Nat /\ n \in Nat /\ request.lba \in Nat
    BY Target, Numbers DEF Steps, Found, Called, InCall, Started
<1>3. /\ Others(p) /\ status'[p] = "busy"
      /\ job'[p].op = job[p].op /\ job'[p].at = job[p].at + 1
      /\ job'[p].left = job[p].left - 1
    BY <1>1, <1>2, Transported
<1>4. D!device' = D!device /\ Position(D!device)' = p /\ D!drive_' = p
    BY <1>1 DEF D!device, Position, D!drive_
<1>5. job'[p].left = n - (sent + 1) /\ sent + 1 \in 0..n
    BY <1>1, <1>2, <1>3
<1>6. D!Addressable => job'[p].at = request.lba + (sent + 1)
    BY <1>1, <1>2, <1>3
<1>7. D!Addressable' <=> D!Addressable
    BY DEF D!Addressable
<1>8. D!Direction(request.fn)' = D!Direction(request.fn)
    BY DEF D!Direction
<1>9. Together'
    BY <1>1, <1>3, <1>4, <1>5, <1>6, <1>7, <1>8 DEF Together
<1>10. ASSUME NEW q \in 0..3, kind[q] = "ATA", q # p PROVE Quiet(q)'
  <2>1. Quiet(q)
      BY <1>10 DEF Steps, InTurn, Probes
  <2> QED BY <1>3, <1>10, <2>1, StillQuiet DEF Others
<1> QED BY <1>4, <1>9, <1>10 DEF InTurn, Probes

\* A sector goes to the drive.
LEMMA StepsWriteSector == Steps /\ D!WriteSector => Steps'
<1> SUFFICES ASSUME Steps, D!WriteSector PROVE Steps'
    OBVIOUS
<1> PICK p : p = D!drive_
    OBVIOUS
<1>1. /\ UNCHANGED <<kind, ports, ide_devices, ide, probed, request, memory, result,
                     compiled, zero, failed, targets>>
      /\ ide = "sector" /\ sent' = sent + 1 /\ sent < request.nb_sects
      /\ status[p] # "busy" /\ D!Direction(request.fn) = "write"
    BY DEF D!WriteSector, D!history
<1>2. Found /\ Started /\ Wired /\ p \in 0..3 /\ sent \in Nat
    BY <1>1, Driven DEF Steps, Found, Called, InCall
<1>3. CASE status[p] = "drq" /\ job[p].op = "write"
  <2>1. disk' = [disk EXCEPT ![p] = D!Put(job[p].at, D!Place, @)] /\ D!DataDone(p)
      BY <1>3 DEF D!WriteSector
  <2>2. DOMAIN disk = 0..3
      BY DEF Steps, Called
  <2>3. DOMAIN disk' = 0..3 /\ disk'[p] = D!Put(job[p].at, D!Place, disk[p])
        /\ \A q \in 0..3 \ {p} : disk'[q] = disk[q]
      BY <1>2, <2>1, <2>2
  <2>4. /\ Others(p) /\ Typed
        /\ status'[p] = IF job[p].left = 0 THEN "idle" ELSE "busy"
        /\ job'[p].op = job[p].op /\ job'[p].at = job[p].at + 1
        /\ job'[p].left = IF job[p].left = 0 THEN 0 ELSE job[p].left - 1
      BY <1>2, <2>1, Transported
  <2>5. Wired'
      BY <1>1, <1>2, <1>3, <2>4, StillWired
  <2>6. Granted'
    <3>1. DOMAIN disk'[p] = {job[p].at} \cup DOMAIN disk[p]
        BY <2>3 DEF D!Put
    <3>2. status'[p] \in {"idle", "busy"}
        BY <2>4
    <3> QED BY <1>1, <1>2, <1>3, <2>3, <2>4, <3>1, <3>2, PartGranted DEF Steps
  <2>7. InTurn'
      BY <1>1, <2>1, NextSector
  <2>8. Brought'
    <3> SUFFICES ASSUME D!Clean, NEW k \in 0..sent
                 PROVE  D!Content(Position(D!device), request.lba + k)' = k
      <4>1. D!Clean' => D!Clean
          BY <1>1 DEF D!Clean, D!Addressable
      <4>2. D!device' = D!device /\ Position(D!device)' = Position(D!device)
          BY <1>1 DEF D!device, Position
      <4>3. D!Direction(request.fn)' = "write"
          BY <1>1 DEF D!Direction
      <4>4. sent' - 1 = sent
          BY <1>1, <1>2
      <4> QED BY <1>1, <4>1, <4>2, <4>3, <4>4 DEF Brought
    <3>1. p = Position(D!device) /\ job[p].at = request.lba + sent /\ D!Place = sent
          /\ Position(D!device)' = p
        BY <1>1, InStepWith DEF D!Clean, D!Place, D!device, Position
    <3>2. request.lba \in Nat
        BY <1>2, Numbers DEF Started
    <3>3. CASE k = sent
        BY <1>1, <2>3, <3>1, <3>3 DEF D!Content, D!Put
    <3>4. CASE k # sent
      <4>1. k \in 0..(sent - 1) /\ request.lba + k # request.lba + sent
          BY <1>2, <3>2, <3>4
      <4>2. D!Content(p, request.lba + k) = k
          BY <1>1, <3>1, <4>1 DEF Steps, Brought
      <4>3. request.lba + k \in DOMAIN disk[p] /\ disk[p][request.lba + k] = k
          BY <4>1, <4>2 DEF D!Content, D!Old
      <4> QED BY <1>1, <2>3, <3>1, <4>1, <4>3 DEF D!Content, D!Put
    <3> QED BY <3>3, <3>4
  <2>9. Called'
      BY <1>1, <1>2, <2>3, StillStarted DEF Steps, Called, InCall
  <2>10. Found'
      BY <1>1, <1>2, <2>5, FoundCalls DEF Probes, InCall
  <2> QED BY <2>6, <2>7, <2>8, <2>9, <2>10 DEF Steps
<1>4. CASE ~(status[p] = "drq" /\ job[p].op = "write")
  <2>1. UNCHANGED <<disk, status, job>>
      BY <1>4 DEF D!WriteSector
  <2>2. zero \/ failed
      BY <1>1, <1>4, InStepWith
  <2>3. Wired'
      BY <1>1, <1>2, <2>1 DEF Wired
  <2>4. Found'
      BY <1>1, <1>2, <2>3, FoundCalls DEF Probes, InCall
  <2>5. Called'
      BY <1>1, <1>2, <2>1, StillStarted DEF Steps, Called, InCall
  <2>6. Granted'
      BY <1>1, <2>1, StillGranted DEF Steps
  <2>7. InTurn' /\ Brought'
      BY <1>1, <2>2 DEF InTurn, Brought, D!Clean
  <2> QED BY <2>4, <2>5, <2>6, <2>7 DEF Steps
<1> QED BY <1>3, <1>4
\* A sector comes from the drive, or the call ends.
LEMMA StepsReadSector == Steps /\ D!ReadSector => Steps'
<1> SUFFICES ASSUME Steps, D!ReadSector PROVE Steps'
    OBVIOUS
<1> PICK p : p = D!drive_
    OBVIOUS
<1>1. /\ UNCHANGED <<kind, disk, ports, ide_devices, probed, request, compiled,
                     zero, failed, targets>>
      /\ ide = "sector" /\ sent < request.nb_sects
      /\ status[p] # "busy" /\ D!Direction(request.fn) = "read"
    BY DEF D!ReadSector, D!history
<1>2. Found /\ Started /\ Wired /\ p \in 0..3 /\ sent \in Nat /\ result = 0
    BY <1>1, Driven DEF Steps, Found, Called, InCall
<1>3. CASE status[p] = "drq"
  <2>1. /\ memory' = D!Put(D!Place, D!Content(p, job[p].at), memory)
        /\ D!DataDone(p) /\ sent' = sent + 1 /\ UNCHANGED <<ide, result>>
      BY <1>3 DEF D!ReadSector
  <2>2. /\ Others(p) /\ Typed
        /\ status'[p] = IF job[p].left = 0 THEN "idle" ELSE "busy"
        /\ job'[p].op = job[p].op /\ job'[p].at = job[p].at + 1
        /\ job'[p].left = IF job[p].left = 0 THEN 0 ELSE job[p].left - 1
      BY <1>2, <2>1, Transported
  <2>3. Wired'
      BY <1>1, <1>2, <1>3, <2>2, StillWired
  <2>4. Granted'
    <3>1. status'[p] \in {"idle", "busy"}
        BY <2>2
    <3> QED BY <1>1, <1>2, <1>3, <2>2, <3>1, PartGranted DEF Steps
  <2>5. InTurn'
      BY <1>1, <2>1, NextSector
  <2>6. Brought'
    <3> SUFFICES ASSUME D!Clean, NEW k \in 0..sent
                 PROVE  k \in DOMAIN memory' /\
                        memory'[k] = D!Content(Position(D!device), request.lba + k)
      <4>1. D!Clean' => D!Clean
          BY <1>1 DEF D!Clean, D!Addressable
      <4>2. D!device' = D!device /\ Position(D!device)' = Position(D!device)
          BY <1>1 DEF D!device, Position
      <4>3. D!Direction(request.fn)' = "read"
          BY <1>1 DEF D!Direction
      <4>4. sent' - 1 = sent
          BY <1>2, <2>1
      <4>5. \A q, m : D!Content(q, m)' = D!Content(q, m)
          BY <1>1 DEF D!Content
      <4> QED BY <1>1, <2>1, <4>1, <4>2, <4>3, <4>4, <4>5 DEF Brought
    <3>1. p = Position(D!device) /\ job[p].at = request.lba + sent /\ D!Place = sent
        BY <1>1, InStepWith DEF D!Clean, D!Place
    <3>2. PICK value : value = D!Content(p, request.lba + sent)
        OBVIOUS
    <3>3. memory' = D!Put(sent, value, memory)
        BY <2>1, <3>1, <3>2
    <3>4. CASE k = sent
        BY <3>1, <3>2, <3>3, <3>4 DEF D!Put
    <3>5. CASE k # sent
      <4>1. k \in 0..(sent - 1)
          BY <1>2, <3>5
      <4>2. k \in DOMAIN memory /\ memory[k] = D!Content(p, request.lba + k)
          BY <1>1, <3>1, <4>1 DEF Steps, Brought
      <4> QED BY <3>1, <3>3, <3>5, <4>2 DEF D!Put
    <3> QED BY <3>4, <3>5
  <2>7. Called'
      BY <1>1, <1>2, <2>1, StillStarted DEF Steps, Called, InCall
  <2>8. Found'
      BY <1>1, <1>2, <2>1, <2>3, FoundCalls DEF Probes, InCall
  <2> QED BY <2>4, <2>5, <2>6, <2>7, <2>8 DEF Steps
<1>4. CASE status[p] # "drq"
  <2>1. /\ UNCHANGED <<memory, sent, status, job>> /\ ide' = "returned"
        /\ result' # 0
      BY <1>4 DEF D!ReadSector
  <2>2. zero \/ failed
      BY <1>1, <1>4, InStepWith
  <2>3. Wired'
      BY <1>1, <1>2, <2>1 DEF Wired
  <2>4. Found'
      BY <1>1, <1>2, <2>1, <2>3, FoundCalls DEF Probes, InCall
  <2>5. Called'
      BY <1>1, <1>2, <2>1 DEF Steps, Called, InCall
  <2>6. Granted'
      BY <1>1, <2>1, StillGranted DEF Steps
  <2>7. InTurn' /\ Brought'
      BY <1>1, <2>2 DEF InTurn, Brought, D!Clean
  <2> QED BY <2>4, <2>5, <2>6, <2>7 DEF Steps
<1> QED BY <1>3, <1>4

\* When all sectors went over, the drive of the call is busy with none left, or
\* done.
LEMMA AllSent ==
    ASSUME Steps, ide = "sector", sent = request.nb_sects, ~zero, ~failed
    PROVE  /\ D!drive_ = Position(D!device)
           /\ status[Position(D!device)] \in {"idle", "busy"} /\ Quiet(Position(D!device))
<1> PICK p : p = Position(D!device)
    OBVIOUS
<1>1. Together
    BY DEF Steps, InTurn
<1>2. Found /\ Started /\ sent \in Nat
    BY DEF Steps, Called, InCall
<1>3. status[p] # "idle" => job[p].left = 0
    BY <1>1, <1>2 DEF Together
<1>4. status[p] \in {"idle", "busy"}
    BY <1>1, <1>3 DEF Together
<1>5. D!drive_ = p /\ ByDrive(p) = p
    BY <1>1, <1>2, Driven DEF Together
<1>6. status[p] = "busy" => job[p].op \in {"read", "write", "flush"}
    BY <1>1 DEF Together, D!Direction
<1> QED BY <1>3, <1>4, <1>5, <1>6 DEF Quiet

\* The flush finds the drive done, or at the last sector.
LEMMA StepsFlush == Steps /\ D!Flush => Steps'
<1> SUFFICES ASSUME Steps, D!Flush PROVE Steps'
    OBVIOUS
<1> PICK p : p = D!drive_
    OBVIOUS
<1>1. /\ UNCHANGED <<kind, disk, ports, ide_devices, probed, request, sent, memory, result,
                     compiled, zero, failed, targets>>
      /\ ide = "sector" /\ ide' = "flushed" /\ sent = request.nb_sects
      /\ D!Command(p, "flush", 0, 0)
    BY DEF D!Flush, D!caller, D!history
<1>2. Found /\ Started /\ Wired /\ p \in 0..3
    BY <1>1, Driven DEF Steps, Found, Called, InCall
<1>3. /\ Others(p) /\ Typed
      /\ status[p] \in {"none", "busy", "drq"} => status'[p] = status[p] /\ job'[p] = job[p]
      /\ status[p] \notin {"none", "busy", "drq"} =>
             /\ status'[p] = "busy"
             /\ job'[p] = [op |-> "flush", at |-> 0, left |-> 0]
  <2>1. "flush" \in Ops /\ 0 \in Int /\ 0 \in Nat
      BY DEF Ops
  <2> QED BY <1>1, <1>2, <2>1, Commanded
<1>4. Wired'
    BY <1>1, <1>2, <1>3, StillWired
<1>5. Found'
    BY <1>1, <1>2, <1>4, FoundCalls DEF Probes, InCall
<1>6. Called'
    BY <1>1, <1>2, StillStarted DEF Steps, Called, InCall
<1>7. Granted'
  <2>1. \A q \in 0..3 : \/ job'[q].op # "write"
                        \/ job'[q] = job[q] /\ (status'[q] = "drq" => status[q] = "drq" \/ job[q].left > 0)
      BY <1>3 DEF Others
  <2> QED BY <1>1, <2>1, StillGranted DEF Steps
<1>8. D!device' = D!device /\ Position(D!device)' = Position(D!device) /\ D!drive_' = D!drive_
    BY <1>1 DEF D!device, D!drive_, Position
<1>9. InTurn'
  <2> SUFFICES ASSUME ~zero, ~failed PROVE InTurn'
      BY <1>1 DEF InTurn
  <2>1. p = Position(D!device) /\ status[p] \in {"idle", "busy"} /\ Quiet(p)
      BY <1>1, AllSent
  <2>2. Quiet(p)'
    <3>1. CASE status[p] = "busy"
        BY <1>1, <1>2, <1>3, <2>1, <3>1, StillQuiet
    <3>2. CASE status[p] = "idle"
      <4>1. ByDrive(p) = p
          BY <1>2, <2>1, Driven
      <4> QED BY <1>1, <1>3, <3>2, <4>1 DEF Quiet, ByDrive
    <3> QED BY <2>1, <3>1, <3>2
  <2>3. ASSUME NEW q \in 0..3, kind[q] = "ATA", q # p PROVE Quiet(q)'
    <3>1. Quiet(q)
        BY <1>1, <2>1, <2>3 DEF Steps, InTurn, Probes
    <3> QED BY <1>1, <1>3, <2>3, <3>1, StillQuiet DEF Others
  <2> QED BY <1>1, <1>8, <2>1, <2>2, <2>3 DEF InTurn, Probes
<1>10. Brought'
  <2>1. D!Clean' <=> D!Clean
      BY <1>1 DEF D!Clean, D!Addressable
  <2> QED BY <1>1, <1>8, <2>1 DEF Steps, Brought, D!Content, D!Direction
<1> QED BY <1>5, <1>6, <1>7, <1>9, <1>10 DEF Steps

\* A call that comes to its end.
LEMMA StepsEnd == Steps /\ (D!Flushed \/ D!ReadDone) => Steps'
<1> SUFFICES ASSUME Steps, D!Flushed \/ D!ReadDone PROVE Steps'
    OBVIOUS
<1>1. /\ UNCHANGED <<kind, disk, status, job, ports, ide_devices, probed, request, sent,
                     memory, result, compiled, zero, failed, targets>>
      /\ ide' = "returned" /\ ide \in {"sector", "flushed"}
      /\ ide = "sector" => sent = request.nb_sects
    BY DEF D!Flushed, D!ReadDone, D!hardware, D!caller, D!history
<1>2. Found /\ Started /\ Wired
    BY <1>1 DEF Steps, Found, Called, InCall
<1>3. Wired'
    BY <1>1, <1>2 DEF Wired
<1>4. Found'
    BY <1>1, <1>2, <1>3, FoundCalls DEF Probes, InCall
<1>5. Called'
    BY <1>1, <1>2, StillStarted DEF Steps, Called, InCall
<1>6. Granted'
    BY <1>1, StillGranted DEF Steps
<1>7. ~zero /\ ~failed => sent = request.nb_sects
    BY <1>1 DEF Steps, InTurn
<1>8. InTurn'
  <2> SUFFICES ASSUME ~zero, ~failed, NEW q \in 0..3, kind[q] = "ATA" PROVE Quiet(q)'
      BY <1>1 DEF InTurn, Probes
  <2>1. Quiet(q)
    <3>1. CASE ide = "sector" /\ q = Position(D!device)
        BY <1>1, <3>1, AllSent
    <3>2. CASE ~(ide = "sector" /\ q = Position(D!device))
        BY <1>1, <3>2 DEF Steps, InTurn, Probes
    <3> QED BY <3>1, <3>2
  <2> QED BY <1>1, <2>1, StillQuiet
<1>9. Brought'
  <2>1. D!Clean' <=> D!Clean
      BY <1>1 DEF D!Clean, D!Addressable
  <2>2. D!device' = D!device /\ Position(D!device)' = Position(D!device)
      BY <1>1 DEF D!device, Position
  <2> QED BY <1>1, <1>7, <2>1, <2>2 DEF Steps, Brought, D!Content, D!Direction, D!Clean
<1> QED BY <1>4, <1>5, <1>6, <1>8, <1>9 DEF Steps

\* The caller takes the result.
LEMMA StepsReturn == Steps /\ D!Return => Steps'
<1> SUFFICES ASSUME Steps, D!Return PROVE Steps'
    OBVIOUS
<1>1. /\ UNCHANGED <<kind, disk, status, job, ports, ide_devices, probed, zero, failed, targets>>
      /\ ide = "returned" /\ ide' = "idle" /\ sent' = 0
    BY DEF D!Return, D!hardware, D!history
<1>2. Wired'
    BY <1>1 DEF Steps, Found, Wired
<1>3. Found'
    BY <1>1, <1>2, FoundCalls DEF Steps, Probes, InCall
<1>4. Called'
    BY <1>1 DEF Steps, Called, InCall
<1>5. Granted'
    BY <1>1, StillGranted DEF Steps
<1>6. InTurn'
  <2> SUFFICES ASSUME ~zero, ~failed, NEW q \in 0..3, kind[q] = "ATA" PROVE Quiet(q)'
      BY <1>1 DEF InTurn, Probes
  <2>1. Quiet(q)
      BY <1>1 DEF Steps, InTurn, Probes
  <2> QED BY <1>1, <2>1, StillQuiet
<1>7. Brought'
    BY <1>1 DEF Brought
<1> QED BY <1>3, <1>4, <1>5, <1>6, <1>7 DEF Steps
-----------------------------------------------------------------------------
(* Throughout.                                                             *)

\* At first no drive was asked for anything.
LEMMA StepsInit == D!Init => Steps
<1> SUFFICES ASSUME D!Init PROVE Steps
    OBVIOUS
<1>1. /\ disk = [p \in 0..3 |-> <<>>] /\ targets = [p \in 0..3 |-> {}]
      /\ job = [p \in 0..3 |-> D!NoJob] /\ ide = "probe" /\ probed = 0 /\ sent = 0
    BY DEF D!Init, D!AllPositions
<1>2. Called
    BY <1>1 DEF Called, InCall
<1>3. Granted
    BY <1>1 DEF Granted, D!NoJob
<1>4. InTurn
    BY <1>1 DEF InTurn, Probes
<1>5. Brought
    BY <1>1 DEF Brought
<1> QED BY <1>2, <1>3, <1>4, <1>5, FoundInit DEF Steps

\* Every step of the disk keeps it, and so does a step of another driver.
LEMMA StepsNext == Steps /\ [D!Next]_diskVars => Steps'
<1> SUFFICES ASSUME Steps, [D!Next]_diskVars PROVE Steps'
    OBVIOUS
<1>1. CASE D!Probing
    BY <1>1, StepsProbing
<1>2. CASE D!Access
    BY <1>2, StepsIssue, StepsWriteSector, StepsFlush, StepsReadSector, StepsEnd, StepsReturn
       DEF D!Access
<1>3. CASE D!Calls
    BY <1>3, StepsBegin DEF D!Calls
<1>4. CASE \E p \in 0..3 : D!DriveReady(p)
    BY <1>4, StepsReady
<1>5. CASE UNCHANGED diskVars
  <2>1. UNCHANGED <<kind, disk, status, job, ports, ide_devices, ide, probed, request, sent,
                    memory, result, compiled, zero, failed, targets>>
      BY <1>5 DEF diskVars
  <2>2. Wired' /\ Probed'
      BY <2>1 DEF Steps, Found, Wired, Probed, ByDrive
  <2>3. Listed'
      BY <2>1 DEF Steps, Found, Listed, Position
  <2>4. D!device' = D!device /\ Position(D!device)' = Position(D!device) /\ D!drive_' = D!drive_
      BY <2>1 DEF D!device, Position, D!drive_
  <2>5. Called'
    <3>1. Started => Started'
        BY <2>1, StillStarted
    <3> QED BY <2>1, <2>4, <3>1 DEF Steps, Called
  <2>6. Granted'
      BY <2>1, StillGranted DEF Steps
  <2>7. InTurn'
    <3>1. Together => Together'
        BY <2>1, <2>4 DEF Together, D!Addressable, D!Direction
    <3>2. \A p \in 0..3 : Quiet(p) => Quiet(p)'
        BY <2>1, StillQuiet
    <3> QED BY <2>1, <2>4, <3>1, <3>2 DEF Steps, InTurn
  <2>8. Brought'
    <3>1. D!Clean' <=> D!Clean
        BY <2>1 DEF D!Clean, D!Addressable
    <3> QED BY <2>1, <2>4, <3>1 DEF Steps, Brought, D!Content, D!Direction
  <2> QED BY <2>2, <2>3, <2>5, <2>6, <2>7, <2>8 DEF Steps, Found
<1> QED BY <1>1, <1>2, <1>3, <1>4, <1>5 DEF D!Next, D!AllPositions

\* The disk's invariant holds throughout, whichever driver runs.
LEMMA StepsAlways == Spec => []Steps
<1>1. Init => Steps
    BY StepsInit DEF Init
<1>2. Steps /\ [Next]_vars => Steps'
  <2>1. [Next]_vars => [D!Next]_diskVars
      BY DEF Next, Alone, vars
  <2> QED BY <2>1, StepsNext
<1> QED BY <1>1, <1>2, PTL DEF Spec

\* init_IDE lists every drive there is, if none failed, in order and each at its
\* own position, as what it is and never larger than it is, for any drives of
\* any size (ide.c:281-371).
THEOREM AllDrivesFound == Spec => []DrivesFound
<1>1. Steps => DrivesFound
  <2> SUFFICES ASSUME Steps PROVE D!DrivesFound
      BY DEF DrivesFound
  <2>1. DOMAIN ide_devices = 1..Len(ide_devices)
      BY DEF Steps, Found, Listed
  <2>2. \A k \in DOMAIN ide_devices :
            /\ ide_devices[k].channel \in 0..1 /\ ide_devices[k].drive \in 0..1
            /\ ide_devices[k].type = kind[Position(ide_devices[k])]
            /\ ide_devices[k].type # "none" /\ ide_devices[k].size <= DiskSize
      BY <2>1 DEF Steps, Found, Listed
  <2>3. \A k, m \in DOMAIN ide_devices :
            k < m => Position(ide_devices[k]) < Position(ide_devices[m])
      BY <2>1 DEF Steps, Found, Listed
  <2>4. ASSUME ide \notin Probes, ~failed
        PROVE  {Position(ide_devices[k]) : k \in DOMAIN ide_devices}
                   = {p \in 0..3 : kind[p] # "none"}
    <3>1. \A k \in DOMAIN ide_devices :
              Position(ide_devices[k]) \in 0..3 /\ kind[Position(ide_devices[k])] # "none"
        BY <2>2 DEF Position
    <3>2. probed = 4
        BY <2>4 DEF Steps, Found, Probed
    <3>3. \A p \in 0..3 : kind[p] # "none" =>
              \E k \in DOMAIN ide_devices : Position(ide_devices[k]) = p
      <4>1. \A p \in 0..(probed - 1) : kind[p] # "none" =>
                \E k \in DOMAIN ide_devices : Position(ide_devices[k]) = p
          BY <2>1, <2>4 DEF Steps, Found, Listed
      <4> QED BY <3>2, <4>1
    <3> QED BY <3>1, <3>3
  <2> QED BY <2>2, <2>3, <2>4 DEF D!DrivesFound, D!AllPositions, Probes, Position
<1> QED BY <1>1, StepsAlways, PTL

\* Until a call passes a count of 0, no call in any order changes a sector that
\* no write to that drive was asked for, whether drives fail or not: a write of
\* a known range is one the registers can say (ide.c:391-589).
THEOREM NothingElseWritten == Spec => []OnlyAsked
<1>1. Steps => OnlyAsked
    BY DEF Steps, Granted, OnlyAsked, D!OnlyAsked, D!AllPositions
<1> QED BY <1>1, StepsAlways, PTL

\* A call of sectors that returns 0 has brought each of them to where it was
\* asked for, or from there to its place in memory, for any counts and sector
\* numbers below the last cylinder and any drives that do not fail
\* (ide.c:391-525).
THEOREM SectorsArrive == Spec => []Transferred
<1>1. Steps => Transferred
  <2> SUFFICES ASSUME Steps, ide = "returned", result = 0, D!device.type = "ATA", D!Clean,
                      NEW k \in 0..(request.nb_sects - 1)
               PROVE  IF request.fn = "ATA_READ"
                      THEN request.lba + k < DiskSize =>
                               memory[k] = D!Content(Position(D!device), request.lba + k)
                      ELSE D!Content(Position(D!device), request.lba + k) = k
      BY DEF Transferred, D!Transferred, Position
  <2>1. k \in 0..(sent - 1) /\ sent = request.nb_sects
      BY DEF Steps, Brought
  <2>2. IF D!Direction(request.fn) = "write"
        THEN D!Content(Position(D!device), request.lba + k) = k
        ELSE memory[k] = D!Content(Position(D!device), request.lba + k)
      BY <2>1 DEF Steps, Brought
  <2> QED BY <2>2 DEF D!Direction
<1> QED BY <1>1, StepsAlways, PTL


-----------------------------------------------------------------------------
(* The console.  First what its functions make of a state.                 *)

W == VGA_TEXT_WIDTH
H == VGA_TEXT_HEIGHT

\* The state has its fields, of the width the code gives them.
Fields(c) ==
    {"vga_buffer", "vga_index", "x", "y", "page", "temp_pages"} \subseteq DOMAIN c
Pages(pages) == \A n \in DOMAIN pages : DOMAIN pages[n] \subseteq 0..(W * H - 1)
Sound(c) ==
    /\ Fields(c)
    /\ DOMAIN c.vga_buffer \subseteq Nat /\ c.vga_index \in Nat
    /\ c.x \in 0..(CursorLimit - 1) /\ c.y \in 0..H
    /\ c.page \in Nat /\ Pages(c.temp_pages)

\* The index is `ahead' cells ahead of the cursor.
Ahead(c, ahead) == c.vga_index = W * c.y + c.x + ahead

\* The column of a cell is its distance from the beginning of the line.
LEMMA Column ==
    ASSUME NEW y \in Nat, NEW x \in 0..(W - 1)
    PROVE  (W * y + x) % W = x
    BY ConsoleAssumption, SMTT(30) DEF W

\* A store adds its place to what is stored.
LEMMA PutDomain ==
    ASSUME NEW n, NEW value, NEW old
    PROVE  DOMAIN C!Put(n, value, old) = DOMAIN old \cup {n}
    BY DEF C!Put, C!Over

\* A character moves index and cursor on by one cell; the cursor may wrap.
LEMMA CharacterSound ==
    ASSUME NEW c, Sound(c), NEW char
    PROVE  LET d == C!Character(c, char)
           IN  /\ Sound(d)
               /\ d.vga_index = c.vga_index + 1 /\ d.y = c.y
               /\ d.x = IF c.x + 1 = CursorLimit THEN 0 ELSE c.x + 1
               /\ d.page = c.page /\ d.temp_pages = c.temp_pages
<1> DEFINE d == C!Cell(c, char)
           e == C!Character(c, char)
<1>1. /\ Fields(d) /\ d.vga_index = c.vga_index + 1 /\ d.x = c.x /\ d.y = c.y
      /\ d.page = c.page /\ d.temp_pages = c.temp_pages
      /\ d.vga_buffer = C!Put(c.vga_index, char, c.vga_buffer)
    BY DEF Sound, Fields, C!Cell
<1>2. /\ Fields(e) /\ e.vga_index = d.vga_index /\ e.y = d.y
      /\ e.page = d.page /\ e.temp_pages = d.temp_pages /\ e.vga_buffer = d.vga_buffer
      /\ e.x = C!StepX(d.x)
    BY <1>1 DEF Fields, C!Character
<1> HIDE DEF d, e
<1>3. DOMAIN e.vga_buffer = DOMAIN c.vga_buffer \cup {c.vga_index}
  <2>1. DOMAIN C!Put(c.vga_index, char, c.vga_buffer) = DOMAIN c.vga_buffer \cup {c.vga_index}
    BY PutDomain
  <2> QED BY <1>1, <1>2, <2>1
<1>4. e.x = IF c.x + 1 = CursorLimit THEN 0 ELSE c.x + 1
    BY <1>1, <1>2, ConsoleAssumption DEF C!StepX, Sound
<1>5. e.x \in 0..(CursorLimit - 1)
    BY <1>4, ConsoleAssumption DEF Sound
<1>6. Sound(e)
    BY <1>1, <1>2, <1>3, <1>5 DEF Sound
<1> QED BY <1>1, <1>2, <1>4, <1>6 DEF e

\* Clearing puts both back to the beginning.
LEMMA ClearSound ==
    ASSUME NEW c, Sound(c)
    PROVE  LET d == C!clear_console(c)
           IN  /\ Sound(d)
               /\ d.vga_index = 0 /\ d.x = 0 /\ d.y = 0
               /\ d.page = c.page /\ d.temp_pages = c.temp_pages
               /\ DOMAIN d.vga_buffer \cap 0..(W * H - 1) = {}
<1> DEFINE d == C!clear_console(c)
<1>1. /\ Fields(d) /\ d.vga_index = 0 /\ d.x = 0 /\ d.y = 0
      /\ d.page = c.page /\ d.temp_pages = c.temp_pages
    BY DEF Sound, Fields, C!clear_console
<1>2. DOMAIN d.vga_buffer = DOMAIN c.vga_buffer \ 0..(W * H - 1)
    BY DEF Sound, Fields, C!clear_console, C!Total, C!W, W, H
<1> HIDE DEF d
<1>3. Sound(d)
    BY <1>1, <1>2, ConsoleAssumption DEF Sound, H
<1> QED BY <1>1, <1>2, <1>3 DEF d

\* A page is as large as the screen.
LEMMA SaveSound ==
    ASSUME NEW c, Sound(c)
    PROVE  LET d == C!SavePage(c)
           IN  /\ Sound(d)
               /\ d.vga_buffer = c.vga_buffer /\ d.vga_index = c.vga_index
               /\ d.x = c.x /\ d.y = c.y /\ d.page = c.page
               /\ d.temp_pages = C!Put(c.page, C!Shown(c.vga_buffer), c.temp_pages)
<1> DEFINE d == C!SavePage(c)
           pages == C!Put(c.page, C!Shown(c.vga_buffer), c.temp_pages)
<1>1. /\ Fields(d)
      /\ d.vga_buffer = c.vga_buffer /\ d.vga_index = c.vga_index
      /\ d.x = c.x /\ d.y = c.y /\ d.page = c.page /\ d.temp_pages = pages
    BY DEF Sound, Fields, C!SavePage
<1>2. DOMAIN C!Shown(c.vga_buffer) \subseteq 0..(W * H - 1)
    BY DEF C!Shown, C!Total, C!W, W, H
<1>3. Pages(pages)
  <2> SUFFICES ASSUME NEW n \in DOMAIN pages
               PROVE  DOMAIN pages[n] \subseteq 0..(W * H - 1)
      BY DEF Pages
  <2>1. pages[n] = IF n = c.page THEN C!Shown(c.vga_buffer) ELSE c.temp_pages[n]
      BY DEF C!Put, C!Over
  <2>2. n # c.page => n \in DOMAIN c.temp_pages
      BY DEF C!Put, C!Over
  <2> QED BY <1>2, <2>1, <2>2 DEF Sound, Pages
<1> QED BY <1>1, <1>3 DEF Sound

\* A new line puts the cursor at the beginning of the next one, or of the
\* screen, and the index with it, if the line was not overlong.
LEMMA NextLineSound ==
    ASSUME NEW c, Sound(c)
    PROVE  LET d == C!NextLine(c)
           IN  /\ Sound(d) /\ d.x = 0
               /\ d.temp_pages = c.temp_pages
               /\ d.page = IF c.y >= H THEN c.page + 1 ELSE c.page
               /\ Ahead(c, 0) /\ c.x < W => Ahead(d, 0)
<1> DEFINE d == C!NextLine(c)
<1>1. CASE c.y >= H
  <2> DEFINE e == [c EXCEPT !.page = @ + 1]
  <2>1. Sound(e) /\ e.page = c.page + 1 /\ e.temp_pages = c.temp_pages
      BY DEF Sound, Fields
  <2> HIDE DEF e
  <2>2. d = C!clear_console(e)
      BY <1>1 DEF C!NextLine, H, e
  <2>3. Sound(d) /\ d.vga_index = 0 /\ d.x = 0 /\ d.y = 0
        /\ d.page = e.page /\ d.temp_pages = e.temp_pages
      BY <2>1, <2>2, ClearSound
  <2> QED BY <1>1, <2>1, <2>3, ConsoleAssumption DEF Ahead, W
<1>2. CASE c.y < H
  <2> DEFINE to == c.vga_index + W - (c.vga_index % W)
  <2>1. /\ Fields(d) /\ d.vga_buffer = c.vga_buffer /\ d.vga_index = to
        /\ d.x = 0 /\ d.y = c.y + 1 /\ d.page = c.page /\ d.temp_pages = c.temp_pages
      BY <1>2, ConsoleAssumption DEF Sound, Fields, C!NextLine, C!W, W, H
  <2>2. c.vga_index % W \in 0..(W - 1) /\ to \in Nat
      BY ConsoleAssumption DEF Sound, W
  <2>3. Sound(d)
      BY <1>2, <2>1, <2>2, ConsoleAssumption DEF Sound, H
  <2>4. ASSUME Ahead(c, 0), c.x < W PROVE Ahead(d, 0)
    <3>1. c.vga_index % W = c.x
        BY <2>4, Column, ConsoleAssumption DEF Ahead, Sound, W, H
    <3>2. W * (c.y + 1) = W * c.y + W
        BY ConsoleAssumption DEF Sound, W, H
    <3> QED BY <2>1, <2>4, <3>1, <3>2, ConsoleAssumption DEF Ahead, Sound, W, H
  <2>5. d.page = IF c.y >= H THEN c.page + 1 ELSE c.page
      BY <1>2, <2>1, ConsoleAssumption DEF Sound, H
  <2> QED BY <2>1, <2>3, <2>4, <2>5
<1> QED BY <1>1, <1>2, ConsoleAssumption DEF Sound, H

\* What a handler prints in one piece.
LEMMA PutcharSound ==
    ASSUME NEW c, Sound(c), NEW char
    PROVE  LET d == C!console_putchar(c, char)
           IN  /\ Sound(d)
               /\ char = "newline" =>
                    /\ d.x = 0
                    /\ Ahead(c, 0) /\ c.x < W => Ahead(d, 0)
                    /\ d.temp_pages = C!Put(c.page, C!Shown(c.vga_buffer), c.temp_pages)
                    /\ d.page = IF c.y >= H THEN c.page + 1 ELSE c.page
               /\ char # "newline" =>
                    /\ d.page = c.page /\ d.temp_pages = c.temp_pages /\ d.y = c.y
                    /\ \A n \in 0..1 : Ahead(c, n) => Ahead(d, n) \/ d.x < c.x - W
               /\ char \notin {"newline", "tab"} =>
                    d.x = IF c.x + 1 = CursorLimit THEN 0 ELSE c.x + 1
<1> DEFINE d == C!console_putchar(c, char)
<1>1. CASE char = "newline"
  <2> DEFINE e == C!SavePage(c)
  <2>1. d = C!NextLine(e)
      BY <1>1 DEF C!console_putchar
  <2>2. Sound(e) /\ (Ahead(c, 0) => Ahead(e, 0))
        /\ e.x = c.x /\ e.y = c.y /\ e.page = c.page
        /\ e.temp_pages = C!Put(c.page, C!Shown(c.vga_buffer), c.temp_pages)
      BY SaveSound DEF Ahead
  <2> HIDE DEF e, d
  <2>3. /\ Sound(d) /\ d.x = 0 /\ d.temp_pages = e.temp_pages
        /\ d.page = IF e.y >= H THEN e.page + 1 ELSE e.page
        /\ Ahead(e, 0) /\ e.x < W => Ahead(d, 0)
      BY <2>1, <2>2, NextLineSound
  <2> QED BY <1>1, <2>2, <2>3 DEF d
<1>2. CASE char = "tab"
  <2> DEFINE e == C!Space(c)
             f == C!Space(e)
             g == C!Space(f)
  <2>0. d = C!Space(g)
      BY <1>2 DEF C!console_putchar
  <2>1. /\ Sound(e) /\ e.vga_index = c.vga_index + 1 /\ e.y = c.y
        /\ e.x = IF c.x + 1 = CursorLimit THEN 0 ELSE c.x + 1
        /\ e.page = c.page /\ e.temp_pages = c.temp_pages
      BY CharacterSound DEF C!Space
  <2> HIDE DEF e
  <2>2. /\ Sound(f) /\ f.vga_index = e.vga_index + 1 /\ f.y = e.y
        /\ f.x = IF e.x + 1 = CursorLimit THEN 0 ELSE e.x + 1
        /\ f.page = e.page /\ f.temp_pages = e.temp_pages
      BY <2>1, CharacterSound DEF C!Space
  <2> HIDE DEF f
  <2>3. /\ Sound(g) /\ g.vga_index = f.vga_index + 1 /\ g.y = f.y
        /\ g.x = IF f.x + 1 = CursorLimit THEN 0 ELSE f.x + 1
        /\ g.page = f.page /\ g.temp_pages = f.temp_pages
      BY <2>2, CharacterSound DEF C!Space
  <2> HIDE DEF g, d
  <2>4. /\ Sound(d) /\ d.vga_index = g.vga_index + 1 /\ d.y = g.y
        /\ d.x = IF g.x + 1 = CursorLimit THEN 0 ELSE g.x + 1
        /\ d.page = g.page /\ d.temp_pages = g.temp_pages
      BY <2>0, <2>3, CharacterSound DEF C!Space
  <2>5. /\ d.y = c.y /\ d.vga_index = c.vga_index + 4
        /\ d.x = c.x + 4 \/ d.x = c.x + 4 - CursorLimit
      BY <2>1, <2>2, <2>3, <2>4, ConsoleAssumption DEF Sound, H
  <2>6. \A n \in 0..1 : Ahead(c, n) => Ahead(d, n) \/ d.x < c.x - W
      BY <2>1, <2>4, <2>5, ConsoleAssumption DEF Ahead, Sound, W, H
  <2> QED BY <1>2, <2>1, <2>2, <2>3, <2>4, <2>5, <2>6 DEF d
<1>3. CASE char \notin {"newline", "tab"}
  <2>1. d = C!Character(c, char)
      BY <1>3 DEF C!console_putchar
  <2> HIDE DEF d
  <2>2. /\ Sound(d) /\ d.vga_index = c.vga_index + 1 /\ d.y = c.y
        /\ d.x = IF c.x + 1 = CursorLimit THEN 0 ELSE c.x + 1
        /\ d.page = c.page /\ d.temp_pages = c.temp_pages
      BY <2>1, CharacterSound
  <2>3. \A n \in 0..1 : Ahead(c, n) => Ahead(d, n) \/ d.x < c.x - W
      BY <2>2, ConsoleAssumption DEF Ahead, Sound, W, H
  <2> QED BY <1>3, <2>2, <2>3 DEF d
<1> QED BY <1>1, <1>2, <1>3

\* console_gotoxy, to a cell of the screen or just beyond it.
LEMMA GotoSound ==
    ASSUME NEW c, Sound(c), NEW x \in 0..W, NEW y \in 0..H
    PROVE  LET d == C!console_gotoxy(c, x, y)
           IN  /\ Sound(d) /\ Ahead(d, 0) /\ d.x = x /\ d.y = y
               /\ d.page = c.page /\ d.temp_pages = c.temp_pages
<1> DEFINE d == C!console_gotoxy(c, x, y)
<1>1. x % CursorLimit = x /\ y % CursorLimit = y /\ W * y + x \in Nat
    BY ConsoleAssumption DEF W, H
<1>2. /\ Fields(d) /\ d.vga_buffer = c.vga_buffer /\ d.vga_index = W * y + x
      /\ d.x = x % CursorLimit /\ d.y = y % CursorLimit
      /\ d.page = c.page /\ d.temp_pages = c.temp_pages
    BY DEF Sound, Fields, C!console_gotoxy, C!W, W
<1> HIDE DEF d
<1>3. Ahead(d, 0)
    BY <1>1, <1>2 DEF Ahead
<1>4. Sound(d)
    BY <1>1, <1>2, ConsoleAssumption DEF Sound, W, H
<1> QED BY <1>1, <1>2, <1>3, <1>4 DEF d

\* Back by one cell; the cursor goes to the end of the line above.
LEMMA BackSound ==
    ASSUME NEW c, Sound(c), c.vga_index > 0
    PROVE  LET d == C!Back(c)
           IN  /\ Sound(d) /\ (Ahead(c, 0) => Ahead(d, 0))
               /\ d.page = c.page /\ d.temp_pages = c.temp_pages
<1> DEFINE d == C!Back(c)
<1>1. /\ Fields(d) /\ d.vga_index = c.vga_index - 1
      /\ d.x = IF c.x > 0 THEN c.x - 1 ELSE IF c.y > 0 THEN W - 1 ELSE W
      /\ d.y = IF c.x = 0 /\ c.y > 0 THEN c.y - 1 ELSE c.y
      /\ d.page = c.page /\ d.temp_pages = c.temp_pages
    BY DEF Sound, Fields, C!Back, C!W, W
<1>2. DOMAIN d.vga_buffer \subseteq DOMAIN c.vga_buffer
    BY DEF Sound, Fields, C!Back
<1> HIDE DEF d
<1>3. Sound(d)
    BY <1>1, <1>2, ConsoleAssumption DEF Sound, W, H
<1>4. ASSUME Ahead(c, 0) PROVE Ahead(d, 0)
  <2>1. c.y \in Nat /\ c.x \in Nat /\ W \in Nat
      BY ConsoleAssumption DEF Sound, W, H
  <2>2. W * (c.y - 1) = W * c.y - W
      BY <2>1
  <2> QED BY <1>1, <1>4, <2>1, <2>2 DEF Ahead
<1> QED BY <1>1, <1>3, <1>4 DEF d

\* The two that erase.
LEMMA UngetSound ==
    ASSUME NEW c, Sound(c), NEW d,
           d = C!console_ungetchar(c) \/ d = C!console_ungetchar_bound(c, 1)
    PROVE  /\ Sound(d) /\ (Ahead(c, 0) => Ahead(d, 0))
           /\ d.page = c.page /\ d.temp_pages = c.temp_pages
<1>1. CASE d = C!Erase(c)
  <2>1. /\ Fields(d) /\ d.vga_index = c.vga_index /\ d.x = c.x /\ d.y = c.y
        /\ d.page = c.page /\ d.temp_pages = c.temp_pages
        /\ DOMAIN d.vga_buffer \subseteq DOMAIN c.vga_buffer
      BY <1>1 DEF Sound, Fields, C!Erase
  <2> QED BY <2>1 DEF Sound, Ahead
<1>2. CASE c.vga_index > 0 /\ d = C!Back(c)
    BY <1>2, BackSound
<1>3. CASE /\ c.vga_index % W > 1 /\ c.x < 1
           /\ d = C!Back([c EXCEPT !.x = 0])
  <2> DEFINE e == [c EXCEPT !.x = 0]
  <2>1. c.x = 0 /\ c.vga_index > 0
      BY <1>3, ConsoleAssumption DEF Sound, W
  <2>2. /\ Fields(e) /\ e.vga_buffer = c.vga_buffer /\ e.vga_index = c.vga_index /\ e.x = c.x
        /\ e.y = c.y /\ e.page = c.page /\ e.temp_pages = c.temp_pages
      BY <2>1 DEF Sound, Fields
  <2> HIDE DEF e
  <2>3. Sound(e) /\ (Ahead(c, 0) => Ahead(e, 0))
      BY <2>2 DEF Sound, Ahead
  <2>4. d = C!Back(e)
      BY <1>3 DEF e
  <2> QED BY <2>1, <2>2, <2>3, <2>4, BackSound
<1>4. \/ d = C!Erase(c)
      \/ c.vga_index > 0 /\ d = C!Back(c)
      \/ c.vga_index % W > 1 /\ c.x < 1 /\ d = C!Back([c EXCEPT !.x = 0])
  <2>1. c.vga_index % W > 1 => c.vga_index > 0
      BY ConsoleAssumption DEF Sound, W
  <2>2. c.x \in Nat
      BY DEF Sound
  <2> QED BY <2>1, <2>2 DEF C!console_ungetchar, C!console_ungetchar_bound, C!W, W
<1> QED BY <1>1, <1>2, <1>3, <1>4

\* Scrolling shows another page and leaves the cursor where it is.
LEMMA ScrollSound ==
    ASSUME NEW c, Sound(c), NEW up \in BOOLEAN
    PROVE  LET d == C!console_scroll(c, up) IN Sound(d) /\ (Ahead(c, 0) => Ahead(d, 0))
<1> DEFINE d == C!console_scroll(c, up)
           e == C!clear_console(c)
           page == C!ScrollPage(c.page, up)
           shown == IF page \in DOMAIN c.temp_pages THEN c.temp_pages[page] ELSE C!Blank
<1>1. page \in Nat
    BY ConsoleAssumption DEF C!ScrollPage, Sound
<1>2. DOMAIN shown \subseteq Nat
    BY DEF C!Blank, Sound, Pages
<1>3. Sound(e) /\ e.temp_pages = c.temp_pages
    BY ClearSound
<1>4. d = [e EXCEPT !.page = page, !.vga_index = c.vga_index, !.x = c.x, !.y = c.y,
                    !.vga_buffer = C!Over(shown, @)]
    BY DEF C!console_scroll
<1> HIDE DEF e, page, shown, d
<1>5. /\ Fields(d) /\ d.page = page /\ d.vga_index = c.vga_index /\ d.x = c.x /\ d.y = c.y
      /\ d.vga_buffer = C!Over(shown, e.vga_buffer) /\ d.temp_pages = e.temp_pages
    BY <1>3, <1>4 DEF Sound, Fields
<1>6. DOMAIN d.vga_buffer \subseteq Nat
    BY <1>2, <1>3, <1>5 DEF C!Over, Sound
<1>7. Sound(d) /\ (Ahead(c, 0) => Ahead(d, 0))
    BY <1>1, <1>3, <1>5, <1>6 DEF Sound, Ahead
<1> QED BY <1>7 DEF d

\* The pointer and the two lines below the position leave the cursor in step.
LEMMA MouseSound ==
    ASSUME NEW c, Sound(c), NEW x \in 0..W, NEW y \in 0..H
    PROVE  LET d == C!MouseDraws(c, x, y) IN Sound(d) /\ Ahead(d, 0)
<1> DEFINE p == C!console_putchar(C!console_gotoxy(C!clear_console(c), x, y), "X")
           q == C!console_gotoxy(p, 0, 0)
           line(e, char) == C!console_putchar(C!console_putchar(e, char), "newline")
<1>1. Sound(p)
  <2>1. Sound(C!clear_console(c))
      BY ClearSound
  <2>2. Sound(C!console_gotoxy(C!clear_console(c), x, y))
      BY <2>1, GotoSound
  <2> QED BY <2>2, PutcharSound
<1>2. Sound(q) /\ Ahead(q, 0) /\ q.x = 0
    BY <1>1, GotoSound, ConsoleAssumption DEF W, H
<1>3. ASSUME NEW e, Sound(e), Ahead(e, 0), e.x = 0, NEW char \in {"i", "b"}
      PROVE  Sound(line(e, char)) /\ Ahead(line(e, char), 0) /\ line(e, char).x = 0
  <2> DEFINE f == C!console_putchar(e, char)
  <2>1. /\ Sound(f) /\ f.x = 1
        /\ Ahead(f, 0) \/ f.x < e.x - W
      BY <1>3, PutcharSound, ConsoleAssumption DEF W
  <2>2. Ahead(f, 0) /\ f.x < W
      BY <1>3, <2>1, ConsoleAssumption DEF W
  <2> HIDE DEF f
  <2>3. LET d == C!console_putchar(f, "newline") IN Sound(d) /\ d.x = 0 /\ Ahead(d, 0)
      BY <2>1, <2>2, PutcharSound
  <2> QED BY <2>3 DEF f
<1> HIDE DEF p, q
<1>4. Sound(line(q, "i")) /\ Ahead(line(q, "i"), 0) /\ line(q, "i").x = 0
    BY <1>2, <1>3
<1>5. LET d == line(line(q, "i"), "b") IN Sound(d) /\ Ahead(d, 0)
    BY <1>3, <1>4
<1> QED BY <1>5 DEF C!MouseDraws, p, q

-----------------------------------------------------------------------------
(* The console's invariant.                                                *)

\* Index and cursor are together but for the character in progress, and what the
\* main flow has loaded is still there, if no handler printed inside one.
InLine ==
    ~overlong /\ ~torn =>
        /\ Ahead(con, IF putting \in {"stored", "x"} THEN 1 ELSE 0)
        /\ putting = "index" => loaded = con.vga_index
        /\ putting = "x" => loaded = con.x
\* The pages before the one in use are the screens cleared, and the one in use
\* is saved before its screen is cleared.
HasPage(c, n, screen) == n \in DOMAIN c.temp_pages /\ c.temp_pages[n] = screen
Saved ==
    ~torn /\ ~scrolled =>
        /\ con.page = Len(cleared)
        /\ \A k \in DOMAIN cleared : HasPage(con, k - 1, cleared[k])
        /\ putting = "newline" => HasPage(con, con.page, C!Shown(con.vga_buffer))
ConsoleInv ==
    /\ Sound(con) /\ loaded \in Nat
    /\ putting \in {"idle", "index", "stored", "x", "newline"}
    /\ putting \in {"index", "stored", "x"} => Head(text) # "newline"
    /\ \E S : cleared \in Seq(S)
    /\ InLine /\ Saved

\* Nothing is printed yet.
LEMMA ConsoleInit == C!Init => ConsoleInv
<1> SUFFICES ASSUME C!Init PROVE ConsoleInv
    OBVIOUS
<1>1. Sound(con)
    BY ConsoleAssumption DEF C!Init, C!Blank, Sound, Fields, Pages, H
<1>2. InLine
    BY ConsoleAssumption DEF C!Init, InLine, Ahead, W
<1>3. Saved
    BY DEF C!Init, Saved
<1>4. cleared \in Seq({}) /\ loaded \in Nat /\ putting = "idle"
    BY DEF C!Init
<1> QED BY <1>1, <1>2, <1>3, <1>4 DEF ConsoleInv

\* A screen more is cleared, or none.
LEMMA StillSequence ==
    ASSUME \E S : cleared \in Seq(S), NEW screen,
           cleared' \in {cleared, Append(cleared, screen)}
    PROVE  \E S : cleared' \in Seq(S)
<1>1. PICK S : cleared \in Seq(S)
    OBVIOUS
<1>2. cleared \in Seq(S \cup {screen})
    BY <1>1
<1>3. Append(cleared, screen) \in Seq(S \cup {screen})
    BY <1>2
<1> QED BY <1>1, <1>3

\* The page saved is there, and so are the others.
LEMMA PageSaved ==
    ASSUME NEW c, NEW d, NEW screen, d.temp_pages = C!Put(c.page, screen, c.temp_pages)
    PROVE  /\ HasPage(d, c.page, screen)
           /\ \A n, s : n # c.page /\ HasPage(c, n, s) => HasPage(d, n, s)
<1>1. HasPage(d, c.page, screen)
    BY DEF HasPage, C!Put, C!Over
<1>2. ASSUME NEW n, NEW s, n # c.page, HasPage(c, n, s) PROVE HasPage(d, n, s)
    BY <1>2 DEF HasPage, C!Put, C!Over
<1> QED BY <1>1, <1>2

\* The screen that a line at the bottom clears is the one that was saved.
LEMMA SavedAfter ==
    ASSUME ConsoleInv, ~torn, ~scrolled, NEW next, NEW screens,
           screens = IF con.y >= H THEN Append(cleared, C!Shown(con.vga_buffer)) ELSE cleared,
           next.page = IF con.y >= H THEN con.page + 1 ELSE con.page,
           \A n, s : n # con.page /\ HasPage(con, n, s) => HasPage(next, n, s),
           HasPage(next, con.page, C!Shown(con.vga_buffer))
    PROVE  /\ next.page = Len(screens)
           /\ \A k \in DOMAIN screens : HasPage(next, k - 1, screens[k])
<1>1. PICK S : cleared \in Seq(S)
    BY DEF ConsoleInv
<1>2. /\ con.page = Len(cleared) /\ con.page \in Nat
      /\ \A k \in 1..Len(cleared) : HasPage(con, k - 1, cleared[k])
    BY <1>1 DEF ConsoleInv, Saved, Sound
<1>3. \A k \in 1..Len(cleared) : HasPage(next, k - 1, cleared[k])
    BY <1>2
<1>4. CASE con.y >= H
  <2> DEFINE screen == C!Shown(con.vga_buffer)
  <2>0. cleared \in Seq(S \cup {screen}) /\ screen \in S \cup {screen}
      BY <1>1
  <2> HIDE DEF screen
  <2>1. /\ Len(Append(cleared, screen)) = Len(cleared) + 1
        /\ \A k \in 1..Len(cleared) : Append(cleared, screen)[k] = cleared[k]
        /\ Append(cleared, screen)[Len(cleared) + 1] = screen
        /\ DOMAIN Append(cleared, screen) = 1..(Len(cleared) + 1)
      BY <2>0
  <2>2. screens = Append(cleared, screen) /\ next.page = con.page + 1
      BY <1>4 DEF screen
  <2>3. ASSUME NEW k \in DOMAIN screens PROVE HasPage(next, k - 1, screens[k])
    <3>1. k \in 1..Len(cleared) \/ k = Len(cleared) + 1
        BY <1>2, <2>1, <2>2, <2>3
    <3>2. (Len(cleared) + 1) - 1 = con.page
        BY <1>2
    <3>3. CASE k = Len(cleared) + 1
        BY <2>1, <2>2, <3>2, <3>3 DEF screen
    <3> QED BY <1>3, <2>1, <2>2, <3>1, <3>3
  <2> QED BY <1>2, <2>1, <2>2, <2>3
<1>5. CASE ~(con.y >= H)
    BY <1>1, <1>2, <1>3, <1>5
<1> QED BY <1>4, <1>5

\* Each step of the main flow.
LEMMA ConsoleMain ==
    ASSUME ConsoleInv, C!Main
    PROVE  ConsoleInv'
<1> USE DEF C!Goto, C!main, C!history
<1>1. CASE C!LoadIndex
  <2>1. con' = con /\ loaded' = con.vga_index /\ putting = "idle" /\ putting' = "index"
        /\ UNCHANGED <<text, overlong, torn, scrolled, cleared>> /\ Head(text) # "newline"
      BY <1>1 DEF C!LoadIndex
  <2>2. loaded' \in Nat
      BY <2>1 DEF ConsoleInv, Sound
  <2> QED BY <2>1, <2>2 DEF ConsoleInv, InLine, Saved
<1>2. CASE C!LoadX
  <2>1. con' = con /\ loaded' = con.x /\ putting = "stored" /\ putting' = "x"
        /\ UNCHANGED <<text, overlong, torn, scrolled, cleared>>
      BY <1>2 DEF C!LoadX
  <2>2. loaded' \in Nat
      BY <2>1 DEF ConsoleInv, Sound
  <2> QED BY <2>1, <2>2 DEF ConsoleInv, InLine, Saved
<1>3. CASE C!StoreIndex
  <2> DEFINE c == [con EXCEPT !.vga_index = loaded]
  <2>1. /\ con' = C!Cell(c, Head(text)) /\ putting = "index" /\ putting' = "stored"
        /\ UNCHANGED <<text, loaded, overlong, torn, scrolled, cleared>>
      BY <1>3 DEF C!StoreIndex
  <2>2. /\ Fields(c) /\ c.vga_index = loaded /\ c.x = con.x /\ c.y = con.y
        /\ c.page = con.page /\ c.temp_pages = con.temp_pages
        /\ c.vga_buffer = con.vga_buffer
      BY DEF ConsoleInv, Sound, Fields
  <2> HIDE DEF c
  <2>3. /\ Fields(con') /\ con'.vga_index = loaded + 1 /\ con'.x = con.x /\ con'.y = con.y
        /\ con'.page = con.page /\ con'.temp_pages = con.temp_pages
        /\ con'.vga_buffer = C!Put(loaded, Head(text), con.vga_buffer)
      BY <2>1, <2>2 DEF Fields, C!Cell
  <2>4. DOMAIN C!Put(loaded, Head(text), con.vga_buffer) = DOMAIN con.vga_buffer \cup {loaded}
      BY PutDomain
  <2>5. Sound(con')
      BY <2>3, <2>4 DEF ConsoleInv, Sound
  <2>6. InLine'
      BY <2>1, <2>3, ConsoleAssumption DEF ConsoleInv, InLine, Ahead, Sound, W, H
  <2>7. Saved'
      BY <2>1, <2>3 DEF ConsoleInv, Saved, HasPage
  <2> QED BY <2>1, <2>5, <2>6, <2>7 DEF ConsoleInv
<1>4. CASE C!StoreX
  <2>1. /\ con' = [con EXCEPT !.x = C!StepX(loaded)] /\ putting = "x" /\ putting' = "idle"
        /\ UNCHANGED <<loaded, torn, scrolled>>
        /\ C!Note(Head(text), con')
      BY <1>4 DEF C!StoreX
  <2>2. /\ Fields(con') /\ con'.vga_index = con.vga_index /\ con'.y = con.y
        /\ con'.page = con.page /\ con'.temp_pages = con.temp_pages
        /\ con'.vga_buffer = con.vga_buffer /\ con'.x = C!StepX(loaded)
      BY <2>1 DEF ConsoleInv, Sound, Fields
  <2>3. Head(text) # "newline" /\ loaded \in Nat
      BY <2>1 DEF ConsoleInv
  <2>4. cleared' = cleared /\ (~overlong' => ~overlong /\ ~(con'.x < con.x - W))
      BY <2>1, <2>3 DEF C!Note, C!W, W
  <2>5. con'.x \in 0..(CursorLimit - 1)
      BY <2>2, <2>3, ConsoleAssumption DEF C!StepX
  <2>6. Sound(con')
      BY <2>2, <2>5 DEF ConsoleInv, Sound
  <2>7. InLine'
    <3>1. CASE ~overlong' /\ ~torn'
      <4>1. loaded = con.x /\ loaded \in 0..(CursorLimit - 1) /\ Ahead(con, 1)
          BY <2>1, <2>4, <3>1 DEF ConsoleInv, InLine, Sound
      <4>2. con'.x = con.x + 1
          BY <2>2, <2>4, <3>1, <4>1, ConsoleAssumption DEF C!StepX, W
      <4>3. Ahead(con', 0)
          BY <2>2, <4>1, <4>2, ConsoleAssumption DEF ConsoleInv, Ahead, Sound, W, H
      <4> QED BY <2>1, <4>3 DEF InLine
    <3> QED BY <3>1 DEF InLine
  <2>8. Saved'
      BY <2>1, <2>2, <2>4 DEF ConsoleInv, Saved, HasPage
  <2> QED BY <2>1, <2>4, <2>6, <2>7, <2>8 DEF ConsoleInv
<1>5. CASE C!Save
  <2>1. /\ con' = C!SavePage(con) /\ putting = "idle" /\ putting' = "newline"
        /\ UNCHANGED <<loaded, overlong, torn, scrolled, cleared>>
      BY <1>5 DEF C!Save
  <2>2. /\ Sound(con') /\ con'.vga_buffer = con.vga_buffer
        /\ con'.vga_index = con.vga_index
        /\ con'.x = con.x /\ con'.y = con.y /\ con'.page = con.page
        /\ con'.temp_pages = C!Put(con.page, C!Shown(con.vga_buffer), con.temp_pages)
      BY <2>1, SaveSound DEF ConsoleInv
  <2>3. InLine'
      BY <2>1, <2>2 DEF ConsoleInv, InLine, Ahead
  <2>4. Saved'
    <3>1. /\ HasPage(con', con.page, C!Shown(con.vga_buffer))
          /\ \A n, s : n # con.page /\ HasPage(con, n, s) => HasPage(con', n, s)
        BY <2>2, PageSaved
    <3>2. ASSUME ~torn, ~scrolled, NEW k \in DOMAIN cleared
          PROVE  k - 1 # con.page
      <4>1. PICK S : cleared \in Seq(S)
          BY DEF ConsoleInv
      <4> QED BY <3>2, <4>1 DEF ConsoleInv, Saved
    <3> QED BY <2>1, <2>2, <3>1, <3>2 DEF ConsoleInv, Saved
  <2> QED BY <2>1, <2>2, <2>3, <2>4 DEF ConsoleInv
<1>6. CASE C!NewLine
  <2>1. /\ con' = C!NextLine(con) /\ putting = "newline" /\ putting' = "idle"
        /\ UNCHANGED <<loaded, torn, scrolled>>
        /\ C!Note("newline", con')
      BY <1>6 DEF C!NewLine
  <2>2. /\ Sound(con') /\ con'.temp_pages = con.temp_pages
        /\ con'.page = IF con.y >= H THEN con.page + 1 ELSE con.page
        /\ Ahead(con, 0) /\ con.x < W => Ahead(con', 0)
      BY <2>1, NextLineSound DEF ConsoleInv
  <2>3. /\ ~overlong' => ~overlong /\ ~(con.x >= W)
        /\ cleared' = IF con.y >= H THEN Append(cleared, C!Shown(con.vga_buffer)) ELSE cleared
      BY <2>1 DEF C!Note, C!W, W, H
  <2>4. InLine'
      BY <2>1, <2>2, <2>3, ConsoleAssumption DEF ConsoleInv, InLine, Sound, W
  <2>5. Saved'
    <3>1. ASSUME ~torn, ~scrolled
          PROVE  /\ con'.page = Len(cleared')
                 /\ \A k \in DOMAIN cleared' : HasPage(con', k - 1, cleared'[k])
      <4>1. HasPage(con', con.page, C!Shown(con.vga_buffer))
          BY <2>1, <2>2, <3>1 DEF ConsoleInv, Saved, HasPage
      <4>2. \A n, s : n # con.page /\ HasPage(con, n, s) => HasPage(con', n, s)
          BY <2>2 DEF HasPage
      <4> QED BY <2>2, <2>3, <3>1, <4>1, <4>2, SavedAfter
    <3> QED BY <2>1, <3>1 DEF Saved
  <2>6. \E S : cleared' \in Seq(S)
      BY <2>3, StillSequence DEF ConsoleInv
  <2> QED BY <2>1, <2>2, <2>4, <2>5, <2>6 DEF ConsoleInv
<1> QED BY <1>1, <1>2, <1>3, <1>4, <1>5, <1>6 DEF C!Main

\* A handler echoes a key, or draws the pointer.
LEMMA ConsoleHandlers ==
    ASSUME ConsoleInv, (\E char \in Echoed : C!EchoKey(char))
                       \/ \E p \in Pointers : C!DrawMouse(p[1], p[2])
    PROVE  ConsoleInv'
<1>1. ASSUME NEW char, C!EchoKey(char) PROVE ConsoleInv'
  <2>1. /\ con' = C!console_putchar(con, char)
        /\ C!Note(char, con')
        /\ UNCHANGED <<text, putting, loaded, scrolled>>
        /\ ~torn' => ~torn /\ putting \notin {"index", "x", "newline"}
                     /\ ~(putting = "stored" /\ char = "newline")
      BY <1>1 DEF C!EchoKey
  <2>2. /\ Sound(con')
        /\ char = "newline" =>
             /\ con'.x = 0
             /\ Ahead(con, 0) /\ con.x < W => Ahead(con', 0)
             /\ con'.temp_pages = C!Put(con.page, C!Shown(con.vga_buffer), con.temp_pages)
             /\ con'.page = IF con.y >= H THEN con.page + 1 ELSE con.page
        /\ char # "newline" =>
             /\ con'.page = con.page /\ con'.temp_pages = con.temp_pages
             /\ \A n \in 0..1 : Ahead(con, n) => Ahead(con', n) \/ con'.x < con.x - W
      BY <2>1, PutcharSound DEF ConsoleInv
  <2>3. /\ ~overlong' => /\ ~overlong /\ ~(con'.x < con.x - W)
                         /\ ~(char = "newline" /\ con.x >= W)
        /\ cleared' = IF char = "newline" /\ con.y >= H
                      THEN Append(cleared, C!Shown(con.vga_buffer)) ELSE cleared
      BY <2>1 DEF C!Note, C!W, W, H
  <2>4. InLine'
    <3>1. CASE char = "newline"
        BY <2>1, <2>2, <2>3, <3>1, ConsoleAssumption DEF ConsoleInv, InLine, Sound, W
    <3>2. CASE char # "newline"
      <4>1. ASSUME ~overlong', ~torn' PROVE Ahead(con', IF putting = "stored" THEN 1 ELSE 0)
          BY <2>1, <2>2, <2>3, <3>2, <4>1 DEF ConsoleInv, InLine
      <4> QED BY <2>1, <4>1 DEF InLine
    <3> QED BY <3>1, <3>2
  <2>5. Saved'
    <3>1. CASE char = "newline"
      <4>1. ASSUME ~torn, ~scrolled
            PROVE  /\ con'.page = Len(cleared')
                   /\ \A k \in DOMAIN cleared' : HasPage(con', k - 1, cleared'[k])
        <5>1. /\ HasPage(con', con.page, C!Shown(con.vga_buffer))
              /\ \A n, s : n # con.page /\ HasPage(con, n, s) => HasPage(con', n, s)
            BY <2>2, <3>1, PageSaved
        <5> QED BY <2>2, <2>3, <3>1, <4>1, <5>1, SavedAfter
      <4> QED BY <2>1, <4>1 DEF Saved
    <3>2. CASE char # "newline"
        BY <2>1, <2>2, <2>3, <3>2 DEF ConsoleInv, Saved, HasPage
    <3> QED BY <3>1, <3>2
  <2>6. \E S : cleared' \in Seq(S)
      BY <2>3, StillSequence DEF ConsoleInv
  <2> QED BY <2>1, <2>2, <2>4, <2>5, <2>6 DEF ConsoleInv
<1>2. ASSUME NEW p \in Pointers, C!DrawMouse(p[1], p[2]) PROVE ConsoleInv'
  <2>1. /\ con' = C!MouseDraws(con, p[1], p[2])
        /\ torn' = (torn \/ putting # "idle") /\ scrolled' = TRUE
        /\ UNCHANGED <<text, putting, loaded, overlong, cleared>>
      BY <1>2 DEF C!DrawMouse
  <2>2. p[1] \in 0..W /\ p[2] \in 0..H
      BY ConsoleAssumption DEF W, H
  <2>3. Sound(con') /\ Ahead(con', 0)
      BY <2>1, <2>2, MouseSound DEF ConsoleInv
  <2>4. InLine' /\ Saved'
      BY <2>1, <2>3 DEF InLine, Saved
  <2> QED BY <2>1, <2>3, <2>4 DEF ConsoleInv
<1> QED BY <1>1, <1>2

\* The calls that are not cut.
LEMMA ConsoleOther ==
    ASSUME ConsoleInv, NEW next, NEW moving, C!OtherCall(next, moving),
           Sound(next), Ahead(con, 0) => Ahead(next, 0),
           ~moving => next.page = con.page /\ next.temp_pages = con.temp_pages
    PROVE  ConsoleInv'
<1>1. /\ con' = next /\ putting = "idle" /\ scrolled' = (scrolled \/ moving)
      /\ UNCHANGED <<text, putting, loaded, overlong, torn, cleared>>
    BY DEF C!OtherCall
<1>2. InLine'
    BY <1>1 DEF ConsoleInv, InLine
<1>3. Saved'
    BY <1>1 DEF ConsoleInv, Saved, HasPage
<1> QED BY <1>1, <1>2, <1>3 DEF ConsoleInv

\* Every step of the console.
LEMMA ConsoleNext == ConsoleInv /\ [C!Next]_consoleVars => ConsoleInv'
<1> SUFFICES ASSUME ConsoleInv, [C!Next]_consoleVars PROVE ConsoleInv'
    OBVIOUS
<1>1. CASE UNCHANGED consoleVars
    BY <1>1 DEF consoleVars, ConsoleInv, InLine, Saved
<1>2. CASE C!Main
    BY <1>2, ConsoleMain
<1>3. CASE (\E char \in Echoed : C!EchoKey(char))
           \/ \E p \in Pointers : C!DrawMouse(p[1], p[2])
    BY <1>3, ConsoleHandlers
<1>4. ASSUME NEW str \in Strings, C!console_print(str) PROVE ConsoleInv'
    BY <1>4 DEF C!console_print, C!history, ConsoleInv, InLine, Saved
<1>5. CASE C!OtherCall(C!console_ungetchar(con), FALSE)
    BY <1>5, UngetSound, ConsoleOther DEF ConsoleInv
<1>6. CASE C!OtherCall(C!console_ungetchar_bound(con, 1), FALSE)
    BY <1>6, UngetSound, ConsoleOther DEF ConsoleInv
<1>7. ASSUME NEW up \in BOOLEAN, C!OtherCall(C!console_scroll(con, up), TRUE) PROVE ConsoleInv'
    BY <1>7, ScrollSound, ConsoleOther DEF ConsoleInv
<1>8. ASSUME NEW p \in Pointers, C!OtherCall(C!console_gotoxy(con, p[1], p[2]), TRUE)
      PROVE  ConsoleInv'
  <2>1. p[1] \in 0..W /\ p[2] \in 0..H
      BY ConsoleAssumption DEF W, H
  <2> QED BY <1>8, <2>1, GotoSound, ConsoleOther DEF ConsoleInv
<1> QED BY <1>1, <1>2, <1>3, <1>4, <1>5, <1>6, <1>7, <1>8 DEF C!Next

\* The invariant holds whichever driver runs.
LEMMA ConsoleAlways == Spec => []ConsoleInv
<1>1. Init => ConsoleInv
    BY ConsoleInit DEF Init
<1>2. ConsoleInv /\ [Next]_vars => ConsoleInv'
  <2>1. [Next]_vars => [C!Next]_consoleVars
      BY DEF Next, Alone, vars
  <2> QED BY <2>1, ConsoleNext
<1> QED BY <1>1, <1>2, PTL DEF Spec

\* Between two characters the index and the cursor are at the same place, and
\* at most one line below the screen: for a screen and a byte of any size, any
\* strings and any keys echoed in between.
THEOREM CursorAlwaysFollows == Spec => []CursorFollows
<1>1. ConsoleInv => CursorFollows
    BY ConsoleAssumption DEF ConsoleInv, InLine, Ahead, Sound, W, H,
                             CursorFollows, C!CursorFollows, C!W
<1> QED BY <1>1, ConsoleAlways, PTL

\* What was cleared from the screen can be found again on its page.
THEOREM PagesAreKept == Spec => []PagesKept
<1>1. ConsoleInv => PagesKept
    BY DEF ConsoleInv, Saved, HasPage, PagesKept, C!PagesKept
<1> QED BY <1>1, ConsoleAlways, PTL

-----------------------------------------------------------------------------
(* The mouse.  Undisturbed, init_mouse and the devices take turns; what is  *)
(* on the way at each of its accesses follows from the one before.          *)

Writes(port, data) == [op |-> port, arg |-> data]

\* The accesses of init_mouse, one after the other.
LEMMA Script ==
    /\ M!init_mouse[1] = Writes("mouse_wait", 1)  /\ M!init_mouse[2] = Writes("0x64", 168)
    /\ M!init_mouse[3] = Writes("0x60", 242)      /\ M!init_mouse[4] = Writes("mouse_wait", 0)
    /\ M!init_mouse[5] = Writes("inb", "any")     /\ M!init_mouse[6] = Writes("0x60", 243)
    /\ M!init_mouse[7] = Writes("mouse_wait", 0)  /\ M!init_mouse[8] = Writes("inb", "rate")
    /\ M!init_mouse[9] = Writes("0x60", 10)       /\ M!init_mouse[10] = Writes("mouse_wait", 1)
    /\ M!init_mouse[11] = Writes("0x64", 32)      /\ M!init_mouse[12] = Writes("mouse_wait", 0)
    /\ M!init_mouse[13] = Writes("inb", "any")    /\ M!init_mouse[14] = Writes("mouse_wait", 1)
    /\ M!init_mouse[15] = Writes("0x64", 96)      /\ M!init_mouse[16] = Writes("mouse_wait", 1)
    /\ M!init_mouse[17] = Writes("status", 2)     /\ M!init_mouse[18] = Writes("mouse_wait", 1)
    /\ M!init_mouse[19] = Writes("0x64", 212)     /\ M!init_mouse[20] = Writes("mouse_wait", 1)
    /\ M!init_mouse[21] = Writes("0x60", 246)     /\ M!init_mouse[22] = Writes("mouse_wait", 0)
    /\ M!init_mouse[23] = Writes("inb", "ack")    /\ M!init_mouse[24] = Writes("mouse_wait", 1)
    /\ M!init_mouse[25] = Writes("0x64", 212)     /\ M!init_mouse[26] = Writes("mouse_wait", 1)
    /\ M!init_mouse[27] = Writes("0x60", 244)     /\ M!init_mouse[28] = Writes("mouse_wait", 0)
    /\ M!init_mouse[29] = Writes("inb", "ack")    /\ M!init_mouse[30] = Writes("IRQ_RegisterHandler", 12)
    /\ M!Done = 31
    BY DEF M!Done, Writes, M!init_mouse, M!Wait, M!Out, M!In, M!mouse_write, M!mouse_read,
           M!set_mouse_rate

\* Which of them are what.
LEMMA Accesses ==
    \A i \in 1..30 :
        LET op == M!init_mouse[i].op
        IN  /\ op \in {"0x64", "0x60", "status"} => i \in {2, 3, 6, 9, 11, 15, 17, 19, 21, 25, 27}
            /\ op = "mouse_wait" => i \in {1, 4, 7, 10, 12, 14, 16, 18, 20, 22, 24, 26, 28}
            /\ op = "inb" => i \in {5, 8, 13, 23, 29}
            /\ op = "IRQ_RegisterHandler" => i = 30
<1> TAKE i \in 1..30
<1>1. i \in {2, 3, 6, 9, 11, 15, 17, 19, 21, 25, 27} \/ i \in {5, 8, 13, 23, 29} \/ i = 30
      \/ i \in {1, 4, 7, 10, 12, 14, 16, 18, 20, 22, 24, 26, 28}
    OBVIOUS
<1>2. CASE i \in {2, 3, 6, 9, 11, 15, 17, 19, 21, 25, 27}
    BY <1>2, Script DEF Writes
<1>3. CASE i \in {1, 4, 7, 10, 12, 14, 16, 18, 20, 22, 24, 26, 28}
    BY <1>3, Script DEF Writes
<1>4. CASE i \in {5, 8, 13, 23, 29}
    BY <1>4, Script DEF Writes
<1>5. CASE i = 30
    BY <1>5, Script DEF Writes
<1> QED BY <1>1, <1>2, <1>3, <1>4, <1>5

\* Nothing is on the way.
Settled == input = <<>> /\ keyboard = <<>> /\ mouse = <<>> /\ ~obf /\ irq = 0
\* The controller has yet to take a write.
Taking(port, data) ==
    /\ input = <<Writes(port, data)>>
    /\ keyboard = <<>> /\ mouse = <<>> /\ ~obf /\ irq = 0
\* The bytes of the keyboard are left to its handler.
ByHandler ==
    /\ target = "keyboard" /\ mouse = <<>>
    /\ (obf /\ irq = 1) \/ (~obf /\ irq = 0)
KeyboardAnswers == ByHandler /\ (input = <<>> \/ \E data : Taking("0x60", data))
\* The controller answers with the command byte.
CommandByte ==
    /\ ByHandler
    /\ \/ Taking("0x64", 32)
       \/ input = <<>> /\ keyboard = <<M!Reply(69)>> /\ ~obf
       \/ input = <<>> /\ keyboard = <<>> /\ port60 = M!Reply(69)
\* The mouse acknowledges, and nobody takes the byte.
Acknowledged ==
    /\ input = <<>> /\ keyboard = <<>> /\ mouse = <<>>
    /\ obf /\ port60 = M!Reply(M!ACK)
MouseAnswers ==
    \/ input = <<>> /\ keyboard = <<>> /\ mouse = <<M!Reply(M!ACK)>> /\ ~obf /\ irq = 0
    \/ Acknowledged /\ irq \in {0, 12}

\* Where init_mouse is, and what is on the way: first nothing or the answers of
\* the keyboard, which it takes for the mouse's.
Identifying ==
    /\ ip \in {1, 2} => Settled /\ target = "keyboard" /\ command_byte = 101
    /\ ip = 3 => /\ target = "keyboard"
                 /\ \/ Taking("0x64", 168) /\ command_byte = 101
                    \/ Settled /\ command_byte = 69
    /\ ip \in 4..17 => command_byte = 69
    /\ ip \in {4, 7, 10, 11} => KeyboardAnswers
    /\ ip = 11 => input = <<>>
    /\ ip \in {5, 6, 8, 9} => Settled /\ target = "keyboard"
\* Then the command byte, read and written back with another bit,
Configuring ==
    /\ ip = 12 => CommandByte
    /\ ip = 13 => port60 = M!Reply(69)
    /\ ip \in 13..15 => Settled /\ target = "keyboard"
    /\ ip \in 14..17 => config = 71
    /\ ip = 16 => Taking("0x64", 96) \/ (Settled /\ target = "command")
    /\ ip = 17 => Settled /\ target = "command"
    /\ ip = 18 => \/ Taking("0x60", 71) /\ target = "command"
                  \/ Settled /\ command_byte = 71
\* and then the mouse's acknowledgements.
Enabling ==
    /\ ip \in 19..30 => command_byte = 71
    /\ ip \in {19, 24, 25, 30} => Settled
    /\ ip \in {20, 26} => Taking("0x64", 212) \/ (Settled /\ target = "mouse")
    /\ ip \in {21, 27} => Settled /\ target = "mouse"
    /\ ip = 22 => (Taking("0x60", 246) /\ target = "mouse") \/ MouseAnswers
    /\ ip = 28 => (Taking("0x60", 244) /\ target = "mouse") \/ (MouseAnswers /\ reporting)
    /\ ip \in {23, 29} => Acknowledged /\ irq = 0
    /\ ip \in {29, 30} => reporting
\* The handler has handled nothing.
Unused ==
    /\ obf \in BOOLEAN /\ reporting \in BOOLEAN
    /\ ~registered /\ mouse_cycle = 0 /\ DOMAIN mouse_byte = 0..2
    /\ expected = <<mouse_x_pos, mouse_y_pos>>
Booting == ip \in 1..30 /\ Unused /\ Identifying /\ Configuring /\ Enabling

\* Once the handler is registered: the bytes on the way are those of the moves
\* in `queue', of the first of which Handed bytes have left the mouse and
\* mouse_cycle of them the handler; each move leads from one of the points of
\* `path' to the next, from where the pointer is to where it has to be.
Handed == mouse_cycle + (IF irq = 12 THEN 1 ELSE 0)
Queued(n, queue) ==
    /\ Len(mouse) + Handed = 3 * n
    /\ \A k \in 1..n, f \in 1..3 :
           3 * (k - 1) + f > Handed =>
               mouse[3 * (k - 1) + f - Handed] = M!Packet(queue[k])[f]
    /\ irq = 12 => port60 = M!Packet(queue[1])[mouse_cycle + 1]
    /\ mouse_cycle = 2 => mouse_byte[1] = queue[1][1]
Step(point, move) ==
    <<M!PutOnScreen(point[1] + move[1], MouseWidth),
      M!PutOnScreen(point[2] - move[2], MouseHeight)>>
Leads(n, queue, path) ==
    /\ path[0] = <<mouse_x_pos, mouse_y_pos>> /\ path[n] = expected
    /\ \A k \in 1..n : path[k] = Step(path[k - 1], queue[k])
OnTheWay ==
    /\ \E S : mouse \in Seq(S)
    /\ \E n \in Nat : \E queue, path : Queued(n, queue) /\ Leads(n, queue, path)
\* Both devices are on, and every byte has raised its request.
Enabled ==
    /\ ip = 31 /\ registered /\ reporting
    /\ input = <<>> /\ command_byte = 71
    /\ obf \in BOOLEAN /\ irq \in {0, 1, 12} /\ (obf <=> irq # 0)
    /\ mouse_cycle \in 0..2 /\ DOMAIN mouse_byte = 0..2
Running == Enabled /\ OnTheWay

\* Where the initialisation is, or that it is over.
MouseInv == M!Quietly => Booting \/ Running

\* Nothing has happened yet.
LEMMA MouseInit == M!Init => MouseInv
<1> SUFFICES ASSUME M!Init PROVE MouseInv
    OBVIOUS
<1>1. Settled /\ target = "keyboard" /\ command_byte = 101 /\ ip = 1
    BY DEF M!Init, Settled
<1>2. Identifying /\ Configuring /\ Enabling
    BY <1>1 DEF Identifying, Configuring, Enabling
<1>3. Unused
    BY DEF M!Init, Unused
<1>4. Booting
    BY <1>1, <1>2, <1>3 DEF Booting
<1> QED BY <1>4 DEF MouseInv

\* A write: nothing else was on the way, or it came too early.
LEMMA BootWrite ==
    ASSUME Booting, M!Write, ~late'
    PROVE  Booting'
<1>1. /\ input = <<>> /\ keyboard = <<>> /\ mouse = <<>> /\ irq = 0 /\ ip \in 1..30 /\ ip' = ip + 1
      /\ M!init_mouse[ip].op \in {"0x64", "0x60", "status"}
      /\ input' = IF M!init_mouse[ip].op = "status" THEN <<Writes("0x60", config)>>
                  ELSE <<M!init_mouse[ip]>>
      /\ UNCHANGED <<target, port60, obf, command_byte, irq, keyboard, mouse, reporting, config,
                     registered, mouse_cycle, mouse_byte, mouse_x_pos, mouse_y_pos, expected>>
    BY SMTT(30) DEF Booting, Unused, M!Write, M!At, M!controller, M!devices, M!handler, Writes
<1>2. ip \in {2, 3, 6, 9, 11, 15, 17, 19, 21, 25, 27}
    BY <1>1, Accesses
<1>3. ~obf /\ obf' = obf
  <2>1. Settled \/ (ip = 11 /\ KeyboardAnswers)
    <3>1. CASE ip \in {2, 3, 6, 9, 11}
        BY <1>1, <3>1 DEF Booting, Identifying, Taking
    <3>2. CASE ip \in {15, 17}
        BY <3>2 DEF Booting, Configuring
    <3>3. CASE ip \in {19, 21, 25, 27}
        BY <3>3 DEF Booting, Enabling
    <3> QED BY <1>2, <3>1, <3>2, <3>3
  <2> QED BY <1>1, <2>1 DEF Settled, KeyboardAnswers, ByHandler
<1>4. \A port, data : input' = <<Writes(port, data)>> => Taking(port, data)'
    BY <1>1, <1>3 DEF Taking
<1>5. /\ ip = 17 => input' = <<Writes("0x60", config)>>
      /\ ip # 17 => input' = <<M!init_mouse[ip]>>
  <2>1. ip = 17 => M!init_mouse[ip].op = "status"
      BY Script DEF Writes
  <2>2. ip \in {2, 3, 6, 9, 11, 15, 19, 21, 25, 27} => M!init_mouse[ip].op # "status"
      BY Script DEF Writes
  <2> QED BY <1>1, <1>2, <2>1, <2>2
<1>6. /\ ip = 2 => Taking("0x64", 168)'
      /\ ip \in {3, 6, 9} => (\E data : Taking("0x60", data))'
      /\ ip = 11 => Taking("0x64", 32)'
      /\ ip = 15 => Taking("0x64", 96)'
      /\ ip = 17 => Taking("0x60", config)'
      /\ ip \in {19, 25} => Taking("0x64", 212)'
      /\ ip = 21 => Taking("0x60", 246)'
      /\ ip = 27 => Taking("0x60", 244)'
  <2>1. CASE ip = 2
      BY <2>1, <1>4, <1>5, Script
  <2>2. CASE ip \in {3, 6, 9}
    <3>1. \E data : input' = <<Writes("0x60", data)>>
        BY <2>2, <1>5, Script
    <3> QED BY <2>2, <3>1, <1>4
  <2>3. CASE ip = 11
      BY <2>3, <1>4, <1>5, Script
  <2>4. CASE ip = 15
      BY <2>4, <1>4, <1>5, Script
  <2>5. CASE ip = 17
      BY <2>5, <1>1, <1>4, <1>5
  <2>6. CASE ip \in {19, 25}
      BY <2>6, <1>4, <1>5, Script
  <2>7. CASE ip = 21
      BY <2>7, <1>4, <1>5, Script
  <2>8. CASE ip = 27
      BY <2>8, <1>4, <1>5, Script
  <2> QED BY <1>2, <2>1, <2>2, <2>3, <2>4, <2>5, <2>6, <2>7, <2>8
<1>7. ip \in {3, 6, 9, 11} => target = "keyboard"
    BY <1>2 DEF Booting, Identifying, KeyboardAnswers, ByHandler
<1>8. ByHandler' <=> target = "keyboard"
    BY <1>1, <1>3 DEF ByHandler
<1>9. Identifying'
    BY <1>1, <1>2, <1>6, <1>7, <1>8
       DEF Booting, Identifying, KeyboardAnswers, Taking, Settled, ByHandler
<1>10. ip' \in {3, 4, 7, 10, 12, 16, 18, 20, 22, 26, 28}
    BY <1>1, <1>2
<1>11. Configuring'
  <2>1. CASE ip = 11
    <3>1. ip' = 12 /\ CommandByte'
        BY <1>1, <1>6, <1>7, <1>8, <2>1 DEF CommandByte
    <3> QED BY <3>1 DEF Configuring
  <2>2. CASE ip = 15
    <3>1. ip' = 16 /\ config = 71 /\ Taking("0x64", 96)'
        BY <1>1, <1>6, <2>2 DEF Booting, Configuring
    <3> QED BY <1>1, <3>1 DEF Configuring
  <2>3. CASE ip = 17
    <3>1. ip' = 18 /\ config = 71 /\ target = "command"
        BY <1>1, <2>3 DEF Booting, Configuring
    <3> QED BY <1>1, <1>6, <2>3, <3>1 DEF Configuring
  <2>4. CASE ip' \notin 12..18
      BY <2>4, <1>10 DEF Configuring
  <2> QED BY <1>1, <1>2, <2>1, <2>2, <2>3, <2>4
<1>12. Enabling'
  <2>1. CASE ip \in {19, 25}
    <3>1. ip' \in {20, 26} /\ command_byte = 71 /\ Taking("0x64", 212)'
        BY <1>1, <1>6, <2>1 DEF Booting, Enabling
    <3> QED BY <1>1, <3>1 DEF Enabling
  <2>2. CASE ip \in {21, 27}
    <3>1. ip' \in {22, 28} /\ command_byte = 71 /\ target = "mouse"
        BY <1>1, <2>2 DEF Booting, Enabling
    <3> QED BY <1>1, <1>6, <2>2, <3>1 DEF Enabling
  <2>3. CASE ip' <= 18
      BY <2>3, <1>10 DEF Enabling
  <2> QED BY <1>1, <1>2, <2>1, <2>2, <2>3
<1>13. Unused'
    BY <1>1, <1>3 DEF Booting, Unused
<1> QED BY <1>1, <1>2, <1>9, <1>11, <1>12, <1>13 DEF Booting

\* The bits of the command bytes the initialisation goes through.
LEMMA Bits ==
    /\ M!Bit(101, 0) /\ ~M!Bit(101, 1) /\ ~M!Bit(101, 4) /\ M!Bit(101, 5)
    /\ M!Bit(69, 0) /\ ~M!Bit(69, 1) /\ ~M!Bit(69, 4) /\ ~M!Bit(69, 5)
    /\ M!Bit(71, 0) /\ M!Bit(71, 1) /\ ~M!Bit(71, 4) /\ ~M!Bit(71, 5)
    /\ M!Or2(69) = 71
    BY DEF M!Bit, M!Or2

\* A wait that does not give up too early ends when the answer has come, or
\* when none will.
LEMMA BootWait ==
    ASSUME Booting, M!MouseWait, ~late'
    PROVE  Booting'
<1>1. /\ irq = 0 /\ ip \in 1..30 /\ ip' = ip + 1 /\ obf \in BOOLEAN
      /\ M!init_mouse[ip].op = "mouse_wait"
      /\ M!Ready(M!init_mouse[ip].arg) \/ M!Quiet
      /\ UNCHANGED <<input, target, port60, obf, command_byte, irq, keyboard, mouse, reporting,
                     config, registered, mouse_cycle, mouse_byte, mouse_x_pos, mouse_y_pos, expected>>
  <2>1. M!Ready(M!arg) \/ M!Quiet
      BY DEF M!MouseWait
  <2>2. M!arg = M!init_mouse[ip].arg
      BY DEF M!arg
  <2>3. irq = 0 /\ M!init_mouse[ip].op = "mouse_wait" /\ ip' = ip + 1
      BY DEF M!MouseWait, M!At
  <2> QED BY <2>1, <2>2, <2>3 DEF Booting, Unused, M!MouseWait, M!controller, M!devices, M!handler
<1>2. ip \in {1, 4, 7, 10, 12, 14, 16, 18, 20, 22, 24, 26, 28}
    BY <1>1, Accesses
<1>3. /\ ip \in {1, 10, 14, 16, 18, 20, 24, 26} => input = <<>>
      /\ ip \in {4, 7, 12, 22, 28} =>
             obf \/ (input = <<>> /\ (keyboard = <<>> \/ M!Bit(command_byte, 4))
                                  /\ (mouse = <<>> \/ M!Bit(command_byte, 5)))
  <2>1. /\ ip \in {1, 10, 14, 16, 18, 20, 24, 26} => M!init_mouse[ip].arg = 1
        /\ ip \in {4, 7, 12, 22, 28} => M!init_mouse[ip].arg = 0
      BY Script DEF Writes
  <2> QED BY <1>1, <2>1 DEF M!Ready, M!Quiet
<1>4. Identifying'
  <2>1. CASE ip = 1
      BY <1>1, <2>1 DEF Booting, Identifying, Settled
  <2>2. CASE ip \in {4, 7}
    <3>1. command_byte = 69 /\ KeyboardAnswers
        BY <2>2 DEF Booting, Identifying
    <3>2. ~obf /\ input = <<>> /\ keyboard = <<>>
        BY <1>1, <1>3, <2>2, <3>1, Bits DEF KeyboardAnswers, ByHandler
    <3>3. Settled /\ target = "keyboard"
        BY <1>1, <3>1, <3>2 DEF Settled, KeyboardAnswers, ByHandler
    <3> QED BY <1>1, <2>2, <3>1, <3>3 DEF Identifying, Settled
  <2>3. CASE ip = 10
      BY <1>1, <1>3, <2>3
         DEF Booting, Identifying, KeyboardAnswers, ByHandler, Taking
  <2>4. CASE ip \in {12, 14, 16}
      BY <1>1, <2>4 DEF Booting, Identifying
  <2>5. CASE ip \in {18, 20, 22, 24, 26, 28}
      BY <1>1, <2>5 DEF Identifying
  <2> QED BY <1>2, <2>1, <2>2, <2>3, <2>4, <2>5
<1>5. Configuring'
  <2>1. CASE ip = 12
    <3>1. command_byte = 69 /\ CommandByte
        BY <2>1 DEF Booting, Identifying, Configuring
    <3>2. ~obf /\ input = <<>> /\ keyboard = <<>>
        BY <1>1, <1>3, <2>1, <3>1, Bits DEF CommandByte, ByHandler
    <3>3. Settled /\ target = "keyboard" /\ port60 = M!Reply(69)
        BY <1>1, <3>1, <3>2 DEF Settled, CommandByte, ByHandler, Taking
    <3> QED BY <1>1, <2>1, <3>3 DEF Configuring, Settled
  <2>2. CASE ip = 14
      BY <1>1, <2>2 DEF Booting, Configuring, Settled
  <2>3. CASE ip = 16
      BY <1>1, <1>3, <2>3 DEF Booting, Configuring, Taking, Settled
  <2>4. CASE ip < 12 \/ ip >= 18
      BY <1>1, <1>2, <2>4 DEF Configuring
  <2> QED BY <1>2, <2>1, <2>2, <2>3, <2>4
<1>6. Enabling'
  <2>1. CASE ip = 18
      BY <1>1, <1>3, <2>1 DEF Booting, Configuring, Enabling, Taking, Settled
  <2>2. CASE ip \in {20, 26}
    <3>1. command_byte = 71 /\ Settled /\ target = "mouse"
        BY <1>3, <2>2 DEF Booting, Enabling, Taking
    <3> QED BY <1>1, <2>2, <3>1 DEF Enabling, Settled
  <2>3. CASE ip \in {22, 28}
    <3>1. command_byte = 71 /\ ((Taking("0x60", 246) \/ Taking("0x60", 244)) \/ MouseAnswers)
        BY <2>3 DEF Booting, Enabling
    <3>2. Acknowledged
      <4>1. obf \/ (input = <<>> /\ keyboard = <<>> /\ mouse = <<>>)
          BY <1>3, <2>3, <3>1, Bits
      <4> QED BY <3>1, <4>1 DEF MouseAnswers, Taking, Acknowledged
    <3>3. ip = 28 => reporting
        BY <1>1, <1>3, <3>2 DEF Booting, Enabling, Acknowledged, Taking
    <3> QED BY <1>1, <2>3, <3>1, <3>2, <3>3 DEF Enabling, Acknowledged
  <2>4. CASE ip = 24
      BY <1>1, <2>4 DEF Booting, Enabling, Settled
  <2>5. CASE ip < 18
      BY <1>1, <2>5 DEF Enabling
  <2> QED BY <1>2, <2>1, <2>2, <2>3, <2>4, <2>5
<1>7. Unused'
    BY <1>1 DEF Booting, Unused
<1> QED BY <1>1, <1>2, <1>4, <1>5, <1>6, <1>7 DEF Booting

\* A read: the byte is the one the next access counts on.
LEMMA BootRead ==
    ASSUME Booting, M!Read
    PROVE  Booting'
<1>1. /\ irq = 0 /\ ip \in 1..30
      /\ M!init_mouse[ip].op = "inb"
      /\ obf' = FALSE /\ config' = M!Or2(port60.byte)
      /\ ip' = M!After(M!init_mouse[ip].arg, port60.byte)
      /\ UNCHANGED <<input, target, port60, command_byte, irq, keyboard, mouse, reporting,
                     registered, mouse_cycle, mouse_byte, mouse_x_pos, mouse_y_pos, expected>>
    BY DEF Booting, M!Read, M!At, M!arg, M!controller, M!devices, M!handler, M!history
<1>2. ip \in {5, 8, 13, 23, 29}
    BY <1>1, Accesses
<1>3. /\ Settled \/ (ip \in {23, 29} /\ Acknowledged)
      /\ ip \in {5, 8, 13} => target = "keyboard"
      /\ ip \in {5, 8, 13} => command_byte = 69
      /\ ip \in {23, 29} => command_byte = 71 /\ port60 = M!Reply(M!ACK)
    BY <1>2 DEF Booting, Identifying, Configuring, Enabling, Acknowledged
<1>4. Settled'
    BY <1>1, <1>3 DEF Settled, Acknowledged
<1>8. Unused'
    BY <1>1 DEF Booting, Unused
<1>5. CASE ip \in {5, 8}
  <2>1. ip' \in {6, 9, 10}
    <3>1. /\ ip = 5 => M!init_mouse[ip].arg = "any"
          /\ ip = 8 => M!init_mouse[ip].arg = "rate"
        BY Script DEF Writes
    <3> QED BY <1>1, <1>5, <3>1 DEF M!After
  <2>2. KeyboardAnswers'
      BY <1>1, <1>3, <1>4, <1>5 DEF KeyboardAnswers, ByHandler, Settled
  <2>3. Identifying' /\ Configuring' /\ Enabling'
    <3>1. Settled' /\ KeyboardAnswers' /\ target' = "keyboard" /\ command_byte' = 69 /\ input' = <<>>
        BY <1>1, <1>3, <1>4, <1>5, <2>2 DEF Settled
    <3>2. Identifying'
        BY <2>1, <3>1 DEF Identifying
    <3> QED BY <2>1, <3>2 DEF Configuring, Enabling
  <2> QED BY <1>8, <2>1, <2>3 DEF Booting
<1>6. CASE ip = 13
  <2>1. ip' = 14 /\ config' = 71
    <3>1. M!init_mouse[ip].arg = "any" /\ port60.byte = 69
        BY <1>6, Script DEF Writes, Booting, Configuring, M!Reply
    <3> QED BY <1>1, <1>6, <3>1, Bits DEF M!After
  <2>2. Identifying' /\ Configuring' /\ Enabling'
      BY <1>1, <1>3, <1>4, <1>6, <2>1 DEF Identifying, Configuring, Enabling
  <2> QED BY <1>8, <2>1, <2>2 DEF Booting
<1>7. CASE ip \in {23, 29}
  <2>1. ip' = ip + 1 /\ ip' \in {24, 30}
    <3>1. port60.byte = M!ACK
        BY <1>3, <1>7 DEF M!Reply
    <3> QED BY <1>1, <1>7, <3>1 DEF M!After
  <2>2. ip = 29 => reporting
      BY DEF Booting, Enabling
  <2>3. Identifying' /\ Configuring' /\ Enabling'
      BY <1>1, <1>3, <1>4, <1>7, <2>1, <2>2 DEF Identifying, Configuring, Enabling
  <2> QED BY <1>8, <2>1, <2>3 DEF Booting
<1> QED BY <1>2, <1>5, <1>6, <1>7

\* The controller takes a write, and passes it on to the device it is for.
LEMMA Take ==
    ASSUME M!TakeInput, NEW port, NEW data, input = <<Writes(port, data)>>
    PROVE  /\ input' = <<>>
           /\ target' = CASE port = "0x64" /\ data = 212 -> "mouse"
                          [] port = "0x64" /\ data = 96 -> "command"
                          [] OTHER -> "keyboard"
           /\ LET to == IF port = "0x64" THEN "controller" ELSE target
              IN  /\ command_byte' = IF to = "command" THEN data
                                     ELSE IF to = "controller" /\ data = 168 /\ M!Bit(command_byte, 5)
                                     THEN command_byte - 32 ELSE command_byte
                  /\ keyboard' = IF to = "keyboard" THEN keyboard \o M!KeyboardAnswer(data)
                                 ELSE IF to = "controller" /\ data = 32
                                 THEN <<M!Reply(command_byte)>> \o keyboard ELSE keyboard
                  /\ mouse' = IF to = "mouse" THEN Append(mouse, M!Reply(M!ACK)) ELSE mouse
                  /\ reporting' = (reporting \/ (to = "mouse" /\ data = 244))
           /\ UNCHANGED <<port60, obf, irq, ip, config, registered, mouse_cycle, mouse_byte,
                          mouse_x_pos, mouse_y_pos, expected>>
<1>1. Head(input).op = port /\ Head(input).arg = data
    BY DEF Writes
<1> QED BY <1>1 DEF M!TakeInput, M!handler, M!history

\* A write is taken: what it asks for is on the way.
LEMMA BootTake ==
    ASSUME Booting, M!TakeInput
    PROVE  Booting'
<1>1. ip \in 1..30 /\ input # <<>>
    BY DEF Booting, M!TakeInput
<1>2. ip \in {3, 4, 7, 10, 12, 16, 18, 20, 22, 26, 28}
  <2>1. CASE ip < 12
      BY <1>1, <2>1 DEF Booting, Identifying, Settled
  <2>2. CASE ip \in 12..18
      BY <1>1, <2>2 DEF Booting, Configuring, Settled
  <2>3. CASE ip > 18
      BY <1>1, <2>3 DEF Booting, Enabling, Settled, Acknowledged
  <2> QED BY <1>1, <2>1, <2>2, <2>3
<1>3. Unused' /\ ip' = ip
    BY DEF Booting, Unused, M!TakeInput, M!handler, M!history
<1>4. CASE ip = 3
  <2>1. Taking("0x64", 168) /\ command_byte = 101
      BY <1>1, <1>4 DEF Booting, Identifying, Settled
  <2>2. input' = <<>> /\ target' = "keyboard" /\ command_byte' = 69
        /\ keyboard' = keyboard /\ mouse' = mouse /\ obf' = obf /\ irq' = irq
      BY <2>1, Take, Bits DEF Taking
  <2>3. Settled'
      BY <2>1, <2>2 DEF Taking, Settled
  <2>4. Identifying' /\ Configuring' /\ Enabling'
      BY <1>3, <1>4, <2>2, <2>3 DEF Identifying, Configuring, Enabling
  <2> QED BY <1>1, <1>3, <2>4 DEF Booting
<1>5. CASE ip \in {4, 7, 10}
  <2>1. PICK data : Taking("0x60", data)
      BY <1>1, <1>5 DEF Booting, Identifying, KeyboardAnswers
  <2>2. KeyboardAnswers /\ command_byte = 69
      BY <1>5 DEF Booting, Identifying
  <2>3. input' = <<>> /\ target' = "keyboard" /\ command_byte' = 69
        /\ mouse' = mouse /\ obf' = obf /\ irq' = irq
      BY <2>1, <2>2, Take DEF Taking, KeyboardAnswers, ByHandler
  <2>4. KeyboardAnswers'
      BY <2>2, <2>3 DEF KeyboardAnswers, ByHandler
  <2>5. Identifying' /\ Configuring' /\ Enabling'
      BY <1>3, <1>5, <2>3, <2>4 DEF Identifying, Configuring, Enabling
  <2> QED BY <1>1, <1>3, <2>5 DEF Booting
<1>6. CASE ip = 12
  <2>1. Taking("0x64", 32) /\ command_byte = 69
      BY <1>1, <1>6 DEF Booting, Identifying, Configuring, CommandByte
  <2>2. input' = <<>> /\ target' = "keyboard" /\ command_byte' = 69
        /\ keyboard' = <<M!Reply(69)>> \o <<>> /\ mouse' = mouse /\ obf' = obf /\ irq' = irq
      BY <2>1, Take DEF Taking
  <2>3. keyboard' = <<M!Reply(69)>>
      BY <2>2
  <2>4. CommandByte'
      BY <2>1, <2>2, <2>3 DEF CommandByte, ByHandler, Taking
  <2>5. Identifying' /\ Configuring' /\ Enabling'
      BY <1>3, <1>6, <2>2, <2>4 DEF Identifying, Configuring, Enabling
  <2> QED BY <1>1, <1>3, <2>5 DEF Booting
<1>7. CASE ip = 16
  <2>1. Taking("0x64", 96) /\ command_byte = 69 /\ config = 71
      BY <1>1, <1>7 DEF Booting, Identifying, Configuring, Settled
  <2>2. input' = <<>> /\ target' = "command" /\ command_byte' = 69 /\ config' = config
        /\ keyboard' = keyboard /\ mouse' = mouse /\ obf' = obf /\ irq' = irq
      BY <2>1, Take DEF Taking
  <2>3. Settled'
      BY <2>1, <2>2 DEF Taking, Settled
  <2>4. Identifying' /\ Configuring' /\ Enabling'
      BY <1>3, <1>7, <2>1, <2>2, <2>3 DEF Identifying, Configuring, Enabling
  <2> QED BY <1>1, <1>3, <2>4 DEF Booting
<1>8. CASE ip = 18
  <2>1. Taking("0x60", 71) /\ target = "command"
      BY <1>1, <1>8 DEF Booting, Configuring, Settled
  <2>2. input' = <<>> /\ command_byte' = 71
        /\ keyboard' = keyboard /\ mouse' = mouse /\ obf' = obf /\ irq' = irq
      BY <2>1, Take DEF Taking
  <2>3. Settled'
      BY <2>1, <2>2 DEF Taking, Settled
  <2>4. Identifying' /\ Configuring' /\ Enabling'
      BY <1>3, <1>8, <2>1, <2>2, <2>3 DEF Identifying, Configuring, Enabling
  <2> QED BY <1>1, <1>3, <2>4 DEF Booting
<1>9. CASE ip \in {20, 26}
  <2>1. Taking("0x64", 212) /\ command_byte = 71
      BY <1>1, <1>9 DEF Booting, Enabling, Settled
  <2>2. input' = <<>> /\ target' = "mouse" /\ command_byte' = 71
        /\ keyboard' = keyboard /\ mouse' = mouse /\ obf' = obf /\ irq' = irq
      BY <2>1, Take DEF Taking
  <2>3. Settled'
      BY <2>1, <2>2 DEF Taking, Settled
  <2>4. Identifying' /\ Configuring' /\ Enabling'
      BY <1>3, <1>9, <2>2, <2>3 DEF Identifying, Configuring, Enabling
  <2> QED BY <1>1, <1>3, <2>4 DEF Booting
<1>10. CASE ip \in {22, 28}
  <2>1. PICK data \in {246, 244} : Taking("0x60", data) /\ (ip = 28 => data = 244)
      BY <1>1, <1>10 DEF Booting, Enabling, MouseAnswers, Acknowledged
  <2>2. target = "mouse" /\ command_byte = 71
      BY <1>1, <1>10 DEF Booting, Enabling, MouseAnswers, Acknowledged
  <2>3. input' = <<>> /\ command_byte' = 71 /\ mouse' = Append(<<>>, M!Reply(M!ACK))
        /\ keyboard' = keyboard /\ obf' = obf /\ irq' = irq
      BY <2>1, <2>2, Take DEF Taking
  <2>7. data = 244 => reporting'
    <3>1. reporting' = (reporting \/ (target = "mouse" /\ data = 244))
        BY <2>1, Take DEF Taking
    <3> QED BY <2>2, <3>1
  <2>4. mouse' = <<M!Reply(M!ACK)>>
      BY <2>3
  <2>5. MouseAnswers'
      BY <2>1, <2>3, <2>4 DEF Taking, MouseAnswers
  <2>6. Identifying' /\ Configuring' /\ Enabling'
      BY <1>3, <1>10, <2>1, <2>3, <2>5, <2>7 DEF Identifying, Configuring, Enabling
  <2> QED BY <1>1, <1>3, <2>6 DEF Booting
<1> QED BY <1>2, <1>4, <1>5, <1>6, <1>7, <1>8, <1>9, <1>10

\* An answer reaches the output buffer and raises its request.
LEMMA BootDeliver ==
    ASSUME Booting, M!Deliver
    PROVE  Booting'
<1>1. /\ ip \in 1..30 /\ ip' = ip /\ ~obf /\ input = <<>> /\ obf' = TRUE
      /\ UNCHANGED <<input, target, command_byte, reporting, config>>
      /\ \/ /\ keyboard # <<>> /\ port60' = Head(keyboard) /\ keyboard' = Tail(keyboard)
            /\ irq' = IF M!Bit(command_byte, 0) THEN 1 ELSE 0
            /\ mouse' = mouse
         \/ /\ mouse # <<>> /\ port60' = Head(mouse) /\ mouse' = Tail(mouse)
            /\ irq' = IF M!Bit(command_byte, 1) THEN 12 ELSE 0
            /\ keyboard' = keyboard
    BY DEF Booting, M!Deliver
<1>2. Unused'
    BY DEF Booting, Unused, M!Deliver, M!handler, M!history
<1>3. ip \in {4, 7, 10, 11, 12, 22, 28}
  <2>1. CASE ip < 12
      BY <1>1, <2>1 DEF Booting, Identifying, Settled, Taking
  <2>2. CASE ip \in 12..18
      BY <1>1, <2>2 DEF Booting, Configuring, Settled, Taking
  <2>3. CASE ip > 18
      BY <1>1, <2>3 DEF Booting, Enabling, Settled, Taking, Acknowledged
  <2> QED BY <1>1, <2>1, <2>2, <2>3
<1>4. CASE ip \in {4, 7, 10, 11}
  <2>1. KeyboardAnswers /\ command_byte = 69
      BY <1>4 DEF Booting, Identifying
  <2>2. KeyboardAnswers'
      BY <1>1, <2>1, Bits DEF KeyboardAnswers, ByHandler
  <2>3. Identifying' /\ Configuring' /\ Enabling'
      BY <1>1, <1>4, <2>1, <2>2 DEF Identifying, Configuring, Enabling
  <2> QED BY <1>1, <1>2, <2>3 DEF Booting
<1>5. CASE ip = 12
  <2>1. CommandByte /\ command_byte = 69
      BY <1>5 DEF Booting, Identifying, Configuring
  <2>2. keyboard = <<M!Reply(69)>>
      BY <1>1, <2>1 DEF CommandByte, ByHandler, Taking
  <2>3. port60' = M!Reply(69) /\ keyboard' = <<>> /\ irq' = 1 /\ mouse' = mouse
      BY <1>1, <2>1, <2>2, Bits DEF CommandByte, ByHandler
  <2>4. CommandByte'
      BY <1>1, <2>1, <2>3 DEF CommandByte, ByHandler
  <2>5. Identifying' /\ Configuring' /\ Enabling'
      BY <1>1, <1>5, <2>1, <2>4 DEF Identifying, Configuring, Enabling
  <2> QED BY <1>1, <1>2, <2>5 DEF Booting
<1>6. CASE ip \in {22, 28}
  <2>1. MouseAnswers /\ command_byte = 71 /\ (ip = 28 => reporting)
      BY <1>1, <1>6 DEF Booting, Enabling, Taking
  <2>2. mouse = <<M!Reply(M!ACK)>> /\ keyboard = <<>>
      BY <1>1, <2>1 DEF MouseAnswers, Acknowledged
  <2>3. port60' = M!Reply(M!ACK) /\ mouse' = <<>> /\ irq' = 12 /\ keyboard' = <<>>
      BY <1>1, <2>1, <2>2, Bits
  <2>4. MouseAnswers'
      BY <1>1, <2>3 DEF MouseAnswers, Acknowledged
  <2>5. Identifying' /\ Configuring' /\ Enabling'
      BY <1>1, <1>6, <2>1, <2>4 DEF Identifying, Configuring, Enabling
  <2> QED BY <1>1, <1>2, <2>5 DEF Booting
<1> QED BY <1>3, <1>4, <1>5, <1>6

\* An interrupt: the keyboard's handler takes an answer meant for init_mouse,
\* nobody takes the mouse's.
LEMMA BootHandle ==
    ASSUME Booting, M!Handle, hooked
    PROVE  Booting'
<1>1. /\ ip \in 1..30 /\ ip' = ip /\ irq' = 0
      /\ UNCHANGED <<input, target, port60, command_byte, keyboard, mouse, reporting, config>>
      /\ (irq = 12 /\ obf' = obf) \/ (irq = 1 /\ obf' = FALSE)
    BY DEF Booting, Unused, M!Handle, M!UnhandledIRQ, M!keyboard_handler, M!mouse_handler,
           M!controller, M!devices
<1>2. Unused'
  <2>1. UNCHANGED <<reporting, registered, mouse_cycle, mouse_byte, mouse_x_pos, mouse_y_pos, expected>>
      BY DEF Booting, Unused, M!Handle, M!UnhandledIRQ, M!keyboard_handler, M!mouse_handler,
             M!devices, M!handler, M!history
  <2> QED BY <1>1, <2>1 DEF Booting, Unused
<1>3. ip \in {4, 7, 10, 11, 12, 22, 28}
  <2>1. CASE ip < 12
      BY <1>1, <2>1 DEF Booting, Identifying, Settled, Taking
  <2>2. CASE ip \in 12..18
      BY <1>1, <2>2 DEF Booting, Configuring, Settled, Taking
  <2>3. CASE ip > 18
      BY <1>1, <2>3 DEF Booting, Enabling, Settled, Taking
  <2> QED BY <1>1, <2>1, <2>2, <2>3
<1>4. CASE ip \in {4, 7, 10, 11}
  <2>1. KeyboardAnswers /\ command_byte = 69
      BY <1>4 DEF Booting, Identifying
  <2>2. KeyboardAnswers' /\ input' = <<>>
      BY <1>1, <2>1 DEF KeyboardAnswers, ByHandler, Taking
  <2>3. Identifying' /\ Configuring' /\ Enabling'
      BY <1>1, <1>4, <2>1, <2>2 DEF Identifying, Configuring, Enabling
  <2> QED BY <1>1, <1>2, <2>3 DEF Booting
<1>5. CASE ip = 12
  <2>1. CommandByte /\ command_byte = 69
      BY <1>5 DEF Booting, Identifying, Configuring
  <2>2. CommandByte'
      BY <1>1, <2>1 DEF CommandByte, ByHandler, Taking
  <2>3. Identifying' /\ Configuring' /\ Enabling'
      BY <1>1, <1>5, <2>1, <2>2 DEF Identifying, Configuring, Enabling
  <2> QED BY <1>1, <1>2, <2>3 DEF Booting
<1>6. CASE ip \in {22, 28}
  <2>1. Acknowledged /\ irq = 12 /\ command_byte = 71 /\ (ip = 28 => reporting)
      BY <1>1, <1>6 DEF Booting, Enabling, Taking, MouseAnswers
  <2>2. MouseAnswers'
      BY <1>1, <2>1 DEF MouseAnswers, Acknowledged
  <2>3. Identifying' /\ Configuring' /\ Enabling'
      BY <1>1, <1>6, <2>1, <2>2 DEF Identifying, Configuring, Enabling
  <2> QED BY <1>1, <1>2, <2>3 DEF Booting
<1> QED BY <1>3, <1>4, <1>5, <1>6

\* The initialisation ends.
LEMMA BootRegister ==
    ASSUME Booting, M!IRQ_RegisterHandler
    PROVE  Running'
<1>1. /\ ip \in 1..30 /\ irq = 0 /\ ip' = ip + 1 /\ registered' = TRUE
      /\ M!init_mouse[ip].op = "IRQ_RegisterHandler"
      /\ UNCHANGED <<input, target, port60, obf, command_byte, irq, keyboard, mouse, reporting, config,
                     mouse_cycle, mouse_byte, mouse_x_pos, mouse_y_pos, expected>>
    BY DEF Booting, M!IRQ_RegisterHandler, M!At, M!controller, M!devices, M!history
<1>2. ip = 30
    BY <1>1, Accesses
<1>3. Settled /\ command_byte = 71 /\ reporting /\ Unused
    BY <1>2 DEF Booting, Enabling
<1>4. Enabled'
    BY <1>1, <1>2, <1>3 DEF Enabled, Settled, Unused
<1>5. Queued(0, <<>>)'
    BY <1>1, <1>3 DEF Queued, Handed, Settled, Unused
<1>6. Leads(0, <<>>, [k \in {0} |-> expected])'
    BY <1>1, <1>3 DEF Leads, Unused
<1>7. (\E S : mouse \in Seq(S))'
  <2>1. mouse' \in Seq({})
      BY <1>1, <1>3 DEF Settled
  <2> QED BY <2>1
<1>8. OnTheWay'
  <2>1. 0 \in Nat
      OBVIOUS
  <2> QED BY <1>5, <1>6, <1>7, <2>1 DEF OnTheWay
<1> QED BY <1>4, <1>8 DEF Running

\* A byte of the keyboard, or the next one of a packet, is delivered.
LEMMA RunDeliver ==
    ASSUME Running, M!Deliver
    PROVE  Running'
<1>1. /\ ~obf /\ obf' = TRUE /\ irq = 0
      /\ UNCHANGED <<ip, registered, reporting, input, command_byte, mouse_cycle, mouse_byte,
                     mouse_x_pos, mouse_y_pos, expected>>
      /\ \/ irq' = 1 /\ mouse' = mouse
         \/ mouse # <<>> /\ port60' = Head(mouse) /\ mouse' = Tail(mouse) /\ irq' = 12
  <2>1. command_byte = 71 /\ (obf <=> irq # 0) /\ irq \in {0, 1, 12}
      BY DEF Running, Enabled
  <2> QED BY <2>1, Bits DEF M!Deliver, M!handler, M!history
<1>2. Enabled'
    BY <1>1 DEF Running, Enabled
<1>3. PICK S : mouse \in Seq(S)
    BY DEF Running, OnTheWay
<1>4. PICK n \in Nat : \E queue, path : Queued(n, queue) /\ Leads(n, queue, path)
    BY DEF Running, OnTheWay
<1>5. PICK queue, path : Queued(n, queue) /\ Leads(n, queue, path)
    BY <1>4
<1>6. Leads(n, queue, path)'
    BY <1>1, <1>5 DEF Leads
<1>7. mouse_cycle \in 0..2
    BY DEF Running, Enabled
<1>8. Queued(n, queue)' /\ mouse' \in Seq(S)
  <2>1. CASE irq' = 1 /\ mouse' = mouse
      BY <1>1, <1>3, <1>5, <2>1 DEF Queued, Handed
  <2>2. CASE mouse # <<>> /\ port60' = Head(mouse) /\ mouse' = Tail(mouse) /\ irq' = 12
    <3>1. Handed = mouse_cycle /\ Handed' = mouse_cycle + 1
        BY <1>1, <1>7, <2>2 DEF Handed
    <3>2. /\ Len(mouse) \in Nat \ {0} /\ Len(mouse') = Len(mouse) - 1 /\ mouse' \in Seq(S)
          /\ port60' = mouse[1]
          /\ \A j \in 1..Len(mouse') : mouse'[j] = mouse[j + 1]
        BY <1>3, <2>2
    <3>3. Len(mouse) + mouse_cycle = 3 * n
        BY <1>5, <3>1 DEF Queued
    <3>4. \A k \in 1..n, f \in 1..3 : 3 * (k - 1) + f > mouse_cycle =>
              mouse[3 * (k - 1) + f - mouse_cycle] = M!Packet(queue[k])[f]
        BY <1>5, <3>1 DEF Queued
    <3>5. port60' = M!Packet(queue[1])[mouse_cycle + 1]
      <4>1. 1 \in 1..n /\ mouse_cycle + 1 \in 1..3 /\ 3 * (1 - 1) + (mouse_cycle + 1) - mouse_cycle = 1
          BY <1>7, <3>2, <3>3
      <4> QED BY <1>7, <3>2, <3>4, <4>1
    <3>6. ASSUME NEW k \in 1..n, NEW f \in 1..3, 3 * (k - 1) + f > mouse_cycle + 1
          PROVE  mouse'[3 * (k - 1) + f - (mouse_cycle + 1)] = M!Packet(queue[k])[f]
      <4>1. 3 * (k - 1) + f - (mouse_cycle + 1) \in 1..Len(mouse')
          BY <1>7, <3>2, <3>3, <3>6
      <4>2. mouse'[3 * (k - 1) + f - (mouse_cycle + 1)] = mouse[3 * (k - 1) + f - mouse_cycle]
          BY <1>7, <3>2, <4>1
      <4> QED BY <1>7, <3>4, <3>6, <4>2
    <3>7. mouse_cycle = 2 => mouse_byte[1] = queue[1][1]
        BY <1>5 DEF Queued
    <3> QED BY <1>1, <1>7, <3>1, <3>2, <3>3, <3>5, <3>6, <3>7 DEF Queued
  <2> QED BY <1>1, <2>1, <2>2
<1>9. OnTheWay'
    BY <1>6, <1>8 DEF OnTheWay
<1> QED BY <1>2, <1>9 DEF Running

\* A handler runs: the keyboard's changes nothing of the mouse's, the mouse's
\* has one byte more, or the whole first packet and moves the pointer by it.
LEMMA RunHandle ==
    ASSUME Running, M!Handle, hooked
    PROVE  Running'
<1>1. registered /\ mouse_cycle \in 0..2 /\ DOMAIN mouse_byte = 0..2
    BY DEF Running, Enabled
<1>2. /\ irq' = 0 /\ irq \in {1, 12} /\ obf' = FALSE
      /\ UNCHANGED <<ip, registered, reporting, input, port60, command_byte, mouse, expected>>
      /\ irq = 1 => UNCHANGED <<mouse_cycle, mouse_byte, mouse_x_pos, mouse_y_pos>>
      /\ irq = 12 => /\ mouse_byte' = [mouse_byte EXCEPT ![mouse_cycle] = port60.byte]
                     /\ mouse_cycle' = (mouse_cycle + 1) % 3
                     /\ IF mouse_cycle = 2
                        THEN /\ mouse_x_pos' = M!PutOnScreen(mouse_x_pos + mouse_byte[1], MouseWidth)
                             /\ mouse_y_pos' = M!PutOnScreen(mouse_y_pos - port60.byte, MouseHeight)
                        ELSE UNCHANGED <<mouse_x_pos, mouse_y_pos>>
  <2>1. M!keyboard_handler \/ M!mouse_handler
    <3>1. irq = 12 => registered
        BY <1>1
    <3> QED BY <3>1 DEF M!Handle, M!UnhandledIRQ
  <2>2. CASE M!keyboard_handler
      BY <2>2 DEF M!keyboard_handler, M!devices, M!handler, M!history
  <2>3. CASE M!mouse_handler
      BY <2>3 DEF M!mouse_handler, M!NextCycle, M!devices, M!history
  <2> QED BY <2>1, <2>2, <2>3
<1>3. mouse_cycle' \in 0..2 /\ DOMAIN mouse_byte' = 0..2
    BY <1>1, <1>2
<1>4. Enabled'
    BY <1>2, <1>3 DEF Running, Enabled
<1>5. PICK S : mouse \in Seq(S)
    BY DEF Running, OnTheWay
<1>6. PICK n \in Nat : \E queue, path : Queued(n, queue) /\ Leads(n, queue, path)
    BY DEF Running, OnTheWay
<1>7. PICK queue, path : Queued(n, queue) /\ Leads(n, queue, path)
    BY <1>6
<1>8. (\E Q : mouse \in Seq(Q))'
    BY <1>2, <1>5
<1>9. CASE irq = 1
  <2>1. Handed' = Handed
      BY <1>2, <1>9 DEF Handed
  <2>2. Queued(n, queue)' /\ Leads(n, queue, path)'
      BY <1>2, <1>7, <1>9, <2>1 DEF Queued, Leads
  <2> QED BY <1>4, <1>8, <2>2 DEF Running, OnTheWay
<1>10. CASE irq = 12 /\ mouse_cycle # 2
  <2>1. Handed' = Handed /\ mouse_cycle' = mouse_cycle + 1
      BY <1>1, <1>2, <1>10 DEF Handed
  <2>2. mouse_cycle' = 2 => mouse_byte'[1] = queue[1][1]
    <3>1. CASE mouse_cycle = 1
      <4>1. port60 = M!Packet(queue[1])[2]
          BY <1>7, <1>10, <3>1 DEF Queued
      <4>2. port60.byte = queue[1][1]
          BY <4>1 DEF M!Packet
      <4> QED BY <1>1, <1>2, <1>10, <3>1, <4>2
    <3> QED BY <1>1, <2>1, <3>1
  <2>3. Queued(n, queue)'
      BY <1>2, <1>7, <2>1, <2>2 DEF Queued
  <2>4. Leads(n, queue, path)'
      BY <1>2, <1>7, <1>10 DEF Leads
  <2> QED BY <1>4, <1>8, <2>3, <2>4 DEF Running, OnTheWay
<1>11. CASE irq = 12 /\ mouse_cycle = 2
  <2> DEFINE rest == [k \in 1..(n - 1) |-> queue[k + 1]]
             onward == [k \in 0..(n - 1) |-> path[k + 1]]
  <2>1. Handed = 3 /\ Handed' = 0 /\ mouse_cycle' = 0
      BY <1>2, <1>11 DEF Handed
  <2>2. Len(mouse) \in Nat /\ Len(mouse) + 3 = 3 * n /\ n >= 1
      BY <1>5, <1>7, <2>1 DEF Queued
  <2>3. port60.byte = queue[1][2] /\ mouse_byte[1] = queue[1][1]
    <3>1. port60 = M!Packet(queue[1])[3] /\ mouse_byte[1] = queue[1][1]
        BY <1>7, <1>11 DEF Queued
    <3> QED BY <3>1 DEF M!Packet
  <2>4. <<mouse_x_pos', mouse_y_pos'>> = path[1]
    <3>1. path[1] = Step(path[0], queue[1])
        BY <1>7, <2>2 DEF Leads
    <3>2. path[0] = <<mouse_x_pos, mouse_y_pos>>
        BY <1>7 DEF Leads
    <3> QED BY <1>2, <1>11, <2>3, <3>1, <3>2 DEF Step
  <2>5. ASSUME NEW k \in 1..(n - 1), NEW f \in 1..3
        PROVE  mouse'[3 * (k - 1) + f - 0] = M!Packet(rest[k])[f]
    <3>1. k + 1 \in 1..n /\ 3 * ((k + 1) - 1) + f > 3
        BY <2>2
    <3>2. 3 * ((k + 1) - 1) + f - 3 = 3 * (k - 1) + f - 0
        BY <2>2
    <3>3. mouse[3 * ((k + 1) - 1) + f - 3] = M!Packet(queue[k + 1])[f]
        BY <1>7, <2>1, <3>1 DEF Queued
    <3> QED BY <1>2, <3>2, <3>3
  <2>6. Queued(n - 1, rest)'
    <3> HIDE DEF rest
    <3> QED BY <1>2, <2>1, <2>2, <2>5 DEF Queued
  <2>7. Leads(n - 1, rest, onward)'
    <3>1. onward[0] = path[1] /\ onward[n - 1] = path[n]
        BY <2>2
    <3>2. ASSUME NEW k \in 1..(n - 1)
          PROVE  onward[k] = Step(onward[k - 1], rest[k])
      <4>1. onward[k] = path[k + 1] /\ onward[k - 1] = path[k] /\ rest[k] = queue[k + 1]
          BY <2>2
      <4>2. path[k + 1] = Step(path[(k + 1) - 1], queue[k + 1]) /\ (k + 1) - 1 = k
          BY <1>7, <2>2 DEF Leads
      <4> QED BY <4>1, <4>2
    <3>3. path[n] = expected
        BY <1>7 DEF Leads
    <3> HIDE DEF rest, onward
    <3> QED BY <1>2, <2>4, <3>1, <3>2, <3>3 DEF Leads
  <2>8. n - 1 \in Nat
      BY <2>2
  <2> HIDE DEF rest, onward
  <2> QED BY <1>4, <1>8, <2>6, <2>7, <2>8 DEF Running, OnTheWay
<1> QED BY <1>2, <1>9, <1>10, <1>11

\* The mouse moves: one packet more.
LEMMA RunMove ==
    ASSUME Running, NEW move, M!Move(move)
    PROVE  Running'
<1> DEFINE packet == M!Packet(move)
<1>1. /\ mouse' = mouse \o packet
      /\ expected' = <<M!PutOnScreen(expected[1] + move[1], MouseWidth),
                       M!PutOnScreen(expected[2] - move[2], MouseHeight)>>
      /\ UNCHANGED <<ip, registered, reporting, input, port60, obf, command_byte, irq, mouse_cycle,
                     mouse_byte, mouse_x_pos, mouse_y_pos>>
    BY DEF M!Move, M!controller, M!handler
<1>2. Enabled'
    BY <1>1 DEF Running, Enabled
<1>3. PICK S : mouse \in Seq(S)
    BY DEF Running, OnTheWay
<1>4. PICK n \in Nat : \E queue, path : Queued(n, queue) /\ Leads(n, queue, path)
    BY DEF Running, OnTheWay
<1>5. PICK queue, path : Queued(n, queue) /\ Leads(n, queue, path)
    BY <1>4
<1>15. PICK point : point = expected'
    OBVIOUS
<1> DEFINE more == [k \in 1..(n + 1) |-> IF k <= n THEN queue[k] ELSE move]
           onward == [k \in 0..(n + 1) |-> IF k <= n THEN path[k] ELSE point]
<1>6. mouse_cycle \in 0..2 /\ Handed \in 0..3 /\ Handed' = Handed
    BY <1>1 DEF Running, Enabled, Handed
<1>7. packet \in Seq({packet[1], packet[2], packet[3]}) /\ Len(packet) = 3
    BY DEF M!Packet
<1> HIDE DEF packet
<1>8. /\ mouse' \in Seq(S \cup {packet[1], packet[2], packet[3]})
      /\ Len(mouse) \in Nat /\ Len(mouse') = Len(mouse) + 3
      /\ \A j \in 1..Len(mouse) : mouse'[j] = mouse[j]
      /\ \A f \in 1..3 : mouse'[Len(mouse) + f] = packet[f]
  <2> DEFINE all == S \cup {packet[1], packet[2], packet[3]}
  <2>1. mouse \in Seq(all) /\ packet \in Seq(all)
      BY <1>3, <1>7
  <2> HIDE DEF all
  <2>5. Len(packet) = 3
      BY <1>7
  <2>6. /\ mouse \o packet \in Seq(all) /\ Len(mouse) \in Nat
        /\ Len(mouse \o packet) = Len(mouse) + Len(packet)
        /\ \A f \in 1..Len(packet) : (mouse \o packet)[Len(mouse) + f] = packet[f]
      BY <2>1
  <2>2. mouse' \in Seq(all) /\ Len(mouse) \in Nat /\ Len(mouse') = Len(mouse) + 3
      BY <1>1, <2>5, <2>6
  <2>3. \A j \in 1..Len(mouse) : mouse'[j] = mouse[j]
      BY <1>1, <2>1
  <2>4. \A f \in 1..3 : mouse'[Len(mouse) + f] = packet[f]
      BY <1>1, <2>5, <2>6
  <2> QED BY <2>2, <2>3, <2>4 DEF all
<1>9. Len(mouse) + Handed = 3 * n
    BY <1>5 DEF Queued
<1>10. ASSUME NEW k \in 1..(n + 1), NEW f \in 1..3, 3 * (k - 1) + f > Handed
       PROVE  mouse'[3 * (k - 1) + f - Handed] = M!Packet(more[k])[f]
  <2>1. CASE k <= n
    <3>1. mouse[3 * (k - 1) + f - Handed] = M!Packet(queue[k])[f]
        BY <1>5, <1>10, <2>1 DEF Queued
    <3>2. 3 * (k - 1) + f - Handed \in 1..Len(mouse)
      <4> DEFINE last == Len(mouse)
                 handed == Handed
      <4>1. last \in Nat /\ handed \in 0..3 /\ last + handed = 3 * n /\ 3 * (k - 1) + f > handed
          BY <1>6, <1>8, <1>9, <1>10
      <4> HIDE DEF last, handed
      <4>2. 3 * (k - 1) + f - handed \in 1..last
          BY <2>1, <4>1
      <4> QED BY <4>2 DEF last, handed
    <3> QED BY <1>8, <2>1, <3>1, <3>2
  <2>2. CASE k = n + 1
    <3>1. 3 * (k - 1) + f - Handed = Len(mouse) + f
      <4>1. 3 * (k - 1) = Len(mouse) + Handed
          BY <1>9, <2>2
      <4>2. Len(mouse) \in Nat /\ Handed \in Int
          BY <1>6, <1>8
      <4> QED BY <4>1, <4>2
    <3>2. more[k] = move
        BY <2>2
    <3> QED BY <1>8, <3>1, <3>2 DEF packet
  <2> QED BY <2>1, <2>2
<1>11. irq = 12 \/ mouse_cycle = 2 => more[1] = queue[1]
  <2>1. irq = 12 \/ mouse_cycle = 2 => Handed >= 1
      BY <1>6 DEF Handed
  <2> QED BY <1>6, <1>8, <1>9, <2>1
<1>12. Queued(n + 1, more)'
  <2>1. (irq = 12 => port60 = M!Packet(queue[1])[mouse_cycle + 1])
        /\ (mouse_cycle = 2 => mouse_byte[1] = queue[1][1])
      BY <1>5 DEF Queued
  <2>2. Len(mouse') + Handed' = 3 * (n + 1)
      BY <1>6, <1>8, <1>9
  <2> HIDE DEF more
  <2> QED BY <1>1, <1>6, <1>10, <1>11, <2>1, <2>2 DEF Queued
<1>13. Leads(n + 1, more, onward)'
  <2>1. onward[0] = <<mouse_x_pos, mouse_y_pos>> /\ onward[n + 1] = expected'
      BY <1>5, <1>15 DEF Leads
  <2>2. ASSUME NEW k \in 1..(n + 1)
        PROVE  onward[k] = Step(onward[k - 1], more[k])
    <3>1. CASE k <= n
      <4>1. onward[k] = path[k] /\ onward[k - 1] = path[k - 1] /\ more[k] = queue[k]
          BY <3>1
      <4> QED BY <1>5, <3>1, <4>1 DEF Leads
    <3>2. CASE k = n + 1
      <4>1. onward[k] = expected' /\ onward[k - 1] = path[n] /\ more[k] = move
          BY <1>15, <3>2
      <4>2. path[n] = expected
          BY <1>5 DEF Leads
      <4> QED BY <1>1, <4>1, <4>2 DEF Step
    <3> QED BY <3>1, <3>2
  <2> HIDE DEF more, onward
  <2> QED BY <1>1, <2>1, <2>2 DEF Leads
<1>14. OnTheWay'
  <2> HIDE DEF more, onward
  <2> QED BY <1>8, <1>12, <1>13 DEF OnTheWay
<1> QED BY <1>2, <1>14 DEF Running

\* Running reads the following variables only.
LEMMA RunSame ==
    ASSUME Running,
           UNCHANGED <<ip, registered, reporting, input, port60, obf, command_byte, irq, mouse,
                       mouse_cycle, mouse_byte, mouse_x_pos, mouse_y_pos, expected>>
    PROVE  Running'
<1>1. Enabled'
    BY DEF Running, Enabled
<1>2. PICK S : mouse \in Seq(S)
    BY DEF Running, OnTheWay
<1>3. PICK n \in Nat : \E queue, path : Queued(n, queue) /\ Leads(n, queue, path)
    BY DEF Running, OnTheWay
<1>4. PICK queue, path : Queued(n, queue) /\ Leads(n, queue, path)
    BY <1>3
<1>5. Queued(n, queue)'
    BY <1>4 DEF Queued, Handed
<1>6. Leads(n, queue, path)'
    BY <1>4 DEF Leads
<1>7. (\E Q : mouse \in Seq(Q))'
    BY <1>2
<1> QED BY <1>1, <1>5, <1>6, <1>7 DEF Running, OnTheWay

\* Every step keeps the mouse's invariant.
LEMMA MouseNext == MouseInv /\ [M!Next]_mouseVars => MouseInv'
<1> SUFFICES ASSUME MouseInv, [M!Next]_mouseVars, M!Quietly'
             PROVE  (Booting \/ Running)'
    BY DEF MouseInv
<1>1. CASE UNCHANGED mouseVars
  <2>1. M!Quietly
      BY <1>1 DEF mouseVars, M!Quietly
  <2>2. CASE Booting
      BY <1>1, <2>2 DEF mouseVars, Booting, Unused, Identifying, Configuring, Enabling, Settled,
                        Taking, KeyboardAnswers, ByHandler, CommandByte, MouseAnswers, Acknowledged
  <2>3. CASE Running
    <3>1. UNCHANGED <<ip, registered, reporting, input, port60, obf, command_byte, irq, mouse,
                      mouse_cycle, mouse_byte, mouse_x_pos, mouse_y_pos, expected>>
        BY <1>1 DEF mouseVars
    <3> QED BY <2>3, <3>1, RunSame
  <2> QED BY <2>1, <2>2, <2>3 DEF MouseInv
<1>2. CASE M!InitMouse
  <2>1. M!Quietly /\ ~late' /\ ip < 31
    <3>1. hooked' = hooked /\ disturbed' = disturbed /\ (late => late') /\ ip < M!Done
      <4>1. CASE M!Write
          BY <4>1 DEF M!Write, M!At, M!devices
      <4>2. CASE M!MouseWait
          BY <4>2 DEF M!MouseWait, M!At, M!devices
      <4>3. CASE M!Read
          BY <4>3 DEF M!Read, M!At, M!devices, M!history
      <4>4. CASE M!IRQ_RegisterHandler
          BY <4>4 DEF M!IRQ_RegisterHandler, M!At, M!devices, M!history
      <4> QED BY <1>2, <4>1, <4>2, <4>3, <4>4 DEF M!InitMouse
    <3> QED BY <3>1, Script DEF M!Quietly
  <2>2. Booting
      BY <2>1 DEF MouseInv, Running, Enabled
  <2> QED BY <1>2, <2>1, <2>2, BootWrite, BootWait, BootRead, BootRegister DEF M!InitMouse
<1>3. CASE M!Handle
  <2>1. M!Quietly
    <3>1. UNCHANGED <<hooked, disturbed, late>>
        BY <1>3 DEF M!Handle, M!UnhandledIRQ, M!keyboard_handler, M!mouse_handler, M!devices, M!history
    <3> QED BY <3>1 DEF M!Quietly
  <2> QED BY <1>3, <2>1, BootHandle, RunHandle DEF MouseInv, M!Quietly
<1>4. CASE M!TakeInput
  <2>1. M!Quietly
      BY <1>4 DEF M!Quietly, M!TakeInput, M!history
  <2>2. ~Running
      BY <1>4 DEF M!TakeInput, Running, Enabled
  <2> QED BY <1>4, <2>1, <2>2, BootTake DEF MouseInv
<1>5. CASE M!Deliver
  <2>1. M!Quietly
      BY <1>5 DEF M!Quietly, M!Deliver, M!history
  <2> QED BY <1>5, <2>1, BootDeliver, RunDeliver DEF MouseInv
<1>6. CASE M!PressKey
  <2>1. M!Quietly /\ ~(ip < 31)
      BY <1>6, Script DEF M!Quietly, M!PressKey
  <2>2. Running
      BY <2>1 DEF MouseInv, Booting
  <2>3. UNCHANGED <<ip, registered, reporting, input, port60, obf, command_byte, irq, mouse,
                    mouse_cycle, mouse_byte, mouse_x_pos, mouse_y_pos, expected>>
      BY <1>6 DEF M!PressKey, M!controller, M!handler
  <2> QED BY <2>2, <2>3, RunSame
<1>7. CASE \E move \in Moves : M!Move(move)
  <2>1. PICK move \in Moves : M!Move(move)
      BY <1>7
  <2>2. M!Quietly /\ registered
      BY <2>1 DEF M!Quietly, M!Move
  <2>3. Running
      BY <2>2 DEF MouseInv, Booting, Unused
  <2> QED BY <2>1, <2>3, RunMove
<1> QED BY <1>1, <1>2, <1>3, <1>4, <1>5, <1>6, <1>7 DEF M!Next, M!Hardware

\* The mouse's invariant holds throughout, whichever driver runs.
LEMMA MouseAlways == Spec => []MouseInv
<1>1. Init => MouseInv
    BY MouseInit DEF Init
<1>2. MouseInv /\ [Next]_vars => MouseInv'
  <2>1. [Next]_vars => [M!Next]_mouseVars
      BY DEF Next, Alone, vars
  <2> QED BY <2>1, MouseNext
<1> QED BY <1>1, <1>2, PTL DEF Spec

\* An initialisation that nothing disturbs and that is never ahead of a device
\* ends with the handler registered and both devices on, and from then on, for
\* any movements, the handler takes each byte for what it is and leaves the
\* pointer where the packets put it (mouse.c:125-241).
THEOREM AlwaysInStep == Spec => []InStep
<1>1. MouseInv => InStep
  <2> SUFFICES ASSUME MouseInv PROVE InStep
      OBVIOUS
  <2>1. M!Initialised
    <3> SUFFICES ASSUME ip = M!Done, M!Quietly
                 PROVE  /\ registered /\ reporting
                        /\ M!Bit(command_byte, 0) /\ M!Bit(command_byte, 1)
                        /\ ~M!Bit(command_byte, 4) /\ ~M!Bit(command_byte, 5)
        BY DEF M!Initialised
    <3>1. Running
        BY Script DEF MouseInv, Booting
    <3> QED BY <3>1, Bits DEF Running, Enabled
  <2>2. M!InStep
    <3> SUFFICES ASSUME registered, M!Quietly
                 PROVE  /\ irq = 12 => port60.of = <<"status", "x", "y">>[mouse_cycle + 1]
                        /\ mouse = <<>> /\ irq = 0 => <<mouse_x_pos, mouse_y_pos>> = expected
        BY DEF M!InStep
    <3>1. Running
        BY DEF MouseInv, Booting, Unused
    <3>2. PICK n \in Nat : \E queue, path : Queued(n, queue) /\ Leads(n, queue, path)
        BY <3>1 DEF Running, OnTheWay
    <3>3. PICK queue, path : Queued(n, queue) /\ Leads(n, queue, path)
        BY <3>2
    <3>4. mouse_cycle \in 0..2
        BY <3>1 DEF Running, Enabled
    <3>5. irq = 12 => port60.of = <<"status", "x", "y">>[mouse_cycle + 1]
      <4>1. irq = 12 => port60 = M!Packet(queue[1])[mouse_cycle + 1]
          BY <3>3 DEF Queued
      <4>2. \A k \in 0..2 : M!Packet(queue[1])[k + 1].of = <<"status", "x", "y">>[k + 1]
          BY DEF M!Packet
      <4> QED BY <3>4, <4>1, <4>2
    <3>6. mouse = <<>> /\ irq = 0 => <<mouse_x_pos, mouse_y_pos>> = expected
      <4> SUFFICES ASSUME mouse = <<>>, irq = 0
                   PROVE  <<mouse_x_pos, mouse_y_pos>> = expected
          OBVIOUS
      <4>1. 0 + mouse_cycle = 3 * n
        <5>1. Len(mouse) = 0 /\ Handed = mouse_cycle
            BY <3>4 DEF Handed
        <5> QED BY <3>3, <5>1 DEF Queued
      <4>2. n = 0
          BY <3>2, <3>4, <4>1
      <4> QED BY <3>3, <4>2 DEF Leads
    <3> QED BY <3>5, <3>6
  <2> QED BY <2>1, <2>2 DEF InStep
<1> QED BY <1>1, MouseAlways, PTL

-----------------------------------------------------------------------------
(* The decoding of keys.  The handler's two flags are what the keys before  *)
(* say, and so is the character it leaves.                                  *)

KeyForm(i) ==
    IF ch.key \in Letters /\ K!CapsOn(i) # K!ShiftOn(i) THEN "upper"
    ELSE IF ch.key \in Symbols /\ K!ShiftOn(i) THEN "alternate"
    ELSE "plain"
Decoded ==
    /\ presses \in Seq(K!Keys)
    /\ caps_lock \in BOOLEAN /\ shift_pressed \in BOOLEAN
    /\ caps_lock <=> K!CapsOn(Len(presses) + 1)
    /\ shift_pressed <=> K!ShiftOn(Len(presses) + 1)
    /\ ch # NONE => ch.form = KeyForm(Len(presses))

\* The keyboard's counts are those of the library.
LEMMA SameCardinality == \A S : K!Cardinality(S) = Cardinality(S)
    BY Zenon DEF K!Cardinality, Cardinality

\* The number of caps among the first presses.
Caps(i) == Cardinality({j \in 1..(i - 1) : presses[j] = "caps"})

\* One press more changes nothing for the ones before.
LEMMA PressAdded ==
    ASSUME presses \in Seq(K!Keys), NEW k \in K!Keys, presses' = Append(presses, k),
           NEW n, n = Len(presses)
    PROVE  /\ n \in Nat /\ presses' \in Seq(K!Keys) /\ Len(presses') = n + 1
           /\ \A i \in 1..n : presses'[i] = presses[i]
           /\ presses'[n + 1] = k
    OBVIOUS

\* The caps among the first presses, before and after one more.
LEMMA CapsCounted ==
    ASSUME presses \in Seq(K!Keys), NEW k \in K!Keys, presses' = Append(presses, k),
           NEW n, n = Len(presses)
    PROVE  /\ \A i \in 1..(n + 1) : Caps(i)' = Caps(i)
           /\ Caps(n + 1) \in Nat
           /\ Caps(n + 2)' = IF k = "caps" THEN Caps(n + 1) + 1 ELSE Caps(n + 1)
<1>1. /\ n \in Nat
      /\ \A i \in 1..n : presses'[i] = presses[i]
      /\ presses'[n + 1] = k
    BY PressAdded
<1>2. ASSUME NEW i \in 1..(n + 1)
      PROVE  {j \in 1..(i - 1) : presses'[j] = "caps"} = {j \in 1..(i - 1) : presses[j] = "caps"}
    BY <1>1
<1>3. \A i \in 1..(n + 1) : Caps(i)' = Caps(i)
    BY <1>2 DEF Caps
<1> DEFINE S == {j \in 1..((n + 1) - 1) : presses[j] = "caps"}
<1>4. IsFiniteSet(S) /\ n + 1 \notin S
  <2>1. S \subseteq 1..n /\ n + 1 \notin S
      BY <1>1
  <2>2. IsFiniteSet(1..n)
      BY <1>1, FS_Interval
  <2> HIDE DEF S
  <2> QED BY <2>1, <2>2, FS_Subset
<1>5. Caps(n + 1) = Cardinality(S) /\ Cardinality(S) \in Nat
    BY <1>4, FS_CardinalityType DEF Caps
<1>6. {j \in 1..((n + 2) - 1) : presses'[j] = "caps"} = IF k = "caps" THEN S \cup {n + 1} ELSE S
    BY <1>1
<1>7. Cardinality(S \cup {n + 1}) = Cardinality(S) + 1
  <2> HIDE DEF S
  <2> QED BY <1>4, FS_AddElement
<1>8. Caps(n + 2)' = Cardinality(IF k = "caps" THEN S \cup {n + 1} ELSE S)
    BY <1>6 DEF Caps
<1> QED BY <1>3, <1>5, <1>7, <1>8

\* The flags of the presses before the new one, and of the next.
LEMMA FlagsAfter ==
    ASSUME presses \in Seq(K!Keys), NEW k \in K!Keys, presses' = Append(presses, k),
           NEW n, n = Len(presses)
    PROVE  /\ K!CapsOn(n + 1)' <=> K!CapsOn(n + 1)
           /\ K!ShiftOn(n + 1)' <=> K!ShiftOn(n + 1)
           /\ K!CapsOn(n + 2)' <=> (IF k = "caps" THEN ~K!CapsOn(n + 1) ELSE K!CapsOn(n + 1))
           /\ K!ShiftOn(n + 2)' <=>
                  \/ k = "shift"
                  \/ K!ShiftOn(n + 1) /\ (k \in {"caps", "shift", "enter"} \/ K!CapsOn(n + 1))
<1>1. /\ n \in Nat
      /\ \A i \in 1..n : presses'[i] = presses[i]
      /\ presses'[n + 1] = k
    BY PressAdded
<1>2. \A i : (K!CapsOn(i) <=> Caps(i) % 2 = 1) /\ (K!CapsOn(i)' <=> Caps(i)' % 2 = 1)
  <2> TAKE i
  <2>1. K!CapsOn(i) <=> Caps(i) % 2 = 1
      BY SameCardinality DEF K!CapsOn, Caps
  <2>2. K!CapsOn(i)' <=> Caps(i)' % 2 = 1
      BY SameCardinality DEF K!CapsOn, Caps
  <2> QED BY <2>1, <2>2
<1>3. \A i \in 1..(n + 1) : K!CapsOn(i)' <=> K!CapsOn(i)
    BY <1>2, CapsCounted
<1>4. K!CapsOn(n + 2)' <=> (IF k = "caps" THEN ~K!CapsOn(n + 1) ELSE K!CapsOn(n + 1))
  <2>1. Caps(n + 1) \in Nat /\ Caps(n + 2)' = IF k = "caps" THEN Caps(n + 1) + 1 ELSE Caps(n + 1)
      BY CapsCounted
  <2>2. CASE k = "caps"
    <3>1. (Caps(n + 1) + 1) % 2 = 1 <=> Caps(n + 1) % 2 # 1
        BY <2>1
    <3> QED BY <1>2, <2>1, <2>2, <3>1
  <2>3. CASE k # "caps"
      BY <1>2, <2>1, <2>3
  <2> QED BY <2>2, <2>3
<1>5. \A i \in 1..n : K!Consumes(i)' <=> K!Consumes(i)
    BY <1>1, <1>3 DEF K!Consumes
<1>6. K!Consumes(n + 1)' <=> k \notin {"caps", "shift", "enter"} /\ ~K!CapsOn(n + 1)
    BY <1>1, <1>3 DEF K!Consumes
<1>7. K!ShiftOn(n + 1)' <=> K!ShiftOn(n + 1)
    BY <1>1, <1>5 DEF K!ShiftOn
<1>8. K!ShiftOn(n + 2)' <=> k = "shift" \/ (K!ShiftOn(n + 1) /\ ~K!Consumes(n + 1)')
    BY <1>1, <1>5 DEF K!ShiftOn
<1> QED BY <1>1, <1>3, <1>4, <1>6, <1>7, <1>8

\* No key was pressed.
LEMMA DecodedInit == K!Init => Decoded
<1> SUFFICES ASSUME K!Init PROVE Decoded
    OBVIOUS
<1>1. presses = <<>> /\ Len(presses) = 0 /\ ~caps_lock /\ ~shift_pressed /\ ch = NONE
    BY DEF K!Init
<1>2. ~K!CapsOn(1)
  <2>1. {j \in 1..(1 - 1) : presses[j] = "caps"} = {}
      OBVIOUS
  <2>2. Cardinality({}) % 2 # 1
      BY FS_EmptySet
  <2> QED BY <2>1, <2>2, SameCardinality DEF K!CapsOn
<1>3. ~K!ShiftOn(1)
    BY DEF K!ShiftOn
<1>4. Len(presses) + 1 = 1 /\ presses \in Seq(K!Keys)
    BY <1>1
<1>5. /\ caps_lock <=> K!CapsOn(Len(presses) + 1)
      /\ shift_pressed <=> K!ShiftOn(Len(presses) + 1)
    BY <1>1, <1>2, <1>3, <1>4
<1>6. caps_lock \in BOOLEAN /\ shift_pressed \in BOOLEAN
    BY DEF K!Init
<1> QED BY <1>1, <1>4, <1>5, <1>6 DEF Decoded

\* A press: the handler's flags and its character are those of the keys.
LEMMA DecodedPress ==
    ASSUME Decoded, K!keyboard_handler, ~output.up
    PROVE  Decoded'
<1> PICK n : n = Len(presses)
    OBVIOUS
<1>1. /\ presses \in Seq(K!Keys) /\ caps_lock \in BOOLEAN /\ shift_pressed \in BOOLEAN
      /\ caps_lock <=> K!CapsOn(n + 1)
      /\ shift_pressed <=> K!ShiftOn(n + 1)
    BY DEF Decoded
<1>2. PICK k \in K!Keys : K!Pressed(k) /\ (\/ k = "caps" /\ K!CapsLock
                                           \/ k = "shift" /\ K!Shift
                                           \/ k = "enter" /\ K!Enter
                                           \/ /\ k \in Letters \cup Symbols \cup Mute
                                              /\ K!OtherKey(k))
  <2>1. K!CapsLock \/ K!Shift \/ K!Enter \/ \E k \in Letters \cup Symbols \cup Mute : K!OtherKey(k)
      BY DEF K!keyboard_handler, K!Released
  <2> QED BY <2>1 DEF K!CapsLock, K!Shift, K!Enter, K!OtherKey, K!Keys
<1>3. presses' = Append(presses, k) /\ output.key = k
    BY <1>2 DEF K!Pressed
<1>4. n \in Nat /\ presses' \in Seq(K!Keys) /\ Len(presses') = n + 1
    BY <1>1, <1>3, PressAdded
<1>5. /\ K!CapsOn(n + 1)' <=> caps_lock
      /\ K!ShiftOn(n + 1)' <=> shift_pressed
      /\ K!CapsOn(n + 2)' <=> (IF k = "caps" THEN ~caps_lock ELSE caps_lock)
      /\ K!ShiftOn(n + 2)' <=> \/ k = "shift"
                               \/ shift_pressed /\ (k \in {"caps", "shift", "enter"} \/ caps_lock)
    BY <1>1, <1>3, FlagsAfter
<1>6. /\ caps_lock' = IF k = "caps" THEN ~caps_lock ELSE caps_lock
      /\ shift_pressed' = IF k = "shift" THEN TRUE
                          ELSE IF k \in {"caps", "enter"} THEN shift_pressed
                          ELSE shift_pressed /\ caps_lock
  <2>1. CASE k = "caps" /\ K!CapsLock
      BY <1>1, <2>1 DEF K!CapsLock
  <2>2. CASE k = "shift" /\ K!Shift
      BY <1>1, <2>2 DEF K!Shift
  <2>3. CASE k = "enter" /\ K!Enter
      BY <1>1, <2>3 DEF K!Enter
  <2>4. CASE k \in Letters \cup Symbols \cup Mute /\ K!OtherKey(k)
      BY <1>1, <2>4, KeyboardAssumption DEF K!OtherKey
  <2> QED BY <1>2, <2>1, <2>2, <2>3, <2>4
<1>7. /\ caps_lock' \in BOOLEAN /\ shift_pressed' \in BOOLEAN
      /\ caps_lock' <=> K!CapsOn(n + 2)'
      /\ shift_pressed' <=> K!ShiftOn(n + 2)'
    BY <1>1, <1>5, <1>6
<1>8. K!CapsOn(n + 1)' = caps_lock /\ K!ShiftOn(n + 1)' = shift_pressed
  <2>1. K!CapsOn(n + 1)' \in BOOLEAN /\ K!ShiftOn(n + 1)' \in BOOLEAN
      BY DEF K!CapsOn, K!ShiftOn
  <2> QED BY <1>1, <1>5, <2>1
<1>9. ch' # NONE => ch'.form = KeyForm(n + 1)'
  <2> SUFFICES ASSUME ch' # NONE PROVE ch'.form = KeyForm(n + 1)'
      OBVIOUS
  <2>1. k \notin {"caps", "shift"}
      BY <1>2, KeyboardAssumption DEF K!CapsLock, K!Shift
  <2>2. CASE k = "enter" /\ K!Enter
    <3>1. ch'.key = "enter" /\ ch'.form = "plain"
        BY <1>3, <2>2 DEF K!Enter, K!Character
    <3> QED BY <3>1, KeyboardAssumption DEF KeyForm
  <2>3. CASE k \in Letters \cup Symbols \cup Mute /\ K!OtherKey(k)
    <3>1. ch'.key = k /\ ch'.form = K!Form(k)
        BY <1>3, <2>3 DEF K!OtherKey, K!Character
    <3> QED BY <1>1, <1>8, <3>1 DEF KeyForm, K!Form, K!alternate_chars, K!toupper
  <2> QED BY <1>2, <2>1, <2>2, <2>3
<1>10. n + 1 = Len(presses') /\ Len(presses') + 1 = n + 2
    BY <1>4
<1> QED BY <1>4, <1>7, <1>9, <1>10 DEF Decoded

\* Every step keeps the flags and the character those of the keys.
LEMMA DecodedNext == Decoded /\ [K!Next]_keyboardVars => Decoded'
<1> SUFFICES ASSUME Decoded, [K!Next]_keyboardVars PROVE Decoded'
    OBVIOUS
<1>1. CASE /\ UNCHANGED <<presses, caps_lock, shift_pressed>>
           /\ ch' \in {ch, NONE}
  <2>1. PICK n : n = Len(presses) /\ n = Len(presses)'
      BY <1>1
  <2>2. /\ K!CapsOn(n + 1)' <=> K!CapsOn(n + 1)
        /\ K!ShiftOn(n + 1)' <=> K!ShiftOn(n + 1)
      BY <1>1 DEF K!CapsOn, K!ShiftOn, K!Consumes
  <2>3. ch' = ch => KeyForm(n)' = KeyForm(n)
      BY <1>1 DEF KeyForm, K!CapsOn, K!ShiftOn, K!Consumes
  <2> QED BY <1>1, <2>1, <2>2, <2>3 DEF Decoded
<1>2. CASE K!keyboard_handler /\ ~output.up
    BY <1>2, DecodedPress
<1>3. CASE K!keyboard_handler /\ output.up
  <2>1. K!Released
      BY <1>3 DEF K!keyboard_handler, K!CapsLock, K!Shift, K!Enter, K!OtherKey, K!Pressed
  <2> QED BY <1>1, <2>1 DEF K!Released
<1>4. ASSUME \/ \E k \in K!Keys, up \in BOOLEAN : K!Type(k, up)
             \/ K!Send \/ K!init_IRQ \/ K!init_keyboard \/ K!UnhandledIRQ
             \/ \E f \in {} : K!Read(f)
             \/ K!ReaderStep
             \/ UNCHANGED keyboardVars
      PROVE  UNCHANGED <<presses, caps_lock, shift_pressed>> /\ ch' \in {ch, NONE}
    BY <1>4 DEF K!Type, K!Send, K!init_IRQ, K!init_keyboard, K!UnhandledIRQ, K!ReaderStep,
           K!Leave, K!TakeValue, K!ClearCh, K!ClearKey, K!driver, K!unread, keyboardVars
<1> QED BY <1>1, <1>2, <1>3, <1>4 DEF K!Next, K!Interrupt

\* The keyboard's invariant holds throughout, whichever driver runs.
LEMMA DecodedAlways == Spec => []Decoded
<1>1. Init => Decoded
    BY DecodedInit DEF Init
<1>2. Decoded /\ [Next]_vars => Decoded'
  <2>1. [Next]_vars => [K!Next]_keyboardVars
      BY DEF Next, Alone, vars
  <2> QED BY <2>1, DecodedNext
<1> QED BY <1>1, <1>2, PTL DEF Spec

\* Whatever is typed, a character is the upper case, the alternate or the plain
\* one as the caps locks and shifts before it say (keyboard.c:109-156).
THEOREM TypesAsTold == Spec => []Typewriter
<1>1. Decoded => Typewriter
    BY DEF Decoded, KeyForm, Typewriter, K!Typewriter
<1> QED BY <1>1, DecodedAlways, PTL
(***************************************************************************)
(* The timer: what TimerProofs proves of it, with no timer function.       *)
(***************************************************************************)

Timed == INSTANCE TimerProofs WITH
    Slots <- 1, Functions <- {}, Users <- {}, Timeouts <- {}, NULL <- NONE,
    Builds <- {"reload", "hoisted"}, pc <- sleeping

\* The two instances of Timer have the same steps.
LEMMA SameTimer == T!Next => Timed!Next
<1> USE DEF T!Word, Timed!Word, T!Slot, Timed!Slot, T!manager, Timed!manager,
            T!ghosts, Timed!ghosts, T!Goto, Timed!Goto
<1>1. \A n : T!Wrap(n) = Timed!Wrap(n) /\ T!Saturate(n) = Timed!Saturate(n)
    BY DEF T!Wrap, Timed!Wrap, T!Saturate, Timed!Saturate
<1>2. ASSUME T!Tick PROVE Timed!Tick
  <2>1. \A args : T!Value(args) = Timed!Value(args)
      BY DEF T!Value, Timed!Value
  <2>2. \A t, n : T!Due(t, n) <=> Timed!Due(t, n)
      BY DEF T!Due, Timed!Due
  <2>3. {s \in T!Slot : T!Due(ticks', T!Value(func_args[s]))}
        = {s \in Timed!Slot : Timed!Due(ticks', Timed!Value(func_args[s]))}
      BY <2>1, <2>2
  <2> QED BY Zenon, <1>1, <1>2, <2>1, <2>3 DEF T!Tick, Timed!Tick
<1>3. T!timer_set_frequency(Freq) => Timed!timer_set_frequency(Freq)
    BY DEF T!timer_set_frequency, Timed!timer_set_frequency
<1>4. T!IRQ_RegisterHandler => Timed!IRQ_RegisterHandler
    BY DEF T!IRQ_RegisterHandler, Timed!IRQ_RegisterHandler
<1>5. ~T!Register
    BY DEF T!Register
<1>6. T!Copy => Timed!Copy
    BY Zenon DEF T!Copy, T!StoreFunction, T!CopyLow, T!CopyHigh, T!CopyUser,
           T!WriteArgs, T!Digits, T!Old, T!untouched, T!LastOf,
           Timed!Copy, Timed!StoreFunction, Timed!CopyLow, Timed!CopyHigh, Timed!CopyUser,
           Timed!WriteArgs, Timed!Digits, Timed!Old, Timed!untouched, Timed!LastOf
<1>7. T!Sleep => Timed!Sleep
    BY <1>1 DEF T!Sleep, Timed!Sleep, T!sleep, Timed!sleep, T!EndOf, Timed!EndOf
<1>8. T!SleepReturn => Timed!SleepReturn
    BY DEF T!SleepReturn, Timed!SleepReturn
<1> QED BY <1>2, <1>3, <1>4, <1>5, <1>6, <1>7, <1>8 DEF T!Next, Timed!Next

\* sleep() lets the asked ticks pass in either build, unless their end is past
\* the wrap (timer.c:89-90).
THEOREM SleepsAsAsked == Spec => SleepsLongEnough
<1>1. Timed!Spec => Timed!SleepsLongEnough
  <2>1. /\ 1 \in Nat \ {0} /\ {} \subseteq 0..(Timed!Word - 1) /\ NONE \notin {}
        /\ {"reload", "hoisted"} \subseteq {"reload", "hoisted"}
      OBVIOUS
  <2> QED BY <2>1, TimerAssumption, Timed!SleepIsLongEnough
<1>2. Init => Timed!Init
    BY DEF Init, T!Init, Timed!Init, T!Slot, Timed!Slot
<1>3. UNCHANGED Timed!vars <=> UNCHANGED timerVars
    BY DEF Timed!vars, Timed!manager, Timed!ghosts, timerVars
<1>4. [Next]_vars => [Timed!Next]_(Timed!vars)
    BY <1>3, SameTimer DEF Next, Alone, vars
<1>5. ASSUME [Timed!SleepReturn => slept >= asked \/ seen + asked >= Timed!Word]_(Timed!vars)
      PROVE  [unit = "timer" /\ T!SleepReturn => slept >= asked \/ seen + asked >= T!Word]_vars
  <2>1. T!SleepReturn => Timed!SleepReturn /\ sleeping' # sleeping
      BY DEF T!SleepReturn, Timed!SleepReturn, T!Goto, Timed!Goto, T!manager, Timed!manager
  <2>2. UNCHANGED Timed!vars => sleeping' = sleeping
      BY DEF Timed!vars
  <2>3. Timed!Word = T!Word
      BY DEF T!Word, Timed!Word
  <2> QED BY <1>5, <2>1, <2>2, <2>3
<1> QED BY <1>1, <1>2, <1>4, <1>5, PTL
        DEF Spec, SleepsLongEnough, Timed!Spec, Timed!SleepsLongEnough
=============================================================================
