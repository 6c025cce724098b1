-------------------------------- MODULE Ata --------------------------------
(***************************************************************************)
(* The IDE driver (drivers/dev/storage/ide.c) with the drive table above   *)
(* it (SMInit, SMReadFrom and SMWriteTo of drivers/fs/storage.c) and the   *)
(* drives below.                                                           *)
(*                                                                         *)
(* The drives are external: what a command, a transfer or an interrupt     *)
(* does there is the ATA protocol as the driver uses it.  A drive works    *)
(* while the processor polls, may fail, and interrupts unless its channel's*)
(* control register says not to; the interrupt waits while interrupts are  *)
(* off.  Register writes between two polls are one step.                   *)
(***************************************************************************)
EXTENDS Integers, Sequences

CONSTANTS
  Machines,   \* what may be plugged in: a drive or NoDrive for each unit, and
              \* the addresses the controller reports for the channels'
              \* control registers, 0 for the traditional ones
  Lbas,       \* bound: the sectors asked for
  MaxAsked    \* bound: requests

Channels == {0, 1}                   \* ATA_PRIMARY, ATA_SECONDARY
Units    == Channels \X {0, 1}       \* with master and slave
NoDrive  == [type |-> "none", size |-> 0, lba |-> FALSE]

(* The bits of the error register, as IDEPrintErr looks at them, and what  *)
(* it answers; what can go wrong with a drive.                             *)
ErrorBits == << <<"AMNF", 7>>, <<"TK0NF", 3>>, <<"ABRT", 20>>, <<"MCR", 3>>,
                <<"IDNF", 21>>, <<"MC", 3>>, <<"UNC", 22>>, <<"BBK", 13>> >>
Failures == {{"ABRT"}, {"IDNF", "UNC"}, {"DF"}}

Types == {"IDE_ATA", "IDE_ATAPI"}

(* A sector's number has 32 bits; a drive that does not take linear        *)
(* addresses has no more cylinders than their 16 bits tell apart.          *)
AtaAssumption ==
  /\ \A m \in Machines, u \in Units :
       m.drive[u] = NoDrive \/
         /\ m.drive[u].type \in Types /\ m.drive[u].size \in Nat
         /\ m.drive[u].type = "IDE_ATA" /\ ~m.drive[u].lba => m.drive[u].size <= 65536 * 16 * 63
  /\ Lbas \subseteq Nat /\ \A lba \in Lbas : lba \div 16777216 < 256
  /\ MaxAsked \in Nat

VARIABLES
  plugged,  \* the machine this is
  IDEDev,   \* the drives found, in the order found
  Drives,   \* the drive table from its fourth entry on
  regs,     \* the address registers of each channel, the last command's
  busy, drq, err,  \* BSY and DRQ of each channel, and what went wrong on it
  phase,    \* what the drive selected on each channel does
  quiet,    \* nIEN in the control register of each channel
  line,     \* interrupts raised and not yet delivered
  IF_,      \* the processor takes interrupts
  Invoked,  \* IDEState.Invoked
  req,      \* the request in progress
  BufferA,  \* what the drive's buffer holds: a sector of a unit, or nothing
  failed,   \* a drive has failed in the request in progress
  put,      \* what drives have put on their disks in it: sectors and contents
  package,  \* package[0], the answer
  asked

ataVars == <<plugged, IDEDev, Drives, regs, busy, drq, err, phase, quiet, line, IF_,
             Invoked, req, BufferA, failed, put, package, asked>>

-----------------------------------------------------------------------------
NoReq   == [pc |-> "off", k |-> 0, lba |-> 0, write |-> FALSE]
Nothing_ == <<>>   \* a buffer of zeroes

AtaInit ==
  /\ plugged = <<>> /\ IDEDev = <<>> /\ Drives = <<>>
  /\ regs = [c \in Channels |-> [slave |-> 0, mode |-> 1, head |-> 0, lba |-> <<0, 0, 0, 0>>]]
  /\ busy = [c \in Channels |-> FALSE] /\ drq = [c \in Channels |-> FALSE]
  /\ err = [c \in Channels |-> {}] /\ phase = [c \in Channels |-> "idle"]
  /\ quiet = [c \in Channels |-> FALSE] /\ line = [c \in Channels |-> FALSE]
  /\ IF_ = FALSE /\ Invoked = FALSE
  /\ req = NoReq /\ BufferA = Nothing_ /\ failed = FALSE /\ put = {}
  /\ package = 0 /\ asked = 0

AtaDrive == <<regs, busy, drq, err, phase>>
Outcome  == <<failed, put>>

-----------------------------------------------------------------------------
(* Ports.  IDEWrite adds an offset of 2 to the control base for the        *)
(* control register.                                                       *)

Traditional(c)  == IF c = 0 THEN 1014 ELSE 886   \* 0x3F6, 0x376
ctrl(m, c)      == IF m.bar[c] # 0 THEN m.bar[c] ELSE Traditional(c)
ControlPort(m, c) == ctrl(m, c) + 2

(* Where the control register is: behind an address the controller         *)
(* reports, or at the traditional one.                                     *)
ControlRegister(m, c) == IF m.bar[c] # 0 THEN m.bar[c] + 2 ELSE Traditional(c)

IDEWriteControl(m, nIEN) ==
  [c \in Channels |-> IF ControlPort(m, c) = ControlRegister(m, c) THEN nIEN ELSE quiet[c]]

(* IDEPolling with its check: 2 for an error, 1 for a fault of the drive,  *)
(* 3 for a drive that has nothing to say.                                  *)
IDEPolling(c) ==
  IF err[c] \cap {ErrorBits[i][1] : i \in DOMAIN ErrorBits} # {} THEN 2
  ELSE IF "DF" \in err[c] THEN 1
  ELSE IF ~drq[c] THEN 3 ELSE 0

(* The answer to each of these: of the bits of the error register the one  *)
(* looked at last.                                                         *)
IDEPrintErr(e, bits) ==
  LET set == {i \in DOMAIN ErrorBits : ErrorBits[i][1] \in bits} IN
  CASE e = 2 -> IF set = {} THEN 2
                ELSE ErrorBits[CHOOSE i \in set : \A j \in set : j <= i][2]
    [] OTHER -> <<0, 19, 2, 23, 8>>[e + 1]

-----------------------------------------------------------------------------
(* Start.                                                                  *)

(* IDEInitialise: a drive that answers is entered, whatever its place.     *)
Found(m, u) == [type |-> m.drive[u].type, channel |-> u[1], drive |-> u[2],
                size |-> m.drive[u].size, lba |-> m.drive[u].lba]

Place(u) == 2 * u[1] + u[2]

(* IDEFind turns interrupts off and leaves them so. *)
IDEInitialise(m) ==
  LET there == {u \in Units : m.drive[u] # NoDrive} IN
  /\ req.pc = "off"
  /\ plugged' = m
  /\ quiet' = IDEWriteControl(m, TRUE)
  /\ \E count \in 0 .. 4 : \E unit \in [1 .. count -> there] :
       /\ \A u \in there : \E i \in 1 .. count : unit[i] = u
       /\ \A i, j \in 1 .. count : i < j => Place(unit[i]) < Place(unit[j])
       /\ IDEDev' = [i \in 1 .. count |-> Found(m, unit[i])]
  /\ line' = [c \in Channels |-> ~quiet'[c] /\ \E u \in there : u[1] = c]
  /\ req' = [req EXCEPT !.pc = "found"]
  /\ IF_' = FALSE
  /\ UNCHANGED <<Drives, AtaDrive, Invoked, BufferA, package, asked, Outcome>>

(* SMInit: each drive gets an entry, which keeps of it whether it is       *)
(* master or slave.                                                        *)
SMInit ==
  /\ req.pc = "found"
  /\ Drives' = [i \in DOMAIN IDEDev |-> [DriveNum |-> IDEDev[i].drive,
                                         model |-> <<IDEDev[i].channel, IDEDev[i].drive>>]]
  /\ req' = [req EXCEPT !.pc = "idle"]
  /\ UNCHANGED <<plugged, IDEDev, AtaDrive, quiet, line, IF_, Invoked, BufferA, package, asked, Outcome>>

-----------------------------------------------------------------------------
(* A request, made with interrupts on or off: which of the drives found    *)
(* IDEReadSectors addresses with the number of the drive table's entry.    *)
Index(k) == Drives[k].DriveNum + 1
Dev      == IDEDev[Index(req.k)]
Ch       == Dev.channel
Addressed == <<Dev.channel, Dev.drive>>

SMReadFrom(k, lba) ==
  /\ req' = [pc |-> "check", k |-> k, lba |-> lba, write |-> FALSE]
  /\ BufferA' = Nothing_

SMWriteTo(k, lba) ==
  /\ req' = [pc |-> "check", k |-> k, lba |-> lba, write |-> TRUE]
  /\ BufferA' = <<Drives[k].model, lba>>

Ask ==
  /\ req.pc = "idle" /\ asked < MaxAsked
  /\ asked' = asked + 1
  /\ \E k \in DOMAIN Drives, lba \in Lbas : SMReadFrom(k, lba) \/ SMWriteTo(k, lba)
  /\ IF_' \in BOOLEAN
  /\ UNCHANGED <<plugged, IDEDev, Drives, AtaDrive, quiet, line, Invoked, package, Outcome>>

(* The answer; what drives have done is counted anew in the next request.  *)
Answer(code) ==
  /\ package' = code /\ req' = [NoReq EXCEPT !.pc = "idle"]
  /\ failed' = FALSE /\ put' = {}

(* IDEReadSectors and IDEWriteSectors: what is refused before a drive is   *)
(* asked.  A number of no drive reads a table entry that was never filled. *)
Refused ==
  /\ req.pc = "check"
  /\ \/ Index(req.k) \notin DOMAIN IDEDev /\ Answer(1)
     \/ /\ Index(req.k) \in DOMAIN IDEDev
        /\ \/ Dev.type = "IDE_ATA" /\ req.lba + 1 > Dev.size /\ Answer(2)
           \/ Dev.type = "IDE_ATAPI" /\ req.write /\ Answer(IDEPrintErr(4, {}))
  /\ UNCHANGED <<plugged, IDEDev, Drives, AtaDrive, quiet, line, IF_, Invoked, BufferA, asked>>

(* IDEAccess and IDEAtaPIRead begin: no interrupt has been seen, and the   *)
(* control register is told; IDEAtaPIRead turns interrupts on for good.    *)
Begin ==
  /\ req.pc = "check"
  /\ Index(req.k) \in DOMAIN IDEDev
  /\ Invoked' = FALSE
  /\ \/ /\ Dev.type = "IDE_ATA" /\ req.lba + 1 <= Dev.size
        /\ quiet' = [quiet EXCEPT ![Ch] = IDEWriteControl(plugged, TRUE)[Ch]]
        /\ UNCHANGED IF_
     \/ /\ Dev.type = "IDE_ATAPI" /\ ~req.write
        /\ quiet' = [quiet EXCEPT ![Ch] = IDEWriteControl(plugged, FALSE)[Ch]]
        /\ IF_' = TRUE
  /\ req' = [req EXCEPT !.pc = "program"]
  /\ UNCHANGED <<plugged, IDEDev, Drives, AtaDrive, line, BufferA, package, asked, Outcome>>

(* The registers that name a sector, in one of three modes: by 48 bits, by *)
(* 28, or by cylinder, head and sector of a drive of 16 heads.             *)
Byte(n, unit) == (n \div unit) % 256

Address48(lba) == [mode |-> 2, head |-> 0,
                   lba |-> <<Byte(lba, 1), Byte(lba, 256), Byte(lba, 65536), Byte(lba, 16777216)>>]

Address28(lba) == [mode |-> 1, head |-> (lba \div 16777216) % 16,
                   lba |-> <<Byte(lba, 1), Byte(lba, 256), Byte(lba, 65536), 0>>]

(* Mutant of AddressCHS: heads are taken for cylinders. *)
AddressCHSWrong(lba) ==
  LET sect == (lba % 63) + 1
      cyl  == (lba + 1 - sect) \div 63
  IN  [mode |-> 0, head |-> 0, lba |-> <<sect, cyl % 256, (cyl \div 256) % 256, 0>>]

AddressCHS(lba) ==
  LET sect == (lba % 63) + 1
      cyl  == (lba + 1 - sect) \div (16 * 63)
  IN  [mode |-> 0, head |-> ((lba + 1 - sect) % (16 * 63)) \div 63,
       lba |-> <<sect, cyl % 256, (cyl \div 256) % 256, 0>>]

Address(lba) == IF lba >= 268435456 THEN Address48(lba)   \* 0x10000000
                ELSE IF Dev.lba THEN Address28(lba) ELSE AddressCHS(lba)

Registers(slave, a) == [slave |-> slave, mode |-> a.mode, head |-> a.head, lba |-> a.lba]

(* The drive is selected, addressed and given its command.  An ATAPI drive *)
(* is first sent the packet command, and the sector's number in a packet.  *)
Command ==
  /\ req.pc = "program"
  /\ ~busy[Ch]
  /\ regs' = [regs EXCEPT ![Ch] = Registers(Dev.drive,
                IF Dev.type = "IDE_ATA" THEN Address(req.lba) ELSE Address48(req.lba))]
  /\ busy' = [busy EXCEPT ![Ch] = TRUE]
  /\ drq' = [drq EXCEPT ![Ch] = FALSE]
  /\ err' = [err EXCEPT ![Ch] = {}]
  /\ phase' = [phase EXCEPT ![Ch] = IF Dev.type = "IDE_ATAPI" THEN "packet"
                                    ELSE IF req.write THEN "write" ELSE "read"]
  /\ req' = [req EXCEPT !.pc = IF Dev.type = "IDE_ATAPI" THEN "packet"
                               ELSE IF req.write THEN "out" ELSE "in"]
  /\ UNCHANGED <<plugged, IDEDev, Drives, quiet, line, IF_, Invoked, BufferA, package, asked, Outcome>>

PollFails ==
  /\ req.pc \in {"in", "packet", "data"}
  /\ ~busy[Ch]
  /\ IDEPolling(Ch) # 0
  /\ Answer(IDEPrintErr(IDEPolling(Ch), err[Ch]))
  /\ UNCHANGED <<plugged, IDEDev, Drives, AtaDrive, quiet, line, IF_, Invoked, BufferA, asked>>

(* The sector the drive selected has to transfer, by its registers. *)
Named(c) ==
  LET r == regs[c] IN
  <<<<c, r.slave>>,
    CASE r.mode = 0 -> ((r.lba[2] + 256 * r.lba[3]) * 16 + r.head) * 63 + r.lba[1] - 1
      [] r.mode = 1 -> r.lba[1] + 256 * r.lba[2] + 65536 * r.lba[3] + 16777216 * r.head
      [] OTHER      -> r.lba[1] + 256 * r.lba[2] + 65536 * r.lba[3] + 16777216 * r.lba[4]>>

(* A sector of a disk is read. *)
ReadDisk ==
  /\ req.pc = "in"
  /\ ~busy[Ch] /\ IDEPolling(Ch) = 0
  /\ BufferA' = Named(Ch)
  /\ drq' = [drq EXCEPT ![Ch] = FALSE]
  /\ phase' = [phase EXCEPT ![Ch] = "idle"]
  /\ Answer(0)
  /\ UNCHANGED <<plugged, IDEDev, Drives, regs, busy, err, quiet, line, IF_, Invoked, asked>>

(* A sector is written, whether or not the drive wants it, and the drive's *)
(* cache flushed; no error is looked for, neither before the data nor      *)
(* behind the flush: the request is answered with 0 whatever happened.     *)
WriteDisk ==
  /\ req.pc = "out"
  /\ ~busy[Ch]
  /\ busy' = [busy EXCEPT ![Ch] = TRUE]
  /\ drq' = [drq EXCEPT ![Ch] = FALSE]
  /\ phase' = [phase EXCEPT ![Ch] = IF drq[Ch] THEN "written" ELSE "lost"]
  /\ req' = [req EXCEPT !.pc = "flush"]
  /\ UNCHANGED <<plugged, IDEDev, Drives, regs, err, quiet, line, IF_, Invoked, BufferA, package, asked, Outcome>>

Flushed ==
  /\ req.pc = "flush"
  /\ ~busy[Ch]
  /\ Answer(0)
  /\ UNCHANGED <<plugged, IDEDev, Drives, AtaDrive, quiet, line, IF_, Invoked, BufferA, asked>>

(* IDEAtaPIRead: the packet, ... *)
SendPacket ==
  /\ req.pc = "packet"
  /\ ~busy[Ch] /\ IDEPolling(Ch) = 0
  /\ busy' = [busy EXCEPT ![Ch] = TRUE]
  /\ drq' = [drq EXCEPT ![Ch] = FALSE]
  /\ phase' = [phase EXCEPT ![Ch] = "packet_read"]
  /\ req' = [req EXCEPT !.pc = "wait"]
  /\ UNCHANGED <<plugged, IDEDev, Drives, regs, err, quiet, line, IF_, Invoked, BufferA, package, asked, Outcome>>

(* Mutant of IDEWaitIRQ: what it waits for is the end of the transfer.     *)
IDEWaitIRQAtEnd ==
  /\ req.pc \in {"wait", "end"}
  /\ Invoked /\ phase[Ch] = "idle"
  /\ Invoked' = FALSE
  /\ req' = [req EXCEPT !.pc = IF @ = "wait" THEN "data" ELSE "last"]
  /\ UNCHANGED <<plugged, IDEDev, Drives, AtaDrive, quiet, line, IF_, BufferA, package, asked, Outcome>>

(* ... an interrupt when there is data and another at the end, ... *)
IDEWaitIRQ ==
  /\ req.pc \in {"wait", "end"}
  /\ Invoked
  /\ Invoked' = FALSE
  /\ req' = [req EXCEPT !.pc = IF @ = "wait" THEN "data" ELSE "last"]
  /\ UNCHANGED <<plugged, IDEDev, Drives, AtaDrive, quiet, line, IF_, BufferA, package, asked, Outcome>>

(* ... and the data between them. *)
ReadDisc ==
  /\ req.pc = "data"
  /\ ~busy[Ch] /\ IDEPolling(Ch) = 0
  /\ BufferA' = Named(Ch)
  /\ drq' = [drq EXCEPT ![Ch] = FALSE]
  /\ busy' = [busy EXCEPT ![Ch] = TRUE]
  /\ phase' = [phase EXCEPT ![Ch] = "ending"]
  /\ req' = [req EXCEPT !.pc = "end"]
  /\ UNCHANGED <<plugged, IDEDev, Drives, regs, err, quiet, line, IF_, Invoked, package, asked, Outcome>>

DiscDone ==
  /\ req.pc = "last"
  /\ ~busy[Ch] /\ ~drq[Ch]
  /\ Answer(0)
  /\ UNCHANGED <<plugged, IDEDev, Drives, AtaDrive, quiet, line, IF_, Invoked, BufferA, asked>>

-----------------------------------------------------------------------------
(* The drives.                                                             *)

Raises(c, it) == line' = [line EXCEPT ![c] = @ \/ (it /\ ~quiet[c])]

(* A command is done as far as it goes without the processor.  A drive     *)
(* that is ready for a packet or for data to write does not say so by an   *)
(* interrupt.                                                              *)
DriveReady(c) ==
  /\ busy[c]
  /\ busy' = [busy EXCEPT ![c] = FALSE]
  /\ drq' = [drq EXCEPT ![c] = phase[c] \in {"read", "write", "packet", "packet_read"}]
  /\ phase' = [phase EXCEPT ![c] = IF @ \in {"written", "lost", "ending"} THEN "idle" ELSE @]
  /\ Raises(c, phase[c] \notin {"write", "packet"})
  /\ put' = put \cup (IF phase[c] = "written" THEN {<<Named(c), BufferA>>} ELSE {})
  /\ UNCHANGED <<plugged, IDEDev, Drives, regs, err, quiet, IF_, Invoked, req, BufferA, failed, package, asked>>

(* It fails in the middle, also when it has the data to write already.     *)
DriveFails(c) ==
  /\ busy[c] /\ phase[c] \in {"read", "write", "written", "packet_read"}
  /\ failed' = TRUE
  /\ busy' = [busy EXCEPT ![c] = FALSE]
  /\ \E what \in Failures : err' = [err EXCEPT ![c] = what]
  /\ phase' = [phase EXCEPT ![c] = "idle"]
  /\ Raises(c, TRUE)
  /\ UNCHANGED <<plugged, IDEDev, Drives, regs, drq, quiet, IF_, Invoked, req, BufferA, put, package, asked>>

IDEIrq(c) ==
  /\ line[c] /\ IF_
  /\ line' = [line EXCEPT ![c] = FALSE]
  /\ Invoked' = TRUE
  /\ UNCHANGED <<plugged, IDEDev, Drives, AtaDrive, quiet, IF_, req, BufferA, package, asked, Outcome>>

Driver ==
  \/ (\E m \in Machines : IDEInitialise(m)) \/ SMInit \/ Refused \/ Begin \/ Command \/ PollFails
  \/ ReadDisk \/ WriteDisk \/ Flushed \/ SendPacket \/ IDEWaitIRQ \/ ReadDisc \/ DiscDone

AtaNext ==
  \/ Ask \/ Driver
  \/ \E c \in Channels : DriveReady(c) \/ DriveFails(c) \/ IDEIrq(c)

(* The processor runs, drives work, and interrupts arrive. *)
AtaFairness ==
  /\ WF_ataVars(Driver)
  /\ \A c \in Channels : WF_ataVars(DriveReady(c) \/ DriveFails(c)) /\ WF_ataVars(IDEIrq(c))

AtaSpec == AtaInit /\ [][AtaNext]_ataVars /\ AtaFairness

-----------------------------------------------------------------------------
(* Properties.                                                             *)

(* Every variable has its type. *)
AtaTypeOK ==
  /\ \A i \in DOMAIN IDEDev : IDEDev[i].type \in Types
  /\ \A k \in DOMAIN Drives : Drives[k].DriveNum \in {0, 1}
  /\ \A c \in Channels :
       /\ {busy[c], drq[c], quiet[c], line[c]} \subseteq BOOLEAN
       /\ err[c] \in Failures \cup {{}}
  /\ IF_ \in BOOLEAN /\ Invoked \in BOOLEAN
  /\ failed \in BOOLEAN /\ \A w \in put : w[1] \in Units \X Lbas
  /\ package \in {0, 1, 2, 8, 19, 20, 22, 23} /\ asked \in Nat

(* A request moves the sector asked for, of the drive addressed, however   *)
(* that sector's number is cut into registers.  A read that ends has it in *)
(* the buffer, or zeroes and an error, which is answered when a drive has  *)
(* failed and only then.  A write that ends has put the buffer in that     *)
(* sector and nothing anywhere else, unless the drive has failed: then     *)
(* nothing is put, and the answer is 0 all the same.                       *)
TransferIsSector ==
  [][/\ (req.pc \notin {"idle", "off", "found"} /\ req'.pc = "idle" /\ ~req.write) =>
          /\ BufferA' = IF package' = 0 THEN <<Addressed, req.lba>> ELSE Nothing_
          /\ req.pc # "check" => (package' = 0 <=> ~failed)
          /\ put = {}
     /\ (req.pc \in {"out", "flush"} /\ req'.pc = "idle") =>
          put = IF failed THEN {} ELSE {<<<<Addressed, req.lba>>, BufferA>>}]_ataVars

(* Every request is answered: polling ends, and the two interrupts of a    *)
(* disc's read are both waited for and both come.                          *)
AtaAnswers == [](req.pc = "check" => <>(req.pc = "idle"))
=============================================================================
