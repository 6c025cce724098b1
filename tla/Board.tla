------------------------------- MODULE Board -------------------------------
(***************************************************************************)
(* What the kernel asks of the board once, at start-up: the devices on the *)
(* PCI buses (drivers/dev/pci.c), the printer ports (drivers/dev/          *)
(* parallel.c), the descriptor tables and the interrupt controllers        *)
(* (arch/x86/gdt.c, idt.c), and of its clock (drivers/sys/rtc.c).          *)
(***************************************************************************)
LOCAL INSTANCE Integers
LOCAL INSTANCE SequencesExt
LOCAL INSTANCE FiniteSetsExt

CONSTANTS
  Buses, Slots, Functions,   \* 256, 32 and 8
  MAX_DEVICES                \* 128

-----------------------------------------------------------------------------
(* PCI.  bus maps the functions that exist, <<bus, slot, function>>, to     *)
(* their configuration: records of class, subclass and multi, the bit of    *)
(* the header type that says that a device has several functions.           *)

pciDeviceExists(config, b, s, f) == <<b, s, f>> \in DOMAIN config

pciReadDeviceInfo(config, b, s, f) ==
  [bus |-> b, slot |-> s, function |-> f,
   class_id |-> config[<<b, s, f>>].class, subclass_id |-> config[<<b, s, f>>].subclass]

FunctionLimit(config, b, s) == IF config[<<b, s, 0>>].multi THEN Functions ELSE 1

\* In order of bus, slot and function; a device without a function 0 is not
\* seen, and only function 0 of one that does not say it has several.
pciEnumerateDevices(config) ==
  LET in(b, s) == IF ~pciDeviceExists(config, b, s, 0) THEN <<>>
                  ELSE LET there == {f \in 0..FunctionLimit(config, b, s) - 1 :
                                       pciDeviceExists(config, b, s, f)}
                       IN [k \in 1..Cardinality(there) |->
                             pciReadDeviceInfo(config, b, s, SetToSortSeq(there, <)[k])]
  IN FlattenSeq([n \in 1..Buses * Slots |-> in((n - 1) \div Slots, (n - 1) % Slots)])

\* The table, filled up with the zeroes it starts with.  A device more than it
\* holds is written behind it: not modelled.
pciRegister(found) ==
  [i \in 1..MAX_DEVICES |->
    IF i <= Len(found) THEN found[i]
    ELSE [bus |-> 0, slot |-> 0, function |-> 0, class_id |-> 0, subclass_id |-> 0]]

\* From start to end, both counted from 0, as far as there are devices.
pciGetDevices(devices, count, start, end) ==
  [k \in 1..Max({0, Min({end + 1, count}) - start}) |-> devices[start + k]]

pciGetOriginalDevice(devices, i) == IF i >= MAX_DEVICES THEN {} ELSE {devices[i + 1]}

\* The unused places are looked at, too: class 0, subclass 0 is always found.
pciFindOfType(devices, class, subclass) ==
  LET found == {i \in DOMAIN devices : /\ devices[i].class_id = class
                                       /\ devices[i].subclass_id = subclass}
  IN IF found = {} THEN {} ELSE {devices[Min(found)]}

-----------------------------------------------------------------------------
(* A printer port, by the hardware behind it: "none", or how it can be     *)
(* read.  control is its control register; SELECT and INIT are 8 and 4.    *)

parallel_detect(hw) == hw # "none"

\* Something answers at base + 0x400, whatever it is.
parallel_detect_epp(hw) == hw \in {"epp", "both"}
parallel_detect_ecp(hw) == hw \in {"ecp", "both"}

parallel_init(port, hw, mode) ==
  IF ~parallel_detect(hw) THEN [port EXCEPT !.present = FALSE]
  ELSE [port EXCEPT !.present = TRUE, !.control = 8 + 4,
                    !.mode = IF parallel_detect_epp(hw) THEN "EPP"
                             ELSE IF parallel_detect_ecp(hw) THEN "ECP" ELSE mode]

\* The byte is sent whether or not the port has stopped being busy, and the
\* strobe, which is active when clear, is set again.
parallel_write_byte(port, data) ==
  IF ~port.present THEN port
  ELSE [port EXCEPT !.control = (@ \div 2) * 2 + 1, !.sent = Append(@, data)]

parallel_send_string(port, text) == FoldLeft(parallel_write_byte, port, text)

\* Nothing is read from a port that is not bidirectional.
parallel_read_byte(port, data) ==
  IF port.present /\ port.mode # "SPP" THEN data ELSE 255

IRQEN == 16

parallel_enable_irq(port, enable) ==
  LET set == (port.control \div IRQEN) % 2 = 1
  IN IF ~port.present THEN port
     ELSE [port EXCEPT !.irq = enable,
                       !.control = IF enable /\ ~set THEN @ + IRQEN
                                   ELSE IF ~enable /\ set THEN @ - IRQEN ELSE @]

parallel_scan_ports(ports, hw) ==
  [p \in DOMAIN ports |-> IF parallel_detect(hw[p]) THEN parallel_init(ports[p], hw[p], "SPP")
                          ELSE ports[p]]

\* The first port is initialised a second time.
init_parallel_ports(ports, hw, greeting) ==
  LET scanned == parallel_scan_ports(ports, hw)
      lpt1    == parallel_init(scanned["LPT1"], hw["LPT1"], "SPP")
  IN [scanned EXCEPT !["LPT1"] = parallel_send_string(lpt1, greeting)]

-----------------------------------------------------------------------------
(* Descriptors.                                                            *)

\* A base of 32 bits in three parts, a limit of 20 in two; the rest is lost.
gdtSetEntry(base, limit, access, gran) ==
  [base_low |-> base % 65536, base_middle |-> (base \div 65536) % 256,
   base_high |-> (base \div 16777216) % 256,
   limit_low |-> limit % 65536,
   granularity |-> ((limit \div 65536) % 16) + (gran \div 16) * 16,
   access |-> access]

idtSetEntry(handler) ==
  [base_low |-> handler % 65536, base_high |-> (handler \div 65536) % 65536,
   selector |-> 8, flags |-> 142]

\* Which handler a vector has: exceptions and devices by name, else "Default".
Exceptions ==
  <<"DivideByZero", "Debug", "NMI", "Breakpoint", "Overflow", "BoundRange",
    "InvalidOpcode", "DeviceNotAvailable", "DoubleFault", "CoprocessorSegmentOverrun",
    "InvalidTSS", "SegmentNotPresent", "StackSegmentFault", "GeneralProtectionFault",
    "PageFault", "Default", "FloatingPoint", "AlignmentCheck", "MachineCheck",
    "SIMDFloatingPoint", "Virtualization", "ControlProtection">>

Devices ==
  <<"Timer", "Keyboard", "Cascade", "COM2", "COM1", "LPT2", "Floppy", "LPT1",
    "RTC", "Default", "SB16", "Default", "Mouse", "Default", "IDE", "IDE">>

idtInit ==
  [v \in 0..255 |-> CASE v < 22 -> Exceptions[v + 1]
                      [] v \in 32..47 -> Devices[v - 31]
                      [] v = 128 -> "SysCall"
                      [] OTHER -> "Default"]

\* The controllers are moved to the vectors from 32 and from 40 on, ...
Vector(line) == IF line < 8 THEN 32 + line ELSE 40 + line - 8

\* ... and let through what the masks 0xFA and 0x3F leave: timer, second
\* controller and disks.  Keyboard and mouse are polled.
Mask == 250 + 256 * 63

Enabled == {line \in 0..15 : (Mask \div 2 ^ line) % 2 = 0}

bcd2Bin(bcd) == (bcd % 16) + (bcd \div 16) * 10

-----------------------------------------------------------------------------
(* What these should find.                                                 *)

\* A device answers for function 0; the others count when it says so.
Present(config) ==
  LET first(p) == <<p[1], p[2], 0>> IN
  {p \in DOMAIN config : /\ first(p) \in DOMAIN config
                         /\ p[3] # 0 => config[first(p)].multi}

Base(d) == d.base_low + 65536 * d.base_middle + 16777216 * d.base_high
=============================================================================
