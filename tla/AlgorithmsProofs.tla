-------------------------- MODULE AlgorithmsProofs --------------------------
(***************************************************************************)
(* Proofs about Algorithms: that numbers packed into others are read back, *)
(* and that nothing is drawn, laid out or compared past its end, for all   *)
(* inputs the callers may pass.                                            *)
(*                                                                         *)
(* The steps of the machine are simple, what they compute is not: a lemma  *)
(* for each operation says what its answer is, for one division at a time. *)
(* Quotients and remainders enter a proof through Division, Unique and     *)
(* Divided, and as numbers of their own, so that what is left is linear.   *)
(***************************************************************************)
EXTENDS Algorithms, WellFoundedInduction, TLAPS

-----------------------------------------------------------------------------
(* Division.                                                               *)

LEMMA Division ==
  ASSUME NEW b \in Nat \ {0}, NEW n \in Int
  PROVE  /\ n \div b \in Int /\ n % b \in 0 .. b - 1
         /\ n = b * (n \div b) + (n % b)
OBVIOUS

LEMMA Unique ==
  ASSUME NEW b \in Nat \ {0}, NEW q \in Int, NEW r \in 0 .. b - 1,
         NEW p \in Int, NEW s \in 0 .. b - 1, b * q + r = b * p + s
  PROVE  q = p /\ r = s
<1>1. CASE q < p
  <2>1. q + 1 <= p
    BY <1>1
  <2>2. b * (q + 1) <= b * p
    BY <2>1
  <2>3. b * (q + 1) = b * q + b
    OBVIOUS
  <2>4. QED
    BY <2>2, <2>3
<1>2. CASE p < q
  <2>1. p + 1 <= q
    BY <1>2
  <2>2. b * (p + 1) <= b * q
    BY <2>1
  <2>3. b * (p + 1) = b * p + b
    OBVIOUS
  <2>4. QED
    BY <2>2, <2>3
<1>3. QED
  BY <1>1, <1>2

LEMMA Divided ==
  ASSUME NEW b \in Nat \ {0}, NEW q \in Int, NEW r \in 0 .. b - 1
  PROVE  (b * q + r) \div b = q /\ (b * q + r) % b = r
<1> DEFINE n == b * q + r
<1>1. n \in Int
  OBVIOUS
<1>2. n \div b \in Int /\ n % b \in 0 .. b - 1 /\ n = b * (n \div b) + (n % b)
  BY <1>1, Division
<1> HIDE DEF n
<1>3. n = b * q + r
  BY DEF n
<1>4. QED
  BY <1>2, <1>3, Unique DEF n

LEMMA Monotone ==
  ASSUME NEW a \in Nat, NEW b \in Nat, NEW c \in Nat, a <= b
  PROVE  a * c <= b * c /\ a * c \in Nat
OBVIOUS

LEMMA Small ==
  ASSUME NEW b \in Nat \ {0}, NEW n \in 0 .. b - 1
  PROVE  n % b = n /\ n \div b = 0
OBVIOUS

-----------------------------------------------------------------------------
(* Directory slots.                                                        *)

LEMMA SlotFacts ==
  ASSUME NEW c \in 0 .. HalfWord - 1, NEW s \in 0 .. Octet - 1, NEW i \in 0 .. Octet - 1
  PROVE  Located(Location(c, s, i)) = <<c, s, i>>
<1>1. PICK o, h : o = Octet /\ h = HalfWord
  OBVIOUS
<1>2. /\ o \in Nat \ {0, 1} /\ h = o * o
      /\ c \in 0 .. h - 1 /\ s \in 0 .. o - 1 /\ i \in 0 .. o - 1
  BY <1>1, FatAssumption
<1>3. h \in Nat \ {0} /\ c \in Nat /\ s \in Nat /\ i \in Nat /\ o - 1 \in Nat /\ h - 1 \in Nat
  <2>1. o * o \in Nat /\ o * o # 0
    BY <1>2
  <2>2. QED
    BY <1>2, <2>1
<1>4. PICK low \in Nat : low = s * o + i
  BY <1>2, <1>3
<1>5. low \in 0 .. h - 1
  <2>1. s * o <= (o - 1) * o
    BY <1>2, <1>3, Monotone
  <2>2. (o - 1) * o = o * o - o
    BY <1>2
  <2>3. QED
    BY <1>2, <1>3, <1>4, <2>1, <2>2
<1>6. PICK n \in Nat : n = h * c + low
  BY <1>2, <1>3, <1>4
<1>7. n <= h * h - 1
  <2>1. c * h <= (h - 1) * h
    BY <1>2, <1>3, Monotone
  <2>2. (h - 1) * h = h * h - h
    BY <1>2, <1>3
  <2>3. QED
    BY <1>2, <1>3, <1>5, <1>6, <2>1, <2>2
<1>8. n \div h = c
  BY <1>2, <1>3, <1>5, <1>6, Divided
<1>9. PICK d \in Nat : d = o * c + s
  BY <1>2, <1>3
<1>10. n = o * d + i
  <2>1. o * (o * c) = (o * o) * c
    BY <1>2, <1>3
  <2>2. o * d = o * (o * c) + o * s
    BY <1>2, <1>3, <1>9
  <2>3. QED
    BY <1>2, <1>3, <1>4, <1>6, <2>1, <2>2
<1>11. n \div o = d /\ n % o = i
  BY <1>2, <1>3, <1>10, Divided, SMTT(25)
<1>12. d % o = s
  <2>1. PICK q \in Int, r \in 0 .. o - 1 : q = d \div o /\ r = d % o /\ d = o * q + r
    <3>1. o \in Nat \ {0} /\ d \in Int
      BY <1>2, <1>9
    <3>2. d \div o \in Int /\ d % o \in 0 .. o - 1 /\ d = o * (d \div o) + (d % o)
      BY <3>1, Division
    <3>3. QED
      BY <3>2
  <2>2. o * q + r = o * c + s
    BY <1>9, <2>1
  <2>3. r = s
    BY <1>2, <1>3, <2>2, Unique
  <2>4. QED
    BY <2>1, <2>3
<1>13. Location(c, s, i) = n
  <2>1. h * h \in Nat \ {0} /\ n \in 0 .. h * h - 1
    BY <1>2, <1>3, <1>6, <1>7
  <2>2. n % (h * h) = n
    BY <2>1, Small
  <2>3. n = c * h + s * o + i
    BY <1>2, <1>3, <1>4, <1>6
  <2>4. Location(c, s, i) = (c * h + s * o + i) % (h * h)
    BY <1>1 DEF Location
  <2>5. QED
    BY <2>2, <2>3, <2>4, Zenon
<1>14. QED
  BY <1>1, <1>8, <1>11, <1>12, <1>13 DEF Located

(* A word has no room for a cluster's number of more than half a word.     *)
LEMMA SlotLost ==
  ASSUME NEW c \in Nat, NEW s \in 0 .. Octet - 1, NEW i \in 0 .. Octet - 1, HalfWord <= c
  PROVE  Located(Location(c, s, i)) # <<c, s, i>>
<1>1. PICK h \in Nat \ {0} : h = HalfWord
  <2>1. Octet \in Nat \ {0, 1} /\ HalfWord = Octet * Octet
    BY FatAssumption
  <2>2. Octet * Octet \in Nat \ {0}
    BY <2>1
  <2>3. QED
    BY <2>1, <2>2
<1>2. PICK w \in Nat \ {0} : w = h * h
  OBVIOUS
<1>3. PICK m \in Int : m = c * HalfWord + s * Octet + i
  BY FatAssumption, <1>1
<1>4. PICK n \in 0 .. w - 1 : n = Location(c, s, i)
  <2>1. m % w \in 0 .. w - 1
    BY Division
  <2>2. QED
    BY <1>1, <1>2, <1>3, <2>1 DEF Location
<1>5. n \div h < h
  <2>1. PICK q \in Int, r \in 0 .. h - 1 : q = n \div h /\ n = h * q + r
    <3>1. n \in Int
      OBVIOUS
    <3>2. n \div h \in Int /\ n % h \in 0 .. h - 1 /\ n = h * (n \div h) + (n % h)
      BY <3>1, Division
    <3>3. QED
      BY <3>2
  <2>2. ~ h <= q
    <3>1. SUFFICES ASSUME h <= q PROVE FALSE
      OBVIOUS
    <3>2. h * h <= q * h
      BY <2>1, <3>1, Monotone
    <3>3. h * q = q * h
      BY <2>1
    <3>4. QED
      BY <1>2, <1>4, <2>1, <3>2, <3>3
  <2>3. QED
    BY <2>1, <2>2
<1>6. Located(n)[1] = n \div h
  BY <1>1 DEF Located
<1>7. QED
  BY <1>1, <1>4, <1>5, <1>6

-----------------------------------------------------------------------------
(* Bases and the clock.                                                    *)

LEMMA BaseFacts ==
  ASSUME NEW n, IsBase(n), NEW limit, NEW access, NEW gran
  PROVE  /\ B!Base(B!gdtSetEntry(n, limit, access, gran)) = n
         /\ B!idtSetEntry(n).base_low = B!gdtSetEntry(n, limit, access, gran).base_low
<1>1. (n % 65536) + 65536 * ((n \div 65536) % 256) + 16777216 * ((n \div 16777216) % 256) = n
  BY DEF IsBase
<1>2. QED
  BY <1>1 DEF B!Base, B!gdtSetEntry, B!idtSetEntry

LEMMA ClockFacts ==
  ASSUME NEW n \in TwoDigits
  PROVE  B!bcd2Bin(16 * (n \div 10) + (n % 10)) = n
<1>1. PICK d \in 0 .. 9, u \in 0 .. 9 : n = 10 * d + u /\ d = n \div 10 /\ u = n % 10
  BY DEF TwoDigits
<1>2. (16 * d + u) % 16 = u /\ (16 * d + u) \div 16 = d
  BY <1>1
<1>3. QED
  BY <1>1, <1>2 DEF B!bcd2Bin

-----------------------------------------------------------------------------
(* The regions of a volume.                                                *)

LEMMA RoundedUp ==
  ASSUME NEW a \in Nat, NEW b \in Nat \ {0}
  PROVE  (a + b - 1) \div b \in Nat /\ a <= ((a + b - 1) \div b) * b
<1>1. PICK n \in Nat : n = a + b - 1
  OBVIOUS
<1>2. /\ n \div b \in Int /\ n % b \in 0 .. b - 1
      /\ n = b * (n \div b) + (n % b)
  BY <1>1, Division
<1>3. PICK q \in Int, r \in 0 .. b - 1 : q = n \div b /\ n = b * q + r
  BY <1>2
<1>4. a <= q * b
  BY <1>1, <1>3
<1>5. q >= 0
  <2>1. CASE q < 0
    <3>1. b * q <= b * (-1)
      BY <1>3, <2>1
    <3>2. QED
      BY <1>3, <3>1
  <2>2. QED
    BY <1>3, <2>1
<1>6. QED
  BY <1>1, <1>3, <1>4, <1>5

LEMMA Regions ==
  ASSUME NEW bt, IsVolume(bt)
  PROVE  RegionsDisjoint(bt)
<1>1. PICK first, size, total, count, per :
        /\ first = FatFirstData(bt) /\ size = FatRootDirSize(bt) /\ total = FatTotalSectors(bt)
        /\ count = FatClusterCount(bt) /\ per = bt.SectorsPerCluster
  OBVIOUS
<1>2. size \in Nat /\ bt.RootDirectoryEntries * EntryBytes <= size * bt.BytesPerSector
  <2>1. /\ bt.RootDirectoryEntries * EntryBytes \in Nat
        /\ bt.BytesPerSector \in Nat \ {0}
    BY FatAssumption DEF IsVolume
  <2>2. QED
    BY <1>1, <2>1, RoundedUp DEF FatRootDirSize
<1>3. /\ FatSize(bt) \in Nat /\ total \in Nat /\ per \in Nat \ {0}
      /\ bt.FATCount * FatSize(bt) \in Nat /\ FatFirstFat(bt) \in Nat
  BY <1>1 DEF IsVolume, FatSize, FatTotalSectors, FatFirstFat
<1>4. /\ first = FatFirstFat(bt) + bt.FATCount * FatSize(bt) + size
      /\ first \in Nat /\ FatFirstRoot(bt) = first - size
  BY <1>1, <1>2, <1>3 DEF FatFirstData, FatFirstFat, FatFirstRoot
<1>5. count \in Int /\ per * count <= total - first
  <2>1. count = (total - first) \div per
    BY <1>1 DEF FatClusterCount, FatDataCount
  <2>2. PICK n \in Int : n = total - first
    BY <1>3, <1>4
  <2>3. n \div per \in Int /\ n % per \in 0 .. per - 1 /\ n = per * (n \div per) + (n % per)
    BY <1>3, <2>2, Division
  <2>4. count \in Int /\ n = per * count + (n % per) /\ n % per \in Nat
    BY <1>3, <2>1, <2>2, <2>3
  <2>5. PICK r \in Nat : r = n % per
    BY <2>4
  <2>6. QED
    BY <1>3, <2>2, <2>4, <2>5
<1> DEFINE of(c) == Sectors(FatFirstSectorForCluster(bt, c), per)
<1>6. ASSUME NEW c \in 2 .. count + 1
      PROVE  of(c) = (c - 2) * per + first .. (c - 2) * per + first + per - 1
  BY <1>1, <1>3, <1>4, <1>5 DEF Sectors, FatFirstSectorForCluster
<1>7. ASSUME NEW c \in 2 .. count + 1
      PROVE  of(c) \subseteq FatFirstRoot(bt) + FatRootDirSize(bt) .. FatTotalSectors(bt) - 1
  <2>1. PICK k \in Nat : k = c - 2 /\ k + 1 <= count
    BY <1>5, <1>7
  <2>2. PICK m \in Nat : m = k * per
    BY <1>3
  <2>3. m + per <= per * count
    <3>1. (k + 1) * per <= count * per
      BY <1>3, <1>5, <2>1
    <3>2. (k + 1) * per = m + per
      BY <1>3, <2>2
    <3>3. QED
      BY <1>3, <1>5, <3>1, <3>2
  <2>4. of(c) = m + first .. m + first + per - 1
    BY <1>6, <2>1, <2>2
  <2>5. FatFirstRoot(bt) + FatRootDirSize(bt) = first
    BY <1>1, <1>2, <1>4
  <2>6. PICK p \in Int : p = per * count
    BY <1>3, <1>5
  <2>7. m + first + per - 1 <= total - 1
    BY <1>3, <1>4, <1>5, <2>3, <2>6
  <2> HIDE DEF of
  <2>8. QED
    <3>1. m + first .. m + first + per - 1 \subseteq first .. total - 1
      BY <1>3, <1>4, <2>2, <2>7
    <3>2. FatTotalSectors(bt) = total
      BY <1>1
    <3>3. QED
      BY <2>4, <2>5, <3>1, <3>2, Zenon
<1>8. ASSUME NEW c \in 2 .. count + 1, NEW d \in 2 .. count + 1, c < d
      PROVE  of(c) \cap of(d) = {}
  <2>1. PICK k \in Nat, l \in Nat : k = c - 2 /\ l = d - 2 /\ k + 1 <= l
    BY <1>5, <1>8
  <2>2. PICK m \in Nat, n \in Nat : m = k * per /\ n = l * per
    BY <1>3, <2>1
  <2>3. m + per <= n
    <3>1. (k + 1) * per <= l * per
      BY <1>3, <2>1
    <3>2. (k + 1) * per = m + per
      BY <1>3, <2>2
    <3>3. QED
      BY <2>2, <3>1, <3>2
  <2>4. /\ of(c) = m + first .. m + first + per - 1
        /\ of(d) = n + first .. n + first + per - 1
    BY <1>6, <2>1, <2>2
  <2> HIDE DEF of
  <2>5. (m + first .. m + first + per - 1) \cap (n + first .. n + first + per - 1) = {}
    BY <1>3, <1>4, <2>2, <2>3
  <2>6. QED
    BY <2>4, <2>5, Zenon
<1>9. \A c \in 2 .. count + 1 : \A d \in (2 .. count + 1) \ {c} : of(c) \cap of(d) = {}
  <2> HIDE DEF of
  <2>1. SUFFICES ASSUME NEW c \in 2 .. count + 1, NEW d \in 2 .. count + 1, c # d
                 PROVE  of(c) \cap of(d) = {}
    OBVIOUS
  <2>2. c < d \/ d < c
    BY <1>5, <2>1
  <2>3. QED
    BY <1>8, <2>2
<1>10. QED
  BY <1>1, <1>2, <1>3, <1>4, <1>7, <1>9 DEF RegionsDisjoint

-----------------------------------------------------------------------------
(* Entries of allocation tables.                                           *)

(* A word at an even place lies in one sector.                             *)
LEMMA EvenPlace ==
  ASSUME NEW b \in Nat \ {0}, b % 2 = 0, NEW m \in Nat
  PROVE  ((2 * m) % b) + 1 < b
<1>1. PICK q \in Nat : b = 2 * q
  OBVIOUS
<1>2. PICK n \in Nat : n = 2 * m
  OBVIOUS
<1>3. n \div b \in Int /\ n % b \in 0 .. b - 1 /\ n = b * (n \div b) + (n % b)
  BY <1>2, Division
<1>4. PICK d \in Int, r \in 0 .. b - 1 : r = n % b /\ n = b * d + r
  BY <1>3
<1>5. PICK e \in Int : e = q * d
  BY <1>1, <1>4
<1>6. b * d = 2 * e
  BY <1>1, <1>4, <1>5
<1>7. r + 1 < b
  BY <1>1, <1>2, <1>4, <1>5, <1>6
<1>8. QED
  BY <1>2, <1>4, <1>7

LEMMA WordRead ==
  ASSUME NEW disk, NEW bt, IsVolume(bt), NEW offset \in Nat,
         (offset % bt.BytesPerSector) + 1 < bt.BytesPerSector
  PROVE  LET at == FatFirstFat(bt) * bt.BytesPerSector
         IN  WORD(disk, bt, offset) = disk[at + offset] + 256 * disk[at + offset + 1]
<1>1. PICK b, f : b = bt.BytesPerSector /\ f = FatFirstFat(bt)
  OBVIOUS
<1>2. b \in Nat \ {0} /\ f \in Nat
  BY <1>1 DEF IsVolume, FatFirstFat
<1>3. offset \div b \in Int /\ offset % b \in 0 .. b - 1 /\ offset = b * (offset \div b) + (offset % b)
  BY <1>2, Division
<1>4. PICK d \in Int, r \in 0 .. b - 1 : d = offset \div b /\ r = offset % b /\ offset = b * d + r
  BY <1>3
<1>5. \A k \in 0 .. 1 : EntryByte(disk, bt, offset, k) = disk[f * b + offset + k]
  <2>1. SUFFICES ASSUME NEW k \in 0 .. 1
                 PROVE  EntryByte(disk, bt, offset, k) = disk[f * b + offset + k]
    OBVIOUS
  <2>2. r + k < b
    <3>1. r + 1 < b
      BY <1>1, <1>4
    <3>2. r \in Nat /\ b \in Nat
      BY <1>2, <1>4
    <3>3. QED
      BY <3>1, <3>2
  <2>3. EntryByte(disk, bt, offset, k) = disk[(f + d) * b + (r + k)]
    BY <1>1, <1>4, <2>2 DEF EntryByte, Buffer
  <2>4. (f + d) * b + (r + k) = f * b + offset + k
    BY <1>2, <1>4
  <2>5. QED
    BY <2>3, <2>4
<1>6. f * b + offset + 0 = f * b + offset
  BY <1>2
<1>7. QED
  BY <1>1, <1>5, <1>6 DEF WORD

LEMMA HalfBytes ==
  ASSUME NEW disk, NEW bt, NEW m \in Nat
  PROVE  LET byte == disk[FatFirstFat(bt) * bt.BytesPerSector + m] IN
         /\ HalfByte(disk, bt, 2 * m) = byte % 16
         /\ HalfByte(disk, bt, 2 * m + 1) = byte \div 16
<1>1. /\ (2 * m) \div 2 = m /\ (2 * m) % 2 = 0
      /\ (2 * m + 1) \div 2 = m /\ (2 * m + 1) % 2 = 1
  OBVIOUS
<1>2. QED
  BY <1>1 DEF HalfByte

(* The hexadecimal digits of two bytes, of their lower or upper three, and *)
(* of a number with another above it.                                      *)
OfTwo(n, b, c) ==
  /\ n \in Nat /\ n <= 65535
  /\ n % 16 = b % 16 /\ (n \div 16) % 16 = b \div 16
  /\ (n \div 256) % 16 = c % 16 /\ (n \div 4096) % 16 = c \div 16

OfLower(n, b, c) ==
  /\ n \in Nat /\ n <= 4095
  /\ n % 16 = b % 16 /\ (n \div 16) % 16 = b \div 16 /\ (n \div 256) % 16 = c % 16

OfUpper(n, b, c) ==
  /\ n \in Nat /\ n <= 4095
  /\ n % 16 = b \div 16 /\ (n \div 16) % 16 = c % 16 /\ (n \div 256) % 16 = c \div 16

OfSeven(n, l, h) ==
  /\ n \in Nat /\ n <= 268435455
  /\ n % 16 = l % 16 /\ (n \div 16) % 16 = (l \div 16) % 16
  /\ (n \div 256) % 16 = (l \div 256) % 16 /\ (n \div 4096) % 16 = (l \div 4096) % 16
  /\ (n \div 65536) % 16 = h % 16 /\ (n \div 1048576) % 16 = (h \div 16) % 16
  /\ (n \div 16777216) % 16 = (h \div 256) % 16

LEMMA Digits4 ==
  ASSUME NEW b \in 0 .. 255, NEW c \in 0 .. 255
  PROVE  OfTwo(b + 256 * c, b, c)
BY SMTT(25) DEF OfTwo

LEMMA DigitsHigh ==
  ASSUME NEW b \in 0 .. 255, NEW c \in 0 .. 255
  PROVE  OfUpper((b + 256 * c) \div 16, b, c)
BY DEF OfUpper

LEMMA Digits7 ==
  ASSUME NEW l \in Nat, l <= 65535, NEW h \in Nat, h <= 4095, NEW n, n = l + 65536 * h
  PROVE  OfSeven(n, l, h)
<1>1. n \in Nat /\ n = l + 65536 * h /\ n <= 268435455
  OBVIOUS
<1>2. /\ n \div 16 = (l \div 16) + 4096 * h
      /\ n \div 256 = (l \div 256) + 256 * h
      /\ n \div 4096 = (l \div 4096) + 16 * h
  BY <1>1
<1>3. n \div 65536 = h /\ n \div 1048576 = h \div 16 /\ n \div 16777216 = h \div 256
  BY <1>1
<1>4. n % 16 = l % 16
  BY <1>1
<1>5. \A k \in Int : (k + 4096 * h) % 16 = k % 16 /\ (k + 256 * h) % 16 = k % 16 /\ (k + 16 * h) % 16 = k % 16
  OBVIOUS
<1>6. l \div 16 \in Int /\ l \div 256 \in Int /\ l \div 4096 \in Int
  OBVIOUS
<1>7. QED
  BY <1>1, <1>2, <1>3, <1>4, <1>5, <1>6 DEF OfSeven

LEMMA PlaceValues ==
  /\ Places[1] = 1 /\ Places[2] = 16 /\ Places[3] = 256 /\ Places[4] = 4096
  /\ Places[5] = 65536 /\ Places[6] = 1048576 /\ Places[7] = 16777216 /\ Places[8] = 268435456
BY DEF Places

LEMMA Entry12Digits ==
  ASSUME NEW n \in Nat, n <= 4095, NEW disk, NEW bt, NEW c \in Nat,
         n % 16 = HalfByte(disk, bt, 3 * c), (n \div 16) % 16 = HalfByte(disk, bt, 3 * c + 1),
         (n \div 256) % 16 = HalfByte(disk, bt, 3 * c + 2)
  PROVE  IsEntry(n, disk, bt, 3, c)
<1>1. n \in 0 .. Places[3 + 1] - 1
  BY PlaceValues
<1>2. ASSUME NEW k \in 0 .. 3 - 1
      PROVE  (n \div Places[k + 1]) % 16 = HalfByte(disk, bt, 3 * c + k)
  <2>1. k = 0 \/ k = 1 \/ k = 2
    OBVIOUS
  <2>2. n \div 1 = n /\ 3 * c + 0 = 3 * c
    OBVIOUS
  <2>3. QED
    BY <2>1, <2>2, PlaceValues
<1>3. QED
  BY <1>1, <1>2 DEF IsEntry

LEMMA Entry16Digits ==
  ASSUME NEW n \in Nat, n <= 65535, NEW disk, NEW bt, NEW c \in Nat,
         n % 16 = HalfByte(disk, bt, 4 * c), (n \div 16) % 16 = HalfByte(disk, bt, 4 * c + 1),
         (n \div 256) % 16 = HalfByte(disk, bt, 4 * c + 2),
         (n \div 4096) % 16 = HalfByte(disk, bt, 4 * c + 3)
  PROVE  IsEntry(n, disk, bt, 4, c)
<1>1. n \in 0 .. Places[4 + 1] - 1
  BY PlaceValues
<1>2. ASSUME NEW k \in 0 .. 4 - 1
      PROVE  (n \div Places[k + 1]) % 16 = HalfByte(disk, bt, 4 * c + k)
  <2>1. k = 0 \/ k = 1 \/ k = 2 \/ k = 3
    OBVIOUS
  <2>2. n \div 1 = n /\ 4 * c + 0 = 4 * c
    OBVIOUS
  <2>3. QED
    BY <2>1, <2>2, PlaceValues
<1>3. QED
  BY <1>1, <1>2 DEF IsEntry

LEMMA Entry32Digits ==
  ASSUME NEW n \in Nat, n <= 268435455, NEW disk, NEW bt, NEW c \in Nat,
         n % 16 = HalfByte(disk, bt, 8 * c), (n \div 16) % 16 = HalfByte(disk, bt, 8 * c + 1),
         (n \div 256) % 16 = HalfByte(disk, bt, 8 * c + 2),
         (n \div 4096) % 16 = HalfByte(disk, bt, 8 * c + 3),
         (n \div 65536) % 16 = HalfByte(disk, bt, 8 * c + 4),
         (n \div 1048576) % 16 = HalfByte(disk, bt, 8 * c + 5),
         (n \div 16777216) % 16 = HalfByte(disk, bt, 8 * c + 6)
  PROVE  IsEntry(n, disk, bt, 8, c)
<1>1. n \in 0 .. Places[7 + 1] - 1
  BY PlaceValues
<1>2. ASSUME NEW k \in 0 .. 7 - 1
      PROVE  (n \div Places[k + 1]) % 16 = HalfByte(disk, bt, 8 * c + k)
  <2>1. k = 0 \/ k = 1 \/ k = 2 \/ k = 3 \/ k = 4 \/ k = 5 \/ k = 6
    OBVIOUS
  <2>2. n \div 1 = n /\ 8 * c + 0 = 8 * c
    OBVIOUS
  <2>3. QED
    BY <2>1, <2>2, PlaceValues
<1>3. QED
  BY <1>1, <1>2 DEF IsEntry

(* A byte of an entry that is on the disk.                                 *)
LEMMA TableByte ==
  ASSUME NEW x, IsLookup(x), NEW m \in Nat, m < FatSize(x.bt) * x.bt.BytesPerSector
  PROVE  x.disk[FatFirstFat(x.bt) * x.bt.BytesPerSector + m] \in 0 .. 255
<1>1. PICK at, end : /\ at = FatFirstFat(x.bt) * x.bt.BytesPerSector
                     /\ end = FatSize(x.bt) * x.bt.BytesPerSector
  OBVIOUS
<1>2. at \in Nat /\ end \in Nat
  BY <1>1 DEF IsLookup, IsVolume, FatFirstFat, FatSize
<1>3. at .. at + end - 1 \subseteq DOMAIN x.disk /\ \A b \in DOMAIN x.disk : x.disk[b] \in 0 .. 255
  BY <1>1 DEF IsLookup
<1>4. at + m \in at .. at + end - 1
  BY <1>1, <1>2
<1>5. QED
  BY <1>1, <1>3, <1>4

LEMMA LookupFacts ==
  ASSUME NEW x, IsLookup(x)
  PROVE  /\ IsVolume(x.bt) /\ x.bt.BytesPerSector \in Nat \ {0} /\ x.bt.BytesPerSector % 4 = 0
         /\ x.cluster \in Nat /\ FatSize(x.bt) * x.bt.BytesPerSector \in Nat
         /\ FatFirstFat(x.bt) * x.bt.BytesPerSector \in Nat
         /\ (x.cluster + 1) * Width(x.bt) <= 2 * (FatSize(x.bt) * x.bt.BytesPerSector)
         /\ FatIdentify(x.bt) # "FAT_UNKNOWN"
BY DEF IsLookup, IsVolume, FatSize, FatFirstFat

LEMMA Entry12Facts ==
  ASSUME NEW x, IsLookup(x), FatIdentify(x.bt) = "FAT_12", ~Straddles(x.bt, x.cluster)
  PROVE  IsEntry(FatNextCluster12(x.disk, x.bt, x.cluster), x.disk, x.bt, 3, x.cluster)
<1>1. PICK at, end, c, b : /\ at = FatFirstFat(x.bt) * x.bt.BytesPerSector
                           /\ end = FatSize(x.bt) * x.bt.BytesPerSector
                           /\ c = x.cluster /\ b = x.bt.BytesPerSector
  OBVIOUS
<1>2. at \in Nat /\ end \in Nat /\ c \in Nat /\ b \in Nat \ {0} /\ IsVolume(x.bt)
  BY <1>1, LookupFacts
<1>3. (c + 1) * 3 <= 2 * end
  BY <1>1, LookupFacts DEF Width
<1>4. PICK h \in Nat : (c = 2 * h \/ c = 2 * h + 1) /\ c \div 2 = h
  BY <1>2
<1>5. PICK o \in Nat : o = c + h
  BY <1>2, <1>4
<1>6. WORD(x.disk, x.bt, o) = x.disk[at + o] + 256 * x.disk[at + o + 1]
  <2>1. o % b # b - 1
    BY <1>1, <1>4, <1>5 DEF Straddles
  <2>2. o % b \in 0 .. b - 1
    BY <1>2, <1>5, Division
  <2>3. (o % b) + 1 < b
    BY <1>2, <2>1, <2>2
  <2>4. QED
    BY <1>1, <1>2, <2>3, WordRead
<1>7. o + 1 < end /\ o < end /\ o + 1 \in Nat
  BY <1>2, <1>3, <1>4, <1>5
<1>8. PICK u \in 0 .. 255, v \in 0 .. 255 : u = x.disk[at + o] /\ v = x.disk[at + (o + 1)]
  <2>1. x.disk[at + o] \in 0 .. 255
    BY <1>1, <1>5, <1>7, TableByte
  <2>2. x.disk[at + (o + 1)] \in 0 .. 255
    BY <1>1, <1>7, TableByte
  <2>3. QED
    BY <2>1, <2>2
<1>9. WORD(x.disk, x.bt, o) = u + 256 * v
  <2>1. at + (o + 1) = at + o + 1
    BY <1>2
  <2>2. QED
    BY <1>6, <1>8, <2>1
<1>10. /\ HalfByte(x.disk, x.bt, 2 * o) = u % 16 /\ HalfByte(x.disk, x.bt, 2 * o + 1) = u \div 16
       /\ HalfByte(x.disk, x.bt, 2 * (o + 1)) = v % 16
       /\ HalfByte(x.disk, x.bt, 2 * (o + 1) + 1) = v \div 16
  <2>1. HalfByte(x.disk, x.bt, 2 * o) = u % 16 /\ HalfByte(x.disk, x.bt, 2 * o + 1) = u \div 16
    BY <1>1, <1>5, <1>8, HalfBytes
  <2>2. /\ HalfByte(x.disk, x.bt, 2 * (o + 1)) = v % 16
        /\ HalfByte(x.disk, x.bt, 2 * (o + 1) + 1) = v \div 16
    BY <1>1, <1>7, <1>8, HalfBytes
  <2>3. QED
    BY <2>1, <2>2
<1>11. FatNextCluster12(x.disk, x.bt, c) = IF c % 2 = 1 THEN (u + 256 * v) \div 16 ELSE (u + 256 * v) % 4096
  <2>1. c + c \div 2 = o
    BY <1>4, <1>5
  <2>2. WORD(x.disk, x.bt, c + c \div 2) = u + 256 * v
    BY <1>9, <2>1
  <2>3. QED
    BY <2>2 DEF FatNextCluster12
<1>12. CASE c = 2 * h
  <2>1. c % 2 = 0
    BY <1>2, <1>4, <1>12
  <2>2. 2 * o = 3 * c /\ 2 * o + 1 = 3 * c + 1 /\ 2 * (o + 1) = 3 * c + 2
    BY <1>2, <1>4, <1>5, <1>12
  <2>3. PICK n : n = (u + 256 * v) % 4096
    OBVIOUS
  <2>4. OfLower(n, u, v)
    <3>1. u \in 0 .. 255 /\ v \in 0 .. 255
      BY <1>8
    <3>2. QED
      BY <2>3, <3>1 DEF OfLower
  <2>5. IsEntry(n, x.disk, x.bt, 3, c)
    BY <1>2, <1>10, <2>2, <2>4, Entry12Digits DEF OfLower
  <2>6. QED
    BY <1>1, <1>11, <2>1, <2>3, <2>5
<1>13. CASE c = 2 * h + 1
  <2>1. c % 2 = 1
    BY <1>2, <1>4, <1>13
  <2>2. 2 * o + 1 = 3 * c /\ 2 * (o + 1) = 3 * c + 1 /\ 2 * (o + 1) + 1 = 3 * c + 2
    BY <1>2, <1>4, <1>5, <1>13
  <2>3. PICK n : n = (u + 256 * v) \div 16
    OBVIOUS
  <2>4. OfUpper(n, u, v)
    BY <1>8, <2>3, DigitsHigh, Zenon
  <2>5. IsEntry(n, x.disk, x.bt, 3, c)
    BY <1>2, <1>10, <2>2, <2>4, Entry12Digits DEF OfUpper
  <2>6. QED
    BY <1>1, <1>11, <2>1, <2>3, <2>5
<1>14. QED
  BY <1>4, <1>12, <1>13

(* Two bytes of the table at an even place.                                *)
LEMMA WordDigits ==
  ASSUME NEW x, IsLookup(x), NEW m \in Nat,
         2 * m + 1 < FatSize(x.bt) * x.bt.BytesPerSector
  PROVE  LET n == WORD(x.disk, x.bt, 2 * m)
             half(k) == HalfByte(x.disk, x.bt, 4 * m + k)
         IN /\ n \in Nat /\ n <= 65535
            /\ n % 16 = HalfByte(x.disk, x.bt, 4 * m) /\ (n \div 16) % 16 = half(1)
            /\ (n \div 256) % 16 = half(2) /\ (n \div 4096) % 16 = half(3)
            /\ n % 4096 <= 4095 /\ n % 4096 \in Nat
            /\ (n % 4096) % 16 = HalfByte(x.disk, x.bt, 4 * m)
            /\ ((n % 4096) \div 16) % 16 = half(1)
            /\ ((n % 4096) \div 256) % 16 = half(2)
<1>1. PICK at, end, b, o : /\ at = FatFirstFat(x.bt) * x.bt.BytesPerSector
                           /\ end = FatSize(x.bt) * x.bt.BytesPerSector
                           /\ b = x.bt.BytesPerSector /\ o = 2 * m
  OBVIOUS
<1>2. at \in Nat /\ end \in Nat /\ b \in Nat \ {0} /\ IsVolume(x.bt) /\ b % 4 = 0 /\ o \in Nat
  BY <1>1, LookupFacts
<1>3. WORD(x.disk, x.bt, o) = x.disk[at + o] + 256 * x.disk[at + o + 1]
  <2>1. b % 2 = 0
    BY <1>2
  <2>2. (o % b) + 1 < b
    BY <1>1, <1>2, <2>1, EvenPlace
  <2>3. QED
    BY <1>1, <1>2, <2>2, WordRead
<1>4. o < end /\ o + 1 < end /\ o + 1 \in Nat
  BY <1>1, <1>2
<1>5. PICK u \in 0 .. 255, v \in 0 .. 255 : u = x.disk[at + o] /\ v = x.disk[at + (o + 1)]
  <2>1. x.disk[at + o] \in 0 .. 255
    BY <1>1, <1>2, <1>4, TableByte
  <2>2. x.disk[at + (o + 1)] \in 0 .. 255
    BY <1>1, <1>4, TableByte
  <2>3. QED
    BY <2>1, <2>2
<1>6. PICK n : n = WORD(x.disk, x.bt, o) /\ n = u + 256 * v
  <2>1. at + (o + 1) = at + o + 1
    BY <1>2
  <2>2. QED
    BY <1>3, <1>5, <2>1
<1>7. /\ HalfByte(x.disk, x.bt, 2 * o) = u % 16 /\ HalfByte(x.disk, x.bt, 2 * o + 1) = u \div 16
      /\ HalfByte(x.disk, x.bt, 2 * (o + 1)) = v % 16
      /\ HalfByte(x.disk, x.bt, 2 * (o + 1) + 1) = v \div 16
  <2>1. HalfByte(x.disk, x.bt, 2 * o) = u % 16 /\ HalfByte(x.disk, x.bt, 2 * o + 1) = u \div 16
    BY <1>1, <1>2, <1>5, HalfBytes, ZenonT(40)
  <2>2. /\ HalfByte(x.disk, x.bt, 2 * (o + 1)) = v % 16
        /\ HalfByte(x.disk, x.bt, 2 * (o + 1) + 1) = v \div 16
    BY <1>1, <1>4, <1>5, HalfBytes
  <2>3. QED
    BY <2>1, <2>2
<1>8. /\ 2 * o = 4 * m /\ 2 * o + 1 = 4 * m + 1 /\ 2 * (o + 1) = 4 * m + 2
      /\ 2 * (o + 1) + 1 = 4 * m + 3
  BY <1>1
<1>9. OfTwo(n, u, v)
  BY <1>5, <1>6, Digits4, ZenonT(40)
<1>10. PICK l : l = n % 4096
  OBVIOUS
<1>11. OfLower(l, u, v)
  <2>1. l = (u + 256 * v) % 4096
    BY <1>6, <1>10
  <2>2. u \in 0 .. 255 /\ v \in 0 .. 255
    BY <1>5
  <2>3. QED
    BY <2>1, <2>2 DEF OfLower
<1>12. /\ n \in Nat /\ n <= 65535
       /\ n % 16 = HalfByte(x.disk, x.bt, 4 * m) /\ (n \div 16) % 16 = HalfByte(x.disk, x.bt, 4 * m + 1)
       /\ (n \div 256) % 16 = HalfByte(x.disk, x.bt, 4 * m + 2)
       /\ (n \div 4096) % 16 = HalfByte(x.disk, x.bt, 4 * m + 3)
  BY <1>7, <1>8, <1>9 DEF OfTwo
<1>13. /\ l <= 4095 /\ l \in Nat
       /\ l % 16 = HalfByte(x.disk, x.bt, 4 * m) /\ (l \div 16) % 16 = HalfByte(x.disk, x.bt, 4 * m + 1)
       /\ (l \div 256) % 16 = HalfByte(x.disk, x.bt, 4 * m + 2)
  <2>1. /\ l \in Nat /\ l <= 4095
        /\ l % 16 = u % 16 /\ (l \div 16) % 16 = u \div 16 /\ (l \div 256) % 16 = v % 16
    BY <1>11 DEF OfLower
  <2>2. QED
    BY <1>7, <1>8, <2>1
<1>14. QED
  BY <1>1, <1>6, <1>10, <1>12, <1>13

LEMMA Entry16Facts ==
  ASSUME NEW x, IsLookup(x), FatIdentify(x.bt) = "FAT_16"
  PROVE  IsEntry(FatNextCluster16(x.disk, x.bt, x.cluster), x.disk, x.bt, 4, x.cluster)
<1>1. x.cluster \in Nat /\ (x.cluster + 1) * 4 <= 2 * (FatSize(x.bt) * x.bt.BytesPerSector)
      /\ FatSize(x.bt) * x.bt.BytesPerSector \in Nat
  BY LookupFacts DEF Width
<1>2. 2 * x.cluster + 1 < FatSize(x.bt) * x.bt.BytesPerSector
  BY <1>1
<1>3. FatNextCluster16(x.disk, x.bt, x.cluster) = WORD(x.disk, x.bt, 2 * x.cluster)
  <2>1. x.cluster * 2 = 2 * x.cluster
    BY <1>1
  <2>2. QED
    BY <2>1 DEF FatNextCluster16
<1>4. PICK n : n = WORD(x.disk, x.bt, 2 * x.cluster)
  OBVIOUS
<1>5. /\ n \in Nat /\ n <= 65535
      /\ n % 16 = HalfByte(x.disk, x.bt, 4 * x.cluster)
      /\ (n \div 16) % 16 = HalfByte(x.disk, x.bt, 4 * x.cluster + 1)
      /\ (n \div 256) % 16 = HalfByte(x.disk, x.bt, 4 * x.cluster + 2)
      /\ (n \div 4096) % 16 = HalfByte(x.disk, x.bt, 4 * x.cluster + 3)
  BY <1>1, <1>2, <1>4, WordDigits
<1>6. IsEntry(n, x.disk, x.bt, 4, x.cluster)
  BY <1>1, <1>5, Entry16Digits
<1>7. QED
  BY <1>3, <1>4, <1>6

LEMMA Entry32Facts ==
  ASSUME NEW x, IsLookup(x), FatIdentify(x.bt) = "FAT_32"
  PROVE  IsEntry(FatNextCluster32(x.disk, x.bt, x.cluster), x.disk, x.bt, 8, x.cluster)
<1>1. PICK c, end : c = x.cluster /\ end = FatSize(x.bt) * x.bt.BytesPerSector
  OBVIOUS
<1>2. c \in Nat /\ end \in Nat /\ (c + 1) * 8 <= 2 * end
  BY <1>1, LookupFacts DEF Width
<1>3. PICK m \in Nat : m = 2 * c
  BY <1>2
<1>4. m + 1 \in Nat /\ 2 * m + 1 < end /\ 2 * (m + 1) + 1 < end
  BY <1>2, <1>3
<1>5. PICK l, g : l = WORD(x.disk, x.bt, 2 * m) /\ g = WORD(x.disk, x.bt, 2 * (m + 1))
  OBVIOUS
<1>6. /\ l \in Nat /\ l <= 65535
      /\ l % 16 = HalfByte(x.disk, x.bt, 4 * m)
      /\ (l \div 16) % 16 = HalfByte(x.disk, x.bt, 4 * m + 1)
      /\ (l \div 256) % 16 = HalfByte(x.disk, x.bt, 4 * m + 2)
      /\ (l \div 4096) % 16 = HalfByte(x.disk, x.bt, 4 * m + 3)
  BY <1>1, <1>3, <1>4, <1>5, WordDigits
<1>7. PICK h : h = g % 4096
  OBVIOUS
<1>8. /\ h \in Nat /\ h <= 4095
      /\ h % 16 = HalfByte(x.disk, x.bt, 4 * (m + 1))
      /\ (h \div 16) % 16 = HalfByte(x.disk, x.bt, 4 * (m + 1) + 1)
      /\ (h \div 256) % 16 = HalfByte(x.disk, x.bt, 4 * (m + 1) + 2)
  BY <1>1, <1>4, <1>5, <1>7, WordDigits
<1>9. /\ 4 * m = 8 * c /\ 4 * m + 1 = 8 * c + 1 /\ 4 * m + 2 = 8 * c + 2 /\ 4 * m + 3 = 8 * c + 3
      /\ 4 * (m + 1) = 8 * c + 4 /\ 4 * (m + 1) + 1 = 8 * c + 5 /\ 4 * (m + 1) + 2 = 8 * c + 6
  BY <1>2, <1>3
<1>10. PICK n : n = l + 65536 * h
  OBVIOUS
<1>11. OfSeven(n, l, h)
  <2>1. l \in Nat /\ l <= 65535 /\ h \in Nat /\ h <= 4095
    BY <1>6, <1>8
  <2>2. QED
    BY <1>10, <2>1, Digits7
<1>12. IsEntry(n, x.disk, x.bt, 8, c)
  BY <1>2, <1>6, <1>8, <1>9, <1>11, Entry32Digits DEF OfSeven
<1>13. FatNextCluster32(x.disk, x.bt, c) = n
  <2>1. c * 4 = 2 * m /\ c * 4 + 2 = 2 * (m + 1)
    BY <1>2, <1>3
  <2>2. QED
    BY <1>5, <1>7, <1>10, <2>1 DEF FatNextCluster32
<1>14. QED
  BY <1>1, <1>12, <1>13

LEMMA EntryFacts ==
  ASSUME NEW x, IsLookup(x), ~Straddles(x.bt, x.cluster)
  PROVE  IsEntry(FatNextCluster(x.disk, x.bt, x.cluster), x.disk, x.bt, Width(x.bt), x.cluster)
<1>1. FatIdentify(x.bt) \in {"FAT_12", "FAT_16", "FAT_32"}
  BY LookupFacts DEF FatIdentify
<1>2. CASE FatIdentify(x.bt) = "FAT_12"
  BY <1>2, Entry12Facts DEF FatNextCluster, Width
<1>3. CASE FatIdentify(x.bt) = "FAT_16"
  BY <1>3, Entry16Facts DEF FatNextCluster, Width
<1>4. CASE FatIdentify(x.bt) = "FAT_32"
  BY <1>4, Entry32Facts DEF FatNextCluster, Width
<1>5. QED
  BY <1>1, <1>2, <1>3, <1>4

-----------------------------------------------------------------------------
(* Drawing.                                                                *)

(* What a text has to do with its frame, in numbers: the width and height  *)
(* of a character in pixels, of the frame and the place of the text.       *)
Numbers(x, w, h) ==
  /\ w = x.font.char_width * x.dim[3] /\ h = x.font.char_height * x.dim[3]
  /\ w \in Nat /\ h \in Nat /\ Len(x.text) \in Nat
  /\ x.dim[1] \in Nat /\ x.dim[2] \in Nat
  /\ x.px \in 0 .. Word - 1 /\ x.py \in 0 .. Word - 1
  /\ 2 * (Len(x.text) * w) <= Word /\ x.dim[2] + h <= Word

LEMMA DrawingNumbers ==
  ASSUME NEW x, IsDrawing(x)
  PROVE  Numbers(x, x.font.char_width * x.dim[3], x.font.char_height * x.dim[3])
<1>1. x.dim[1] \in Nat /\ x.dim[2] \in Nat /\ x.dim[3] \in Nat /\ Len(x.text) \in Nat
      /\ x.font.char_width \in Nat /\ x.font.char_height \in Nat
  BY DEF IsDrawing
<1>2. x.font.char_width * x.dim[3] \in Nat /\ x.font.char_height * x.dim[3] \in Nat
  <2>1. PICK a \in Nat, b \in Nat, c \in Nat :
          a = x.font.char_width /\ b = x.font.char_height /\ c = x.dim[3]
    BY <1>1
  <2>2. a * c \in Nat /\ b * c \in Nat
    OBVIOUS
  <2>3. QED
    BY <2>1, <2>2
<1>3. QED
  BY <1>1, <1>2 DEF IsDrawing, Numbers

(* Pixel c of the i-th character, its column and its colour.               *)
Column(x, w, i, c) == (x.px + ((i - 1) * w + c[1])) % Word

Colour(x, i, c) ==
  R!PixelValue(x.font, R!Shown(x.font, x.text[i]), c[1] \div x.dim[3], c[2] \div x.dim[3])

Written(x, w, h, i, c) ==
  /\ i \in 1 .. Len(x.text) /\ c \in (0 .. w - 1) \X (0 .. h - 1)
  /\ x.py + c[2] < x.dim[2] /\ Column(x, w, i, c) < x.dim[1]
  /\ (x.px + (i - 1) * w) % Word < x.dim[1]
  /\ ~R!Skipped(x.font, Colour(x, i, c), x.bg, x.fg)

Pixel(x, w, i, c) ==
  <<(x.py + c[2]) * x.dim[1] + Column(x, w, i, c),
    R!RenderBlend(x.bg, x.fg, Colour(x, i, c), x.font.bpp)>>

(* A remainder that is added to and divided again.                         *)
LEMMA Again ==
  ASSUME NEW b \in Nat \ {0}, NEW m \in Nat, NEW k \in Nat
  PROVE  ((m % b) + k) % b = (m + k) % b
<1> DEFINE Splits(n) == n \div b \in Int /\ n % b \in 0 .. b - 1 /\ n = b * (n \div b) + (n % b)
<1>1. \A n \in Nat : Splits(n)
  BY Division
<1>2. PICK q \in Int, r \in 0 .. b - 1 : r = m % b /\ m = b * q + r
  <2>1. Splits(m)
    BY <1>1
  <2>2. QED
    BY <2>1
<1>3. PICK n \in Nat : n = r + k
  <2>1. r \in Nat
    BY <1>2
  <2>2. QED
    BY <2>1
<1>4. PICK p \in Int, s \in 0 .. b - 1 : s = n % b /\ n = b * p + s
  <2>1. Splits(n)
    BY <1>1, <1>3
  <2>2. QED
    BY <2>1
<1>5. PICK u \in Int, v \in 0 .. b - 1 : v = (m + k) % b /\ m + k = b * u + v
  <2>1. Splits(m + k)
    BY <1>1
  <2>2. QED
    BY <2>1
<1>6. b * (q + p) + s = b * u + v
  <2>1. b * (q + p) = b * q + b * p
    BY <1>2, <1>4
  <2>2. QED
    BY <1>2, <1>3, <1>4, <1>5, <2>1
<1>7. s = v
  <2>1. q + p \in Int /\ s \in 0 .. b - 1 /\ u \in Int /\ v \in 0 .. b - 1
    BY <1>2, <1>4, <1>5
  <2>2. QED
    BY <1>6, <2>1, Unique
<1>8. QED
  BY <1>2, <1>3, <1>4, <1>5, <1>7

LEMMA ColumnFacts ==
  ASSUME NEW x, NEW w, NEW h, Numbers(x, w, h),
         NEW i \in 1 .. Len(x.text), NEW c \in (0 .. w - 1) \X (0 .. h - 1)
  PROVE  /\ Word \in Nat \ {0}
         /\ (i - 1) * w \in Nat /\ (i - 1) * w + c[1] \in Nat
         /\ (i - 1) * w + c[1] <= Len(x.text) * w - 1
         /\ 2 * ((i - 1) * w + c[1]) + 2 <= Word
         /\ Column(x, w, i, c) \in 0 .. Word - 1
         /\ (((x.px + (i - 1) * w) % Word) + c[1]) % Word = Column(x, w, i, c)
<1>1. Word \in Nat \ {0} /\ w \in Nat \ {0} /\ h \in Nat \ {0} /\ Len(x.text) \in Nat /\ c[1] \in 0 .. w - 1
      /\ x.px \in Nat
  <2>1. Word \in Nat \ {0}
    BY AlgorithmsAssumption
  <2>2. w \in Nat /\ h \in Nat /\ Len(x.text) \in Nat /\ x.px \in 0 .. Word - 1
    BY DEF Numbers
  <2>3. c[1] \in 0 .. w - 1 /\ c[2] \in 0 .. h - 1
    OBVIOUS
  <2>4. QED
    BY <2>1, <2>2, <2>3
<1>2. PICK n \in Nat, k \in Nat : n = Len(x.text) /\ k = i - 1 /\ k + 1 <= n
  BY <1>1
<1>3. k * w \in Nat /\ k * w + w <= n * w
  <2>1. (k + 1) * w <= n * w /\ (k + 1) * w = k * w + w
    BY <1>1, <1>2, SMTT(25)
  <2>2. QED
    BY <1>1, <1>2, <2>1
<1>4. 2 * (n * w) <= Word
  BY <1>2 DEF Numbers
<1>5. PICK m \in Nat, u \in Nat : m = k * w /\ u = n * w
  <2>1. n * w \in Nat
    BY <1>1, <1>2
  <2>2. QED
    BY <1>3, <2>1
<1>6. PICK a \in Nat, j \in Nat : a = c[1] /\ a <= w - 1 /\ j = x.px + m
  <2>1. m \in Nat
    BY <1>5
  <2>2. QED
    BY <1>1, <2>1
<1>7. m + a \in Nat /\ m + a <= u - 1 /\ 2 * (m + a) + 2 <= Word
  <2>1. m + w <= u /\ 2 * u <= Word
    BY <1>3, <1>4, <1>5
  <2>2. m \in Nat /\ u \in Nat /\ a \in Nat /\ a <= w - 1
    BY <1>5, <1>6
  <2>3. QED
    BY <1>1, <2>1, <2>2
<1>8. ((j % Word) + a) % Word = (j + a) % Word
  BY <1>1, <1>6, Again
<1>9. (i - 1) * w = m /\ Len(x.text) * w = u
  BY <1>2, <1>5
<1>10. x.px + (m + a) = j + a /\ j + a \in Int
  BY <1>1, <1>5, <1>6
<1>11. Column(x, w, i, c) = (j + a) % Word
  BY <1>6, <1>9, <1>10 DEF Column
<1>12. (j + a) % Word \in 0 .. Word - 1
  BY <1>1, <1>10, Division
<1>13. QED
  BY <1>1, <1>5, <1>6, <1>7, <1>8, <1>9, <1>11, <1>12

LEMMA DimFacts ==
  ASSUME NEW x
  PROVE  Dim(x)[1] = x.dim[1] /\ Dim(x)[2] = x.dim[2] /\ Dim(x)[3] = x.dim[3]
<1>1. ASSUME NEW given, given[1], given[2], given[3]
      PROVE  LET d == R!RenderSetDim(<<0, 0, 0>>, x.dim, given)
             IN  d[1] = x.dim[1] /\ d[2] = x.dim[2] /\ d[3] = x.dim[3]
  BY <1>1 DEF R!RenderSetDim
<1>2. <<TRUE, TRUE, TRUE>>[1] /\ <<TRUE, TRUE, TRUE>>[2] /\ <<TRUE, TRUE, TRUE>>[3]
  OBVIOUS
<1>3. QED
  BY <1>1, <1>2 DEF Dim

Character(x, w, i) ==
  R!RenderChar(Dim(x), x.font, x.text[i], (x.px + (i - 1) * w) % Word, x.py, x.bg, x.fg)

(* The pixels of one character.                                            *)
LEMMA CharFacts ==
  ASSUME NEW x, IsDrawing(x), NEW w, NEW h, Numbers(x, w, h), NEW i \in 1 .. Len(x.text), NEW p
  PROVE  p \in Character(x, w, i) <=> \E c \in (0 .. w - 1) \X (0 .. h - 1) : Written(x, w, h, i, c) /\ p = Pixel(x, w, i, c)
<1> DEFINE cells == (0 .. w - 1) \X (0 .. h - 1)
           px == (x.px + (i - 1) * w) % Word
           X(c) == (px + c[1]) % Word
           Y(c) == (x.py + c[2]) % Word
           shown == {c \in cells : X(c) < x.dim[1] /\ Y(c) < x.dim[2]
                                  /\ ~R!Skipped(x.font, Colour(x, i, c), x.bg, x.fg)}
           drawn == {<<Y(c) * x.dim[1] + X(c), R!RenderBlend(x.bg, x.fg, Colour(x, i, c), x.font.bpp)>> :
                       c \in shown}
<1>1. Character(x, w, i) = IF x.dim[1] = 0 \/ x.dim[2] = 0 \/ ~(px < x.dim[1] /\ x.py < x.dim[2]) THEN {} ELSE drawn
  <2>1. w = x.font.char_width * x.dim[3] /\ h = x.font.char_height * x.dim[3]
    BY DEF Numbers
  <2>2. QED
    BY <2>1, DimFacts, ZenonT(40) DEF Character, R!RenderChar, R!Inside, Colour
<1>2. ASSUME NEW c \in cells
      PROVE  /\ X(c) = Column(x, w, i, c) /\ X(c) \in Nat
             /\ x.py < x.dim[2] => Y(c) = x.py + c[2]
             /\ x.py \in Nat /\ c[2] \in Nat /\ x.dim[1] \in Nat /\ x.dim[2] \in Nat
  <2>1. x.py \in Nat /\ c[2] \in Nat /\ c[2] <= h - 1 /\ x.dim[2] \in Nat /\ x.dim[1] \in Nat
        /\ h \in Nat /\ x.dim[2] + h <= Word /\ Word \in Nat \ {0}
    BY AlgorithmsAssumption DEF Numbers
  <2>2. ASSUME x.py < x.dim[2] PROVE Y(c) = x.py + c[2]
    <3>1. x.py + c[2] \in 0 .. Word - 1
      BY <2>1, <2>2, SMTT(25)
    <3>2. QED
      BY <2>1, <3>1, Small
  <2>3. X(c) = Column(x, w, i, c) /\ Column(x, w, i, c) \in 0 .. Word - 1
    BY ColumnFacts
  <2>4. QED
    BY <2>1, <2>2, <2>3
<1>3. ASSUME NEW c \in cells, Written(x, w, h, i, c), p = Pixel(x, w, i, c)
      PROVE  p \in Character(x, w, i)
  <2>1. /\ x.py + c[2] < x.dim[2] /\ Column(x, w, i, c) < x.dim[1] /\ px < x.dim[1]
        /\ ~R!Skipped(x.font, Colour(x, i, c), x.bg, x.fg)
    BY <1>3 DEF Written
  <2>2. /\ x.py < x.dim[2] /\ x.dim[1] # 0 /\ x.dim[2] # 0
        /\ X(c) = Column(x, w, i, c) /\ Y(c) = x.py + c[2]
    <3>1. x.py < x.dim[2] /\ x.dim[2] # 0 /\ x.dim[1] # 0
      <4>1. X(c) \in Nat /\ X(c) < x.dim[1]
        BY <1>2, <2>1
      <4> HIDE DEF X
      <4>2. QED
        BY <1>2, <2>1, <4>1
    <3>2. QED
      BY <1>2, <3>1
  <2>3. c \in shown
    <3> HIDE DEF X, Y, px
    <3>1. QED
      BY <2>1, <2>2
  <2>4. p = <<Y(c) * x.dim[1] + X(c), R!RenderBlend(x.bg, x.fg, Colour(x, i, c), x.font.bpp)>>
    <3> HIDE DEF X, Y, px
    <3>1. QED
      BY <1>3, <2>2 DEF Pixel
  <2>5. p \in drawn
    <3> HIDE DEF X, Y, px, shown
    <3>1. QED
      BY <2>3, <2>4
  <2>6. QED
    <3> HIDE DEF px, drawn
    <3>1. QED
      BY <1>1, <2>1, <2>2, <2>5
<1>4. ASSUME p \in Character(x, w, i)
      PROVE  \E c \in cells : Written(x, w, h, i, c) /\ p = Pixel(x, w, i, c)
  <2>1. p \in drawn /\ px < x.dim[1] /\ x.py < x.dim[2]
    <3> HIDE DEF px, drawn
    <3>1. QED
      BY <1>1, <1>4
  <2>2. PICK c \in shown : p = <<Y(c) * x.dim[1] + X(c), R!RenderBlend(x.bg, x.fg, Colour(x, i, c), x.font.bpp)>>
    <3> HIDE DEF px, X, Y, shown
    <3>1. QED
      BY <2>1
  <2>3. c \in cells /\ X(c) < x.dim[1] /\ Y(c) < x.dim[2]
        /\ ~R!Skipped(x.font, Colour(x, i, c), x.bg, x.fg)
    <3> HIDE DEF px, X, Y
    <3>1. QED
      BY <2>2
  <2>4. X(c) = Column(x, w, i, c) /\ Y(c) = x.py + c[2]
    <3> HIDE DEF px, X, Y
    <3>1. QED
      BY <1>2, <2>1, <2>3
  <2>5. Written(x, w, h, i, c)
    <3> HIDE DEF X, Y
    <3>1. QED
      BY <2>1, <2>3, <2>4 DEF Written
  <2>6. p = Pixel(x, w, i, c)
    <3> HIDE DEF X, Y
    <3>1. QED
      BY <2>2, <2>4 DEF Pixel
  <2>7. QED
    BY <2>3, <2>5, <2>6
<1>5. QED
  BY <1>3, <1>4

LEMMA DrawnFacts ==
  ASSUME NEW x, IsDrawing(x), NEW w, NEW h, Numbers(x, w, h), NEW p
  PROVE  p \in Drawn(x) <=>
           \E i \in 1 .. Len(x.text) : \E c \in (0 .. w - 1) \X (0 .. h - 1) :
             Written(x, w, h, i, c) /\ p = Pixel(x, w, i, c)
<1>1. DOMAIN x.text = 1 .. Len(x.text) /\ Len(x.text) \in Nat
  BY DEF IsDrawing
<1>2. ASSUME NEW i \in 1 .. Len(x.text)
      PROVE  (i - 1) * x.font.char_width * Dim(x)[3] = (i - 1) * w
  <2>1. w = x.font.char_width * x.dim[3] /\ x.font.char_width \in Nat /\ x.dim[3] \in Nat
    BY DEF IsDrawing, Numbers
  <2>2. i - 1 \in Nat
    BY <1>1
  <2>3. QED
    BY <2>1, <2>2, DimFacts
<1>3. Drawn(x) = UNION {Character(x, w, i) : i \in 1 .. Len(x.text)}
  BY <1>1, <1>2 DEF Drawn, R!RenderPrint, Character
<1>4. p \in Drawn(x) <=> \E i \in 1 .. Len(x.text) : p \in Character(x, w, i)
  BY <1>3
<1>5. ASSUME NEW i \in 1 .. Len(x.text)
      PROVE  p \in Character(x, w, i) <=> \E c \in (0 .. w - 1) \X (0 .. h - 1) :
                                          Written(x, w, h, i, c) /\ p = Pixel(x, w, i, c)
  BY CharFacts
<1>6. QED
  BY <1>4, <1>5

(* No two places of a row of half the words are the same word.             *)
LEMMA Apart ==
  ASSUME NEW b \in Nat \ {0}, NEW m \in Nat, NEW t \in Nat, NEW u \in Nat,
         2 * t < b, 2 * u < b, (m + t) % b = (m + u) % b
  PROVE  t = u
<1> DEFINE Splits(n) == n \div b \in Int /\ n % b \in 0 .. b - 1 /\ n = b * (n \div b) + (n % b)
<1>1. \A n \in Nat : Splits(n)
  BY Division
<1>2. Splits(m + t) /\ Splits(m + u)
  BY <1>1
<1>3. PICK q \in Int, p \in Int, r \in 0 .. b - 1 : m + t = b * q + r /\ m + u = b * p + r
  BY <1>2
<1>4. CASE q < p
  <2>1. b * (q + 1) <= b * p /\ b * (q + 1) = b * q + b
    BY <1>3, <1>4
  <2>2. QED
    BY <1>3, <2>1
<1>5. CASE p < q
  <2>1. b * (p + 1) <= b * q /\ b * (p + 1) = b * p + b
    BY <1>3, <1>5
  <2>2. QED
    BY <1>3, <2>1
<1>6. QED
  BY <1>3, <1>4, <1>5

LEMMA OnePixel ==
  ASSUME NEW x, NEW w, NEW h, Numbers(x, w, h),
         NEW i, NEW c, NEW j, NEW e, Written(x, w, h, i, c), Written(x, w, h, j, e),
         Pixel(x, w, i, c)[1] = Pixel(x, w, j, e)[1]
  PROVE  i = j /\ c = e
<1>1. /\ i \in 1 .. Len(x.text) /\ j \in 1 .. Len(x.text)
      /\ c \in (0 .. w - 1) \X (0 .. h - 1) /\ e \in (0 .. w - 1) \X (0 .. h - 1)
  BY DEF Written
<1>2. Len(x.text) \in Nat /\ w \in Nat /\ h \in Nat /\ x.px \in Nat /\ x.py \in Nat /\ x.dim[1] \in Nat
      /\ Word \in Nat \ {0}
  BY AlgorithmsAssumption DEF Numbers
<1>3. PICK X, Z : /\ X = Column(x, w, i, c) /\ Z = Column(x, w, j, e)
                  /\ X \in Nat /\ Z \in Nat /\ X < x.dim[1] /\ Z < x.dim[1]
  <2>1. Column(x, w, i, c) \in 0 .. Word - 1
    BY <1>1, ColumnFacts
  <2>2. Column(x, w, j, e) \in 0 .. Word - 1
    BY <1>1, ColumnFacts
  <2>3. Column(x, w, i, c) < x.dim[1] /\ Column(x, w, j, e) < x.dim[1]
    BY DEF Written
  <2>4. QED
    BY <1>2, <2>1, <2>2, <2>3
<1>4. PICK t \in Nat, u \in Nat : /\ t = (i - 1) * w + c[1] /\ u = (j - 1) * w + e[1]
                                /\ 2 * t < Word /\ 2 * u < Word
  <2>1. (i - 1) * w + c[1] \in Nat /\ 2 * ((i - 1) * w + c[1]) + 2 <= Word
    BY <1>1, ColumnFacts
  <2>2. (j - 1) * w + e[1] \in Nat /\ 2 * ((j - 1) * w + e[1]) + 2 <= Word
    BY <1>1, ColumnFacts
  <2>3. PICK t \in Nat, u \in Nat : t = (i - 1) * w + c[1] /\ u = (j - 1) * w + e[1]
    BY <2>1, <2>2
  <2>4. 2 * t < Word /\ 2 * u < Word
    <3>1. 2 * t + 2 <= Word /\ 2 * u + 2 <= Word
      BY <2>1, <2>2, <2>3
    <3>2. t \in Nat /\ u \in Nat
      BY <2>3
    <3>3. QED
      BY <1>2, <3>1, <3>2
  <2>5. QED
    BY <2>3, <2>4
<1>5. PICK y \in Nat, z \in Nat : y = c[2] /\ z = e[2]
  BY <1>1, <1>2
<1>6. y = z /\ X = Z
  <2>1. PICK b \in Nat \ {0} : b = x.dim[1]
    BY <1>2, <1>3
  <2>2. PICK q \in Nat, p \in Nat : q = x.py + y /\ p = x.py + z
    BY <1>2, <1>5
  <2>3. q * b + X = p * b + Z
    BY <1>3, <1>5, <2>1, <2>2 DEF Pixel
  <2>4. b * q + X = b * p + Z /\ X \in 0 .. b - 1 /\ Z \in 0 .. b - 1
    BY <1>3, <2>1, <2>2, <2>3
  <2>5. q = p /\ X = Z
    <3>1. b \in Nat \ {0} /\ q \in Int /\ p \in Int
      BY <2>1, <2>2
    <3>2. QED
      BY <2>4, <3>1, Unique
  <2>6. QED
    BY <1>2, <1>5, <2>2, <2>5
<1>7. t = u
  <2>1. (x.px + t) % Word = (x.px + u) % Word
    BY <1>3, <1>4, <1>6 DEF Column
  <2>2. QED
    BY <1>2, <1>4, <2>1, Apart
<1>8. PICK k \in Nat, l \in Nat : k = i - 1 /\ l = j - 1
  BY <1>1, <1>2
<1>9. PICK a \in Nat, d \in Nat : a = c[1] /\ d = e[1] /\ a <= w - 1 /\ d <= w - 1
  BY <1>1, <1>2
<1>10. k = l /\ a = d
  <2>1. k * w + a = l * w + d
    BY <1>4, <1>7, <1>8, <1>9
  <2>2. w * k + a = w * l + d
    BY <1>2, <1>8, <1>9, <2>1
  <2>3. w \in Nat \ {0} /\ a \in 0 .. w - 1 /\ d \in 0 .. w - 1
    BY <1>2, <1>9
  <2>4. QED
    BY <1>8, <2>2, <2>3, Unique
<1>11. i = j
  BY <1>1, <1>2, <1>8, <1>10
<1>12. c = <<a, y>> /\ e = <<d, z>>
  BY <1>1, <1>5, <1>9
<1>13. QED
  BY <1>6, <1>10, <1>11, <1>12

(* A text that does not start before the frame is drawn in its box.        *)
LEMMA InBox ==
  ASSUME NEW x, IsDrawing(x), NEW w, NEW h, Numbers(x, w, h), x.px < Word \div 2,
         NEW i \in 1 .. Len(x.text), NEW c \in (0 .. w - 1) \X (0 .. h - 1)
  PROVE  Column(x, w, i, c) = x.px + ((i - 1) * w + c[1])
<1>1. (i - 1) * w + c[1] \in Nat /\ 2 * ((i - 1) * w + c[1]) + 2 <= Word
  BY ColumnFacts
<1>2. Word \in Nat \ {0} /\ x.px \in Nat
  BY AlgorithmsAssumption DEF Numbers
<1>3. PICK t \in Nat : t = (i - 1) * w + c[1] /\ 2 * t + 2 <= Word
  BY <1>1
<1>4. x.px + t \in 0 .. Word - 1
  BY <1>2, <1>3, SMTT(25)
<1>5. (x.px + t) % Word = x.px + t
  BY <1>2, <1>4, Small
<1>6. QED
  BY <1>3, <1>5 DEF Column

(* And every place of the box belongs to a character.                      *)
InTextBox(x, w, h, X, Y) ==
  /\ X \in x.px .. x.px + Len(x.text) * w - 1 /\ Y \in x.py .. x.py + h - 1
  /\ X < x.dim[1] /\ Y < x.dim[2]

LEMMA BoxFilled ==
  ASSUME NEW x, IsDrawing(x), NEW w, NEW h, Numbers(x, w, h), x.px < Word \div 2,
         x.bg.opaque, x.fg.opaque,
         NEW X, NEW Y, InTextBox(x, w, h, X, Y)
  PROVE  \E i \in 1 .. Len(x.text) : \E c \in (0 .. w - 1) \X (0 .. h - 1) :
           Written(x, w, h, i, c) /\ Pixel(x, w, i, c)[1] = Y * x.dim[1] + X
<1>1. Len(x.text) \in Nat /\ w \in Nat /\ h \in Nat /\ x.px \in Nat /\ x.py \in Nat /\ x.dim[1] \in Nat
      /\ Word \in Nat \ {0}
  BY AlgorithmsAssumption DEF Numbers
<1>2. PICK n \in Nat, u \in Nat, px \in Nat : n = Len(x.text) /\ u = n * w /\ px = x.px
  <2>1. Len(x.text) * w \in Nat
    BY <1>1
  <2>2. QED
    BY <1>1, <2>1
<1>3. /\ px \in Nat /\ u \in Nat /\ X \in Nat /\ px <= X /\ X + 1 <= px + u
      /\ 2 * u <= Word /\ 2 * px <= Word
  <2>1. X \in px .. px + u - 1 /\ 2 * u <= Word /\ px < Word \div 2
    BY <1>1, <1>2 DEF Numbers, InTextBox
  <2>2. px \in Nat /\ u \in Nat
    BY <1>2
  <2>3. QED
    BY <1>1, <2>1, <2>2
<1>4. PICK t \in Nat : X = px + t /\ t + 1 <= u
  BY <1>3
<1>5. w \in Nat \ {0}
  <2>1. u # 0
    BY <1>2, <1>4
  <2>2. QED
    BY <1>1, <1>2, <2>1
<1>6. PICK k \in Int, a \in 0 .. w - 1 : t = w * k + a
  <2>1. t \div w \in Int /\ t % w \in 0 .. w - 1 /\ t = w * (t \div w) + (t % w)
    <3>1. t \in Int
      BY <1>4
    <3>2. QED
      BY <1>5, <3>1, Division
  <2>2. QED
    BY <2>1
<1>7. k \in Nat
  <2>1. CASE k + 1 <= 0
    <3>1. w * (k + 1) <= w * 0
      BY <1>5, <1>6, <2>1
    <3>2. w * (k + 1) = w * k + w
      BY <1>5, <1>6
    <3>3. QED
      BY <1>4, <1>5, <1>6, <3>1, <3>2
  <2>2. QED
    BY <1>6, <2>1
<1>8. PICK m \in Nat : m = k * w /\ m = w * k /\ t = m + a
  <2>1. k * w \in Nat /\ k * w = w * k
    BY <1>5, <1>7
  <2>2. QED
    BY <1>6, <2>1
<1>9. k < n
  <2>1. CASE n <= k
    <3>1. n * w <= k * w
      BY <1>2, <1>5, <1>7, <2>1, Monotone
    <3>2. u <= m
      BY <1>2, <1>8, <3>1
    <3>3. QED
      BY <1>2, <1>4, <1>6, <1>8, <3>2
  <2>2. QED
    BY <1>2, <1>7, <2>1
<1>10. PICK z \in Nat : Y = x.py + z /\ z <= h - 1
  <2>1. PICK y \in Nat : y = x.py
    BY <1>1
  <2>2. Y \in Int /\ y <= Y /\ Y <= y + h - 1
    BY <1>1, <2>1 DEF InTextBox
  <2>3. PICK z \in Nat : Y = y + z
    <3>1. y \in Nat /\ Y \in Int /\ y <= Y
      BY <2>1, <2>2
    <3>2. Y - y \in Nat
      BY <3>1
    <3>3. Y = y + (Y - y)
      BY <3>1
    <3>4. QED
      BY <3>2, <3>3
  <2>4. z <= h - 1
    BY <1>1, <2>1, <2>2, <2>3
  <2>5. QED
    BY <2>1, <2>3, <2>4
<1>11. PICK i, c : i = k + 1 /\ c = <<a, z>>
  OBVIOUS
<1>12. i \in 1 .. Len(x.text) /\ i - 1 = k
  BY <1>2, <1>7, <1>9, <1>11
<1>13. c \in (0 .. w - 1) \X (0 .. h - 1) /\ c[1] = a /\ x.py + c[2] = Y
  <2>1. z \in 0 .. h - 1
    BY <1>1, <1>10
  <2>2. QED
    BY <1>6, <1>11, <1>10, <2>1
<1>14. Column(x, w, i, c) = X
  <2>1. (i - 1) * w + c[1] = t
    BY <1>8, <1>12, <1>13
  <2>2. QED
    BY <1>2, <1>4, <1>12, <1>13, <2>1, InBox
<1>15. (x.px + (i - 1) * w) % Word < x.dim[1]
  <2>1. PICK j \in Nat : j = px + m /\ j <= X /\ j < Word
    <3>1. a \in Nat /\ t \in Nat /\ m \in Nat /\ t = m + a /\ X = px + t /\ t + 1 <= u
      BY <1>4, <1>5, <1>6, <1>8
    <3>2. QED
      BY <1>1, <1>3, <3>1
  <2>2. j \in 0 .. Word - 1
    BY <1>1, <2>1
  <2>3. j % Word = j
    BY <1>1, <2>2, Small
  <2>4. x.px + (i - 1) * w = j
    BY <1>2, <1>8, <1>12, <2>1
  <2>5. j < x.dim[1]
    <3>1. X \in Nat /\ X < x.dim[1]
      BY <1>3 DEF InTextBox
    <3>2. QED
      BY <1>1, <2>1, <3>1
  <2>6. QED
    BY <2>3, <2>4, <2>5
<1>16. ~R!Skipped(x.font, Colour(x, i, c), x.bg, x.fg)
  BY DEF R!Skipped
<1>17. Written(x, w, h, i, c)
  BY <1>12, <1>13, <1>14, <1>15, <1>16 DEF Written, InTextBox
<1>18. Pixel(x, w, i, c)[1] = Y * x.dim[1] + X
  BY <1>13, <1>14 DEF Pixel
<1>19. QED
  BY <1>12, <1>13, <1>17, <1>18

LEMMA DrawnRight ==
  ASSUME NEW x, IsDrawing(x)
  PROVE  FitsFrame(x, Drawn(x))
<1> DEFINE frame == (0..x.dim[1] - 1) \X (0..x.dim[2] - 1)
           box == {c \in frame :
                     /\ c[1] \in x.px..x.px + Len(x.text) * (x.font.char_width * x.dim[3]) - 1
                     /\ c[2] \in x.py..x.py + x.font.char_height * x.dim[3] - 1}
           drawn == {p[1] : p \in Drawn(x)}
           at(S) == {c[2] * x.dim[1] + c[1] : c \in S}
<1>1. PICK w, h : Numbers(x, w, h)
  BY DrawingNumbers
<1>2. /\ x.dim[1] \in Nat /\ x.dim[2] \in Nat /\ x.px \in Nat /\ x.py \in Nat /\ w \in Nat /\ h \in Nat
      /\ Len(x.text) \in Nat
  BY <1>1 DEF Numbers
<1>3. w = x.font.char_width * x.dim[3] /\ h = x.font.char_height * x.dim[3]
  BY <1>1 DEF Numbers
<1>4. box = {c \in frame : InTextBox(x, w, h, c[1], c[2])}
  <2>1. ASSUME NEW c \in frame PROVE c[1] < x.dim[1] /\ c[2] < x.dim[2]
    BY <1>2, SMTT(25)
  <2>2. box = {c \in frame : c[1] \in x.px .. x.px + Len(x.text) * w - 1 /\ c[2] \in x.py .. x.py + h - 1}
    BY <1>3
  <2> HIDE DEF box, frame
  <2>3. QED
    BY <2>1, <2>2, Zenon DEF InTextBox
<1> HIDE DEF box
<1>5. ASSUME NEW p \in Drawn(x)
      PROVE  \E i \in 1 .. Len(x.text) : \E c \in (0 .. w - 1) \X (0 .. h - 1) :
               Written(x, w, h, i, c) /\ p = Pixel(x, w, i, c)
  BY <1>1, DrawnFacts
<1>6. ASSUME NEW p \in Drawn(x)
      PROVE  p[1] \in at(frame) /\ (x.px < Word \div 2 => p[1] \in at(box))
  <2>1. PICK i \in 1 .. Len(x.text), c \in (0 .. w - 1) \X (0 .. h - 1) :
          Written(x, w, h, i, c) /\ p = Pixel(x, w, i, c)
    BY <1>5
  <2>2. PICK e : e = <<Column(x, w, i, c), x.py + c[2]>>
    OBVIOUS
  <2>3. p[1] = e[2] * x.dim[1] + e[1]
    BY <2>1, <2>2 DEF Pixel
  <2>4. e[1] < x.dim[1] /\ e[2] < x.dim[2] /\ e[1] \in Nat /\ e[2] \in Nat
    <3>1. Column(x, w, i, c) \in 0 .. Word - 1 /\ Word \in Nat \ {0}
      BY <1>1, <2>1, ColumnFacts
    <3>2. c[2] \in Nat
      BY <1>2, <2>1
    <3>3. Column(x, w, i, c) < x.dim[1] /\ x.py + c[2] < x.dim[2]
      BY <2>1 DEF Written
    <3>4. Column(x, w, i, c) \in Nat /\ x.py + c[2] \in Nat
      BY <1>2, <3>1, <3>2, SMTT(25)
    <3>5. QED
      BY <2>2, <3>3, <3>4
  <2>5. e \in frame
    <3>1. \A k \in Nat, n \in Nat : k < n => k \in 0 .. n - 1
      OBVIOUS
    <3>2. e[1] \in 0 .. x.dim[1] - 1 /\ e[2] \in 0 .. x.dim[2] - 1
      BY <1>2, <2>4, <3>1
    <3>3. QED
      BY <2>2, <3>2
  <2>6. ASSUME x.px < Word \div 2
        PROVE  InTextBox(x, w, h, e[1], e[2])
    <3>1. e[1] = x.px + ((i - 1) * w + c[1])
      BY <1>1, <2>1, <2>2, <2>6, InBox
    <3>2. (i - 1) * w + c[1] \in Nat /\ (i - 1) * w + c[1] <= Len(x.text) * w - 1
      BY <1>1, <2>1, ColumnFacts
    <3>3. PICK t \in Nat, u \in Nat : /\ t = (i - 1) * w + c[1] /\ u = Len(x.text) * w /\ t <= u - 1
      <4>1. Len(x.text) * w \in Nat
        BY <1>2, SMTT(25)
      <4>2. QED
        BY <3>2, <4>1
    <3>4. e[1] \in x.px .. x.px + u - 1
      <4>1. PICK k \in Nat : k = x.px
        BY <1>2
      <4>2. e[1] = k + t /\ t \in Nat /\ u \in Nat /\ t <= u - 1
        BY <3>1, <3>3, <4>1
      <4>3. k + t \in k .. k + u - 1
        BY <4>1, <4>2
      <4>4. QED
        BY <4>1, <4>2, <4>3
    <3>5. e[2] \in x.py .. x.py + h - 1
      BY <1>2, <2>1, <2>2, SMTT(25)
    <3>6. QED
      BY <2>4, <3>3, <3>4, <3>5 DEF InTextBox
  <2>7. x.px < Word \div 2 => e \in box
    BY <1>4, <2>5, <2>6
  <2> HIDE DEF frame
  <2>8. QED
    BY <2>3, <2>5, <2>7
<1>7. ASSUME NEW p \in Drawn(x), NEW q \in Drawn(x), p[1] = q[1]
      PROVE  p = q
  <2>1. PICK i \in 1 .. Len(x.text), c \in (0 .. w - 1) \X (0 .. h - 1) :
          Written(x, w, h, i, c) /\ p = Pixel(x, w, i, c)
    BY <1>5
  <2>2. PICK j \in 1 .. Len(x.text), e \in (0 .. w - 1) \X (0 .. h - 1) :
          Written(x, w, h, j, e) /\ q = Pixel(x, w, j, e)
    BY <1>5
  <2>3. i = j /\ c = e
    BY <1>1, <1>7, <2>1, <2>2, OnePixel
  <2>4. QED
    BY <2>1, <2>2, <2>3
<1>8. ASSUME x.px < Word \div 2, x.bg.opaque, x.fg.opaque, NEW n \in at(box)
      PROVE  n \in drawn
  <2>1. PICK e \in box : n = e[2] * x.dim[1] + e[1]
    <3> HIDE DEF frame
    <3>1. QED
      BY <1>8
  <2>2. InTextBox(x, w, h, e[1], e[2])
    BY <1>4
  <2>3. PICK i \in 1 .. Len(x.text), c \in (0 .. w - 1) \X (0 .. h - 1) :
          Written(x, w, h, i, c) /\ Pixel(x, w, i, c)[1] = e[2] * x.dim[1] + e[1]
    BY <1>1, <1>8, <2>2, BoxFilled
  <2>4. Pixel(x, w, i, c) \in Drawn(x)
    BY <1>1, <2>3, DrawnFacts
  <2>5. QED
    BY <2>1, <2>3, <2>4
<1>9. drawn \subseteq at(frame)
  <2> HIDE DEF frame
  <2>1. QED
    BY <1>6
<1>10. ASSUME x.px < Word \div 2 PROVE drawn \subseteq at(box)
  <2> HIDE DEF frame
  <2>1. QED
    BY <1>6, <1>10
<1>11. ASSUME x.px < Word \div 2, x.bg.opaque, x.fg.opaque PROVE drawn = at(box)
  <2> HIDE DEF frame, drawn, at
  <2>1. QED
    BY <1>8, <1>10, <1>11
<1> HIDE DEF frame, drawn, at
<1>12. QED
  BY <1>7, <1>9, <1>10, <1>11 DEF FitsFrame, frame, box, drawn, at

LEMMA MarginKept ==
  ASSUME NEW x, IsAlignment(x)
  PROVE  KeepsMargin(x, R!RenderAlign(x.dim, x.font, x.text, x.margin, x.margin, x.how, x.how))
<1>0. SUFFICES ASSUME Len(x.text) <= MAX_TEXT_LENGTH
               PROVE  KeepsMargin(x, R!RenderAlign(x.dim, x.font, x.text, x.margin, x.margin, x.how, x.how))
  BY DEF KeepsMargin
<1>1. x.dim[1] \in Nat /\ x.dim[2] \in Nat /\ x.dim[3] \in Nat /\ x.margin \in Nat /\ Len(x.text) \in Nat
      /\ x.font.char_width \in Nat /\ x.font.char_height \in Nat
  BY DEF IsAlignment
<1>2. PICK a \in Nat, b \in Nat, c \in Nat, n \in Nat :
        a = x.font.char_width /\ b = x.font.char_height /\ c = x.dim[3] /\ n = Len(x.text)
  BY <1>1
<1>3. PICK w \in Nat, h \in Nat : w = a * c /\ h = b * c
  <2>1. a * c \in Nat /\ b * c \in Nat
    OBVIOUS
  <2>2. QED
    BY <2>1
<1>4. PICK u \in Nat : u = n * w /\ u = n * a * c
  <2>1. n * w \in Nat
    OBVIOUS
  <2>2. n * (a * c) = n * a * c
    OBVIOUS
  <2>3. n * w = n * a * c
    BY <1>3, <2>2
  <2>4. QED
    BY <2>1, <2>3
<1>5. ASSUME NEW extent \in Nat, NEW size \in Nat, NEW margin \in Nat, NEW how, size + margin <= extent
      PROVE  /\ R!Align(extent, size, margin, how) + size <= extent
             /\ how = "RIGHT_BOTTOM" => R!Align(extent, size, margin, how) + size + margin = extent
  BY <1>5 DEF R!Align
<1>6. R!RenderAlign(x.dim, x.font, x.text, x.margin, x.margin, x.how, x.how)
        = <<R!Align(x.dim[1], u, x.margin, x.how), R!Align(x.dim[2], h, x.margin, x.how)>>
  <2>1. R!strnlen(x.text, MAX_TEXT_LENGTH) = n
    <3>1. MAX_TEXT_LENGTH \in Nat
      BY AlgorithmsAssumption
    <3>2. QED
      BY <1>0, <1>2, <3>1 DEF R!strnlen
  <2>2. QED
    BY <1>2, <1>3, <1>4, <2>1 DEF R!RenderAlign
<1>7. u \in Nat /\ h \in Nat
  BY <1>3, <1>4
<1>8. ASSUME u + x.margin <= x.dim[1]
      PROVE  /\ R!Align(x.dim[1], u, x.margin, x.how) + u <= x.dim[1]
             /\ x.how = "RIGHT_BOTTOM" => R!Align(x.dim[1], u, x.margin, x.how) + u + x.margin = x.dim[1]
  <2>1. PICK e \in Nat, m \in Nat : e = x.dim[1] /\ m = x.margin
    BY <1>1
  <2>2. u + m <= e
    BY <1>8, <2>1
  <2>3. R!Align(e, u, m, x.how) + u <= e /\ (x.how = "RIGHT_BOTTOM" => R!Align(e, u, m, x.how) + u + m = e)
    BY <1>5, <1>7, <2>1, <2>2
  <2>4. QED
    BY <2>1, <2>3
<1>9. ASSUME h + x.margin <= x.dim[2]
       PROVE  /\ R!Align(x.dim[2], h, x.margin, x.how) + h <= x.dim[2]
              /\ x.how = "RIGHT_BOTTOM" => R!Align(x.dim[2], h, x.margin, x.how) + h + x.margin = x.dim[2]
  BY <1>1, <1>5, <1>7, <1>9
<1>10. Len(x.text) * (x.font.char_width * x.dim[3]) = u /\ x.font.char_height * x.dim[3] = h
  BY <1>2, <1>3, <1>4
<1>11. QED
  BY <1>6, <1>8, <1>9, <1>10 DEF KeepsMargin

-----------------------------------------------------------------------------
(* Comparing.                                                              *)

LEMMA LeastFacts ==
  ASSUME NEW S \in SUBSET Nat, S # {}
  PROVE  T!Min(S) \in S /\ \A y \in S : T!Min(S) <= y
<1>1. IsWellFoundedOn(OpToRel(<, Nat), Nat)
  BY NatLessThanWellFounded
<1>2. PICK x \in S : \A y \in S : ~(<<y, x>> \in OpToRel(<, Nat))
  BY <1>1, WFMin
<1>3. \A y \in S : ~(y < x)
  BY <1>2 DEF OpToRel
<1>4. \A y \in S : x <= y
  BY <1>3
<1>5. QED
  BY <1>4 DEF T!Min

(* A loop stops at the first of its stops, or finds no difference.         *)
LEMMA StopFacts ==
  ASSUME NEW s, NEW t, NEW n \in Nat, NEW stops \in SUBSET (1 .. n)
  PROVE  \/ stops = {} /\ T!Difference(s, t, stops) = 0
         \/ \E m \in stops : /\ \A k \in stops : m <= k
                            /\ T!Difference(s, t, stops) = T!Byte(s, m) - T!Byte(t, m)
<1>1. CASE stops = {}
  BY <1>1 DEF T!Difference
<1>2. CASE stops # {}
  <2>1. stops \in SUBSET Nat
    OBVIOUS
  <2>2. PICK m : m = T!Min(stops)
    OBVIOUS
  <2>3. m \in stops /\ \A k \in stops : m <= k
    BY <1>2, <2>1, <2>2, LeastFacts
  <2>4. T!Difference(s, t, stops) = T!Byte(s, m) - T!Byte(t, m)
    BY <1>2, <2>2 DEF T!Difference
  <2>5. QED
    BY <2>3, <2>4
<1>3. QED
  BY <1>1, <1>2

LEMMA ByteFacts ==
  ASSUME NEW s \in Seq(1 .. 255)
  PROVE  /\ Len(s) \in Nat
         /\ \A i \in 1 .. Len(s) : T!Byte(s, i) = s[i] /\ T!Byte(s, i) \in 0 .. 255 /\ T!Byte(s, i) # 0
         /\ \A i \in Nat \ {0} : T!Byte(s, i) \in 0 .. 255
         /\ \A i \in Nat : i > Len(s) => T!Byte(s, i) = 0
<1>1. Len(s) \in Nat
  OBVIOUS
<1>2. \A i \in 1 .. Len(s) : T!Byte(s, i) = s[i]
  BY <1>1 DEF T!Byte
<1>3. \A i \in 1 .. Len(s) : T!Byte(s, i) \in 0 .. 255 /\ T!Byte(s, i) # 0
  <2> DEFINE Codes == 1 .. 255
             Bytes == 0 .. 255
  <2>1. s \in Seq(Codes)
    OBVIOUS
  <2>2. \A b \in Codes : b \in Bytes /\ b # 0
    OBVIOUS
  <2> HIDE DEF Codes, Bytes
  <2>3. \A i \in 1 .. Len(s) : s[i] \in Codes
    BY <2>1
  <2>4. \A i \in 1 .. Len(s) : T!Byte(s, i) \in Bytes /\ T!Byte(s, i) # 0
    BY <1>2, <2>2, <2>3
  <2>5. QED
    BY <2>4 DEF Bytes
<1>4. \A i \in Nat : i > Len(s) => T!Byte(s, i) = 0
  BY <1>1 DEF T!Byte
<1>5. \A i \in Nat \ {0} : T!Byte(s, i) \in 0 .. 255
  <2>1. SUFFICES ASSUME NEW i \in Nat \ {0} PROVE T!Byte(s, i) \in 0 .. 255
    OBVIOUS
  <2>2. i \in 1 .. Len(s) \/ i > Len(s)
    BY <1>1
  <2>3. 0 \in 0 .. 255
    OBVIOUS
  <2>4. QED
    BY <1>3, <1>4, <2>2, <2>3
<1>6. QED
  BY <1>1, <1>2, <1>3, <1>4, <1>5

LEMMA NoDifference ==
  ASSUME NEW a \in 0 .. 255, NEW b \in 0 .. 255, NEW d, d = a - b
  PROVE  (d = 0) <=> (a = b)
OBVIOUS

LEMMA FoldFacts ==
  /\ T!tolower(0) = 0
  /\ \A b \in 0 .. 255 : T!tolower(b) = 0 => b = 0
BY DEF T!tolower

(* The places that strncmp and the fold look at.                           *)
Live(s, n) == {i \in 1 .. n : \A j \in 1 .. i - 1 : T!Byte(s, j) # 0}

LEMMA StrncmpFacts ==
  ASSUME NEW s \in Seq(1 .. 255), NEW t \in Seq(1 .. 255), NEW n \in Nat
  PROVE  (T!strncmp(s, t, n) = 0) <=> \A i \in Live(s, n) : T!Byte(s, i) = T!Byte(t, i)
<1> DEFINE stops == {i \in 1 .. n : T!Byte(s, i) # T!Byte(t, i) \/ T!Byte(s, i) = 0}
<1>1. T!strncmp(s, t, n) = T!Difference(s, t, stops)
  BY DEF T!strncmp
<1>2. stops \in SUBSET (1 .. n)
  OBVIOUS
<1>3. \A i \in 1 .. n : T!Byte(s, i) \in 0 .. 255 /\ T!Byte(t, i) \in 0 .. 255
  BY ByteFacts
<1>4. CASE stops = {} /\ T!Difference(s, t, stops) = 0
  BY <1>1, <1>4 DEF Live
<1>5. ASSUME NEW m \in stops, \A k \in stops : m <= k,
             T!Difference(s, t, stops) = T!Byte(s, m) - T!Byte(t, m)
      PROVE  (T!strncmp(s, t, n) = 0) <=> \A i \in Live(s, n) : T!Byte(s, i) = T!Byte(t, i)
  <2>1. m \in 1 .. n /\ (T!Byte(s, m) # T!Byte(t, m) \/ T!Byte(s, m) = 0)
    OBVIOUS
  <2>2. \A i \in 1 .. m - 1 : T!Byte(s, i) = T!Byte(t, i) /\ T!Byte(s, i) # 0
    BY <1>5, <2>1
  <2> HIDE DEF stops
  <2>3. T!Byte(s, m) \in 0 .. 255 /\ T!Byte(t, m) \in 0 .. 255
    BY <1>3, <2>1
  <2>4. m \in Live(s, n)
    BY <2>1, <2>2 DEF Live
  <2>5. T!Difference(s, t, stops) = 0 <=> T!Byte(s, m) = T!Byte(t, m)
    BY <1>5, <2>3, NoDifference
  <2>6. CASE T!Byte(s, m) # T!Byte(t, m)
    BY <1>1, <2>4, <2>6, <2>5
  <2>7. CASE T!Byte(s, m) = T!Byte(t, m)
    <3>1. T!strncmp(s, t, n) = 0
      BY <1>1, <2>7, <2>5
    <3>2. ASSUME NEW i \in Live(s, n) PROVE T!Byte(s, i) = T!Byte(t, i)
      <4>1. i \in 1 .. n /\ \A j \in 1 .. i - 1 : T!Byte(s, j) # 0
        BY DEF Live
      <4>2. i <= m
        BY <2>1, <2>7, <4>1
      <4>3. QED
        BY <2>1, <2>2, <2>7, <4>1, <4>2
    <3>3. QED
      BY <3>1, <3>2
  <2>8. QED
    BY <2>6, <2>7
<1>6. QED
  <2> HIDE DEF stops
  <2>1. QED
    BY <1>2, <1>4, <1>5, StopFacts, ZenonT(40)

LEMMA FoldedFacts ==
  ASSUME NEW s \in Seq(1 .. 255), NEW t \in Seq(1 .. 255), NEW n \in Nat
  PROVE  (T!ncsstrncmp(s, t, n) = 0)
           <=> \A i \in Live(s, n) : T!tolower(T!Byte(s, i)) = T!tolower(T!Byte(t, i))
<1> DEFINE low(b) == T!tolower(b)
           stops == {i \in 1 .. n : T!tolower(T!Byte(s, i)) # T!tolower(T!Byte(t, i)) \/ T!Byte(s, i) = 0}
<1>1. T!ncsstrncmp(s, t, n) = T!Difference(s, t, stops)
  BY DEF T!ncsstrncmp
<1>2. stops \in SUBSET (1 .. n)
  OBVIOUS
<1>3. \A i \in 1 .. n : T!Byte(s, i) \in 0 .. 255 /\ T!Byte(t, i) \in 0 .. 255
  BY ByteFacts
<1>4. CASE stops = {} /\ T!Difference(s, t, stops) = 0
  BY <1>1, <1>4 DEF Live
<1>5. ASSUME NEW m \in stops, \A k \in stops : m <= k,
             T!Difference(s, t, stops) = T!Byte(s, m) - T!Byte(t, m)
      PROVE  (T!ncsstrncmp(s, t, n) = 0)
               <=> \A i \in Live(s, n) : T!tolower(T!Byte(s, i)) = T!tolower(T!Byte(t, i))
  <2>1. m \in 1 .. n /\ (low(T!Byte(s, m)) # low(T!Byte(t, m)) \/ T!Byte(s, m) = 0)
    OBVIOUS
  <2>2. \A i \in 1 .. m - 1 : low(T!Byte(s, i)) = low(T!Byte(t, i)) /\ T!Byte(s, i) # 0
    BY <1>5, <2>1
  <2> HIDE DEF stops
  <2>3. T!Byte(s, m) \in 0 .. 255 /\ T!Byte(t, m) \in 0 .. 255
    BY <1>3, <2>1
  <2>4. m \in Live(s, n)
    BY <2>1, <2>2 DEF Live
  <2>5. T!Difference(s, t, stops) = 0 <=> T!Byte(s, m) = T!Byte(t, m)
    BY <1>5, <2>3, NoDifference
  <2>6. CASE low(T!Byte(s, m)) # low(T!Byte(t, m))
    <3>1. T!Byte(s, m) # T!Byte(t, m)
      BY <2>6
    <3>2. T!ncsstrncmp(s, t, n) # 0
      BY <1>1, <2>5, <3>1
    <3>3. QED
      BY <2>4, <2>6, <3>2
  <2>7. CASE low(T!Byte(s, m)) = low(T!Byte(t, m))
    <3>1. T!ncsstrncmp(s, t, n) = 0
      <4>1. T!Byte(s, m) = 0
        BY <2>1, <2>7
      <4>2. T!Byte(t, m) = 0
        BY <2>3, <2>7, <4>1, FoldFacts
      <4>3. QED
        BY <1>1, <2>5, <4>1, <4>2
    <3>2. ASSUME NEW i \in Live(s, n) PROVE low(T!Byte(s, i)) = low(T!Byte(t, i))
      <4>1. i \in 1 .. n /\ \A j \in 1 .. i - 1 : T!Byte(s, j) # 0
        BY DEF Live
      <4>2. i <= m
        BY <2>1, <2>7, <4>1
      <4>3. QED
        BY <2>1, <2>2, <2>7, <4>1, <4>2
    <3>3. QED
      BY <3>1, <3>2
  <2>8. QED
    BY <2>6, <2>7
<1>6. QED
  <2> HIDE DEF stops, low
  <2>1. QED
    BY <1>2, <1>4, <1>5, StopFacts, ZenonT(40)

LEMMA StrcmpFacts ==
  ASSUME NEW s \in Seq(1 .. 255), NEW t \in Seq(1 .. 255)
  PROVE  (T!strcmp(s, t) = 0) <=> s = t
<1>1. Len(s) \in Nat /\ Len(t) \in Nat
  BY ByteFacts
<1>2. T!strcmp(s, t) = T!strncmp(s, t, Len(s) + 1)
  BY DEF T!strcmp
<1>3. Live(s, Len(s) + 1) = 1 .. Len(s) + 1
  <2>1. \A i \in 1 .. Len(s) : T!Byte(s, i) # 0
    BY ByteFacts
  <2>2. QED
    BY <1>1, <2>1 DEF Live
<1>4. (T!strcmp(s, t) = 0) <=> \A i \in 1 .. Len(s) + 1 : T!Byte(s, i) = T!Byte(t, i)
  <2>1. Len(s) + 1 \in Nat
    BY <1>1
  <2>2. QED
    BY <1>2, <1>3, <2>1, StrncmpFacts
<1>5. ASSUME \A i \in 1 .. Len(s) + 1 : T!Byte(s, i) = T!Byte(t, i)
      PROVE  s = t
  <2>1. T!Byte(t, Len(s) + 1) = 0
    <3>1. T!Byte(s, Len(s) + 1) = 0
      BY <1>1, ByteFacts
    <3>2. QED
      BY <1>1, <1>5, <3>1
  <2>2. Len(t) <= Len(s)
    <3>1. \A i \in 1 .. Len(t) : T!Byte(t, i) # 0
      BY ByteFacts
    <3>2. QED
      BY <1>1, <2>1, <3>1
  <2>3. Len(s) <= Len(t)
    <3>1. ASSUME Len(t) + 1 <= Len(s) PROVE FALSE
      <4>1. T!Byte(t, Len(t) + 1) = 0
        BY <1>1, ByteFacts
      <4>2. Len(t) + 1 \in 1 .. Len(s)
        BY <1>1, <3>1
      <4>3. T!Byte(s, Len(t) + 1) # 0
        <5>1. \A i \in 1 .. Len(s) : T!Byte(s, i) # 0
          BY ByteFacts
        <5>2. QED
          BY <4>2, <5>1
      <4>4. QED
        BY <1>1, <1>5, <4>1, <4>2, <4>3
    <3>2. QED
      BY <1>1, <3>1
  <2>4. Len(s) = Len(t)
    BY <1>1, <2>2, <2>3
  <2>5. \A i \in 1 .. Len(s) : s[i] = t[i]
    <3>1. SUFFICES ASSUME NEW i \in 1 .. Len(s) PROVE s[i] = t[i]
      OBVIOUS
    <3>2. i \in 1 .. Len(s) + 1 /\ i \in 1 .. Len(t)
      BY <1>1, <2>4
    <3>3. T!Byte(s, i) = s[i] /\ T!Byte(t, i) = t[i]
      BY <3>2, ByteFacts
    <3>4. QED
      BY <1>5, <3>2, <3>3
  <2>6. QED
    BY <2>4, <2>5
<1>6. QED
  BY <1>4, <1>5

LEMMA MemcmpFacts ==
  ASSUME NEW s, NEW n
  PROVE  T!memcmp(s, s, n) = 0
BY DEF T!memcmp, T!Difference

(* A string has no 0 before its end.                                       *)
LEMMA LengthFacts ==
  ASSUME NEW s \in Seq(1 .. 255), NEW n \in Nat
  PROVE  T!strnlen(s, n) = IF Len(s) < n THEN Len(s) ELSE n
<1>1. Len(s) \in Nat /\ \A i \in 1 .. Len(s) : s[i] # 0 /\ T!Byte(s, i) = s[i]
  BY ByteFacts
<1>2. T!Byte(s, Len(s) + 1) = 0
  BY <1>1, ByteFacts
<1>3. \A k \in 0 .. Len(s) : T!Byte(s, k + 1) = 0 => k = Len(s)
  BY <1>1
<1>4. T!strlen(s) = Len(s)
  BY <1>1, <1>2, <1>3 DEF T!strlen
<1>5. PICK l \in Nat : l = Len(s)
  BY <1>1
<1>6. {l, n} \in SUBSET Nat /\ {l, n} # {}
  OBVIOUS
<1>7. T!Min({l, n}) \in {l, n} /\ T!Min({l, n}) <= l /\ T!Min({l, n}) <= n
  BY <1>6, LeastFacts
<1>8. T!strnlen(s, n) = T!Min({l, n})
  BY <1>4, <1>5 DEF T!strnlen
<1>9. QED
  BY <1>5, <1>7, <1>8

LEMMA ComparesAlike ==
  ASSUME NEW x, IsComparison(x)
  PROVE  ComparesLike(x, Comparison(x))
<1>1. PICK s, t, n : s = x.s /\ t = x.t /\ n = x.n
  OBVIOUS
<1>2. s \in Seq(1 .. 255) /\ t \in Seq(1 .. 255) /\ n \in Nat
  BY <1>1 DEF IsComparison
<1>3. (T!strcmp(s, t) = 0) <=> (s = t)
  BY <1>2, StrcmpFacts
<1>4. (T!strncmp(s, t, n) = 0) <=> \A i \in Live(s, n) : T!Byte(s, i) = T!Byte(t, i)
  BY <1>2, StrncmpFacts
<1>5. (T!ncsstrncmp(s, t, n) = 0)
        <=> \A i \in Live(s, n) : T!tolower(T!Byte(s, i)) = T!tolower(T!Byte(t, i))
  BY <1>2, FoldedFacts
<1>6. T!memcmp(s, t, n) # 0 => T!strcmp(s, t) # 0
  BY <1>3, MemcmpFacts
<1> DEFINE copy == T!strncpy(s, n)
           name == T!memcpy(T!memset(T!strncpy(t, n), 0, n), s, T!strnlen(s, n))
<1>7. copy = [i \in 1 .. n |-> T!Byte(s, i)] /\ Len(copy) = n
  BY <1>2 DEF T!strncpy
<1>8. name = copy
  <2>1. PICK l : l = T!strnlen(s, n) /\ l = IF Len(s) < n THEN Len(s) ELSE n
    BY <1>2, LengthFacts
  <2>2. T!memset(T!strncpy(t, n), 0, n) = [i \in 1 .. n |-> 0]
    <3>1. T!strncpy(t, n) = [i \in 1 .. n |-> T!Byte(t, i)] /\ Len(T!strncpy(t, n)) = n
      BY <1>2 DEF T!strncpy
    <3>2. QED
      BY <1>2, <3>1 DEF T!memset
  <2>3. name = [i \in 1 .. n |-> IF i <= l THEN s[i] ELSE 0]
    BY <1>2, <2>1, <2>2 DEF T!memcpy
  <2>4. \A i \in 1 .. n : (IF i <= l THEN s[i] ELSE 0) = T!Byte(s, i)
    BY <1>2, <2>1 DEF T!Byte
  <2>5. QED
    BY <1>7, <2>3, <2>4
<1>9. /\ Comparison(x).mem = T!memcmp(s, t, n) /\ Comparison(x).str = T!strcmp(s, t)
      /\ Comparison(x).strn = T!strncmp(s, t, n) /\ Comparison(x).fold = T!ncsstrncmp(s, t, n)
      /\ Comparison(x).copy = copy /\ Comparison(x).name = name
  BY <1>1 DEF Comparison
<1> HIDE DEF copy, name
<1>10. QED
  BY <1>1, <1>3, <1>4, <1>5, <1>6, <1>7, <1>8, <1>9, Zenon DEF ComparesLike, Live

-----------------------------------------------------------------------------
(* The calls.                                                              *)

(* Between a call and its return, its arguments are inputs and the answer  *)
(* is the operator's value for them.                                       *)
Answered ==
  /\ call.op = "entry" => /\ call.of \in Inputs.entry
                          /\ answer = FatNextCluster(call.of.disk, call.of.bt, call.of.cluster)
  /\ call.op = "layout" => call.of \in Inputs.layout
  /\ call.op = "slot" => /\ call.of \in Inputs.slot
                         /\ answer = Located(Location(call.of[1], call.of[2], call.of[3]))
  /\ call.op = "segment" =>
       /\ call.of \in Inputs.segment
       /\ answer = B!gdtSetEntry(call.of.base, call.of.limit, call.of.access, call.of.gran)
  /\ call.op = "clock" => /\ call.of \in Inputs.clock
                          /\ answer = B!bcd2Bin(16 * (call.of \div 10) + (call.of % 10))
  /\ call.op = "draw" => call.of \in Inputs.draw /\ answer = Drawn(call.of)
  /\ call.op = "align" =>
       /\ call.of \in Inputs.align
       /\ answer[1] = R!RenderAlign(call.of.dim, call.of.font, call.of.text, call.of.margin,
                                    call.of.margin, call.of.how, call.of.how)
  /\ call.op = "compare" => call.of \in Inputs.compare /\ answer = Comparison(call.of)

Told == {"entry", "layout", "slot", "segment", "clock", "draw", "align", "compare"}

LEMMA OthersAnswered ==
  ASSUME NEW op, op \notin Told, NEW x, NEW value, Ask(op, x, value)
  PROVE  Answered'
<1>1. call'.op = op
  BY DEF Ask
<1>2. QED
  BY <1>1 DEF Answered, Told

LEMMA AnsweredStep ==
  ASSUME Answered, [AlgorithmsNext]_vars
  PROVE  Answered'
<1>1. CASE Format
  <2>1. PICK x, v : Ask("format", x, v)
    BY <1>1 DEF Format
  <2>2. QED
    BY <2>1, OthersAnswered DEF Told
<1>2. CASE Printed
  <2>1. PICK x, v : Ask("print", x, v)
    BY <1>2 DEF Printed
  <2>2. QED
    BY <2>1, OthersAnswered DEF Told
<1>3. CASE Number
  <2>1. PICK x, v : Ask("number", x, v)
    BY <1>3 DEF Number
  <2>2. QED
    BY <2>1, OthersAnswered DEF Told
<1>4. CASE Tokens
  <2>1. PICK x, v : Ask("tokens", x, v)
    BY <1>4 DEF Tokens
  <2>2. QED
    BY <2>1, OthersAnswered DEF Told
<1>5. CASE Name83
  <2>1. PICK x, v : Ask("name", x, v)
    BY <1>5 DEF Name83
  <2>2. QED
    BY <2>1, OthersAnswered DEF Told
<1>6. CASE Path
  <2>1. PICK x, v : Ask("path", x, v)
    BY <1>6 DEF Path
  <2>2. QED
    BY <2>1, OthersAnswered DEF Told
<1>7. CASE Descriptors
  <2>1. PICK x, v : Ask("descriptors", x, v)
    BY <1>7 DEF Descriptors
  <2>2. QED
    BY <2>1, OthersAnswered DEF Told
<1>8. CASE Disc
  <2>1. PICK x, v : Ask("disc", x, v)
    BY <1>8 DEF Disc
  <2>2. QED
    BY <2>1, OthersAnswered DEF Told
<1>9. CASE Drives
  <2>1. PICK x, v : Ask("drives", x, v)
    BY <1>9 DEF Drives
  <2>2. QED
    BY <2>1, OthersAnswered DEF Told
<1>10. CASE Enumerate
  <2>1. PICK x, v : Ask("pci", x, v)
    BY <1>10 DEF Enumerate
  <2>2. QED
    BY <2>1, OthersAnswered DEF Told
<1>11. CASE Printer
  <2>1. PICK x, v : Ask("printer", x, v)
    BY <1>11 DEF Printer
  <2>2. QED
    BY <2>1, OthersAnswered DEF Told
<1>12. CASE Lines
  <2>1. PICK x, v : Ask("line", x, v)
    BY <1>12 DEF Lines
  <2>2. QED
    BY <2>1, OthersAnswered DEF Told
<1>13. CASE Compare
  BY <1>13 DEF Compare, Ask, Answered
<1>14. CASE Entry12
  BY <1>14 DEF Entry12, Ask, Answered
<1>15. CASE Layout
  BY <1>15 DEF Layout, Ask, Answered
<1>16. CASE Slot
  BY <1>16 DEF Slot, Ask, Answered
<1>17. CASE Draw
  BY <1>17 DEF Draw, Ask, Answered
<1>18. CASE Align
  BY <1>18 DEF Align, Ask, Answered
<1>19. CASE Clock
  BY <1>19 DEF Clock, Ask, Answered
<1>20. CASE Segment
  BY <1>20 DEF Segment, Ask, Answered
<1>21. CASE Return
  BY <1>21 DEF Return, Idle, Answered
<1>22. CASE UNCHANGED vars
  BY <1>22 DEF vars, Answered
<1>23. QED
  BY <1>1, <1>2, <1>3, <1>4, <1>5, <1>6, <1>7, <1>8, <1>9, <1>10, <1>11, <1>12, <1>13, <1>14, <1>15,
     <1>16, <1>17, <1>18, <1>19, <1>20, <1>21, <1>22 DEF AlgorithmsNext

LEMMA AnsweredAlways == AlgorithmsSpec => []Answered
<1>1. AlgorithmsInit => Answered
  BY DEF AlgorithmsInit, Idle, Answered
<1>2. Answered /\ [AlgorithmsNext]_vars => Answered'
  BY AnsweredStep
<1>3. QED
  BY <1>1, <1>2, PTL DEF AlgorithmsSpec

LEMMA NumbersAnswered ==
  ASSUME Answered
  PROVE  NumbersReadBack
<1>1. EntriesRead
  <2>1. SUFFICES ASSUME call.op = "entry", ~Straddles(call.of.bt, call.of.cluster)
                 PROVE  IsEntry(answer, call.of.disk, call.of.bt, Width(call.of.bt), call.of.cluster)
    BY DEF EntriesRead
  <2>2. call.of \in Inputs.entry /\ answer = FatNextCluster(call.of.disk, call.of.bt, call.of.cluster)
    BY <2>1 DEF Answered
  <2>3. IsLookup(call.of)
    BY <2>2, AlgorithmsAssumption
  <2>4. QED
    BY <2>1, <2>2, <2>3, EntryFacts
<1>2. SlotsLocated
  <2>1. SUFFICES ASSUME call.op = "slot"
                 PROVE  answer = call.of <=> call.of[1] < HalfWord
    BY DEF SlotsLocated
  <2>2. PICK c \in Nat, s \in 0 .. Octet - 1, i \in 0 .. Octet - 1 : call.of = <<c, s, i>>
    <3>1. call.of \in Inputs.slot /\ Inputs.slot \subseteq Nat \X (0 .. Octet - 1) \X (0 .. Octet - 1)
      BY <2>1, AlgorithmsAssumption DEF Answered
    <3>2. QED
      BY <3>1
  <2>3. answer = Located(Location(c, s, i))
    BY <2>1, <2>2 DEF Answered
  <2>4. HalfWord \in Nat
    <3>1. Octet \in Nat /\ HalfWord = Octet * Octet
      BY FatAssumption
    <3>2. Octet * Octet \in Nat
      BY <3>1
    <3>3. QED
      BY <3>1, <3>2
  <2>5. CASE c < HalfWord
    <3>1. c \in 0 .. HalfWord - 1
      BY <2>4, <2>5
    <3>2. QED
      BY <2>2, <2>3, <2>5, <3>1, SlotFacts
  <2>6. CASE ~(c < HalfWord)
    <3>1. HalfWord <= c
      BY <2>4, <2>6
    <3>2. QED
      BY <2>2, <2>3, <2>6, <3>1, SlotLost
  <2>7. QED
    BY <2>5, <2>6
<1>3. SegmentsRead
  <2>1. SUFFICES ASSUME call.op = "segment"
                 PROVE  /\ B!Base(answer) = call.of.base
                        /\ B!idtSetEntry(call.of.base).base_low = answer.base_low
    BY DEF SegmentsRead
  <2>2. /\ IsBase(call.of.base)
        /\ answer = B!gdtSetEntry(call.of.base, call.of.limit, call.of.access, call.of.gran)
    BY <2>1, AlgorithmsAssumption DEF Answered
  <2>3. QED
    BY <2>2, BaseFacts
<1>4. ClockRead
  <2>1. SUFFICES ASSUME call.op = "clock" PROVE answer = call.of
    BY DEF ClockRead
  <2>2. call.of \in TwoDigits /\ answer = B!bcd2Bin(16 * (call.of \div 10) + (call.of % 10))
    BY <2>1, AlgorithmsAssumption DEF Answered
  <2>3. QED
    BY <2>2, ClockFacts
<1>5. QED
  BY <1>1, <1>2, <1>3, <1>4 DEF NumbersReadBack

LEMMA StaysAnswered ==
  ASSUME Answered
  PROVE  StaysInside
<1>1. RegionsApart
  BY AlgorithmsAssumption, Regions DEF Answered, RegionsApart
<1>2. DrawnInside
  BY AlgorithmsAssumption, DrawnRight DEF Answered, DrawnInside
<1>3. AlignedInside
  BY AlgorithmsAssumption, MarginKept DEF Answered, AlignedInside
<1>4. ComparesRight
  BY AlgorithmsAssumption, ComparesAlike DEF Answered, ComparesRight
<1>5. QED
  BY <1>1, <1>2, <1>3, <1>4 DEF StaysInside

(* Whatever is asked of the algorithms that pack a number into another,    *)
(* the number is read back: every cluster's entry that lies in one sector  *)
(* of the table, every slot of a directory, every base and every two       *)
(* digits (fat.c, gdt.c, rtc.c).                                           *)
THEOREM NumbersAlwaysReadBack == AlgorithmsSpec => []NumbersReadBack
BY AnsweredAlways, NumbersAnswered, PTL

(* And none of the algorithms reaches past what it was given: on every     *)
(* volume the regions are apart, every text is drawn in the frame, each    *)
(* pixel in one colour, and strings are compared to their ends (fat.c,     *)
(* render.c, string.c).                                                    *)
THEOREM AlwaysInside == AlgorithmsSpec => []StaysInside
BY AnsweredAlways, StaysAnswered, PTL
=============================================================================
