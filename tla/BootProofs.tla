------------------------------- MODULE BootProofs -------------------------------
(***************************************************************************)
(* The boot loader loads every kernel the linker makes, for any sector and *)
(* memory size.  The invariant says how far the controller has come, and   *)
(* that what readseg has passed over is in memory.                         *)
(***************************************************************************)
EXTENDS Boot, TLAPS

\* The segment being read, the scratch space first.
Part(k) == IF k = 0 THEN Header ELSE image[k]

DiskStates == {"ready", "settling", "busy", "data"}

\* Where the two bytes to the controller are.
LineInv ==
    /\ kbc \in {<<>>, <<"BIOS">>, <<"0xd1">>, <<"0xdf">>}
    /\ kbc_data \in BOOLEAN /\ a20 \in BOOLEAN
    /\ control \in {"seta20_1", "seta20_2", "loading", "kernel", "bad"}
    /\ control = "seta20_1" => kbc \in {<<>>, <<"BIOS">>} /\ ~kbc_data
    /\ control = "seta20_2" => \/ kbc = <<"0xd1">> /\ ~kbc_data
                               \/ kbc = <<>> /\ kbc_data
    /\ control \in {"loading", "kernel", "bad"} =>
          \/ kbc = <<"0xdf">> /\ kbc_data
          \/ kbc = <<>> /\ ~kbc_data /\ a20
    /\ disk = "data" => kbc = <<>>
    /\ disk \in {"busy", "data"} => InSegment

Whole(a) == \E q \in Nat : a = q * SECTSIZE

\* readseg goes from sector to sector, on the disk as in memory.
PlaceInv ==
    /\ image \in Images /\ ph \in 0 .. Len(image)
    /\ pa \in Nat /\ Whole(pa) /\ pa <= MemSize
    /\ RoundDown(Part(ph).p_pa) <= pa
    /\ end_pa = Part(ph).p_pa + Part(ph).p_memsz
    /\ offset \in Nat \ {0}
    /\ (offset - 1) * SECTSIZE - pa = Part(ph).p_offset - Part(ph).p_pa
    /\ disk \in DiskStates /\ valid \in BOOLEAN

\* What is in memory: the segments before, and this one up to pa.
MemInv ==
    /\ mem \in [0 .. MemSize - 1 -> Nat \cup {Old}]
    /\ \A k \in 0 .. ph : \A a \in Bytes(Part(k).p_pa, Part(k).p_memsz) :
          k < ph \/ a < pa => mem[a] = Part(k).p_offset + a - Part(k).p_pa

\* Nothing is read while a byte waits for the controller, and the kernel is
\* called when all is read.
DoneInv ==
    /\ control \in {"seta20_1", "seta20_2"} \/ kbc # <<>> => pa < end_pa
    /\ control = "kernel" => ph = Len(image) /\ pa >= end_pa

IInv == LineInv /\ PlaceInv /\ MemInv /\ DoneInv

-----------------------------------------------------------------------------
(***************************************************************************)
(* Sectors.                                                                *)
(***************************************************************************)
LEMMA DivMod ==
    ASSUME NEW a \in Nat
    PROVE  /\ a % SECTSIZE \in 0 .. SECTSIZE - 1
           /\ a \div SECTSIZE \in Nat
           /\ a = (a \div SECTSIZE) * SECTSIZE + (a % SECTSIZE)
BY SectorSize

LEMMA Rounded ==
    ASSUME NEW a \in Nat
    PROVE  /\ RoundDown(a) \in Nat /\ Whole(RoundDown(a))
           /\ RoundDown(a) = (a \div SECTSIZE) * SECTSIZE
           /\ RoundDown(a) <= a /\ a < RoundDown(a) + SECTSIZE
<1>1. RoundDown(a) = (a \div SECTSIZE) * SECTSIZE
  BY DivMod, SectorSize DEF RoundDown
<1>2. RoundDown(a) <= a /\ a < RoundDown(a) + SECTSIZE
  BY DivMod, SectorSize DEF RoundDown
<1>3. (a \div SECTSIZE) * SECTSIZE \in Nat
  <2>1. a \div SECTSIZE \in Nat /\ SECTSIZE \in Nat
    BY DivMod, SectorSize
  <2> QED BY <2>1
<1> QED BY <1>1, <1>2, <1>3, DivMod DEF Whole

LEMMA NextSector ==
    ASSUME NEW a \in Nat, NEW b \in Nat, Whole(a), Whole(b), a < b
    PROVE  a + SECTSIZE <= b
<1>1. PICK q \in Nat, r \in Nat : a = q * SECTSIZE /\ b = r * SECTSIZE
  BY DEF Whole
<1>2. q < r
  <2>1. SUFFICES ASSUME r <= q PROVE FALSE
    BY <1>1
  <2>2. q - r \in Nat /\ SECTSIZE \in Nat
    BY <2>1, SectorSize
  <2>3. (q - r) * SECTSIZE \in Nat
    BY <2>2
  <2>4. q * SECTSIZE = r * SECTSIZE + (q - r) * SECTSIZE
    BY SectorSize
  <2> QED BY <1>1, <2>3, <2>4
<1>3. r - q - 1 \in Nat /\ SECTSIZE \in Nat
  BY <1>2, SectorSize
<1>4. (r - q - 1) * SECTSIZE \in Nat
  BY <1>3
<1>5. r * SECTSIZE = q * SECTSIZE + SECTSIZE + (r - q - 1) * SECTSIZE
  BY SectorSize
<1> QED BY <1>1, <1>4, <1>5, SectorSize

LEMMA SectorOf ==
    ASSUME NEW a \in Nat, Whole(a), NEW b \in a .. a + SECTSIZE - 1
    PROVE  RoundDown(b) = a
<1>1. b \in Nat
  BY SectorSize
<1>2. /\ RoundDown(b) \in Nat /\ Whole(RoundDown(b))
      /\ RoundDown(b) <= b /\ b < RoundDown(b) + SECTSIZE
  BY <1>1, Rounded
<1>3. RoundDown(b) < a => RoundDown(b) + SECTSIZE <= a
  BY <1>2, NextSector
<1>4. a < RoundDown(b) => a + SECTSIZE <= RoundDown(b)
  BY <1>2, NextSector
<1> QED BY <1>1, <1>2, <1>3, <1>4, SectorSize

LEMMA WholeMod ==
    ASSUME NEW a \in Nat, Whole(a)
    PROVE  a % SECTSIZE = 0 /\ Whole(a + SECTSIZE)
<1>1. RoundDown(a) = a
  BY SectorOf, SectorSize
<1>2. a % SECTSIZE = 0
  BY <1>1, DivMod DEF RoundDown
<1>3. PICK q \in Nat : a = q * SECTSIZE
  BY DEF Whole
<1>4. a + SECTSIZE = (q + 1) * SECTSIZE
  BY <1>3, SectorSize
<1> QED BY <1>2, <1>4 DEF Whole

LEMMA Sizes == MemSize \in Nat /\ Whole(MemSize)
<1>1. MemSize = (MemSize \div SECTSIZE) * SECTSIZE
  BY MemoryOK, DivMod, SectorSize
<1> QED BY <1>1, MemoryOK, DivMod DEF Whole

(***************************************************************************)
(* The segments.                                                           *)
(***************************************************************************)
LEMMA PartsFit ==
    ASSUME image \in Images
    PROVE  /\ Len(image) \in Nat
           /\ \A k \in 0 .. Len(image) :
                 /\ Part(k).p_pa \in Nat /\ Part(k).p_memsz \in Nat /\ Part(k).p_offset \in Nat
                 /\ Part(k).p_pa % SECTSIZE = Part(k).p_offset % SECTSIZE
                 /\ Part(k).p_pa + Part(k).p_memsz <= MemSize
                 /\ \A j \in 0 .. k - 1 : Spares(Part(k), Part(j))
<1>1. image \in Seq(Segment) /\ Len(image) \in Nat
  BY ImagesFit
<1>2. ASSUME NEW k \in 0 .. Len(image) PROVE Fits(Part(k))
  BY <1>1, HeaderFits, ImagesFit DEF Part
<1>3. ASSUME NEW k \in 0 .. Len(image), NEW j \in 0 .. k - 1
      PROVE  Spares(Part(k), Part(j))
  <2>1. k \in 1 .. Len(image) /\ k # 0
    BY <1>1
  <2>2. CASE j = 0
    BY <2>1, <2>2, ImagesFit DEF Part
  <2>3. CASE j # 0
    <3>1. j \in 1 .. k - 1
      BY <2>3
    <3> QED BY <2>1, <2>3, <3>1, ImagesFit DEF Part
  <2> QED BY <2>2, <2>3
<1> QED BY <1>1, <1>2, <1>3 DEF Fits, Segment

-----------------------------------------------------------------------------
\* The bus takes an address where it says, once the line is on.
LEMMA StoredIs ==
    ASSUME a20, NEW M, mem \in [0 .. MemSize - 1 -> M], pa \in Nat
    PROVE  Stored = [b \in 0 .. MemSize - 1 |->
                        IF b \in Bytes(pa, SECTSIZE) THEN (offset - 1) * SECTSIZE + b - pa
                        ELSE mem[b]]
<1>1. DOMAIN mem = 0 .. MemSize - 1
  OBVIOUS
<1>2. \A a : Phys(a) = a
  BY DEF Phys
<1>3. ASSUME NEW b
      PROVE  /\ (\E a \in Bytes(pa, SECTSIZE) : Phys(a) = b) <=> b \in Bytes(pa, SECTSIZE)
             /\ b \in Bytes(pa, SECTSIZE) =>
                   (CHOOSE a \in Bytes(pa, SECTSIZE) : Phys(a) = b) = b
  BY <1>2
<1> QED BY <1>1, <1>3 DEF Stored

-----------------------------------------------------------------------------
loadVars == <<image, mem, ph, pa, end_pa, offset, valid>>

\* boot.S, the controller and the disk's answers leave memory alone.
LEMMA OthersStep ==
    ASSUME IInv, UNCHANGED loadVars, LineInv', disk' \in DiskStates,
           DoneInv'
    PROVE  IInv'
<1>1. UNCHANGED <<image, mem, ph, pa, end_pa, offset, valid>>
  BY DEF loadVars
<1>2. Part(ph)' = Part(ph) /\ \A k \in 0 .. ph : Part(k)' = Part(k)
  BY <1>1 DEF Part
<1>3. PlaceInv'
  BY <1>1, <1>2 DEF IInv, PlaceInv
<1>4. MemInv'
  BY <1>1, <1>2 DEF IInv, MemInv
<1> QED BY <1>3, <1>4 DEF IInv

LEMMA LineStep ==
    ASSUME IInv, \/ seta20("seta20_1", "0xd1", "seta20_2")
                 \/ seta20("seta20_2", "0xdf", "loading")
                 \/ Controller \/ ReadCommand \/ DiskReady
    PROVE  IInv'
<1>1. LineInv /\ DoneInv /\ disk \in DiskStates
  BY DEF IInv, PlaceInv
<1>2. UNCHANGED loadVars
  BY DEF seta20, Controller, ReadCommand, DiskReady, loadVars
<1>3. disk' \in DiskStates
  BY <1>1 DEF seta20, Controller, ReadCommand, DiskReady, DiskStates
<1>4. CASE seta20("seta20_1", "0xd1", "seta20_2")
  <2>1. LineInv' /\ DoneInv'
    BY <1>1, <1>4 DEF LineInv, DoneInv, InSegment, seta20
  <2> QED BY <1>2, <1>3, <2>1, OthersStep
<1>5. CASE seta20("seta20_2", "0xdf", "loading")
  <2>1. LineInv' /\ DoneInv'
    BY <1>1, <1>5 DEF LineInv, DoneInv, InSegment, seta20
  <2> QED BY <1>2, <1>3, <2>1, OthersStep
<1>6. CASE Controller
  <2>1. /\ kbc # <<>> /\ kbc' = <<>> /\ kbc_data' = (kbc = <<"0xd1">>)
        /\ a20' = IF kbc_data THEN kbc = <<"0xdf">> ELSE a20
        /\ UNCHANGED <<image, ph, pa, end_pa, disk, control>>
    BY <1>6 DEF Controller
  <2>2. LineInv'
    <3>1. <<"BIOS">> # <<"0xd1">> /\ <<"0xdf">> # <<"0xd1">> /\ <<"0xd1">> # <<"0xdf">>
      OBVIOUS
    <3>2. kbc_data' \in BOOLEAN /\ a20' \in BOOLEAN
      BY <1>1, <2>1 DEF LineInv
    <3>3. control = "seta20_1" => ~kbc_data'
      BY <1>1, <2>1, <3>1 DEF LineInv
    <3>4. control = "seta20_2" => kbc_data'
      BY <1>1, <2>1 DEF LineInv
    <3>5. control \in {"loading", "kernel", "bad"} => ~kbc_data' /\ a20'
      BY <1>1, <2>1, <3>1 DEF LineInv
    <3>6. disk # "data"
      BY <1>1, <2>1 DEF LineInv
    <3> QED BY <1>1, <2>1, <3>2, <3>3, <3>4, <3>5, <3>6 DEF LineInv, InSegment
  <2>3. DoneInv'
    BY <1>1, <2>1 DEF LineInv, DoneInv
  <2> QED BY <1>2, <1>3, <2>2, <2>3, OthersStep
<1>7. CASE ReadCommand
  <2>1. LineInv' /\ DoneInv'
    BY <1>1, <1>7 DEF LineInv, DoneInv, ReadCommand, InSegment, a20Vars
  <2> QED BY <1>2, <1>3, <2>1, OthersStep
<1>8. CASE DiskReady
  <2>1. /\ disk' = "ready" \/ (disk = "busy" /\ kbc = <<>> /\ disk' = "data")
        /\ UNCHANGED <<image, ph, pa, end_pa, kbc, kbc_data, a20, control>>
    BY <1>8 DEF DiskReady, a20Vars
  <2>2. LineInv' /\ DoneInv'
    BY <1>1, <2>1 DEF LineInv, DoneInv, InSegment
  <2> QED BY <1>2, <1>3, <2>2, OthersStep
<1> QED BY <1>4, <1>5, <1>6, <1>7, <1>8

\* A sector is stored: the segment's bytes get their contents, and what the
\* sector has before and after them is what was there.
LEMMA SectorStep ==
    ASSUME IInv, ReadSector
    PROVE  IInv'
<1>1. /\ control = "loading" /\ pa < end_pa /\ disk = "data"
      /\ disk' \in {"ready", "settling"}
      /\ mem' = Stored /\ pa' = pa + SECTSIZE /\ offset' = offset + 1
      /\ UNCHANGED <<image, ph, end_pa, valid, kbc, kbc_data, a20, control>>
  BY DEF ReadSector, InSegment, a20Vars
<1>2. LineInv' /\ DoneInv' /\ a20
  BY <1>1 DEF IInv, LineInv, DoneInv, InSegment
<1>3. PICK n : n = Len(image)
  OBVIOUS
<1>4. /\ image \in Images /\ n \in Nat /\ ph \in 0 .. n
      /\ pa \in Nat /\ Whole(pa) /\ RoundDown(Part(ph).p_pa) <= pa
      /\ end_pa = Part(ph).p_pa + Part(ph).p_memsz
      /\ offset \in Nat \ {0} /\ SECTSIZE \in Nat \ {0}
      /\ (offset - 1) * SECTSIZE - pa = Part(ph).p_offset - Part(ph).p_pa
      /\ valid \in BOOLEAN
      /\ mem \in [0 .. MemSize - 1 -> Nat \cup {Old}]
  BY <1>3, PartsFit, SectorSize DEF IInv, PlaceInv, MemInv
<1>5. \A k \in 0 .. n :
         /\ Part(k).p_pa \in Nat /\ Part(k).p_memsz \in Nat /\ Part(k).p_offset \in Nat
         /\ Part(k).p_pa + Part(k).p_memsz <= MemSize
         /\ \A j \in 0 .. k - 1 : Spares(Part(k), Part(j))
  BY <1>3, <1>4, PartsFit
<1>6. pa + SECTSIZE <= MemSize
  BY <1>1, <1>4, <1>5, Sizes, NextSector
<1>7. Whole(pa + SECTSIZE)
  BY <1>4, WholeMod
<1>8. PICK base \in Nat : base = (offset - 1) * SECTSIZE
  <2>1. offset - 1 \in Nat
    BY <1>4
  <2> QED BY <1>4, <2>1
<1>9. (offset + 1 - 1) * SECTSIZE = base + SECTSIZE
  BY <1>4, <1>8
<1>10. PlaceInv'
  <2>1. Part(ph)' = Part(ph)
    BY <1>1 DEF Part
  <2>2. RoundDown(Part(ph).p_pa) \in Nat
    BY <1>4, <1>5, Rounded
  <2>3. Whole(pa')
    BY <1>1, <1>7
  <2>4. (offset' - 1) * SECTSIZE - pa' = Part(ph).p_offset - Part(ph).p_pa
    BY <1>1, <1>4, <1>5, <1>8, <1>9
  <2>5. /\ image' = image /\ ph' = ph /\ valid' = valid /\ disk' \in DiskStates
        /\ pa' \in Nat /\ pa' <= MemSize /\ offset' \in Nat \ {0} /\ end_pa' = end_pa
        /\ RoundDown(Part(ph).p_pa) <= pa'
    BY <1>1, <1>4, <1>6, <2>2 DEF DiskStates
  <2>6. image \in Images /\ ph \in 0 .. Len(image) /\ valid \in BOOLEAN
        /\ end_pa = Part(ph).p_pa + Part(ph).p_memsz
    BY <1>3, <1>4
  <2> QED BY <2>1, <2>3, <2>4, <2>5, <2>6 DEF PlaceInv, Whole
<1>11. mem' = [b \in 0 .. MemSize - 1 |->
                  IF b \in Bytes(pa, SECTSIZE) THEN base + b - pa ELSE mem[b]]
  BY <1>1, <1>2, <1>4, <1>8, StoredIs
<1>12. mem' \in [0 .. MemSize - 1 -> Nat \cup {Old}]
  <2>1. \A b \in Bytes(pa, SECTSIZE) : base + b - pa \in Nat
    BY <1>4 DEF Bytes
  <2> QED BY <1>4, <1>11, <2>1
<1>13. ASSUME NEW k \in 0 .. ph, NEW a \in Bytes(Part(k).p_pa, Part(k).p_memsz),
              k < ph \/ a < pa + SECTSIZE
       PROVE  mem'[a] = Part(k).p_offset + a - Part(k).p_pa
  <2>1. k \in 0 .. n /\ a \in 0 .. MemSize - 1
    <3>1. k \in 0 .. n
      BY <1>4
    <3>2. /\ Part(k).p_pa \in Nat /\ Part(k).p_memsz \in Nat
          /\ Part(k).p_pa + Part(k).p_memsz <= MemSize
      BY <1>5, <3>1
    <3> QED BY <3>1, <3>2, Sizes DEF Bytes
  <2>2. CASE a \in Bytes(pa, SECTSIZE)
    <3>1. mem'[a] = base + a - pa
      BY <1>11, <2>1, <2>2
    <3>2. mem'[a] = Part(ph).p_offset - Part(ph).p_pa + a
      BY <1>4, <1>5, <1>8, <2>1, <3>1
    <3>3. CASE k = ph
      BY <1>4, <1>5, <2>1, <3>2, <3>3
    <3>4. CASE k < ph
      <4>1. RoundDown(a) = pa
        BY <1>4, <2>2, SectorOf DEF Bytes
      <4>2. a \in Sectors(Part(ph))
        BY <1>1, <1>4, <2>1, <4>1 DEF Sectors
      <4>3. Spares(Part(ph), Part(k))
        BY <1>4, <1>5, <3>4
      <4>4. Part(ph).p_offset - Part(ph).p_pa = Part(k).p_offset - Part(k).p_pa
        BY <4>2, <4>3 DEF Spares
      <4>5. /\ Part(k).p_offset \in Nat /\ Part(k).p_pa \in Nat /\ a \in Nat
            /\ Part(ph).p_offset \in Nat /\ Part(ph).p_pa \in Nat
        <5>1. ph \in 0 .. n /\ k \in 0 .. n
          BY <1>4, <2>1
        <5> QED BY <1>5, <2>1, <5>1
      <4>6. mem'[a] = (Part(ph).p_offset - Part(ph).p_pa) + a
        BY <3>2
      <4> QED BY <4>4, <4>5, <4>6
    <3> QED BY <1>4, <3>3, <3>4
  <2>3. CASE a \notin Bytes(pa, SECTSIZE)
    <3>1. mem'[a] = mem[a]
      BY <1>11, <2>1, <2>3
    <3>2. k < ph \/ a < pa
      BY <1>4, <1>13, <2>1, <2>3 DEF Bytes
    <3> QED BY <3>1, <3>2 DEF IInv, MemInv
  <2> QED BY <2>2, <2>3
<1>14. MemInv'
  <2>1. \A k \in 0 .. ph : Part(k)' = Part(k)
    BY <1>1 DEF Part
  <2> QED BY <1>1, <1>12, <1>13, <2>1 DEF MemInv
<1> QED BY <1>2, <1>10, <1>14 DEF IInv

\* readseg begins with the next segment: the one before is complete.
LEMMA SegmentStep ==
    ASSUME IInv, NextSegment
    PROVE  IInv'
<1>1. PICK n, h : n = Len(image) /\ h = ph
  OBVIOUS
<1>2. /\ control = "loading" /\ pa >= end_pa /\ h < n /\ ph' = h + 1
      /\ UNCHANGED <<image, mem, disk, valid, kbc, kbc_data, a20, control>>
      /\ StartSeg(image[h + 1].p_pa, image[h + 1].p_memsz, image[h + 1].p_offset)
  BY <1>1 DEF NextSegment, SegmentEnd, a20Vars
<1>3. /\ image \in Images /\ n \in Nat /\ h \in 0 .. n
      /\ pa \in Nat /\ SECTSIZE \in Nat \ {0}
      /\ end_pa = Part(h).p_pa + Part(h).p_memsz
      /\ disk \in DiskStates /\ valid \in BOOLEAN
  BY <1>1, PartsFit, SectorSize DEF IInv, PlaceInv
<1>4. LineInv' /\ DoneInv'
  <2>1. kbc = <<>> /\ disk \notin {"busy", "data"}
    BY <1>2, <1>3 DEF IInv, LineInv, DoneInv, PlaceInv, InSegment
  <2> QED BY <1>2, <2>1 DEF IInv, LineInv, DoneInv
<1>5. PICK s : s = Part(h + 1)
  OBVIOUS
<1>6. /\ s.p_pa \in Nat /\ s.p_memsz \in Nat /\ s.p_offset \in Nat
      /\ s.p_pa % SECTSIZE = s.p_offset % SECTSIZE
      /\ s.p_pa + s.p_memsz <= MemSize /\ h + 1 \in 0 .. n /\ s = image[h + 1]
  <2>1. h + 1 \in 0 .. n /\ h + 1 # 0
    BY <1>2, <1>3
  <2>2. s = image[h + 1]
    BY <1>5, <2>1 DEF Part
  <2> QED BY <1>1, <1>3, <1>5, <2>1, <2>2, PartsFit
<1>7. /\ pa' = RoundDown(s.p_pa) /\ end_pa' = s.p_pa + s.p_memsz
      /\ offset' = s.p_offset \div SECTSIZE + 1
  BY <1>2, <1>6 DEF StartSeg
<1>8. PlaceInv'
  <2>1. Part(ph)' = s
    BY <1>2, <1>5 DEF Part
  <2>2. /\ RoundDown(s.p_pa) \in Nat /\ Whole(RoundDown(s.p_pa))
        /\ RoundDown(s.p_pa) <= s.p_pa
        /\ s.p_offset \div SECTSIZE \in Nat
        /\ (s.p_offset \div SECTSIZE) * SECTSIZE = RoundDown(s.p_offset)
    BY <1>6, Rounded, DivMod
  <2>3. RoundDown(s.p_offset) - RoundDown(s.p_pa) = s.p_offset - s.p_pa
    BY <1>6, DivMod DEF RoundDown
  <2>4. offset' - 1 = s.p_offset \div SECTSIZE /\ offset' \in Nat \ {0}
    BY <1>7, <2>2
  <2>5. (offset' - 1) * SECTSIZE - pa' = s.p_offset - s.p_pa
    BY <1>7, <2>2, <2>3, <2>4
  <2>6. Whole(pa') /\ pa' \in Nat /\ pa' <= MemSize
    BY <1>6, <1>7, <2>2, Sizes
  <2>7. RoundDown(s.p_pa) <= pa'
    BY <1>7, <2>2
  <2> QED BY <1>1, <1>2, <1>3, <1>6, <1>7, <2>1, <2>4, <2>5, <2>6, <2>7 DEF PlaceInv, Whole
<1>9. MemInv'
  <2>1. \A k \in 0 .. n : Part(k)' = Part(k)
    BY <1>2 DEF Part
  <2>2. mem \in [0 .. MemSize - 1 -> Nat \cup {Old}]
    BY DEF IInv, MemInv
  <2>3. ASSUME NEW k \in 0 .. h + 1, NEW a \in Bytes(Part(k).p_pa, Part(k).p_memsz),
               k < h + 1 \/ a < pa'
        PROVE  mem[a] = Part(k).p_offset + a - Part(k).p_pa
    <3>1. CASE k = h + 1
      <4>1. RoundDown(s.p_pa) <= s.p_pa /\ RoundDown(s.p_pa) \in Nat
        BY <1>6, Rounded
      <4> QED BY <1>3, <1>5, <1>6, <1>7, <2>3, <3>1, <4>1 DEF Bytes
    <3>2. CASE k = h
      <4>1. a < pa
        <5>1. Part(h).p_pa \in Nat /\ Part(h).p_memsz \in Nat
          BY <1>1, <1>3, PartsFit
        <5> QED BY <1>2, <1>3, <3>2, <5>1 DEF Bytes
      <4> QED BY <1>1, <1>3, <3>2, <4>1 DEF IInv, MemInv
    <3>3. CASE k < h
      <4>1. k \in 0 .. h
        BY <1>3, <3>3
      <4> QED BY <1>1, <3>3, <4>1 DEF IInv, MemInv
    <3> QED BY <1>3, <3>1, <3>2, <3>3
  <2>4. \A k \in 0 .. h + 1 : k \in 0 .. n
    BY <1>2, <1>3
  <2> QED BY <1>2, <2>1, <2>2, <2>3, <2>4 DEF MemInv
<1> QED BY <1>4, <1>8, <1>9 DEF IInv

LEMMA EndStep ==
    ASSUME IInv, RejectHeader \/ CallEntry
    PROVE  IInv'
<1>1. /\ control = "loading" /\ pa >= end_pa
      /\ UNCHANGED loadVars /\ UNCHANGED <<disk, kbc, kbc_data, a20>>
      /\ control' = "bad" \/ (control' = "kernel" /\ ph = Len(image))
  BY DEF RejectHeader, CallEntry, SegmentEnd, loadVars, a20Vars
<1>2. disk \in DiskStates
  BY DEF IInv, PlaceInv
<1>3. disk' \in DiskStates /\ disk \notin {"busy", "data"} /\ ph' = ph
      /\ pa' = pa /\ end_pa' = end_pa /\ image' = image
  <2>1. pa \in Nat /\ end_pa \in Nat
    BY PartsFit DEF IInv, PlaceInv
  <2> QED BY <1>1, <1>2, <2>1 DEF loadVars, IInv, LineInv, InSegment
<1>4. kbc = <<>>
  <2>1. pa \in Nat /\ end_pa \in Nat
    BY PartsFit DEF IInv, PlaceInv
  <2> QED BY <1>1, <2>1 DEF IInv, DoneInv
<1>5. LineInv' /\ DoneInv'
  BY <1>1, <1>3, <1>4 DEF IInv, LineInv, DoneInv
<1> QED BY <1>1, <1>3, <1>5, OthersStep

-----------------------------------------------------------------------------
LEMMA InitInv == Init => IInv
<1> SUFFICES ASSUME Init PROVE IInv
  OBVIOUS
<1>1. /\ image \in Images /\ ph = 0 /\ pa = RoundDown(ELFHDR) /\ end_pa = ELFHDR + HeaderSize
      /\ offset = 1 /\ disk \in DiskStates /\ valid \in BOOLEAN
      /\ mem = [a \in 0 .. MemSize - 1 |-> Old]
  BY DEF Init, DiskStates
<1>2. /\ ELFHDR \in Nat /\ HeaderSize \in Nat /\ HeaderSize > 0
      /\ ELFHDR % SECTSIZE = 0 % SECTSIZE /\ ELFHDR + HeaderSize <= MemSize
  BY HeaderFits DEF Fits, Segment, Header
<1>3. RoundDown(ELFHDR) = ELFHDR /\ Whole(ELFHDR)
  <2>1. 0 % SECTSIZE = 0
    BY SectorSize
  <2>2. RoundDown(ELFHDR) = ELFHDR
    BY <1>2, <2>1 DEF RoundDown
  <2> QED BY <1>2, <2>2, Rounded
<1>4. Part(0).p_pa = ELFHDR /\ Part(0).p_memsz = HeaderSize /\ Part(0).p_offset = 0
  BY DEF Part, Header
<1>5. LineInv
  BY DEF Init, LineInv
<1>6. PlaceInv
  <2>1. (1 - 1) * SECTSIZE - ELFHDR = 0 - ELFHDR
    BY <1>2, SectorSize
  <2>2. pa = ELFHDR
    BY <1>1, <1>3
  <2>3. (offset - 1) * SECTSIZE - pa = 0 - ELFHDR
    BY <1>1, <2>1, <2>2
  <2>4. Part(ph).p_pa = ELFHDR /\ Part(ph).p_memsz = HeaderSize /\ Part(ph).p_offset = 0
    BY <1>1, <1>4
  <2>5. image \in Images /\ ph \in 0 .. Len(image)
    BY <1>1, PartsFit
  <2>6. /\ pa \in Nat /\ Whole(pa) /\ pa <= MemSize /\ RoundDown(Part(ph).p_pa) <= pa
        /\ end_pa = Part(ph).p_pa + Part(ph).p_memsz /\ offset \in Nat \ {0}
    BY <1>1, <1>2, <1>3, <2>2, <2>4, Sizes
  <2> QED BY <1>1, <2>3, <2>4, <2>5, <2>6 DEF PlaceInv
<1>7. MemInv
  <2>1. \A a \in Bytes(ELFHDR, HeaderSize) : ~(a < ELFHDR)
    BY <1>2 DEF Bytes
  <2> QED BY <1>1, <1>3, <1>4, <2>1 DEF MemInv
<1>8. DoneInv
  BY <1>1, <1>2, <1>3 DEF Init, DoneInv
<1> QED BY <1>5, <1>6, <1>7, <1>8 DEF IInv

LEMMA NextInv == IInv /\ [Next]_vars => IInv'
<1> SUFFICES ASSUME IInv, [Next]_vars PROVE IInv'
  OBVIOUS
<1>1. CASE UNCHANGED vars
  <2>1. UNCHANGED loadVars /\ UNCHANGED <<disk, kbc, kbc_data, a20, control>>
    BY <1>1 DEF vars, a20Vars, loadVars
  <2>2. LineInv' /\ DoneInv' /\ disk' \in DiskStates
    BY <2>1 DEF IInv, LineInv, DoneInv, PlaceInv, InSegment, loadVars
  <2> QED BY <2>1, <2>2, OthersStep
<1> QED BY <1>1, LineStep, SectorStep, SegmentStep, EndStep DEF Next, Loader, boot_S

(***************************************************************************)
(* Whatever the disk and the keyboard controller do, readseg passes over   *)
(* nothing it has not read, and no sector is stored before the line is on. *)
(***************************************************************************)
THEOREM LoaderInvariance == Spec => []IInv
BY InitInv, NextInv, PTL DEF Spec

(***************************************************************************)
(* When the kernel is called every segment of it is in memory as in the    *)
(* file, for every kernel whose segments spare each other's bytes.         *)
(***************************************************************************)
THEOREM KernelLoaded == Spec => []ImageLoaded
<1>1. IInv => ImageLoaded
  <2> SUFFICES ASSUME IInv PROVE ImageLoaded
    OBVIOUS
  <2>1. PICK n : n = Len(image)
    OBVIOUS
  <2>2. /\ image \in Images /\ n \in Nat /\ ph \in 0 .. n /\ pa \in Nat /\ Whole(pa)
        /\ pa <= MemSize
        /\ end_pa = Part(ph).p_pa + Part(ph).p_memsz
        /\ \A k \in 0 .. n : Part(k).p_pa \in Nat /\ Part(k).p_memsz \in Nat
    BY <2>1, PartsFit DEF IInv, PlaceInv
  <2>3. TypeOK
    BY <2>1, <2>2, WholeMod DEF IInv, LineInv, PlaceInv, MemInv, TypeOK, DiskStates
  <2>4. ASSUME control = "kernel", NEW k \in 1 .. n PROVE SegmentLoaded(image[k])
    <3>1. ph = n /\ pa >= end_pa
      BY <2>1, <2>4 DEF IInv, DoneInv
    <3>2. Part(k) = image[k] /\ k \in 0 .. ph
      BY <2>2, <3>1 DEF Part
    <3>3. ASSUME NEW a \in Bytes(Part(k).p_pa, Part(k).p_memsz)
          PROVE  mem[a] = Part(k).p_offset + a - Part(k).p_pa
      <4>1. k < ph \/ a < pa
        BY <2>2, <3>1, <3>2 DEF Bytes
      <4> QED BY <3>2, <4>1 DEF IInv, MemInv
    <3> QED BY <3>2, <3>3 DEF SegmentLoaded
  <2>5. control = "kernel" => a20
    <3>1. control = "kernel" => kbc = <<>>
      BY <2>2 DEF IInv, DoneInv
    <3> QED BY <3>1 DEF IInv, LineInv
  <2> QED BY <2>1, <2>3, <2>4, <2>5 DEF ImageLoaded
<1> QED BY <1>1, LoaderInvariance, PTL

(***************************************************************************)
(* The program headers stay in the scratch space while they are in use.    *)
(***************************************************************************)
THEOREM HeaderSurvives == Spec => []HeaderKept
<1>1. IInv => HeaderKept
  <2> SUFFICES ASSUME IInv, ph > 0 PROVE SegmentLoaded(Header)
    BY DEF HeaderKept
  <2>1. Part(0) = Header
    BY DEF Part
  <2>2. ph \in Nat /\ 0 \in 0 .. ph
    BY PartsFit DEF IInv, PlaceInv
  <2>3. \A a \in Bytes(Header.p_pa, Header.p_memsz) :
           mem[a] = Header.p_offset + a - Header.p_pa
    BY <2>1, <2>2 DEF IInv, MemInv
  <2> QED BY <2>3 DEF SegmentLoaded
<1> QED BY <1>1, LoaderInvariance, PTL
=================================================================================
