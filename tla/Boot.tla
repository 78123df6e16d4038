---------------------------------- MODULE Boot ----------------------------------
(***************************************************************************)
(* The boot loader.  boot/boot.S has the keyboard controller switch        *)
(* address line 20 on.  bootmain of boot/main.c reads the ELF header into  *)
(* scratch space and then every segment of the kernel to its load address, *)
(* sector by sector, from a disk that is busy for a while after each       *)
(* command.  Addresses and file offsets are in bytes; a byte of memory     *)
(* holds the offset in the file it was read from, or Old.  The kernel file *)
(* starts at sector 1 of the disk.                                         *)
(***************************************************************************)
EXTENDS Integers, Sequences

CONSTANTS
    Images,     \* kernels: sequences of [p_pa, p_memsz, p_offset]
    SECTSIZE,
    ELFHDR,     \* the address of the scratch space
    HeaderSize, \* SECTSIZE * 8
    A20Line,    \* 1 MB: where the addresses start that need the line
    MemSize     \* bytes of memory

Old == -1
Segment == [p_pa : Nat, p_memsz : Nat, p_offset : Nat]
Bytes(start, count) == start .. start + count - 1
RoundDown(a) == a - (a % SECTSIZE)

\* The ELF header and the program headers, read like a segment.
Header == [p_pa |-> ELFHDR, p_memsz |-> HeaderSize, p_offset |-> 0]

(***************************************************************************)
(* What kern/kernel.ld makes of the kernel: a segment has the same place   *)
(* in a sector in memory and in the file, and where one of its sectors     *)
(* reaches into what was read before, the file goes on there as memory     *)
(* does.  The scratch space is such a segment, at the file's beginning.    *)
(***************************************************************************)
Sectors(s) == {a \in 0 .. MemSize - 1 :
                  RoundDown(s.p_pa) <= RoundDown(a) /\ RoundDown(a) < s.p_pa + s.p_memsz}

Fits(s) == /\ s \in Segment
           /\ s.p_pa % SECTSIZE = s.p_offset % SECTSIZE
           /\ s.p_pa + s.p_memsz <= MemSize

Spares(s, t) ==
    \/ Sectors(s) \cap Bytes(t.p_pa, t.p_memsz) = {}
    \/ s.p_offset - s.p_pa = t.p_offset - t.p_pa

ASSUME SectorSize == SECTSIZE \in Nat \ {0}
ASSUME MemoryOK   == MemSize \in Nat /\ MemSize % SECTSIZE = 0 /\ A20Line \in Nat \ {0}
ASSUME HeaderFits == Fits(Header) /\ HeaderSize > 0
ASSUME ImagesFit  ==
    \A img \in Images :
        /\ img \in Seq(Segment)
        /\ \A k \in 1 .. Len(img) :
              Fits(img[k]) /\ Spares(img[k], Header)
              /\ \A j \in 1 .. k - 1 : Spares(img[k], img[j])

VARIABLES
    image,
    mem,
    ph,          \* the segment being read, 0 for the header
    pa, end_pa,  \* readseg's
    offset,      \* readseg's, the sector on the disk
    disk,        \* "ready", or "settling" before it; "busy", then "data", after
                 \* a read command
    valid,       \* the file begins with ELF_MAGIC
    kbc,         \* the keyboard controller's input buffer: a byte or none
    kbc_data,    \* its next byte goes to its output port
    a20,         \* the line is on
    control      \* where the loader is: "seta20_1", "seta20_2", "loading",
                 \* "kernel" or "bad"

a20Vars == <<kbc, kbc_data, a20>>
vars == <<image, mem, ph, pa, end_pa, offset, disk, valid, a20Vars, control>>

\* readseg up to its loop.
StartSeg_LateEnd(start, count, off) == \* mutant: end_pa from the rounded pa
    /\ pa' = RoundDown(start)
    /\ end_pa' = RoundDown(start) + count
    /\ offset' = off \div SECTSIZE + 1

StartSeg(start, count, off) ==
    /\ pa' = RoundDown(start)
    /\ end_pa' = start + count
    /\ offset' = off \div SECTSIZE + 1

Init_PreviousSector == \* mutant: the kernel starts at sector 0
    /\ image \in Images
    /\ mem = [a \in 0 .. MemSize - 1 |-> Old]
    /\ ph = 0
    /\ pa = RoundDown(ELFHDR) /\ end_pa = ELFHDR + HeaderSize /\ offset = 0
    /\ disk \in {"ready", "settling"}
    /\ valid \in BOOLEAN
    /\ kbc \in {<<>>, <<"BIOS">>} /\ kbc_data = FALSE /\ a20 \in BOOLEAN
    /\ control = "seta20_1"

Init ==
    /\ image \in Images
    /\ mem = [a \in 0 .. MemSize - 1 |-> Old]
    /\ ph = 0
    /\ pa = RoundDown(ELFHDR) /\ end_pa = ELFHDR + HeaderSize /\ offset = 1
    /\ disk \in {"ready", "settling"}
    /\ valid \in BOOLEAN
    /\ kbc \in {<<>>, <<"BIOS">>} /\ kbc_data = FALSE /\ a20 \in BOOLEAN
    /\ control = "seta20_1"

-----------------------------------------------------------------------------
\* boot.S: each of the two bytes waits until the one before was taken.
seta20(here, byte, next) ==
    /\ control = here /\ kbc = <<>>
    /\ kbc' = <<byte>>
    /\ control' = next
    /\ UNCHANGED <<image, mem, ph, pa, end_pa, offset, disk, valid, kbc_data, a20>>

\* The controller takes a byte.  After 0xd1 the next one goes to the output
\* port, a bit of which is the line.
Controller ==
    /\ kbc # <<>>
    /\ kbc' = <<>>
    /\ kbc_data' = (kbc = <<"0xd1">>)
    /\ a20' = IF kbc_data THEN kbc = <<"0xdf">> ELSE a20
    /\ UNCHANGED <<image, mem, ph, pa, end_pa, offset, disk, valid, control>>

\* Where the bus takes an address to.
Phys(a) == IF a20 \/ (a \div A20Line) % 2 = 0 THEN a ELSE a - A20Line

InSegment == control = "loading" /\ pa < end_pa
SegmentEnd == control = "loading" /\ pa >= end_pa

\* readsect up to the second waitdisk: the first one spins until the disk
\* is ready for a command.
ReadCommand ==
    /\ InSegment /\ disk = "ready"
    /\ disk' = "busy"
    /\ UNCHANGED <<image, mem, ph, pa, end_pa, offset, valid, a20Vars, control>>

\* The disk is ready, or has the sector.  boot.S does not wait for its second
\* byte to be taken: that the controller is faster than the disk's read is an
\* assumption.
DiskReady ==
    /\ \/ disk = "settling" /\ disk' = "ready"
       \/ disk = "busy" /\ kbc = <<>> /\ disk' = "data"
    /\ UNCHANGED <<image, mem, ph, pa, end_pa, offset, valid, a20Vars, control>>

\* Memory with the sector stored from pa on.
Stored ==
    [b \in DOMAIN mem |->
        IF \E a \in Bytes(pa, SECTSIZE) : Phys(a) = b
        THEN (offset - 1) * SECTSIZE + (CHOOSE a \in Bytes(pa, SECTSIZE) : Phys(a) = b) - pa
        ELSE mem[b]]

\* insl, and the end of readseg's round.
ReadSector_NoAdvance == \* mutant
    /\ InSegment /\ disk = "data"
    /\ mem' = Stored
    /\ disk' \in {"ready", "settling"}
    /\ UNCHANGED <<image, ph, pa, end_pa, offset, valid, a20Vars, control>>

ReadSector ==
    /\ InSegment /\ disk = "data"
    /\ mem' = Stored
    /\ pa' = pa + SECTSIZE
    /\ offset' = offset + 1
    /\ disk' \in {"ready", "settling"}
    /\ UNCHANGED <<image, ph, end_pa, valid, a20Vars, control>>

\* The file is no ELF: bootmain stops at "bad".
RejectHeader ==
    /\ SegmentEnd /\ ph = 0 /\ ~valid
    /\ control' = "bad"
    /\ UNCHANGED <<image, mem, ph, pa, end_pa, offset, disk, valid, a20Vars>>

NextSegment ==
    /\ SegmentEnd /\ valid /\ ph < Len(image)
    /\ ph' = ph + 1
    /\ StartSeg(image[ph'].p_pa, image[ph'].p_memsz, image[ph'].p_offset)
    /\ UNCHANGED <<image, mem, disk, valid, a20Vars, control>>

CallEntry ==
    /\ SegmentEnd /\ valid /\ ph = Len(image)
    /\ control' = "kernel"
    /\ UNCHANGED <<image, mem, ph, pa, end_pa, offset, disk, valid, a20Vars>>

boot_S == \/ seta20("seta20_1", "0xd1", "seta20_2")
          \/ seta20("seta20_2", "0xdf", "loading")
Loader == boot_S \/ ReadCommand \/ ReadSector \/ RejectHeader \/ NextSegment \/ CallEntry
Next == Loader \/ DiskReady \/ Controller

\* The loader spins while the disk or the controller is busy, and they answer.
Spec == Init /\ [][Next]_vars /\ WF_vars(Loader) /\ WF_vars(DiskReady) /\ WF_vars(Controller)

-----------------------------------------------------------------------------
\* Every variable stays in its range; no sector falls off the memory's end.
TypeOK ==
    /\ mem \in [0 .. MemSize - 1 -> Nat \cup {Old}]
    /\ ph \in 0 .. Len(image)
    /\ pa % SECTSIZE = 0 /\ pa <= MemSize
    /\ end_pa \in Nat /\ offset \in Nat \ {0}
    /\ disk \in {"ready", "settling", "busy", "data"}
    /\ valid \in BOOLEAN
    /\ kbc \in {<<>>, <<"BIOS">>, <<"0xd1">>, <<"0xdf">>}
    /\ kbc_data \in BOOLEAN /\ a20 \in BOOLEAN
    /\ control \in {"seta20_1", "seta20_2", "loading", "kernel", "bad"}

(***************************************************************************)
(* When the kernel is called every segment is in memory as in the file:    *)
(* the bytes that readseg copies before and after the ones it was asked    *)
(* for do not spoil another segment, and none of it is stored before the   *)
(* address line that reaches the kernel's place is on.                     *)
(***************************************************************************)
SegmentLoaded(s) ==
    \A a \in Bytes(s.p_pa, s.p_memsz) : mem[a] = s.p_offset + a - s.p_pa

ImageLoaded ==
    /\ TypeOK
    /\ control = "kernel" => a20 /\ \A k \in 1 .. Len(image) : SegmentLoaded(image[k])

(***************************************************************************)
(* The program headers are still in the scratch space when they are used.  *)
(***************************************************************************)
HeaderKept ==
    ph > 0 /\ control = "loading" =>
        SegmentLoaded(Header)

\* The kernel is called in the end if the file is one.
Loads == valid ~> control = "kernel"
=================================================================================
