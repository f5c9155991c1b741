------------------------------ MODULE MemoryMap ------------------------------
(***************************************************************************)
(* cOS/boot/loader.asm from Label_Get_Mem_Struct on, and init_memory of    *)
(* cOS/kernel/src/memory.c: how the BIOS's memory map becomes the layout   *)
(* the page allocator works with.                                          *)
(*                                                                         *)
(* The loader leaves the records at 0x7e00, on top of the last cluster of  *)
(* the kernel it read there, and marks their end in no way.  Addresses and *)
(* lengths of records are in KB, the resolution BIOSes report in; what     *)
(* init_memory computes about its own tables is in bytes.  Pages and zones *)
(* are numbered as in module MemoryLayout.                                 *)
(***************************************************************************)
EXTENDS MemoryLayout

CONSTANTS
    BiosMaps,   \* the maps a BIOS may report
    Residues,   \* what the kernel's last cluster may look like, as records
    VbeSlot,    \* what a record read inside the VBE information looks like
    end_brk     \* physical address of the end of the kernel, in bytes

PAGE_2M == 2048         \* in KB
PAGE_4K == 4096         \* in bytes
SizeofPage == 40
SizeofZone == 80
E820Max == 32           \* the array of Global_Memory_Desc
Slots == 25             \* whole records between 0x7e00 and 0x8000

RAM == 1
ACPI_NVS == 4
E820 == [addr : Nat, len : Nat, type : Nat]

RecordLike(r) == r.type \in RAM .. ACPI_NVS /\ r.len # 0
EndOf(r) == r.addr + r.len

\* carry is the call of int 15h that fails, 0 for none.  (The word at 0x8004
\* holds the VBE version and half a pointer: more than any type.)
MapAssumption ==
    /\ BiosMaps \subseteq [records : Seq(E820), carry : Nat]
    /\ \A b \in BiosMaps : b.records # <<>>
    /\ Residues \subseteq [1 .. Slots -> E820]
    /\ VbeSlot \in E820 /\ ~RecordLike(VbeSlot)
    /\ end_brk \in Nat

ASSUME MapAssumption

VARIABLES
    pc,         \* where the loader and then init_memory are
    bios,       \* the map this machine's BIOS reports
    buffer,     \* the memory from 0x7e00, as records
    i,          \* records the loop at hand is done with
    e820,       \* memory_management_struct.e820, e820_len of them
    zones,      \* zones_struct, as the pages each zone covers
    npages,     \* bits_size, pages_size
    kernel_last \* the last page that holds the kernel or its tables

mapVars == <<pc, bios, buffer, i, e820, zones, npages, kernel_last>>

-----------------------------------------------------------------------------
(***************************************************************************)
(* The loader: one record at a time until the BIOS says it was the last.   *)
(***************************************************************************)
GetMemStruct(residue) ==
    /\ pc = "off"
    /\ pc' = "int15"
    /\ buffer' = [s \in 1 .. E820Max + 1 |-> IF s <= Slots THEN residue[s] ELSE VbeSlot]
    /\ UNCHANGED <<bios, i, e820, zones, npages, kernel_last>>

\* A carry stops the machine, whatever was read before it.
Int15 ==
    /\ pc = "int15"
    /\ IF bios.carry = i + 1
       THEN pc' = "failed" /\ UNCHANGED <<buffer, i>>
       ELSE /\ buffer' = [s \in DOMAIN buffer |->
                             IF s = i + 1 THEN bios.records[i + 1] ELSE buffer[s]]
            /\ IF i + 1 = Len(bios.records)
               THEN pc' = "vbe" /\ i' = 0
               ELSE pc' = pc /\ i' = i + 1
    /\ UNCHANGED <<bios, e820, zones, npages, kernel_last>>

\* The VBE calls write their information at 0x8000.
VbeInfo ==
    /\ pc = "vbe"
    /\ pc' = "scan"
    /\ buffer' = [s \in DOMAIN buffer |-> IF s <= Slots THEN buffer[s] ELSE VbeSlot]
    /\ UNCHANGED <<bios, i, e820, zones, npages, kernel_last>>

-----------------------------------------------------------------------------
(***************************************************************************)
(* init_memory.  The loop keeps a record before it looks at any, and then  *)
(* stops by what the record after it looks like.                           *)
(***************************************************************************)
ScanStops_ByKept(s) == ~RecordLike(buffer[s]) \/ s = E820Max
ScanStops(s) == ~RecordLike(buffer[s + 1]) \/ s = E820Max

Scan ==
    /\ pc = "scan"
    /\ e820' = Append(e820, buffer[i + 1])
    /\ IF ScanStops(i + 1)
       THEN /\ pc' = "zones"
            /\ i' = 0
            /\ npages' = EndOf(buffer[i + 1]) \div PAGE_2M
       ELSE /\ pc' = pc
            /\ i' = i + 1
            /\ npages' = npages
    /\ UNCHANGED <<bios, buffer, zones, kernel_last>>

\* The pages that lie in a record whole.
FirstPage_RoundedDown(r) == r.addr \div PAGE_2M
FirstPage(r) == (r.addr + PAGE_2M - 1) \div PAGE_2M
PagesWithin(r) == [start |-> FirstPage(r), end |-> EndOf(r) \div PAGE_2M]
HasZone(r) == r.type = RAM /\ PagesWithin(r).start < PagesWithin(r).end

InitZone ==
    /\ pc = "zones"
    /\ i < Len(e820)
    /\ i' = i + 1
    /\ zones' = IF HasZone(e820[i + 1]) THEN Append(zones, PagesWithin(e820[i + 1]))
                                        ELSE zones
    /\ UNCHANGED <<pc, bios, buffer, e820, npages, kernel_last>>

\* bits_map, pages_struct and zones_struct follow the kernel, each from a
\* fresh 4 KB on; end_of_struct leaves 32 words free behind them.
Align(addr, size) == ((addr + size - 1) \div size) * size
bits_map_at == Align(end_brk, PAGE_4K)
bits_len == (((npages + 63) \div 8) \div 8) * 8
pages_struct_at == Align(bits_map_at + bits_len, PAGE_4K)
zones_struct_at == Align(pages_struct_at + npages * SizeofPage, PAGE_4K)
end_of_struct == zones_struct_at + Len(zones) * SizeofZone + 32 * 8

EndOfStruct ==
    /\ pc = "zones"
    /\ i = Len(e820)
    /\ pc' = "done"
    /\ kernel_last' = end_of_struct \div (PAGE_2M * 1024)
    /\ UNCHANGED <<bios, buffer, i, e820, zones, npages>>

-----------------------------------------------------------------------------
MapInit ==
    /\ pc = "off"
    /\ bios \in BiosMaps
    /\ buffer = [s \in 1 .. E820Max + 1 |-> VbeSlot]
    /\ i = 0
    /\ e820 = <<>>
    /\ zones = <<>>
    /\ npages = 0
    /\ kernel_last = 0

MapSteps == Int15 \/ VbeInfo \/ Scan \/ InitZone \/ EndOfStruct
MapNext == MapSteps \/ \E residue \in Residues : GetMemStruct(residue)
MapSpec == MapInit /\ [][MapNext]_mapVars

-----------------------------------------------------------------------------
(***************************************************************************)
(* Properties.                                                             *)
(***************************************************************************)

\* The kernel keeps the BIOS's map and nothing else, provided that every
\* record of it looks like one, they end before the VBE information, and
\* the bytes of the kernel file that happen to follow them do not look like
\* a record too: nothing but those bytes ends the list (memory.c:226).
MapHandedOver ==
    LET n == Len(bios.records)
    IN  (/\ pc \in {"zones", "done"}
         /\ n <= Slots
         /\ \A k \in 1 .. n : RecordLike(bios.records[k])
         /\ ~RecordLike(buffer[n + 1]))
        => e820 = bios.records

\* BIOSes list memory in order and without overlap, and the kernel was
\* loaded to 1 MB: RAM has to reach from below 2 MB past the kernel's tables.
InOrder == \A a, b \in DOMAIN e820 : a < b => EndOf(e820[a]) <= e820[b].addr
HoldsKernel(r) ==
    /\ r.type = RAM
    /\ r.addr <= PAGE_2M
    /\ EndOf(r) >= 2 * PAGE_2M
    /\ EndOf(r) >= (kernel_last + 1) * PAGE_2M
SaneMap == InOrder /\ \E a \in DOMAIN e820 : HoldsKernel(e820[a])

Layout == [npages |-> npages, zones |-> zones, kernel_last |-> kernel_last]

ZonesAreRam ==
    \A k \in DOMAIN zones : \E a \in DOMAIN e820 :
        /\ e820[a].type = RAM
        /\ e820[a].addr <= zones[k].start * PAGE_2M
        /\ zones[k].end * PAGE_2M <= EndOf(e820[a])

\* Whatever the map, every byte of a zone is RAM; and from a sane map
\* init_memory makes a layout the allocator can work with: no page in two
\* zones or behind the tables' end, and a zone under every page that
\* page_init takes for the kernel.
LayoutIsSane == pc = "done" => ZonesAreRam /\ (SaneMap => SaneLayout(Layout))

=============================================================================
