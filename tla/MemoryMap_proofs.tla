--------------------------- MODULE MemoryMap_proofs ---------------------------
(***************************************************************************)
(* From every memory map a BIOS may report, of any length and with any     *)
(* sizes, init_memory makes zones of RAM only, and from every sane one a   *)
(* layout the page allocator can work with; the machine that boots does    *)
(* what module MemoryMap says; and from every floppy with sound files it   *)
(* loads the files that were written to it.                                *)
(***************************************************************************)
EXTENDS Boot, SequenceTheorems, TLAPS

ZoneRecord == [start : Nat, end : Nat]

MapTypeOK ==
    /\ pc \in {"off", "int15", "failed", "vbe", "scan", "zones", "done"}
    /\ bios \in BiosMaps
    /\ buffer \in [1 .. E820Max + 1 -> E820]
    /\ i \in Nat
    /\ e820 \in Seq(E820)
    /\ zones \in Seq(ZoneRecord)
    /\ npages \in Nat
    /\ kernel_last \in Nat

\* How far the loop at hand has come.
Progress ==
    /\ pc = "int15" => i < Len(bios.records)
    /\ pc \in {"off", "vbe"} => i = 0
    /\ pc = "scan" => i < E820Max
    /\ pc \notin {"zones", "done"} => zones = <<>>
    /\ pc \in {"zones", "done"} =>
        /\ e820 # <<>>
        /\ i <= Len(e820)
        /\ npages = EndOf(e820[Len(e820)]) \div PAGE_2M
    /\ pc = "done" => i = Len(e820)

\* The zones are those of the records the loop is done with, in their order.
ZonesOfRecords ==
    /\ \A k \in DOMAIN zones : \E r \in DOMAIN e820 :
        /\ r <= i
        /\ HasZone(e820[r])
        /\ zones[k] = PagesWithin(e820[r])
    /\ \A r \in DOMAIN e820 : r <= i /\ HasZone(e820[r]) =>
        \E k \in DOMAIN zones : zones[k] = PagesWithin(e820[r])
    /\ InOrder => \A a, b \in DOMAIN zones : a < b => zones[a].end <= zones[b].start

MapInv == MapTypeOK /\ Progress /\ (pc \in {"zones", "done"} => ZonesOfRecords)

-----------------------------------------------------------------------------
(***************************************************************************)
(* Arithmetic of whole pages.                                              *)
(***************************************************************************)

\* A record's pages are natural numbers and lie in the record (memory.c:314).
LEMMA PagesLieWithin ==
    ASSUME NEW r \in E820
    PROVE  /\ PagesWithin(r) \in ZoneRecord
           /\ r.addr <= PagesWithin(r).start * PAGE_2M
           /\ PagesWithin(r).end * PAGE_2M <= EndOf(r)
  BY DEF E820, ZoneRecord, PagesWithin, FirstPage, EndOf, PAGE_2M

\* What ends earlier has its last page no later.
LEMMA EndsInOrder ==
    ASSUME NEW r \in E820, NEW t \in E820, EndOf(r) <= EndOf(t)
    PROVE  PagesWithin(r).end <= EndOf(t) \div PAGE_2M
  BY DEF E820, PagesWithin, EndOf, PAGE_2M

\* A record that ends before another begins shares no page with it.
LEMMA PagesInOrder ==
    ASSUME NEW r \in E820, NEW t \in E820, EndOf(r) <= t.addr
    PROVE  PagesWithin(r).end <= PagesWithin(t).start
  BY DEF E820, PagesWithin, FirstPage, EndOf, PAGE_2M

\* The tables of init_memory end at a natural number (memory.c:408).
LEMMA TablesEnd ==
    ASSUME MapTypeOK
    PROVE  end_of_struct \div (PAGE_2M * 1024) \in Nat
  <1>1. end_brk \in Nat /\ npages \in Nat /\ Len(zones) \in Nat
    BY MapAssumption, LenProperties DEF MapAssumption, MapTypeOK
  <1>2. bits_map_at \in Nat
    BY <1>1 DEF bits_map_at, Align, PAGE_4K
  <1>3. bits_len \in Nat
    BY <1>1 DEF bits_len
  <1>4. pages_struct_at \in Nat
    BY <1>2, <1>3 DEF pages_struct_at, Align, PAGE_4K
  <1>5. zones_struct_at \in Nat
    BY <1>1, <1>4 DEF zones_struct_at, Align, PAGE_4K, SizeofPage
  <1> QED
    BY <1>1, <1>5 DEF end_of_struct, SizeofZone, PAGE_2M

-----------------------------------------------------------------------------
LEMMA MapInitially == MapInit => MapInv
  BY MapAssumption DEF MapAssumption, MapInit, MapInv, MapTypeOK, Progress, ZoneRecord

LEMMA MapStep == MapInv /\ [MapNext]_mapVars => MapInv'
  <1> SUFFICES ASSUME MapInv, [MapNext]_mapVars PROVE MapInv'
    OBVIOUS
  <1> USE DEF MapInv
  <1>0. /\ bios.records \in Seq(E820)
        /\ bios.records # <<>>
        /\ Len(bios.records) \in Nat \ {0}
    BY MapAssumption, EmptySeq, LenProperties DEF MapAssumption, MapTypeOK
  <1>1. ASSUME NEW residue \in Residues, GetMemStruct(residue)
        PROVE  MapInv'
    <2>1. buffer' \in [1 .. E820Max + 1 -> E820]
      <3>1. VbeSlot \in E820 /\ residue \in [1 .. Slots -> E820]
        BY MapAssumption DEF MapAssumption
      <3>2. \A s \in 1 .. E820Max + 1 : s <= Slots => s \in 1 .. Slots
        BY DEF E820Max, Slots
      <3> QED
        BY <1>1, <3>1, <3>2 DEF GetMemStruct
    <2>2. /\ pc = "off" /\ pc' = "int15" /\ i' = i /\ zones' = <<>>
          /\ UNCHANGED <<bios, e820, zones, npages, kernel_last>>
      BY <1>1 DEF GetMemStruct, Progress
    <2>3. i' < Len(bios'.records)
      BY <1>0, <2>2 DEF MapTypeOK, Progress
    <2> QED
      BY <2>1, <2>2, <2>3 DEF MapTypeOK, Progress
  <1>2. CASE Int15
    <2>1. i + 1 \in DOMAIN bios.records
      BY <1>0, <1>2 DEF Int15, MapTypeOK, Progress
    <2>2. bios.records[i + 1] \in E820
      BY <1>0, <2>1
    <2>3. buffer' \in [1 .. E820Max + 1 -> E820]
      BY <1>2, <2>2 DEF Int15, MapTypeOK
    <2> QED
      BY <1>0, <1>2, <2>1, <2>3 DEF Int15, MapTypeOK, Progress
  <1>3. CASE VbeInfo
    <2>1. buffer' \in [1 .. E820Max + 1 -> E820]
      BY <1>3, MapAssumption DEF MapAssumption, VbeInfo, MapTypeOK
    <2> QED
      BY <1>3, <2>1 DEF VbeInfo, MapTypeOK, Progress, E820Max
  <1>4. CASE Scan
    <2> E820Max = 32
      BY DEF E820Max
    <2>0. pc = "scan" /\ i \in Nat /\ i < E820Max /\ zones = <<>>
      BY <1>4 DEF Scan, MapTypeOK, Progress
    <2>1. i + 1 \in 1 .. E820Max
      BY <2>0
    <2>2. buffer[i + 1] \in E820
      <3>1. i + 1 \in 1 .. E820Max + 1
        BY <2>1
      <3> QED
        BY <3>1 DEF MapTypeOK
    <2>3. /\ e820' \in Seq(E820)
          /\ e820' # <<>>
          /\ Len(e820') \in Nat \ {0}
          /\ e820'[Len(e820')] = buffer[i + 1]
      <3>1. e820' = Append(e820, buffer[i + 1]) /\ e820 \in Seq(E820)
        BY <1>4 DEF Scan, MapTypeOK
      <3> QED
        BY <2>2, <3>1, AppendProperties
    <2>4. EndOf(buffer[i + 1]) \div PAGE_2M \in Nat
      BY <2>2 DEF EndOf, E820, PAGE_2M
    <2>5. MapTypeOK'
      <3>1. /\ pc' \in {"scan", "zones"}
            /\ i' \in {0, i + 1}
            /\ npages' \in {npages, EndOf(buffer[i + 1]) \div PAGE_2M}
            /\ UNCHANGED <<bios, buffer, zones, kernel_last>>
        BY <1>4, <2>0 DEF Scan
      <3>2. i' \in Nat
        BY <2>0, <3>1
      <3>3. npages' \in Nat
        BY <2>4, <3>1 DEF MapTypeOK
      <3> QED
        BY <2>3, <3>1, <3>2, <3>3 DEF MapTypeOK
    <2>6. CASE ScanStops(i + 1)
      <3>1. pc' = "zones" /\ i' = 0 /\ zones' = <<>>
        BY <1>4, <2>6 DEF Scan, Progress
      <3>2. npages' = EndOf(e820'[Len(e820')]) \div PAGE_2M
        BY <1>4, <2>3, <2>6 DEF Scan
      <3>3. Progress'
        BY <2>3, <3>1, <3>2 DEF Progress, EndOf
      <3>4. ZonesOfRecords'
        BY <2>3, <3>1 DEF ZonesOfRecords
      <3> QED
        BY <2>5, <3>3, <3>4
    <2>7. CASE ~ScanStops(i + 1)
      <3>1. i' = i + 1 /\ i + 1 # E820Max /\ pc' = "scan" /\ zones' = zones
        BY <1>4, <2>7 DEF Scan, ScanStops
      <3>2. zones = <<>> /\ i' < E820Max
        BY <2>0, <2>1, <3>1
      <3> QED
        BY <2>5, <3>1, <3>2 DEF Progress
    <2> QED
      BY <2>6, <2>7
  <1>5. CASE InitZone
    <2>1. /\ i + 1 \in DOMAIN e820
          /\ i' = i + 1
          /\ UNCHANGED <<pc, bios, buffer, e820, npages, kernel_last>>
          /\ pc = "zones"
      BY <1>5, LenProperties DEF InitZone, MapTypeOK
    <2> DEFINE r == e820[i + 1]
    <2>2. r \in E820 /\ PagesWithin(r) \in ZoneRecord
      BY <2>1, PagesLieWithin DEF MapTypeOK
    <2>3. Progress'
      BY <2>1, LenProperties DEF Progress, MapTypeOK, EndOf
    <2>4. CASE ~HasZone(r)
      <3>1. zones' = zones
        BY <1>5, <2>4 DEF InitZone
      <3>2. ZonesOfRecords'
        BY <2>1, <2>4, <3>1 DEF ZonesOfRecords, MapTypeOK, InOrder, HasZone, PagesWithin,
             FirstPage, EndOf
      <3> QED
        BY <2>1, <2>3, <3>1, <3>2 DEF MapTypeOK
    <2>5. CASE HasZone(r)
      <3>1. zones' = Append(zones, PagesWithin(r))
        BY <1>5, <2>5 DEF InitZone
      <3>2. /\ zones' \in Seq(ZoneRecord)
            /\ DOMAIN zones' = 1 .. (Len(zones) + 1)
            /\ DOMAIN zones = 1 .. Len(zones)
            /\ Len(zones) \in Nat
            /\ \A k \in DOMAIN zones : zones'[k] = zones[k]
            /\ zones'[Len(zones) + 1] = PagesWithin(r)
        BY <2>2, <3>1 DEF MapTypeOK
      <3>3. \A k \in DOMAIN zones' : \E t \in DOMAIN e820 :
                /\ t <= i + 1
                /\ HasZone(e820[t])
                /\ zones'[k] = PagesWithin(e820[t])
        <4> TAKE k \in DOMAIN zones'
        <4>1. CASE k \in DOMAIN zones
          <5>1. PICK t \in DOMAIN e820 :
                    t <= i /\ HasZone(e820[t]) /\ zones[k] = PagesWithin(e820[t])
            BY <4>1, <2>1 DEF ZonesOfRecords
          <5> QED
            BY <3>2, <4>1, <5>1, LenProperties DEF MapTypeOK
        <4>2. CASE k = Len(zones) + 1
          BY <2>1, <2>5, <3>2, <4>2 DEF MapTypeOK
        <4> QED
          BY <3>2, <4>1, <4>2
      <3>4. ASSUME NEW t \in DOMAIN e820, t <= i + 1, HasZone(e820[t])
            PROVE  \E k \in DOMAIN zones' : zones'[k] = PagesWithin(e820[t])
        <4>1. CASE t <= i
          <5>1. PICK k \in DOMAIN zones : zones[k] = PagesWithin(e820[t])
            BY <2>1, <3>4, <4>1 DEF ZonesOfRecords
          <5> QED
            BY <3>2, <5>1
        <4>2. CASE t = i + 1
          BY <3>2, <4>2
        <4> QED
          BY <3>4, <4>1, <4>2, LenProperties DEF MapTypeOK
      <3>5. ASSUME InOrder, NEW a \in DOMAIN zones', NEW b \in DOMAIN zones', a < b
            PROVE  zones'[a].end <= zones'[b].start
        <4>1. CASE b \in DOMAIN zones
          BY <2>1, <3>2, <3>5, <4>1 DEF ZonesOfRecords
        <4>2. CASE b = Len(zones) + 1
          <5>1. a \in DOMAIN zones
            BY <3>2, <3>5, <4>2
          <5>2. PICK t \in DOMAIN e820 : t <= i /\ zones[a] = PagesWithin(e820[t])
            BY <2>1, <5>1 DEF ZonesOfRecords
          <5>3. t < i + 1 /\ e820[t] \in E820
            BY <5>2, LenProperties DEF MapTypeOK
          <5>4. EndOf(e820[t]) <= r.addr
            BY <2>1, <3>5, <5>3 DEF InOrder
          <5>5. PagesWithin(e820[t]).end <= PagesWithin(r).start
            BY <2>2, <5>3, <5>4, PagesInOrder
          <5> QED
            BY <3>2, <4>2, <5>1, <5>2, <5>5
        <4> QED
          BY <3>2, <4>1, <4>2
      <3>6. InOrder' <=> InOrder
        BY <2>1 DEF InOrder, EndOf
      <3>7. ZonesOfRecords'
        BY <2>1, <3>3, <3>4, <3>5, <3>6 DEF ZonesOfRecords, HasZone, PagesWithin, FirstPage, EndOf
      <3> QED
        BY <2>1, <2>3, <3>2, <3>7 DEF MapTypeOK
    <2> QED
      BY <2>4, <2>5
  <1>6. CASE EndOfStruct
    <2>1. end_of_struct \div (PAGE_2M * 1024) \in Nat
      BY TablesEnd
    <2>2. MapTypeOK'
      BY <1>6, <2>1 DEF EndOfStruct, MapTypeOK
    <2>3. Progress'
      BY <1>6 DEF EndOfStruct, Progress, EndOf
    <2>4. ZonesOfRecords'
      BY <1>6 DEF EndOfStruct, ZonesOfRecords, HasZone, PagesWithin, FirstPage, EndOf, InOrder
    <2> QED
      BY <2>2, <2>3, <2>4
  <1>7. CASE UNCHANGED mapVars
    BY <1>7 DEF mapVars, MapTypeOK, Progress, ZonesOfRecords, HasZone, PagesWithin,
         FirstPage, EndOf, InOrder
  <1> QED
    BY <1>1, <1>2, <1>3, <1>4, <1>5, <1>6, <1>7 DEF MapNext, MapSteps

-----------------------------------------------------------------------------
\* In every state the invariant gives what LayoutIsSane asks for.
LEMMA InvGivesLayout == MapInv => LayoutIsSane
  <1> SUFFICES ASSUME MapInv, pc = "done"
               PROVE  ZonesAreRam /\ (SaneMap => SaneLayout(Layout))
    BY DEF LayoutIsSane
  <1>1. /\ MapTypeOK /\ ZonesOfRecords
        /\ i = Len(e820)
        /\ npages = EndOf(e820[Len(e820)]) \div PAGE_2M
    BY DEF MapInv, Progress
  <1>2. /\ e820 \in Seq(E820)
        /\ DOMAIN e820 = 1 .. Len(e820)
        /\ Len(e820) \in Nat
        /\ \A r \in DOMAIN e820 : e820[r] \in E820
        /\ \A r \in DOMAIN e820 : r <= i
    BY <1>1, LenProperties DEF MapTypeOK
  <1>3. ZonesAreRam
    BY <1>1, <1>2, PagesLieWithin DEF ZonesAreRam, ZonesOfRecords, HasZone
  <1>4. ASSUME SaneMap PROVE SaneLayout(Layout)
    <2>1. PICK kern \in DOMAIN e820 : HoldsKernel(e820[kern])
      BY <1>4 DEF SaneMap
    <2> DEFINE last == e820[Len(e820)]
    <2>2. /\ Len(e820) \in DOMAIN e820
          /\ last \in E820
          /\ e820[kern] \in E820
      BY <1>2, <2>1
    <2>3. \A r \in DOMAIN e820 : EndOf(e820[r]) <= EndOf(last)
      <3> TAKE r \in DOMAIN e820
      <3>1. CASE r = Len(e820)
        BY <2>2, <3>1 DEF E820, EndOf
      <3>2. CASE r < Len(e820)
        <4>1. EndOf(e820[r]) <= last.addr
          BY <1>4, <2>2, <3>2 DEF SaneMap, InOrder
        <4> QED
          BY <1>2, <2>2, <4>1 DEF E820, EndOf
      <3> QED
        BY <1>2, <3>1, <3>2
    \* The zone that holds the kernel.
    <2>4. /\ kernel_last \in Nat
          /\ npages \in Nat
          /\ PagesWithin(e820[kern]).start <= 1
          /\ 2 <= PagesWithin(e820[kern]).end
          /\ kernel_last + 1 <= PagesWithin(e820[kern]).end
          /\ HasZone(e820[kern])
      <3>1. kernel_last \in Nat /\ npages \in Nat
        BY <1>1 DEF MapTypeOK
      <3>2. /\ e820[kern].type = RAM
            /\ e820[kern].addr \in Nat /\ e820[kern].addr <= 2048
            /\ EndOf(e820[kern]) \in Nat
            /\ EndOf(e820[kern]) >= 2 * 2048
            /\ EndOf(e820[kern]) >= (kernel_last + 1) * 2048
        BY <2>1, <2>2 DEF HoldsKernel, E820, EndOf, PAGE_2M
      <3>3. PagesWithin(e820[kern]).start <= 1
        BY <3>2 DEF PagesWithin, FirstPage, PAGE_2M
      <3>4. /\ PagesWithin(e820[kern]).end = EndOf(e820[kern]) \div 2048
            /\ PagesWithin(e820[kern]) \in ZoneRecord
        BY <2>2, PagesLieWithin DEF PagesWithin, PAGE_2M
      <3>5. EndOf(e820[kern]) \div 2048 >= 2 /\ EndOf(e820[kern]) \div 2048 >= kernel_last + 1
        BY <3>1, <3>2
      <3> QED
        BY <3>1, <3>2, <3>3, <3>4, <3>5 DEF HasZone, ZoneRecord
    <2>5. PICK home \in DOMAIN zones : zones[home] = PagesWithin(e820[kern])
      BY <1>1, <1>2, <2>1, <2>4 DEF ZonesOfRecords
    <2>6. \A k \in DOMAIN zones : /\ zones[k] \in ZoneRecord
                                 /\ zones[k].start < zones[k].end
                                 /\ zones[k].end <= npages
      <3> TAKE k \in DOMAIN zones
      <3>1. PICK r \in DOMAIN e820 : HasZone(e820[r]) /\ zones[k] = PagesWithin(e820[r])
        BY <1>1 DEF ZonesOfRecords
      <3> QED
        BY <1>1, <1>2, <2>2, <2>3, <3>1, PagesLieWithin, EndsInOrder DEF HasZone
    <2>7. \A a, b \in DOMAIN zones : a # b => ZonePages(zones[a]) \cap ZonePages(zones[b]) = {}
      <3>1. \A a, b \in DOMAIN zones : a < b => zones[a].end <= zones[b].start
        BY <1>1, <1>4 DEF SaneMap, ZonesOfRecords
      <3>2. \A a \in DOMAIN zones : a \in Nat
        BY <1>1 DEF MapTypeOK
      <3>3. ASSUME NEW a \in DOMAIN zones, NEW b \in DOMAIN zones, a < b
            PROVE  ZonePages(zones[a]) \cap ZonePages(zones[b]) = {}
        BY <2>6, <3>1, <3>3 DEF ZonePages, ZoneRecord
      <3> QED
        BY <3>2, <3>3
    <2>8. npages # 0 /\ kernel_last \in 0 .. (npages - 1)
      BY <2>4, <2>5, <2>6 DEF ZoneRecord
    <2>9. ASSUME NEW p \in 0 .. kernel_last
          PROVE  ZoneOf(Layout, p) # 0
      <3>1. CASE p = 0
        BY <3>1 DEF ZoneOf
      <3>2. CASE p # 0
        <4> DEFINE covering == {k \in DOMAIN zones : p \in ZonePages(zones[k])}
        <4>1. p \in ZonePages(zones[home])
          BY <2>2, <2>4, <2>5, <2>9, <3>2, PagesLieWithin DEF ZonePages, ZoneRecord
        <4>2. home \in covering /\ \A k \in covering : k = home
          BY <2>7, <4>1
        <4>3. home \in Nat \ {0}
          BY <1>1 DEF MapTypeOK
        <4>4. ZoneOf(Layout, p) = CHOOSE k \in covering : \A j \in covering : j <= k
          BY <3>2, <4>2 DEF ZoneOf, Layout
        <4>5. \E k \in covering : \A j \in covering : j <= k
          BY <4>2, <4>3
        <4>6. ZoneOf(Layout, p) \in covering
          BY <4>4, <4>5
        <4> QED
          BY <4>2, <4>3, <4>6
      <3> QED
        BY <3>1, <3>2
    <2>10. zones \in Seq([start : Nat, end : Nat]) /\ zones # <<>>
      BY <1>1, <2>5 DEF MapTypeOK, ZoneRecord
    <2> QED
      BY <2>4, <2>6, <2>7, <2>8, <2>9, <2>10 DEF SaneLayout, Layout, PagesOf
  <1> QED
    BY <1>3, <1>4

\* Every map a BIOS may report gives zones of RAM only, and every sane one
\* a layout for the page allocator (memory.c:300-425).
THEOREM MapGivesSaneLayout == MapSpec => []LayoutIsSane
  <1>1. MapInit => MapInv
    BY MapInitially
  <1>2. MapInv /\ [MapNext]_mapVars => MapInv'
    BY MapStep
  <1>3. MapInv => LayoutIsSane
    BY InvGivesLayout
  <1> QED
    BY <1>1, <1>2, <1>3, PTL DEF MapSpec

-----------------------------------------------------------------------------
(***************************************************************************)
(* What the kernel keeps of the map.  The buffer holds the records read so *)
(* far; the list holds the buffer's, each but the first looked at before.  *)
(***************************************************************************)
Handing ==
    /\ pc \in {"off", "int15", "failed", "vbe"} => e820 = <<>>
    /\ pc = "int15" => \A k \in 1 .. i : k <= Slots => buffer[k] = bios.records[k]
    /\ pc \in {"vbe", "scan", "zones", "done"} =>
        \A k \in DOMAIN bios.records : k <= Slots => buffer[k] = bios.records[k]
    /\ \A k \in DOMAIN e820 :
        /\ k <= E820Max
        /\ e820[k] = buffer[k]
        /\ pc = "scan" \/ k < Len(e820) => RecordLike(buffer[k + 1])
    /\ pc = "scan" => Len(e820) = i
    /\ pc \in {"zones", "done"} => ScanStops(Len(e820))

HandInv == MapInv /\ Handing

LEMMA HandInitially == MapInit => HandInv
  BY MapInitially DEF MapInit, HandInv, Handing

LEMMA HandStep == HandInv /\ [MapNext]_mapVars => HandInv'
  <1> SUFFICES ASSUME HandInv, [MapNext]_mapVars PROVE Handing'
    BY MapStep DEF HandInv
  <1> USE DEF HandInv
  <1>0. /\ bios.records \in Seq(E820)
        /\ DOMAIN bios.records = 1 .. Len(bios.records)
        /\ Len(bios.records) \in Nat
        /\ buffer \in [1 .. E820Max + 1 -> E820]
        /\ e820 \in Seq(E820)
        /\ DOMAIN e820 = 1 .. Len(e820)
        /\ Len(e820) \in Nat
    BY MapAssumption, LenProperties DEF MapAssumption, MapInv, MapTypeOK
  <1>a. i \in Nat
    BY DEF MapInv, MapTypeOK
  <1>b. E820Max = 32 /\ Slots = 25
    BY DEF E820Max, Slots
  <1>c. i < E820Max => i + 1 \in 1 .. E820Max + 1
    BY <1>a, <1>b
  <1>d. \A k \in 1 .. (i + 1) : k = i + 1 \/ k \in 1 .. i
    BY <1>a
  <1>1. ASSUME NEW residue \in Residues, GetMemStruct(residue)
        PROVE  Handing'
    <2>1. /\ pc = "off" /\ pc' = "int15" /\ i' = 0 /\ e820' = <<>>
      BY <1>1 DEF GetMemStruct, Handing, MapInv, Progress
    <2> QED
      BY <2>1 DEF Handing
  <1>2. CASE Int15
    <2>1. pc = "int15" /\ i < Len(bios.records) /\ UNCHANGED <<bios, e820>> /\ e820 = <<>>
      BY <1>2 DEF Int15, Handing, MapInv, Progress
    <2>2. CASE bios.carry = i + 1
      <3>1. pc' = "failed"
        BY <1>2, <2>2 DEF Int15
      <3> QED
        BY <2>1, <3>1 DEF Handing
    <2>3. CASE bios.carry # i + 1
      <3>1. /\ buffer' = [s \in DOMAIN buffer |->
                            IF s = i + 1 THEN bios.records[i + 1] ELSE buffer[s]]
            /\ \/ i + 1 = Len(bios.records) /\ pc' = "vbe"
               \/ pc' = "int15" /\ i' = i + 1
        BY <1>2, <2>1, <2>3 DEF Int15
      <3>2. \A k \in 1 .. (i + 1) : k <= Slots => buffer'[k] = bios.records[k]
        <4> TAKE k \in 1 .. (i + 1)
        <4> HAVE k <= Slots
        <4>1. k \in DOMAIN buffer
          <5>1. k \in 1 .. 33
            BY <1>a, <1>b
          <5> QED
            BY <1>0, <1>b, <5>1
        <4>2. k \in 1 .. i => buffer[k] = bios.records[k]
          BY <2>1 DEF Handing
        <4> QED
          BY <1>d, <3>1, <4>1, <4>2
      <3>3. i + 1 = Len(bios.records) =>
              \A k \in DOMAIN bios'.records : k <= Slots => buffer'[k] = bios'.records[k]
        BY <1>0, <2>1, <3>2
      <3>4. DOMAIN e820' = {}
        BY <2>1
      <3> QED
        BY <2>1, <3>1, <3>2, <3>3, <3>4 DEF Handing
    <2> QED
      BY <2>2, <2>3
  <1>3. CASE VbeInfo
    <2>1. /\ pc = "vbe" /\ pc' = "scan" /\ i' = 0 /\ e820' = <<>> /\ bios' = bios
          /\ \A s \in 1 .. Slots : buffer'[s] = buffer[s]
      <3>1. pc = "vbe" /\ e820 = <<>> /\ i = 0
        BY <1>3 DEF VbeInfo, Handing, MapInv, Progress
      <3>2. \A s \in 1 .. Slots : s \in DOMAIN buffer /\ s <= Slots
        <4>1. \A s \in 1 .. Slots : s \in 1 .. E820Max + 1 /\ s <= Slots
          BY <1>b
        <4> QED
          BY <1>0, <4>1
      <3> QED
        BY <1>3, <3>1, <3>2 DEF VbeInfo
    <2>2. \A k \in DOMAIN bios'.records : k <= Slots => buffer'[k] = bios'.records[k]
      <3>1. ASSUME NEW k \in DOMAIN bios.records, k <= Slots PROVE k \in 1 .. Slots
        <4>1. k \in Nat /\ 1 <= k
          BY <1>0
        <4> QED
          BY <1>b, <3>1, <4>1
      <3> QED
        BY <2>1, <3>1 DEF Handing
    <2>3. DOMAIN e820' = {} /\ Len(e820') = 0
      BY <2>1
    <2> QED
      BY <2>1, <2>2, <2>3 DEF Handing
  <1>4. CASE Scan
    <2>1. /\ pc = "scan" /\ i < E820Max /\ Len(e820) = i
          /\ UNCHANGED <<bios, buffer>>
          /\ e820' = Append(e820, buffer[i + 1])
          /\ \/ ScanStops(i + 1) /\ pc' = "zones"
             \/ ~ScanStops(i + 1) /\ pc' = "scan" /\ i' = i + 1
      BY <1>4 DEF Scan, Handing, MapInv, Progress
    <2>2. buffer[i + 1] \in E820
      BY <1>0, <1>c, <2>1
    <2>3. /\ Len(e820') = i + 1
          /\ DOMAIN e820' = 1 .. (i + 1)
          /\ \A k \in 1 .. i : e820'[k] = e820[k]
          /\ e820'[i + 1] = buffer[i + 1]
      <3>1. e820' \in Seq(E820)
        BY <1>0, <2>1, <2>2, AppendProperties
      <3> QED
        BY <1>0, <2>1, <2>2, <3>1, AppendProperties, LenProperties, <1>a
    <2>4. \A k \in 1 .. i : /\ k <= E820Max
                            /\ e820[k] = buffer[k]
                            /\ RecordLike(buffer[k + 1])
      BY <1>0, <2>1 DEF Handing
    <2>5. \A k \in DOMAIN e820' :
            /\ k <= E820Max
            /\ e820'[k] = buffer[k]
            /\ pc' = "scan" \/ k < i + 1 => RecordLike(buffer[k + 1])
      <3> TAKE k \in DOMAIN e820'
      <3>1. CASE k \in 1 .. i
        BY <2>3, <2>4, <3>1
      <3>2. CASE k = i + 1
        <4>1. k <= E820Max /\ ~(k < i + 1)
          BY <1>a, <1>b, <2>1, <3>2
        <4>2. pc' = "scan" => RecordLike(buffer[k + 1])
          BY <2>1, <3>2 DEF ScanStops
        <4> QED
          BY <2>3, <3>2, <4>1, <4>2
      <3> QED
        BY <1>d, <2>3, <3>1, <3>2
    <2>6. pc' = "zones" => ScanStops(Len(e820))'
      BY <2>1, <2>3 DEF ScanStops, RecordLike
    <2>7. \A k \in DOMAIN bios.records : k <= Slots => buffer[k] = bios.records[k]
      BY <2>1 DEF Handing
    <2>8. pc' \in {"scan", "zones"} /\ (pc' = "scan" => i' = i + 1)
      BY <2>1
    <2> QED
      BY <2>1, <2>3, <2>5, <2>6, <2>7, <2>8 DEF Handing
  <1>5. CASE InitZone
    BY <1>5 DEF InitZone, Handing, ScanStops, RecordLike
  <1>6. CASE EndOfStruct
    BY <1>6 DEF EndOfStruct, Handing, ScanStops, RecordLike
  <1>7. CASE UNCHANGED mapVars
    BY <1>7 DEF mapVars, Handing, ScanStops, RecordLike
  <1> QED
    BY <1>1, <1>2, <1>3, <1>4, <1>5, <1>6, <1>7 DEF MapNext, MapSteps

LEMMA HandGivesMap == HandInv => MapHandedOver
  <1> SUFFICES ASSUME HandInv,
                      pc \in {"zones", "done"},
                      Len(bios.records) <= Slots,
                      \A k \in 1 .. Len(bios.records) : RecordLike(bios.records[k]),
                      ~RecordLike(buffer[Len(bios.records) + 1])
               PROVE  e820 = bios.records
    BY DEF MapHandedOver
  <1> DEFINE n == Len(bios.records)
  <1>1. /\ bios.records \in Seq(E820) /\ e820 \in Seq(E820)
        /\ n \in Nat \ {0} /\ Len(e820) \in Nat \ {0}
        /\ DOMAIN bios.records = 1 .. n /\ DOMAIN e820 = 1 .. Len(e820)
    BY MapAssumption, LenProperties, EmptySeq
       DEF MapAssumption, HandInv, MapInv, MapTypeOK, Progress
  <1>a. Slots = 25 /\ E820Max = 32
    BY DEF E820Max, Slots
  <1>b. \A k \in 1 .. n : k <= Slots
    BY <1>1, <1>a
  <1>2. /\ \A k \in 1 .. n : buffer[k] = bios.records[k]
        /\ \A k \in 1 .. Len(e820) : e820[k] = buffer[k]
        /\ \A k \in 1 .. Len(e820) : k < Len(e820) => RecordLike(buffer[k + 1])
        /\ ScanStops(Len(e820))
    BY <1>1, <1>b DEF HandInv, Handing
  <1>3. ~(n < Len(e820))
    BY <1>1, <1>2
  <1>4. ~(Len(e820) < n)
    <2> SUFFICES ASSUME Len(e820) < n PROVE FALSE
      OBVIOUS
    <2>1. Len(e820) + 1 \in 1 .. n
      BY <1>1
    <2>2. RecordLike(buffer[Len(e820) + 1])
      BY <1>2, <2>1
    <2>3. Len(e820) # E820Max
      <3>1. Len(e820) \in Nat /\ Len(e820) < 25
        BY <1>1, <1>a
      <3>2. \A len \in Nat : len < 25 => len # E820Max
        BY DEF E820Max
      <3> QED
        BY <3>1, <3>2, Zenon
    <2> QED
      BY <1>2, <2>2, <2>3 DEF ScanStops
  <1>5. n = Len(e820)
    BY <1>1, <1>3, <1>4
  <1> QED
    BY <1>1, <1>2, <1>5, SeqEqual

\* Whatever a BIOS reports, the kernel keeps all of it and nothing else, on
\* the three conditions MapHandedOver names (memory.c:197-227).
THEOREM MapIsHandedOver == MapSpec => []MapHandedOver
  <1>1. MapInit => HandInv
    BY HandInitially
  <1>2. HandInv /\ [MapNext]_mapVars => HandInv'
    BY HandStep
  <1>3. HandInv => MapHandedOver
    BY HandGivesMap
  <1> QED
    BY <1>1, <1>2, <1>3, PTL DEF MapSpec

-----------------------------------------------------------------------------
(***************************************************************************)
(* The booting machine.                                                    *)
(***************************************************************************)

\* The loader hands over what the last cluster it read looks like.
LEMMA LastClusterOnDisk == Spec => [](at7e00 \in 0 .. (TotSec - 1))
  <1> DEFINE Inv == at7e00 \in 0 .. (TotSec - 1)
  <1>1. Init => Inv
    BY BootAssumption DEF BootAssumption, Init, FatInit
  <1>2. Inv /\ [Next]_bootVars => Inv'
    <2> SUFFICES ASSUME Inv, [Next]_bootVars PROVE Inv'
      OBVIOUS
    <2>1. CASE FatNext
      BY <2>1 DEF FatNext, NotInRoot, SearchSector, LoadCluster, NextCluster, StartLoader, Reads
    <2>2. CASE MemStructFromLoader
      BY <2>2 DEF MemStructFromLoader, fatVars
    <2>3. CASE UNCHANGED fatVars
      BY <2>3 DEF fatVars
    <2> QED
      BY <2>1, <2>2, <2>3 DEF Next, bootVars
  <1> QED
    BY <1>1, <1>2, PTL DEF Spec

\* Every behaviour of the booting machine is one of its memory map.
THEOREM BootHandsMapOver == Spec => MapSpec
  <1>1. Init => MapInit
    BY DEF Init
  <1>2. at7e00 \in 0 .. (TotSec - 1) /\ [Next]_bootVars => [MapNext]_mapVars
    <2> SUFFICES ASSUME at7e00 \in 0 .. (TotSec - 1), [Next]_bootVars
                 PROVE  [MapNext]_mapVars
      OBVIOUS
    <2>1. CASE MemStructFromLoader
      <3>1. RecordsIn[at7e00] \in Residues
        BY BootAssumption DEF BootAssumption
      <3> QED
        BY <2>1, <3>1 DEF MemStructFromLoader, MapNext
    <2>2. CASE MapSteps
      BY <2>2 DEF MapNext
    <2>3. CASE UNCHANGED mapVars
      BY <2>3
    <2> QED
      BY <2>1, <2>2, <2>3 DEF Next, bootVars
  <1> QED
    BY <1>1, <1>2, LastClusterOnDisk, PTL DEF Spec, MapSpec

\* So the kernel that was booted keeps the BIOS's map and finds a sane layout
\* wherever that map is sane.
THEOREM BootGivesSaneLayout == Spec => []LayoutIsSane /\ []MapHandedOver
  BY BootHandsMapOver, MapGivesSaneLayout, MapIsHandedOver, PTL

-----------------------------------------------------------------------------
(***************************************************************************)
(* The files on a sound disk.  File is the one being loaded; the first     *)
(* `at` of its clusters are in their places, and the cluster at hand is    *)
(* the next one, or before its FAT entry is read the last one loaded.      *)
(***************************************************************************)
File == disk.files[Wanted]

FatTypes ==
    /\ disk \in Disks
    /\ who \in {"boot", "loader"}
    /\ stage \in {"root", "load", "fat", "loaded", "lost"}
    /\ RootDirSizeForLoop \in 0 .. RootDirSectors
    /\ at \in Nat
    /\ DOMAIN segment = 0 .. SegmentClusters - 1
    /\ kernel \in Seq(Int)

\* The sectors of the directory left to search are its last ones, and the file is
\* in none of those before them.
Searching ==
    stage = "root" =>
        /\ SectorNo = FirstDataSector - RootDirSizeForLoop
        /\ \A s \in 1 .. RootDirSectors - RootDirSizeForLoop, n \in 1 .. EntriesPerSec :
              disk.root[s][n].name # Wanted

Following ==
    /\ stage = "load" => at + 1 \in DOMAIN File /\ cluster = File[at + 1]
    /\ stage = "fat" => at \in DOMAIN File /\ cluster = File[at]
    /\ stage = "loaded" => at = Len(File)

LoaderIn(count) ==
    \A k \in DOMAIN disk.files["LOADER"] :
        k <= count => segment[k - 1] = DataOf(disk.files["LOADER"])[k]
KernelIn(count) ==
    /\ Len(kernel) = count
    /\ \A k \in 1 .. count : kernel[k] = DataOf(disk.files["KERNEL"])[k]
InPlace ==
    /\ who = "boot" => kernel = <<>> /\ (stage # "root" => LoaderIn(at))
    /\ who = "loader" => /\ LoaderIn(Len(disk.files["LOADER"]))
                         /\ KernelIn(IF stage = "root" THEN 0 ELSE at)

OnCourse == stage # "lost" /\ Searching /\ Following /\ InPlace
CourseInv == FatTypes /\ (Sound(disk) => OnCourse)

\* The measures of the floppy are numbers.
LEMMA Measures ==
    /\ BytesPerSec \in Nat /\ BytesPerSec > 0
    /\ SecPerTrk \in Nat /\ SecPerTrk > 0
    /\ SegmentClusters \in Nat /\ SegmentClusters > 0
    /\ TotSec \in Nat /\ SectorNumOfFAT1Start \in Nat
    /\ SectorNumOfRootDirStart \in Nat /\ RootDirSectors \in Nat /\ EntriesPerSec \in Nat
    /\ MaxClusters \in Nat
<1>1. {BytesPerSec, SecPerTrk, SegmentClusters, MaxClusters} \subseteq Nat \ {0}
  BY GeometryAssumption, Zenon DEF GeometryAssumption
<1>2. {TotSec, SectorNumOfFAT1Start, SectorNumOfRootDirStart, RootDirSectors, EntriesPerSec}
          \subseteq Nat
  BY GeometryAssumption, Zenon DEF GeometryAssumption
<1> QED BY <1>1, <1>2

\* Division by a divisor that is not known.
LEMMA DivMod ==
    ASSUME NEW a \in Nat, NEW b \in Nat, b > 0
    PROVE  /\ a \div b \in Nat /\ a % b \in Nat /\ a % b < b
           /\ (a \div b) * b + (a % b) = a
<1>1. a \div b \in Int /\ a % b \in 0 .. b - 1
  OBVIOUS
<1>2. a = b * (a \div b) + (a % b)
  OBVIOUS
<1> DEFINE q == a \div b
           r == a % b
<1> HIDE DEF q, r
<1>3. q \in Int /\ r \in 0 .. b - 1 /\ a = b * q + r
  BY <1>1, <1>2 DEF q, r
<1>4. q >= 0
  <2>1. q <= -1 => b * q <= -b
    BY <1>3
  <2> QED BY <1>3, <2>1
<1>5. q \in Nat /\ r \in Nat /\ r < b /\ q * b + r = a
  BY <1>3, <1>4
<1> QED BY <1>5 DEF q, r

\* A sector's track, head and place on the track are of the sector.
LEMMA ReadIs ==
    ASSUME NEW s \in Nat
    PROVE  DriveSector(Chs(s)) = s
<1> DEFINE t == s \div SecPerTrk
           r == s % SecPerTrk
           h == t \div 2
           e == t % 2
<1>1. SecPerTrk \in Nat /\ SecPerTrk > 0
  BY Measures
<1>2. t \in Nat /\ r \in Nat /\ t * SecPerTrk + r = s
  BY <1>1, DivMod
<1>3. Chs(s) = [track |-> h, head |-> e, sector |-> r + 1]
  BY Zenon DEF Chs
<1> HIDE DEF t, r
<1>4. h \in Nat /\ e \in Nat /\ h * 2 + e = t
  BY <1>2, DivMod
<1> HIDE DEF h, e
<1>5. DriveSector(Chs(s)) = (h * 2 + e) * SecPerTrk + ((r + 1) - 1)
  BY <1>3 DEF DriveSector, Heads
<1>6. (r + 1) - 1 = r
  BY <1>2
<1> QED BY <1>2, <1>4, <1>5, <1>6

LEMMA EndIs == EndOfChain = 4095 /\ EndOfChain \in Nat
  BY DEF EndOfChain

\* Two entries in three bytes: the bytes of an entry's word give the entry.
LEMMA Packed ==
    ASSUME NEW even \in 0 .. EndOfChain, NEW odd \in 0 .. EndOfChain
    PROVE  /\ ((even % 256) + 256 * ((even \div 256) + 16 * (odd % 16))) % 4096 = even
           /\ ((((even \div 256) + 16 * (odd % 16)) + 256 * (odd \div 16)) \div 16) % 4096 = odd
<1> DEFINE lo == even % 256
           hi == even \div 256
           low == odd % 16
           high == odd \div 16
<1>1. even \in Nat /\ even <= 4095 /\ odd \in Nat /\ odd <= 4095
  BY EndIs
<1>2. lo \in Nat /\ lo <= 255 /\ hi \in Nat /\ hi <= 15 /\ 256 * hi + lo = even
  BY <1>1
<1>3. low \in Nat /\ low <= 15 /\ high \in Nat /\ 16 * high + low = odd
  BY <1>1
<1>4. odd % 4096 = odd /\ even % 4096 = even
  BY <1>1
<1> HIDE DEF lo, hi, low, high
<1>5. (lo + 256 * (hi + 16 * low)) % 4096 = even
  <2>1. lo + 256 * (hi + 16 * low) = even + 4096 * low
    BY <1>2, <1>3
  <2>2. (even + 4096 * low) % 4096 = even
    BY <1>1, <1>3
  <2> QED BY <2>1, <2>2
<1>6. ((hi + 16 * low) + 256 * high) \div 16 = odd
  <2>1. (hi + 16 * low) + 256 * high = hi + 16 * odd
    BY <1>2, <1>3
  <2>2. (hi + 16 * odd) \div 16 = odd
    BY <1>1, <1>2
  <2> QED BY <2>1, <2>2
<1> QED BY <1>4, <1>5, <1>6 DEF lo, hi, low, high

LEMMA DiskIs ==
    ASSUME NEW d \in Disks
    PROVE  /\ d.root \in [1 .. RootDirSectors -> [1 .. EntriesPerSec ->
                            [name : Names \cup {"other"}, cluster : Word]]]
           /\ DOMAIN d.fat \subseteq 0 .. EndOfChain
           /\ d.fat \in [DOMAIN d.fat -> 0 .. EndOfChain]
           /\ d.files \in [Names -> Seq(Nat)]
  BY DiskAssumption DEF DiskAssumption, IsFloppy

\* Three bytes from each even entry on hold it and the next.
LEMMA EntryAt ==
    ASSUME NEW n \in Nat
    PROVE  /\ EntryOffset(n) \in Nat
           /\ n % 2 = 0 => /\ (n * 3) % 2 = 0 /\ EntryOffset(n) % 3 = 0
                           /\ (EntryOffset(n) + 1) % 3 = 1
                           /\ 2 * (EntryOffset(n) \div 3) = n
                           /\ 2 * ((EntryOffset(n) + 1) \div 3) = n
           /\ n % 2 = 1 => /\ (n * 3) % 2 = 1 /\ EntryOffset(n) % 3 = 1
                           /\ (EntryOffset(n) + 1) % 3 = 2
                           /\ 2 * (EntryOffset(n) \div 3) + 1 = n
                           /\ 2 * ((EntryOffset(n) + 1) \div 3) + 1 = n
  BY DEF EntryOffset

\* The word Func_GetFATEntry takes out of the two sectors it reads.
LEMMA WordIs ==
    ASSUME NEW n \in Nat
    PROVE  LET offset == EntryOffset(n) % BytesPerSec
           IN  /\ BufferByte(n, offset) = FatByte(disk, EntryOffset(n))
               /\ BufferByte(n, offset + 1) = FatByte(disk, EntryOffset(n) + 1)
<1> DEFINE E == EntryOffset(n)
           q == E \div BytesPerSec
           r == E % BytesPerSec
<1>1. BytesPerSec \in Nat /\ BytesPerSec > 0 /\ SectorNumOfFAT1Start \in Nat
  BY Measures
<1>2. E \in Nat
  BY EntryAt
<1>3. FatSector(n) = SectorNumOfFAT1Start + q
  BY DEF FatSector
<1> HIDE DEF E
<1>4. q \in Nat /\ r \in Nat /\ r < BytesPerSec /\ q * BytesPerSec + r = E
  BY <1>1, <1>2, DivMod
<1> HIDE DEF q, r
<1>5. FatSector(n) - SectorNumOfFAT1Start = q
  BY <1>1, <1>3, <1>4
<1>6. r < SectorsRead * BytesPerSec /\ r + 1 < SectorsRead * BytesPerSec
  BY <1>1, <1>4 DEF SectorsRead
<1>7. q * BytesPerSec + (r + 1) = E + 1
  <2> DEFINE m == q * BytesPerSec
  <2>1. m \in Nat
    BY <1>1, <1>4
  <2>2. m + r = E
    BY <1>4
  <2> HIDE DEF m
  <2>3. m + (r + 1) = E + 1
    BY <1>4, <2>1, <2>2
  <2> QED BY <2>3 DEF m
<1>8. /\ BufferByte(n, r) = FatByte(disk, E)
      /\ BufferByte(n, r + 1) = FatByte(disk, E + 1)
  BY <1>4, <1>5, <1>6, <1>7 DEF BufferByte
<1> QED BY <1>8 DEF r, E

\* Func_GetFATEntry reads the entry, in one sector or across two.
LEMMA EntryIs ==
    ASSUME NEW n \in Nat, disk \in Disks
    PROVE  GetFATEntry(n) = FatEntry(disk, n) /\ FatEntry(disk, n) \in 0 .. EndOfChain
<1> DEFINE E == EntryOffset(n)
           even == FatEntry(disk, 2 * (E \div 3))
           odd == FatEntry(disk, 2 * (E \div 3) + 1)
           word == FatByte(disk, E) + 256 * FatByte(disk, E + 1)
<1>1. \A m : FatEntry(disk, m) \in 0 .. EndOfChain
  <2> TAKE m
  <2>1. disk.fat \in [DOMAIN disk.fat -> 0 .. EndOfChain]
    BY DiskIs, Zenon
  <2>2. 0 \in 0 .. EndOfChain
    BY EndIs
  <2> QED BY <2>1, <2>2 DEF FatEntry
<1>2. GetFATEntry(n) = IF (n * 3) % 2 = 1 THEN (word \div 16) % 4096 ELSE word % 4096
  BY WordIs DEF GetFATEntry
<1>3. even \in 0 .. EndOfChain /\ odd \in 0 .. EndOfChain
  BY <1>1
<1>4. CASE n % 2 = 0
  <2>1. FatByte(disk, E) = even % 256 /\ FatEntry(disk, n) = even
    BY <1>4, EntryAt DEF FatByte
  <2>2. FatByte(disk, E + 1) = (even \div 256) + 16 * (odd % 16)
    BY <1>4, EntryAt DEF FatByte
  <2>3. GetFATEntry(n) = ((even % 256) + 256 * ((even \div 256) + 16 * (odd % 16))) % 4096
    BY <1>2, <1>4, <2>1, <2>2, EntryAt
  <2> HIDE DEF even, odd
  <2>4. GetFATEntry(n) = even
    BY <1>3, <2>3, Packed
  <2> QED BY <1>1, <2>1, <2>4
<1>5. CASE n % 2 = 1
  <2>1. FatByte(disk, E) = (even \div 256) + 16 * (odd % 16) /\ FatEntry(disk, n) = odd
    BY <1>5, EntryAt DEF FatByte
  <2>2. FatByte(disk, E + 1) = odd \div 16
    BY <1>5, EntryAt DEF FatByte
  <2>3. GetFATEntry(n)
          = ((((even \div 256) + 16 * (odd % 16)) + 256 * (odd \div 16)) \div 16) % 4096
    BY <1>2, <1>5, <2>1, <2>2, EntryAt
  <2> HIDE DEF even, odd
  <2>4. GetFATEntry(n) = odd
    BY <1>3, <2>3, Packed
  <2> QED BY <1>1, <2>1, <2>4
<1> QED BY <1>4, <1>5

\* Sectors in front of the data can be read on a sound disk.
LEMMA FrontIsRead ==
    ASSUME NEW s \in Nat, s < FirstDataSector, Sound(disk)
    PROVE  Reads(s)
<1>1. s \in 0 .. FirstDataSector - 1
  BY Measures DEF FirstDataSector
<1>2. s \notin disk.bad
  <2>1. disk.bad \cap (0 .. (FirstDataSector - 1)) = {}
    BY DEF Sound
  <2> QED BY <1>1, <2>1
<1>3. FirstDataSector <= TotSec
  BY GeometryAssumption, Zenon DEF GeometryAssumption
<1>4. s \in 0 .. TotSec - 1
  BY <1>1, <1>3, Measures DEF FirstDataSector
<1> QED BY <1>2, <1>4, ReadIs DEF Reads

\* Division keeps the order.
LEMMA DivOrder ==
    ASSUME NEW a \in Nat, NEW c \in Nat, a <= c, NEW b \in Nat, b > 0
    PROVE  a \div b <= c \div b
<1> DEFINE p == a \div b
           q == c \div b
           r == c % b
           d == p - q
<1>1. /\ p \in Nat /\ q \in Nat /\ r \in Nat /\ r < b
      /\ p * b <= a /\ q * b + r = c
  BY DivMod
<1> HIDE DEF p, q, r
<1>2. d * b = p * b - q * b
  BY <1>1
<1>3. p * b \in Nat /\ q * b \in Nat
  BY <1>1
<1>4. d * b < b
  BY <1>1, <1>2, <1>3
<1>5. d \in Int
  BY <1>1
<1>6. ~(d >= 1)
  <2> HIDE DEF d
  <2>1. d >= 1 => d * b >= b
    BY <1>5
  <2> QED BY <1>4, <1>5, <2>1
<1>7. p <= q
  BY <1>1, <1>6
<1> QED BY <1>7 DEF p, q

\* The entry of a cluster of a file lies in sectors that can be read.
LEMMA EntriesAreRead ==
    ASSUME NEW n \in Nat, n <= EndOfChain, Sound(disk), NEW s \in FatSectors(n)
    PROVE  Reads(s)
<1>1. EntryOffset(n) \in Nat /\ EntryOffset(EndOfChain) \in Nat
      /\ EntryOffset(n) <= EntryOffset(EndOfChain)
  BY EndIs DEF EntryOffset
<1> DEFINE p == EntryOffset(n) \div BytesPerSec
           q == EntryOffset(EndOfChain) \div BytesPerSec
<1>2. p \in Nat /\ q \in Nat /\ p <= q
  BY <1>1, DivMod, DivOrder, Measures
<1>3. FatSector(n) = SectorNumOfFAT1Start + p /\ FatSector(EndOfChain) = SectorNumOfFAT1Start + q
  BY DEF FatSector
<1>4. FatSector(EndOfChain) + SectorsRead <= SectorNumOfRootDirStart
  BY GeometryAssumption, Zenon DEF GeometryAssumption
<1> HIDE DEF p, q
<1>5. s \in Nat /\ s < FirstDataSector
  BY <1>2, <1>3, <1>4, Measures DEF FatSectors, SectorsRead, FirstDataSector
<1> QED BY <1>5, FrontIsRead

\* A file of a sound disk: its clusters are followed by its entries, and each is
\* read from where it was written.
Followed(chain, k) ==
    /\ chain[k] \in Nat /\ chain[k] < EndOfChain
    /\ GetFATEntry(chain[k]) = IF k = Len(chain) THEN EndOfChain ELSE chain[k + 1]
    /\ Reads(SectorOf(chain[k]))
    /\ DriveSector(Chs(SectorOf(chain[k]))) = DataOf(chain)[k]
    /\ DataOf(chain)[k] \in Nat

LEMMA FileIs ==
    ASSUME disk \in Disks, Sound(disk), NEW name \in Names
    PROVE  /\ disk.files[name] \in Seq(Nat) /\ Len(disk.files[name]) > 0
           /\ Len(disk.files[name]) <= MaxClusters
           /\ \A k \in 1 .. Len(disk.files[name]) : Followed(disk.files[name], k)
<1> DEFINE chain == disk.files[name]
<1>1. chain \in Seq(Nat)
  BY DiskIs
<1>2. Stores(disk, name, chain) /\ Len(chain) <= MaxClusters
  BY DEF Sound
<1> HIDE DEF chain
<1>3. chain # <<>> /\ Len(chain) \in Nat /\ DOMAIN chain = 1 .. Len(chain)
  BY <1>1, <1>2, LenProperties DEF Stores
<1>4. Len(chain) > 0
  BY <1>1, <1>3, EmptySeq
<1>5. ASSUME NEW k \in 1 .. Len(chain)
      PROVE  Followed(chain, k)
  <2>1. k \in DOMAIN chain /\ chain[k] \in Nat
    BY <1>1, <1>3
  <2>2. DataOf(chain)[k] = FirstDataSector + chain[k] - 2
    BY <2>1 DEF DataOf
  <2>3. DataOf(chain)[k] \in (0 .. (TotSec - 1)) \ disk.bad
    BY <1>2, <2>1 DEF Stores
  <2>4. SectorBalance = SectorNumOfRootDirStart - 2 /\ TotSec <= FirstDataSector + EndOfChain - 2
    BY GeometryAssumption, Zenon DEF GeometryAssumption
  <2>5. DataOf(chain)[k] \in Nat /\ SectorOf(chain[k]) = DataOf(chain)[k]
    BY <2>1, <2>2, <2>3, <2>4, Measures DEF SectorOf, FirstDataSector
  <2>6. chain[k] < EndOfChain
    BY <2>1, <2>2, <2>3, <2>4, Measures, EndIs DEF FirstDataSector
  <2>7. DriveSector(Chs(SectorOf(chain[k]))) = DataOf(chain)[k]
    BY <2>5, ReadIs
  <2>8. Reads(SectorOf(chain[k]))
    BY <2>3, <2>7 DEF Reads
  <2>9. chain[k] \in DOMAIN disk.fat
        /\ disk.fat[chain[k]] = IF k = Len(chain) THEN EndOfChain ELSE chain[k + 1]
    BY <1>2, <2>1 DEF Stores
  <2>10. GetFATEntry(chain[k]) = disk.fat[chain[k]]
    BY <2>1, <2>9, EntryIs DEF FatEntry
  <2> QED BY <2>1, <2>5, <2>6, <2>7, <2>8, <2>9, <2>10 DEF Followed
<1> QED BY <1>1, <1>2, <1>4, <1>5 DEF chain

\* A search that has not found the file has a sector left to search, which can be
\* read, and where a file's name stands its first cluster does.
LEMMA SearchIs ==
    ASSUME FatTypes, Sound(disk), Searching, stage = "root"
    PROVE  /\ RootDirSizeForLoop \in Nat /\ RootDirSizeForLoop > 0
           /\ Reads(SectorNo)
           /\ RootSector(SectorNo) = disk.root[RootDirSectors - RootDirSizeForLoop + 1]
           /\ RootDirSectors - RootDirSizeForLoop + 1 \in 1 .. RootDirSectors
           /\ \A n \in Found(SectorNo) : RootSector(SectorNo)[n].cluster = File[1]
<1> DEFINE r == RootDirSizeForLoop
           t == RootDirSectors - r + 1
<1>1. r \in 0 .. RootDirSectors /\ RootDirSectors \in Nat /\ SectorNumOfRootDirStart \in Nat
  BY Measures DEF FatTypes
<1>2. disk \in Disks /\ DOMAIN disk.root = 1 .. RootDirSectors /\ Wanted \in Names
  <2>1. disk \in Disks /\ Wanted \in Names
    BY DEF FatTypes, Wanted, Names
  <2> QED BY <2>1, DiskIs
<1>3. Stores(disk, Wanted, File)
  BY <1>2 DEF Sound, File
<1>4. \A s \in 1 .. RootDirSectors - r, n \in 1 .. EntriesPerSec : disk.root[s][n].name # Wanted
  BY DEF Searching
<1>5. PICK s \in 1 .. RootDirSectors, n \in 1 .. EntriesPerSec : disk.root[s][n].name = Wanted
  BY <1>2, <1>3 DEF Stores
<1>6. r > 0
  <2> SUFFICES ASSUME r = 0 PROVE FALSE
    BY <1>1
  <2>1. s \in 1 .. RootDirSectors - r
    BY <1>1
  <2> QED BY <1>4, <1>5, <2>1
<1>7. SectorNo = FirstDataSector - r
  BY DEF Searching
<1>8. SectorNo \in Nat /\ SectorNo < FirstDataSector
      /\ SectorNo - SectorNumOfRootDirStart + 1 = t /\ t \in 1 .. RootDirSectors
  BY <1>1, <1>6, <1>7 DEF FirstDataSector
<1>9. Reads(SectorNo)
  BY <1>8, FrontIsRead
<1>10. RootSector(SectorNo) = disk.root[t]
  <2>1. DriveSector(Chs(SectorNo)) = SectorNo
    BY <1>8, ReadIs
  <2> QED BY <1>8, <2>1 DEF RootSector
<1> HIDE DEF t
<1>11. ASSUME NEW m \in Found(SectorNo)
       PROVE  RootSector(SectorNo)[m].cluster = File[1]
  <2>1. m \in 1 .. EntriesPerSec /\ disk.root[t][m].name = Wanted
    BY <1>10, <1>11 DEF Found
  <2>2. disk.root[t][m].cluster = File[1]
    BY <1>2, <1>3, <1>8, <2>1 DEF Stores
  <2> QED BY <1>10, <2>2
<1> QED BY <1>1, <1>6, <1>8, <1>9, <1>10, <1>11 DEF t

LEMMA NotInRootCourse == CourseInv /\ NotInRoot => CourseInv'
<1> SUFFICES ASSUME CourseInv, NotInRoot PROVE CourseInv'
  OBVIOUS
<1>1. ~Sound(disk)
  <2> SUFFICES ASSUME Sound(disk) PROVE FALSE
    OBVIOUS
  <2>1. RootDirSizeForLoop > 0
    BY SearchIs DEF CourseInv, OnCourse, NotInRoot
  <2> QED BY <2>1 DEF NotInRoot
<1>2. ~Sound(disk)'
  <2>1. disk' = disk
    BY DEF NotInRoot
  <2>2. Sound(disk)' = Sound(disk)
    BY <2>1 DEF Sound, Stores, DataOf
  <2> QED BY <1>1, <2>2
<1>3. FatTypes'
  BY DEF CourseInv, FatTypes, NotInRoot
<1> QED BY <1>2, <1>3 DEF CourseInv

LEMMA SearchCourse == CourseInv /\ SearchSector => CourseInv'
<1> SUFFICES ASSUME CourseInv, SearchSector PROVE CourseInv'
  OBVIOUS
<1>1. /\ FatTypes /\ stage = "root" /\ RootDirSizeForLoop # 0
      /\ RootDirSizeForLoop' = RootDirSizeForLoop - 1
      /\ UNCHANGED <<disk, who, segment, kernel>>
  BY DEF CourseInv, SearchSector
<1>2. FatTypes'
  <2>1. RootDirSizeForLoop' \in 0 .. RootDirSectors
    BY <1>1, Measures DEF FatTypes
  <2>2. stage' \in {"root", "load"} /\ at' \in Nat
    BY <1>1 DEF FatTypes, SearchSector
  <2> QED BY <1>1, <2>1, <2>2 DEF FatTypes
<1>3. Sound(disk)' = Sound(disk) /\ Wanted' = Wanted /\ File' = File
  BY <1>1 DEF Sound, Stores, DataOf, Wanted, File
<1>4. ASSUME Sound(disk)
      PROVE  OnCourse'
  <2>1. Searching /\ InPlace
    BY <1>4 DEF CourseInv, OnCourse
  <2> DEFINE t == RootDirSectors - RootDirSizeForLoop + 1
  <2>2. /\ RootDirSizeForLoop \in Nat /\ t \in 1 .. RootDirSectors
        /\ RootSector(SectorNo) = disk.root[t]
        /\ \A n \in Found(SectorNo) : RootSector(SectorNo)[n].cluster = File[1]
    BY <1>1, <1>4, <2>1, SearchIs
  <2>3. CASE Found(SectorNo) = {}
    <3>1. SectorNo' = SectorNo + 1 /\ stage' = "root" /\ at' = at
      BY <1>1, <2>3 DEF SearchSector
    <3>2. SectorNo' = FirstDataSector - RootDirSizeForLoop'
      BY <1>1, <2>1, <2>2, <3>1, Measures DEF Searching, FirstDataSector
    <3>3. ASSUME NEW s \in 1 .. RootDirSectors - RootDirSizeForLoop', NEW n \in 1 .. EntriesPerSec
          PROVE  disk.root[s][n].name # Wanted
      <4>1. CASE s = t
        BY <2>2, <2>3, <4>1 DEF Found
      <4>2. CASE s # t
        <5>1. s \in 1 .. RootDirSectors - RootDirSizeForLoop
          BY <1>1, <2>2, <4>2, Measures
        <5> QED BY <1>1, <2>1, <5>1 DEF Searching
      <4> QED BY <4>1, <4>2
    <3>4. Searching'
      BY <1>1, <1>3, <3>2, <3>3 DEF Searching
    <3>5. Following'
      BY <3>1 DEF Following
    <3>6. InPlace'
      BY <1>1, <2>1, <3>1 DEF InPlace, LoaderIn, KernelIn, DataOf
    <3> QED BY <3>1, <3>4, <3>5, <3>6 DEF OnCourse
  <2>4. CASE Found(SectorNo) # {}
    <3>1. PICK n \in Found(SectorNo) :
            cluster' = RootSector(SectorNo)[n].cluster /\ stage' = "load" /\ at' = 0
      BY <2>4 DEF SearchSector
    <3>2. cluster' = File[1]
      BY <2>2, <3>1
    <3>3. File \in Seq(Nat) /\ Len(File) > 0
      <4>1. disk \in Disks /\ Wanted \in Names
        BY <1>1 DEF FatTypes, Wanted, Names
      <4> QED BY <1>4, <4>1, FileIs DEF File
    <3>4. 0 + 1 \in DOMAIN File /\ 0 + 1 = 1
      BY <3>3, LenProperties
    <3>5. Following'
      BY <1>3, <3>1, <3>2, <3>4 DEF Following
    <3>6. LoaderIn(0)
      <4>1. DOMAIN disk.files["LOADER"] \subseteq Nat \ {0}
        BY <1>1, <1>4, FileIs, LenProperties DEF FatTypes, Names
      <4> QED BY <4>1 DEF LoaderIn
    <3>7. InPlace'
      BY <1>1, <2>1, <3>1, <3>6 DEF InPlace, LoaderIn, KernelIn, DataOf
    <3> QED BY <3>1, <3>5, <3>7 DEF OnCourse, Searching
  <2> QED BY <2>3, <2>4
<1> QED BY <1>2, <1>3, <1>4 DEF CourseInv

LEMMA LoadCourse == CourseInv /\ LoadCluster => CourseInv'
<1> SUFFICES ASSUME CourseInv, LoadCluster PROVE CourseInv'
  OBVIOUS
<1> DEFINE data == DriveSector(Chs(SectorOf(cluster)))
<1>1. /\ FatTypes /\ stage = "load" /\ stage' = "fat" /\ at' = at + 1
      /\ Reads(SectorOf(cluster))
      /\ UNCHANGED <<disk, who, cluster, RootDirSizeForLoop>>
  BY DEF CourseInv, LoadCluster
<1>2. /\ who = "boot" => /\ segment' = [segment EXCEPT ![at % SegmentClusters] = data]
                         /\ kernel' = kernel
      /\ who = "loader" => kernel' = Append(kernel, data) /\ segment' = segment
  BY DEF LoadCluster
<1>3. data \in Int
  BY <1>1 DEF Reads
<1> HIDE DEF data
<1>4. FatTypes'
  <2>1. DOMAIN segment' = 0 .. SegmentClusters - 1
    BY <1>1, <1>2 DEF FatTypes
  <2>2. kernel' \in Seq(Int)
    <3>1. kernel \in Seq(Int) /\ who \in {"boot", "loader"}
      BY <1>1 DEF FatTypes
    <3> QED BY <1>2, <1>3, <3>1, AppendProperties
  <2> QED BY <1>1, <2>1, <2>2 DEF FatTypes
<1>5. Sound(disk)' = Sound(disk) /\ Wanted' = Wanted /\ File' = File
  BY <1>1 DEF Sound, Stores, DataOf, Wanted, File
<1>6. ASSUME Sound(disk)
      PROVE  OnCourse'
  <2>1. /\ disk \in Disks /\ who \in {"boot", "loader"} /\ Wanted \in Names /\ at \in Nat
        /\ kernel \in Seq(Int)
    BY <1>1 DEF FatTypes, Wanted, Names
  <2>2. Following /\ InPlace
    BY <1>6 DEF CourseInv, OnCourse
  <2>3. File \in Seq(Nat) /\ DOMAIN File = 1 .. Len(File) /\ Len(File) \in Nat
        /\ \A k \in 1 .. Len(File) : Followed(File, k)
    BY <1>6, <2>1, FileIs, LenProperties DEF File
  <2>4. at + 1 \in 1 .. Len(File) /\ cluster = File[at + 1]
    BY <1>1, <2>2, <2>3 DEF Following
  <2>5. data = DataOf(File)[at + 1]
    BY <2>3, <2>4 DEF Followed, data
  <2>6. Following'
    BY <1>1, <1>5, <2>1, <2>3, <2>4 DEF Following
  <2>7. CASE who = "boot"
    <3>1. File = disk.files["LOADER"] /\ Len(File) <= SegmentClusters
      BY <1>6, <2>7 DEF File, Wanted, Sound
    <3>2. at < SegmentClusters /\ at % SegmentClusters = at /\ at \in 0 .. SegmentClusters - 1
      <4>1. at < SegmentClusters /\ at \in Int /\ SegmentClusters \in Nat /\ SegmentClusters > 0
        BY <2>1, <2>3, <2>4, <3>1, Measures
      <4>2. \A x \in Int : 0 <= x /\ x < SegmentClusters => x % SegmentClusters = x
        BY <4>1
      <4> QED BY <2>1, <4>1, <4>2
    <3>3. segment' = [segment EXCEPT ![at] = data] /\ DOMAIN segment = 0 .. SegmentClusters - 1
      BY <1>1, <1>2, <2>7, <3>2 DEF FatTypes
    <3>4. LoaderIn(at)
      BY <1>1, <2>2, <2>7 DEF InPlace
    <3>5. ASSUME NEW k \in DOMAIN File, k <= at + 1
          PROVE  segment'[k - 1] = DataOf(File)[k]
      <4>1. k \in 1 .. Len(File) /\ k - 1 \in 0 .. SegmentClusters - 1
        BY <2>3, <3>1, Measures
      <4>2. CASE k = at + 1
        BY <2>1, <2>5, <3>2, <3>3, <4>2
      <4>3. CASE k <= at
        <5>1. segment[k - 1] = DataOf(File)[k]
          BY <3>1, <3>4, <4>3 DEF LoaderIn
        <5>2. k - 1 # at
          BY <2>1, <4>1, <4>3
        <5> QED BY <3>3, <4>1, <5>1, <5>2
      <4> QED BY <2>1, <3>5, <4>1, <4>2, <4>3
    <3>6. LoaderIn(at)'
      <4>1. DataOf(disk.files["LOADER"])' = DataOf(File)
        BY <1>1, <3>1 DEF DataOf
      <4> QED BY <1>1, <3>1, <3>5, <4>1 DEF LoaderIn
    <3>7. kernel' = <<>>
      BY <1>2, <2>2, <2>7 DEF InPlace
    <3>8. InPlace'
      BY <1>1, <2>7, <3>6, <3>7 DEF InPlace
    <3> QED BY <1>1, <2>6, <3>8 DEF OnCourse, Searching
  <2>8. CASE who = "loader"
    <3>1. File = disk.files["KERNEL"]
      BY <2>8 DEF File, Wanted
    <3>2. KernelIn(at) /\ LoaderIn(Len(disk.files["LOADER"]))
      BY <1>1, <2>2, <2>8 DEF InPlace
    <3>3. kernel' = Append(kernel, data) /\ segment' = segment
      BY <1>2, <2>8
    <3>4. /\ Len(kernel') = at + 1 /\ kernel'[at + 1] = data
          /\ \A k \in 1 .. at : kernel'[k] = kernel[k]
      BY <1>3, <2>1, <3>2, <3>3, AppendProperties DEF KernelIn
    <3>5. \A k \in 1 .. at + 1 : kernel'[k] = DataOf(File)[k]
      <4> TAKE k \in 1 .. at + 1
      <4>1. CASE k = at + 1
        BY <2>5, <3>4, <4>1
      <4>2. CASE k # at + 1
        <5>1. k \in 1 .. at
          BY <2>1, <4>2
        <5> QED BY <3>1, <3>2, <3>4, <5>1 DEF KernelIn
      <4> QED BY <4>1, <4>2
    <3>6. KernelIn(at)'
      <4>1. DataOf(disk.files["KERNEL"])' = DataOf(File)
        BY <1>1, <3>1 DEF DataOf
      <4> QED BY <1>1, <3>4, <3>5, <4>1 DEF KernelIn
    <3>7. LoaderIn(Len(disk.files["LOADER"]))'
      BY <1>1, <3>2, <3>3 DEF LoaderIn, DataOf
    <3>8. InPlace'
      BY <1>1, <2>8, <3>6, <3>7 DEF InPlace, KernelIn
    <3> QED BY <1>1, <2>6, <3>8 DEF OnCourse, Searching
  <2> QED BY <2>1, <2>7, <2>8
<1> QED BY <1>4, <1>5, <1>6 DEF CourseInv

LEMMA NextClusterCourse == CourseInv /\ NextCluster => CourseInv'
<1> SUFFICES ASSUME CourseInv, NextCluster PROVE CourseInv'
  OBVIOUS
<1>1. /\ FatTypes /\ stage = "fat"
      /\ UNCHANGED <<disk, who, at, segment, kernel, RootDirSizeForLoop>>
  BY DEF CourseInv, NextCluster
<1>2. \/ GetFATEntry(cluster) = EndOfChain /\ stage' = "loaded"
      \/ /\ GetFATEntry(cluster) # EndOfChain /\ stage' = "load"
         /\ cluster' = GetFATEntry(cluster)
  BY DEF NextCluster
<1>3. FatTypes'
  BY <1>1, <1>2 DEF FatTypes
<1>4. Sound(disk)' = Sound(disk) /\ Wanted' = Wanted /\ File' = File
  BY <1>1 DEF Sound, Stores, DataOf, Wanted, File
<1>5. ASSUME Sound(disk)
      PROVE  OnCourse'
  <2>1. disk \in Disks /\ Wanted \in Names /\ at \in Nat
    BY <1>1 DEF FatTypes, Wanted, Names
  <2>2. Following /\ InPlace
    BY <1>5 DEF CourseInv, OnCourse
  <2>3. File \in Seq(Nat) /\ DOMAIN File = 1 .. Len(File) /\ Len(File) \in Nat
        /\ \A k \in 1 .. Len(File) : Followed(File, k)
    BY <1>5, <2>1, FileIs, LenProperties DEF File
  <2>4. at \in 1 .. Len(File) /\ Len(File) \in Nat /\ cluster = File[at]
    BY <1>1, <2>2, <2>3 DEF Following
  <2>5. GetFATEntry(cluster) = IF at = Len(File) THEN EndOfChain ELSE File[at + 1]
    BY <2>3, <2>4 DEF Followed
  <2>6. at # Len(File) => at + 1 \in 1 .. Len(File) /\ File[at + 1] # EndOfChain
    <3> SUFFICES ASSUME at # Len(File)
                 PROVE  at + 1 \in 1 .. Len(File) /\ File[at + 1] # EndOfChain
      OBVIOUS
    <3>1. at + 1 \in 1 .. Len(File)
      BY <2>1, <2>4
    <3>2. File[at + 1] \in Nat /\ File[at + 1] < EndOfChain
      BY <2>3, <3>1 DEF Followed
    <3> QED BY <3>1, <3>2
  <2>7. Following'
    <3>1. CASE at = Len(File)
      BY <1>1, <1>2, <1>4, <2>5, <3>1 DEF Following
    <3>2. CASE at # Len(File)
      BY <1>1, <1>2, <1>4, <2>3, <2>5, <2>6, <3>2 DEF Following
    <3> QED BY <3>1, <3>2
  <2>8. stage' # "root" /\ stage' # "lost"
    BY <1>2
  <2>9. InPlace'
    BY <1>1, <2>2, <2>8 DEF InPlace, LoaderIn, KernelIn, DataOf
  <2> QED BY <2>7, <2>8, <2>9 DEF OnCourse, Searching
<1> QED BY <1>3, <1>4, <1>5 DEF CourseInv

LEMMA StartCourse == CourseInv /\ StartLoader => CourseInv'
<1> SUFFICES ASSUME CourseInv, StartLoader PROVE CourseInv'
  OBVIOUS
<1>1. /\ FatTypes /\ who = "boot" /\ stage = "loaded"
      /\ UNCHANGED <<disk, cluster, at, segment, at7e00, kernel>>
  BY DEF CourseInv, StartLoader
<1>2. \/ /\ at > SegmentClusters /\ stage' = "lost"
         /\ UNCHANGED <<who, SectorNo, RootDirSizeForLoop>>
      \/ /\ ~(at > SegmentClusters) /\ who' = "loader" /\ stage' = "root"
         /\ SectorNo' = SectorNumOfRootDirStart /\ RootDirSizeForLoop' = RootDirSectors
  BY DEF StartLoader
<1>3. FatTypes'
  BY <1>1, <1>2, Measures DEF FatTypes
<1>4. Sound(disk)' = Sound(disk)
  BY <1>1 DEF Sound, Stores, DataOf
<1>5. ASSUME Sound(disk)
      PROVE  OnCourse'
  <2>1. disk \in Disks /\ at \in Nat /\ "LOADER" \in Names
    BY <1>1 DEF FatTypes, Names
  <2>2. Following /\ InPlace
    BY <1>5 DEF CourseInv, OnCourse
  <2>3. File = disk.files["LOADER"] /\ Len(File) <= SegmentClusters
    BY <1>1, <1>5 DEF File, Wanted, Sound
  <2>4. at = Len(File)
    BY <1>1, <2>2 DEF Following
  <2>5. who' = "loader" /\ stage' = "root"
        /\ SectorNo' = SectorNumOfRootDirStart /\ RootDirSizeForLoop' = RootDirSectors
    BY <1>2, <2>1, <2>3, <2>4, Measures
  <2>6. Searching'
    BY <2>5, Measures DEF Searching, FirstDataSector
  <2>7. Following'
    BY <2>5 DEF Following
  <2>8. LoaderIn(Len(disk.files["LOADER"])) /\ kernel = <<>>
    BY <1>1, <2>2, <2>3, <2>4 DEF InPlace
  <2>9. LoaderIn(Len(disk.files["LOADER"]))'
    BY <1>1, <2>8 DEF LoaderIn, DataOf
  <2>10. KernelIn(0)'
    BY <1>1, <2>8 DEF KernelIn
  <2>11. InPlace'
    BY <2>5, <2>9, <2>10 DEF InPlace, LoaderIn, KernelIn
  <2> QED BY <2>5, <2>6, <2>7, <2>11 DEF OnCourse
<1> QED BY <1>3, <1>4, <1>5 DEF CourseInv

LEMMA CourseInitially == Init => CourseInv
<1> SUFFICES ASSUME Init PROVE CourseInv
  OBVIOUS
<1>1. /\ disk \in Disks /\ who = "boot" /\ stage = "root" /\ at = 0 /\ kernel = <<>>
      /\ SectorNo = SectorNumOfRootDirStart /\ RootDirSizeForLoop = RootDirSectors
      /\ DOMAIN segment = 0 .. SegmentClusters - 1
  BY DEF Init, FatInit
<1>2. FatTypes
  BY <1>1, Measures, EmptySeq DEF FatTypes
<1>3. OnCourse
  <2>1. Searching
    BY <1>1, Measures DEF Searching, FirstDataSector
  <2>2. Following /\ InPlace
    BY <1>1 DEF Following, InPlace
  <2> QED BY <1>1, <2>1, <2>2 DEF OnCourse
<1> QED BY <1>2, <1>3 DEF CourseInv

LEMMA CourseStep == CourseInv /\ [Next]_bootVars => CourseInv'
<1> SUFFICES ASSUME CourseInv, [Next]_bootVars PROVE CourseInv'
  OBVIOUS
<1>1. CASE UNCHANGED fatVars
  <2>1. UNCHANGED <<disk, who, stage, SectorNo, RootDirSizeForLoop, cluster, at, segment, kernel>>
    BY <1>1 DEF fatVars
  <2>2. Sound(disk)' = Sound(disk) /\ FatTypes' = FatTypes
    BY <2>1 DEF Sound, Stores, DataOf, FatTypes
  <2>3. OnCourse' = OnCourse
    BY <2>1 DEF OnCourse, Searching, Following, InPlace, LoaderIn, KernelIn, DataOf, File, Wanted
  <2> QED BY <2>2, <2>3 DEF CourseInv
<1>2. CASE FatNext
  BY <1>2, NotInRootCourse, SearchCourse, LoadCourse, NextClusterCourse, StartCourse DEF FatNext
<1> QED BY <1>1, <1>2 DEF Next, MemStructFromLoader, bootVars

LEMMA CourseIsRight == CourseInv => NeverAstray
<1> SUFFICES ASSUME FatTypes, OnCourse, Sound(disk)
             PROVE  /\ stage # "lost"
                    /\ stage = "root" => RootDirSizeForLoop # 0 /\ Reads(SectorNo)
                    /\ stage = "load" => Reads(SectorOf(cluster))
                    /\ stage = "fat" => /\ \A s \in FatSectors(cluster) : Reads(s)
                                        /\ GetFATEntry(cluster) = EndOfChain \/ at < MaxClusters
                    /\ who = "loader" /\ stage = "loaded" => Loaded
  BY DEF CourseInv, NeverAstray
<1>1. /\ disk \in Disks /\ Wanted \in Names /\ at \in Nat /\ kernel \in Seq(Int)
  BY DEF FatTypes, Wanted, Names
<1>2. Searching /\ Following /\ InPlace /\ stage # "lost"
  BY DEF OnCourse
<1>3. /\ File \in Seq(Nat) /\ DOMAIN File = 1 .. Len(File) /\ Len(File) \in Nat
      /\ Len(File) <= MaxClusters
      /\ \A k \in 1 .. Len(File) : Followed(File, k)
  BY <1>1, FileIs, LenProperties DEF File
<1>4. ASSUME stage = "root"
      PROVE  RootDirSizeForLoop # 0 /\ Reads(SectorNo)
  BY <1>2, <1>4, SearchIs
<1>5. ASSUME stage = "load"
      PROVE  Reads(SectorOf(cluster))
  BY <1>2, <1>3, <1>5 DEF Following, Followed
<1>6. ASSUME stage = "fat"
      PROVE  /\ \A s \in FatSectors(cluster) : Reads(s)
             /\ GetFATEntry(cluster) = EndOfChain \/ at < MaxClusters
  <2>1. at \in 1 .. Len(File) /\ cluster = File[at]
    BY <1>2, <1>3, <1>6 DEF Following
  <2>2. Followed(File, at)
    BY <1>3, <2>1
  <2>3. cluster \in Nat /\ cluster <= EndOfChain
    BY <2>1, <2>2, EndIs DEF Followed
  <2>4. \A s \in FatSectors(cluster) : Reads(s)
    BY <2>3, EntriesAreRead
  <2>5. at = Len(File) => GetFATEntry(cluster) = EndOfChain
    BY <2>1, <2>2 DEF Followed
  <2>6. at # Len(File) => at < MaxClusters
    <3>1. at \in Nat /\ at <= Len(File) /\ Len(File) \in Nat /\ Len(File) <= MaxClusters
      BY <1>3, <2>1
    <3> QED BY <3>1, Measures
  <2> QED BY <2>4, <2>5, <2>6
<1>7. ASSUME who = "loader", stage = "loaded"
      PROVE  Loaded
  <2>1. File = disk.files["KERNEL"] /\ at = Len(File)
    BY <1>2, <1>7 DEF File, Wanted, Following
  <2>2. LoaderIn(Len(disk.files["LOADER"])) /\ KernelIn(Len(File))
    BY <1>2, <1>7, <2>1 DEF InPlace
  <2>3. disk.files["LOADER"] \in Seq(Nat)
    BY <1>1, DiskIs DEF Names
  <2>4. \A k \in DOMAIN disk.files["LOADER"] : k <= Len(disk.files["LOADER"])
    BY <2>3, LenProperties
  <2>5. \A k \in DOMAIN disk.files["LOADER"] :
          segment[k - 1] = DataOf(disk.files["LOADER"])[k]
    BY <2>2, <2>4 DEF LoaderIn
  <2>6. kernel = DataOf(disk.files["KERNEL"])
    <3> DEFINE data == DataOf(File)
    <3>1. data = [k \in 1 .. Len(File) |-> data[k]]
      BY <1>3 DEF DataOf
    <3>2. kernel = [k \in 1 .. Len(kernel) |-> kernel[k]]
      BY <1>1
    <3>3. Len(kernel) = Len(File) /\ \A k \in 1 .. Len(File) : kernel[k] = data[k]
      BY <2>1, <2>2 DEF KernelIn
    <3> HIDE DEF data
    <3>4. kernel = data
      BY <3>1, <3>2, <3>3
    <3> QED BY <2>1, <3>4 DEF data
  <2> QED BY <1>7, <2>5, <2>6 DEF Loaded
<1> QED BY <1>2, <1>4, <1>5, <1>6, <1>7

\* From every floppy with sound files, of any geometry that fits what the code
\* takes for granted, with files anywhere on it, the search of the directory never
\* fails, every sector asked for can be read, each FAT entry is put together right
\* whether or not it straddles two sectors, and what runs is LOADER.BIN, which moves
\* KERNEL.BIN to 1 MB in order (boot.asm:48-222, loader.asm:118-255).
THEOREM FilesFollowed == Spec => []NeverAstray
<1>1. Init => CourseInv
  BY CourseInitially
<1>2. CourseInv /\ [Next]_bootVars => CourseInv'
  BY CourseStep
<1>3. CourseInv => NeverAstray
  BY CourseIsRight
<1> QED BY <1>1, <1>2, <1>3, PTL DEF Spec

=============================================================================
