---------------------------- MODULE PageAllocator ----------------------------
(***************************************************************************)
(* cOS/kernel/src/memory.c: the 2 MB page allocator.                       *)
(*                                                                         *)
(* A page is known by its number (phy_addr >> PAGE_2M_SHIFT).  bits_map is *)
(* the set of the numbers whose bit is set; an attribute is the set of its *)
(* PG_ flags, so attribute 0 is {}; zones_struct + i is zone i+1 here, so  *)
(* that 0 can stand for a NULL zone_struct.  The counters are uint64 in    *)
(* the code: below zero they are written with their signed representative. *)
(***************************************************************************)
EXTENDS MemoryLayout, FiniteSets, FiniteSetsExt

CONSTANTS
    W,          \* bits in a word of bits_map: 64
    FourG,      \* the page number of 0x100000000: 2048
    Layouts,    \* the memories init_memory may find, see LayoutAssumption
    FlagSets,   \* the page_flags callers pass
    MaxRef      \* bound on a page's reference count

Sharing == {"PG_Referenced", "PG_K_Share_To_U"}
KernelFlags == {"PG_PTable_Maped", "PG_Kernel_Init", "PG_Active", "PG_Kernel"}
Flags == Sharing \cup KernelFlags \cup
             {"PG_Dirty", "PG_Up_To_Date", "PG_Device", "PG_Slab"}

\* Layouts are what init_memory makes of memory maps that are sane (module
\* MemoryMap), with what the word after bits_map happens to hold, which
\* nobody initialises.
LayoutAssumption ==
    /\ W \in Nat \ {0, 1}
    /\ FourG \in Nat
    /\ MaxRef \in Nat
    /\ FlagSets \subseteq (SUBSET Flags) \ {{}}
    /\ \A L \in Layouts :
        /\ SaneLayout(L)
        /\ L.slack \subseteq 0 .. (W - 1)

ASSUME LayoutAssumption

VARIABLES
    mem,              \* the layout this machine has
    mode,             \* "up", or "halted": in do_page_fault for ever, or
                      \* scribbling beyond the tables
    bits_map, attribute, ref_cnt,                     \* per page
    page_using_cnt, page_free_cnt, total_page_lnk,    \* per zone
    call,             \* the last call of alloc_pages and what it returned
    granted,          \* history: pages ever returned to a caller
    regranted         \* history: pages returned to a second caller

counters == <<page_using_cnt, page_free_cnt, total_page_lnk>>
vars == <<mem, mode, bits_map, attribute, ref_cnt, counters, call, granted, regranted>>

Pages == PagesOf(mem)
ZoneIds == DOMAIN mem.zones
PagesLinkedTo(i) == {p \in Pages : ZoneOf(mem, p) = i}
NoCall == [zone_select |-> "none", number |-> 0, ret |-> "none"]

-----------------------------------------------------------------------------
(***************************************************************************)
(* page_init.                                                              *)
(***************************************************************************)
Fresh(p) == attribute[p] = {}
Shares(p, flags) == (attribute[p] \cup flags) \cap Sharing # {}

\* The branches that set the bit, that raise ref_cnt, that raise
\* total_page_lnk, and that move a page from page_free_cnt to page_using_cnt.
\* (A name with an underscore is a slip a programmer could make here: the
\* properties below have to tell it from the code.)
SetsBit_NotWhenShared(p, flags) == ~Shares(p, flags)
AddsLink_FirstOnly(p, flags) == Fresh(p)
CountsPage_EachReference(p, flags) == Fresh(p) \/ Shares(p, flags)

SetsBit(p, flags) == Fresh(p) \/ ~Shares(p, flags)
TakesRef(p, flags) == Fresh(p) \/ Shares(p, flags)
AddsLink(p, flags) == Fresh(p) \/ Shares(p, flags)
CountsPage(p, flags) == Fresh(p)

Count(S, i) == Cardinality({p \in S : ZoneOf(mem, p) = i})

\* page_init of every page of a run, in ascending order, up to the first bad
\* one.  A page no zone covers still has zone_struct NULL and phy_addr 0: its
\* page_init sets bit 0 and its own attribute and reference, then faults on the
\* NULL zone.  A page number outside pages_struct is beyond the tables.
Bad(run) == {p \in run : p \notin Pages \/ ZoneOf(mem, p) = 0}
Done(run) == {p \in run : \A b \in Bad(run) : p < b}
Faulting(run) == {p \in Bad(run) \cap Pages : \A b \in Bad(run) : p <= b}

PageInitRun(run, flags) ==
    LET refs   == {p \in Done(run) : TakesRef(p, flags)} \cup Faulting(run)
        links  == {p \in Done(run) : AddsLink(p, flags)}
        counts == {p \in Done(run) : CountsPage(p, flags)}
    IN  /\ mode' = IF Bad(run) = {} THEN "up" ELSE "halted"
        /\ bits_map' = bits_map \cup {p \in Done(run) : SetsBit(p, flags)}
                                \cup (IF Faulting(run) = {} THEN {} ELSE {0})
        /\ attribute' = [p \in Pages |->
              attribute[p] \cup (IF p \in Done(run) \cup Faulting(run) THEN flags ELSE {})]
        /\ ref_cnt' = [p \in Pages |-> ref_cnt[p] + (IF p \in refs THEN 1 ELSE 0)]
        /\ page_using_cnt' = [i \in ZoneIds |-> page_using_cnt[i] + Count(counts, i)]
        /\ page_free_cnt' = [i \in ZoneIds |-> page_free_cnt[i] - Count(counts, i)]
        /\ total_page_lnk' = [i \in ZoneIds |-> total_page_lnk[i] + Count(links, i)]

-----------------------------------------------------------------------------
(***************************************************************************)
(* init_memory: every bit set, then the bit of each zone page flipped; the *)
(* zones counted; page 0 given to the first zone without being counted in  *)
(* it; and page_init of the pages under the kernel and the tables.  All of *)
(* them are fresh, so each takes the first branch.                         *)
(***************************************************************************)
FreedBits(L) ==
    {p \in PagesOf(L) : \E i \in DOMAIN L.zones : p \in ZonePages(L.zones[i])}

BitmapEnd_WordTooMany(L) == ((L.npages + W) \div W) * W
BitmapEnd(L) == ((L.npages + W - 1) \div W) * W

KernelPages(L) == 0 .. L.kernel_last
KernelCount(L, i) == Cardinality({p \in KernelPages(L) : ZoneOf(L, p) = i})
PageLen(L, i) == L.zones[i].end - L.zones[i].start

InitMemory(L) ==
    /\ mem = L
    /\ mode = "up"
    /\ bits_map = ((0 .. (BitmapEnd(L) - 1)) \ FreedBits(L)) \cup KernelPages(L)
                     \cup {BitmapEnd(L) + b : b \in L.slack}
    /\ attribute = [p \in PagesOf(L) |-> IF p \in KernelPages(L) THEN KernelFlags ELSE {}]
    /\ ref_cnt = [p \in PagesOf(L) |-> IF p \in KernelPages(L) THEN 1 ELSE 0]
    /\ page_using_cnt = [i \in DOMAIN L.zones |-> KernelCount(L, i)]
    /\ page_free_cnt = [i \in DOMAIN L.zones |-> PageLen(L, i) - KernelCount(L, i)]
    /\ total_page_lnk = [i \in DOMAIN L.zones |-> KernelCount(L, i)]

-----------------------------------------------------------------------------
(***************************************************************************)
(* alloc_pages.                                                            *)
(***************************************************************************)
\* g_zone_dma and g_zone_normal are never assigned and stay 0; g_zone_unmapped
\* is the index of the zone that starts at 4 GB, and 0 without one.
UnmappedFirst ==
    LET at4G == {i \in ZoneIds : mem.zones[i].start = FourG}
    IN  IF at4G = {} THEN 1 ELSE CHOOSE i \in at4G : \A k \in at4G : k <= i

ZoneRange(zone_select) ==
    IF zone_select = "ZONE_UNMAPPED" THEN UnmappedFirst .. Len(mem.zones) ELSE {1}

\* for (j = start; j <= end; j += j % 64 ? tmp : 64)
Steps(z) == {j \in z.start .. z.end : j = z.start \/ j % W = 0}

\* The pages whose bits  *p >> k | *(p + 1) << (64 - k)  brings under the mask.
\* For k = 0 the second shift is by 64: undefined in C, and by 0 in the code
\* gcc -O0 generates (shlq %cl), which brings in the low bits of *(p + 1).
TestedPages_OneBitShort(j, k, number) ==
    LET base == j - (j % W) IN (base + k) .. (base + k + number - 2)

TestedPages(j, k, number) ==
    LET base == j - (j % W)
    IN  (base + k) .. (base + k + number - 1)
            \cup IF k = 0 THEN (base + W) .. (base + W + number - 1) ELSE {}

\* for (k = shift; k < 64 - shift; k++)
Offsets(j) == (j % W) .. (W - (j % W) - 1)

Hits(z, number) ==
    {h \in Steps(z) \X (0 .. W - 1) :
        /\ h[2] \in Offsets(h[1])
        /\ TestedPages(h[1], h[2], number) \cap bits_map = {}}

Before(g, h) == g[1] < h[1] \/ (g[1] = h[1] /\ g[2] <= h[2])

\* page = j + k - 1
ReturnedPage_NoMinusOne(j, k) == j + k
ReturnedPage(j, k) == j + k - 1

\* An int32 against a uint64: a count below zero is larger than any number.
EnoughFree_Strictly(i, number) == page_free_cnt[i] > number
EnoughFree(i, number) == page_free_cnt[i] < 0 \/ page_free_cnt[i] >= number

Candidates(zone_select, number) ==
    {i \in ZoneRange(zone_select) :
        EnoughFree(i, number) /\ Hits(mem.zones[i], number) # {}}

Return(zone_select, number, ret) ==
    call' = [zone_select |-> zone_select, number |-> number, ret |-> ret]

Refuse(zone_select, number) ==
    /\ Candidates(zone_select, number) = {}
    /\ Return(zone_select, number, "NULL")
    /\ UNCHANGED <<mode, bits_map, attribute, ref_cnt, counters, granted, regranted>>

Grant(zone_select, number, flags) ==
    \E i \in Candidates(zone_select, number) :
        /\ \A k \in Candidates(zone_select, number) : i <= k
        /\ \E h \in Hits(mem.zones[i], number) :
            /\ \A g \in Hits(mem.zones[i], number) : Before(h, g)
            /\ LET page == ReturnedPage(h[1], h[2])
                   run  == page .. (page + number - 1)
               IN  /\ PageInitRun(run, flags)
                   /\ Return(zone_select, number, IF mode' = "up" THEN "page" ELSE "none")
                   /\ granted' = IF mode' = "up" THEN granted \cup run ELSE granted
                   /\ regranted' = IF mode' = "up" THEN regranted \cup (granted \cap run)
                                   ELSE regranted

alloc_pages(zone_select, number, flags) ==
    /\ mode = "up"
    /\ \A p \in Pages : ref_cnt[p] <= MaxRef
    /\ UNCHANGED mem
    /\ Refuse(zone_select, number) \/ Grant(zone_select, number, flags)

-----------------------------------------------------------------------------
Init ==
    /\ \E L \in Layouts : InitMemory(L)
    /\ call = NoCall
    /\ granted = {}
    /\ regranted = {}

ZoneSelects == {"ZONE_DMA", "ZONE_NORMAL", "ZONE_UNMAPPED", "other"}

\* "number <= 64" (memory.c:105)
Next == \E zone_select \in ZoneSelects, number \in 1 .. W, flags \in FlagSets :
            alloc_pages(zone_select, number, flags)

Spec == Init /\ [][Next]_vars

-----------------------------------------------------------------------------
TypeOK ==
    /\ mem \in Layouts
    /\ mode \in {"up", "halted"}
    /\ bits_map \subseteq 0 .. (mem.npages + W - 2 + W)
    /\ attribute \in [Pages -> SUBSET Flags]
    /\ ref_cnt \in [Pages -> Nat]
    /\ page_using_cnt \in [ZoneIds -> 0 .. mem.npages]
    /\ page_free_cnt \in [ZoneIds -> Int]
    /\ total_page_lnk \in [ZoneIds -> Nat]
    /\ call \in [zone_select : ZoneSelects \cup {"none"}, number : 0 .. W,
                 ret : {"NULL", "page", "none"}]
    /\ granted \subseteq Int
    /\ regranted \subseteq Int

\* The bit map and the page table are two records of the same fact and
\* alloc_pages searches only one of them: a page some zone owns has its bit set
\* exactly when its attribute says it is in use, and while the kernel runs a
\* page no zone owns looks in use (its bit set) but has no attribute.
BitmapAgreesWithPages ==
    \A p \in Pages :
        IF ZoneOf(mem, p) # 0 THEN p \in bits_map <=> attribute[p] # {}
        ELSE p \in bits_map /\ (mode = "up" => attribute[p] = {})

\* The zone counters, kept one page at a time by page_init, agree with the
\* page table they summarise: using counts the zone's pages in use (page 0
\* with the first zone's), and free is what is left of the zone's length.
CountersExact ==
    \A i \in ZoneIds :
        /\ page_using_cnt[i] = Cardinality({p \in PagesLinkedTo(i) : ~Fresh(p)})
        /\ page_using_cnt[i] + page_free_cnt[i] = PageLen(mem, i)

\* total_page_lnk is the sum of the references to the zone's pages, however
\* often page_init took its sharing branch.
SumOf(c, S) == MapThenSumSet(LAMBDA p : c[p], S)

LinksAreReferences ==
    \A i \in ZoneIds : total_page_lnk[i] = SumOf(ref_cnt, PagesLinkedTo(i))

\* The memories the search is right for: each zone starts one page after a word
\* boundary and ends before the last bit of that word.  The one zone of a
\* machine of less than 64 pages does, once its first megabyte is rounded away.
OneWord ==
    \A L \in Layouts : \A i \in DOMAIN L.zones :
        /\ L.zones[i].start % W = 1
        /\ L.zones[i].end < L.zones[i].start + W - 1

\* No page is handed to two callers, and none under the kernel to any: nothing
\* in the program gives a page back, so a second grant is two owners.
NoDoubleGrant ==
    /\ regranted = {}
    /\ granted \cap KernelPages(mem) = {}

\* alloc_pages never dereferences a NULL zone or leaves its tables.
NeverHalts == mode = "up"

\* A refusal is honest up to the page the counter is short of: when NULL is
\* returned no zone it searched had number + 1 free pages in a row.
RefusalHonest ==
    call.ret = "NULL" =>
        \A i \in ZoneRange(call.zone_select) :
            \A first \in ZonePages(mem.zones[i]) :
                first + call.number < mem.zones[i].end =>
                    \E p \in first .. (first + call.number) : ~Fresh(p)

\* memory.h:117 says of page_free_cnt "pages free".
FreeCountIsPagesFree ==
    \A i \in ZoneIds :
        page_free_cnt[i] = Cardinality({p \in ZonePages(mem.zones[i]) : Fresh(p)})

\* Where the search is sound alloc_pages is a page pool: every grant takes a run
\* of consecutive pages that no one owned, and a refusal takes nothing.
FreePages == {p \in Pages : ZoneOf(mem, p) # 0 /\ Fresh(p)}
Pool == INSTANCE PagePool WITH MaxRun <- W, free <- FreePages, taken <- granted
ImplementsPool == Pool!PoolSpec
=============================================================================
