----------------------------- MODULE MemoryLayout -----------------------------
(***************************************************************************)
(* What init_memory leaves in memory_management_struct for the page        *)
(* allocator: how many 2 MB pages there are, which of them each zone       *)
(* covers, and the last page under the kernel and its tables.  A page is   *)
(* known by its number, zones_struct + i is zone i+1, and 0 stands for a   *)
(* NULL zone_struct.                                                       *)
(***************************************************************************)
EXTENDS Integers, Sequences

ZonePages(z) == z.start .. (z.end - 1)

\* The zone a page's zone_struct points to, 0 for NULL.  A later zone that
\* covers the page overwrites an earlier one, and page 0 is given zone 0.
ZoneOf(L, p) ==
    IF p = 0 THEN 1
    ELSE LET covering == {i \in DOMAIN L.zones : p \in ZonePages(L.zones[i])}
         IN  IF covering = {} THEN 0
             ELSE CHOOSE i \in covering : \A k \in covering : k <= i

PagesOf(L) == 0 .. (L.npages - 1)

\* What the allocator relies on: init_memory has to come up with it.
SaneLayout(L) ==
    /\ L.npages \in Nat \ {0}
    /\ L.zones \in Seq([start : Nat, end : Nat])
    /\ L.zones # <<>>
    /\ \A i \in DOMAIN L.zones :
        /\ L.zones[i].start < L.zones[i].end
        /\ L.zones[i].end <= L.npages
        /\ \A k \in DOMAIN L.zones :
            i # k => ZonePages(L.zones[i]) \cap ZonePages(L.zones[k]) = {}
    /\ L.kernel_last \in PagesOf(L)
    /\ \A p \in 0 .. L.kernel_last : ZoneOf(L, p) # 0

=============================================================================
