------------------------ MODULE PageAllocator_proofs ------------------------
(***************************************************************************)
(* What alloc_pages keeps true whatever memory the machine has, and what   *)
(* it keeps true on the machines its search is right for.                  *)
(***************************************************************************)
EXTENDS PageAllocator, FiniteSetTheorems, WellFoundedInduction, TLAPS

(***************************************************************************)
(* The inductive invariant.  Type correctness alone is not inductive: the  *)
(* bound on page_using_cnt needs the counters to be exact, and the bit of  *)
(* page 0 (the one a faulting page_init sets) needs the kernel's pages to  *)
(* stay in use.                                                            *)
(***************************************************************************)
KernelInUse == \A p \in KernelPages(mem) : ~Fresh(p)

IInv ==
    /\ TypeOK
    /\ BitmapAgreesWithPages
    /\ CountersExact
    /\ KernelInUse

-----------------------------------------------------------------------------
\* Division with remainder, for any divisor.
LEMMA DivMod ==
    ASSUME NEW a \in Nat, NEW w \in Nat, w > 0
    PROVE  /\ a \div w \in Nat
           /\ a % w \in 0 .. (w - 1)
           /\ a = w * (a \div w) + (a % w)
<1>1. a % w \in 0 .. (w - 1)
  OBVIOUS
<1>2. a \div w \in Nat
  OBVIOUS
<1>3. a = w * (a \div w) + (a % w)
  OBVIOUS
<1> QED
  BY <1>1, <1>2, <1>3

LEMMA IntervalCount ==
    ASSUME NEW n \in Nat
    PROVE  IsFiniteSet(0 .. (n - 1)) /\ Cardinality(0 .. (n - 1)) = n
<1>1. n - 1 \in Int
  OBVIOUS
<1>2. Cardinality(0 .. (n - 1)) = IF 0 > n - 1 THEN 0 ELSE (n - 1) - 0 + 1
  BY <1>1, FS_Interval
<1> QED
  BY <1>1, <1>2, FS_Interval

(***************************************************************************)
(* What LayoutAssumption says of the types of the constants.               *)
(***************************************************************************)
LEMMA ConstantTypes == W \in Nat /\ W > 1 /\ FourG \in Nat
  BY LayoutAssumption DEF LayoutAssumption, SaneLayout

LEMMA FlagTypes ==
    ASSUME NEW flags \in FlagSets
    PROVE  flags # {} /\ flags \in SUBSET Flags
  BY LayoutAssumption DEF LayoutAssumption, SaneLayout

LEMMA LayoutTypes ==
    ASSUME NEW L \in Layouts
    PROVE  /\ L.npages \in Nat /\ L.npages > 0
           /\ L.zones \in Seq([start : Nat, end : Nat]) /\ L.zones # <<>>
           /\ DOMAIN L.zones \subseteq Nat \ {0}
           /\ L.kernel_last \in PagesOf(L)
           /\ L.slack \subseteq 0 .. (W - 1)
<1>1. /\ L.npages \in Nat \ {0}
      /\ L.zones \in Seq([start : Nat, end : Nat]) /\ L.zones # <<>>
      /\ L.kernel_last \in PagesOf(L)
      /\ L.slack \subseteq 0 .. (W - 1)
  BY LayoutAssumption DEF LayoutAssumption, SaneLayout
<1>2. \A T, s : s \in Seq(T) => DOMAIN s \subseteq Nat \ {0}
  OBVIOUS
<1> QED
  BY <1>1, <1>2

LEMMA PagesFinite ==
    ASSUME NEW L \in Layouts, NEW S, S \subseteq PagesOf(L)
    PROVE  /\ IsFiniteSet(S)
           /\ Cardinality(S) \in 0 .. L.npages
<1>1. L.npages \in Nat
  BY LayoutTypes
<1>2. IsFiniteSet(PagesOf(L)) /\ Cardinality(PagesOf(L)) = L.npages
  BY <1>1, IntervalCount DEF PagesOf
<1>3. IsFiniteSet(S) /\ Cardinality(S) <= L.npages
  BY <1>2, FS_Subset
<1>4. Cardinality(S) \in Nat
  BY <1>3, FS_CardinalityType
<1> QED
  BY <1>1, <1>3, <1>4

LEMMA BitmapCoversPages ==
    ASSUME NEW L \in Layouts
    PROVE  /\ BitmapEnd(L) \in Nat
           /\ L.npages <= BitmapEnd(L)
           /\ BitmapEnd(L) <= L.npages + W - 1
<1>1. L.npages \in Nat /\ W \in Nat /\ W > 1
  BY LayoutTypes, ConstantTypes
<1>2. \A a \in Nat : /\ a \div W \in Nat
                     /\ a % W \in 0 .. (W - 1)
                     /\ a = W * (a \div W) + (a % W)
  BY <1>1, DivMod
<1>3. L.npages + W - 1 \in Nat
  BY <1>1
<1>4. PICK q \in Nat, r \in 0 .. (W - 1) :
          /\ q = (L.npages + W - 1) \div W
          /\ L.npages + W - 1 = W * q + r
  BY <1>2, <1>3
<1>5. BitmapEnd(L) = q * W
  BY <1>4 DEF BitmapEnd
<1>6. q * W = W * q /\ W * q \in Nat
  BY <1>1, <1>4
<1>7. L.npages <= W * q /\ W * q <= L.npages + W - 1
  BY <1>1, <1>4, <1>6
<1> QED
  BY <1>5, <1>6, <1>7

-----------------------------------------------------------------------------
(***************************************************************************)
(* init_memory establishes the invariant.                                  *)
(***************************************************************************)
LEMMA ZoneOfSound ==
    ASSUME NEW L \in Layouts, NEW p \in PagesOf(L), p # 0
    PROVE  ZoneOf(L, p) # 0 <=> p \in FreedBits(L)
<1> DEFINE covering == {i \in DOMAIN L.zones : p \in ZonePages(L.zones[i])}
<1>1. ZoneOf(L, p) = IF covering = {} THEN 0
                     ELSE CHOOSE i \in covering : \A k \in covering : k <= i
  BY DEF ZoneOf
<1>2. p \in FreedBits(L) <=> covering # {}
  BY DEF FreedBits
<1>3. DOMAIN L.zones \subseteq Nat \ {0}
  BY LayoutTypes
<1>4. ASSUME NEW i \in covering, NEW k \in covering PROVE i = k
  <2>1. ZonePages(L.zones[i]) \cap ZonePages(L.zones[k]) # {}
    BY <1>4
  <2> QED
    BY <2>1, <1>4, LayoutAssumption DEF LayoutAssumption, SaneLayout
<1>5. ASSUME NEW i \in covering
      PROVE  (CHOOSE c \in covering : \A k \in covering : k <= c) \in covering
  <2>1. \A k \in covering : k <= i
    BY <1>3, <1>4, <1>5
  <2> QED
    BY <2>1, <1>5
<1> QED
  BY <1>1, <1>2, <1>3, <1>5

LEMMA ZoneTypes ==
    ASSUME NEW L \in Layouts, NEW i \in DOMAIN L.zones
    PROVE  /\ L.zones[i].start \in Nat /\ L.zones[i].end \in Nat
           /\ L.zones[i].start < L.zones[i].end
           /\ L.zones[i].end <= L.npages
           /\ PageLen(L, i) \in Int
<1>1. L.zones \in Seq([start : Nat, end : Nat])
  BY LayoutTypes
<1>2. \A T, s : s \in Seq(T) => \A k \in DOMAIN s : s[k] \in T
  OBVIOUS
<1>3. L.zones[i] \in [start : Nat, end : Nat]
  BY <1>1, <1>2
<1>4. L.zones[i].start \in Nat /\ L.zones[i].end \in Nat
  BY <1>3
<1> QED
  BY <1>4, LayoutAssumption DEF LayoutAssumption, SaneLayout, PageLen

LEMMA KernelFacts ==
    ASSUME NEW L \in Layouts
    PROVE  /\ KernelPages(L) \subseteq PagesOf(L)
           /\ 0 \in KernelPages(L)
           /\ \A p \in KernelPages(L) : ZoneOf(L, p) # 0
           /\ KernelFlags # {} /\ KernelFlags \in SUBSET Flags
<1>1. L.npages \in Nat /\ L.kernel_last \in PagesOf(L)
  BY LayoutTypes
<1>2. KernelPages(L) \subseteq PagesOf(L) /\ 0 \in KernelPages(L)
  BY <1>1 DEF KernelPages, PagesOf
<1>3. \A p \in KernelPages(L) : ZoneOf(L, p) # 0
  BY LayoutAssumption DEF LayoutAssumption, SaneLayout, KernelPages
<1> QED
  BY <1>2, <1>3 DEF KernelFlags, Flags

LEMMA InitIInv == Init => IInv
<1> SUFFICES ASSUME Init
             PROVE  IInv
  OBVIOUS
<1>1. PICK L \in Layouts : InitMemory(L)
  BY DEF Init
<1> USE <1>1
<1>2. mem = L /\ mem \in Layouts
  BY DEF InitMemory
<1>3. L.npages \in Nat /\ W \in Nat /\ L.slack \subseteq 0 .. (W - 1)
  BY LayoutTypes, ConstantTypes
<1>4. PagesOf(L) \subseteq 0 .. (BitmapEnd(L) - 1) /\ BitmapEnd(L) \in Nat
  BY <1>3, BitmapCoversPages DEF PagesOf
<1>5. \A p \in PagesOf(L) : Fresh(p) <=> p \notin KernelPages(L)
  BY KernelFacts DEF InitMemory, Fresh
<1>6. \A i \in ZoneIds : {p \in PagesLinkedTo(i) : ~Fresh(p)} =
                             {p \in KernelPages(L) : ZoneOf(L, p) = i}
  BY <1>2, <1>5, KernelFacts DEF PagesLinkedTo, Pages
<1>7. \A i : KernelCount(L, i) \in 0 .. L.npages
  BY PagesFinite, KernelFacts DEF KernelCount
<1>8. \A i \in ZoneIds : PageLen(L, i) \in Int
  BY <1>2, ZoneTypes DEF ZoneIds
<1>9. TypeOK
  <2>1. bits_map \subseteq 0 .. (mem.npages + W - 2 + W)
    <3>1. /\ BitmapEnd(L) <= L.npages + W - 1 /\ W > 1
          /\ 0 .. (BitmapEnd(L) - 1) \subseteq 0 .. (L.npages + W - 2 + W)
          /\ {BitmapEnd(L) + b : b \in L.slack} \subseteq 0 .. (L.npages + W - 2 + W)
      BY <1>3, <1>4, BitmapCoversPages, ConstantTypes
    <3>2. KernelPages(L) \subseteq 0 .. (BitmapEnd(L) - 1)
      BY <1>4, KernelFacts
    <3> QED
      BY <1>2, <3>1, <3>2 DEF InitMemory
  <2>2. attribute \in [Pages -> SUBSET Flags] /\ ref_cnt \in [Pages -> Nat]
    BY <1>2, KernelFacts DEF InitMemory, Pages
  <2>3. page_using_cnt \in [ZoneIds -> 0 .. mem.npages] /\ total_page_lnk \in [ZoneIds -> Nat]
    BY <1>2, <1>3, <1>7 DEF InitMemory, ZoneIds
  <2>4. page_free_cnt \in [ZoneIds -> Int]
    BY <1>2, <1>3, <1>7, <1>8 DEF InitMemory, ZoneIds
  <2>5. /\ call \in [zone_select : ZoneSelects \cup {"none"}, number : 0 .. W,
                     ret : {"NULL", "page", "none"}]
        /\ granted \subseteq Int /\ regranted \subseteq Int
    BY <1>3 DEF Init, NoCall
  <2>6. mode \in {"up", "halted"}
    BY DEF InitMemory
  <2> QED
    BY <1>2, <2>1, <2>2, <2>3, <2>4, <2>5, <2>6 DEF TypeOK
<1>10. BitmapAgreesWithPages
  <2> SUFFICES ASSUME NEW p \in Pages
               PROVE  IF ZoneOf(mem, p) # 0 THEN p \in bits_map <=> attribute[p] # {}
                      ELSE p \in bits_map /\ (mode = "up" => attribute[p] = {})
    BY DEF BitmapAgreesWithPages
  <2>1. p \in PagesOf(L) /\ p \in 0 .. (BitmapEnd(L) - 1)
    BY <1>2, <1>4 DEF Pages
  <2>2. p \notin {BitmapEnd(L) + b : b \in L.slack}
    BY <2>1, <1>3, <1>4
  <2>3. p \in bits_map <=> p \in KernelPages(L) \/ p \notin FreedBits(L)
    BY <2>1, <2>2 DEF InitMemory
  <2>4. attribute[p] # {} <=> p \in KernelPages(L)
    BY <1>5, <2>1 DEF Fresh
  <2>5. CASE p = 0
    BY <2>3, <2>4, <2>5, <1>2, KernelFacts
  <2>6. CASE p # 0
    <3>1. ZoneOf(mem, p) # 0 <=> p \in FreedBits(L)
      BY <1>2, <2>1, <2>6, ZoneOfSound
    <3>2. p \in KernelPages(L) => ZoneOf(mem, p) # 0
      BY <1>2, KernelFacts
    <3> QED
      BY <2>3, <2>4, <3>1, <3>2
  <2> QED
    BY <2>5, <2>6
<1>11. CountersExact
  <2> SUFFICES ASSUME NEW i \in ZoneIds
               PROVE  /\ page_using_cnt[i] = Cardinality({p \in PagesLinkedTo(i) : ~Fresh(p)})
                      /\ page_using_cnt[i] + page_free_cnt[i] = PageLen(mem, i)
    BY DEF CountersExact
  <2>1. page_using_cnt[i] = KernelCount(L, i) /\ page_free_cnt[i] = PageLen(L, i) - KernelCount(L, i)
    BY <1>2 DEF InitMemory, ZoneIds
  <2>2. KernelCount(L, i) = Cardinality({p \in PagesLinkedTo(i) : ~Fresh(p)})
    BY <1>6 DEF KernelCount
  <2>3. KernelCount(L, i) \in Int /\ PageLen(L, i) \in Int
    BY <1>3, <1>7, <1>8
  <2> QED
    BY <1>2, <2>1, <2>2, <2>3
<1>12. KernelInUse
  BY <1>2, <1>5, KernelFacts DEF KernelInUse
<1> QED
  BY <1>9, <1>10, <1>11, <1>12 DEF IInv

-----------------------------------------------------------------------------
(***************************************************************************)
(* page_init of a run keeps it.                                            *)
(***************************************************************************)
\* What of the run page_init reaches: only pages of a zone are completed, and
\* the page it faults on belongs to none.
LEMMA RunFacts ==
    ASSUME NEW run \in SUBSET Int
    PROVE  /\ Done(run) \subseteq {p \in Pages : ZoneOf(mem, p) # 0}
           /\ Faulting(run) \subseteq {p \in Pages : ZoneOf(mem, p) = 0}
           /\ Bad(run) = {} => Done(run) = run /\ Faulting(run) = {}
<1>1. ASSUME NEW p \in Done(run) PROVE p \notin Bad(run)
  <2>1. p \in Int /\ ~(p < p)
    BY <1>1 DEF Done
  <2> QED
    BY <2>1 DEF Done
<1>2. Done(run) \subseteq {p \in Pages : ZoneOf(mem, p) # 0}
  BY <1>1 DEF Done, Bad
<1> QED
  BY <1>2 DEF Done, Bad, Faulting

LEMMA CountStep ==
    ASSUME NEW L \in Layouts, NEW A, NEW B, A \subseteq PagesOf(L), B \subseteq PagesOf(L),
           A \cap B = {}
    PROVE  Cardinality(A \cup B) = Cardinality(A) + Cardinality(B)
<1>1. IsFiniteSet(A) /\ IsFiniteSet(B)
  BY PagesFinite
<1>2. Cardinality(A \cup B) = Cardinality(A) + Cardinality(B) - Cardinality(A \cap B)
  BY <1>1, FS_Union
<1>3. Cardinality(A \cap B) = 0
  BY FS_EmptySet
<1>4. Cardinality(A) \in Nat /\ Cardinality(B) \in Nat
  BY <1>1, FS_CardinalityType
<1> QED
  BY <1>2, <1>3, <1>4

LEMMA PageInitRunInv ==
    ASSUME IInv, mode = "up", NEW run \in SUBSET Int, NEW flags \in FlagSets,
           PageInitRun(run, flags), mem' = mem
    PROVE  /\ bits_map' \subseteq 0 .. (mem.npages + W - 2 + W)
           /\ attribute' \in [Pages -> SUBSET Flags]
           /\ ref_cnt' \in [Pages -> Nat]
           /\ page_using_cnt' \in [ZoneIds -> 0 .. mem.npages]
           /\ page_free_cnt' \in [ZoneIds -> Int]
           /\ total_page_lnk' \in [ZoneIds -> Nat]
           /\ mode' \in {"up", "halted"}
           /\ BitmapAgreesWithPages'
           /\ CountersExact'
           /\ KernelInUse'
<1> DEFINE done == Done(run)
           faulting == Faulting(run)
           counts == {p \in Done(run) : CountsPage(p, flags)}
           links == {p \in Done(run) : AddsLink(p, flags)}
           InUse(i) == {p \in PagesLinkedTo(i) : ~Fresh(p)}
<1> mem \in Layouts
  BY DEF IInv, TypeOK
<1>1. flags # {} /\ flags \in SUBSET Flags /\ mem.npages \in Nat /\ W \in Nat /\ W > 1
  BY FlagTypes, LayoutTypes, ConstantTypes
<1>2. /\ done \subseteq {p \in Pages : ZoneOf(mem, p) # 0}
      /\ faulting \subseteq {p \in Pages : ZoneOf(mem, p) = 0}
      /\ Bad(run) = {} => faulting = {}
  BY RunFacts
<1>3. \A p \in Pages : Fresh(p)' <=> Fresh(p) /\ p \notin done \cup faulting
  BY <1>1 DEF PageInitRun, Fresh
<1>4. bits_map' = bits_map \cup {p \in done : SetsBit(p, flags)}
                           \cup (IF faulting = {} THEN {} ELSE {0})
  BY DEF PageInitRun
<1>5. 0 \in KernelPages(mem) /\ 0 \in Pages /\ ~Fresh(0) /\ 0 \in bits_map
  <2>1. 0 \in KernelPages(mem) /\ 0 \in Pages /\ ~Fresh(0) /\ ZoneOf(mem, 0) # 0
    BY KernelFacts DEF IInv, KernelInUse, Pages
  <2> QED
    BY <2>1 DEF IInv, BitmapAgreesWithPages, Fresh
<1>6. bits_map' \subseteq 0 .. (mem.npages + W - 2 + W)
  <2>1. Pages \subseteq 0 .. (mem.npages + W - 2 + W)
    BY <1>1, BitmapCoversPages DEF Pages, PagesOf
  <2>2. bits_map \subseteq 0 .. (mem.npages + W - 2 + W)
    BY DEF IInv, TypeOK
  <2> QED
    BY <1>2, <1>4, <1>5, <2>1, <2>2
<1>7. attribute' \in [Pages -> SUBSET Flags]
  BY <1>1 DEF PageInitRun, IInv, TypeOK
<1>8. ref_cnt' \in [Pages -> Nat]
  BY DEF PageInitRun, IInv, TypeOK
<1>9. ASSUME NEW i \in ZoneIds, NEW S, S \subseteq done
      PROVE  Count(S, i) \in Nat
  <2>1. {p \in S : ZoneOf(mem, p) = i} \subseteq PagesOf(mem)
    BY <1>2, <1>9 DEF Pages
  <2> QED
    BY <1>1, <2>1, PagesFinite DEF Count
<1>10. \A i \in ZoneIds : Count(counts, i) \in Nat /\ Count(links, i) \in Nat
  BY <1>9
<1>11. total_page_lnk' \in [ZoneIds -> Nat] /\ page_free_cnt' \in [ZoneIds -> Int]
  <2>1. total_page_lnk \in [ZoneIds -> Nat] /\ page_free_cnt \in [ZoneIds -> Int]
    BY DEF IInv, TypeOK
  <2>2. /\ total_page_lnk' = [i \in ZoneIds |-> total_page_lnk[i] + Count(links, i)]
        /\ page_free_cnt' = [i \in ZoneIds |-> page_free_cnt[i] - Count(counts, i)]
    BY DEF PageInitRun
  <2>3. ASSUME NEW i \in ZoneIds
        PROVE  /\ total_page_lnk[i] + Count(links, i) \in Nat
               /\ page_free_cnt[i] - Count(counts, i) \in Int
    <3> HIDE DEF counts, links
    <3>1. Count(links, i) \in Nat /\ Count(counts, i) \in Nat
      BY <1>10
    <3>2. total_page_lnk[i] \in Nat /\ page_free_cnt[i] \in Int
      BY <2>1
    <3> QED
      BY <3>1, <3>2
  <2> QED
    BY <2>2, <2>3
<1>12. ASSUME NEW i \in ZoneIds
       PROVE  /\ page_using_cnt[i] + Count(counts, i) = Cardinality(InUse(i)')
              /\ Cardinality(InUse(i)') \in 0 .. mem.npages
  <2>1. i # 0
    BY LayoutTypes DEF ZoneIds
  <2>2. InUse(i)' = InUse(i) \cup {p \in counts : ZoneOf(mem, p) = i}
    BY <1>2, <1>3, <2>1 DEF PagesLinkedTo, Pages, CountsPage
  <2>3. InUse(i) \cap {p \in counts : ZoneOf(mem, p) = i} = {}
    BY DEF CountsPage
  <2>4. /\ InUse(i) \subseteq PagesOf(mem)
        /\ {p \in counts : ZoneOf(mem, p) = i} \subseteq PagesOf(mem)
    BY <1>2 DEF PagesLinkedTo, Pages
  <2>5. Cardinality(InUse(i)') = Cardinality(InUse(i)) + Count(counts, i)
    BY <2>2, <2>3, <2>4, CountStep DEF Count
  <2>6. page_using_cnt[i] = Cardinality(InUse(i))
    BY DEF IInv, CountersExact
  <2>7. Cardinality(InUse(i)') \in 0 .. mem.npages
    BY <2>2, <2>4, PagesFinite
  <2> QED
    BY <2>5, <2>6, <2>7
<1>13. page_using_cnt' \in [ZoneIds -> 0 .. mem.npages]
  BY <1>12 DEF PageInitRun
<1>14. CountersExact'
  <2> SUFFICES ASSUME NEW i \in ZoneIds
               PROVE  /\ page_using_cnt'[i] = Cardinality(InUse(i)')
                      /\ page_using_cnt'[i] + page_free_cnt'[i] = PageLen(mem, i)
    BY DEF CountersExact, ZoneIds
  <2>1. /\ page_using_cnt'[i] = page_using_cnt[i] + Count(counts, i)
        /\ page_free_cnt'[i] = page_free_cnt[i] - Count(counts, i)
    BY DEF PageInitRun
  <2>2. page_using_cnt[i] + page_free_cnt[i] = PageLen(mem, i)
    BY DEF IInv, CountersExact
  <2>3. page_using_cnt[i] \in Int /\ page_free_cnt[i] \in Int /\ Count(counts, i) \in Int
    <3>1. page_using_cnt \in [ZoneIds -> 0 .. mem.npages] /\ page_free_cnt \in [ZoneIds -> Int]
      BY DEF IInv, TypeOK
    <3>2. page_using_cnt[i] \in Int /\ page_free_cnt[i] \in Int
      BY <1>1, <3>1
    <3> HIDE DEF counts
    <3>3. Count(counts, i) \in Nat
      BY <1>10
    <3> QED
      BY <3>2, <3>3
  <2> QED
    BY <1>12, <2>1, <2>2, <2>3
<1>15. BitmapAgreesWithPages'
  <2> SUFFICES ASSUME NEW p \in Pages
               PROVE  IF ZoneOf(mem, p) # 0 THEN p \in bits_map' <=> ~Fresh(p)'
                      ELSE p \in bits_map' /\ (mode' = "up" => Fresh(p)')
    BY DEF BitmapAgreesWithPages, Fresh, Pages
  <2>1. IF ZoneOf(mem, p) # 0 THEN p \in bits_map <=> ~Fresh(p)
        ELSE p \in bits_map /\ Fresh(p)
    BY DEF IInv, BitmapAgreesWithPages, Fresh
  <2>2. CASE ZoneOf(mem, p) # 0
    <3>1. p \notin faulting
      BY <1>2, <2>2
    <3>2. p \in done => (p \in bits_map \/ SetsBit(p, flags))
      BY <2>1, <2>2 DEF SetsBit
    <3>3. p = 0 => p \in bits_map
      BY <1>5
    <3> QED
      BY <1>3, <1>4, <2>1, <2>2, <3>1, <3>2, <3>3
  <2>3. CASE ZoneOf(mem, p) = 0
    <3>1. p \notin done /\ (mode' = "up" => faulting = {})
      BY <1>2, <2>3 DEF PageInitRun
    <3> QED
      BY <1>3, <1>4, <2>1, <2>3, <3>1
  <2> QED
    BY <2>2, <2>3
<1>16. KernelInUse'
  <2>1. \A p \in KernelPages(mem) : p \in Pages /\ ~Fresh(p)
    BY KernelFacts DEF IInv, KernelInUse, Pages
  <2> QED
    BY <1>3, <2>1 DEF KernelInUse
<1>17. mode' \in {"up", "halted"}
  BY DEF PageInitRun
<1> QED
  BY <1>6, <1>7, <1>8, <1>11, <1>13, <1>14, <1>15, <1>16, <1>17

-----------------------------------------------------------------------------
(***************************************************************************)
(* Every call of alloc_pages keeps it.                                     *)
(***************************************************************************)
\* A run starts at a page number, or one below the first.
LEMMA RunInInt ==
    ASSUME NEW L \in Layouts, NEW i \in DOMAIN L.zones, NEW number \in 1 .. W,
           NEW h \in Hits(L.zones[i], number)
    PROVE  LET page == ReturnedPage(h[1], h[2])
           IN  page \in Int /\ page .. (page + number - 1) \in SUBSET Int
<1>1. L.zones[i].start \in Nat /\ L.zones[i].end \in Nat /\ W \in Nat
  BY ZoneTypes, ConstantTypes
<1>2. h[1] \in Int /\ h[2] \in Int
  BY <1>1 DEF Hits, Steps
<1> QED
  BY <1>1, <1>2 DEF ReturnedPage

LEMMA ZoneRangeSound ==
    ASSUME mem \in Layouts, NEW zone_select
    PROVE  ZoneRange(zone_select) \subseteq ZoneIds
<1>1. /\ mem.zones \in Seq([start : Nat, end : Nat])
      /\ mem.zones # <<>>
  BY LayoutTypes
<1>2. ZoneIds = 1 .. Len(mem.zones) /\ Len(mem.zones) \in Nat \ {0}
  BY <1>1 DEF ZoneIds
<1> DEFINE at4G == {i \in ZoneIds : mem.zones[i].start = FourG}
<1>3. ASSUME NEW i \in at4G, NEW k \in at4G
      PROVE  i = k
  <2>1. ASSUME NEW z \in at4G PROVE FourG \in ZonePages(mem.zones[z])
    <3>1. /\ mem.zones[z].start = FourG /\ FourG \in Nat
          /\ mem.zones[z].end \in Nat /\ FourG < mem.zones[z].end
      BY <2>1, ZoneTypes, ConstantTypes DEF ZoneIds
    <3> QED
      BY <3>1 DEF ZonePages
  <2> QED
    BY <1>3, <2>1, LayoutAssumption DEF LayoutAssumption, SaneLayout, ZoneIds
<1>4. at4G = {} \/ (CHOOSE i \in at4G : \A k \in at4G : k <= i) \in at4G
  <2>1. \A i \in at4G : \A k \in at4G : k <= i
    BY <1>2, <1>3
  <2> QED
    BY <2>1
<1>5. UnmappedFirst \in Nat /\ UnmappedFirst >= 1
  BY <1>2, <1>4 DEF UnmappedFirst
<1> QED
  BY <1>2, <1>5 DEF ZoneRange

LEMMA NextIInv == IInv /\ [Next]_vars => IInv'
<1> SUFFICES ASSUME IInv, [Next]_vars
             PROVE  IInv'
  OBVIOUS
<1>1. CASE UNCHANGED vars
  BY <1>1 DEF vars, counters, IInv, TypeOK, BitmapAgreesWithPages, CountersExact, KernelInUse,
              Pages, ZoneIds, PagesLinkedTo, Fresh
<1>2. ASSUME NEW zone_select \in ZoneSelects, NEW number \in 1 .. W, NEW flags \in FlagSets,
             alloc_pages(zone_select, number, flags)
      PROVE  IInv'
  <2> USE <1>2
  <2>1. mem' = mem /\ mem \in Layouts /\ mode = "up" /\ number \in 0 .. W
    BY LayoutAssumption DEF LayoutAssumption, SaneLayout, alloc_pages, IInv, TypeOK
  <2>2. CASE Refuse(zone_select, number)
    <3>1. call' \in [zone_select : ZoneSelects \cup {"none"}, number : 0 .. W,
                     ret : {"NULL", "page", "none"}]
      BY <2>1, <2>2 DEF Refuse, Return
    <3>2. UNCHANGED <<mem, mode, bits_map, attribute, ref_cnt, page_using_cnt,
                      page_free_cnt, total_page_lnk, granted, regranted>>
      BY <2>1, <2>2 DEF Refuse, counters
    <3>3. BitmapAgreesWithPages' /\ CountersExact' /\ KernelInUse'
      BY <3>2 DEF IInv, BitmapAgreesWithPages, CountersExact, KernelInUse,
                  Pages, ZoneIds, PagesLinkedTo, Fresh
    <3>4. TypeOK'
      BY <3>1, <3>2 DEF IInv, TypeOK, Pages, ZoneIds
    <3> QED
      BY <3>3, <3>4 DEF IInv
  <2>3. CASE Grant(zone_select, number, flags)
    <3>0. PICK i \in Candidates(zone_select, number) :
             \E h \in Hits(mem.zones[i], number) :
                LET page == ReturnedPage(h[1], h[2])
                    run  == page .. (page + number - 1)
                IN  /\ PageInitRun(run, flags)
                    /\ Return(zone_select, number, IF mode' = "up" THEN "page" ELSE "none")
                    /\ granted' = IF mode' = "up" THEN granted \cup run ELSE granted
                    /\ regranted' = IF mode' = "up" THEN regranted \cup (granted \cap run)
                                    ELSE regranted
      BY <2>3 DEF Grant
    <3>1. PICK h \in Hits(mem.zones[i], number) :
             LET page == ReturnedPage(h[1], h[2])
                 run  == page .. (page + number - 1)
             IN  /\ PageInitRun(run, flags)
                 /\ Return(zone_select, number, IF mode' = "up" THEN "page" ELSE "none")
                 /\ granted' = IF mode' = "up" THEN granted \cup run ELSE granted
                 /\ regranted' = IF mode' = "up" THEN regranted \cup (granted \cap run)
                                 ELSE regranted
      BY <3>0
    <3> DEFINE page == ReturnedPage(h[1], h[2])
               run  == page .. (page + number - 1)
    <3>2. run \in SUBSET Int
      BY <2>1, ZoneRangeSound, RunInInt DEF Candidates, ZoneIds
    <3>3. /\ PageInitRun(run, flags)
          /\ call' = [zone_select |-> zone_select, number |-> number,
                      ret |-> IF mode' = "up" THEN "page" ELSE "none"]
          /\ granted' \in {granted, granted \cup run}
          /\ regranted' \in {regranted, regranted \cup (granted \cap run)}
      BY <3>1 DEF Return
    <3> HIDE DEF run
    <3>4. granted' \subseteq Int /\ regranted' \subseteq Int
      BY <3>2, <3>3 DEF IInv, TypeOK
    <3>5. call' \in [zone_select : ZoneSelects \cup {"none"}, number : 0 .. W,
                     ret : {"NULL", "page", "none"}]
      BY <2>1, <3>3
    <3>6. /\ bits_map' \subseteq 0 .. (mem.npages + W - 2 + W)
          /\ attribute' \in [Pages -> SUBSET Flags]
          /\ ref_cnt' \in [Pages -> Nat]
          /\ page_using_cnt' \in [ZoneIds -> 0 .. mem.npages]
          /\ page_free_cnt' \in [ZoneIds -> Int]
          /\ total_page_lnk' \in [ZoneIds -> Nat]
          /\ mode' \in {"up", "halted"}
          /\ BitmapAgreesWithPages' /\ CountersExact' /\ KernelInUse'
      BY <2>1, <3>2, <3>3, PageInitRunInv
    <3> QED
      BY <2>1, <3>4, <3>5, <3>6 DEF IInv, TypeOK, Pages, ZoneIds
  <2> QED
    BY <2>2, <2>3 DEF alloc_pages
<1> QED
  BY <1>1, <1>2 DEF Next

-----------------------------------------------------------------------------
\* Every state of a running system satisfies the invariant.
THEOREM SpecIInv == Spec => []IInv
  BY InitIInv, NextIInv, PTL DEF Spec

\* The variables of alloc_pages and page_init keep their types, and no zone
\* ever counts more pages in use than the machine has.
THEOREM TypeCorrect == Spec => []TypeOK
<1>1. IInv => TypeOK
  BY DEF IInv
<1> QED
  BY <1>1, SpecIInv, PTL

\* The bit map alloc_pages searches and the page table page_init writes never
\* disagree, on any memory, whatever pages the search returns.
THEOREM BitmapAgrees == Spec => []BitmapAgreesWithPages
<1>1. IInv => BitmapAgreesWithPages
  BY DEF IInv
<1> QED
  BY <1>1, SpecIInv, PTL

\* The zone counters page_init keeps are exact, on any memory.
THEOREM CountersCorrect == Spec => []CountersExact
<1>1. IInv => CountersExact
  BY DEF IInv
<1> QED
  BY <1>1, SpecIInv, PTL

-----------------------------------------------------------------------------
(***************************************************************************)
(* On the memories of OneWord the search returns the pages it tested.      *)
(***************************************************************************)
LEMMA WordArithmetic ==
    ASSUME NEW a \in Int, NEW b \in Int, NEW w \in Nat, w > 1
    PROVE  w * b < w * a => w * b + w <= w * a
<1>1. CASE a <= b
  <2>1. w * a <= w * b
    BY <1>1
  <2> QED
    BY <2>1
<1>2. CASE a >= b + 1
  <2>1. w * a >= w * (b + 1)
    BY <1>2
  <2> QED
    BY <2>1
<1> QED
  BY <1>1, <1>2

\* A zone of a OneWord memory lies in the bits 1 .. W - 2 of one word.
LEMMA ZoneInWord ==
    ASSUME OneWord, NEW L \in Layouts, NEW i \in DOMAIN L.zones
    PROVE  \E q \in Nat : /\ L.zones[i].start = W * q + 1
                          /\ L.zones[i].end < W * q + W
                          /\ W * q \in Nat
                          /\ W * q + W <= BitmapEnd(L)
<1> DEFINE s == L.zones[i].start
           e == L.zones[i].end
<1>1. /\ s \in Nat /\ e \in Nat /\ s < e /\ e <= L.npages /\ L.npages \in Nat
      /\ W \in Nat /\ W > 1
  BY ZoneTypes, LayoutTypes, ConstantTypes
<1>2. s % W = 1 /\ e < s + W - 1
  BY DEF OneWord
<1> HIDE DEF s, e
<1>3. s \div W \in Nat /\ s = W * (s \div W) + 1
  BY <1>1, <1>2, DivMod
<1>4. PICK q \in Nat : s = W * q + 1
  BY <1>3
<1>5. W * q \in Nat
  BY <1>1, <1>4
<1>6. PICK m \in Nat : BitmapEnd(L) = W * m
  <2>1. L.npages + W - 1 \in Nat
    BY <1>1
  <2>2. (L.npages + W - 1) \div W \in Nat
    BY <1>1, <2>1, DivMod
  <2> QED
    BY <1>1, <2>2 DEF BitmapEnd
<1>7. W * m \in Nat /\ L.npages <= W * m
  BY <1>6, BitmapCoversPages
<1>8. W * q < W * m
  BY <1>1, <1>4, <1>5, <1>7
<1>9. W * q + W <= W * m
  BY <1>1, <1>8, WordArithmetic
<1>10. e < W * q + W
  BY <1>1, <1>2, <1>4, <1>5
<1> QED
  BY <1>4, <1>5, <1>6, <1>9, <1>10 DEF s, e

\* So the last bit of a word is never a zone page's.
LEMMA LastBitUnowned ==
    ASSUME OneWord, NEW L \in Layouts, NEW q \in Nat, W * q + W - 1 \in PagesOf(L)
    PROVE  W * q + W - 1 \notin FreedBits(L) /\ W * q + W - 1 # 0
<1>1. W \in Nat /\ W > 1 /\ W * q \in Nat
  BY ConstantTypes
<1>2. ASSUME NEW i \in DOMAIN L.zones, W * q + W - 1 \in ZonePages(L.zones[i])
      PROVE  FALSE
  <2>1. PICK c \in Nat : /\ L.zones[i].start = W * c + 1
                         /\ L.zones[i].end < W * c + W
                         /\ W * c \in Nat
    BY ZoneInWord
  <2>2. L.zones[i].start \in Nat /\ L.zones[i].end \in Nat
    BY ZoneTypes
  <2>3. W * c + 1 <= W * q + W - 1 /\ W * q + W - 1 <= W * c + W - 2
    BY <1>1, <1>2, <2>1, <2>2 DEF ZonePages
  <2>4. W * q < W * c
    BY <1>1, <2>1, <2>3
  <2>5. W * q + W <= W * c
    BY <1>1, <2>4, WordArithmetic
  <2> QED
    BY <1>1, <2>1, <2>3, <2>5
<1> QED
  BY <1>1, <1>2 DEF FreedBits

(***************************************************************************)
(* Ownership: what was granted, and what is under the kernel, has its bit  *)
(* set, and so do the bits beyond the last page.                           *)
(***************************************************************************)
Owned ==
    /\ NoDoubleGrant
    /\ NeverHalts
    /\ granted \cup KernelPages(mem) \subseteq bits_map
    /\ mem.npages .. (BitmapEnd(mem) - 1) \subseteq bits_map

\* The run alloc_pages takes is the run it tested, and belongs to one zone.
LEMMA RunIsFree ==
    ASSUME OneWord, IInv, Owned, NEW i \in ZoneIds, NEW number \in 1 .. W,
           NEW h \in Hits(mem.zones[i], number)
    PROVE  LET page == ReturnedPage(h[1], h[2])
               run  == page .. (page + number - 1)
           IN  /\ run \subseteq FreePages
               /\ run \cap bits_map = {}
               /\ page \in run
<1> DEFINE s == mem.zones[i].start
           e == mem.zones[i].end
           page == ReturnedPage(h[1], h[2])
           run == page .. (page + number - 1)
<1>1. mem \in Layouts /\ i \in DOMAIN mem.zones
  BY DEF IInv, TypeOK, ZoneIds
<1>2. PICK q \in Nat : /\ s = W * q + 1 /\ e < W * q + W
                       /\ W * q \in Nat
                       /\ W * q + W <= BitmapEnd(mem)
  BY <1>1, ZoneInWord
<1>3. /\ s \in Nat /\ e \in Nat /\ W \in Nat /\ W > 1
      /\ mem.npages \in Nat /\ BitmapEnd(mem) \in Nat
  BY <1>1, ZoneTypes, LayoutTypes, ConstantTypes, BitmapCoversPages
<1>4. s % W = 1
  BY <1>1 DEF OneWord
<1>5. /\ h[1] \in Steps(mem.zones[i]) /\ h[2] \in Offsets(h[1])
      /\ TestedPages(h[1], h[2], number) \cap bits_map = {}
  BY DEF Hits
<1>6. h[1] = s
  <2>1. h[1] \in s .. e /\ (h[1] = s \/ h[1] % W = 0)
    BY <1>5 DEF Steps
  <2>2. ASSUME h[1] # s, NEW j \in Nat, j = h[1]
        PROVE  FALSE
    <3>1. j % W = 0 /\ W * q < j /\ j < W * q + W
      BY <1>2, <1>3, <2>1, <2>2
    <3>2. PICK c \in Nat : j = W * c
      BY <1>3, <3>1, DivMod
    <3>3. W * q + W <= W * c
      BY <1>2, <1>3, <3>1, <3>2, WordArithmetic
    <3> QED
      BY <1>2, <1>3, <3>1, <3>2, <3>3
  <2>3. h[1] \in Nat
    BY <1>3, <2>1
  <2> QED
    BY <2>2, <2>3
<1>7. h[2] \in 1 .. (W - 2)
  BY <1>3, <1>4, <1>5, <1>6 DEF Offsets
<1>8. page \in Nat /\ page = W * q + h[2]
  BY <1>2, <1>3, <1>6, <1>7 DEF ReturnedPage
<1>9. run \cap bits_map = {}
  <2>1. run \subseteq TestedPages(h[1], h[2], number)
    <3>1. h[1] - (h[1] % W) = W * q
      BY <1>2, <1>3, <1>4, <1>6
    <3> QED
      BY <3>1, <1>7, <1>8 DEF TestedPages
  <2> QED
    BY <1>5, <2>1
<1>10. W * q + W - 1 \in bits_map
  <2>1. CASE W * q + W - 1 >= mem.npages
    <3>1. W * q + W - 1 \in mem.npages .. (BitmapEnd(mem) - 1)
      BY <1>2, <1>3, <2>1
    <3> QED
      BY <3>1 DEF Owned
  <2>2. CASE W * q + W - 1 < mem.npages
    <3>1. W * q + W - 1 \in Pages
      BY <1>2, <1>3, <2>2 DEF Pages, PagesOf
    <3>2. ZoneOf(mem, W * q + W - 1) = 0
      BY <1>1, <3>1, LastBitUnowned, ZoneOfSound DEF Pages
    <3> QED
      BY <3>1, <3>2 DEF IInv, BitmapAgreesWithPages
  <2> QED
    BY <1>2, <1>3, <2>1, <2>2
<1>11. page \in run /\ \A p \in run : p \in Nat /\ p < W * q + W - 1
  <2>1. number \in Nat /\ number >= 1
    BY <1>3
  <2>2. page \in run
    BY <1>8, <2>1
  <2>3. ASSUME NEW p \in run PROVE p \in Nat /\ p < W * q + W - 1
    <3>1. p \in Nat /\ page <= p /\ p <= page + number - 1
      BY <1>8, <2>1
    <3>2. W * q + W - 1 \in run \/ p < W * q + W - 1
      BY <1>2, <1>3, <1>7, <1>8, <2>1, <3>1
    <3> QED
      BY <1>9, <1>10, <3>1, <3>2
  <2> QED
    BY <2>2, <2>3
<1>12. ASSUME NEW p \in run PROVE p \in FreePages
  <2>1. p \in Nat /\ p < W * q + W - 1 /\ p \notin bits_map
    BY <1>9, <1>11
  <2>2. p < mem.npages
    <3>1. p \notin mem.npages .. (BitmapEnd(mem) - 1)
      BY <2>1 DEF Owned
    <3> QED
      BY <1>2, <1>3, <2>1, <3>1
  <2>3. p \in Pages
    BY <1>3, <2>1, <2>2 DEF Pages, PagesOf
  <2> QED
    BY <2>1, <2>3 DEF IInv, BitmapAgreesWithPages, FreePages, Fresh
<1> QED
  BY <1>9, <1>11, <1>12

LEMMA InitOwned == Init => Owned
<1> SUFFICES ASSUME Init
             PROVE  Owned
  OBVIOUS
<1>1. PICK L \in Layouts : InitMemory(L)
  BY DEF Init
<1>2. L.npages \in Nat /\ BitmapEnd(L) \in Nat
  BY BitmapCoversPages, LayoutTypes
<1>3. mem = L /\ mode = "up" /\ granted = {} /\ regranted = {}
  BY <1>1 DEF InitMemory, Init
<1>4. KernelPages(L) \subseteq bits_map
  BY <1>1 DEF InitMemory
<1>5. L.npages .. (BitmapEnd(L) - 1) \subseteq bits_map
  <2>1. FreedBits(L) \cap L.npages .. (BitmapEnd(L) - 1) = {}
    BY <1>2 DEF FreedBits, PagesOf
  <2>2. L.npages .. (BitmapEnd(L) - 1) \subseteq 0 .. (BitmapEnd(L) - 1)
    BY <1>2
  <2> QED
    BY <1>1, <2>1, <2>2 DEF InitMemory
<1> QED
  BY <1>3, <1>4, <1>5 DEF Owned, NoDoubleGrant, NeverHalts

\* One call, seen from the pool: nothing, or a run of free pages taken.
LEMMA StepOwned ==
    ASSUME OneWord, IInv, Owned, [Next]_vars
    PROVE  Owned' /\ [Pool!PoolNext]_<<FreePages, granted>>
<1> mem \in Layouts
  BY DEF IInv, TypeOK
<1>1. CASE UNCHANGED <<mem, mode, bits_map, attribute, granted, regranted>>
  BY <1>1 DEF Owned, NoDoubleGrant, NeverHalts, FreePages, Pages, Fresh
<1>2. ASSUME NEW zone_select \in ZoneSelects, NEW number \in 1 .. W, NEW flags \in FlagSets,
             mem' = mem, Grant(zone_select, number, flags)
      PROVE  Owned' /\ Pool!PoolNext
  <2>1. PICK i \in Candidates(zone_select, number) :
           \E h \in Hits(mem.zones[i], number) :
              LET page == ReturnedPage(h[1], h[2])
                  run  == page .. (page + number - 1)
              IN  /\ PageInitRun(run, flags)
                  /\ granted' = IF mode' = "up" THEN granted \cup run ELSE granted
                  /\ regranted' = IF mode' = "up" THEN regranted \cup (granted \cap run)
                                  ELSE regranted
    BY <1>2 DEF Grant
  <2>2. i \in ZoneIds
    BY ZoneRangeSound DEF Candidates
  <2>3. PICK h \in Hits(mem.zones[i], number) :
           LET page == ReturnedPage(h[1], h[2])
               run  == page .. (page + number - 1)
           IN  /\ PageInitRun(run, flags)
               /\ granted' = IF mode' = "up" THEN granted \cup run ELSE granted
               /\ regranted' = IF mode' = "up" THEN regranted \cup (granted \cap run)
                               ELSE regranted
    BY <2>1
  <2> DEFINE page == ReturnedPage(h[1], h[2])
             run  == page .. (page + number - 1)
  <2>4. run \subseteq FreePages /\ run \cap bits_map = {} /\ page \in run
    BY <2>2, RunIsFree
  <2>5. run \in SUBSET Int
    BY <2>2, RunInInt DEF ZoneIds
  <2>6. /\ PageInitRun(run, flags)
        /\ granted' = IF mode' = "up" THEN granted \cup run ELSE granted
        /\ regranted' = IF mode' = "up" THEN regranted \cup (granted \cap run) ELSE regranted
    BY <2>3
  <2>7. Pool!Take(page, number) = (/\ run \subseteq FreePages
                                   /\ FreePages' = FreePages \ run
                                   /\ granted' = granted \cup run)
    BY DEF Pool!Take
  <2> HIDE DEF run, page
  <2>8. Bad(run) = {}
    BY <2>4 DEF Bad, FreePages
  <2>9. mode' = "up" /\ granted' = granted \cup run /\ regranted' = regranted \cup (granted \cap run)
    BY <2>6, <2>8 DEF PageInitRun
  <2>10. Done(run) = run /\ Faulting(run) = {}
    BY <2>5, <2>8, RunFacts
  <2>11. bits_map' = bits_map \cup run
    BY <2>4, <2>6, <2>10 DEF PageInitRun, SetsBit, FreePages
  <2>12. FreePages' = FreePages \ run
    <3>1. flags # {}
      BY FlagTypes
    <3>2. \A p \in Pages : Fresh(p)' <=> Fresh(p) /\ p \notin run
      BY <2>6, <2>10, <3>1 DEF PageInitRun, Fresh
    <3> QED
      BY <1>2, <3>2 DEF FreePages, Pages
  <2>13. Pool!PoolNext
    BY <2>4, <2>7, <2>9, <2>12 DEF Pool!PoolNext
  <2>14. Owned'
    BY <1>2, <2>4, <2>9, <2>11 DEF Owned, NoDoubleGrant, NeverHalts
  <2> QED
    BY <2>13, <2>14
<1> QED
  BY <1>1, <1>2 DEF Next, alloc_pages, Refuse, vars

-----------------------------------------------------------------------------
\* Where the search is right (OneWord) no page is handed out twice, and none
\* that lies under the kernel.
THEOREM OneWordNoDoubleGrant == ASSUME OneWord PROVE Spec => []NoDoubleGrant
<1>1. Owned => NoDoubleGrant
  BY DEF Owned
<1>2. IInv /\ Owned /\ [Next]_vars => Owned'
  BY StepOwned
<1> QED
  BY <1>1, <1>2, InitOwned, SpecIInv, PTL DEF Spec

\* There alloc_pages never faults on a page no zone owns.
THEOREM OneWordNeverHalts == ASSUME OneWord PROVE Spec => []NeverHalts
<1>1. Owned => NeverHalts
  BY DEF Owned
<1>2. IInv /\ Owned /\ [Next]_vars => Owned'
  BY StepOwned
<1> QED
  BY <1>1, <1>2, InitOwned, SpecIInv, PTL DEF Spec

\* There memory.c implements the pool of pages it is meant to be.
THEOREM OneWordImplementsPool == ASSUME OneWord PROVE Spec => ImplementsPool
<1>1. Init => Pool!PoolInit
  <2> SUFFICES ASSUME Init
               PROVE  Pool!PoolInit
    OBVIOUS
  <2>1. mem \in Layouts
    BY InitIInv DEF IInv, TypeOK
  <2>2. FreePages \subseteq Nat
    BY <2>1, LayoutTypes DEF FreePages, Pages, PagesOf
  <2> QED
    BY <2>2 DEF Pool!PoolInit, Init
<1>2. IInv /\ Owned /\ [Next]_vars => Owned'
  BY StepOwned
<1>3. IInv /\ Owned /\ [Next]_vars => [Pool!PoolNext]_Pool!poolVars
  BY StepOwned DEF Pool!poolVars
<1> QED
  BY <1>1, <1>2, <1>3, InitOwned, SpecIInv, PTL DEF Spec, ImplementsPool, Pool!PoolSpec

-----------------------------------------------------------------------------
(***************************************************************************)
(* A refusal.  page 0 counts as the first zone's without being one of its  *)
(* length, so that a zone's free count may be one short of its free pages. *)
(***************************************************************************)
LEMMA ZoneOfZonePage ==
    ASSUME NEW L \in Layouts, NEW i \in DOMAIN L.zones, NEW p \in ZonePages(L.zones[i]), p # 0
    PROVE  p \in PagesOf(L) /\ ZoneOf(L, p) # 0
<1>1. p \in PagesOf(L)
  <2>1. /\ L.zones[i].start \in Nat /\ L.zones[i].end \in Nat /\ L.npages \in Nat
        /\ L.zones[i].end <= L.npages
    BY ZoneTypes, LayoutTypes
  <2> QED
    BY <2>1 DEF ZonePages, PagesOf
<1>2. p \in FreedBits(L)
  BY <1>1 DEF FreedBits
<1> QED
  BY <1>1, <1>2, ZoneOfSound

LEMMA LinkedPages ==
    ASSUME NEW L \in Layouts, NEW i \in DOMAIN L.zones, NEW p \in PagesOf(L), ZoneOf(L, p) = i
    PROVE  p = 0 \/ p \in ZonePages(L.zones[i])
<1> DEFINE covering == {k \in DOMAIN L.zones : p \in ZonePages(L.zones[k])}
<1> SUFFICES ASSUME p # 0 PROVE p \in ZonePages(L.zones[i])
  OBVIOUS
<1>1. i # 0
  BY LayoutTypes
<1>2. p \in FreedBits(L)
  BY <1>1, ZoneOfSound
<1>3. PICK k \in covering : TRUE
  BY <1>2 DEF FreedBits
<1>4. \A m \in covering : m <= k
  <2>1. ASSUME NEW m \in covering PROVE m = k
    <3>1. ZonePages(L.zones[m]) \cap ZonePages(L.zones[k]) # {}
      BY <1>3, <2>1
    <3> QED
      BY <1>3, <2>1, <3>1, LayoutAssumption DEF LayoutAssumption, SaneLayout
  <2>2. k \in Nat
    BY <1>3, LayoutTypes
  <2> QED
    BY <2>1, <2>2
<1>5. (CHOOSE c \in covering : \A m \in covering : m <= c) \in covering
  BY <1>3, <1>4
<1>6. ZoneOf(L, p) = CHOOSE c \in covering : \A m \in covering : m <= c
  BY <1>3 DEF ZoneOf
<1> QED
  BY <1>5, <1>6

\* A zone with number + 1 pages in a row free has the count for number of them.
LEMMA RunIsCounted ==
    ASSUME IInv, NEW i \in ZoneIds, NEW number \in Nat, NEW first \in Nat,
           first # 0, first .. (first + number) \subseteq ZonePages(mem.zones[i]),
           \A p \in first .. (first + number) : Fresh(p)
    PROVE  EnoughFree(i, number)
<1> DEFINE run == first .. (first + number)
           zone == ZonePages(mem.zones[i])
           used == {p \in PagesLinkedTo(i) : ~Fresh(p)}
<1>1. mem \in Layouts /\ i \in DOMAIN mem.zones
  BY DEF IInv, TypeOK, ZoneIds
<1>2. /\ mem.zones[i].start \in Nat /\ mem.zones[i].end \in Nat
      /\ mem.zones[i].start < mem.zones[i].end /\ PageLen(mem, i) \in Int
      /\ PageLen(mem, i) = mem.zones[i].end - mem.zones[i].start
  BY <1>1, ZoneTypes DEF PageLen
<1>3. IsFiniteSet(zone) /\ Cardinality(zone) = PageLen(mem, i)
  <2> DEFINE a == mem.zones[i].start
             b == mem.zones[i].end - 1
  <2>1. /\ a \in Int /\ b \in Int /\ ~(a > b) /\ b - a + 1 = PageLen(mem, i)
        /\ zone = a .. b
    BY <1>2 DEF ZonePages
  <2> HIDE DEF a, b, zone
  <2> QED
    BY <2>1, FS_Interval
<1>4. IsFiniteSet(run) /\ Cardinality(run) = number + 1
  <2>1. first \in Int /\ first + number \in Int /\ ~(first > first + number)
        /\ (first + number) - first + 1 = number + 1
    OBVIOUS
  <2> QED
    BY <2>1, FS_Interval
<1>5. used \cup run \subseteq zone \cup {0} /\ used \cap run = {}
  <2>1. used \subseteq zone \cup {0}
    BY <1>1, LinkedPages DEF PagesLinkedTo, Pages
  <2> QED
    BY <2>1
<1>6. used \subseteq PagesOf(mem)
  BY DEF PagesLinkedTo, Pages
<1>7. run \subseteq PagesOf(mem)
  <2>1. \A p \in run : p \in zone /\ p # 0
    BY DEF ZonePages
  <2> QED
    BY <1>1, <2>1, ZoneOfZonePage
<1> HIDE DEF run, zone, used
<1>8. Cardinality(used \cup run) = Cardinality(used) + (number + 1)
  BY <1>1, <1>4, <1>5, <1>6, <1>7, CountStep
<1>9. IsFiniteSet(zone \cup {0}) /\ Cardinality(zone \cup {0}) <= PageLen(mem, i) + 1
  <2>1. /\ IsFiniteSet(zone \cup {0})
        /\ Cardinality(zone \cup {0}) = Cardinality(zone)
           \/ Cardinality(zone \cup {0}) = Cardinality(zone) + 1
    BY <1>3, FS_AddElement
  <2> QED
    BY <1>2, <1>3, <2>1
<1>10. Cardinality(used \cup run) <= Cardinality(zone \cup {0})
  BY <1>5, <1>9, FS_Subset
<1>11. Cardinality(used) \in Nat
  BY <1>1, <1>6, PagesFinite
<1>12. Cardinality(zone \cup {0}) \in Nat
  BY <1>9, FS_CardinalityType
<1>13. /\ page_using_cnt[i] = Cardinality(used)
       /\ page_using_cnt[i] + page_free_cnt[i] = PageLen(mem, i)
       /\ page_free_cnt[i] \in Int
  BY DEF IInv, CountersExact, TypeOK, used
<1>14. page_free_cnt[i] >= number
  BY <1>2, <1>8, <1>9, <1>10, <1>11, <1>12, <1>13
<1> QED
  BY <1>14 DEF EnoughFree

\* Where there is no hit no run of the zone that ends before its last page is free.
LEMMA NoHitNoRun ==
    ASSUME OneWord, IInv, NEW i \in ZoneIds, NEW number \in 1 .. W,
           Hits(mem.zones[i], number) = {},
           NEW first \in ZonePages(mem.zones[i]), first + number < mem.zones[i].end
    PROVE  \E p \in first .. (first + number) : ~Fresh(p)
<1> DEFINE s == mem.zones[i].start
           e == mem.zones[i].end
<1>1. mem \in Layouts /\ i \in DOMAIN mem.zones
  BY DEF IInv, TypeOK, ZoneIds
<1>2. PICK q \in Nat : s = W * q + 1 /\ e < W * q + W /\ W * q \in Nat
  BY <1>1, ZoneInWord
<1>3. s \in Nat /\ e \in Nat /\ s < e /\ W \in Nat /\ W > 1
  BY <1>1, ZoneTypes, ConstantTypes
<1>4. s % W = 1
  BY <1>1 DEF OneWord
<1>5. first \in Nat /\ s <= first /\ first + number < e
  BY <1>3 DEF ZonePages
<1>6. PICK base \in Nat : base = W * q /\ s = base + 1 /\ e < base + W
  BY <1>2
<1> DEFINE k == first - base
<1>7. k \in 1 .. (W - 2) /\ k \in 0 .. (W - 1) /\ base + k = first /\ k # 0
  BY <1>3, <1>5, <1>6
<1>8. s \in Steps(mem.zones[i])
  BY <1>3 DEF Steps
<1>9. k \in Offsets(s)
  BY <1>3, <1>4, <1>7 DEF Offsets
<1>10. TestedPages(s, k, number) = first .. (first + number - 1)
  <2>1. s - (s % W) = base
    BY <1>3, <1>4, <1>6
  <2> QED
    BY <1>7, <2>1 DEF TestedPages
<1>11. <<s, k>> \notin Hits(mem.zones[i], number)
  OBVIOUS
<1>12. <<s, k>> \in Steps(mem.zones[i]) \X (0 .. W - 1)
  BY <1>7, <1>8
<1>13. TestedPages(s, k, number) \cap bits_map # {}
  BY <1>9, <1>11, <1>12 DEF Hits
<1>14. PICK p \in first .. (first + number - 1) : p \in bits_map
  BY <1>10, <1>13
<1>15. p \in first .. (first + number) /\ p \in ZonePages(mem.zones[i]) /\ p # 0
  BY <1>3, <1>5, <1>6, <1>14 DEF ZonePages
<1>16. p \in Pages /\ ZoneOf(mem, p) # 0
  BY <1>1, <1>15, ZoneOfZonePage DEF Pages
<1>17. ~Fresh(p)
  BY <1>14, <1>16 DEF IInv, BitmapAgreesWithPages, Fresh
<1> QED
  BY <1>15, <1>17

LEMMA StepHonest ==
    ASSUME OneWord, IInv, RefusalHonest, [Next]_vars
    PROVE  RefusalHonest'
<1>1. CASE UNCHANGED vars
  <2>1. call' = call /\ mem' = mem /\ attribute' = attribute
    BY <1>1 DEF vars
  <2>2. \A z : ZoneRange(z)' = ZoneRange(z)
    BY <2>1 DEF ZoneRange, UnmappedFirst, ZoneIds
  <2>3. \A p : Fresh(p)' <=> Fresh(p)
    BY <2>1 DEF Fresh
  <2> QED
    BY <2>1, <2>2, <2>3 DEF RefusalHonest
<1>2. ASSUME NEW zone_select \in ZoneSelects, NEW number \in 1 .. W, NEW flags \in FlagSets,
             Grant(zone_select, number, flags)
      PROVE  RefusalHonest'
  <2>1. call'.ret # "NULL"
    BY <1>2 DEF Grant, Return
  <2> QED
    BY <2>1 DEF RefusalHonest
<1>3. ASSUME NEW zone_select \in ZoneSelects, NEW number \in 1 .. W,
             UNCHANGED mem, Refuse(zone_select, number)
      PROVE  RefusalHonest'
  <2>1. /\ call' = [zone_select |-> zone_select, number |-> number, ret |-> "NULL"]
        /\ UNCHANGED attribute /\ Candidates(zone_select, number) = {}
    BY <1>3 DEF Refuse, Return
  <2>2. ASSUME NEW i \in ZoneRange(zone_select), NEW first \in ZonePages(mem.zones[i]),
               first + number < mem.zones[i].end
        PROVE  \E p \in first .. (first + number) : ~Fresh(p)
    <3>1. mem \in Layouts /\ i \in ZoneIds
      BY ZoneRangeSound DEF IInv, TypeOK
    <3>2. ~EnoughFree(i, number) \/ Hits(mem.zones[i], number) = {}
      BY <2>1 DEF Candidates
    <3>3. CASE Hits(mem.zones[i], number) = {}
      BY <2>2, <3>1, <3>3, NoHitNoRun
    <3>4. CASE ~EnoughFree(i, number)
      <4>1. /\ mem.zones[i].start \in Nat /\ mem.zones[i].end \in Nat
            /\ mem.zones[i].start % W = 1 /\ W \in Nat /\ W > 1
        BY <3>1, ZoneTypes, ConstantTypes DEF OneWord, ZoneIds
      <4>2. first \in Nat /\ number \in Nat /\ first # 0
        BY <4>1 DEF ZonePages
      <4>3. first .. (first + number) \subseteq ZonePages(mem.zones[i])
        BY <2>2, <4>1, <4>2 DEF ZonePages
      <4> QED
        BY <3>1, <3>4, <4>2, <4>3, RunIsCounted
    <3> QED
      BY <3>2, <3>3, <3>4
  <2>3. ZoneRange(zone_select)' = ZoneRange(zone_select) /\ \A p : Fresh(p)' <=> Fresh(p)
    BY <1>3, <2>1 DEF ZoneRange, UnmappedFirst, ZoneIds, Fresh
  <2> QED
    BY <1>3, <2>1, <2>2, <2>3 DEF RefusalHonest
<1> QED
  BY <1>1, <1>2, <1>3 DEF Next, alloc_pages

\* There a NULL from alloc_pages means what its caller takes it to mean, but for
\* the one page the counter may be short of.
THEOREM OneWordRefusalHonest == ASSUME OneWord PROVE Spec => []RefusalHonest
<1>1. Init => RefusalHonest
  BY DEF Init, RefusalHonest, NoCall
<1>2. IInv /\ RefusalHonest /\ [Next]_vars => RefusalHonest'
  BY StepHonest
<1> QED
  BY <1>1, <1>2, SpecIInv, PTL DEF Spec

-----------------------------------------------------------------------------
(***************************************************************************)
(* Sums over finite sets, as MapThenSumSet adds them up: by a function on  *)
(* the subsets of the set, each one element more than another.  What is    *)
(* shown of every subset is shown by looking at a smallest counterexample. *)
(***************************************************************************)
\* The natural numbers are well-founded.
LEMMA LeastNat ==
    ASSUME NEW T \in SUBSET Nat, T # {}
    PROVE  \E m \in T : \A k \in T : m <= k
<1> DEFINE R == OpToRel(<, Nat)
<1>1. IsWellFoundedOn(R, Nat)
  BY NatLessThanWellFounded
<1>2. \A x, y \in Nat : <<y, x>> \in R <=> y < x
  BY DEF OpToRel
<1> HIDE DEF R
<1>3. PICK m \in T : \A y \in T : ~(<<y, m>> \in R)
  BY <1>1, WFMin
<1>4. ASSUME NEW k \in T
      PROVE  m <= k
  <2>1. m \in Nat /\ k \in Nat
    OBVIOUS
  <2>2. ~(k < m)
    BY <1>2, <1>3, <2>1
  <2> QED
    BY <2>1, <2>2
<1> QED
  BY <1>4

\* Some member of a family of subsets of a finite set has the fewest elements.
LEMMA SmallestSet ==
    ASSUME NEW S, IsFiniteSet(S), NEW B \in SUBSET (SUBSET S), B # {}
    PROVE  \E s \in B : \A t \in B : Cardinality(s) <= Cardinality(t)
<1> DEFINE T == {Cardinality(s) : s \in B}
<1>1. \A s \in B : Cardinality(s) \in Nat
  BY FS_Subset, FS_CardinalityType
<1>2. T \in SUBSET Nat /\ T # {}
  BY <1>1
<1>3. PICK m \in T : \A k \in T : m <= k
  <2> HIDE DEF T
  <2> QED
    BY <1>2, LeastNat
<1>4. PICK s \in B : m = Cardinality(s)
  OBVIOUS
<1>5. \A t \in B : Cardinality(t) \in T
  OBVIOUS
<1> QED
  BY <1>3, <1>4, <1>5

\* The element a sum takes first, the sum of a subset s by a function g that
\* knows the smaller ones, and the functions that add every subset up that way.
AnyOf(s) == CHOOSE x \in s : TRUE
SumOver(c, S, s, g) == IF s = {} THEN 0 ELSE c[AnyOf(s)] + g[s \ {AnyOf(s)}]
SumFn(c, S, g) == g = [s \in SUBSET S |-> SumOver(c, S, s, g)]

\* What is left of a set once its first element is taken is smaller by one.
LEMMA AnyRemoved ==
    ASSUME NEW S, IsFiniteSet(S), NEW s \in SUBSET S, s # {}
    PROVE  /\ AnyOf(s) \in s
           /\ s \ {AnyOf(s)} \in SUBSET S
           /\ Cardinality(s) \in Nat
           /\ Cardinality(s \ {AnyOf(s)}) \in Nat
           /\ Cardinality(s) = Cardinality(s \ {AnyOf(s)}) + 1
<1>1. AnyOf(s) \in s
  BY DEF AnyOf
<1>2. IsFiniteSet(s)
  BY FS_Subset
<1>3. /\ IsFiniteSet(s \ {AnyOf(s)})
      /\ Cardinality(s \ {AnyOf(s)}) = Cardinality(s) - 1
  BY <1>1, <1>2, FS_RemoveElement
<1>4. Cardinality(s) \in Nat /\ Cardinality(s \ {AnyOf(s)}) \in Nat
  BY <1>2, <1>3, FS_CardinalityType
<1> QED
  BY <1>1, <1>3, <1>4

\* Such a function exists: one that is right for the subsets of up to n elements
\* gives one that is right for those of n + 1.
LEMMA SumFnExists ==
    ASSUME NEW S, IsFiniteSet(S), NEW c
    PROVE  \E g : SumFn(c, S, g)
<1> DEFINE Upto(n, g) == \A s \in SUBSET S : Cardinality(s) <= n => g[s] = SumOver(c, S, s, g)
           Missing == {n \in Nat : ~ \E g : Upto(n, g)}
<1>1. Upto(0, [s \in SUBSET S |-> 0])
  <2> SUFFICES ASSUME NEW s \in SUBSET S, Cardinality(s) <= 0
               PROVE  s = {}
    BY DEF SumOver
  <2>1. IsFiniteSet(s) /\ Cardinality(s) \in Nat
    BY FS_Subset, FS_CardinalityType
  <2> QED
    BY <2>1, FS_EmptySet
<1>2. ASSUME NEW n \in Nat, NEW g, Upto(n, g)
      PROVE  \E h : Upto(n + 1, h)
  <2> DEFINE h == [s \in SUBSET S |-> IF Cardinality(s) <= n THEN g[s] ELSE SumOver(c, S, s, g)]
  <2>1. \A s \in SUBSET S : h[s] = SumOver(c, S, s, g)
    BY <1>2
  <2>2. ASSUME NEW s \in SUBSET S, Cardinality(s) <= n + 1
        PROVE  h[s] = SumOver(c, S, s, h)
    <3>1. CASE s = {}
      BY <2>1, <3>1 DEF SumOver
    <3>2. CASE s # {}
      <4> DEFINE t == s \ {AnyOf(s)}
      <4>1. t \in SUBSET S /\ Cardinality(t) <= n
        BY <2>2, <3>2, AnyRemoved
      <4>2. h[t] = g[t]
        BY <4>1
      <4> QED
        BY <2>1, <3>2, <4>2 DEF SumOver
    <3> QED
      BY <3>1, <3>2
  <2>3. Upto(n + 1, h)
    BY <2>2
  <2> QED
    BY <2>3
<1>3. Missing = {}
  <2> SUFFICES ASSUME Missing # {}
               PROVE  FALSE
    OBVIOUS
  <2>1. PICK m \in Missing : \A k \in Missing : m <= k
    BY LeastNat
  <2>2. m # 0
    BY <1>1
  <2>3. m \in Nat /\ m - 1 \in Nat /\ m - 1 \notin Missing
    <3>1. m \in Nat
      OBVIOUS
    <3> HIDE DEF Missing
    <3> QED
      BY <2>1, <2>2, <3>1
  <2>4. PICK g : Upto(m - 1, g)
    BY <2>3
  <2>5. \E h : Upto(m, h)
    <3> HIDE DEF Upto
    <3>1. \E h : Upto((m - 1) + 1, h)
      BY <1>2, <2>3, <2>4
    <3>2. (m - 1) + 1 = m
      BY <2>3
    <3> QED
      BY <3>1, <3>2
  <2> QED
    BY <2>5
<1>4. Cardinality(S) \in Nat
  BY FS_CardinalityType
<1>5. PICK g : Upto(Cardinality(S), g)
  BY <1>3, <1>4
<1>6. \A s \in SUBSET S : g[s] = SumOver(c, S, s, g)
  BY <1>5, FS_Subset
<1> DEFINE h == [s \in SUBSET S |-> g[s]]
<1>7. ASSUME NEW s \in SUBSET S
      PROVE  h[s] = SumOver(c, S, s, h)
  BY <1>6 DEF SumOver
<1>8. SumFn(c, S, h)
  BY <1>7 DEF SumFn
<1> QED
  BY <1>8

\* The sum the property is stated with is the value of such a function.
LEMMA SumOfDef ==
    ASSUME NEW S, IsFiniteSet(S), NEW c
    PROVE  \E g : SumFn(c, S, g) /\ SumOf(c, S) = g[S]
<1> DEFINE G == CHOOSE g : SumFn(c, S, g)
<1>1. SumOf(c, S) = G[S]
  BY DEF SumOf, MapThenSumSet, MapThenFoldSet, SumFn, SumOver, AnyOf
<1>2. SumFn(c, S, G)
  BY SumFnExists
<1> QED
  BY <1>1, <1>2

\* One element more counts one more of A, or none.
LEMMA CountOneMore ==
    ASSUME NEW S, IsFiniteSet(S), NEW s \in SUBSET S, NEW x \in s, NEW A
    PROVE  /\ Cardinality(s \cap A) =
                (IF x \in A THEN 1 ELSE 0) + Cardinality((s \ {x}) \cap A)
           /\ Cardinality((s \ {x}) \cap A) \in Nat
<1> DEFINE t == (s \ {x}) \cap A
<1>1. IsFiniteSet(t) /\ Cardinality(t) \in Nat
  BY FS_Subset, FS_CardinalityType
<1>2. CASE x \in A
  <2>1. s \cap A = t \cup {x} /\ x \notin t
    BY <1>2
  <2>2. Cardinality(s \cap A) = Cardinality(t) + 1
    <3> HIDE DEF t
    <3> QED
      BY <1>1, <2>1, FS_AddElement
  <2> QED
    BY <1>1, <1>2, <2>2
<1>3. CASE x \notin A
  <2>1. s \cap A = t
    BY <1>3
  <2> QED
    BY <1>1, <1>3, <2>1
<1> QED
  BY <1>2, <1>3

\* A sum of ones and zeroes counts the ones.
LEMMA SumOfOnes ==
    ASSUME NEW S, IsFiniteSet(S), NEW A, NEW c, \A p \in S : c[p] = (IF p \in A THEN 1 ELSE 0)
    PROVE  SumOf(c, S) = Cardinality(S \cap A)
<1>1. PICK g : SumFn(c, S, g) /\ SumOf(c, S) = g[S]
  BY SumOfDef
<1> DEFINE Wrong == {s \in SUBSET S : g[s] # Cardinality(s \cap A)}
<1>2. Wrong = {}
  <2> SUFFICES ASSUME Wrong # {}
               PROVE  FALSE
    OBVIOUS
  <2>1. PICK s \in Wrong : \A t \in Wrong : Cardinality(s) <= Cardinality(t)
    BY SmallestSet
  <2> DEFINE x == AnyOf(s)
             t == s \ {x}
  <2>2. s \in SUBSET S /\ g[s] = SumOver(c, S, s, g)
    BY <1>1 DEF SumFn
  <2>3. s # {}
    <3> SUFFICES ASSUME s = {}
                 PROVE  FALSE
      OBVIOUS
    <3>1. g[s] = 0
      BY <2>2 DEF SumOver
    <3>2. s \cap A = {} /\ Cardinality({}) = 0
      BY FS_EmptySet
    <3> QED
      BY <3>1, <3>2
  <2>4. /\ x \in s /\ t \in SUBSET S
        /\ Cardinality(t) \in Nat /\ Cardinality(s) = Cardinality(t) + 1
    BY <2>2, <2>3, AnyRemoved
  <2>5. g[t] = Cardinality(t \cap A)
    <3>1. t \notin Wrong
      <4> SUFFICES ASSUME t \in Wrong
                   PROVE  FALSE
        OBVIOUS
      <4> HIDE DEF Wrong, t
      <4>1. Cardinality(s) <= Cardinality(t)
        BY <2>1
      <4> QED
        BY <2>4, <4>1
    <3> QED
      BY <2>4, <3>1
  <2>6. g[s] = c[x] + g[t]
    BY <2>2, <2>3 DEF SumOver
  <2>7. Cardinality(s \cap A) = c[x] + Cardinality(t \cap A)
    BY <2>2, <2>4, CountOneMore
  <2> QED
    BY <2>5, <2>6, <2>7
<1> QED
  BY <1>1, <1>2

\* Raising by one what the elements of A add raises the sum by their number.
LEMMA SumRaised ==
    ASSUME NEW S, IsFiniteSet(S), NEW A, NEW c, \A p \in S : c[p] \in Nat,
           NEW d, \A p \in S : d[p] = c[p] + (IF p \in A THEN 1 ELSE 0)
    PROVE  SumOf(d, S) = SumOf(c, S) + Cardinality(S \cap A)
<1>1. PICK g : SumFn(c, S, g) /\ SumOf(c, S) = g[S]
  BY SumOfDef
<1>2. PICK h : SumFn(d, S, h) /\ SumOf(d, S) = h[S]
  BY SumOfDef
<1> DEFINE Wrong == {s \in SUBSET S : ~(/\ g[s] \in Nat
                                       /\ h[s] = g[s] + Cardinality(s \cap A))}
<1>3. Wrong = {}
  <2> SUFFICES ASSUME Wrong # {}
               PROVE  FALSE
    OBVIOUS
  <2>1. PICK s \in Wrong : \A t \in Wrong : Cardinality(s) <= Cardinality(t)
    BY SmallestSet
  <2> DEFINE x == AnyOf(s)
             t == s \ {x}
  <2>2. s \in SUBSET S /\ g[s] = SumOver(c, S, s, g) /\ h[s] = SumOver(d, S, s, h)
    BY <1>1, <1>2 DEF SumFn
  <2>3. s # {}
    <3> SUFFICES ASSUME s = {}
                 PROVE  FALSE
      OBVIOUS
    <3>1. g[s] = 0 /\ h[s] = 0
      BY <2>2 DEF SumOver
    <3>2. s \cap A = {} /\ Cardinality({}) = 0
      BY FS_EmptySet
    <3> QED
      BY <3>1, <3>2
  <2>4. /\ x \in s /\ t \in SUBSET S
        /\ Cardinality(t) \in Nat /\ Cardinality(s) = Cardinality(t) + 1
    BY <2>2, <2>3, AnyRemoved
  <2>5. g[t] \in Nat /\ h[t] = g[t] + Cardinality(t \cap A)
    <3>1. t \notin Wrong
      <4> SUFFICES ASSUME t \in Wrong
                   PROVE  FALSE
        OBVIOUS
      <4> HIDE DEF Wrong, t
      <4>1. Cardinality(s) <= Cardinality(t)
        BY <2>1
      <4> QED
        BY <2>4, <4>1
    <3> QED
      BY <2>4, <3>1
  <2>6. g[s] = c[x] + g[t] /\ h[s] = d[x] + h[t]
    BY <2>2, <2>3 DEF SumOver
  <2>7. /\ Cardinality(s \cap A) = (IF x \in A THEN 1 ELSE 0) + Cardinality(t \cap A)
        /\ Cardinality(t \cap A) \in Nat
    BY <2>2, <2>4, CountOneMore
  <2>8. c[x] \in Nat /\ d[x] = c[x] + (IF x \in A THEN 1 ELSE 0)
    BY <2>2, <2>4
  <2> HIDE DEF x, t, Wrong
  <2>9. g[s] \in Nat /\ h[s] = g[s] + Cardinality(s \cap A)
    BY <2>5, <2>6, <2>7, <2>8
  <2> QED
    BY <2>2, <2>9 DEF Wrong
<1>4. S \in SUBSET S
  OBVIOUS
<1> QED
  BY <1>1, <1>2, <1>3, <1>4

-----------------------------------------------------------------------------
(***************************************************************************)
(* total_page_lnk is the sum of the references.                            *)
(***************************************************************************)
LEMMA LinkedFinite ==
    ASSUME mem \in Layouts, NEW i
    PROVE  IsFiniteSet(PagesLinkedTo(i))
BY PagesFinite DEF PagesLinkedTo, Pages

\* At boot every page under the kernel is referenced once, and every other not.
LEMMA InitLinks == Init => LinksAreReferences
<1> SUFFICES ASSUME Init, NEW i \in ZoneIds
             PROVE  total_page_lnk[i] = SumOf(ref_cnt, PagesLinkedTo(i))
  BY DEF LinksAreReferences
<1>1. mem \in Layouts /\ InitMemory(mem)
  BY DEF Init, InitMemory
<1>2. /\ \A p \in PagesLinkedTo(i) : ref_cnt[p] = (IF p \in KernelPages(mem) THEN 1 ELSE 0)
      /\ total_page_lnk[i] = KernelCount(mem, i)
  BY <1>1 DEF InitMemory, PagesLinkedTo, Pages, ZoneIds
<1>3. SumOf(ref_cnt, PagesLinkedTo(i)) = Cardinality(PagesLinkedTo(i) \cap KernelPages(mem))
  BY <1>1, <1>2, LinkedFinite, SumOfOnes
<1>4. PagesLinkedTo(i) \cap KernelPages(mem) = {p \in KernelPages(mem) : ZoneOf(mem, p) = i}
  BY <1>1, KernelFacts DEF PagesLinkedTo, Pages
<1> QED
  BY <1>2, <1>3, <1>4 DEF KernelCount

\* page_init adds a link for every reference it adds to a zone's page, on both of
\* its branches; the one it adds to a page no zone has, before it faults, is
\* nobody's link.
LEMMA RunLinks ==
    ASSUME IInv, LinksAreReferences, mode = "up", NEW run \in SUBSET Int,
           NEW flags \in FlagSets, PageInitRun(run, flags), mem' = mem
    PROVE  LinksAreReferences'
<1> DEFINE refs == {p \in Done(run) : TakesRef(p, flags)} \cup Faulting(run)
           links == {p \in Done(run) : AddsLink(p, flags)}
<1> SUFFICES ASSUME NEW i \in ZoneIds
             PROVE  total_page_lnk'[i] = SumOf(ref_cnt', PagesLinkedTo(i))
  BY DEF LinksAreReferences, ZoneIds, PagesLinkedTo, Pages
<1>1. mem \in Layouts /\ i # 0 /\ ref_cnt \in [Pages -> Nat]
  BY LayoutTypes DEF IInv, TypeOK, ZoneIds
<1>2. /\ \A p \in PagesLinkedTo(i) : ref_cnt[p] \in Nat
      /\ \A p \in PagesLinkedTo(i) : ref_cnt'[p] = ref_cnt[p] + (IF p \in refs THEN 1 ELSE 0)
  BY <1>1 DEF PageInitRun, PagesLinkedTo
<1>3. total_page_lnk'[i] = total_page_lnk[i] + Count(links, i)
  BY DEF PageInitRun
<1>4. PagesLinkedTo(i) \cap refs = {p \in links : ZoneOf(mem, p) = i}
  BY <1>1, RunFacts DEF PagesLinkedTo, TakesRef, AddsLink
<1>5. total_page_lnk[i] = SumOf(ref_cnt, PagesLinkedTo(i))
  BY DEF LinksAreReferences
<1>6. SumOf(ref_cnt', PagesLinkedTo(i)) =
          SumOf(ref_cnt, PagesLinkedTo(i)) + Cardinality(PagesLinkedTo(i) \cap refs)
  <2> HIDE DEF refs
  <2> QED
    BY <1>1, <1>2, LinkedFinite, SumRaised
<1> QED
  BY <1>3, <1>4, <1>5, <1>6 DEF Count

LEMMA NextLinks == IInv /\ LinksAreReferences /\ [Next]_vars => LinksAreReferences'
<1> SUFFICES ASSUME IInv, LinksAreReferences, [Next]_vars
             PROVE  LinksAreReferences'
  OBVIOUS
<1>1. CASE UNCHANGED <<mem, counters, ref_cnt>>
  BY <1>1 DEF LinksAreReferences, ZoneIds, PagesLinkedTo, Pages, counters
<1>2. ASSUME NEW zone_select \in ZoneSelects, NEW number \in 1 .. W, NEW flags \in FlagSets,
             mode = "up", UNCHANGED mem, Grant(zone_select, number, flags)
      PROVE  LinksAreReferences'
  <2>1. PICK i \in Candidates(zone_select, number) :
            \E h \in Hits(mem.zones[i], number) :
                LET page == ReturnedPage(h[1], h[2])
                IN  PageInitRun(page .. (page + number - 1), flags)
    BY <1>2 DEF Grant
  <2>2. mem \in Layouts /\ i \in DOMAIN mem.zones
    BY ZoneRangeSound DEF IInv, TypeOK, Candidates, ZoneIds
  <2> QED
    BY <1>2, <2>1, <2>2, RunInInt, RunLinks
<1> QED
  BY <1>1, <1>2 DEF Next, alloc_pages, Refuse, vars

\* The references of a zone's pages are the zone's total_page_lnk, whatever flags
\* the pages are allocated with and however often, on every memory.
THEOREM LinksCorrect == Spec => []LinksAreReferences
<1>1. Init => LinksAreReferences
  BY InitLinks
<1>2. IInv /\ LinksAreReferences /\ [Next]_vars => LinksAreReferences'
  BY NextLinks
<1> QED
  BY <1>1, <1>2, SpecIInv, PTL DEF Spec

=============================================================================
