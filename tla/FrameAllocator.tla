---------------------------- MODULE FrameAllocator ----------------------------
(***************************************************************************)
(* rustOS/src/memory.rs: BootInfoFrameAllocator.                           *)
(*                                                                         *)
(* The bootloader's memory map is a sequence of regions of whole frames,   *)
(* [first, end, usable] with end the frame after the last.  An             *)
(* Option<PhysFrame> is a set of no or one frame.                          *)
(***************************************************************************)
EXTENDS Integers, Sequences, FiniteSets

CONSTANT MemoryMaps     \* the maps the bootloader may hand over

\* What the comment on init asks of its caller: that a frame marked as usable
\* is unused, and so belongs to no second region.
MapAssumption ==
    \A map \in MemoryMaps :
        /\ map \in Seq([first : Nat, end : Nat, usable : BOOLEAN])
        /\ \A i, j \in DOMAIN map :
               map[i].usable /\ map[j].usable /\ i # j =>
                   (map[i].first .. map[i].end - 1) \cap (map[j].first .. map[j].end - 1) = {}

ASSUME MapAssumption

VARIABLES
    mem_map, next,      \* the allocator's fields
    frames              \* history: what its calls returned

framevars == <<mem_map, next, frames>>

\* usable_frames yields <<region, frame>> by region, then by frame.
usable_frames ==
    {s \in (DOMAIN mem_map) \X UNION {mem_map[i].first .. mem_map[i].end - 1 : i \in DOMAIN mem_map} :
        mem_map[s[1]].usable /\ s[2] \in mem_map[s[1]].first .. mem_map[s[1]].end - 1}
Earlier(s) == {t \in usable_frames : t[1] < s[1] \/ (t[1] = s[1] /\ t[2] < s[2])}

\* nth(n): the one with n before it, if there is one.
nth(n) == {s[2] : s \in {t \in usable_frames : Cardinality(Earlier(t)) = n}}

Advance_NoIncrement(n) == n
Advance(n) == n + 1

allocate_frame ==
    /\ next' = Advance(next)
    /\ frames' = Append(frames, nth(next))
    /\ UNCHANGED mem_map

FrameInit == mem_map \in MemoryMaps /\ next = 0 /\ frames = <<>>
FrameSpec == FrameInit /\ [][allocate_frame]_framevars

\* No frame is handed out twice, nor one that is not usable: the page tables that
\* map_to makes of them (memory.rs:47-51, 135) are memory nothing else is in.
FramesDistinct ==
    \A i \in DOMAIN frames :
        /\ frames[i] \subseteq {s[2] : s \in usable_frames}
        /\ \A j \in DOMAIN frames : i # j => frames[i] \cap frames[j] = {}
=============================================================================
