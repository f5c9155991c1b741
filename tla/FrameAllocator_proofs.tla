------------------------ MODULE FrameAllocator_proofs ------------------------
(***************************************************************************)
(* The frames rustOS hands out, on any memory map whose usable regions are *)
(* apart.                                                                  *)
(***************************************************************************)
EXTENDS VgaConsole, TLAPS

\* The i-th call returned the i-th usable frame, if there is one.
FramesInOrder ==
    /\ mem_map \in MemoryMaps
    /\ next \in Nat
    /\ frames \in Seq(SUBSET {s[2] : s \in usable_frames})
    /\ Len(frames) = next
    /\ \A i \in DOMAIN frames : frames[i] = nth(i - 1)

LEMMA InitInOrder == FrameInit => FramesInOrder
BY DEF FrameInit, FramesInOrder

\* usable_frames and nth depend on the map only, which no call changes.
LEMMA StepInOrder == FramesInOrder /\ [allocate_frame]_framevars => FramesInOrder'
<1> SUFFICES ASSUME FramesInOrder, [allocate_frame]_framevars PROVE FramesInOrder'
    OBVIOUS
<1>1. mem_map' = mem_map
    BY DEF allocate_frame, framevars
<1>2. usable_frames' = usable_frames
    BY <1>1 DEF usable_frames
<1>3. \A s : Earlier(s)' = Earlier(s)
    BY <1>2 DEF Earlier
<1>4. \A n : nth(n)' = nth(n)
    BY <1>2, <1>3 DEF nth
<1>5. CASE allocate_frame
  <2> DEFINE Frames == {s[2] : s \in usable_frames}
  <2>1. frames \in Seq(SUBSET Frames) /\ Len(frames) = next /\ next \in Nat
      BY DEF FramesInOrder
  <2>2. nth(next) \in SUBSET Frames
      BY DEF nth
  <2>3. frames' = Append(frames, nth(next)) /\ next' = next + 1
      BY <1>5 DEF allocate_frame, Advance
  <2> HIDE DEF Frames
  <2>4. /\ frames' \in Seq(SUBSET Frames) /\ Len(frames') = next'
        /\ DOMAIN frames' = 1 .. next + 1
      BY <2>1, <2>2, <2>3
  <2>5. \A i \in DOMAIN frames' : frames'[i] = nth(i - 1)
    <3> SUFFICES ASSUME NEW i \in 1 .. next + 1 PROVE frames'[i] = nth(i - 1)
        BY <2>4
    <3>1. CASE i = next + 1
        BY <2>1, <2>3, <3>1
    <3>2. CASE i # next + 1
      <4>1. i \in DOMAIN frames /\ frames'[i] = frames[i]
          BY <2>1, <2>3, <3>2
      <4> QED  BY <4>1 DEF FramesInOrder
    <3> QED  BY <3>1, <3>2
  <2>6. Frames' = Frames
      BY <1>2 DEF Frames
  <2>7. next' \in Nat
      BY <2>1, <2>3
  <2>8. mem_map' \in MemoryMaps
      BY <1>1 DEF FramesInOrder
  <2> QED  BY <1>4, <2>4, <2>5, <2>6, <2>7, <2>8 DEF FramesInOrder, Frames
<1>6. CASE UNCHANGED framevars
    BY <1>2, <1>4, <1>6 DEF FramesInOrder, framevars
<1> QED  BY <1>5, <1>6

\* Two calls return different elements of usable_frames, which differ in their
\* region or in their frame; usable regions share no frame.
LEMMA InOrderDistinct == FramesInOrder => FramesDistinct
<1> SUFFICES ASSUME FramesInOrder, NEW i \in DOMAIN frames
             PROVE  /\ frames[i] \subseteq {s[2] : s \in usable_frames}
                    /\ \A j \in DOMAIN frames : i # j => frames[i] \cap frames[j] = {}
    BY DEF FramesDistinct
<1>1. frames[i] \subseteq {s[2] : s \in usable_frames}
    BY DEF FramesInOrder
<1>2. ASSUME NEW j \in DOMAIN frames, i # j, NEW f \in frames[i] \cap frames[j]
      PROVE  FALSE
  <2>0. i \in Nat /\ j \in Nat
      BY DEF FramesInOrder
  <2>1. PICK s \in usable_frames : s[2] = f /\ Cardinality(Earlier(s)) = i - 1
      BY <1>2 DEF FramesInOrder, nth
  <2>2. PICK t \in usable_frames : t[2] = f /\ Cardinality(Earlier(t)) = j - 1
      BY <1>2 DEF FramesInOrder, nth
  <2>3. s # t
      BY <1>2, <2>0, <2>1, <2>2
  <2>4. s[1] # t[1]
      BY <2>1, <2>2, <2>3 DEF usable_frames
  <2>5. /\ s[1] \in DOMAIN mem_map /\ mem_map[s[1]].usable
        /\ f \in mem_map[s[1]].first .. mem_map[s[1]].end - 1
      BY <2>1 DEF usable_frames
  <2>6. /\ t[1] \in DOMAIN mem_map /\ mem_map[t[1]].usable
        /\ f \in mem_map[t[1]].first .. mem_map[t[1]].end - 1
      BY <2>2 DEF usable_frames
  <2>7. mem_map \in MemoryMaps
      BY DEF FramesInOrder
  <2> QED  BY <2>4, <2>5, <2>6, <2>7, MapAssumption DEF MapAssumption
<1> QED  BY <1>1, <1>2

\* Whoever allocates, and however often, no frame is handed out twice.
THEOREM AllocatorFramesDistinct == FrameSpec => []FramesDistinct
<1>1. FrameSpec => []FramesInOrder
    BY InitInOrder, StepInOrder, PTL DEF FrameSpec
<1> QED  BY <1>1, InOrderDistinct, PTL

-----------------------------------------------------------------------------
(***************************************************************************)
(* rustOS, with its interrupts, is one user of the allocator.              *)
(***************************************************************************)
LEMMA ConsoleStep == [Next]_vars => [allocate_frame]_framevars
<1> SUFFICES ASSUME [Next]_vars PROVE [allocate_frame]_framevars
    OBVIOUS
<1>1. CASE Kernel
  <2> USE DEF machine
  <2>1. CASE write_byte  BY <2>1 DEF write_byte
  <2>2. CASE lock  BY <2>2 DEF lock
  <2>3. CASE unlock  BY <2>3 DEF unlock
  <2>4. CASE disable  BY <2>4 DEF disable
  <2>5. CASE enable  BY <2>5 DEF enable
  <2>6. CASE send  BY <2>6 DEF send
  <2>7. CASE assert  BY <2>7 DEF assert
  <2>8. CASE panics  BY <2>8 DEF panics
  <2>9. CASE exit  BY <2>9 DEF exit
  <2>10. CASE allocate  BY <2>10 DEF allocate
  <2>11. CASE write_volatile  BY <2>11 DEF write_volatile
  <2>12. CASE overflow  BY <2>12 DEF overflow
  <2>13. CASE int3  BY <2>13 DEF int3
  <2>14. CASE iret  BY <2>14 DEF iret
  <2>15. CASE initialize  BY <2>15 DEF initialize
  <2>16. CASE eoi  BY <2>16 DEF eoi
  <2>17. CASE read60  BY <2>17 DEF read60
  <2> QED
      BY <1>1, <2>1, <2>2, <2>3, <2>4, <2>5, <2>6, <2>7, <2>8, <2>9, <2>10, <2>11, <2>12,
         <2>13, <2>14, <2>15, <2>16, <2>17 DEF Kernel
<1>2. CASE Interrupt \/ Tick \/ KeyPresented
    BY <1>2 DEF Interrupt, Tick, KeyPresented, machine
<1>3. CASE hlt \/ UNCHANGED vars
    BY <1>3 DEF hlt, vars
<1> QED  BY <1>1, <1>2, <1>3 DEF Next

\* Every behaviour of rustOS is one of the frame allocator's.
THEOREM ConsoleUsesAllocator == Spec => FrameSpec
<1>1. Init => FrameInit
    BY DEF Init
<1> QED  BY <1>1, ConsoleStep, PTL DEF Spec, FrameSpec

\* So the tables of the example mapping lie on usable frames of their own, on any
\* memory map, whatever interrupts come between their allocations.
THEOREM ConsoleFramesDistinct == Spec => []FramesDistinct
BY ConsoleUsesAllocator, AllocatorFramesDistinct, PTL
=============================================================================
