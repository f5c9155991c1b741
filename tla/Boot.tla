--------------------------------- MODULE Boot ---------------------------------
(***************************************************************************)
(* From power-on to a page allocator: the boot sector and the loader read  *)
(* the kernel (module Fat12), the loader asks the BIOS for the memory map  *)
(* and the kernel makes its memory layout of it (module MemoryMap).  The   *)
(* two halves share the memory at 0x7e00, where the map is written over    *)
(* what the last cluster of the kernel left.                               *)
(***************************************************************************)
EXTENDS Fat12, MemoryMap

CONSTANT RecordsIn   \* what the data of each sector looks like, as records

ASSUME BootAssumption == TotSec \in Nat \ {0} /\ RecordsIn \in [0 .. (TotSec - 1) -> Residues]

bootVars == <<fatVars, mapVars>>

\* KillMotor and on: the floppy is not used again.
MemStructFromLoader ==
    /\ who = "loader"
    /\ stage = "loaded"
    /\ GetMemStruct(RecordsIn[at7e00])
    /\ UNCHANGED fatVars

Init == FatInit /\ MapInit

Next ==
    \/ FatNext /\ UNCHANGED mapVars
    \/ MemStructFromLoader
    \/ MapSteps /\ UNCHANGED fatVars

\* There is one processor and it never waits: the BIOS calls return, and a
\* sector that can be read is read in the end.
Spec == Init /\ [][Next]_bootVars /\ WF_bootVars(Next)

=============================================================================
