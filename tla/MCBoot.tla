-------------------------------- MODULE MCBoot --------------------------------
(***************************************************************************)
(* The 1.44 MB floppy the boot sector describes, with files that straddle  *)
(* sectors of the FAT, fill the loader's segment, or are damaged, and      *)
(* memory maps as Bochs and PC BIOSes report them.                         *)
(***************************************************************************)
EXTENDS Boot, SequencesExt, Functions

\* links overrides entries of the FAT.
Floppy(loader, kern, places, links, bad) ==
    [root |-> [s \in 1 .. RootDirSectors |-> [n \in 1 .. EntriesPerSec |->
                IF <<s, n>> = places[1] THEN [name |-> "LOADER", cluster |-> loader[1]]
                ELSE IF <<s, n>> = places[2] THEN [name |-> "KERNEL", cluster |-> kern[1]]
                ELSE [name |-> "other", cluster |-> 2]]],
     fat |-> [n \in Range(loader) \cup Range(kern) \cup DOMAIN links |->
                IF n \in DOMAIN links THEN links[n]
                ELSE LET chain == IF n \in Range(loader) THEN loader ELSE kern
                         k == CHOOSE j \in DOMAIN chain : chain[j] = n
                     IN  IF k = Len(chain) THEN EndOfChain ELSE chain[k + 1]],
     bad |-> bad,
     files |-> [name \in Names |-> IF name = "LOADER" THEN loader ELSE kern]]

Run(first, last) == [k \in 1 .. (last - first + 1) |-> first + k - 1]
None == [n \in {} |-> 0]
Places == << <<1, 1>>, <<1, 2>> >>
LastPlaces == << <<14, 16>>, <<2, 5>> >>

MCDisks ==
    {Floppy(<<2, 3>>, <<341, 340, 342, 683, 682>>, Places, None, {}),
     Floppy(Run(2, 129), <<2845, 200, 2846>>, LastPlaces, None, {}),
     Floppy(Run(2, 130), <<200, 201>>, Places, None, {}),
     Floppy(<<3, 2>>, <<4, 5>>, Places, None, {}),
     Floppy(<<2, 3>>, <<4, 5>>, << <<1, 1>>, <<0, 0>> >>, None, {}),
     Floppy(<<2, 3>>, <<4, 5, 6>>, Places, (6 :> 4088), {}),
     Floppy(<<2, 3>>, <<4, 5, 6>>, Places, (6 :> 4), {}),
     Floppy(<<2, 3>>, <<4, 5, 6>>, Places, None, {36})}

Blank == [addr |-> 0, len |-> 0, type |-> 0]
Likeness == [addr |-> 70, len |-> 7, type |-> 3]
Blanks == [s \in 1 .. Slots |-> Blank]
\* The kernel file ends in bytes that look like records, at some place or in all.
MCResidues == {Blanks, [Blanks EXCEPT ![7] = Likeness], [s \in 1 .. Slots |-> Likeness]}
MCRecordsIn == [s \in 0 .. (TotSec - 1) |->
    CASE s = 2877 -> [s1 \in 1 .. Slots |-> Likeness]
      [] s = 36 -> [Blanks EXCEPT ![7] = Likeness]
      [] OTHER -> Blanks]
MCVbeSlot == [addr |-> 1, len |-> 1, type |-> 768]

Rec(addr, len, type) == [addr |-> addr, len |-> len, type |-> type]
Low == <<Rec(0, 636, 1), Rec(636, 4, 2), Rec(928, 96, 2)>>

Bochs(ram) == Low \o <<Rec(1024, ram - 1088, 1), Rec(ram - 64, 64, 3), Rec(4194048, 256, 2)>>
BeyondFourG == Low \o <<Rec(1024, 3144704, 1), Rec(4194048, 256, 2), Rec(4194304, 1048576, 1)>>
Holes == Low \o <<Rec(1024, 6100, 1), Rec(7124, 20, 4), Rec(7144, 3000, 1),
                  Rec(10144, 100, 3), Rec(10244, 9000, 1), Rec(19244, 10, 2)>>
Fragments(n) == <<Rec(0, 636, 1), Rec(1024, 8000, 1)>>
                \o [k \in 1 .. n |-> Rec(9024 + 2100 * (k - 1), 2100, (k % 2) + 1)]

Bios(records, carry) == [records |-> records, carry |-> carry]

MCBiosMaps ==
    {Bios(Bochs(32768), 0), Bios(Bochs(4096), 0), Bios(BeyondFourG, 0),
     Bios(Holes, 0), Bios(Holes, 5),
     Bios(Fragments(23), 0), Bios(Fragments(33), 0),
     Bios(Low \o <<Rec(1024, 9000, 5), Rec(10024, 9000, 1)>>, 0)}

=============================================================================
