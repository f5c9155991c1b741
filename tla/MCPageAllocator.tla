--------------------------- MODULE MCPageAllocator ---------------------------
(***************************************************************************)
(* Small memories for PageAllocator: words of 8 bits instead of 64.        *)
(***************************************************************************)
EXTENDS PageAllocator

Zone(first, end) == [start |-> first, end |-> end]
Layout(npages, zones, kernel_last, slack) ==
    [npages |-> npages, zones |-> zones, kernel_last |-> kernel_last, slack |-> slack]

Slacks == {{}, 0 .. (W - 1)}

\* A machine of less than 64 pages (128 MB): one zone from page 1, all of it
\* under the first word of bits_map.
OneWordLayouts ==
    {Layout(7, <<Zone(1, 7)>>, 0, s) : s \in Slacks}
        \cup {Layout(8, <<Zone(1, 6)>>, 1, s) : s \in Slacks}

\* Memory that reaches the second word, memory above 4 GB (FourG = W here) and
\* memory with a hole: the cases the search does not expect.
ManyWordLayouts ==
    {Layout(W + 4, <<Zone(1, W + 3)>>, 0, 0 .. (W - 1)),
     Layout(2 * W, <<Zone(1, 3), Zone(W, 2 * W)>>, 1, {}),
     Layout(2 * W + 1, <<Zone(1, 3), Zone(W + 2, 2 * W + 1)>>, 0, 0 .. (W - 1))}

SomeFlags == {{"PG_PTable_Maped", "PG_Active", "PG_Kernel"}, {"PG_Referenced", "PG_Slab"}}
TaskFlags == {{"PG_PTable_Maped", "PG_Active", "PG_Kernel"}}
=============================================================================
