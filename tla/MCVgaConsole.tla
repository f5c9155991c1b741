----------------------------- MODULE MCVgaConsole -----------------------------
EXTENDS VgaConsole

Region(first, end, usable) == [first |-> first, end |-> end, usable |-> usable]

\* No frame, the last missing, and enough in regions that are apart, between and
\* after others, or empty.
SmallMaps ==
    {<<>>,
     <<Region(0, 1, FALSE), Region(1, 3, TRUE)>>,
     <<Region(4, 5, TRUE), Region(0, 1, FALSE), Region(1, 1, TRUE), Region(1, 4, TRUE)>>}

\* Only the kernel's main uses the map.
SmallBoots ==
    {[main |-> m, map |-> <<>>] : m \in TestMains}
        \cup {[main |-> "kernel_main", map |-> map] : map \in SmallMaps}
=============================================================================
