------------------------------- MODULE MCTasks -------------------------------
(***************************************************************************)
(* Machines for Tasks, with words of 64 bits.                              *)
(***************************************************************************)
EXTENDS Tasks

Machine(npages, kernel_last) ==
    [npages |-> npages, zones |-> <<[start |-> 1, end |-> npages]>>,
     kernel_last |-> kernel_last, slack |-> {}]

\* Memories of 4 MB, whose one page the allocator refuses, 8, 32 and 128 MB
\* and more; kernels and tables that end in each page do_fork can live with.
Machines == {Machine(2, 0)} \cup {Machine(n, k) : n \in {4, 16, 70}, k \in 0 .. 1}
                \cup {Machine(n, k) : n \in {16, 70}, k \in 2 .. 3}

ForkOnly == {ForkFlags}
=============================================================================
