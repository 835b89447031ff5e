---------------------------- MODULE MCKernelImage ----------------------------
(***************************************************************************)
(* Instance of KernelImage: a text segment and a second one at interesting *)
(* addresses, files with one thing wrong, headers with one thing wrong.    *)
(* Tables have four entries, so a virtual address has 256 pages: 0 to 63   *)
(* start with the identity map, 128 to 191 with the direct map.            *)
(***************************************************************************)
EXTENDS KernelImage

\* The address of a virtual page, in the lower or upper half.
V(n) == IF n < Pages \div 2 THEN n * PageSize ELSE Top - (Pages - n) * PageSize

Text == [load |-> TRUE, w |-> FALSE, x |-> TRUE, off |-> 16, va |-> V(200),
         pa |-> 32, fsz |-> 16, msz |-> 24, align |-> 16]

Data(v, p, skew, msz) ==
    [load |-> TRUE, w |-> TRUE, x |-> FALSE, off |-> 32 + skew, va |-> V(v) + skew,
     pa |-> p * PageSize + skew, fsz |-> 0, msz |-> msz, align |-> 4]

Requests ==
    <<[id |-> "hhdm", optional |-> FALSE, ok |-> TRUE],
      [id |-> "memory_map", optional |-> FALSE, ok |-> TRUE],
      [id |-> "kernel_address", optional |-> TRUE, ok |-> TRUE],
      [id |-> "acpi", optional |-> TRUE, ok |-> TRUE]>>

Bear == [seg |-> 1, off |-> 0, good |-> TRUE, entry |-> V(200) + 4, vbase |-> V(200),
         supported |-> TRUE, unmapNull |-> TRUE, reqAt |-> 40, reqs |-> Requests]

File(phs, bears) ==
    [size |-> 256, format |-> TRUE, entry |-> V(200) + 4, phoff |-> 8, phs |-> phs,
     bears |-> bears]

\* The second segment: inside and next to each map, at both ends of memory,
\* next to, on and apart from the text segment's pages.
Layouts ==
    {File(<<Text, Data(v, p, skew, msz)>>, <<[Bear EXCEPT !.unmapNull = u, !.vbase = V(b)]>>) :
        v \in {0, 1, 5, 31, 32, 64, 130, 160, 200, 201, 202, 208, 254, 255},
        p \in {0, 1, 3, 4, 31, 39}, skew \in {0, 4}, msz \in {0, 12, 16, 28},
        u \in BOOLEAN, b \in {200, 202}}

Segments(t) == File(<<t>>, <<Bear>>)

BadFiles ==
    {Segments(t) : t \in {
        [Text EXCEPT !.fsz = 25], [Text EXCEPT !.w = TRUE], [Text EXCEPT !.align = 12],
        [Text EXCEPT !.align = 32], [Text EXCEPT !.off = Top - 8],
        [Text EXCEPT !.pa = 36, !.align = 1], [Text EXCEPT !.off = 248, !.align = 8],
        [Text EXCEPT !.va = Half - 16], [Text EXCEPT !.va = Half],
        [Text EXCEPT !.pa = PhysLimit], [Text EXCEPT !.load = FALSE],
        [Text EXCEPT !.x = FALSE], [Text EXCEPT !.msz = 4, !.fsz = 4]}}
    \cup {[Segments(Text) EXCEPT !.size = 8], [Segments(Text) EXCEPT !.format = FALSE],
          [Segments(Text) EXCEPT !.entry = Half], [Segments(Text) EXCEPT !.phoff = Top - 8],
          [Segments(Text) EXCEPT !.phoff = 250], [Segments(Text) EXCEPT !.phs = << >>],
          File(<<Text, Text, Text>>, <<Bear>>),
          File(<<Text, Data(202, 4, 0, 0), Data(203, 5, 0, 0)>>, <<Bear>>)}

BadHeaders ==
    {File(<<Text>>, bears) : bears \in {
        << >>, <<Bear, Bear>>, <<[Bear EXCEPT !.good = FALSE]>>, <<[Bear EXCEPT !.off = 12]>>,
        <<[Bear EXCEPT !.entry = V(200)]>>, <<[Bear EXCEPT !.supported = FALSE]>>,
        <<[Bear EXCEPT !.reqAt = 52]>>, <<[Bear EXCEPT !.reqs = << >>]>>,
        <<[Bear EXCEPT !.reqs = SubSeq(Requests, 1, 2)]>>,
        <<[Bear EXCEPT !.reqs[4].optional = FALSE]>>,
        <<[Bear EXCEPT !.reqs[4].id = "hhdm"]>>, <<[Bear EXCEPT !.reqs[4].ok = FALSE]>>}}

\* Free memory up to the end of the low maps with devices above; less of it,
\* with other types in between; and more of it than the loader can map.
Machine(last, special) ==
    [p \in 0 .. 39 |-> IF p \in DOMAIN special THEN special[p]
                       ELSE IF p <= last THEN "conventional" ELSE "mmio"]

MCMachines ==
    {Machine(31, << >>), Machine(32, << >>),
     Machine(30, [p \in {6, 8} |-> IF p = 6 THEN "boot" ELSE "unusable"]),
     Machine(31, [p \in {0, 5, 33} |-> "reserved"])}

MCHoldings == {{1}, {4, 10}, {6, 31}}

MCOddities ==
    {{}, {[start |-> 1000, pages |-> 1, type |-> "reserved"]},
     {[start |-> 800, pages |-> 0, type |-> "conventional"]},
     {[start |-> Top - 16, pages |-> 1, type |-> "mmio"]}}

MCImages == Layouts \cup BadFiles \cup BadHeaders

=============================================================================
