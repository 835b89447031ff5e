----------------------------- MODULE MCBbpKernel -----------------------------
(* The parser over arbitrary memory: three addresses, each holding a tag of   *)
(* legal or illegal size with a right or a wrong CRC and a next_tag that may  *)
(* end, continue, loop or leave the region.  Memory does not change here.     *)
EXTENDS BbpKernel, TLC

CONSTANT ACPI

A1 == 8
A2 == 40
A3 == 80
Odd == 44       \* misaligned
High == 104     \* aligned, but its header ends above MaxPhys

Cells(ids, sizes, nexts) ==
    {[id |-> i, size |-> s, next |-> n, body |-> 128, crc |-> c] :
        i \in ids, s \in sizes, n \in nexts, c \in {NoCrc}}

WithCrc(cells) == cells \cup {Sealed(c) : c \in cells}

MCMemories ==
    {A1 :> c1 @@ A2 :> c2 @@ A3 :> c3 :
        c1 \in WithCrc(Cells({HHDM, ACPI}, {31, 40}, {A1, A2, Odd})),
        c2 \in WithCrc(Cells({ACPI}, {32, 48}, {A1, A3, High})),
        c3 \in WithCrc(Cells({HHDM}, {32}, {0, A2}))}

GoodInfo ==
    SealedInfo([magic |-> TRUE, major |-> VersionMajor, size |-> InfoSize,
                count |-> 1, first |-> A1, crc |-> NoCrc])

BadInfos ==
    {BlankInfo,
     [GoodInfo EXCEPT !.major = 2],
     SealedInfo([GoodInfo EXCEPT !.size = InfoSize - 1]),
     SealedInfo([GoodInfo EXCEPT !.size = MaxInfo + 1]),
     [GoodInfo EXCEPT !.first = A2]}

MCHints == {0, 128}
MCWindows == {<<0, 0>>, <<8, 88>>}
MCArenas == {<<8, 104>>, <<8, 105>>}
MCStops == {{ACPI}}

Init ==
    /\ \/ mem \in MCMemories /\ info = GoodInfo
       \/ mem = A2 :> Sealed(CHOOSE c \in Cells({ACPI}, {32}, {0}) : TRUE)
          /\ info \in BadInfos
    /\ KernelInit
Spec == Init /\ [][KernelNext]_<<mem, info, kernelVars>> /\ KernelFairness
=============================================================================
