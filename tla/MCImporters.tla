----------------------------- MODULE MCImporters -----------------------------
(* Snapshots for the importers: one good value for each item and, one at a    *)
(* time, values that each check must refuse, or that lie inside the arena.    *)
EXTENDS Importers, FiniteSets, TLC

MCArenaPhys == {64}
MCCapacities == {228, 480}
MCTagSizes == {36}
MCBlobSizes == {221}
MCBodies == {}
Far == 600         \* outside the arena
Inside == 100      \* inside it

Range1 == [base |-> 0, length |-> 900]
GoodMap == [at |-> Far, entries |-> <<Range1>>]
Maps == {GoodMap,
         [at |-> Far, entries |-> <<Range1, [base |-> 900, length |-> 0]>>],
         [at |-> Inside, entries |-> <<Range1>>],
         [at |-> Far, entries |-> << >>]}
Cpus == {[at |-> a, ids |-> ids, bsp |-> 1, x2apicOk |-> x] :
            a \in {Far, Inside}, ids \in {<<1>>, <<2, 1>>, <<1, 1>>, <<2>>},
            x \in BOOLEAN}
GoodCpus == [at |-> Far, ids |-> <<2, 1>>, bsp |-> 1, x2apicOk |-> TRUE]
Strings == {[at |-> a, bytes |-> n, valid |-> v] :
            a \in {Far, Inside}, n \in {0, 5}, v \in BOOLEAN}
GoodString == [at |-> Far, bytes |-> 5, valid |-> TRUE]
GoodFb == [format |-> "RGB565", depth |-> 5, width |-> 4, height |-> 2,
           pitch |-> 10, total |-> 20, address |-> 900, flags |-> {}]
Fbs == {GoodFb, [GoodFb EXCEPT !.format = "mono"], [GoodFb EXCEPT !.depth = 8],
        [GoodFb EXCEPT !.width = 6], [GoodFb EXCEPT !.pitch = 11],
        [GoodFb EXCEPT !.address = 905],
        [GoodFb EXCEPT !.flags = {"rotated90", "rotated180"}]}
GoodAcpi == [rsdp |-> 16, xsdt |-> 0, flags |-> {}]
Acpis == {GoodAcpi, [GoodAcpi EXCEPT !.rsdp = 0], [GoodAcpi EXCEPT !.xsdt = 8]}

Limine == [src |-> "limine", at |-> Far, bytes |-> 8, present |-> {},
           kphys |-> 0, kvirt |-> 1, map |-> GoodMap, cpus |-> GoodCpus,
           cmdline |-> GoodString, fb |-> GoodFb, acpi |-> GoodAcpi]

LimineSnapshots ==
    {[Limine EXCEPT !.present = p] : p \in SUBSET LimineItems}
    \cup {[Limine EXCEPT !.present = {"mmap", "hhdm"}, !.map = m] : m \in Maps}
    \cup {[Limine EXCEPT !.present = {"smp", "hhdm"}, !.cpus = c] : c \in Cpus}
    \cup {[Limine EXCEPT !.present = {"cmdline"}, !.cmdline = s] : s \in Strings}
    \cup {[Limine EXCEPT !.present = {"framebuffer"}, !.fb = f] : f \in Fbs}
    \cup {[Limine EXCEPT !.present = {"acpi"}, !.acpi = a] : a \in Acpis}
    \cup {[Limine EXCEPT !.present = {"efi"}], [Limine EXCEPT !.at = Inside],
          [Limine EXCEPT !.present = {"kaddr"}, !.kvirt = 0]}

GoodUefiMap == [at |-> Far, bytes |-> 80, stride |-> 40, version |-> 1,
                final |-> TRUE, entries |-> <<[base |-> 0, pages |-> 8],
                                              [base |-> 512, pages |-> 4]>>]
UefiMaps == {GoodUefiMap, [GoodUefiMap EXCEPT !.final = FALSE],
             [GoodUefiMap EXCEPT !.at = Inside], [GoodUefiMap EXCEPT !.bytes = 79],
             [GoodUefiMap EXCEPT !.version = 2],
             [GoodUefiMap EXCEPT !.entries[2].pages = 0],
             [GoodUefiMap EXCEPT !.entries[2].pages = 9]}

Uefi == [src |-> "uefi", at |-> Far, bytes |-> 8, present |-> {},
         kphys |-> 0, kvirt |-> 1, map |-> GoodUefiMap, cmdline |-> GoodString,
         fb |-> GoodFb, acpi |-> GoodAcpi, systemTable |-> 16,
         smbios32 |-> 0, smbios64 |-> 16]

UefiSnapshots ==
    {[Uefi EXCEPT !.present = p] :
        p \in SUBSET {"mmap", "cmdline", "framebuffer", "efi", "smbios"}}
    \cup {[Uefi EXCEPT !.present = {"mmap", "efi"}, !.map = m] : m \in UefiMaps}
    \cup {[Uefi EXCEPT !.present = {"smp"}],
          [Uefi EXCEPT !.present = {"efi"}, !.systemTable = 0],
          [Uefi EXCEPT !.present = {"smbios"}, !.smbios64 = 0]}

-----------------------------------------------------------------------------
End == [type |-> "end", size |-> 8]
Module(size, start) ==
    [type |-> "module", size |-> size, start |-> start, end |-> start + 8,
     valid |-> TRUE]
Cmd(size) == [type |-> "cmdline", size |-> size, valid |-> TRUE]
Mmap(size) == [type |-> "mmap", size |-> size, stride |-> 24, version |-> 0,
               entries |-> <<Range1>>]
Fb == [type |-> "framebuffer", size |-> 38, rgb |-> TRUE, fb |-> GoodFb]
Acpi(type, size, revision) ==
    [type |-> type, size |-> size, sound |-> TRUE, revision |-> revision,
     length |-> size - 8, xsdt |-> 0]
Other(size) == [type |-> "other", size |-> size]

\* Tags the scan goes on after, and tags it refuses.
Accepted == {Module(17, 0), Cmd(13), Mmap(40), Fb, Acpi("acpi_old", 28, 0),
             Acpi("acpi_new", 44, 2), Other(9)}
Refusals == {Cmd(8), Other(0), Other(64), [Module(24, 0) EXCEPT !.end = 0]}

Images == {s \o <<End>> :
             s \in {<< >>} \cup {<<x>> : x \in Accepted \cup Refusals}
                   \cup {<<x, y>> : x \in Accepted, y \in Accepted \cup Refusals}
                   \cup {<<Module(17, 0), Cmd(13), Module(26, 8)>>}}

\* Tags are laid out back to back; even one that claims no size has a header.
TagOffset(tags, i) ==
    LET Bytes(t) == IF t.size < 8 THEN 8 ELSE Padded(t.size)
        off[k \in 1 .. Len(tags)] == IF k = 1 THEN 8 ELSE off[k - 1] + Bytes(tags[k - 1])
    IN  off[i]
Cells(tags) ==
    [o \in {TagOffset(tags, i) : i \in DOMAIN tags} |->
        tags[CHOOSE i \in DOMAIN tags : TagOffset(tags, i) = o]]
ImageBytes(tags) == TagOffset(tags, Len(tags)) + 8

Mb2 == [src |-> "multiboot2", at |-> Far, bytes |-> 8, present |-> {"hhdm"},
        kphys |-> 0, kvirt |-> 1, mbi |-> Far, mapped |-> 200, total |-> 16,
        reservedOk |-> TRUE, cells |-> Cells(<<End>>)]

Mb2Snapshots ==
    {[Mb2 EXCEPT !.cells = Cells(i), !.total = ImageBytes(i), !.mbi = a] :
        i \in Images, a \in {Far, Inside}}
    \cup {[Mb2 EXCEPT !.total = t] : t \in {8, 20, 24, 208}}
    \cup {[Mb2 EXCEPT !.present = {"smp"}], [Mb2 EXCEPT !.reservedOk = FALSE]}

MCSnapshots == LimineSnapshots \cup UefiSnapshots \cup Mb2Snapshots
MCIds == TagIds
=============================================================================
