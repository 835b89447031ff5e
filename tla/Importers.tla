------------------------------ MODULE Importers ------------------------------
(***************************************************************************)
(* The Limine, UEFI and Multiboot2 importers, bootloader/bbp_import_*.c:   *)
(* each validates a snapshot of another protocol's boot information, plans *)
(* its tags, and only then lets the builder emit them.                     *)
(*                                                                         *)
(* Validation, planning and each emission are single steps.  The two loops *)
(* over a Multiboot2 image, the scan and the second walk that collects the *)
(* modules, take a step per iteration: both advance by sizes found in the  *)
(* image.  A source is read when a tag is filled, after the arena was      *)
(* written, so a source inside the arena may be gone by then.              *)
(*                                                                         *)
(* Memory types and attributes, which are translated entry by entry,       *)
(* module names and values that are only copied are left out.              *)
(***************************************************************************)
EXTENDS ImportSupport
LOCAL INSTANCE SequencesExt

CONSTANTS
    Snapshots,  \* what the callers pass
    MaxCalls    \* bound: import calls

TagIds == {"hhdm", "mmap", "kaddr", "smp", "cmdline", "framebuffer", "acpi",
           "efi", "smbios", "modules"}

ASSUME ImportersAssumption == TagIds \subseteq Ids /\ MaxCalls \in Nat

VARIABLES
    im,      \* the running call: program counter, snapshot and locals
    status,  \* what the last call returned
    filled,  \* tag address -> what the importer wrote into the tag
    calls

importVars == <<im, status, filled, calls>>
allVars == <<vars, importVars>>

Has(s, item) == item \in s.present
When(condition, requests) == IF condition THEN requests ELSE << >>

HhdmTag == Tag("hhdm", HhdmSize)
MapTag(n) == Tag("mmap", ArraySize(40, n, 32))
KernelAddressTag == Tag("kaddr", 48)
SmpTag(n) == Tag("smp", ArraySize(48, n, 48))
CmdlineTag == Tag("cmdline", 56)
ModulesTag(n) == Tag("modules", ArraySize(40, n, 176))
FramebufferTag == Tag("framebuffer", 72 + 48)
AcpiTag == Tag("acpi", 56)
EfiTag == Tag("efi", 64)
SmbiosTag == Tag("smbios", 48)

KernelAddressCheck(s) ==
    If(Has(s, "kaddr") /\ (~PhysAddressValid(s.kphys, TRUE) \/ s.kvirt = 0), "range")

AcpiCheck(a) ==
    FirstError(
        <<If(~PhysAddressValid(a.rsdp, FALSE) \/ ~PhysAddressValid(a.xsdt, TRUE),
             "range"),
          If(a.flags \ {"xsdt", "spcr"} # {}, "flags"),
          If(("xsdt" \in a.flags) # (a.xsdt # 0), "flags")>>)

StringCheck(str) ==
    FirstError(<<If(InArena(str.at, str.bytes), "range"), ValidateString(str)>>)

-----------------------------------------------------------------------------
(* Limine *)

LimineItems == {"hhdm", "mmap", "kaddr", "smp", "cmdline", "framebuffer", "acpi"}

LimineMapCheck(m) ==
    FirstError(
        <<If(m.at = 0 \/ m.entries = << >>, "null"),
          ArrayCheck(40, Len(m.entries), 32),
          If(InArena(m.at, Len(m.entries) * 24), "range"),
          If(\E i \in DOMAIN m.entries :
                ~PhysRangeValid(m.entries[i].base, m.entries[i].length), "range")>>)

\* Fault: processors may share an APIC identifier.
LimineSmpCheckShared(c) ==
    FirstError(
        <<If(c.at = 0 \/ c.ids = << >>, "null"),
          If(~c.x2apicOk, "flags"),
          ArrayCheck(48, Len(c.ids), 48),
          If(InArena(c.at, Len(c.ids) * 8), "range"),
          If(\A i \in DOMAIN c.ids : c.ids[i] # c.bsp, "range")>>)

LimineSmpCheck(c) ==
    FirstError(
        <<If(c.at = 0 \/ c.ids = << >>, "null"),
          If(~c.x2apicOk, "flags"),
          ArrayCheck(48, Len(c.ids), 48),
          If(InArena(c.at, Len(c.ids) * 8), "range"),
          If(\E i, j \in DOMAIN c.ids : i # j /\ c.ids[i] = c.ids[j], "duplicate"),
          If(\A i \in DOMAIN c.ids : c.ids[i] # c.bsp, "range")>>)

LimineCheck(s) ==
    FirstError(
        <<If(InArena(s.at, s.bytes), "range"),
          If(s.present \ LimineItems # {}, "flags"),
          If(~PlanBeginOk, "builder"),
          If(Has(s, "mmap"), LimineMapCheck(s.map)),
          KernelAddressCheck(s),
          If(Has(s, "smp"), LimineSmpCheck(s.cpus)),
          If(Has(s, "cmdline"), StringCheck(s.cmdline)),
          If(Has(s, "framebuffer"), ValidateFramebuffer(s.fb)),
          If(Has(s, "acpi"), AcpiCheck(s.acpi))>>)

\* Fault: the copy of the command line is not planned.
LiminePlanNoBlob(s) ==
    When(Has(s, "hhdm"), <<HhdmTag>>)
    \o When(Has(s, "mmap"), <<MapTag(Len(s.map.entries))>>)
    \o When(Has(s, "kaddr"), <<KernelAddressTag>>)
    \o When(Has(s, "smp"), <<SmpTag(Len(s.cpus.ids))>>)
    \o When(Has(s, "cmdline"), <<CmdlineTag>>)
    \o When(Has(s, "framebuffer"), <<FramebufferTag>>)
    \o When(Has(s, "acpi"), <<AcpiTag>>)

LiminePlan(s) ==
    When(Has(s, "hhdm"), <<HhdmTag>>)
    \o When(Has(s, "mmap"), <<MapTag(Len(s.map.entries))>>)
    \o When(Has(s, "kaddr"), <<KernelAddressTag>>)
    \o When(Has(s, "smp"), <<SmpTag(Len(s.cpus.ids))>>)
    \o When(Has(s, "cmdline"), <<Blob(s.cmdline.bytes)>>)
    \o When(Has(s, "cmdline"), <<CmdlineTag>>)
    \o When(Has(s, "framebuffer"), <<FramebufferTag>>)
    \o When(Has(s, "acpi"), <<AcpiTag>>)

LimineEmit(s) ==
    When(Has(s, "hhdm"), <<HhdmTag>>)
    \o When(Has(s, "mmap"), <<MapTag(Len(s.map.entries))>>)
    \o When(Has(s, "kaddr"), <<KernelAddressTag>>)
    \o When(Has(s, "smp"), <<SmpTag(Len(s.cpus.ids))>>)
    \o When(Has(s, "cmdline"), <<Blob(s.cmdline.bytes), CmdlineTag>>)
    \o When(Has(s, "framebuffer"), <<FramebufferTag>>)
    \o When(Has(s, "acpi"), <<AcpiTag>>)

-----------------------------------------------------------------------------
(* UEFI *)

UefiItems == {"hhdm", "mmap", "kaddr", "cmdline", "framebuffer", "acpi", "efi",
              "smbios"}

UefiMapCount(m) == m.bytes \div m.stride

UefiEntryCheck(e) ==
    FirstError(
        <<If(e.pages = 0 \/ e.pages > SizeMax \div PageSize, "overflow"),
          If(~PhysRangeValid(e.base, e.pages * PageSize), "range")>>)

\* validate_memory_map
UefiMapCheck(m) ==
    FirstError(
        <<If(m.at = 0 \/ m.bytes = 0, "null"),
          If(~m.final, "non_final"),
          If(m.stride < 40 \/ m.version # 1, "unsupported"),
          If(m.bytes % m.stride # 0, "framing")>>
        \o [i \in DOMAIN m.entries |-> UefiEntryCheck(m.entries[i])])

NeedsMap(s) == Has(s, "mmap") \/ Has(s, "efi")

UefiCheck(s) ==
    FirstError(
        <<If(InArena(s.at, s.bytes), "range"),
          If(s.present \ UefiItems # {}, "flags"),
          If(~PlanBeginOk, "builder"),
          If(NeedsMap(s) /\ InArena(s.map.at, s.map.bytes), "range"),
          If(NeedsMap(s), UefiMapCheck(s.map)),
          If(Has(s, "mmap"), ArrayCheck(40, UefiMapCount(s.map), 32)),
          KernelAddressCheck(s),
          If(Has(s, "cmdline"), StringCheck(s.cmdline)),
          If(Has(s, "framebuffer"), ValidateFramebuffer(s.fb)),
          If(Has(s, "acpi"), AcpiCheck(s.acpi)),
          If(Has(s, "efi") /\ ~PhysAddressValid(s.systemTable, FALSE), "range"),
          If(Has(s, "smbios")
             /\ \/ s.smbios32 = 0 /\ s.smbios64 = 0
                \/ ~PhysAddressValid(s.smbios32, TRUE)
                \/ ~PhysAddressValid(s.smbios64, TRUE), "range")>>)

UefiPlan(s) ==
    When(Has(s, "hhdm"), <<HhdmTag>>)
    \o When(Has(s, "mmap"), <<MapTag(UefiMapCount(s.map))>>)
    \o When(Has(s, "kaddr"), <<KernelAddressTag>>)
    \o When(Has(s, "cmdline"), <<Blob(s.cmdline.bytes), CmdlineTag>>)
    \o When(Has(s, "framebuffer"), <<FramebufferTag>>)
    \o When(Has(s, "acpi"), <<AcpiTag>>)
    \o When(Has(s, "efi"), <<Blob(s.map.bytes), EfiTag>>)
    \o When(Has(s, "smbios"), <<SmbiosTag>>)

UefiEmit(s) ==
    When(Has(s, "hhdm"), <<HhdmTag>>)
    \o When(Has(s, "mmap"), <<MapTag(UefiMapCount(s.map))>>)
    \o When(Has(s, "kaddr"), <<KernelAddressTag>>)
    \o When(Has(s, "cmdline"), <<Blob(s.cmdline.bytes), CmdlineTag>>)
    \o When(Has(s, "framebuffer"), <<FramebufferTag>>)
    \o When(Has(s, "acpi"), <<AcpiTag>>)
    \o When(Has(s, "efi"), <<Blob(s.map.bytes), EfiTag>>)
    \o When(Has(s, "smbios"), <<SmbiosTag>>)

-----------------------------------------------------------------------------
(* Multiboot2.  s.cells maps the offset of each tag of the image to the tag;  *)
(* reading anywhere else, or an image that was overwritten, yields zeroes.    *)

Padded(size) == AlignUp(size)

ZeroMb2 == [type |-> "end", size |-> 0, entries |-> << >>]

\* The byte range [at, at + bytes) was not written by this call's emissions.
Intact(at, bytes) ==
    \A e \in extents \ im.before : at + bytes <= e.lo \/ e.hi <= at

Mb2Read(s, off) ==
    IF Intact(s.mbi, s.total) /\ off \in DOMAIN s.cells THEN s.cells[off]
    ELSE ZeroMb2

Mb2String(valid, bytes) == If(bytes = 0 \/ ~valid, "string")

Mb2ModuleCheck(t) ==
    FirstError(
        <<If(t.size < 17, "framing"),
          If(t.end <= t.start \/ ~PhysRangeValid(t.start, t.end - t.start), "range"),
          Mb2String(t.valid, t.size - 16)>>)

Mb2MapCheck(t) ==
    FirstError(
        <<If(t.size < 16, "framing"),
          If(t.stride < 24 \/ t.stride % 8 # 0 \/ t.version # 0
             \/ (t.size - 16) % t.stride # 0, "framing"),
          If(t.entries = << >>, "count"),
          If(\E i \in DOMAIN t.entries :
                ~PhysRangeValid(t.entries[i].base, t.entries[i].length), "range")>>)

\* parse_framebuffer: four formats, and the size is pitch times height.
Mb2Framebuffer(t) ==
    [t.fb EXCEPT !.total = t.fb.pitch * t.fb.height, !.flags = {}]

Mb2FramebufferCheck(t) ==
    FirstError(
        <<If(t.size # 38, "framing"),
          If(~t.rgb, "unsupported"),
          If(t.fb.format \notin {"RGB888", "RGBA8888", "BGRA8888", "RGB565"},
             "unsupported"),
          ValidateFramebuffer(Mb2Framebuffer(t))>>)

\* parse_acpi; t.sound stands for signature and checksums.
Mb2AcpiCheck(t) ==
    LET bytes == t.size - 8 IN
    FirstError(
        <<If(bytes < 20 \/ ~t.sound, "framing"),
          IF t.type = "acpi_old" THEN If(bytes # 20 \/ t.revision # 0, "framing")
          ELSE FirstError(
              <<If(bytes < 36 \/ t.revision < 2 \/ t.length # bytes, "framing"),
                If(~PhysAddressValid(t.xsdt, TRUE), "range")>>)>>)

\* What scan_mbi keeps of the tag at an offset; zero means not seen.
NoScan == [cmdline |-> 0, mmap |-> 0, framebuffer |-> 0, acpi_old |-> 0,
           acpi_new |-> 0, modules |-> 0]
Singletons == DOMAIN NoScan \ {"modules"}

Mb2TagCheck(t, scan) ==
    IF t.type \in Singletons /\ scan[t.type] # 0 THEN "duplicate"
    ELSE CASE t.type = "cmdline" -> Mb2String(t.valid, t.size - 8)
           [] t.type = "module" -> Mb2ModuleCheck(t)
           [] t.type = "mmap" -> Mb2MapCheck(t)
           [] t.type = "framebuffer" -> Mb2FramebufferCheck(t)
           [] t.type \in {"acpi_old", "acpi_new"} -> Mb2AcpiCheck(t)
           [] OTHER -> "ok"

\* Fault: a tag may be smaller than its header.
Mb2ScanCheckAnySize(s, off, t, scan) ==
    LET room == s.total - off IN
    IF off >= s.total THEN "framing"
    ELSE FirstError(
        <<If(room < 8, "framing"),
          If(t.size > room, "framing"),
          IF t.type = "end" THEN If(t.size # 8 \/ off + 8 # s.total, "framing")
          ELSE FirstError(<<If(Padded(t.size) > room, "framing"),
                            Mb2TagCheck(t, scan)>>)>>)

\* The checks of one iteration of scan_mbi's loop and of its exit.
Mb2ScanCheck(s, off, t, scan) ==
    LET room == s.total - off IN
    IF off >= s.total THEN "framing"
    ELSE FirstError(
        <<If(room < 8, "framing"),
          If(t.size < 8 \/ t.size > room, "framing"),
          IF t.type = "end" THEN If(t.size # 8 \/ off + 8 # s.total, "framing")
          ELSE FirstError(<<If(Padded(t.size) > room, "framing"),
                            Mb2TagCheck(t, scan)>>)>>)

Mb2Scanned(off, t, scan) ==
    IF t.type = "module" THEN [scan EXCEPT !.modules = @ + 1]
    ELSE IF t.type \in Singletons THEN [scan EXCEPT ![t.type] = off]
    ELSE scan

\* The checks in front of the scan.
Mb2Check(s) ==
    FirstError(
        <<If(InArena(s.at, s.bytes), "range"),
          If(s.present \ {"hhdm", "kaddr"} # {}, "flags"),
          If(~PlanBeginOk, "builder"),
          If(InArena(s.mbi, s.mapped), "range"),
          If(s.mbi = 0 \/ s.mapped < 16, "null"),
          If(s.total < 16 \/ s.total % 8 # 0 \/ s.total > s.mapped \/ ~s.reservedOk,
             "framing")>>)

\* A version 2 RSDP wins over a version 1 one, whichever came last.
Mb2Acpi(scan) == IF scan.acpi_new # 0 THEN scan.acpi_new ELSE scan.acpi_old

Mb2MapLen(s, scan) == Len(Mb2Read(s, scan.mmap).entries)
Mb2Bytes(s, off) == Mb2Read(s, off).size - 8

Mb2SizeCheck(s, scan) ==
    FirstError(
        <<KernelAddressCheck(s),
          If(scan.mmap # 0, ArrayCheck(40, Mb2MapLen(s, scan), 32)),
          If(scan.modules # 0, ArrayCheck(40, scan.modules, 176))>>)

Mb2Plan(s, scan) ==
    When(Has(s, "hhdm"), <<HhdmTag>>)
    \o When(scan.mmap # 0, <<MapTag(Mb2MapLen(s, scan))>>)
    \o When(Has(s, "kaddr"), <<KernelAddressTag>>)
    \o When(scan.cmdline # 0, <<Blob(Mb2Bytes(s, scan.cmdline)), CmdlineTag>>)
    \o When(scan.modules # 0, <<ModulesTag(scan.modules)>>)
    \o When(scan.framebuffer # 0, <<FramebufferTag>>)
    \o When(Mb2Acpi(scan) # 0, <<Blob(Mb2Bytes(s, Mb2Acpi(scan))), AcpiTag>>)

Mb2Emit(s, scan) ==
    When(Has(s, "hhdm"), <<HhdmTag>>)
    \o When(scan.mmap # 0, <<MapTag(Mb2MapLen(s, scan))>>)
    \o When(Has(s, "kaddr"), <<KernelAddressTag>>)
    \o When(scan.cmdline # 0, <<Blob(Mb2Bytes(s, scan.cmdline)), CmdlineTag>>)
    \o When(scan.modules # 0, <<ModulesTag(scan.modules)>>)
    \o When(scan.framebuffer # 0, <<FramebufferTag>>)
    \o When(Mb2Acpi(scan) # 0, <<Blob(Mb2Bytes(s, Mb2Acpi(scan))), AcpiTag>>)

-----------------------------------------------------------------------------
(* The call *)

Resting == [pc |-> "idle", s |-> [src |-> "none"], off |-> 0, scan |-> NoScan,
            plan |-> [used |-> 0, count |-> 0, status |-> "ok"],
            queue |-> << >>, ptr |-> 0, before |-> {}]

ImportInit ==
    /\ Init
    /\ im = Resting /\ status = "none" /\ filled = << >> /\ calls = 0

Importing == im.pc # "idle"

Finish(verdict) == status' = verdict /\ im' = Resting

\* Nothing is emitted unless every check and the whole plan succeeded.
PlanAndEmit(s, scan, verdict, requests, emissions) ==
    \E plan \in {Plan(r) : r \in {requests}} :
    \E result \in {FirstError(<<verdict, plan.status>>)} :
        IF result # "ok" THEN Finish(result)
        ELSE /\ im' = [Resting EXCEPT !.pc = "emit", !.s = s, !.scan = scan,
                                      !.plan = plan, !.queue = emissions,
                                      !.before = extents]
             /\ UNCHANGED status

Invoke ==
    /\ Call /\ ~Importing /\ calls < MaxCalls
    /\ calls' = calls + 1
    /\ UNCHANGED <<vars, filled>>

ImportLimine(s) ==
    /\ Invoke
    /\ PlanAndEmit(s, NoScan, LimineCheck(s), LiminePlan(s), LimineEmit(s))

ImportUefi(s) ==
    /\ Invoke
    /\ PlanAndEmit(s, NoScan, UefiCheck(s), UefiPlan(s), UefiEmit(s))

ImportMultiboot2(s) ==
    /\ Invoke
    /\ IF Mb2Check(s) # "ok" THEN Finish(Mb2Check(s))
       ELSE /\ im' = [Resting EXCEPT !.pc = "scan", !.s = s, !.off = 8,
                                     !.before = extents]
            /\ UNCHANGED status

ScanStep ==
    LET t == Mb2Read(im.s, im.off)
        verdict == Mb2ScanCheck(im.s, im.off, t, im.scan)
    IN  /\ im.pc = "scan"
        /\ IF verdict # "ok" THEN Finish(verdict)
           ELSE IF t.type = "end"
           THEN PlanAndEmit(im.s, im.scan, Mb2SizeCheck(im.s, im.scan),
                            Mb2Plan(im.s, im.scan), Mb2Emit(im.s, im.scan))
           ELSE /\ im' = [im EXCEPT !.off = @ + Padded(t.size),
                                    !.scan = Mb2Scanned(im.off, t, @)]
                /\ UNCHANGED status
        /\ UNCHANGED <<vars, filled, calls>>

\* bbp_arena_blob; the importers do not look at the result.
EmitBlob ==
    /\ im.pc = "emit" /\ im.queue # << >> /\ Head(im.queue).kind = "blob"
    /\ ArenaBlob(Head(im.queue).size)
    /\ im' = [im EXCEPT !.ptr = IF BumpOk(Head(im.queue).size) THEN BumpAt ELSE 0,
                        !.queue = Tail(@)]
    /\ UNCHANGED <<status, filled, calls>>

\* bbp_alloc_tag; its result is used unchecked.
EmitTag ==
    LET r == Head(im.queue) IN
    /\ im.pc = "emit" /\ im.queue # << >> /\ r.kind = "tag"
    /\ IF TagRequestOk(r.size)
       THEN AllocTag(r.id, r.size) /\ im' = [im EXCEPT !.pc = "fill"]
       ELSE AllocTagFails(r.size) /\ im' = [im EXCEPT !.pc = "fault"]
    /\ UNCHANGED <<status, filled, calls>>

\* The memory map as it is read now; nothing is left of an overwritten one.
MapNow(s) ==
    CASE s.src = "multiboot2" -> Mb2Read(s, im.scan.mmap).entries
      [] s.src = "limine" ->
            IF Intact(s.map.at, Len(s.map.entries) * 24) THEN s.map.entries ELSE << >>
      [] s.src = "uefi" ->
            IF Intact(s.map.at, s.map.bytes)
            THEN [i \in DOMAIN s.map.entries |->
                    [base |-> s.map.entries[i].base,
                     length |-> s.map.entries[i].pages * PageSize]]
            ELSE << >>

CpusNow(c) ==
    IF Intact(c.at, Len(c.ids) * 8)
    THEN [i \in DOMAIN c.ids |->
            [apic |-> c.ids[i], running |-> c.ids[i] = c.bsp]]
    ELSE << >>

CmdlineBytes(s) ==
    IF s.src = "multiboot2" THEN Mb2Bytes(s, im.scan.cmdline) ELSE s.cmdline.bytes

\* The body written by the emit function of each tag.
Body(s, id) ==
    CASE id = "mmap" -> [entries |-> MapNow(s)]
      [] id = "smp" -> [cpus |-> CpusNow(s.cpus)]
      [] id = "cmdline" -> [at |-> im.ptr, bytes |-> CmdlineBytes(s)]
      [] id = "modules" -> [list |-> << >>]
      [] id = "framebuffer" ->
            IF s.src = "multiboot2"
            THEN [fb |-> Mb2Framebuffer(Mb2Read(s, im.scan.framebuffer))]
            ELSE [fb |-> s.fb]
      [] id = "acpi" ->
            IF s.src = "multiboot2"
            THEN [at |-> im.ptr, bytes |-> Mb2Bytes(s, Mb2Acpi(im.scan))]
            ELSE [rsdp |-> s.acpi.rsdp]
      [] id = "efi" -> [at |-> im.ptr, bytes |-> s.map.bytes]
      [] OTHER -> [copied |-> TRUE]

NextEmission == [im EXCEPT !.pc = "emit", !.queue = Tail(@)]

FillTag ==
    LET id == Head(im.queue).id IN
    /\ im.pc = "fill"
    /\ filled' = Put(filled, b.last, Body(im.s, id))
    /\ im' = IF id = "modules" THEN [im EXCEPT !.pc = "modules", !.off = 8]
             ELSE NextEmission
    /\ UNCHANGED <<vars, status, calls>>

\* One iteration of emit_modules' own walk over the image.
ModulesStep ==
    LET t == Mb2Read(im.s, im.off)
        list == filled[b.last].list
    IN  /\ im.pc = "modules"
        /\ IF im.off < im.s.total /\ Len(list) < im.scan.modules
           THEN /\ filled' = IF t.type # "module" THEN filled
                             ELSE [filled EXCEPT ![b.last].list =
                                     Append(@, <<t.start, t.end - t.start>>)]
                /\ im' = [im EXCEPT !.off = @ + Padded(t.size)]
           ELSE im' = NextEmission /\ UNCHANGED filled
        /\ UNCHANGED <<vars, status, calls>>

ReturnOk ==
    /\ im.pc = "emit" /\ im.queue = << >>
    /\ Finish("ok")
    /\ UNCHANGED <<vars, filled, calls>>

ImportStep ==
    ScanStep \/ EmitBlob \/ EmitTag \/ FillTag \/ ModulesStep \/ ReturnOk

\* The loader's own use of the builder before an import.  Sealing single tags
\* and writing bodies is left out: no importer looks at either.
LoaderCall ==
    /\ ~Importing /\ calls < MaxCalls
    /\ \/ \E size \in TagSizes : AllocTag(HHDM, size) \/ AllocTagFails(size)
       \/ \E len \in BlobSizes : ArenaBlob(len)
       \/ BadSource
       \/ FinalizeFails \/ FinalizeStart \/ Finalizing
    /\ UNCHANGED importVars

ImportNext ==
    \/ /\ ~Importing
       /\ \E s \in Snapshots :
            \/ s.src = "limine" /\ ImportLimine(s)
            \/ s.src = "uefi" /\ ImportUefi(s)
            \/ s.src = "multiboot2" /\ ImportMultiboot2(s)
    \/ ImportStep
    \/ LoaderCall

ImportSpec == ImportInit /\ [][ImportNext]_allVars

\* An importer is sequential code: once called it runs.
FairImportSpec == ImportSpec /\ WF_allVars(ImportStep)

-----------------------------------------------------------------------------
Returns == Importing /\ im'.pc = "idle"
Refused == calls' # calls /\ im'.pc = "idle"

\* The modules of a Multiboot2 image in its order, as base and length.
ModulesOf(s) ==
    LET source == SetToSortSeq({o \in DOMAIN s.cells : s.cells[o].type = "module"}, <)
    IN  [i \in DOMAIN source |->
            <<s.cells[source[i]].start, s.cells[source[i]].end - s.cells[source[i]].start>>]

\* "Importers finish a complete plan before calling any builder function,
\* making every reported error failure-atomic" (bbp_import.h): an error leaves
\* builder and arena as the call found them, and success means that the builder
\* did exactly what was planned, refused nothing and can be finalized; and the
\* second walk over a Multiboot2 image found every module the first counted.
AllOrNothing ==
    [][/\ im'.pc # "fault"
       /\ im.pc = "modules" /\ im'.pc # "modules" =>
            filled[b.last].list = ModulesOf(im.s)
       /\ Returns /\ status' = "ok" =>
            /\ b'.used = im.plan.used /\ b'.count = im.plan.count
            /\ FinalizeOk'
       /\ (Returns \/ Refused) /\ status' # "ok" =>
            /\ extents = (IF Importing THEN im.before ELSE extents)
            /\ UNCHANGED <<mem, b, extents, filled>>]_allVars

Complete == im.pc \notin {"fill", "modules"}

\* What an importer wrote into a tag is sound, although it was read from a
\* source that the emissions themselves might have overwritten: as many valid
\* ranges as the tag has room for, exactly one running processor, pointers to
\* blobs of the stated length in the arena, and a framebuffer whose rows all
\* lie inside its memory.
ImportedIsSound ==
    Complete => \A p \in DOMAIN filled :
        LET f == filled[p] IN
        /\ mem[p].id = "mmap" =>
            /\ MapTag(Len(f.entries)).size = mem[p].size
            /\ \A i \in DOMAIN f.entries :
                f.entries[i].length > 0
                /\ f.entries[i].base + f.entries[i].length <= MaxPhys
        /\ mem[p].id = "smp" =>
            /\ SmpTag(Len(f.cpus)).size = mem[p].size
            /\ \E i \in DOMAIN f.cpus :
                \A j \in DOMAIN f.cpus : f.cpus[j].running <=> j = i
        /\ "at" \in DOMAIN f => [lo |-> f.at, hi |-> f.at + f.bytes] \in extents
        /\ mem[p].id = "framebuffer" =>
            /\ f.fb.width * BytesPerPixel(f.fb.format) <= f.fb.pitch
            /\ f.fb.pitch * f.fb.height <= f.fb.total
            /\ f.fb.address + f.fb.total <= MaxPhys

\* Every import returns, although both walks over a Multiboot2 image advance by
\* what they find in it.
ImportReturns == Importing ~> ~Importing

=============================================================================
