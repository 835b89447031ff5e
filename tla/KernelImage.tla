----------------------------- MODULE KernelImage -----------------------------
(***************************************************************************)
(* From a kernel's ELF file to the page tables it starts on: the planner   *)
(* bootloader/uefi/elf64_loader.c, and find_header,                        *)
(* validate_header_contract and build_page_tables of                       *)
(* bootloader/efi_main.c; then the memory map that build_handoff makes for *)
(* it.  Which firmware calls fail in between is EfiLoader's subject.       *)
(*                                                                         *)
(* Tables have Fan entries (512 in the code) on four levels; an address    *)
(* has as many significant bits as that makes and a canonical gap above.   *)
(***************************************************************************)
EXTENDS Naturals, Sequences, FiniteSets, Status

CONSTANTS
    Images,       \* kernel files
    PageSize,     \* BBP_ELF64_PAGE_SIZE, EFI_PAGE_SIZE
    Fan,          \* entries of a table
    Gbs,          \* top-level entries of the identity and direct maps
    PoolPages,    \* BBP_PAGE_TABLE_PAGES
    MaxHeaders,   \* BBP_ELF64_MAX_PROGRAM_HEADERS
    MaxLoad,      \* BBP_ELF64_MAX_LOAD_SEGMENTS
    PhysLimit,    \* ELF64_PHYSICAL_LIMIT
    EhdrSize, PhdrSize, BearSize, RequestSize,  \* sizes of the structures
    MaxRequests,  \* BBP_MAX_REQUESTS
    Machines,     \* physical memory: page -> EFI memory type
    Holdings,     \* pages the firmware may have given for arena, stack, tables
    Oddities,     \* descriptors a firmware may report besides: sets of them
    MaxEntries    \* memory map entries for which the arena has room

ASSUME ImageAssumption ==
    /\ PageSize \in Nat \ {0} /\ Fan \in Nat /\ Fan % 2 = 0 /\ Fan > 0
    /\ Gbs \in 1 .. Fan /\ PoolPages \in Nat

VARIABLES
    img,      \* the file
    stage,    \* how far efi_main got
    plan,     \* struct bbp_elf64_plan
    tables,   \* the page pool: tables used, and <<table, index>> -> entry
    machine,  \* the memory behind the final map, and the pages held of it
    entries   \* the memory map tag: a set of [base, length, type]

imageVars == <<img, stage, plan, tables, machine, entries>>

Pages == Fan ^ 4
Half == (Pages \div 2) * PageSize   \* ELF64_LOWER_CANONICAL_END
Top == 4 * Half                     \* UINT64_MAX + 1
IdentityPages == Gbs * Fan * Fan    \* BBP_IDENTITY_LIMIT in pages
HhdmPage == Pages \div 2            \* page of BBP_HHDM_OFFSET

NoPlan == [entry |-> 0, base |-> 0, end |-> 0, segs |-> << >>]

-----------------------------------------------------------------------------
\* bbp_elf64_plan.

CanonicalRegion(a) == IF a < Half THEN 1 ELSE IF a >= Top - Half THEN 2 ELSE 0

CanonicalRange(start, end) ==
    /\ CanonicalRegion(start) # 0
    /\ start # end => CanonicalRegion(end - 1) = CanonicalRegion(start)

IsPowerOfTwo(n) == \E i \in 0 .. 12 : n = 2 ^ i

RangesOverlap(a, aEnd, b, bEnd) == a < bEnd /\ b < aEnd

PageDown(a) == (a \div PageSize) * PageSize

PageEnd(h) ==
    IF h.msz = 0 THEN PageDown(h.pa) ELSE PageDown(h.pa + h.msz + PageSize - 1)

Segment(h) ==
    [off |-> h.off, fsz |-> h.fsz, msz |-> h.msz, va |-> h.va, pa |-> h.pa,
     w |-> h.w, x |-> h.x, base |-> PageDown(h.pa),
     count |-> (PageEnd(h) - PageDown(h.pa)) \div PageSize]

\* The tests on a loadable program header, after the segments in segs.
SegmentStatus(image, h, segs) ==
    FirstError(<<
        Check(Len(segs) < MaxLoad, "segment limit"),
        Check(h.fsz <= h.msz, "memory size"),
        Check(~(h.w /\ h.x), "wx"),
        Check(h.align > 1 => /\ IsPowerOfTwo(h.align)
                             /\ h.off % h.align = h.va % h.align
                             /\ h.off % h.align = h.pa % h.align, "alignment"),
        Check(/\ h.off + h.fsz < Top /\ h.va + h.msz < Top
              /\ h.pa + h.msz < Top, "overflow"),
        Check(h.va % PageSize = h.pa % PageSize, "alignment"),
        Check(h.off + h.fsz <= image.size, "file range"),
        Check(CanonicalRange(h.va, h.va + h.msz), "address"),
        Check(h.pa < PhysLimit /\ h.pa + h.msz <= PhysLimit, "physical limit"),
        Check(\A j \in DOMAIN segs :
                LET s == Segment(h) IN
                s.count # 0 /\ segs[j].count # 0 =>
                    ~RangesOverlap(s.base, PageEnd(h), segs[j].base,
                                   segs[j].base + segs[j].count * PageSize),
              "page overlap")>>)

\* The loop over the program headers.
Scanned(image) ==
    LET scan[i \in 0 .. Len(image.phs)] ==
            IF i = 0 THEN [st |-> "ok", segs |-> << >>]
            ELSE LET prev == scan[i - 1]
                     h == image.phs[i]
                 IN  IF prev.st # "ok" \/ ~h.load THEN prev
                     ELSE IF SegmentStatus(image, h, prev.segs) # "ok"
                     THEN [prev EXCEPT !.st = SegmentStatus(image, h, prev.segs)]
                     ELSE [prev EXCEPT !.segs = Append(@, Segment(h))]
    IN  scan[Len(image.phs)]

EntryCovered(image, segs) ==
    \E j \in DOMAIN segs :
        segs[j].x /\ segs[j].va <= image.entry /\ image.entry < segs[j].va + segs[j].msz

PlanStatus(image) ==
    LET header == FirstError(<<
            Check(image.size >= EhdrSize, "truncated"),
            Check(image.format, "format"),
            Check(CanonicalRegion(image.entry) # 0, "address"),
            Check(Len(image.phs) \in 1 .. MaxHeaders, "program headers"),
            Check(image.phoff + Len(image.phs) * PhdrSize < Top, "overflow"),
            Check(image.phoff + Len(image.phs) * PhdrSize <= image.size, "truncated")>>)
    IN
    IF header # "ok" THEN header
    ELSE IF Scanned(image).st # "ok" THEN Scanned(image).st
    ELSE Check(EntryCovered(image, Scanned(image).segs), "entry")

\* The envelope spans the pages of all segments that have any.
PlanOf(image) ==
    LET segs == Scanned(image).segs
        bases == {segs[j].base : j \in {j \in DOMAIN segs : segs[j].count # 0}}
        ends == {segs[j].base + segs[j].count * PageSize :
                    j \in {j \in DOMAIN segs : segs[j].count # 0}}
    IN  [entry |-> image.entry, segs |-> segs,
         base |-> IF bases = {} THEN 0 ELSE CHOOSE b \in bases : \A c \in bases : b <= c,
         end |-> IF ends = {} THEN 0 ELSE CHOOSE e \in ends : \A c \in ends : c <= e]

PlanImage ==
    /\ stage = "plan"
    /\ IF PlanStatus(img) = "ok"
       THEN plan' = PlanOf(img) /\ stage' = "load"
       ELSE stage' = "failed" /\ UNCHANGED plan
    /\ UNCHANGED <<img, tables, machine, entries>>

\* load_segments' own tests; the firmware's are EfiLoader's LoadFails.
LoadSegments ==
    /\ stage = "load"
    /\ stage' = IF \A j \in DOMAIN plan.segs : plan.segs[j].count # 0 =>
                    /\ plan.segs[j].base # 0
                    /\ plan.segs[j].base + plan.segs[j].count * PageSize
                            <= IdentityPages * PageSize
                THEN "header" ELSE "failed"
    /\ UNCHANGED <<img, plan, tables, machine, entries>>

-----------------------------------------------------------------------------
\* find_header and validate_header_contract.

\* Where the scan, in steps of eight, meets the magic in loaded file content.
Magics ==
    {n \in DOMAIN img.bears :
        LET b == img.bears[n] IN
        /\ b.seg \in DOMAIN plan.segs /\ b.off % 8 = 0
        /\ b.off + BearSize <= plan.segs[b.seg].fsz}

\* Exactly one, and bbp_verify_header accepts it.
Found == Cardinality(Magics) = 1 /\ \A n \in Magics : img.bears[n].good

Header == img.bears[CHOOSE n \in Magics : TRUE]

VirtualBase ==
    LET lowest == {j \in DOMAIN plan.segs :
                    plan.segs[j].count # 0 /\ plan.segs[j].base = plan.base}
    IN  IF lowest = {} THEN 0
        ELSE LET s == plan.segs[CHOOSE j \in lowest : TRUE] IN s.va - (s.pa - s.base)

PhysicalRangeLoaded(a, size) ==
    /\ size # 0
    /\ \E j \in DOMAIN plan.segs :
        plan.segs[j].pa <= a /\ a + size <= plan.segs[j].pa + plan.segs[j].msz

Mandatory == {"hhdm", "memory_map", "kernel_address"}

RequestsOk(reqs) ==
    /\ \A i \in DOMAIN reqs : reqs[i].ok /\ (reqs[i].id \in Mandatory \/ reqs[i].optional)
    /\ \A id \in Mandatory : Cardinality({i \in DOMAIN reqs : reqs[i].id = id}) = 1

ContractOk(h) ==
    /\ h.entry = plan.entry /\ h.supported
    /\ h.vbase # 0 /\ h.vbase = VirtualBase
    /\ Len(h.reqs) <= MaxRequests
    /\ PhysicalRangeLoaded(h.reqAt, Len(h.reqs) * RequestSize)
    /\ RequestsOk(h.reqs)

VerifyHeader ==
    /\ stage = "header"
    /\ stage' = IF Found /\ ContractOk(Header) THEN "tables" ELSE "failed"
    /\ UNCHANGED <<img, plan, tables, machine, entries>>

-----------------------------------------------------------------------------
\* build_page_tables.  A table is its number in the pool, from 1; an entry
\* refers to a table, to a page, or (large) to the first of Fan pages.

Entry(kind, to, w) == [kind |-> kind, to |-> to, w |-> w]

Pml4 == 1
IdentityPdpt == 2
HhdmPdpt == 3
FirstPt == 6
IdentityPd(gb) == IF gb = 0 THEN 4 ELSE 2 * gb + 5
HhdmPd(gb) == IdentityPd(gb) + 1
BaseTables == 2 * Gbs + 4

\* Both maps of low memory; the first large page of the identity map is split
\* so that page 0 can be left out.
BaseEntries(unmapNull) ==
    LET keys == {<<Pml4, 0>>, <<Pml4, Fan \div 2>>}
                \cup {<<t, gb>> : t \in {IdentityPdpt, HhdmPdpt}, gb \in 0 .. Gbs - 1}
                \cup {<<IdentityPd(gb), mb>> : gb \in 0 .. Gbs - 1, mb \in 0 .. Fan - 1}
                \cup {<<HhdmPd(gb), mb>> : gb \in 0 .. Gbs - 1, mb \in 0 .. Fan - 1}
                \cup {<<FirstPt, n>> : n \in (IF unmapNull THEN 1 ELSE 0) .. Fan - 1}
        large(pd(_), t, mb) ==
            LET gb == CHOOSE g \in 0 .. Gbs - 1 : pd(g) = t
            IN  Entry("large", (gb * Fan + mb) * Fan, TRUE)
    IN  [e \in keys |->
            CASE e = <<Pml4, 0>> -> Entry("table", IdentityPdpt, TRUE)
              [] e = <<Pml4, Fan \div 2>> -> Entry("table", HhdmPdpt, TRUE)
              [] e[1] = IdentityPdpt -> Entry("table", IdentityPd(e[2]), TRUE)
              [] e[1] = HhdmPdpt -> Entry("table", HhdmPd(e[2]), TRUE)
              [] e[1] = FirstPt -> Entry("page", e[2], TRUE)
              [] e = <<IdentityPd(0), 0>> -> Entry("table", FirstPt, TRUE)
              [] e[1] \in {IdentityPd(gb) : gb \in 0 .. Gbs - 1} /\ e # <<IdentityPd(0), 0>> ->
                    large(IdentityPd, e[1], e[2])
              [] e[1] \in {HhdmPd(gb) : gb \in 0 .. Gbs - 1} -> large(HhdmPd, e[1], e[2])]

Index(v, level) == (v \div Fan ^ level) % Fan

Add(t, key, e) ==
    [t EXCEPT !.ents = [k \in DOMAIN t.ents \cup {key} |-> IF k = key THEN e ELSE t.ents[k]]]

\* One level of map_page's walk: a missing table is taken from the pool.
Descend(t, v, level) ==
    LET key == <<t.at, Index(v, level)>> IN
    IF ~t.ok THEN t
    ELSE IF key \notin DOMAIN t.ents
    THEN IF t.used = PoolPages THEN [t EXCEPT !.ok = FALSE]
         ELSE [Add(t, key, Entry("table", t.used + 1, TRUE))
                  EXCEPT !.used = t.used + 1, !.at = t.used + 1]
    ELSE IF t.ents[key].kind = "large" THEN [t EXCEPT !.ok = FALSE]
    ELSE [t EXCEPT !.at = t.ents[key].to]

\* Fault: a page that is already mapped is mapped again.
MapPageAgain(t, v, p, w) ==
    LET leaf == Descend(Descend(Descend([t EXCEPT !.at = Pml4], v, 3), v, 2), v, 1)
    IN  IF ~leaf.ok THEN leaf
        ELSE Add(leaf, <<leaf.at, Index(v, 0)>>, Entry("page", p, w))

MapPage(t, v, p, w) ==
    LET leaf == Descend(Descend(Descend([t EXCEPT !.at = Pml4], v, 3), v, 2), v, 1)
        key == <<leaf.at, Index(v, 0)>>
    IN  IF ~leaf.ok THEN leaf
        ELSE IF key \in DOMAIN leaf.ents THEN [leaf EXCEPT !.ok = FALSE]
        ELSE Add(leaf, key, Entry("page", p, w))

\* Virtual and physical page of the n-th page of a segment, from 0.
VirtualPage(s, n) == (((s.va - (s.pa - s.base)) \div PageSize) + n) % Pages
PhysicalPage(s, n) == s.base \div PageSize + n

MapSegment(t, s) ==
    LET map[n \in 0 .. s.count] ==
            IF n = 0 \/ ~map[n - 1].ok THEN IF n = 0 THEN t ELSE map[n - 1]
            ELSE MapPage(map[n - 1], VirtualPage(s, n - 1), PhysicalPage(s, n - 1), s.w)
    IN  map[s.count]

Mapped(segs, base) ==
    LET map[j \in 0 .. Len(segs)] ==
            IF j = 0 THEN base
            ELSE IF map[j - 1].ok THEN MapSegment(map[j - 1], segs[j]) ELSE map[j - 1]
    IN  map[Len(segs)]

BuildPageTables ==
    /\ stage = "tables"
    /\ LET base == [ok |-> BaseTables <= PoolPages, used |-> BaseTables, at |-> Pml4,
                    ents |-> BaseEntries(Header.unmapNull)]
       IN  tables' = IF base.ok THEN Mapped(plan.segs, base) ELSE base
    /\ stage' = IF tables'.ok THEN "ready" ELSE "failed"
    /\ UNCHANGED <<img, plan, machine, entries>>

-----------------------------------------------------------------------------
\* build_handoff.

KernelPages ==
    UNION {{PhysicalPage(plan.segs[j], n) : n \in 0 .. plan.segs[j].count - 1} :
            j \in DOMAIN plan.segs}

\* The firmware (external) has given out free memory only, as EfiLoaderData,
\* and reports each run of pages of one type.
Typed(memory, held) ==
    [p \in DOMAIN memory |-> IF p \in KernelPages \cup held THEN "loader" ELSE memory[p]]

Descriptors(memory, held) ==
    LET type == Typed(memory, held)
        run(a, b) ==
            /\ a <= b /\ \A p \in a .. b : type[p] = type[a]
            /\ a - 1 \in DOMAIN type => type[a - 1] # type[a]
            /\ b + 1 \in DOMAIN type => type[b + 1] # type[a]
        runs == {r \in (DOMAIN type) \X (DOMAIN type) : run(r[1], r[2])}
    IN  {[start |-> r[1] * PageSize, pages |-> r[2] - r[1] + 1, type |-> type[r[1]]] : r \in runs}

MemoryType(type) ==
    CASE type \in {"loader", "boot"} -> "reclaim"
      [] type = "conventional" -> "usable"
      [] type = "unusable" -> "bad"
      [] type \in {"acpi", "nvs", "persistent"} -> type
      [] type = "mmio" -> "device"
      [] OTHER -> "reserved"

EndOf(d) == d.start + d.pages * PageSize

\* The tests on a descriptor.
GeometryOk(d) ==
    /\ d.pages # 0 /\ EndOf(d) < Top
    /\ d.type \notin {"mmio", "reserved"} => EndOf(d) <= IdentityPages * PageSize

\* Fault: only a descriptor that starts in the kernel is the kernel's.
MemoryEntryByStart(d) ==
    [base |-> d.start, length |-> d.pages * PageSize,
     type |-> IF plan.base <= d.start /\ d.start < plan.end THEN "kernel"
              ELSE MemoryType(d.type)]

MemoryEntry(d) ==
    [base |-> d.start, length |-> d.pages * PageSize,
     type |-> IF d.start < plan.end /\ EndOf(d) > plan.base THEN "kernel"
              ELSE MemoryType(d.type)]

BuildHandoff(memory, held, odd) ==
    LET map == Descriptors(memory, held) \cup odd IN
    /\ stage = "ready"
    /\ held \cap KernelPages = {}
    /\ \A p \in KernelPages \cup held : p \in DOMAIN memory /\ memory[p] = "conventional"
    /\ machine' = [memory |-> memory, held |-> held]
    /\ IF Cardinality(map) <= MaxEntries /\ \A d \in map : GeometryOk(d)
       THEN entries' = {MemoryEntry(d) : d \in map} /\ stage' = "jumped"
       ELSE stage' = "halted" /\ UNCHANGED entries
    /\ UNCHANGED <<img, plan, tables>>

ImageInit ==
    /\ img \in Images /\ stage = "plan" /\ plan = NoPlan
    /\ tables = [ok |-> TRUE, used |-> 0, at |-> Pml4, ents |-> << >>]
    /\ machine = [memory |-> << >>, held |-> {}] /\ entries = {}

ImageNext ==
    \/ PlanImage \/ LoadSegments \/ VerifyHeader \/ BuildPageTables
    \/ \E memory \in Machines, held \in Holdings, odd \in Oddities :
        BuildHandoff(memory, held, odd)

ImageSpec == ImageInit /\ [][ImageNext]_imageVars

-----------------------------------------------------------------------------
\* The processor's walk (external): page and permission, or << >>.
Translate(v) ==
    LET step(t, level) ==
            IF t.kind # "table" THEN t
            ELSE IF <<t.to, Index(v, level)>> \notin DOMAIN tables.ents
            THEN Entry("none", 0, FALSE)
            ELSE LET e == tables.ents[<<t.to, Index(v, level)>>] IN
                 [e EXCEPT !.w = @ /\ t.w,
                           !.to = IF e.kind = "large" THEN @ + Index(v, 0) ELSE @]
        leaf == step(step(step(step(Entry("table", Pml4, TRUE), 3), 2), 1), 0)
    IN  IF leaf.kind \in {"page", "large"} THEN <<leaf.to, leaf.w>> ELSE << >>

\* What a page ought to translate to.
Intended(v) ==
    LET owners == {<<j, n>> \in UNION {{j} \X (0 .. plan.segs[j].count - 1) : j \in DOMAIN plan.segs} :
                    VirtualPage(plan.segs[j], n) = v}
    IN  IF owners # {}
        THEN LET o == CHOOSE o \in owners : TRUE
             IN  <<PhysicalPage(plan.segs[o[1]], o[2]), plan.segs[o[1]].w>>
        ELSE IF v < IdentityPages /\ (v # 0 \/ ~Header.unmapNull) THEN <<v, TRUE>>
        ELSE IF v \in HhdmPage .. HhdmPage + IdentityPages - 1 THEN <<v - HhdmPage, TRUE>>
        ELSE << >>

\* A kernel that is started finds under every virtual page exactly what was
\* meant: each byte of its segments, at the addresses its file asks for and
\* writable only if the file says so, low memory twice, and nothing else.  No
\* segment shares a page with another or with the maps of low memory, the
\* entry point is code that cannot be written through its own mapping, and the
\* reported virtual base is where the reported physical base is mapped.
KernelIsMapped ==
    stage = "ready" =>
        /\ \A v \in 0 .. Pages - 1 : Translate(v) = Intended(v)
        /\ \A j \in DOMAIN plan.segs :
            LET s == plan.segs[j] IN
            \A a \in s.va .. s.va + s.msz - 1 :
                Translate((a \div PageSize) % Pages)
                    = <<(s.pa + (a - s.va)) \div PageSize, s.w>>
        /\ \E j \in DOMAIN plan.segs :
            /\ plan.segs[j].x /\ ~plan.segs[j].w
            /\ plan.entry \in plan.segs[j].va .. plan.segs[j].va + plan.segs[j].msz - 1
        /\ \E w \in BOOLEAN :
            Translate((Header.vbase \div PageSize) % Pages) = <<plan.base \div PageSize, w>>
        /\ \A i, j \in DOMAIN plan.segs : i # j =>
            (plan.segs[i].pa .. plan.segs[i].pa + plan.segs[i].msz - 1)
            \cap (plan.segs[j].pa .. plan.segs[j].pa + plan.segs[j].msz - 1) = {}

\* The kernel may take what the map calls usable, and after it has read the
\* handoff what the map calls reclaimable, without losing anything: usable
\* pages are free and in both maps of low memory; reclaimable pages hold no
\* part of the kernel; the kernel's own pages are all reported as such, even if
\* the firmware merged them with a neighbour or they lie apart; arena, stack
\* and tables are never usable.
TakenMemoryIsSafe ==
    stage = "jumped" =>
        LET reported(p) == {e.type : e \in {e \in entries :
                RangesOverlap(p * PageSize, (p + 1) * PageSize, e.base, e.base + e.length)}}
        IN
        \A p \in DOMAIN machine.memory :
            /\ p \in KernelPages => reported(p) = {"kernel"}
            /\ p \in machine.held => reported(p) \subseteq {"reclaim", "kernel"}
            /\ "usable" \in reported(p) =>
                /\ machine.memory[p] = "conventional"
                /\ p \notin KernelPages \cup machine.held
            /\ reported(p) \cap {"usable", "reclaim"} # {} =>
                /\ Translate(HhdmPage + p) = <<p, TRUE>>
                /\ p # 0 => Translate(p) = <<p, TRUE>>

=============================================================================
