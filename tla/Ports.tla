-------------------------------- MODULE Ports --------------------------------
(***************************************************************************)
(* The four kernel ports (ports/josh, minix, tinalinux, linux01).  Each    *)
(* has glue that snapshots what the foreign loader or the kernel knows, an *)
(* adapter that runs the builder of BbpBuilder over a scratch arena and    *)
(* then the parser of BbpKernel over the result, and consumers that look   *)
(* tags up in the published context.  The glue may be called again.        *)
(*                                                                         *)
(* The builder writes through the arena's own virtual address and stores   *)
(* the physical address the port computed; the parser reads through the    *)
(* direct map.  Both meet only if the computed address is the real one.    *)
(***************************************************************************)
EXTENDS BbpBuilder, BbpKernel

CONSTANTS
    PortNames,    \* ports to explore
    Snapshots,    \* what firmware or kernel offer to the glue
    StaticArena,  \* physical address of minix_arena, l01_arena, bbp_arena_va
    ArenaBytes,   \* BBP_JOSH_ARENA_BYTES and its siblings
    Offset,       \* offset of the direct map
    KernelSlide,  \* kernel_virt_base - kernel_phys_base of MINIX
    MaxEntries,   \* JOSH_MMAP_MAX, GLUE_MAX_MMAP, BBP_TINA_MAX_MMAP
    MaxCpus,      \* JOSH_CPU_MAX
    MaxCalls      \* bound on glue calls

\* Tag identifiers besides HHDM.
MMAP == 2
KADDR == 3
SMP == 4
ACPI == 5
FB == 6
SEC == 7
CMD == 8

ASSUME PortsAssumption ==
    /\ PortNames \subseteq {"josh", "minix", "tina", "linux01"}
    /\ HHDM = 1 /\ 1 .. 8 \subseteq Ids
    /\ StaticArena \in Nat /\ ArenaBytes \in Nat /\ ArenaBytes > InfoSize
    /\ Offset \in Nat /\ KernelSlide \in Nat
    /\ MaxEntries \in Nat /\ MaxCpus \in Nat /\ MaxCalls \in Nat

VARIABLES
    port,     \* which port this kernel is
    bi,       \* struct bbp_*_bootinfo of the call in progress, or the last
    pc,       \* where the call is
    todo,     \* tags the adapter has still to emit
    arena,    \* true physical address of the arena, 0 before the first
    slid,     \* minix_kslide_set
    blobs,    \* physical address -> out-of-line copy and the CRC naming it
    valid,    \* g_josh_bbp_ok, g_ctx_valid, bbp_ctx_valid, l01_boot_ctx_valid
    seed,     \* g_boot_entropy, 0 while g_boot_entropy_len is
    want,     \* history: the tags the published snapshot calls for
    calls     \* history: number of glue calls

portVars == <<port, bi, pc, todo, arena, slid, blobs, valid, seed, want, calls>>
allVars == <<mem, info, buildVars, kernelVars, portVars>>

-----------------------------------------------------------------------------
\* The glue: from a snapshot to a bootinfo.

\* Null entries are skipped and the copy stops when the static array is full.
Copied(map) ==
    LET present == SelectSeq(map, LAMBDA e : e # "null")
    IN  SubSeq(present, 1, IF Len(present) < MaxEntries THEN Len(present)
                                                        ELSE MaxEntries)

Usable(map) == Len(SelectSeq(map, LAMBDA e : e = "usable"))

NoBootinfo == [hhdm |-> 0, map |-> << >>, raw |-> 0, kaddr |-> FALSE,
               cpus |-> 0, rsdp |-> 0, fb |-> FALSE, seed |-> 0, cmd |-> 0]

JoshGlue(s) ==
    [NoBootinfo EXCEPT !.hhdm = s.hhdm, !.map = Copied(s.map),
                       !.raw = Usable(s.map), !.fb = s.fb, !.seed = s.seed,
                       !.cpus = IF s.cpus < MaxCpus THEN s.cpus ELSE MaxCpus]

MinixGlue(s) ==
    [NoBootinfo EXCEPT !.hhdm = Offset, !.map = Copied(s.map),
                       !.raw = Usable(s.map), !.kaddr = s.kaddr,
                       !.cpus = s.cpus, !.rsdp = s.rsdp, !.cmd = s.cmd]

TinaGlue(s) ==
    [NoBootinfo EXCEPT !.hhdm = Offset, !.map = Copied(s.map),
                       !.raw = Usable(s.map), !.kaddr = TRUE,
                       !.rsdp = s.rsdp, !.cmd = s.cmd]

\* linux-0.01 is identity-mapped and knows its memory at compile time.
Linux01Glue ==
    [NoBootinfo EXCEPT !.map = <<"usable", "other", "usable">>, !.raw = 2,
                       !.kaddr = TRUE]

Glue(s) ==
    CASE port = "josh" -> JoshGlue(s)
      [] port = "minix" -> MinixGlue(s)
      [] port = "tina" -> TinaGlue(s)
      [] port = "linux01" -> Linux01Glue

-----------------------------------------------------------------------------
\* The tags an adapter emits for a bootinfo, in its order.

\* A request of size 0 is for a tag the adapter omits; blob is the length of
\* the out-of-line copy and val what body or blob will hold.
Request(id, size, val, blob) ==
    [id |-> id, size |-> size, val |-> val, blob |-> blob]

Omitted(id) == Request(id, 0, 0, 0)

For(id, x) ==
    CASE id = HHDM -> Request(HHDM, HhdmSize, x.hhdm, 0)
      [] id = MMAP /\ x.map # << >> ->
            Request(MMAP, 40 + 32 * Len(x.map), Usable(x.map), 0)
      [] id = KADDR /\ x.kaddr ->
            Request(KADDR, 48, IF port = "linux01" THEN 0 ELSE KernelSlide, 0)
      [] id = SMP /\ x.cpus # 0 -> Request(SMP, 48 + 48 * x.cpus, x.cpus, 0)
      [] id = ACPI /\ x.rsdp # 0 -> Request(ACPI, 56, x.rsdp, 0)
      [] id = FB /\ x.fb -> Request(FB, 72 + 48, 1, 0)
      [] id = SEC /\ x.seed # 0 -> Request(SEC, 128, x.seed, 48)
      [] id = CMD /\ x.cmd # 0 -> Request(CMD, 56, x.cmd, x.cmd + 1)
      [] OTHER -> Omitted(id)

Order ==
    CASE port = "josh" -> <<HHDM, MMAP, FB, SMP, SEC, CMD>>
      [] port = "minix" -> <<HHDM, MMAP, KADDR, SMP, ACPI, FB, CMD>>
      [] port = "tina" -> <<HHDM, MMAP, KADDR, ACPI, CMD>>
      [] port = "linux01" -> <<HHDM, MMAP, KADDR>>

TagsFor(x) ==
    SelectSeq([i \in DOMAIN Order |-> For(Order[i], x)], LAMBDA r : r.size # 0)

-----------------------------------------------------------------------------
\* The calls.

PortInit ==
    /\ BuilderInit(FALSE, 0, 0) /\ KernelInit
    /\ port \in PortNames
    /\ bi = NoBootinfo /\ pc = "idle" /\ todo = << >>
    /\ arena = 0 /\ slid = FALSE /\ blobs = << >>
    /\ valid = FALSE /\ seed = 0 /\ want = << >> /\ calls = 0

\* A glue call; without an HHDM offset Josh returns before touching anything.
GlueCall(s) ==
    /\ pc = "idle" /\ Ready /\ calls < MaxCalls
    /\ calls' = calls + 1
    /\ IF port = "josh" /\ s.hhdm = 0
       THEN UNCHANGED <<bi, pc, res>>
       ELSE bi' = Glue(s) /\ pc' = "arena" /\ res' = Idle
    /\ UNCHANGED <<mem, info, buildVars, k, w, st, touched, port, todo, arena,
                   slid, blobs, valid, seed, want>>

\* Fault: a failed call leaves the published flag alone.
StillValidAlways == valid

\* What a failed call does to the published flag.
StillValid == port = "linux01" /\ valid

Fails ==
    /\ pc' = "idle" /\ valid' = StillValid
    /\ UNCHANGED <<port, bi, todo, arena, slid, blobs, seed, want, calls>>

\* The page allocators of Josh and, once, of TinaLinux may have no memory.
NoArena ==
    /\ pc = "arena"
    /\ port = "josh" \/ (port = "tina" /\ arena = 0)
    /\ Fails
    /\ UNCHANGED <<mem, info, buildVars, kernelVars>>

\* Josh allocates an arena per call, the others reuse theirs.
ArenaFor(a) ==
    IF port = "josh" THEN a \in ArenaPhys \ {arena} ELSE a = StaticArena

\* The virtual address at which the kernel sees an arena.
ArenaVirt(a) ==
    CASE port \in {"josh", "tina"} -> a + Offset
      [] port = "minix" -> a + KernelSlide
      [] port = "linux01" -> a

\* Fault: the arena is taken to be in the direct map.
VirtToPhysDirect(virt, slide) == virt - bi.hhdm

\* MINIX translates through the kernel slide, or not at all before it is known.
VirtToPhys(virt, slide) ==
    IF port = "minix" THEN IF slide THEN virt - KernelSlide ELSE virt
    ELSE virt - bi.hhdm

\* The info block is carved off the front and the rest, zeroed, is given to
\* bbp_builder_init, which also refuses an address of 0.
CarveArena(a) ==
    LET slide == slid \/ (port = "minix" /\ bi.kaddr)
        phys == VirtToPhys(ArenaVirt(a) + InfoSize, slide)
        cap == ArenaBytes - InfoSize
    IN
    /\ pc = "arena" /\ ArenaFor(a)
    /\ arena' = a /\ slid' = slide
    /\ b' = [arena |-> TRUE, phys |-> phys, cap |-> cap, used |-> 0,
             last |-> 0, first |-> 0, count |-> 0,
             overflow |-> BadArena(TRUE, phys, cap)]
    /\ mem' = << >> /\ info' = BlankInfo /\ blobs' = << >>
    /\ phase' = "build" /\ cur' = 0 /\ ret' = "none"
    /\ chain' = << >> /\ extents' = {}
    /\ todo' = TagsFor(bi) /\ pc' = "tag"
    /\ UNCHANGED <<kernelVars, port, bi, valid, seed, want, calls>>

InAdapter == UNCHANGED <<kernelVars, port, bi, arena, slid, valid, seed, want, calls>>

EmitTag ==
    /\ pc = "tag" /\ todo # << >>
    /\ AllocTag(Head(todo).id, Head(todo).size)
    /\ pc' = IF Head(todo).blob = 0 THEN "fill" ELSE "blob"
    /\ InAdapter /\ UNCHANGED <<todo, blobs>>

\* A tag that cannot be allocated is passed over: the sticky overflow flag
\* is relied upon to fail finalize.
SkipTag ==
    /\ pc = "tag" /\ todo # << >>
    /\ AllocTagFails(Head(todo).size)
    /\ todo' = Tail(todo)
    /\ InAdapter /\ UNCHANGED <<pc, blobs>>

\* The copy is stored with its CRC; the tag will hold its address, or 0.
CopyBlob ==
    LET r == Head(todo)
    IN
    /\ pc = "blob"
    /\ ArenaBlob(r.blob)
    /\ blobs' = IF BumpOk(r.blob)
                THEN Put(blobs, BumpAt, [len |-> r.blob, val |-> r.val, crc |-> r.val])
                ELSE blobs
    /\ todo' = [todo EXCEPT ![1].val = IF BumpOk(r.blob) THEN BumpAt ELSE 0]
    /\ pc' = "fill"
    /\ InAdapter

FillTag ==
    /\ pc = "fill"
    /\ WriteBody(Len(chain), Head(todo).val)
    /\ todo' = Tail(todo) /\ pc' = "tag"
    /\ InAdapter /\ UNCHANGED blobs

Finalize ==
    /\ pc = "tag" /\ todo = << >>
    /\ \/ FinalizeFails /\ Fails
       \/ FinalizeStart /\ pc' = "finalize"
          /\ UNCHANGED <<port, bi, todo, arena, slid, blobs, valid, seed, want, calls>>
    /\ UNCHANGED kernelVars

Seal ==
    /\ pc = "finalize"
    /\ \/ FinalizeSeal /\ UNCHANGED pc
       \/ FinalizeEnd /\ pc' = "init"
    /\ InAdapter /\ UNCHANGED <<todo, blobs>>

InParser == UNCHANGED <<buildVars, port, bi, todo, arena, slid, blobs, want, calls>>

\* Everything the adapter emitted has been read back through the direct map.
InitContext ==
    /\ pc = "init"
    /\ InitBounded(bi.hhdm, b.phys, b.cap)
    /\ pc' = "walk"
    /\ InParser /\ UNCHANGED <<valid, seed>>

ParserStep ==
    /\ pc \in {"walk", "take", "idle"}
    /\ WalkStep
    /\ InParser /\ UNCHANGED <<pc, valid, seed>>

Publish ==
    /\ pc = "walk" /\ Ready
    /\ IF st = "ok"
       THEN /\ valid' = TRUE /\ want' = TagsFor(bi)
            /\ pc' = IF port = "josh" THEN "seed" ELSE "idle"
            /\ UNCHANGED <<port, bi, todo, arena, slid, blobs, seed, calls>>
       ELSE Fails
    /\ UNCHANGED <<mem, info, buildVars, kernelVars>>

LookUpSeed ==
    /\ pc = "seed"
    /\ FindTag(SEC)
    /\ pc' = "take"
    /\ InParser /\ UNCHANGED <<valid, seed>>

\* bbp_verify_blob of a blob that must carry a CRC.
BlobOk(p) ==
    /\ p \in DOMAIN blobs
    /\ AddressRegionOk(k, p, blobs[p].len)
    /\ blobs[p].crc # 0 /\ blobs[p].crc = blobs[p].val

TakeSeed ==
    /\ pc = "take" /\ Ready
    /\ seed' = IF res.cur # 0 /\ BlobOk(Read(res.cur).body)
               THEN blobs[Read(res.cur).body].val ELSE seed
    /\ pc' = "idle"
    /\ InParser /\ UNCHANGED <<mem, info, kernelVars, valid>>

\* A consumer looks a tag up once a context is published.
Consume(id) ==
    /\ pc = "idle" /\ valid
    /\ FindTag(id)
    /\ InParser /\ UNCHANGED <<pc, valid, seed>>

PortNext ==
    \/ \E s \in Snapshots : GlueCall(s)
    \/ NoArena
    \/ \E a \in ArenaPhys : CarveArena(a)
    \/ EmitTag \/ SkipTag \/ CopyBlob \/ FillTag
    \/ Finalize \/ Seal
    \/ InitContext \/ ParserStep \/ Publish
    \/ LookUpSeed \/ TakeSeed
    \/ \E id \in Ids : Consume(id)

PortSpec == PortInit /\ [][PortNext]_allVars

-----------------------------------------------------------------------------
\* A tag as a consumer understands it: out-of-line data is followed.
Decoded(p) ==
    LET t == Read(p) IN
    <<t.id, t.size,
      IF t.id \in {SEC, CMD} /\ t.body \in DOMAIN blobs
      THEN blobs[t.body].val ELSE t.body>>

\* The size a consumer requires of the tag it looked up.
Fixed == [id \in 1 .. 8 |-> <<40, 40, 48, 48, 56, 72, 128, 56>>[id]]

\* bbp_minix_verify_memmap: the usable memory in the tag is the loader's total.
MemmapVerified == res.cur # 0 /\ Read(res.cur).body = bi.raw

Settled == pc = "idle" /\ Ready /\ valid

\* A published context holds exactly the tags the snapshot of its own call
\* asked for, complete and in order, although adapters pass over failed
\* allocations and later calls reuse the arena; each consumer is answered from
\* it; MINIX's map check passes exactly if the glue's cap lost no usable memory;
\* and a seed the hardware delivered has reached Josh's random generator.
PublishedIsOffered ==
    Settled =>
        /\ [i \in DOMAIN Accepted(k) |-> Decoded(Accepted(k)[i])]
               = [i \in DOMAIN want |-> <<want[i].id, want[i].size, want[i].val>>]
        /\ res.op = "find" =>
            \/ res.cur = 0 /\ \A i \in DOMAIN want : want[i].id # res.id
            \/ /\ Read(res.cur).id = res.id /\ Read(res.cur).size >= Fixed[res.id]
               /\ \E i \in DOMAIN want : Decoded(res.cur) =
                      <<want[i].id, want[i].size, want[i].val>>
        /\ res.id = MMAP => (MemmapVerified <=> res.cur # 0 /\ Usable(bi.map) = bi.raw)
        /\ bi.seed # 0 => seed = bi.seed

\* The address the builder stored is the arena's real one whenever the parser
\* is started: a port that does not know its kernel slide yet must have
\* failed, because reading through the direct map would miss the arena.
ParserReadsArena ==
    pc \in {"init", "walk", "seed", "take"} => b.phys = arena + InfoSize

=============================================================================
