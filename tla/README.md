# BearBoot in TLA+

A specification of the Bear Boot Protocol reference code: TLA+ modules
translated from the source, TLC runs over small instances, and TLAPS proofs for
every instance. `PROJECT.json` maps each definition to the lines it models and
lists the components, hazards, runs, mutants and theorems.

## The system and its parts

A boot loader collects what it knows about the machine into *tags*, chains them
through physical pointers in an arena, seals them with CRC-64 and jumps to the
kernel with the address of an info block. The kernel does not trust what it
gets. Around that handoff the repository has a UEFI loader, importers from
other boot protocols, a measurement collector, a journal against rollback, a
second-generation capsule format, ports and host tools.

| Part | Source | Module |
| --- | --- | --- |
| wire format | `include/bbp/bbp.h` | `BbpWire` |
| tag builder | `bootloader/bbp_build.c` | `BbpBuilder`, `BbpBuilderProofs` |
| kernel parser | `kernel/bbp_kernel.c` | `BbpKernel`, `BbpKernelProofs` |
| loader and kernel together | `examples/sdk_roundtrip.c` | `Handoff` |
| generation journal | `tools/bbp_rollback_state.py` | `RollbackJournal`, `GenerationLog`, `RollbackJournalProofs` |
| authenticated envelopes | `tools/bbp_v2_envelope.py`, `v2/bbp_v2_auth.c`, `sdk/rust/bbp-wire/src/auth.rs` | `Envelope`, `EnvelopeProofs` |
| ExitBootServices machine | `bootloader/uefi/uefi_exit.c` | `UefiExit` |
| UEFI loader, control flow | `bootloader/efi_main.c` | `EfiLoader`, `EfiLoaderProofs` |
| ELF64 planner, kernel header, page tables, memory map | `bootloader/uefi/elf64_loader.c`, `bootloader/efi_main.c` | `KernelImage` |
| importers from Limine, UEFI and Multiboot2 | `bootloader/bbp_import*.c` | `ImportSupport`, `Importers` |
| measurement collector | `experimental/firmware/uefi/bbp_security_collector.c` | `SecurityCollector`, `CollectorProofs` |
| TCG2 helpers | `experimental/firmware/uefi/tcg2/bbp_uefi_tcg2.c` | `Tcg2` |
| kernel ports | `ports/{josh,minix,tinalinux,linux01}` | `Ports` |
| v2 capsule codec | `v2/bbp_v2.c` | `Capsule` |
| other capsule readers, Profile 0 | `tools/bbp_v2_envelope.py`, `sdk/rust/bbp-wire/src/v2.rs`, `v2/bbp_v2_profile.c` | `CapsuleReaders` |
| bridge between v1 and v2 | `bridge/bbp_bridge.c` | `Bridge` |

`Handoff` composes `BbpBuilder` and `BbpKernel` over the memory of `BbpWire`;
`Ports` composes the same two inside one kernel. `EfiLoader` contains
`UefiExit`; `SecurityCollector` and `Importers` are clients of `BbpBuilder`;
`Bridge` converts between the memory of `BbpWire`, as `BbpKernel` reads it, and
the capsules of `Capsule`, which `CapsuleReaders` reads in three ways;
`SecurityCollector` uses the hash and the PCR_Read helpers of `Tcg2`;
`RollbackJournal` implements `GenerationLog`.
`Status` holds the two operators for chains of early returns.

## Modules

**BbpWire.** Memory maps an address to the tag header read there. A tag is
identifier, size, next pointer, one number for its body, and a checksum. The
checksum field holds the *content* it was computed over, so it matches exactly
that content: an ideal CRC.

**BbpBuilder.** One action per builder call. `BumpOk`/`Bumped` are
`arena_bump`'s overflow-safe tests and effect. `finalize` is one action per
loop iteration, because its loop has no step bound. `chain` and `extents` are
history: what was allocated and where. The client may go on after `finalize`.

**BbpKernel.** The gates in front of every dereference are operators with the
names of the C functions. A call is a record of its locals; each loop iteration
is a step, so memory may change between iterations in `Handoff`. `touched`
records every span that was read, with the context it was read under.

**Handoff.** The loader runs the builder, jumps when `finalize` has returned,
and the kernel initializes with `bbp_init_bounded` over the arena, as
`sdk_roundtrip.c` does in one program. After the
jump a bounded number of single fields may be damaged, also during a lookup.

**GenerationLog** and **RollbackJournal.** Processes run `load` and `commit`
with a step at every point where the lock, the floor provider or the file
system is touched. A rename is visible at once and durable after the directory
fsync; `unsynced` remembers what a power loss may bring back. Any read of a
record file may fail: `_load_unlocked` takes an `OSError` for a corrupt file and
goes on with the other one, and `damage` counts such a load with the damaged
files. The abstract log
says that the durable newest record only moves to a higher sequence, with a
generation between the old one and the floor; after a file was damaged or could
not be read it only promises the floor. A failed read of the newest file makes
`commit` compare with the older record: a caller that knows only that record
passes the sequence check of ADR-0018, so `StaleWritersConflict` claims nothing
after one. Records are still never above the floor.

**Envelope.** `seal` makes envelopes; a copy may reach a caller with one field
changed. Callers run `verify_and_commit` with a step at every point where the
lock or the file system is touched; deaths, errors, power loss and damage may
come between any two. A capsule is reduced to size and validity, which
`CapsuleReaders` decides, and a MAC to what it was computed over. `AuthParse`
and `RustParse` are the C and Rust parsers of the same bytes, with a MAC
callback that looks the key up and a policy that compares the index.

**UefiExit.** The map key counts changes of the firmware's memory map. The
firmware may change it before any call, each allocation and free changes it,
and any call may fail. Sizes are counted in descriptors.

**EfiLoader.** `owned`, `segs` and `pool` are what the firmware has given out;
`ptr` is the set of non-null variables, by which alone the clean-up code
decides; `header` is the segment `find_header` found the Bear Header in, which is
read again after the file buffer was freed. Every firmware call may fail.

**SecurityCollector.** Validation and planning, then one irreversible TPM
extension per measurement, then two allocations, each checked against the plan,
with a rollback of arena, chain and builder. The allocator callback may break
its contract. A `hash_extend` that reports a failure is assumed to have extended
nothing; the code assumes the same when it reports a failure of the first one as
recoverable. Of the ways to break the contract, a blob that is no copy of the
records and a tag of another version are left out: they are refused by the same
tests as the ones modelled.

**Tcg2.** Functions: how SHA-256 cuts its input into blocks and pads it, what a
register becomes when it is extended, the PCR_Read command, and each test of
the response parser with the end of what it reads. The compression function is
a parameter: a digest is the blocks that went into it. `StandardSha256` is the
padding rule as the standard states it.

**ImportSupport** and **Importers.** An import validates its source, predicts
every allocation in a plan, and only then calls the builder, whose answers it
no longer checks. Both walks over a Multiboot2 image are one action per
iteration, because they advance by sizes the image holds. A source may lie in
the arena the importer writes to. A string is read twice, once to copy it and
once for its CRC; both reads are taken to see the same bytes.

**Ports.** The glue makes a bootinfo from a snapshot, the adapter runs the
builder over its arena and the parser over the result, consumers look tags up.
The builder stores the physical address the port computed (`VirtToPhys`), while
`arena` is the true one; without a kernel slide the two differ on MINIX. A call
may be repeated, with another snapshot, over the same arena.

**Capsule.** A capsule is its header fields, its directory and a set of byte
runs, each with offset, size and value; bytes outside are zero. `ParseStatus`
lists the parser's tests in their order, `WellFormed` says without an order
what a capsule is. An entry's type stands for type and version; the checksums
are ideal, as in `BbpWire`.

**Bridge.** Both conversions are functions of immutable input and so one action
each, with one status per refusal. `Edit` changes one field of a stored
capsule, with or without new checksums: damage, or another producer with a
different layout. The info payload keeps the fields that decide something, its
minor version and `next_context`; an info entry of another producer is restored
whatever its bytes are. The digest is preserved when the info entry holds an
info payload and no producer flagged physical references a tag does not have.
The fourteen tag layouts of `tag_external_references` are the kinds it tells
apart: opaque tags, tags without references, tags with one that may be null, and
arrays of either; the second check of a tag against its mapping repeats a test on immutable input. Capsules of Profile 0, sound or with
one defect, are further initial states, since the bridge makes none.

**CapsuleReaders.** The Python validator as the conjunction of its tests, the
Rust parser as its sequence of early returns, and the loop of the Profile 0
validator over the directory. `V2Profile0::validate` of the crate makes the same
tests as the C function, so one operator stands for both.

**KernelImage.** From program headers through `bbp_elf64_plan`, loading, the
search for the one Bear Header and its contract, to the page tables as a
function from table and index to entries. `Translate` is the processor's walk,
`Intended` what each page should give. The loader always passes `enable_nx` as
0, so that bit is left out. `BuildHandoff` turns the firmware's final map into
the memory map tag: the firmware reports runs of pages of one type, so it may
merge the kernel with its neighbours, and may add a descriptor of bad geometry. With `UNMAP_NULL_PAGE`, page 0 is unmapped unless a
segment is placed there.

## Runs

| Run | What it shows | Bounds and why they are enough |
| --- | --- | --- |
| `builder` | Chain, layout and seal are right after any calls; overflow fails closed; `finalize` ends. | Five arena addresses (null, aligned, misaligned, at the limit, above), two capacities, tag sizes below, at and above the limits; three tags so that first, middle and last differ. |
| `kernel` | Reads stay in bounds, lookup and iteration agree with one reference definition, every walk ends. | All memories of three cells with legal and illegal sizes, right and wrong checksums and pointers that end, go on, loop, misalign or leave; step bound three, so cycles run into it. |
| `handoff` | An undamaged handoff is found completely and in order; damage never makes the kernel deliver anything not sealed. | Up to three tags, one damaged field, at any moment of any lookup. |
| `handoff_once` | A violation: see below. | as `handoff` |
| `journal` | Returned commits are durable and none rolls back although the floor moves; stale writers conflict; one damaged file is tolerated once both were written; a holder's every step brings it closer to leaving; the generation log is implemented. | Two processes, two generation steps, three sequence numbers: both files get replaced, and the last generation and sequence are refused; one corrupt or deleted file, with power loss. Callers commit releases; the proofs cover every role. |
| `envelope` | A payload is returned only above every index returned before; three verifiers accept exactly the genuine envelopes; every caller returns. | Two callers, two envelopes in transit (both sealed, or one and an altered copy), three indices so that the range ends, a store with a key under a wrong identity, a valid, an invalid and an oversized capsule, one damaged state file. |
| `loader` | Every failure returns with all memory freed, or halts after boot services ended, and none is called later; what the handoff uses is held from the moment it is read until the jump; the published map is final and current; a quiet firmware is left at the first attempt. | Two segments, with and without pages; one failure at any call; three attempts, maps of one to five descriptors, two spontaneous changes; the size limit is reached. |
| `collector` | Registers and published logs agree or the boot was aborted; failures are atomic; the plan is exact; replaying the log gives what PCR_Read returns, and no other answer is taken for it. | Data lengths on both sides of each padding boundary, over blocks of 8 bytes instead of 64; answers cut or changed at every field. Arenas one byte too small, exact, and beyond the info limit; two calls of up to two measurements. |
| `import` | An import does exactly what it planned or nothing; what it wrote is sound; all modules arrive; both walks over a Multiboot2 image end. | Sources with one thing wrong each, in or next to the arena, tag sizes 0, below a header, odd, exact and beyond the image; builders that earlier calls left fresh, used, full, overflowed or finalized, or that are null. One import: a second one meets such a builder again. |
| `ports` | The parser reads the arena that was written; a published context is what its own call was offered. | All four ports, two calls, seven snapshots: nothing, everything, a map beyond the cap, and an arena that overflows in a tag, in a blob and in the last tag. |
| `bridge` | The C, Python and Rust parsers accept exactly the well-formed capsules; a validated profile has one answer to every question, in any order of entries; the round trip preserves what a kernel finds. | Chains of up to two tags, sound or with one defect; one edited field from offsets and alignments around every limit. Two entries suffice for order, overlap, gaps and links. Profiles with each payload at and beyond its limits, a kind missing, twice or of another version, and an unknown entry. |
| `image` | A started kernel finds under every virtual page what its file asks for, and nothing else; memory the map offers holds nothing it needs. | Two segments at 14 virtual and 6 physical pages, skewed or not, of four sizes; 33 files with one defect. Tables have 4 entries instead of 512 and low memory 2 units instead of 4, so a page walk still has four levels; the pool runs out. Firmware maps in which the kernel stands alone, is merged with a neighbour or split, and descriptors of no pages, at the end of the address space and beyond the identity limit. |

Runs with `CHECK_DEADLOCK FALSE` model programs that may end: a loader that has
jumped or returned, a boot that was aborted, memory with nothing left to damage.

### Fairness

`FinalizeTerminates` assumes weak fairness of `finalize`'s own loop and
`WalkTerminates` of the parser's: both are sequential code that blocks on
nothing. `CallersReturn` assumes weak fairness of a caller that holds the lock,
which blocks on nothing else, and strong fairness of `flock`: a waiter gets its
turn among others that come back again and again. That is an assumption on the
operating system, since `flock` promises no order among waiters. A
caller may still die, and the system then drops its lock. The journal needs no
fairness: `HoldIsBounded` says that the steps a holder has left decrease.
`LoaderEnds`
assumes that the loader runs; the firmware's spontaneous changes are not fair
and are bounded only by the attempts of the code. `ImportReturns` assumes that
an importer's sequential loops run.

### Disagreements with the documents

`STATUS.md` says the boot-evidence stream contains "each validated tag exactly
once". `bbp_for_each_tag` skips a tag whose CRC fails but follows its
`next_tag`; if that pointer was damaged and leads backwards, tags already fed
are fed again until the step bound. Run `handoff_once` shows the shortest such
behaviour. The tags delivered are all intact: only the count differs.

`docs/rfc/0003-bbp-v2-auth-envelope.md` (lines 71-74) says of the envelope's
state file that it is "single-writer only", that "There is no file lock" and
that callers must serialize their attempts; `docs/adr/0015-authenticated-envelope.md`
(line 14) and `CHANGELOG.md` (line 77) also call it single-writer. The code does
more: `verify_and_commit` holds an exclusive `flock` on a lock file beside the
state from before it reads the state until the new one is durable. `AcceptedOnce`
and `CallersReturn` are statements about concurrent callers that the documents
do not promise and the code keeps; the documents are out of date.

## Proofs

`BbpBuilderProofs` proves, for every arena, limit and sequence of calls, the
builder's type invariant, `ChainWellFormed`, `AllocationsDisjoint`,
`SealedIsComplete` and the action property `OverflowFailsClosed`. The only
assumptions are `WireAssumption` and `BuilderAssumption`, which say that limits
are natural numbers large enough for one header.

The inductive invariant is `Inv == TypeOK /\ ChainWellFormed /\ Layout /\
SealProgress`. `AllocationsDisjoint` is not inductive, since it says nothing of
the space between the last allocation and `used`: `Layout` bounds allocations
by `used` instead of the capacity. `SealedIsComplete` says nothing during the
loop: `SealProgress` adds that the cursor is at some position of the chain and
all tags before it are sealed. `ChainInjective` (positions are distinct
addresses) carries the step that links a new tag behind the old last one.

`RollbackJournalProofs` proves all seven properties of run `journal` for any
number of processes, any range of generations and sequences, any role and any
number of damages. `JournalInv` says who is in the critical section (`Mutex`),
what a process knows of the floor at each step of its loop (`RoundsInv`: in a
second round the generation is at most the floor, so there is no third), that
even and odd sequences live in different files below the floor (`FiledInv`),
that an undone rename only goes back to an older record (`OrderInv`), and that a
process past the checks, all of whose reads succeeded, still sees the files it
compared (`WriterInv`).
`SolidInv` and `AckedInv` name the file that survives. `LoadFacts` says what
`_load_unlocked` returns and `ReadFacts` what a failed read makes of the files. The refinement follows because only the directory
fsync and a power loss change the durable newest record.

`EnvelopeProofs` proves `AcceptedOnce` and `VerifiersAreExact` for any callers,
keys and capsules. `AcceptedOnce` is not inductive: `ReplayInv` adds that the
state file *and* what a power loss would leave of it both block everything
returned so far, and that a caller past the checks is about to publish a new
highest index. `VerifiersAreExact` needs that every tag in transit was made by
`seal` (`TagInv`), from the ideal MAC.

`EfiLoaderProofs` proves the safety properties of run `loader`, for any limits,
attempts and segments. `ExitInv` says which buffer the exit machine owns and how
old the map in it may be; `QuietInv` that a firmware which keeps still is served
in the first attempt; `HoldingInv`, `SegmentInv` and `PhaseInv` say what is held
at each place of `efi_main`. `OneMapBuffer` and `ExitIsFinal` are proved on the
way.

`BbpKernelProofs` proves `ReadsStayInBounds` over *any* memory whose fields are
natural numbers and that changes in any way between two steps (`Untrusted`), so
it does not depend on who wrote the handoff. The cursor is unconstrained: the
gates alone keep reads inside. `WalksAreBounded` is the step bound.

`CollectorProofs` extends the builder's proof to the collector and proves
`LogMatchesPcr`, `PlanIsExact` and `FailureIsAtomic`. `PlanInv` follows how far
the builder is from where the call found it, so that each check on the result of
an allocation is known to succeed; `TamperInv` says that an allocator which broke
its contract is caught at the next check.

The assumptions are the named ones of the modules: limits are natural numbers
that leave room for one header, the security tag fits a tag and has an
identifier of its own, names of "nobody" are not names of processes.

Model-checked only: liveness (`FinalizeTerminates`, `WalkTerminates`,
`CallersReturn`, `LoaderEnds`, `ImportReturns`), which needs fairness; and what
recursively computed values are, which needs induction over data: the agreement
of lookups and the composed handoff, the importers' plans, capsules and their
readers, page tables, the replay of a log, the ports.

## Not modelled

- The CRC-64 tables and the SHA-256 compression function, little-endian reads and
  the byte layouts of tag bodies: data without control. CRC and MAC are ideal, so
  collisions and forgeries are outside the model.
- Memory types and attributes, names, UTF-8, per-CPU fields, banners and logs of
  the importers and ports, and `memory_attributes` of the loader: they decide
  nothing that is checked.
- Serial output, logging, panic and clocks of the ports' `osif.c`: pure I/O. Their
  bump allocators: nothing but host tests and, for Josh, the adapter's arena calls
  `alloc_pages`, and `Ports` has that one.
- Deletion of the envelope's state file, which the code takes for a first use, and
  left-over temporary files, which nothing reads.
- A failing `stat` of the envelope's state file, which `os.path.exists` takes for
  an absent one.
- `auth2`: signature and certificate checks without state.
- The v1 views of the Rust crate, headers and examples: accessors, declarations
  and programs that call what is modelled once.
- `bbpctl`, evidence bundles, stamping, packaging and release metadata: single-shot
  programs dominated by file formats and I/O.
