------------------------------ MODULE BbpBuilder ------------------------------
(***************************************************************************)
(* The bootloader's tag builder, bootloader/bbp_build.c: a bump allocator  *)
(* over one arena that chains tags through physical next_tag pointers and, *)
(* at finalize, walks the chain to seal every tag and then the info block. *)
(*                                                                         *)
(* The client is the boot loader: it may allocate, fill, seal early, copy  *)
(* strings and blobs and finalize in any order, and go on after finalize.  *)
(* The finalize loop has no step bound in the code, so it is modelled one  *)
(* iteration at a time.                                                    *)
(***************************************************************************)
EXTENDS BbpWire

CONSTANTS
    ArenaPhys,   \* arena addresses a client may pass to bbp_builder_init
    Capacities,  \* arena sizes a client may pass
    TagSizes,    \* total_size arguments of bbp_alloc_tag
    BlobSizes    \* lengths passed to bbp_arena_blob and bbp_arena_strdup_n

ASSUME BuilderAssumption ==
    /\ ArenaPhys \subseteq Nat
    /\ Capacities \subseteq Nat
    /\ TagSizes \subseteq Nat
    /\ BlobSizes \subseteq Nat

VARIABLES
    b,        \* struct bbp_builder; first and last are physical addresses
    phase,    \* "build", "sealing" (inside finalize's loop), "sealed"
    cur,      \* the cursor of finalize's loop
    ret,      \* what the last bbp_builder_finalize returned
    chain,    \* history: addresses of the tags allocated, in order
    extents   \* history: every [lo, hi) handed out by arena_bump

buildVars == <<b, phase, cur, ret, chain, extents>>
vars == <<mem, info, buildVars>>

Put(m, p, c) == [x \in DOMAIN m \cup {p} |-> IF x = p THEN c ELSE m[x]]

BadArena(arena, phys, cap) ==
    \/ ~arena /\ cap # 0
    \/ arena /\ (phys = 0 \/ phys % Align # 0 \/ phys >= MaxPhys)

\* bbp_builder_init: the arena is zeroed, so no address holds a tag yet.
BuilderInit(arena, phys, cap) ==
    /\ b = [arena |-> arena, phys |-> phys, cap |-> cap, used |-> 0,
            last |-> 0, first |-> 0, count |-> 0,
            overflow |-> BadArena(arena, phys, cap)]
    /\ mem = << >>
    /\ info = BlankInfo
    /\ phase = "build" /\ cur = 0 /\ ret = "none"
    /\ chain = << >> /\ extents = {}

Init == \E arena \in BOOLEAN, phys \in ArenaPhys, cap \in Capacities :
            BuilderInit(arena, phys, cap)

-----------------------------------------------------------------------------
\* Where arena_bump places the next allocation, and when it succeeds.

BumpAt == b.phys + AlignUp(b.used)

BumpOk(len) ==
    LET start == AlignUp(b.used) IN
    /\ b.arena /\ ~b.overflow /\ b.used + 7 <= SizeMax
    /\ start + len <= b.cap
    /\ b.phys + start + len <= MaxPhys

\* The part of arena_bump's success that every caller shares.
Bumped(len) == [b EXCEPT !.used = AlignUp(b.used) + len]

Extent(len) == [lo |-> BumpAt, hi |-> BumpAt + len]

\* A client call outside finalize; it reopens a sealed chain if it changes it.
Call == phase # "sealing"

TagRequestOk(size) ==
    /\ size \in HeaderSize .. MaxTag
    /\ b.count < MaxTags
    /\ BumpOk(size)

NewTag(id, size) ==
    [id |-> id, size |-> size, next |-> 0, body |-> 0, crc |-> NoCrc]

\* Fault: the previous tag is not linked to the new one.
LinkedNever(p) == mem

\* b->last->next_tag = phys, when there is a last tag.
Linked(p) ==
    IF b.last = 0 THEN mem ELSE [mem EXCEPT ![b.last].next = p]

AllocTag(id, size) ==
    /\ Call
    /\ TagRequestOk(size)
    /\ mem' = Put(Linked(BumpAt), BumpAt, NewTag(id, size))
    /\ b' = [Bumped(size) EXCEPT !.last = BumpAt,
                                 !.first = IF b.last = 0 THEN BumpAt ELSE b.first,
                                 !.count = b.count + 1]
    /\ chain' = Append(chain, BumpAt)
    /\ extents' = extents \cup {Extent(size)}
    /\ phase' = "build"
    /\ UNCHANGED <<info, cur, ret>>

\* Every path of bbp_alloc_tag, bbp_arena_strdup_n and bbp_arena_blob that
\* refuses its request leaves only the sticky overflow flag behind.
Refuse ==
    /\ b' = [b EXCEPT !.overflow = TRUE]
    /\ UNCHANGED <<mem, info, phase, cur, ret, chain, extents>>

AllocTagFails(size) ==
    /\ Call
    /\ ~TagRequestOk(size)
    /\ Refuse

\* bbp_arena_blob; a zero-length blob returns 0 without touching the builder.
ArenaBlob(len) ==
    /\ Call
    /\ len > 0
    /\ IF BumpOk(len)
       THEN /\ b' = Bumped(len)
            /\ extents' = extents \cup {Extent(len)}
            /\ UNCHANGED <<mem, info, phase, cur, ret, chain>>
       ELSE Refuse

\* bbp_arena_strdup_n of a string of len characters and its terminator.
ArenaStrdup(len) == ArenaBlob(len + 1)

\* A null or unterminated string, or a null blob of nonzero length.
BadSource ==
    /\ Call
    /\ Refuse

\* The client fills the body of a tag it allocated.
WriteBody(i, v) ==
    /\ Call
    /\ mem[chain[i]].size > HeaderSize
    /\ mem' = [mem EXCEPT ![chain[i]].body = v]
    /\ phase' = "build"
    /\ UNCHANGED <<info, b, cur, ret, chain, extents>>

SealTag(i) ==
    /\ Call
    /\ mem' = [mem EXCEPT ![chain[i]] = Sealed(@)]
    /\ UNCHANGED <<info, b, phase, cur, ret, chain, extents>>

-----------------------------------------------------------------------------
\* bbp_builder_finalize.

\* Fault: the overflow flag is ignored.
FinalizeOkIgnoringOverflow ==
    b.count <= MaxTags /\ b.used <= b.cap /\ b.used + InfoSize <= MaxInfo

FinalizeOk ==
    /\ ~b.overflow
    /\ b.count <= MaxTags
    /\ b.used <= b.cap
    /\ b.used + InfoSize <= MaxInfo

FinalizeFails ==
    /\ Call
    /\ ~FinalizeOk
    /\ b' = [b EXCEPT !.overflow = TRUE]
    /\ ret' = "failed"
    /\ UNCHANGED <<mem, info, phase, cur, chain, extents>>

\* Fault: finalize relies on the tags having been sealed one by one.
FinalizeStartNoReseal ==
    /\ Call
    /\ FinalizeOk
    /\ phase' = "sealing" /\ cur' = 0
    /\ UNCHANGED <<mem, info, b, ret, chain, extents>>

FinalizeStart ==
    /\ Call
    /\ FinalizeOk
    /\ phase' = "sealing" /\ cur' = b.first
    /\ UNCHANGED <<mem, info, b, ret, chain, extents>>

\* Fault: the cursor is not advanced.
FinalizeSealStuck ==
    /\ phase = "sealing" /\ cur # 0
    /\ mem' = [mem EXCEPT ![cur] = Sealed(@)]
    /\ UNCHANGED <<info, b, phase, cur, ret, chain, extents>>

FinalizeSeal ==
    /\ phase = "sealing" /\ cur # 0
    /\ mem' = [mem EXCEPT ![cur] = Sealed(@)]
    /\ cur' = mem[cur].next
    /\ UNCHANGED <<info, b, phase, ret, chain, extents>>

FinalInfo ==
    SealedInfo([magic |-> TRUE, major |-> VersionMajor,
                size |-> InfoSize + b.used, count |-> b.count,
                first |-> b.first, crc |-> NoCrc])

FinalizeEnd ==
    /\ phase = "sealing" /\ cur = 0
    /\ info' = FinalInfo
    /\ phase' = "sealed" /\ ret' = "ok"
    /\ UNCHANGED <<mem, b, cur, chain, extents>>

Finalizing == FinalizeSeal \/ FinalizeEnd

Next ==
    \/ \E id \in Ids, size \in TagSizes : AllocTag(id, size)
    \/ \E size \in TagSizes : AllocTagFails(size)
    \/ \E len \in BlobSizes : ArenaBlob(len) \/ ArenaStrdup(len)
    \/ BadSource
    \/ \E i \in DOMAIN chain, v \in Bodies : WriteBody(i, v)
    \/ \E i \in DOMAIN chain : SealTag(i)
    \/ FinalizeFails \/ FinalizeStart \/ Finalizing

Spec == Init /\ [][Next]_vars

\* Once entered, finalize's loop runs to completion: nothing else is scheduled.
FairSpec == Spec /\ WF_vars(Finalizing)

-----------------------------------------------------------------------------
Cell == [id : Ids, size : Nat, next : Nat, body : Nat,
         crc : {NoCrc} \cup (Ids \X Nat \X Nat \X Nat)]

Info == [magic : BOOLEAN, major : Nat, size : Nat, count : Nat, first : Nat,
         crc : {NoCrc} \cup (BOOLEAN \X Nat \X Nat \X Nat \X Nat)]

Builder == [arena : BOOLEAN, phys : Nat, cap : Nat, used : Nat, last : Nat,
            first : Nat, count : Nat, overflow : BOOLEAN]

\* The types of struct bbp_builder, the info block and the arena's tags.
TypeOK ==
    /\ b \in Builder
    /\ info \in Info
    /\ phase \in {"build", "sealing", "sealed"}
    /\ cur \in Nat
    /\ ret \in {"none", "ok", "failed"}
    /\ chain \in Seq(Nat)
    /\ DOMAIN mem \subseteq Nat
    /\ \A p \in DOMAIN mem : mem[p] \in Cell
    /\ extents \subseteq [lo : Nat, hi : Nat]

\* The linked list in memory is the allocation order: the pointers the builder
\* writes from first_phys reach every tag once, upwards through the arena and
\* end at last; each tag is aligned, of legal size and inside the used part of
\* the arena, and ends before its successor starts.
ChainWellFormed ==
    LET n == Len(chain) IN
    /\ b.count = n /\ n <= MaxTags
    /\ b.first = (IF n = 0 THEN 0 ELSE chain[1])
    /\ b.last = (IF n = 0 THEN 0 ELSE chain[n])
    /\ DOMAIN mem = {chain[i] : i \in 1 .. n}
    /\ \A i \in 1 .. n :
        LET t == mem[chain[i]] IN
        /\ chain[i] % Align = 0 /\ chain[i] > 0
        /\ t.size \in HeaderSize .. MaxTag
        /\ b.phys <= chain[i]
        /\ chain[i] + t.size <= b.phys + b.used
        /\ t.next = (IF i = n THEN 0 ELSE chain[i + 1])
    /\ \A i, j \in 1 .. n : i < j => chain[i] + mem[chain[i]].size <= chain[j]

\* No byte of the arena belongs to two allocations, tags and blobs alike, and
\* every allocation lies in the arena and below the physical limit.
AllocationsDisjoint ==
    /\ \A e \in extents :
        /\ b.phys <= e.lo /\ e.lo < e.hi
        /\ e.hi <= b.phys + b.cap /\ e.hi <= MaxPhys
    /\ \A e, f \in extents : e # f => e.hi <= f.lo \/ f.hi <= e.lo
    /\ \A i \in DOMAIN chain :
        [lo |-> chain[i], hi |-> chain[i] + mem[chain[i]].size] \in extents

\* When finalize has reported success and nothing was changed since, every tag
\* it chained carries the CRC of its present content, its next_tag included,
\* and the sealed info block describes that chain.
SealedIsComplete ==
    phase = "sealed" =>
        /\ \A i \in DOMAIN chain : CrcOk(mem[chain[i]])
        /\ InfoCrcOk(info) /\ info.magic /\ info.major = VersionMajor
        /\ info.count = Len(chain) /\ info.first = b.first
        /\ info.size <= MaxInfo

\* Overflow is sticky and fails closed: once any request was refused, nothing
\* is ever chained or published again.
OverflowFailsClosed ==
    [][b.overflow => /\ b'.overflow
                     /\ b'.used = b.used /\ b'.count = b.count
                     /\ chain' = chain
                     /\ phase # "sealed" => phase' # "sealed"]_vars

\* finalize's unbounded loop terminates, whatever was allocated before.
FinalizeTerminates == (phase = "sealing") ~> (phase = "sealed")

=============================================================================
