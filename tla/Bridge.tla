-------------------------------- MODULE Bridge --------------------------------
(***************************************************************************)
(* The bridge between the v1 handoff and the v2 capsule,                   *)
(* bridge/bbp_bridge.c.  bbp_v2_from_v1 walks a v1 chain and packs it into *)
(* a capsule without its linkage; bbp_v2_to_v1 lays a capsule out as a     *)
(* chain at another address.  Sources must not change during a conversion, *)
(* so each is one step.  Between conversions the capsule may be damaged or *)
(* be written by another producer.                                         *)
(***************************************************************************)
EXTENDS BbpKernel, CapsuleReaders

CONSTANTS
    Opaque,      \* identifiers the bridge does not know
    Arrays,      \* tags whose body counts trailing elements
    Pointers,    \* tags whose body is or contains physical addresses
    FixedSize,   \* identifier -> size of the fixed part of its tag
    Stride,      \* size of an array element
    Sources,     \* v1 handoffs: [mem, info, minor, ctx, mapped]
    FromCalls,   \* arguments of the conversions: [policy, out, capacity],
    ToCalls,     \* and phys for bbp_v2_to_v1; out is the output's address
    Profiles,    \* arguments of bbp_v2_build that a Profile 0 producer passes
    Offsets,     \* offsets and alignments other producers and damage bring
    Alignments,
    MaxEdits     \* bound on the number of rewrites of a capsule

VARIABLES
    minor,     \* info->version_minor, which the kernel does not look at
    ctx,       \* info->next_context
    mapped,    \* <<lo, hi>>: the physical range the map callback serves
    capsule,   \* the capsule buffer
    home,      \* its address, 0 if not bbp_v2_from_v1 wrote it
    status,    \* what the last conversion returned
    origin,    \* history: what the kernel found in the handoff last converted
    edits,     \* history: number of edits
    back       \* history: the handoff is the capsule's conversion

bridgeVars == <<minor, ctx, mapped, capsule, home, status, origin, edits, back>>
allVars == <<mem, info, kernelVars, bridgeVars>>

V1Info == "V1_INFO"     \* BBP_V2_ENTRY_V1_INFO
PayloadSize == 104      \* sizeof(struct bbp_v2_v1_info_payload)
ContextAt == 96         \* offset of next_context in it
VersionMinor == 1       \* BBP_VERSION_MINOR
EXT == "EXTERNAL_PHYS"
WIRE == "V1_WIRE"

\* The empty buffer.
NoCapsule == [extent |-> 0, total |-> 0, head |-> "magic", dir |-> 0,
              crc |-> << >>, ents |-> << >>, data |-> << >>]

\* tag_external_references.  The elements of an array of Pointers hold
\* references.  The code's fourteen layouts are of these kinds; where in a tag
\* each of them keeps its references is abstracted.
References(t) ==
    IF t.id \in Opaque THEN "external"
    ELSE IF \/ t.size < FixedSize[t.id]
            \/ t.id \in Arrays /\ t.body * Stride > t.size - FixedSize[t.id]
    THEN "malformed"
    ELSE IF t.id \in Pointers /\ t.body # 0 THEN "external" ELSE "self"

\* A tag as payload.
Wire(t) == [kind |-> "tag", id |-> t.id, size |-> t.size, next |-> t.next,
            body |-> t.body, crc |-> t.crc]

-----------------------------------------------------------------------------
\* bbp_v2_from_v1.

Maps(p, len) == mapped[1] <= p /\ p + len <= mapped[2]

InfoSourceOk ==
    /\ info.magic /\ info.major = VersionMajor /\ minor = VersionMinor
    /\ info.size >= InfoSize /\ info.size <= MaxInfo
    /\ InfoCrcOk(info)

InfoEntry ==
    [type |-> V1Info, flags |-> IF ctx # 0 THEN {EXT} ELSE {}, align |-> 8,
     size |-> PayloadSize, at |-> 0, val |-> [kind |-> "info", ctx |-> ctx]]

TagEntry(p) ==
    [type |-> Read(p).id, align |-> 8, size |-> Read(p).size, at |-> p,
     flags |-> {WIRE} \cup (IF References(Read(p)) = "external" THEN {EXT} ELSE {}),
     val |-> Wire(Read(p))]

\* The tests on one tag of the chain, after those in visited.  The header is
\* mapped twice and compared with itself: a source that does not change passes.
TagStatus(p, visited, policy) ==
    IF p = 0 \/ p % Align # 0 \/ p >= MaxPhys \/ HeaderSize > MaxPhys - p THEN "source"
    ELSE IF \E j \in DOMAIN visited : visited[j] = p THEN "source"
    ELSE IF ~Maps(p, HeaderSize) THEN "source"
    ELSE LET t == Read(p) IN
         IF t.size \notin HeaderSize .. MaxTag \/ t.size > MaxPhys - p THEN "source"
         ELSE IF \E j \in DOMAIN visited :
                    SpanOverlaps(p, t.size, visited[j], Read(visited[j]).size)
         THEN "source"
         ELSE IF ~Maps(p, t.size) \/ ~CrcOk(t) THEN "source"
         ELSE IF References(t) = "malformed" THEN "source"
         ELSE Check(References(t) = "external" => policy, "policy")

\* The walk: tag_count tags from first_tag, and the chain must end there.
Visit(policy) ==
    LET at[i \in 0 .. info.count] ==
            IF i = 0 THEN [cur |-> info.first, visited |-> << >>, st |-> "ok"]
            ELSE LET prev == at[i - 1]
                     st_ == TagStatus(prev.cur, prev.visited, policy)
                 IN  IF prev.st # "ok" THEN prev
                     ELSE IF st_ # "ok" THEN [prev EXCEPT !.st = st_]
                     ELSE [cur |-> Read(prev.cur).next, st |-> "ok",
                           visited |-> Append(prev.visited, prev.cur)]
    IN  at[info.count]

FromEntries(policy) ==
    <<InfoEntry>> \o [i \in DOMAIN Visit(policy).visited |-> TagEntry(Visit(policy).visited[i])]

FromStatus(policy, out, capacity) ==
    IF ~InfoSourceOk THEN "source"
    ELSE IF info.count > MaxDirents - 1 THEN "count"
    ELSE IF (info.count = 0) # (info.first = 0) \/ info.first % Align # 0 THEN "source"
    ELSE IF ctx # 0 /\ ~policy THEN "policy"
    ELSE IF Visit(policy).st # "ok" THEN Visit(policy).st
    ELSE IF Visit(policy).cur # 0 THEN "source"
    ELSE BuildStatus(FromEntries(policy), out, capacity)

\* Linkage and checksum of the copied tags are cleared, the capsule resealed.
Normalized(c) ==
    SealedCapsule([c EXCEPT !.data = [o \in DOMAIN c.data |->
        IF c.data[o].val.kind = "tag"
        THEN [c.data[o] EXCEPT !.val.next = 0, !.val.crc = NoCrc]
        ELSE c.data[o]]])

Converted(policy) == Normalized(Built(FromEntries(policy)))

\* What a kernel finds in the handoff: tags without their linkage, in order.
Contents(window) ==
    LET tags == Accepted(Ctx(0, window[1], window[2]))
    IN  [i \in DOMAIN tags |-> <<Read(tags[i]).id, Read(tags[i]).size, Read(tags[i]).body>>]

FromV1(policy, out, capacity) ==
    /\ capsule = NoCapsule \/ back
    /\ status' = FromStatus(policy, out, capacity)
    /\ IF status' = "ok"
       THEN /\ capsule' = Converted(policy) /\ home' = out
            /\ origin' = Contents(mapped) /\ back' = FALSE
       ELSE UNCHANGED <<capsule, home, origin, back>>
    /\ UNCHANGED <<mem, info, kernelVars, minor, ctx, mapped, edits>>

-----------------------------------------------------------------------------
\* bbp_v2_to_v1.

\* The last eight bytes of the first entry, whatever its bytes are: an info
\* payload, zeros, or what else another producer left there, here 1.
NextContext(c) ==
    LET at == c.ents[1].off IN
    IF Value(c, 1).kind = "info" THEN Value(c, 1).ctx
    ELSE IF Nonzero(c, at + ContextAt, at + PayloadSize) THEN 1 ELSE 0

InfoEntryOk(c) ==
    /\ c.ents # << >>
    /\ c.ents[1].type = V1Info /\ c.ents[1].size = PayloadSize
    /\ c.ents[1].flags \subseteq {EXT}
    /\ NextContext(c) # 0 => EXT \in c.ents[1].flags

TagEntryOk(c, i) ==
    LET e == c.ents[i]
        v == Value(c, i)
    IN
    /\ WIRE \in e.flags /\ e.flags \subseteq {WIRE, EXT}
    /\ e.size \in HeaderSize .. MaxTag
    /\ v.kind = "tag"
    /\ v.id = e.type /\ v.size = e.size /\ v.next = 0 /\ v.crc = NoCrc
    /\ References(v) # "malformed"
    /\ References(v) = "external" => EXT \in e.flags

\* Offset of the tag of entry i, and of the end of entry i.
TagStart(c, i) ==
    LET start[j \in 2 .. Len(c.ents) + 1] ==
            IF j = 2 THEN AlignUp(InfoSize)
            ELSE AlignUp(start[j - 1] + c.ents[j - 1].size)
    IN  start[i]

Laid(c, i) == IF i = 1 THEN InfoSize ELSE TagStart(c, i) + c.ents[i].size

ToStatus(c, policy, at, out, capacity, phys) ==
    LET n == Len(c.ents)
        entries == [i \in 1 .. n - 1 |->
            FirstError(<<Check(TagEntryOk(c, i + 1), "source"),
                         Check(Laid(c, i + 1) <= MaxInfo, "extent")>>)]
    IN
    IF ParseStatus(c) # "ok" THEN ParseStatus(c)
    ELSE IF ~InfoEntryOk(c) THEN "source"
    ELSE IF FirstError(entries) # "ok" THEN FirstError(entries)
    ELSE FirstError(<<
            Check((\E i \in 1 .. n : EXT \in c.ents[i].flags) => policy, "policy"),
            Check(Laid(c, n) <= capacity, "capacity"),
            Check(/\ phys # 0 /\ phys % Align = 0
                  /\ phys < MaxPhys /\ Laid(c, n) <= MaxPhys - phys, "overflow"),
            Check(~SpanOverlaps(out, Laid(c, n), at, c.extent), "source")>>)

\* Fault: next is computed from the tag's unaligned end.
LinkUnaligned(c, i, phys) ==
    IF i = Len(c.ents) THEN 0 ELSE phys + Laid(c, i)

Link(c, i, phys) == IF i = Len(c.ents) THEN 0 ELSE phys + TagStart(c, i + 1)

\* The tags as laid out at phys, linked and sealed.
LaidOut(c, phys) ==
    LET at(i) == phys + TagStart(c, i)
        tags == 2 .. Len(c.ents)
    IN  [p \in {at(i) : i \in tags} |->
            LET i == CHOOSE j \in tags : at(j) = p
                v == Value(c, i)
            IN  Sealed([id |-> v.id, size |-> v.size, body |-> v.body, crc |-> NoCrc,
                        next |-> Link(c, i, phys)])]

RestoredInfo(c, phys) ==
    SealedInfo([magic |-> TRUE, major |-> VersionMajor, size |-> Laid(c, Len(c.ents)),
                count |-> Len(c.ents) - 1, crc |-> NoCrc,
                first |-> IF Len(c.ents) = 1 THEN 0 ELSE phys + InfoSize])

ToV1(policy, out, capacity, phys) ==
    /\ capsule # NoCapsule
    /\ status' = ToStatus(capsule, policy, home, out, capacity, phys)
    /\ IF status' = "ok"
       THEN /\ mem' = LaidOut(capsule, phys)
            /\ info' = RestoredInfo(capsule, phys)
            /\ minor' = VersionMinor /\ ctx' = NextContext(capsule)
            /\ mapped' = <<phys, phys + info'.size>>
            /\ back' = TRUE
       ELSE UNCHANGED <<mem, info, minor, ctx, mapped, back>>
    /\ UNCHANGED <<kernelVars, capsule, home, origin, edits>>

-----------------------------------------------------------------------------
\* Storage, transport or another producer rewrites the capsule (external): one
\* field, one payload, or where one of them is.

Moved(c, from, to) ==
    [o \in (DOMAIN c.data \ {from}) \cup {to} |->
        IF o = to THEN c.data[from] ELSE c.data[o]]

Disjoint(c) ==
    \A o, p \in DOMAIN c.data :
        o # p => ~SpanOverlaps(o, c.data[o].size, p, c.data[p].size)

\* Payload that is cut off, or overwritten by header or directory, is lost.
Intact(c) ==
    [c EXCEPT !.data = [o \in {o \in DOMAIN c.data :
            /\ o >= CapsuleHeader /\ o + c.data[o].size <= c.extent
            /\ ~SpanOverlaps(o, c.data[o].size, c.dir, DirectorySize(c))}
        |-> c.data[o]]]

Rewrites(c) ==
    {[c EXCEPT !.dir = o] : o \in Offsets}
    \cup {[c EXCEPT !.extent = o, !.total = o] : o \in Offsets}
    \cup {[c EXCEPT !.total = o] : o \in Offsets}
    \cup {LET end == AlignUp(c.extent)      \* the directory comes last
          IN  [c EXCEPT !.dir = end, !.extent = end + DirectorySize(c),
                        !.total = end + DirectorySize(c)]}
    \cup {[c EXCEPT !.head = h] : h \in {"magic", "version", "format"}}
    \cup {[c EXCEPT !.ents = SubSeq(c.ents, 1, n)] : n \in 0 .. Len(c.ents) - 1}
    \cup UNION {
        {[c EXCEPT !.ents[i].off = o] : o \in Offsets}
        \cup {[c EXCEPT !.ents[i].size = o] : o \in {0, HeaderSize}}
        \cup {[c EXCEPT !.ents[i].align = a] : a \in Alignments}
        \cup {[c EXCEPT !.ents[i].flags = f] : f \in SUBSET {WIRE, EXT}}
        \cup {[c EXCEPT !.ents[i].type = V1Info], [c EXCEPT !.ents[i].reserved = TRUE],
              [c EXCEPT !.ents = Append(@, c.ents[i])]}
        : i \in DOMAIN c.ents}
    \cup UNION {
        {[c EXCEPT !.data = Moved(c, o, p)] : p \in Offsets}
        \cup {[c EXCEPT !.data = Moved(c, o, p),
                        !.ents = [i \in DOMAIN c.ents |->
                            IF c.ents[i].off = o THEN [c.ents[i] EXCEPT !.off = p]
                            ELSE c.ents[i]]] : p \in Offsets}
        \cup (IF c.data[o].val.kind = "tag"
              THEN {[c EXCEPT !.data[o].val.body = b] : b \in Bodies}
                   \cup {[c EXCEPT !.data[o].val.next = Align]}
              ELSE {})
        : o \in DOMAIN c.data}

\* With which checksums: the old ones, a new one of the whole, or all new.
Resealed(c) ==
    {c, [c EXCEPT !.crc = Covered(c)], SealedCapsule(c)}

Edit ==
    /\ capsule # NoCapsule /\ ~back /\ edits < MaxEdits
    /\ \E c \in Rewrites(capsule) :
        Disjoint(c) /\ capsule' \in Resealed(Intact(c)) \ {capsule}
    /\ edits' = edits + 1
    /\ UNCHANGED <<mem, info, kernelVars, minor, ctx, mapped, home, status, origin, back>>

\* Either a handoff is there, or the capsule of a Profile 0 producer, built by
\* bbp_v2_build as the profile's tests do.
BridgeInit ==
    /\ KernelInit
    /\ \/ /\ \E s \in Sources :
              /\ mem = s.mem /\ info = s.info /\ minor = s.minor
              /\ ctx = s.ctx /\ mapped = s.mapped
          /\ capsule = NoCapsule
       \/ /\ mem = << >> /\ info = BlankInfo /\ minor = 0
          /\ ctx = 0 /\ mapped = <<0, 0>>
          /\ \E es \in Profiles : BuildStatus(es, 0, MaxExtent) = "ok" /\ capsule = Built(es)
    /\ home = 0 /\ status = "none" /\ origin = << >>
    /\ edits = 0 /\ back = FALSE

BridgeNext ==
    \/ \E a \in FromCalls : FromV1(a.policy, a.out, a.capacity)
    \/ \E a \in ToCalls : ToV1(a.policy, a.out, a.capacity, a.phys)
    \/ Edit

BridgeSpec == BridgeInit /\ [][BridgeNext]_allVars

-----------------------------------------------------------------------------
\* Three parsers read capsules, in C, Python and Rust, each with its own order
\* of tests, scan for padding and work limit: each accepts exactly the capsules
\* of the reference definition.  The entry accessor, whose status the bridge
\* ignores, succeeds on all of those.
ParsersAreExact ==
    /\ ParseStatus(capsule) = "ok" <=> WellFormed(capsule)
    /\ PyAccepts(capsule) <=> WellFormed(capsule)
    /\ RustStatus(capsule) = "ok" <=> WellFormed(capsule)
    /\ WellFormed(capsule) =>
        \A i \in DOMAIN capsule.ents : GetEntryStatus(capsule, i) = "ok"

\* The payload of every entry of a profile type is of this type.
PayloadsAreTyped(c) ==
    \A i \in DOMAIN c.ents :
        P0Type(c.ents[i].type) \in P0Types => Value(c, i).kind = P0Type(c.ents[i].type)

\* A kernel that trusts a validated profile never picks between two answers and
\* never reads outside a payload: each kind has one entry, of the current
\* version and without flags, the records and the device tree end where their
\* entry ends, and no memory range wraps.  Where entries stand in the directory
\* and what unknown entries are among them makes no difference.
ProfileIsUnambiguous ==
    LET c == capsule
        of(t) == {i \in DOMAIN c.ents : P0Type(c.ents[i].type) = t}
        known == SelectSeq(c.ents, LAMBDA e : P0Type(e.type) \in P0Types)
        reversed == [i \in DOMAIN known |-> known[Len(known) + 1 - i]]
    IN
    WellFormed(c) /\ PayloadsAreTyped(c) =>
        /\ P0Status(c) = P0Status([c EXCEPT !.ents = reversed])
        /\ P0Status(c) = "ok" =>
            \A t \in P0Types : \E i \in of(t) :
                LET e == c.ents[i]
                    v == Value(c, i)
                IN
                /\ of(t) = {i} /\ e.type = t /\ e.flags = {}
                /\ t = "memory" =>
                    /\ e.off + 8 + 32 * v.count = e.off + e.size
                    /\ \A j \in 1 .. v.count :
                        v.recs[j].base + v.recs[j].len \in 1 .. MaxU64
                /\ t = "devicetree" => e.off + 8 + v.len = e.off + e.size

Unlinked(c) ==
    [i \in 1 .. Len(c.ents) - 1 |->
        LET v == Value(c, i + 1) IN <<v.id, v.size, v.body>>]

\* No entry claims references that its tag does not have, and the first one
\* holds an info payload.
AsConverted(c) ==
    /\ Value(c, 1).kind = "info"
    /\ EXT \in c.ents[1].flags => NextContext(c) # 0
    /\ \A i \in 2 .. Len(c.ents) :
        EXT \in c.ents[i].flags => References(Value(c, i)) = "external"

\* Whatever capsule bbp_v2_to_v1 accepts, from whichever producer, a kernel
\* bounded to the output validates its info block and finds exactly the
\* capsule's tags in order; converting back succeeds unless the other
\* producer's layout was tighter, and digests alike if the flags claim no more
\* than there is and the info payload is one the bridge could have written (of
\* others, to_v1 drops the reserved bytes).  A capsule nobody touched is
\* accepted, carries what the kernel would have found in the first place and
\* converts back to itself, at whatever address.
BridgeIsFaithful ==
    /\ home # 0 /\ edits = 0 =>
        ToStatus(capsule, TRUE, home, home + capsule.extent, MaxInfo, Align) = "ok"
    /\ back =>
        /\ InfoStatus(info) = "ok"
        /\ Contents(mapped) = Unlinked(capsule)
        /\ info.count = Len(Contents(mapped))
        /\ LET again == FromStatus(TRUE, mapped[2], MaxExtent) IN
           /\ again \in {"ok", "extent", "work"}
           /\ again = "ok" /\ AsConverted(capsule) =>
                Digest(Converted(TRUE)) = Digest(capsule)
        /\ edits = 0 => /\ Contents(mapped) = origin
                        /\ Converted(TRUE) = capsule

=============================================================================
