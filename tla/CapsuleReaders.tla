--------------------------- MODULE CapsuleReaders ---------------------------
(***************************************************************************)
(* The other readers of v2 capsules: _validate_v2_capsule of               *)
(* tools/bbp_v2_envelope.py, V2CapsuleRef::parse of the Rust crate         *)
(* sdk/rust/bbp-wire, and the Profile 0 validators of v2/bbp_v2_profile.c  *)
(* and the same crate.                                                     *)
(***************************************************************************)
EXTENDS Capsule

LOCAL INSTANCE SequencesExt

CONSTANTS
    MaxU64,       \* UINT64_MAX, in the memory map of Profile 0
    MaxMemories   \* 4096, its limit of records

-----------------------------------------------------------------------------
(* _validate_v2_capsule *)

\* The spans an entry must not meet: header, directory, earlier entries.
PriorSpans(c, i) ==
    {<<0, CapsuleHeader>>, <<c.dir, DirectorySize(c)>>}
    \cup {<<c.ents[j].off, c.ents[j].size>> : j \in 1 .. i - 1}

PyEntryOk(c, i) ==
    LET e == c.ents[i] IN
    /\ ~e.reserved /\ e.size # 0
    /\ e.align # 0 /\ e.align <= MaxAlignment /\ PowerOfTwo(e.align)
    /\ e.off % e.align = 0
    /\ e.off <= c.total /\ e.size <= c.total - e.off
    /\ c.total + SizeSum(SubSeq(c.ents, 1, i - 1)) + e.size <= MaxCrcWork
    /\ \A s \in PriorSpans(c, i) : ~SpanOverlaps(e.off, e.size, s[1], s[2])

\* Fault: the scan does not reach the bytes after the last span.
PyPaddingInner(c) ==
    LET spans == SetToSortSeq(Spans(c), LAMBDA s, t : s[1] < t[1])
        cursor(i) == IF i = 0 THEN 0 ELSE spans[i][1] + spans[i][2]
    IN  \A i \in DOMAIN spans : ~Nonzero(c, cursor(i - 1), spans[i][1])

\* The scan over the sorted spans.
PyPaddingOk(c) ==
    LET spans == SetToSortSeq(Spans(c), LAMBDA s, t : s[1] < t[1])
        cursor(i) == IF i = 0 THEN 0 ELSE spans[i][1] + spans[i][2]
    IN  /\ \A i \in DOMAIN spans : ~Nonzero(c, cursor(i - 1), spans[i][1])
        /\ ~Nonzero(c, cursor(Len(spans)), c.total)

PyAccepts(c) ==
    /\ c.extent >= CapsuleHeader /\ c.extent <= MaxExtent
    /\ c.head = "ok" /\ Len(c.ents) <= MaxDirents
    /\ c.total = c.extent
    /\ c.dir % 8 = 0
    /\ c.ents = << >> => c.dir = CapsuleHeader /\ c.total = CapsuleHeader
    /\ c.dir >= CapsuleHeader /\ c.dir <= c.total
    /\ DirectorySize(c) <= c.total - c.dir
    /\ \A i \in DOMAIN c.ents : PyEntryOk(c, i)
    /\ PyPaddingOk(c)
    /\ c.crc = Covered(c)
    /\ \A i \in DOMAIN c.ents : Bytes(c, c.ents[i].off, c.ents[i].size) = c.ents[i].crc

-----------------------------------------------------------------------------
(* V2CapsuleRef::parse *)

RustEntryStatus(c, i) ==
    LET e == c.ents[i] IN
    FirstError(<<
        Check(~e.reserved /\ e.size # 0, "format"),
        Check(/\ e.align # 0 /\ PowerOfTwo(e.align) /\ e.align <= MaxAlignment
              /\ e.off % e.align = 0, "alignment"),
        Check(e.off <= c.extent /\ e.size <= c.extent - e.off, "extent"),
        Check(/\ ~SpanOverlaps(e.off, e.size, 0, CapsuleHeader)
              /\ ~SpanOverlaps(e.off, e.size, c.dir, DirectorySize(c))
              /\ \A j \in 1 .. i - 1 :
                    ~SpanOverlaps(e.off, e.size, c.ents[j].off, c.ents[j].size),
              "overlap"),
        Check(c.extent + SizeSum(SubSeq(c.ents, 1, i)) <= MaxCrcWork, "work")>>)

RustHeaderStatus(c) ==
    FirstError(<<
        Check(c.extent >= CapsuleHeader, "truncated"),
        Check(c.extent <= MaxExtent, "extent"),
        Check(c.head = "ok", c.head),
        Check(c.total = c.extent, "extent"),
        Check(Len(c.ents) <= MaxDirents, "count"),
        Check(c.dir % 8 = 0 /\ c.dir <= c.extent, "alignment"),
        Check(c.ents = << >> => c.dir = CapsuleHeader /\ c.extent = CapsuleHeader,
              "format"),
        Check(c.dir >= CapsuleHeader /\ DirectorySize(c) <= c.extent - c.dir,
              "extent")>>)

\* validate_padding of the crate makes the scan of the C parser.
RustPaddingStatus(c) == PaddingStatus(c)

RustStatus(c) ==
    IF RustHeaderStatus(c) # "ok" THEN RustHeaderStatus(c)
    ELSE LET entries == FirstError([i \in DOMAIN c.ents |-> RustEntryStatus(c, i)]) IN
         IF entries # "ok" THEN entries
         ELSE IF RustPaddingStatus(c) # "ok" THEN RustPaddingStatus(c)
         ELSE IF c.crc # Covered(c) THEN "crc"
         ELSE PayloadStatus(c)

-----------------------------------------------------------------------------
(* Profile 0 *)

P0Types == {"identity", "memory", "kernel", "devicetree"}

\* The profile type of an entry, and whether its version is the profile's.
P0Type(type) == IF type = "identity.v2" THEN "identity" ELSE type

P0Current(type) == type # "identity.v2"

\* The tests on the payload v of an entry e.
P0PayloadOk(e, v) ==
    CASE P0Type(e.type) = "identity" ->
            e.size = 16 /\ v.zero /\ v.arch \in 1 .. 4 /\ v.cpus # 0
      [] P0Type(e.type) = "memory" ->
            /\ e.size >= 8 /\ v.count \in 1 .. MaxMemories /\ v.stride = 32
            /\ v.count * 32 = e.size - 8
            /\ \A j \in 1 .. v.count :
                LET m == v.recs[j] IN
                m.len # 0 /\ m.base <= MaxU64 - m.len /\ m.type # 0 /\ m.zero
      [] P0Type(e.type) = "kernel" -> e.size = 16 /\ v.phys # 0
      [] OTHER -> e.size > 8 /\ v.zero /\ v.len = e.size - 8

\* Fault: a second entry of a kind replaces the first.
P0StatusLastWins(c) ==
    LET known == {i \in DOMAIN c.ents : P0Type(c.ents[i].type) \in P0Types}
        good(i) == /\ P0Current(c.ents[i].type) /\ c.ents[i].flags = {}
                   /\ P0PayloadOk(c.ents[i], Value(c, i))
    IN  Check(/\ \A i \in known : good(i)
              /\ {P0Type(c.ents[i].type) : i \in known} = P0Types, "format")

\* The loop over the entries, which collects the kinds seen so far.
P0Status(c) ==
    LET at[i \in 0 .. Len(c.ents)] ==
            IF i = 0 THEN [seen |-> {}, st |-> "ok"]
            ELSE LET e == c.ents[i]
                     prev == at[i - 1]
                 IN
                 IF prev.st # "ok" \/ P0Type(e.type) \notin P0Types THEN prev
                 ELSE [seen |-> prev.seen \cup {P0Type(e.type)},
                       st |-> Check(/\ P0Type(e.type) \notin prev.seen
                                    /\ P0Current(e.type) /\ e.flags = {}
                                    /\ P0PayloadOk(e, Value(c, i)), "format")]
        end == at[Len(c.ents)]
    IN  IF end.st # "ok" THEN end.st ELSE Check(end.seen = P0Types, "format")

=============================================================================
