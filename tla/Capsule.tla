------------------------------- MODULE Capsule -------------------------------
(***************************************************************************)
(* The v2 capsule, v2/bbp_v2.c, as functions: what bbp_v2_build writes and *)
(* which status bbp_v2_parse returns, in the order of the code's tests.    *)
(*                                                                         *)
(* A capsule is a header, a directory and payload.  The payload is a set   *)
(* of cells, offset -> [size, val], of nonzero bytes; all other bytes are  *)
(* zero.  A span that is not exactly a cell reads as something else than   *)
(* any cell, and a CRC field holds the content it was computed over.  An   *)
(* entry's type stands for its type and version.                           *)
(***************************************************************************)
EXTENDS Naturals, Sequences, Status

CONSTANTS
    MaxDirents,    \* BBP_V2_MAX_ENTRIES
    MaxAlignment,  \* BBP_V2_MAX_ALIGNMENT
    MaxExtent,     \* BBP_V2_MAX_EXTENT
    MaxCrcWork     \* BBP_V2_MAX_CRC_WORK

CapsuleHeader == 64   \* BBP_V2_HEADER_SIZE
DirentSize == 48      \* BBP_V2_DIRENT_SIZE

ASSUME CapsuleAssumption ==
    /\ MaxDirents \in Nat \ {0} /\ MaxAlignment \in Nat
    /\ MaxExtent \in Nat /\ MaxExtent >= CapsuleHeader
    /\ MaxCrcWork \in Nat /\ MaxCrcWork >= MaxExtent

PowerOfTwo(n) == n \in {2 ^ i : i \in 0 .. 12}

SpanOverlaps(a, as, b, bs) == a < b + bs /\ b < a + as

AlignTo(n, a) == ((n + a - 1) \div a) * a

\* What the bytes of a span are; distinct spans differ unless both are cells.
Bytes(c, off, size) ==
    IF off \in DOMAIN c.data /\ c.data[off].size = size
    THEN <<size, c.data[off].val>>
    ELSE <<"other", off, size>>

\* What an entry's bytes are; bytes that are no cell are nothing the readers know.
Value(c, i) ==
    LET e == c.ents[i] IN
    IF e.off \in DOMAIN c.data /\ c.data[e.off].size = e.size
    THEN c.data[e.off].val ELSE [kind |-> "raw"]

Nonzero(c, lo, hi) ==
    \E o \in DOMAIN c.data : SpanOverlaps(o, c.data[o].size, lo, hi - lo)

\* Everything the capsule checksum covers.
Covered(c) == [c EXCEPT !.crc = << >>]

DirectorySize(c) == Len(c.ents) * DirentSize

SizeSum(s) ==
    LET sum[i \in 0 .. Len(s)] == IF i = 0 THEN 0 ELSE sum[i - 1] + s[i].size
    IN  sum[Len(s)]

-----------------------------------------------------------------------------
\* bbp_v2_parse.

\* One iteration of its loop over the directory.
EntryStatus(c, i) ==
    LET e == c.ents[i] IN
    FirstError(<<
        Check(~e.reserved, "format"),
        Check(PowerOfTwo(e.align) /\ e.align <= MaxAlignment /\ e.off % e.align = 0,
              "alignment"),
        Check(e.size # 0, "format"),
        Check(e.off <= c.total /\ e.size <= c.total - e.off, "overflow"),
        Check(/\ ~SpanOverlaps(e.off, e.size, 0, CapsuleHeader)
              /\ ~SpanOverlaps(e.off, e.size, c.dir, DirectorySize(c))
              /\ \A j \in 1 .. i - 1 :
                    ~SpanOverlaps(e.off, e.size, c.ents[j].off, c.ents[j].size),
              "overlap"),
        Check(c.total + SizeSum(SubSeq(c.ents, 1, i)) <= MaxCrcWork, "work")>>)

\* validate_padding: the spans are visited in ascending order by selecting,
\* at each step, the lowest one that starts at or after the cursor.
Spans(c) ==
    {<<0, CapsuleHeader>>}
    \cup (IF c.ents = << >> THEN {} ELSE {<<c.dir, DirectorySize(c)>>})
    \cup {<<c.ents[i].off, c.ents[i].size>> : i \in DOMAIN c.ents}

PaddingStatus(c) ==
    LET n == Len(c.ents) + (IF c.ents = << >> THEN 1 ELSE 2)
        ahead(cursor) == {s \in Spans(c) : s[1] >= cursor /\ s[1] < c.extent}
        lowest(ss) == CHOOSE s \in ss : \A t \in ss : s[1] <= t[1]
        at[i \in 0 .. n] ==
            IF i = 0 THEN [cursor |-> 0, st |-> "ok"]
            ELSE LET prev == at[i - 1] IN
                 IF prev.st # "ok" THEN prev
                 ELSE IF ahead(prev.cursor) = {} THEN [prev EXCEPT !.st = "format"]
                 ELSE LET s == lowest(ahead(prev.cursor)) IN
                      [cursor |-> s[1] + s[2],
                       st |-> Check(~Nonzero(c, prev.cursor, s[1]), "padding")]
    IN  IF at[n].st # "ok" THEN at[n].st
        ELSE Check(~Nonzero(c, at[n].cursor, c.extent), "padding")

PayloadStatus(c) ==
    Check(\A i \in DOMAIN c.ents :
              Bytes(c, c.ents[i].off, c.ents[i].size) = c.ents[i].crc, "crc")

HeaderStatus(c) ==
    FirstError(<<
        Check(c.extent >= CapsuleHeader /\ c.extent <= MaxExtent, "extent"),
        Check(c.head = "ok", c.head),
        Check(c.total = c.extent, "extent"),
        Check(Len(c.ents) <= MaxDirents, "count"),
        Check(c.dir % 8 = 0, "alignment"),
        Check(c.ents = << >> => c.dir = CapsuleHeader /\ c.total = CapsuleHeader,
              "format"),
        Check(/\ c.dir >= CapsuleHeader /\ c.dir <= c.total
              /\ DirectorySize(c) <= c.total - c.dir, "overflow")>>)

ParseStatus(c) ==
    IF HeaderStatus(c) # "ok" THEN HeaderStatus(c)
    ELSE LET entries == FirstError([i \in DOMAIN c.ents |-> EntryStatus(c, i)]) IN
         IF entries # "ok" THEN entries
         ELSE IF PaddingStatus(c) # "ok" THEN PaddingStatus(c)
         ELSE IF c.crc # Covered(c) THEN "crc"
         ELSE PayloadStatus(c)

\* bbp_v2_get_entry with the view that bbp_v2_parse makes.
GetEntryStatus(c, i) ==
    FirstError(<<
        Check(Len(c.ents) <= MaxDirents /\ i <= Len(c.ents), "count"),
        Check(/\ c.extent >= CapsuleHeader /\ c.extent <= MaxExtent
              /\ c.dir >= CapsuleHeader /\ c.dir <= c.extent
              /\ DirectorySize(c) <= c.extent - c.dir
              /\ c.ents[i].off <= c.extent
              /\ c.ents[i].size <= c.extent - c.ents[i].off, "extent")>>)

-----------------------------------------------------------------------------
\* bbp_v2_build: es is the caller's array, out and capacity its buffer.

\* The sizing pass: cursor and work after each entry, and the first error.
Sized(es) ==
    LET step(prev, e) ==
            LET cursor == AlignTo(prev.cursor, e.align) + e.size
                work == prev.work + e.size
            IN  IF e.size = 0 THEN [prev EXCEPT !.st = "null"]
                ELSE IF ~PowerOfTwo(e.align) \/ e.align > MaxAlignment
                THEN [prev EXCEPT !.st = "alignment"]
                ELSE IF work > MaxCrcWork THEN [prev EXCEPT !.st = "work"]
                ELSE IF cursor > MaxExtent THEN [prev EXCEPT !.st = "extent"]
                ELSE [cursor |-> cursor, work |-> work, st |-> "ok"]
        pass[i \in 0 .. Len(es)] ==
            IF i = 0
            THEN [cursor |-> CapsuleHeader + Len(es) * DirentSize, work |-> 0,
                  st |-> "ok"]
            ELSE IF pass[i - 1].st # "ok" THEN pass[i - 1]
            ELSE step(pass[i - 1], es[i])
    IN  pass

BuildStatus(es, out, capacity) ==
    IF Len(es) > MaxDirents THEN "count"
    ELSE LET end == Sized(es)[Len(es)] IN
         IF end.st # "ok" THEN end.st
         ELSE FirstError(<<
                Check(end.cursor + end.work <= MaxCrcWork, "work"),
                Check(end.cursor <= capacity, "capacity"),
                Check(\A i \in DOMAIN es :
                        ~SpanOverlaps(out, end.cursor, es[i].at, es[i].size),
                      "source")>>)

\* Checksums of payloads and capsule, in this order.
SealedCapsule(c) ==
    LET d == [c EXCEPT !.ents = [i \in DOMAIN c.ents |->
                 [c.ents[i] EXCEPT !.crc = Bytes(c, c.ents[i].off, c.ents[i].size)]]]
    IN  [d EXCEPT !.crc = Covered(d)]

\* Where the second pass places entry i.
Start(es, i) == AlignTo(Sized(es)[i - 1].cursor, es[i].align)

Built(es) ==
    LET total == Sized(es)[Len(es)].cursor
        starts == {Start(es, i) : i \in DOMAIN es}
        entry(o) == CHOOSE i \in DOMAIN es : Start(es, i) = o
    IN
    SealedCapsule(
        [extent |-> total, total |-> total, head |-> "ok", dir |-> CapsuleHeader,
         crc |-> << >>,
         ents |-> [i \in DOMAIN es |->
             [type |-> es[i].type, flags |-> es[i].flags, off |-> Start(es, i),
              size |-> es[i].size, crc |-> << >>, align |-> es[i].align,
              reserved |-> FALSE]],
         data |-> [o \in starts |-> [size |-> es[entry(o)].size,
                                     val |-> es[entry(o)].val]]])

\* bbp_v2_digest feeds the framing and content of every entry, no offsets.
Digest(c) ==
    [i \in DOMAIN c.ents |->
        <<c.ents[i].type, c.ents[i].flags, Bytes(c, c.ents[i].off, c.ents[i].size)>>]

-----------------------------------------------------------------------------
\* Reference definition.  Every byte has one owner or is zero; every owner is
\* where its alignment says, inside the extent, and carries its checksum.
WellFormed(c) ==
    LET regions == [i \in 1 .. Len(c.ents) + 2 |->
            IF i = 1 THEN <<0, CapsuleHeader>>
            ELSE IF i = 2 THEN <<c.dir, c.dir + DirectorySize(c)>>
            ELSE <<c.ents[i - 2].off, c.ents[i - 2].off + c.ents[i - 2].size>>]
        owned == UNION {regions[i][1] .. regions[i][2] - 1 : i \in DOMAIN regions}
    IN
    /\ c.head = "ok" /\ c.total = c.extent
    /\ c.extent \in CapsuleHeader .. MaxExtent
    /\ Len(c.ents) <= MaxDirents
    /\ c.dir >= CapsuleHeader /\ c.dir % 8 = 0
    /\ c.ents = << >> => c.extent = CapsuleHeader
    /\ \A i \in DOMAIN regions : regions[i][2] <= c.extent
    /\ \A i, j \in DOMAIN regions : i # j =>
            (regions[i][1] .. regions[i][2] - 1) \cap
            (regions[j][1] .. regions[j][2] - 1) = {}
    /\ \A o \in DOMAIN c.data : o .. o + c.data[o].size - 1 \subseteq owned
    /\ \A i \in DOMAIN c.ents :
        LET e == c.ents[i] IN
        /\ e.size > 0 /\ ~e.reserved
        /\ PowerOfTwo(e.align) /\ e.align <= MaxAlignment /\ e.off % e.align = 0
        /\ e.crc = Bytes(c, e.off, e.size)
    /\ c.total + SizeSum(c.ents) <= MaxCrcWork
    /\ c.crc = Covered(c)

=============================================================================
