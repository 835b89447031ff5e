------------------------------- MODULE MCBridge -------------------------------
(***************************************************************************)
(* Instance of Bridge: chains of up to two tags, one whose size is not a   *)
(* multiple of eight, with a fixed, an array, a pointer and an unknown tag.*)
(***************************************************************************)
EXTENDS Bridge, TLC

MCFixedSize == [id \in Ids \ Opaque |-> IF id = "hhdm" THEN 40 ELSE HeaderSize]

A == 4096    \* where the chain starts
B == 4144    \* where its second tag is

Cell(id, size, next, body) ==
    Sealed([id |-> id, size |-> size, next |-> next, body |-> body, crc |-> NoCrc])

InfoFor(count, first) ==
    SealedInfo([magic |-> TRUE, major |-> VersionMajor, size |-> 256,
                count |-> count, first |-> first, crc |-> NoCrc])

Source(m, count, first, c) ==
    [mem |-> m, info |-> InfoFor(count, first), minor |-> VersionMinor, ctx |-> c,
     mapped |-> <<A, A + 96>>]

Firsts(next) == {Cell("hhdm", 40, next, 1), Cell("mods", 44, next, 1)}
Seconds == {Cell("cmdline", 37, 0, b) : b \in {0, 1}} \cup {Cell("misc", 32, 0, 0)}

Sound ==
    {Source(<< >>, 0, 0, c) : c \in {0, 1}}
    \cup {Source(A :> x, 1, A, 0) : x \in Firsts(0)}
    \cup {Source(A :> x @@ B :> y, 2, A, 0) : x \in Firsts(B), y \in Seconds}

\* Chains that loop, overlap, leave the mapped range, end early or late, carry
\* a wrong checksum, claim more elements than fit, or are of another minor version.
Unsound ==
    {Source(A :> x, 2, A, 0) : x \in Firsts(A) \cup Firsts(0)}
    \cup {Source(A :> Cell("hhdm", 56, B, 1) @@ B :> y, 2, A, 0) : y \in Seconds}
    \cup {Source(A :> Cell("hhdm", 104, 0, 1), 1, A, 0),
          Source(A :> Cell("hhdm", 36, 0, 1), 1, A, 0),
          Source(A :> Cell("mods", 40, 0, 1), 1, A, 0),
          Source(A :> [Cell("hhdm", 40, 0, 1) EXCEPT !.body = 0], 1, A, 0),
          Source(A :> Cell("hhdm", 40, B, 1), 1, A, 0),
          Source(A :> Cell("hhdm", 40, 0, 1), 5, A, 0),
          Source(A :> Cell("hhdm", 40, 0, 1), 0, A, 0),
          Source(A + 4 :> Cell("hhdm", 40, 0, 1), 1, A + 4, 0),
          [Source(A :> Cell("hhdm", 40, 0, 1), 1, A, 0) EXCEPT !.info.count = 2],
          [Source(A :> Cell("hhdm", 40, 0, 1), 1, A, 0) EXCEPT !.minor = 0]}

\* The usual calls, and calls that differ in one argument.
From == [policy |-> TRUE, out |-> 1024, capacity |-> 500]
To == [policy |-> TRUE, out |-> 2048, capacity |-> 500, phys |-> 2048]

MCFromCalls ==
    {From, [From EXCEPT !.policy = FALSE], [From EXCEPT !.out = A],
     [From EXCEPT !.capacity = 200]}

MCToCalls ==
    {To, [To EXCEPT !.policy = FALSE], [To EXCEPT !.out = 1000],
     [To EXCEPT !.capacity = 200], [To EXCEPT !.phys = 8000],
     [To EXCEPT !.phys = 4]}

\* A sound profile, in two orders, and profiles that differ in one respect.
Entry(type, size, val) ==
    [type |-> type, flags |-> {}, align |-> 8, size |-> size, at |-> 8000, val |-> val]

Identity(arch, cpus, zero) ==
    Entry("identity", 16, [kind |-> "identity", arch |-> arch, cpus |-> cpus, zero |-> zero])
Range(base, len, type) == [base |-> base, len |-> len, type |-> type, zero |-> TRUE]
Memory(count, stride, recs) ==
    Entry("memory", 8 + 32 * Len(recs),
          [kind |-> "memory", count |-> count, stride |-> stride, recs |-> recs])
Kernel(phys) == Entry("kernel", 16, [kind |-> "kernel", phys |-> phys])
Tree(zero, len, size) ==
    Entry("devicetree", size, [kind |-> "devicetree", zero |-> zero, len |-> len])

Good == <<Identity(1, 1, TRUE), Memory(1, 32, <<Range(0, MaxU64, 1)>>), Kernel(1),
          Tree(TRUE, 8, 16)>>

Identities == {Identity(0, 1, TRUE), Identity(5, 1, TRUE), Identity(4, 0, TRUE),
               Identity(4, 1, FALSE), [Good[1] EXCEPT !.type = "identity.v2"],
               [Good[1] EXCEPT !.size = 24], [Good[1] EXCEPT !.flags = {EXT}]}
Memories == {Memory(0, 32, << >>), Memory(2, 32, <<Range(0, 1, 1)>>),
             Memory(1, 40, <<Range(0, 1, 1)>>), Memory(1, 32, <<Range(1, MaxU64, 1)>>),
             Memory(1, 32, <<Range(1, 0, 1)>>),
             Memory(2, 32, <<Range(0, 1, 1), Range(0, 1, 0)>>)}
Trees == {Tree(FALSE, 8, 16), Tree(TRUE, 0, 8), Tree(TRUE, 9, 16), Tree(TRUE, 7, 16)}

MCProfiles ==
    {Good, <<Good[4], Good[2], Good[1], Good[3]>>, SubSeq(Good, 2, 4),
     Good \o <<Entry("misc", 16, [kind |-> "other"])>>, Good \o <<Good[3]>>,
     <<Good[1]>> \o Good, [Good EXCEPT ![3] = Kernel(0)]}
    \cup {[Good EXCEPT ![1] = x] : x \in Identities}
    \cup {[Good EXCEPT ![2] = x] : x \in Memories}
    \cup {[Good EXCEPT ![4] = x] : x \in Trees}

MCSources == Sound \cup Unsound

=============================================================================
