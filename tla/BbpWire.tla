------------------------------- MODULE BbpWire -------------------------------
(***************************************************************************)
(* The v1.1 handoff format that the bootloader's builder writes and the    *)
(* kernel's parser reads: the physical memory holding tags, the info       *)
(* block, and the CRC that covers each of them.                            *)
(*                                                                         *)
(* The layout constants are those of include/bbp/bbp.h; the limits, which  *)
(* both sides define for themselves, are constants of the model.  A tag    *)
(* body is one number: for the HHDM tag it is the direct-map offset.       *)
(*                                                                         *)
(* CRC-64 is abstracted to a perfect one: a checksum field holds the       *)
(* content it was computed over, so it matches exactly that content.       *)
(***************************************************************************)
EXTENDS Naturals, Sequences

CONSTANTS
    Ids,      \* tag identifiers (64-bit UUIDs in the code)
    HHDM,     \* the identifier of the HHDM tag
    Bodies,   \* what a client may write into a tag body
    MaxTag,   \* BBP_BUILDER_MAX_TAG, and the bound of bbp_tag_len_ok
    MaxTags,  \* BBP_BUILDER_MAX_TAGS, BBP_MAX_TAGS
    MaxPhys,  \* BBP_BUILDER_MAX_PHYS, BBP_MAX_PHYS
    MaxInfo,  \* BBP_BUILDER_MAX_INFO, and the info_size bound of bbp_init_win
    SizeMax   \* SIZE_MAX, UINTPTR_MAX

HeaderSize == 32   \* sizeof(struct bbp_tag_header)
HhdmSize == 40     \* sizeof(struct bbp_tag_hhdm)
InfoSize == 144    \* sizeof(struct bbp_info)
Align == 8
VersionMajor == 1

ASSUME WireAssumption ==
    /\ HHDM \in Ids
    /\ Bodies \subseteq Nat
    /\ MaxTag \in Nat /\ MaxTag >= HhdmSize
    /\ MaxTags \in Nat \ {0}
    /\ MaxPhys \in Nat
    /\ MaxInfo \in Nat /\ MaxInfo >= InfoSize
    /\ SizeMax \in Nat /\ SizeMax >= Align /\ SizeMax >= MaxPhys

VARIABLES
    mem,      \* physical address -> what a tag header read there yields
    info      \* struct bbp_info

NoCrc == <<>>   \* a checksum field of zero

Content(c) == <<c.id, c.size, c.next, c.body>>

\* The checksum field set to the CRC of everything else.
Sealed(c) == [c EXCEPT !.crc = Content(c)]

CrcOk(c) == c.crc = Content(c)

\* Zeroed memory read as a tag header.
ZeroCell == [id |-> 0, size |-> 0, next |-> 0, body |-> 0, crc |-> NoCrc]

Read(p) == IF p \in DOMAIN mem THEN mem[p] ELSE ZeroCell

InfoContent(i) == <<i.magic, i.major, i.size, i.count, i.first>>

SealedInfo(i) == [i EXCEPT !.crc = InfoContent(i)]

InfoCrcOk(i) == i.crc = InfoContent(i)

\* An info block nobody has finalized.
BlankInfo == [magic |-> FALSE, major |-> 0, size |-> 0, count |-> 0,
              first |-> 0, crc |-> NoCrc]

\* Fault: rounding down.
AlignDown(n) == (n \div 8) * 8

AlignUp(n) == ((n + 7) \div 8) * 8

=============================================================================
