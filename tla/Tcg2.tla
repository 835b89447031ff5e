--------------------------------- MODULE Tcg2 ---------------------------------
(***************************************************************************)
(* The TCG2 helpers, experimental/firmware/uefi/tcg2/bbp_uefi_tcg2.c, as   *)
(* functions: the blocking and padding of SHA-256, the extension of a      *)
(* register, and the TPM2_PCR_Read command and response.                   *)
(*                                                                         *)
(* A byte is a tuple.  The compression function is external: a digest is   *)
(* the sequence of blocks compressed so far, of which each of its bytes is *)
(* a part.  A response is a record of its fields and its length in bytes.  *)
(***************************************************************************)
EXTENDS Naturals, Sequences, Status

CONSTANTS
    BlockBytes,    \* 64
    LengthBytes,   \* 8, the bytes of the length at the end of the last block
    DigestBytes    \* 32

ASSUME Tcg2Assumption ==
    /\ BlockBytes \in Nat /\ LengthBytes \in Nat /\ DigestBytes \in Nat
    /\ LengthBytes < BlockBytes /\ 2 * DigestBytes = BlockBytes

MaxPcr == 23   \* BBP_TPM2_MAX_PCR

-----------------------------------------------------------------------------
(* SHA-256 *)

Mark == <<"mark">>

Zeros(n) == [i \in 1 .. n |-> <<"zero">>]

LengthField(bytes) == [i \in 1 .. LengthBytes |-> <<"length", bytes, i>>]

\* The bytes of the digest that a sequence of blocks compresses to.
DigestOf(blocks) == [i \in 1 .. DigestBytes |-> <<"digest", blocks, i>>]

\* sha256_update from the initial state: each round of the loop fills the block
\* buffer and compresses it when it is full.
Sha256Update(data) ==
    LET round(s) ==
            LET room == BlockBytes - Len(s.block)
                left == Len(data) - s.at
                take == IF left < room THEN left ELSE room
                block == s.block \o SubSeq(data, s.at + 1, s.at + take)
            IN  IF Len(block) = BlockBytes
                THEN [at |-> s.at + take, block |-> << >>, done |-> Append(s.done, block)]
                ELSE [s EXCEPT !.at = s.at + take, !.block = block]
        after[k \in 0 .. Len(data)] ==
            IF k = 0 THEN [at |-> 0, block |-> << >>, done |-> << >>]
            ELSE IF after[k - 1].at = Len(data) THEN after[k - 1]
            ELSE round(after[k - 1])
    IN  after[Len(data)]

\* Fault: a mark that ends exactly where the length starts needs another block.
Sha256FinalEager(s, bytes) ==
    LET marked == Append(s.block, Mark)
        split == Len(marked) >= BlockBytes - LengthBytes
        done == IF split THEN Append(s.done, marked \o Zeros(BlockBytes - Len(marked)))
                ELSE s.done
        block == IF split THEN << >> ELSE marked
    IN  Append(done, block \o Zeros(BlockBytes - LengthBytes - Len(block))
                     \o LengthField(bytes))

\* sha256_final: the blocks compressed in all.
Sha256Final(s, bytes) ==
    LET marked == Append(s.block, Mark)
        split == Len(marked) > BlockBytes - LengthBytes
        done == IF split THEN Append(s.done, marked \o Zeros(BlockBytes - Len(marked)))
                ELSE s.done
        block == IF split THEN << >> ELSE marked
    IN  Append(done, block \o Zeros(BlockBytes - LengthBytes - Len(block))
                     \o LengthField(bytes))

\* bbp_tcg2_sha256 and bbp_tcg2_sha256_extend.
Sha256(data) == DigestOf(Sha256Final(Sha256Update(data), Len(data)))

Sha256Extend(before, digest) == Sha256(before \o digest)

\* The standard's definition: mark, fewest zeros that complete a block, length.
StandardSha256(data) ==
    LET fits(n) == (Len(data) + 1 + n + LengthBytes) % BlockBytes = 0
        zeros == CHOOSE n \in 0 .. BlockBytes - 1 : fits(n)
        padded == data \o <<Mark>> \o Zeros(zeros) \o LengthField(Len(data))
    IN  DigestOf([k \in 1 .. Len(padded) \div BlockBytes |->
            SubSeq(padded, (k - 1) * BlockBytes + 1, k * BlockBytes)])

-----------------------------------------------------------------------------
(* TPM2_PCR_Read *)

Selection(pcr) ==
    [i \in 0 .. 2 |-> IF i = pcr \div 8 THEN 2 ^ (pcr % 8) ELSE 0]

\* bbp_tcg2_build_pcr_read.
BuildPcrRead(pcr, capacity) ==
    IF pcr > MaxPcr THEN [st |-> "pcr"]
    ELSE IF capacity < 20 THEN [st |-> "capacity"]
    ELSE [st |-> "ok", tag |-> "no sessions", size |-> 20, code |-> "pcr read",
          count |-> 1, alg |-> "sha256", octets |-> 3, select |-> Selection(pcr)]

\* The tests of bbp_tcg2_parse_pcr_read_response in their order, each with the
\* end of what it reads.
Reading(end, ok, st) == [end |-> end, ok |-> ok, st |-> st]

Tests(r, pcr) ==
    <<Reading(0, pcr <= MaxPcr, "pcr"),
      Reading(0, r.bytes >= 10, "truncated"),
      Reading(6, r.size = r.bytes, "size"),
      Reading(2, r.tag = "no sessions", "tag"),
      Reading(10, r.code = "ok", "response code"),
      Reading(0, r.bytes >= 18, "truncated"),
      Reading(18, r.count = 1, "count"),
      Reading(0, r.bytes >= 21, "truncated"),
      Reading(20, r.alg = "sha256", "algorithm"),
      Reading(21, r.octets = 3, "selection"),
      Reading(0, r.bytes >= 24, "truncated"),
      Reading(24, r.select = Selection(pcr), "selection"),
      Reading(0, r.bytes >= 30, "truncated"),
      Reading(28, r.digests = 1, "count"),
      Reading(30, r.digestSize = DigestBytes, "digest size"),
      Reading(0, r.bytes >= 30 + DigestBytes, "truncated"),
      Reading(30 + DigestBytes, r.bytes = 30 + DigestBytes, "trailing")>>

ParseStatusOf(r, pcr) ==
    FirstError([i \in DOMAIN Tests(r, pcr) |->
        Check(Tests(r, pcr)[i].ok, Tests(r, pcr)[i].st)])

\* No test that is reached reads past the end.
ReadsInside(r, pcr) ==
    LET tests == Tests(r, pcr) IN
    \A i \in DOMAIN tests :
        (\A j \in 1 .. i - 1 : tests[j].ok) => tests[i].end <= r.bytes

\* What a TPM answers to the command (external).
Response(command, counter, digest) ==
    [bytes |-> 30 + DigestBytes, size |-> 30 + DigestBytes, tag |-> "no sessions",
     code |-> "ok", counter |-> counter, count |-> command.count, alg |-> command.alg,
     octets |-> command.octets, select |-> command.select, digests |-> 1,
     digestSize |-> DigestBytes, digest |-> digest]

\* Other answers: cut on either side of each field, extended, with one field
\* different, or of another register.
OtherResponses(r) ==
    LET cuts == {0, 5, 6, 9, 10, 17, 18, 20, 21, 23, 24, 29, 30, r.bytes - 1, r.bytes + 1}
    IN  {[r EXCEPT !.bytes = n] : n \in cuts}
        \cup {[r EXCEPT !.bytes = n, !.size = n] : n \in cuts}
        \cup {[r EXCEPT !.tag = "sessions"], [r EXCEPT !.code = "failure"],
              [r EXCEPT !.alg = "sha1"], [r EXCEPT !.octets = 4],
              [r EXCEPT !.size = @ + 1], [r EXCEPT !.digestSize = @ - 1]}
        \cup {[r EXCEPT !.count = n] : n \in {0, 2}}
        \cup {[r EXCEPT !.digests = n] : n \in {0, 2}}
        \cup {[r EXCEPT !.select = Selection(n)] : n \in {0, 7, 8, 15, 16, 23}}

===============================================================================
