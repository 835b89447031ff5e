------------------------------- MODULE Handoff -------------------------------
(***************************************************************************)
(* Boot loader and kernel composed over the memory they share.  The loader *)
(* runs the builder of BbpBuilder; once finalize has returned the address  *)
(* of a sealed info block it jumps, and the kernel looks tags up with the  *)
(* parser of BbpKernel, bounded to the builder's arena, as the ports and   *)
(* examples/sdk_roundtrip.c do.  (The unbounded bbp_init, which            *)
(* examples/kernel_header.c calls, is checked in BbpKernel.)  After the    *)
(* jump memory may be damaged one field at a time, between or during       *)
(* lookups: the parser exists for this.                                    *)
(***************************************************************************)
EXTENDS BbpBuilder, BbpKernel, FiniteSets

CONSTANTS
    MaxFaults,     \* bound on the number of damaged fields
    DamagedNexts,  \* values a damaged pointer may take
    DamagedSizes   \* values a damaged tag_size may take

ASSUME HandoffAssumption ==
    /\ MaxFaults \in Nat
    /\ DamagedNexts \subseteq Nat /\ DamagedSizes \subseteq Nat

VARIABLES
    stage,    \* "boot" or "kernel"
    golden,   \* history: memory at the jump
    faults    \* history: the damage done, as [kind, at]

handoffVars == <<mem, info, buildVars, kernelVars, stage, golden, faults>>

HandoffInit ==
    /\ Init /\ KernelInit
    /\ stage = "boot" /\ golden = << >> /\ faults = {}

Boot ==
    /\ stage = "boot"
    /\ Next
    /\ UNCHANGED <<kernelVars, stage, golden, faults>>

Jump ==
    /\ stage = "boot" /\ phase = "sealed" /\ ret = "ok"
    /\ stage' = "kernel" /\ golden' = mem
    /\ UNCHANGED <<mem, info, buildVars, kernelVars, faults>>

KernelCall ==
    \/ \E hint \in Hints : InitBounded(hint, b.phys, b.cap)
    \/ \E id \in Ids : FindTag(id)
    \/ \E stop \in StopSets : ForEachTag(stop)
    \/ Evidence

InKernel(A) ==
    /\ stage = "kernel"
    /\ A
    /\ UNCHANGED <<buildVars, stage, golden, faults>>

Kernel == InKernel(KernelCall) \/ InKernel(WalkStep)

Damage(kind, p) ==
    /\ stage = "kernel"
    /\ Cardinality(faults) < MaxFaults
    /\ [kind |-> kind, at |-> p] \notin faults
    /\ faults' = faults \cup {[kind |-> kind, at |-> p]}
    /\ UNCHANGED <<buildVars, kernelVars, stage, golden>>

DamageBody(p) ==
    /\ Damage("body", p)
    /\ mem' = [mem EXCEPT ![p].body = @ + 1]
    /\ UNCHANGED info

DamageNext(p, q) ==
    /\ Damage("next", p)
    /\ q # mem[p].next
    /\ mem' = [mem EXCEPT ![p].next = q]
    /\ UNCHANGED info

DamageSize(p, s) ==
    /\ Damage("size", p)
    /\ s # mem[p].size
    /\ mem' = [mem EXCEPT ![p].size = s]
    /\ UNCHANGED info

DamageInfo(q) ==
    /\ Damage("info", 0)
    /\ q # info.first
    /\ info' = [info EXCEPT !.first = q]
    /\ UNCHANGED mem

Fault ==
    \/ \E p \in DOMAIN mem : DamageBody(p)
    \/ \E p \in DOMAIN mem, q \in DamagedNexts : DamageNext(p, q)
    \/ \E p \in DOMAIN mem, s \in DamagedSizes : DamageSize(p, s)
    \/ \E q \in DamagedNexts : DamageInfo(q)

HandoffNext == Boot \/ Jump \/ Kernel \/ Fault

HandoffSpec == HandoffInit /\ [][HandoffNext]_handoffVars

-----------------------------------------------------------------------------
Intact(p) == \A f \in faults : f.at # p

\* What the builder's history says the lookups of an undamaged handoff return.
\* Only tags are compared, by address, so the parser's own notions of
\* soundness play no part.
FirstBuilt(id) ==
    LET found == SelectSeq(chain, LAMBDA p : golden[p].id = id)
    IN  IF found = << >> THEN 0 ELSE found[1]

BuiltUpTo(stop) ==
    LET stops == {i \in DOMAIN chain : golden[chain[i]].id \in stop}
    IN  IF stops = {} THEN chain
        ELSE SubSeq(chain, 1, CHOOSE i \in stops : \A j \in stops : i <= j)

\* Producer and consumer agree: without damage the kernel accepts the info
\* block and finds exactly the tags the loader allocated, in order, before and
\* after it adopts the HHDM offset; the two sides' separate size, alignment,
\* count and address limits never make it lose one.
HandoffIsFaithful ==
    faults = {} =>
        /\ st \in {"none", "ok"}
        /\ res.op = "find" => res.cur = FirstBuilt(res.id)
        /\ res.op = "each" => res.log = BuiltUpTo(res.stop)

\* A corrupt tag is never handed to a subsystem (bbp_kernel.h): at the moment
\* the parser delivers a tag, it is one the loader built and holds every field
\* the loader sealed, wherever damaged pointers led the walk.
OnlySealedTagsDelivered ==
    [][WalkDelivers =>
        w.cur \in DOMAIN golden /\ Content(mem[w.cur]) = Content(golden[w.cur])
      ]_handoffVars

\* Damage to tag bodies costs only the damaged tags: every other tag is still
\* delivered, once and in order, even when the damage happens during the walk.
BodyDamageIsContained ==
    (/\ \A f \in faults : f.kind = "body"
     /\ res.op = "each" /\ res.stop = {})
    => SelectSeq(res.log, Intact) = SelectSeq(chain, Intact)

\* STATUS.md on the boot-evidence stream: each validated tag exactly once.
EvidenceFeedsEachTagOnce ==
    res.op = "each" => \A i, j \in DOMAIN res.log : i # j => res.log[i] # res.log[j]

=============================================================================
