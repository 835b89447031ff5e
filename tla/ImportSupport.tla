----------------------------- MODULE ImportSupport -----------------------------
(***************************************************************************)
(* What the importers from other boot protocols share,                     *)
(* bootloader/bbp_import.c: range and framebuffer validation, and the plan *)
(* that predicts, before the builder is touched, what the builder will do. *)
(*                                                                         *)
(* A request is an allocation asked of the builder.  Early returns are a   *)
(* sequence of statuses, of which the first that is not "ok" is returned.  *)
(* Strings are their length and whether they are UTF-8 ending in the only  *)
(* NUL.                                                                    *)
(***************************************************************************)
EXTENDS BbpBuilder, Status

CONSTANTS
    MaxDim,     \* BBP_IMPORT_U16_MAX, the largest width and height
    PageSize    \* 4096

ASSUME SupportAssumption == MaxDim \in Nat /\ PageSize \in Nat \ {0}

MaxArena == MaxInfo - InfoSize   \* BBP_IMPORT_MAX_ARENA

If(condition, verdict) == IF condition THEN verdict ELSE "ok"

PhysAddressValid(address, allowZero) ==
    (allowZero \/ address # 0) /\ address < MaxPhys

PhysRangeValid(base, length) ==
    length # 0 /\ base < MaxPhys /\ base + length <= MaxPhys

RangesOverlap(a, aBytes, c, cBytes) ==
    \/ a + aBytes > SizeMax \/ c + cBytes > SizeMax
    \/ a < c + cBytes /\ c < a + aBytes

\* The arena is identity-mapped, so its address is also the physical one.
InArena(at, bytes) ==
    RangesOverlap(at, bytes, IF b.arena THEN b.phys ELSE 0, b.cap)

-----------------------------------------------------------------------------
(* The plan *)

Tag(id, size) == [kind |-> "tag", id |-> id, size |-> size]
Blob(size) == [kind |-> "blob", id |-> "none", size |-> size]

PlanBeginOk ==
    /\ b.arena /\ ~b.overflow /\ b.used <= b.cap /\ b.used <= MaxArena
    /\ b.count <= MaxTags
    /\ b.phys # 0 /\ b.phys % Align = 0
    /\ b.phys < MaxPhys /\ b.cap <= MaxPhys - b.phys
    /\ IF b.count = 0 THEN b.last = 0 /\ b.first = 0
       ELSE /\ b.last # 0 /\ b.first # 0 /\ b.first % Align = 0
            /\ b.phys <= b.first /\ b.first - b.phys < b.used
            /\ b.phys <= b.last /\ b.last % Align = 0
            /\ b.last - b.phys + HeaderSize <= b.used
            /\ mem[b.last].next = 0

\* plan_allocation, when the plan has reached offset used
PlanAllocation(used, bytes) ==
    LET end == AlignUp(used) + bytes IN
    FirstError(<<If(used + 7 > SizeMax \/ end > SizeMax, "overflow"),
                 If(end > b.cap \/ end > MaxArena, "capacity"),
                 If(b.phys + end > SizeMax, "overflow")>>)

\* bbp_import_plan_tag and bbp_import_plan_blob
PlanStatus(used, count, r) ==
    IF r.kind = "tag"
    THEN FirstError(<<If(r.size \notin HeaderSize .. MaxTag, "count"),
                      If(count >= MaxTags, "count"),
                      PlanAllocation(used, r.size)>>)
    ELSE FirstError(<<If(r.size = 0, "range"), PlanAllocation(used, r.size)>>)

\* The offset and the number of tags after every request, and the error of the
\* first request that fails; after an error the plan is not looked at any more.
Plan(requests) ==
    LET n == Len(requests)
        used[i \in 0 .. n] ==
            IF i = 0 THEN b.used ELSE AlignUp(used[i - 1]) + requests[i].size
        count(i) == b.count + Len(SelectSeq(SubSeq(requests, 1, i),
                                            LAMBDA r : r.kind = "tag"))
    IN  [used |-> used[n], count |-> count(n),
         status |-> FirstError([i \in 1 .. n |->
                        PlanStatus(used[i - 1], count(i - 1), requests[i])])]

\* The size and the verdict of bbp_import_array_tag_size.
ArraySize(fixed, count, element) == fixed + count * element

ArrayCheck(fixed, count, element) ==
    FirstError(<<If(count > (SizeMax - fixed) \div element, "overflow"),
                 If(ArraySize(fixed, count, element) > MaxTag, "count")>>)

-----------------------------------------------------------------------------
(* Validation of strings and framebuffers *)

ValidateString(s) ==
    IF s.at = 0 \/ s.bytes = 0 \/ ~s.valid THEN "string" ELSE "ok"

Formats == {"RGB888", "RGBA8888", "BGRA8888", "RGB565", "RGBA1010102", "FP16"}

BytesPerPixel(format) ==
    CASE format = "RGB888" -> 3
      [] format \in {"RGBA8888", "BGRA8888", "RGBA1010102"} -> 4
      [] format = "RGB565" -> 2
      [] format = "FP16" -> 8

Depth(format) ==
    CASE format \in {"RGB888", "RGBA8888", "BGRA8888"} -> 8
      [] format = "RGB565" -> 5
      [] format = "RGBA1010102" -> 10
      [] format = "FP16" -> 16

Rotations == {"rotated90", "rotated180", "rotated270"}

ValidateFramebuffer(fb) ==
    IF fb.format \notin Formats THEN "unsupported"
    ELSE FirstError(
        <<If(fb.depth # Depth(fb.format), "unsupported"),
          If(fb.width \notin 1 .. MaxDim \/ fb.height \notin 1 .. MaxDim, "range"),
          If(fb.pitch < fb.width * BytesPerPixel(fb.format), "range"),
          If(fb.total < fb.pitch * fb.height
             \/ ~PhysRangeValid(fb.address, fb.total), "range"),
          If(fb.flags \ (Rotations \cup {"double"}) # {}, "flags"),
          If(\E p, q \in fb.flags \cap Rotations : p # q, "flags")>>)

=============================================================================
