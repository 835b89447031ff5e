---------------------------- MODULE BbpKernelProofs ----------------------------
(***************************************************************************)
(* The parser over memory nobody vouches for: for every content of memory, *)
(* every limit and every window, what a lookup dereferences is in bounds,  *)
(* and no lookup visits more than MaxTags tags.                            *)
(***************************************************************************)
EXTENDS BbpKernel, TLAPS

\* Any bytes at all, read as tag headers and as an info block.
Untrusted ==
    /\ info.first \in Nat
    /\ \A p \in Nat : /\ Read(p).size \in Nat /\ Read(p).next \in Nat
                      /\ Read(p).body \in Nat

UntrustedSpec ==
    Untrusted /\ KernelInit /\ [][KernelNext]_<<mem, info, kernelVars>>

Context == [set : BOOLEAN, hhdm : Nat, lo : Nat, hi : Nat]

\* The cursor may be any number: it is the gates that keep the reads inside.
CursorInv ==
    /\ Untrusted
    /\ k \in Context
    /\ w.ctx \in Context /\ w.cur \in Nat
    /\ w.steps \in 0 .. MaxTags

\* A tag visited twice counts twice.
WalkIsBounded == w.steps <= MaxTags

KernelInv == CursorInv /\ ReadsStayInBounds

\* What bbp_tag_region_ok lets through may be read.
LEMMA RegionInBounds ==
    ASSUME NEW ctx \in Context, NEW p \in Nat, NEW len \in Nat, TagRegionOk(ctx, p, len)
    PROVE  /\ 0 < p /\ p < p + len /\ p + len <= MaxPhys
           /\ p + len + ctx.hhdm <= SizeMax
           /\ ctx.hi > ctx.lo => ctx.lo <= p /\ p + len <= ctx.hi
  BY WireAssumption DEF Context, TagRegionOk, AddressRegionOk, WindowOk

\* An iteration dereferences only what its gates let through.
LEMMA DereferencedInBounds ==
    ASSUME CursorInv
    PROVE  \A e \in Dereferenced :
               /\ 0 < e.lo /\ e.lo < e.hi /\ e.hi <= MaxPhys
               /\ e.hi + e.ctx.hhdm <= SizeMax
               /\ e.ctx.hi > e.ctx.lo => e.ctx.lo <= e.lo /\ e.hi <= e.ctx.hi
<1> SUFFICES ASSUME NEW e \in Dereferenced
             PROVE  /\ 0 < e.lo /\ e.lo < e.hi /\ e.hi <= MaxPhys
                    /\ e.hi + e.ctx.hhdm <= SizeMax
                    /\ e.ctx.hi > e.ctx.lo => e.ctx.lo <= e.lo /\ e.hi <= e.ctx.hi
  OBVIOUS
<1>1. w.ctx \in Context /\ w.cur \in Nat /\ Tag.size \in Nat /\ HeaderSize \in Nat
  BY DEF CursorInv, Untrusted, Tag, HeaderSize
<1>2. PICK len \in Nat : e = Span(w.cur, len) /\ TagRegionOk(w.ctx, w.cur, len)
  <2>1. CASE e = Span(w.cur, HeaderSize) /\ HeaderReadable(w.ctx, w.cur)
    BY <1>1, <2>1 DEF HeaderReadable
  <2>2. CASE e = Span(w.cur, Tag.size) /\ TagAt(w.ctx, w.cur)
    BY <1>1, <2>2 DEF TagAt, Tag
  <2> QED
    BY <2>1, <2>2 DEF Dereferenced
<1>3. e.lo = w.cur /\ e.hi = w.cur + len /\ e.ctx = w.ctx
  BY <1>2 DEF Span
<1> QED
  BY <1>1, <1>2, <1>3, RegionInBounds

\* Every call and every iteration keeps the invariant.
LEMMA KernelNextInv == KernelInv /\ [KernelNext]_<<mem, info, kernelVars>> => KernelInv'
<1> SUFFICES ASSUME KernelInv, [KernelNext]_<<mem, info, kernelVars>> PROVE KernelInv'
  OBVIOUS
<1>1. CursorInv /\ ReadsStayInBounds
  BY DEF KernelInv
<1>2. UNCHANGED <<mem, info>>
  BY ZenonT(60) DEF KernelNext, InitWin, InitBounded, SetWalkWindow, FindTag, ForEachTag,
      Evidence,
         WalkStep, WalkEnds, WalkSkips, WalkDelivers
<1>3. Untrusted'
  BY <1>1, <1>2 DEF CursorInv, Untrusted, Read
<1>4. ASSUME NEW op, NEW id, NEW ctx \in Context, NEW stop
      PROVE  /\ Walk(op, id, ctx, stop).ctx \in Context
             /\ Walk(op, id, ctx, stop).cur \in Nat
             /\ Walk(op, id, ctx, stop).steps \in 0 .. MaxTags
  BY <1>1, WireAssumption DEF Walk, CursorInv, Untrusted
<1>5. ASSUME touched' = {}, k' \in Context,
             \/ w' = w
             \/ \E op, id, stop : \E ctx \in Context : w' = Walk(op, id, ctx, stop)
      PROVE  KernelInv'
  BY <1>1, <1>3, <1>4, <1>5 DEF KernelInv, CursorInv, ReadsStayInBounds
<1>6. ASSUME NEW hint \in Hints, NEW x \in Windows, InitWin(hint, x[1], x[2])
      PROVE  KernelInv'
  <2>1. Ctx(hint, x[1], x[2]) \in Context
    BY KernelAssumption DEF Ctx, Context
  <2> QED
    BY <1>5, <1>6, <2>1 DEF InitWin
<1>7. ASSUME NEW hint \in Hints, NEW x \in Arenas, InitBounded(hint, x[1], x[2])
      PROVE  KernelInv'
  <2>1. Ctx(hint, x[1], x[1] + x[2]) \in Context
    BY KernelAssumption DEF Ctx, Context
  <2> QED
    BY <1>1, <1>5, <1>7, <2>1 DEF InitBounded, CursorInv
<1>8. ASSUME NEW x \in Windows, SetWalkWindow(x[1], x[2]) PROVE KernelInv'
  <2>1. k' \in Context
    BY <1>1, <1>8, KernelAssumption, ZenonT(60) DEF SetWalkWindow, CursorInv, Context
  <2> QED
    BY <1>5, <1>8, <2>1 DEF SetWalkWindow
<1>9. ASSUME NEW id \in Ids, FindTag(id) PROVE KernelInv'
  BY <1>1, <1>5, <1>9 DEF FindTag, CursorInv
<1>10. ASSUME NEW stop, ForEachTag(stop) PROVE KernelInv'
  BY <1>1, <1>5, <1>10 DEF ForEachTag, CursorInv
<1>11. CASE WalkStep
  <2>1. touched' = touched \cup Dereferenced
    BY <1>11 DEF WalkStep, WalkEnds, WalkSkips, WalkDelivers
  <2>2. ReadsStayInBounds'
    BY <1>1, <2>1, DereferencedInBounds DEF ReadsStayInBounds
  <2>3. ASSUME NEW at \in Nat, NEW log, Return(at, log)
        PROVE  /\ k' \in Context /\ w'.ctx \in Context
               /\ w'.cur \in Nat /\ w'.steps \in 0 .. MaxTags
    <3>1. Read(at).body \in Nat
      BY <1>1 DEF CursorInv, Untrusted
    <3>2. Adopted(at) \in Context
      BY <1>1, <3>1 DEF Adopted, CursorInv, Context
    <3> QED
      BY SMTT(30), <1>1, <2>3, <3>2, WireAssumption
        DEF Return, Idle, NoCtx, Context, CursorInv
  <2>4. ASSUME InLoop,
               k' = k, w'.ctx = w.ctx, w'.cur = Tag.next, w'.steps = w.steps + 1
        PROVE  /\ k' \in Context /\ w'.ctx \in Context
               /\ w'.cur \in Nat /\ w'.steps \in 0 .. MaxTags
    BY <1>1, <2>4, WireAssumption DEF InLoop, CursorInv, Untrusted, Tag
  <2>5. CASE WalkEnds
    BY <1>3, <2>2, <2>3, <2>5 DEF WalkEnds, KernelInv, CursorInv
  <2>6. CASE WalkSkips
    BY <1>3, <2>2, <2>4, <2>6 DEF WalkSkips, KernelInv, CursorInv
  <2>7. CASE WalkDelivers
    <3>1. CASE Return(w.cur, Append(w.log, w.cur))
      BY <1>1, <1>3, <2>2, <2>3, <3>1 DEF KernelInv, CursorInv
    <3>2. CASE /\ w' = [w EXCEPT !.cur = Tag.next, !.steps = @ + 1,
                                 !.log = Append(w.log, w.cur)]
               /\ UNCHANGED <<k, st, res>>
      BY <1>3, <2>2, <2>4, <2>7, <3>2 DEF WalkDelivers, KernelInv, CursorInv
    <3> QED
      BY <2>7, <3>1, <3>2 DEF WalkDelivers
  <2> QED
    BY <1>11, <2>5, <2>6, <2>7 DEF WalkStep
<1>12. CASE UNCHANGED <<mem, info, kernelVars>>
  BY <1>1, <1>3, <1>12 DEF kernelVars, KernelInv, CursorInv, ReadsStayInBounds
<1> QED
  BY <1>6, <1>7, <1>8, <1>9, <1>10, <1>11, <1>12 DEF KernelNext, Evidence

\* The invariant holds in every reachable state of the parser.
THEOREM KernelSafe == UntrustedSpec => []KernelInv
<1>1. Untrusted /\ KernelInit => KernelInv
  BY WireAssumption
  DEF KernelInit, KernelInv, CursorInv, ReadsStayInBounds, NoCtx, Idle, Context
<1> QED
  BY <1>1, KernelNextInv, PTL DEF UntrustedSpec

\* Whatever memory holds, bbp_find_tag, bbp_for_each_tag and the initializers
\* read below the physical limit, without address wrap and inside the window.
THEOREM ReadsAlwaysInBounds == UntrustedSpec => []ReadsStayInBounds
<1>1. KernelInv => ReadsStayInBounds
  BY DEF KernelInv
<1> QED
  BY <1>1, KernelSafe, PTL

\* Whatever loops the next_tag pointers form, the walks of bbp_find_tag and
\* bbp_for_each_tag make at most MaxTags steps.
THEOREM WalksAreBounded == UntrustedSpec => []WalkIsBounded
<1>1. KernelInv => WalkIsBounded
  BY WireAssumption DEF KernelInv, CursorInv, WalkIsBounded
<1> QED
  BY <1>1, KernelSafe, PTL
=============================================================================
