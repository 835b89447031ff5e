------------------------------ MODULE BbpKernel ------------------------------
(***************************************************************************)
(* The kernel's defensive parser, kernel/bbp_kernel.c: it validates the    *)
(* info block, then looks tags up by walking physical next_tag pointers    *)
(* through memory it does not trust.  A walk is modelled one iteration at  *)
(* a time; the consumer may start any lookup when none is running.         *)
(***************************************************************************)
EXTENDS BbpWire

CONSTANTS
    Hints,     \* hhdm_hint arguments
    Windows,   \* <<walk_lo, walk_hi>> arguments of bbp_init_win and of
               \* bbp_set_walk_window
    Arenas,    \* <<arena_phys, arena_bytes>> arguments of bbp_init_bounded
    StopSets   \* sets of identifiers at which a callback stops the walk

ASSUME KernelAssumption ==
    /\ Hints \subseteq Nat
    /\ Windows \subseteq Nat \X Nat
    /\ Arenas \subseteq Nat \X Nat
    /\ StopSets \subseteq SUBSET Ids

VARIABLES
    k,        \* the consumer's struct bbp_kctx
    w,        \* the call in progress and its locals
    st,       \* what the last initializer returned
    res,      \* the lookup that returned last, and what it returned
    touched   \* history: spans the last call dereferenced, with its context

kernelVars == <<k, w, st, res, touched>>

NoCtx == [set |-> FALSE, hhdm |-> 0, lo |-> 0, hi |-> 0]
Ctx(hint, lo, hi) == [set |-> TRUE, hhdm |-> hint, lo |-> lo, hi |-> hi]

Idle == [op |-> "idle", id |-> HHDM, ctx |-> NoCtx, cur |-> 0, steps |-> 0,
         stop |-> {}, log |-> << >>]

KernelInit ==
    /\ k = NoCtx /\ w = Idle /\ st = "none" /\ res = Idle /\ touched = {}

-----------------------------------------------------------------------------
\* The gates in front of every dereference.

TagLenOk(t) == t.size \in HeaderSize .. MaxTag

TagPtrOk(p) == p # 0 /\ p % Align = 0

AddressRegionOk(ctx, p, len) ==
    /\ p # 0 /\ len # 0
    /\ len <= MaxPhys /\ p + len <= MaxPhys
    /\ p + ctx.hhdm <= SizeMax
    /\ p + ctx.hhdm + len <= SizeMax

\* Fault: only the start of the span is compared with the window.
WindowOkStart(ctx, p, len) == ctx.hi > ctx.lo => ctx.lo <= p /\ p < ctx.hi

\* Fault: a span that ends with the window is refused.
WindowOkStrict(ctx, p, len) ==
    ctx.hi > ctx.lo => ctx.lo <= p /\ p < ctx.hi /\ p + len < ctx.hi

WindowOk(ctx, p, len) ==
    ctx.hi > ctx.lo => ctx.lo <= p /\ p < ctx.hi /\ p + len <= ctx.hi

TagRegionOk(ctx, p, len) == AddressRegionOk(ctx, p, len) /\ WindowOk(ctx, p, len)

HeaderReadable(ctx, p) == TagPtrOk(p) /\ TagRegionOk(ctx, p, HeaderSize)

TagAt(ctx, p) ==
    /\ HeaderReadable(ctx, p)
    /\ TagLenOk(Read(p))
    /\ TagRegionOk(ctx, p, Read(p).size)

InfoStatus(i) ==
    IF ~i.magic THEN "magic"
    ELSE IF i.major # VersionMajor THEN "version"
    ELSE IF i.size < InfoSize \/ i.size > MaxInfo THEN "size"
    ELSE IF ~InfoCrcOk(i) THEN "checksum"
    ELSE "ok"

-----------------------------------------------------------------------------
\* Calls.  Each starts a walk from info->first_tag, re-read on every call.

Walk(op, id, ctx, stop) ==
    [op |-> op, id |-> id, ctx |-> ctx, cur |-> info.first, steps |-> 0,
     stop |-> stop, log |-> << >>]

Ready == w.op = "idle"

\* bbp_init_win writes *out before it validates anything.
InitWin(hint, lo, hi) ==
    /\ Ready
    /\ k' = Ctx(hint, lo, hi)
    /\ IF InfoStatus(info) = "ok"
       THEN w' = Walk("initwin", HHDM, Ctx(hint, lo, hi), {}) /\ UNCHANGED st
       ELSE st' = InfoStatus(info) /\ UNCHANGED w
    /\ touched' = {} /\ res' = Idle
    /\ UNCHANGED <<mem, info>>

ArenaOk(phys, bytes) ==
    phys # 0 /\ bytes # 0 /\ bytes <= MaxPhys /\ phys + bytes <= MaxPhys

\* bbp_init_bounded works on a candidate and refuses an empty window.
InitBounded(hint, phys, bytes) ==
    LET status == IF ArenaOk(phys, bytes) THEN InfoStatus(info) ELSE "size"
    IN
    /\ Ready
    /\ IF status = "ok"
       THEN /\ w' = Walk("initbounded", HHDM, Ctx(hint, phys, phys + bytes), {})
            /\ UNCHANGED st
       ELSE st' = status /\ UNCHANGED w
    /\ touched' = {} /\ res' = Idle
    /\ UNCHANGED <<mem, info, k>>

SetWalkWindow(lo, hi) ==
    /\ Ready
    /\ k' = [k EXCEPT !.lo = lo, !.hi = hi]
    /\ touched' = {} /\ res' = Idle
    /\ UNCHANGED <<mem, info, w, st>>

FindTag(id) ==
    /\ Ready /\ k.set
    /\ w' = Walk("find", id, k, {})
    /\ touched' = {} /\ res' = Idle
    /\ UNCHANGED <<mem, info, k, st>>

ForEachTag(stop) ==
    /\ Ready /\ k.set
    /\ w' = Walk("each", HHDM, k, stop)
    /\ touched' = {} /\ res' = Idle
    /\ UNCHANGED <<mem, info, k, st>>

\* bbp_evidence feeds a fixed prefix and then every tag bbp_for_each_tag hands
\* over; its callback never stops the walk.
Evidence == ForEachTag({})

-----------------------------------------------------------------------------
\* One iteration of the loop of bbp_find_tag and bbp_for_each_tag.

Walking == w.op # "idle"
Finding == w.op \in {"initwin", "initbounded", "find"}
InLoop == w.cur # 0 /\ w.steps < MaxTags
Tag == Read(w.cur)

\* bbp_find_tag checks the CRC of a matching tag only.
Matches == Finding => Tag.id = w.id
\* Fault: the CRC is not checked.
DeliversUnchecked == Matches

Delivers == Matches /\ CrcOk(Tag)

Span(p, len) == [lo |-> p, hi |-> p + len, ctx |-> w.ctx]

\* What bbp_tag_at, and then the CRC, read at the cursor.
Dereferenced ==
    (IF InLoop /\ HeaderReadable(w.ctx, w.cur)
     THEN {Span(w.cur, HeaderSize)} ELSE {})
    \cup (IF InLoop /\ TagAt(w.ctx, w.cur) /\ Matches
          THEN {Span(w.cur, Tag.size)} ELSE {})

\* bbp_init_win adopts the offset of a complete HHDM tag when it had no hint.
Adopted(at) ==
    IF w.ctx.hhdm = 0 /\ at # 0 /\ Read(at).size >= HhdmSize
    THEN [w.ctx EXCEPT !.hhdm = Read(at).body]
    ELSE w.ctx

\* The call returns with the tags in log; at is what bbp_find_tag found.
Return(at, log) ==
    /\ w' = Idle
    /\ IF w.op \in {"initwin", "initbounded"}
       THEN k' = Adopted(at) /\ st' = "ok" /\ UNCHANGED res
       ELSE res' = [w EXCEPT !.cur = at, !.log = log] /\ UNCHANGED <<k, st>>

WalkEnds ==
    /\ Walking
    /\ ~(InLoop /\ TagAt(w.ctx, w.cur))
    /\ Return(0, w.log)
    /\ touched' = touched \cup Dereferenced
    /\ UNCHANGED <<mem, info>>

\* Fault: skipped tags do not count against the bound.
WalkSkipsUncounted ==
    /\ Walking /\ InLoop /\ TagAt(w.ctx, w.cur)
    /\ ~Delivers
    /\ w' = [w EXCEPT !.cur = Tag.next]
    /\ touched' = touched \cup Dereferenced
    /\ UNCHANGED <<mem, info, k, st, res>>

\* Fault: the first tag that is not delivered ends the walk.
WalkSkipsNothing ==
    /\ Walking /\ InLoop /\ TagAt(w.ctx, w.cur)
    /\ ~Delivers
    /\ Return(0, w.log)
    /\ touched' = touched \cup Dereferenced
    /\ UNCHANGED <<mem, info>>

WalkSkips ==
    /\ Walking /\ InLoop /\ TagAt(w.ctx, w.cur)
    /\ ~Delivers
    /\ w' = [w EXCEPT !.cur = Tag.next, !.steps = @ + 1]
    /\ touched' = touched \cup Dereferenced
    /\ UNCHANGED <<mem, info, k, st, res>>

WalkDelivers ==
    /\ Walking /\ InLoop /\ TagAt(w.ctx, w.cur)
    /\ Delivers
    /\ LET log == Append(w.log, w.cur) IN
       IF Finding \/ Tag.id \in w.stop
       THEN Return(w.cur, log)
       ELSE /\ w' = [w EXCEPT !.cur = Tag.next, !.steps = @ + 1, !.log = log]
            /\ UNCHANGED <<k, st, res>>
    /\ touched' = touched \cup Dereferenced
    /\ UNCHANGED <<mem, info>>

WalkStep == WalkEnds \/ WalkSkips \/ WalkDelivers

KernelNext ==
    \/ \E hint \in Hints, x \in Windows : InitWin(hint, x[1], x[2])
    \/ \E hint \in Hints, x \in Arenas : InitBounded(hint, x[1], x[2])
    \/ \E x \in Windows : SetWalkWindow(x[1], x[2])
    \/ \E id \in Ids : FindTag(id)
    \/ \E stop \in StopSets : ForEachTag(stop)
    \/ Evidence
    \/ WalkStep

\* A call that has started runs on: the parser blocks on nothing.
KernelFairness == WF_<<mem, info, kernelVars>>(WalkStep)

-----------------------------------------------------------------------------
\* Whatever the pointers and sizes in memory say, every byte the parser reads
\* lies below the physical limit, translates without wrapping and, when the
\* caller gave a walk window, lies inside it (ADR-0009).
ReadsStayInBounds ==
    \A e \in touched :
        /\ 0 < e.lo /\ e.lo < e.hi /\ e.hi <= MaxPhys
        /\ e.hi + e.ctx.hhdm <= SizeMax
        /\ e.ctx.hi > e.ctx.lo => e.ctx.lo <= e.lo /\ e.hi <= e.ctx.hi

\* Reference definition of a lookup over unchanging memory.  The path visits
\* first_tag and follows next_tag through structurally sound tags, at most
\* MaxTags of them; the tags that carry their CRC are the accepted ones.
Path(ctx) ==
    LET at[i \in 1 .. MaxTags + 1] ==
            IF i = 1 THEN info.first
            ELSE IF TagAt(ctx, at[i - 1]) THEN Read(at[i - 1]).next ELSE 0
        sound == {i \in 1 .. MaxTags : \A j \in 1 .. i : TagAt(ctx, at[j])}
    IN  [i \in sound |-> at[i]]

Accepted(ctx) == SelectSeq(Path(ctx), LAMBDA p : CrcOk(Read(p)))

\* The longest prefix of s in which only the last tag may stop the walk.
UpToStop(s, stop) ==
    LET stops == {i \in DOMAIN s : Read(s[i]).id \in stop}
    IN  IF stops = {} THEN s
        ELSE SubSeq(s, 1, CHOOSE i \in stops : \A j \in stops : i <= j)

FirstWithId(s, id) ==
    LET found == SelectSeq(s, LAMBDA p : Read(p).id = id)
    IN  IF found = << >> THEN 0 ELSE found[1]

\* bbp_find_tag and bbp_for_each_tag, which check CRCs at different points of
\* two separate loops, agree on one definition of the handoff's content: a
\* lookup returns the first accepted tag of its id, an iteration hands over
\* the accepted tags in chain order, and neither ever hands over another.
LookupsAgree ==
    /\ res.op = "find" => res.cur = FirstWithId(Accepted(res.ctx), res.id)
    /\ res.op = "each" => res.log = UpToStop(Accepted(res.ctx), res.stop)

\* Every call returns, cyclic chains included.
WalkTerminates == Walking ~> Ready

=============================================================================
