--------------------------- MODULE BbpBuilderProofs ---------------------------
(***************************************************************************)
(* Proofs about the tag builder for every arena, every limit and every     *)
(* sequence of client calls.                                               *)
(***************************************************************************)
EXTENDS BbpBuilder, TLAPS

\* What arena_bump's rounding does: the least multiple of eight not below n.
LEMMA AlignUpFacts ==
    ASSUME NEW n \in Nat
    PROVE  /\ AlignUp(n) \in Nat
           /\ n <= AlignUp(n)
           /\ AlignUp(n) % Align = 0
  BY DEF AlignUp, Align

\* An aligned offset into an aligned arena is an aligned address.
LEMMA AlignedSum ==
    ASSUME NEW m \in Nat, NEW n \in Nat, m % Align = 0, n % Align = 0
    PROVE  (m + n) % Align = 0
  BY DEF Align

-----------------------------------------------------------------------------
\* AllocationsDisjoint, strengthened: allocations end where the used part of
\* the arena ends, and an arena that was accepted is usable.
Layout ==
    /\ b.used <= b.cap
    /\ b.arena /\ ~b.overflow => b.phys > 0 /\ b.phys % Align = 0
    /\ \A e \in extents :
        /\ b.phys <= e.lo /\ e.lo < e.hi
        /\ e.hi <= b.phys + b.used /\ e.hi <= MaxPhys
    /\ \A e, f \in extents : e # f => e.hi <= f.lo \/ f.hi <= e.lo
    /\ \A i \in DOMAIN chain :
        [lo |-> chain[i], hi |-> chain[i] + mem[chain[i]].size] \in extents

\* SealedIsComplete, strengthened by what finalize's loop has done so far: the
\* cursor is at the j-th tag (or at the end) and all tags before it are sealed.
SealProgress ==
    /\ phase = "sealing" =>
        /\ b.used + InfoSize <= MaxInfo
        /\ \E j \in 1 .. Len(chain) + 1 :
            /\ cur = IF j = Len(chain) + 1 THEN 0 ELSE chain[j]
            /\ \A i \in 1 .. j - 1 : CrcOk(mem[chain[i]])
    /\ SealedIsComplete

Inv == TypeOK /\ ChainWellFormed /\ Layout /\ SealProgress

\* bbp_builder_init establishes the invariant on any arena, usable or not.
LEMMA InitInv == Init => Inv
  <1> SUFFICES ASSUME Init PROVE Inv
    OBVIOUS
  <1> USE WireAssumption, BuilderAssumption
  <1>0. PICK arena \in BOOLEAN, phys \in ArenaPhys, cap \in Capacities :
            BuilderInit(arena, phys, cap)
    BY DEF Init
  <1>1. TypeOK
    BY <1>0 DEF BuilderInit, TypeOK, Builder, Info, BlankInfo, NoCrc, BadArena
  <1>2. ChainWellFormed
    BY <1>0 DEF BuilderInit, ChainWellFormed
  <1>3. Layout
    BY <1>0 DEF BuilderInit, Layout, BadArena
  <1>4. SealProgress
    BY <1>0 DEF BuilderInit, SealProgress, SealedIsComplete
  <1> QED
    BY <1>1, <1>2, <1>3, <1>4 DEF Inv

-----------------------------------------------------------------------------
\* Distinct positions of the chain are distinct addresses.
LEMMA ChainInjective ==
    ASSUME TypeOK, ChainWellFormed,
           NEW i \in DOMAIN chain, NEW j \in DOMAIN chain, chain[i] = chain[j]
    PROVE  i = j
  <1> /\ DOMAIN chain = 1 .. Len(chain) /\ Len(chain) \in Nat
      /\ i \in Nat /\ j \in Nat
    BY SMTT(60) DEF TypeOK
  <1>0. /\ chain[i] \in Nat /\ chain[j] \in Nat
        /\ mem[chain[i]].size \in HeaderSize .. MaxTag
        /\ mem[chain[j]].size \in HeaderSize .. MaxTag
    BY ZenonT(60) DEF TypeOK, ChainWellFormed
  <1>1. /\ mem[chain[i]].size \in Nat /\ mem[chain[i]].size > 0
        /\ mem[chain[j]].size \in Nat /\ mem[chain[j]].size > 0
    BY SMTT(60), <1>0, WireAssumption DEF HeaderSize
  <1>2. /\ i < j => chain[i] + mem[chain[i]].size <= chain[j]
        /\ j < i => chain[j] + mem[chain[j]].size <= chain[i]
    BY ZenonT(60) DEF ChainWellFormed
  <1> QED
    BY <1>0, <1>1, <1>2

\* Steps that change no more than the bodies and checksums of existing tags
\* leave the layout of the arena as it was.
LEMMA RewriteKeepsLayout ==
    ASSUME TypeOK, ChainWellFormed, Layout,
           UNCHANGED <<b, chain, extents>>,
           DOMAIN mem' = DOMAIN mem,
           \A p \in DOMAIN mem : /\ mem'[p].size = mem[p].size
                                 /\ mem'[p].next = mem[p].next
    PROVE  ChainWellFormed' /\ Layout'
  <1>1. \A i \in 1 .. Len(chain) : chain[i] \in DOMAIN mem
    BY DEF ChainWellFormed
  <1>2. DOMAIN chain = 1 .. Len(chain)
    BY DEF TypeOK
  <1>3. ChainWellFormed'
    BY ZenonT(60), <1>1 DEF ChainWellFormed
  <1>4. Layout'
    BY <1>1, <1>2 DEF Layout
  <1> QED
    BY <1>3, <1>4

\* A sealed tag is a well-typed tag that carries its CRC.
LEMMA SealedFacts ==
    ASSUME NEW c \in Cell
    PROVE  /\ Sealed(c) \in Cell /\ CrcOk(Sealed(c))
           /\ Sealed(c).size = c.size /\ Sealed(c).next = c.next
  BY DEF Sealed, Cell, Content, CrcOk, NoCrc

\* Sealing the info block keeps its type.
LEMMA SealedInfoFacts ==
    ASSUME NEW i \in Info
    PROVE  SealedInfo(i) \in Info
  BY SMTT(60) DEF SealedInfo, Info, InfoContent, NoCrc

\* A request that is refused, and a finalize that fails, only set the flag.
LEMMA OverflowKeepsInv ==
    ASSUME Inv, b' = [b EXCEPT !.overflow = TRUE],
           UNCHANGED <<mem, info, phase, cur, chain, extents>>,
           ret' \in {"none", "ok", "failed"}
    PROVE  Inv'
  <1> USE DEF Inv
  <1>1. TypeOK'
    BY ZenonT(60) DEF TypeOK, Builder
  <1>2. /\ b'.used = b.used /\ b'.cap = b.cap /\ b'.phys = b.phys
        /\ b'.first = b.first /\ b'.last = b.last /\ b'.count = b.count
        /\ b'.overflow = TRUE
    BY DEF TypeOK, Builder
  <1>3. ChainWellFormed'
    BY <1>2 DEF ChainWellFormed
  <1>4. Layout'
    BY <1>2 DEF Layout
  <1>5. SealProgress'
    BY <1>2 DEF SealProgress, SealedIsComplete
  <1> QED
    BY <1>1, <1>3, <1>4, <1>5

-----------------------------------------------------------------------------
\* Where the next allocation goes when arena_bump grants it: an aligned
\* address above everything handed out so far, below both limits.
LEMMA BumpFacts ==
    ASSUME Inv, NEW len \in Nat, BumpOk(len)
    PROVE  /\ BumpAt \in Nat /\ BumpAt > 0 /\ BumpAt % Align = 0
           /\ b.phys + b.used <= BumpAt
           /\ b.phys <= BumpAt
           /\ Bumped(len) \in Builder
           /\ BumpAt + len = b.phys + Bumped(len).used
           /\ b.used <= Bumped(len).used
           /\ Bumped(len).used <= b.cap
           /\ BumpAt + len <= MaxPhys
           /\ b.arena /\ ~b.overflow
  <1> b \in Builder
    BY DEF Inv, TypeOK
  <1>1. b.used \in Nat /\ b.phys \in Nat /\ b.cap \in Nat
    BY DEF Builder
  <1>2. /\ AlignUp(b.used) \in Nat
        /\ b.used <= AlignUp(b.used)
        /\ AlignUp(b.used) % Align = 0
    BY <1>1, AlignUpFacts
  <1>3. b.arena /\ ~b.overflow
    BY DEF BumpOk
  <1>4. b.phys > 0 /\ b.phys % Align = 0
    BY <1>3 DEF Inv, Layout
  <1>5. BumpAt % Align = 0
    BY <1>1, <1>2, <1>4, AlignedSum DEF BumpAt
  <1>6. Bumped(len) \in Builder /\ Bumped(len).used = AlignUp(b.used) + len
    BY <1>2 DEF Bumped, Builder
  <1>7. AlignUp(b.used) + len <= b.cap /\ b.phys + AlignUp(b.used) + len <= MaxPhys
    BY DEF BumpOk
  <1> QED
    BY <1>1, <1>2, <1>3, <1>4, <1>5, <1>6, <1>7, WireAssumption DEF BumpAt

\* A new extent above the used part of the arena keeps extents disjoint.
LEMMA NewExtent ==
    ASSUME Inv, NEW len \in Nat, len > 0, BumpOk(len),
           b'.used = Bumped(len).used, b'.cap = b.cap, b'.phys = b.phys,
           b'.arena = b.arena, b'.overflow = b.overflow,
           extents' = extents \cup {Extent(len)}
    PROVE  /\ b'.used <= b'.cap
           /\ b'.arena /\ ~b'.overflow => b'.phys > 0 /\ b'.phys % Align = 0
           /\ \A e \in extents' :
                /\ b'.phys <= e.lo /\ e.lo < e.hi
                /\ e.hi <= b'.phys + b'.used /\ e.hi <= MaxPhys
           /\ \A e, f \in extents' : e # f => e.hi <= f.lo \/ f.hi <= e.lo
  <1> DEFINE n == Extent(len)
  <1>1. /\ b.used \in Nat /\ b.phys \in Nat /\ b.cap \in Nat
        /\ b'.used \in Nat
        /\ \A e \in extents : e.lo \in Nat /\ e.hi \in Nat
    BY ZenonT(60), BumpFacts DEF Inv, TypeOK, Builder
  <1>2. n.lo = BumpAt /\ n.hi = BumpAt + len
    BY DEF Extent
  <1>3. /\ b.phys <= n.lo /\ n.lo < n.hi
        /\ n.hi <= b'.phys + b'.used /\ n.hi <= MaxPhys
        /\ n.lo \in Nat /\ n.hi \in Nat
        /\ b.phys + b.used <= n.lo
    BY <1>1, <1>2, BumpFacts
  <1>4. \A e \in extents :
          /\ b'.phys <= e.lo /\ e.lo < e.hi
          /\ e.hi <= b'.phys + b'.used /\ e.hi <= MaxPhys
          /\ e.hi <= n.lo
    <2> SUFFICES ASSUME NEW e \in extents
                 PROVE  /\ b'.phys <= e.lo /\ e.lo < e.hi
                        /\ e.hi <= b'.phys + b'.used /\ e.hi <= MaxPhys
                        /\ e.hi <= n.lo
      OBVIOUS
    <2>1. /\ b.phys <= e.lo /\ e.lo < e.hi
          /\ e.hi <= b.phys + b.used /\ e.hi <= MaxPhys
      BY DEF Inv, Layout
    <2> QED
      BY <2>1, <1>1, <1>3, BumpFacts
  <1>5. \A e, f \in extents : e # f => e.hi <= f.lo \/ f.hi <= e.lo
    BY DEF Inv, Layout
  <1>6. b'.used <= b'.cap /\ (b'.arena /\ ~b'.overflow => b'.phys > 0 /\ b'.phys % Align = 0)
    BY BumpFacts DEF Inv, Layout
  <1> HIDE DEF n
  <1> QED
    BY <1>3, <1>4, <1>5, <1>6 DEF n

-----------------------------------------------------------------------------
\* bbp_arena_blob and bbp_arena_strdup_n: one more extent, or the flag.
LEMMA ArenaBlobKeepsInv ==
    ASSUME Inv, NEW len \in Nat, ArenaBlob(len)
    PROVE  Inv'
  <1>1. CASE ~BumpOk(len)
    <2>1. Refuse
      BY <1>1 DEF ArenaBlob
    <2>2. ret \in {"none", "ok", "failed"}
      BY DEF Inv, TypeOK
    <2> QED
      BY <2>1, <2>2, OverflowKeepsInv DEF Refuse
  <1>2. CASE BumpOk(len)
    <2>1. /\ len > 0 /\ b' = Bumped(len) /\ extents' = extents \cup {Extent(len)}
          /\ UNCHANGED <<mem, info, phase, cur, ret, chain>> /\ phase # "sealing"
      BY <1>2 DEF ArenaBlob, Call
    <2>2. /\ b \in Builder /\ b' \in Builder
          /\ b'.used \in Nat /\ b.used \in Nat /\ b.phys \in Nat
          /\ b.used <= b'.used
      BY <1>2, <2>1, BumpFacts DEF Inv, TypeOK, Builder
    <2>3. /\ b'.cap = b.cap /\ b'.phys = b.phys /\ b'.arena = b.arena
          /\ b'.overflow = b.overflow /\ b'.first = b.first
          /\ b'.last = b.last /\ b'.count = b.count
      BY <2>1, <2>2 DEF Bumped, Builder
    <2>4. TypeOK'
      <3>1. Extent(len) \in [lo : Nat, hi : Nat]
        BY <1>2, BumpFacts DEF Extent
      <3> QED
        BY <2>1, <2>2, <3>1 DEF Inv, TypeOK
    <2>5. ChainWellFormed'
      <3>1. \A i \in 1 .. Len(chain) :
                chain[i] + mem[chain[i]].size <= b'.phys + b'.used
        <4> SUFFICES ASSUME NEW i \in 1 .. Len(chain)
                     PROVE  chain[i] + mem[chain[i]].size <= b.phys + b'.used
          BY <2>3
        <4>1. chain[i] + mem[chain[i]].size <= b.phys + b.used
          BY ZenonT(60) DEF Inv, ChainWellFormed
        <4>2. chain[i] \in Nat /\ mem[chain[i]].size \in Nat
          BY ZenonT(60) DEF Inv, ChainWellFormed, TypeOK, Cell
        <4> QED
          BY SMTT(30), <4>1, <4>2, <2>2
      <3> QED
        BY <2>1, <2>3, <3>1 DEF Inv, ChainWellFormed
    <2>6. Layout'
      <3>1. \A i \in DOMAIN chain' :
              [lo |-> chain'[i], hi |-> chain'[i] + mem'[chain'[i]].size] \in extents'
        BY <2>1 DEF Inv, Layout
      <3> QED
        BY <1>2, <2>1, <2>3, <3>1, NewExtent DEF Layout
    <2>7. SealProgress'
      BY <2>1, <2>3 DEF Inv, SealProgress, SealedIsComplete
    <2> QED
      BY <2>4, <2>5, <2>6, <2>7 DEF Inv
  <1> QED
    BY <1>1, <1>2

\* Filling a tag's body moves nothing; it reopens a sealed chain.
LEMMA WriteBodyKeepsInv ==
    ASSUME Inv, NEW i \in DOMAIN chain, NEW v \in Bodies, WriteBody(i, v)
    PROVE  Inv'
  <1>1. /\ mem' = [mem EXCEPT ![chain[i]].body = v] /\ phase' = "build"
        /\ UNCHANGED <<info, b, cur, ret, chain, extents>>
    BY DEF WriteBody
  <1>2. v \in Nat
    BY WireAssumption
  <1>3. /\ DOMAIN mem' = DOMAIN mem
        /\ \A p \in DOMAIN mem : /\ mem'[p] \in Cell
                                 /\ mem'[p].size = mem[p].size
                                 /\ mem'[p].next = mem[p].next
    BY ZenonT(60), <1>1, <1>2 DEF Inv, TypeOK, Cell
  <1>4. TypeOK'
    BY ZenonT(60), <1>1, <1>3 DEF Inv, TypeOK
  <1>5. ChainWellFormed' /\ Layout'
    BY <1>1, <1>3, RewriteKeepsLayout DEF Inv
  <1>6. SealProgress'
    BY <1>1 DEF SealProgress, SealedIsComplete
  <1> QED
    BY <1>4, <1>5, <1>6 DEF Inv

\* Sealing one tag, early or in finalize's loop.
LEMMA SealOneFacts ==
    ASSUME Inv, NEW q \in DOMAIN mem, mem' = [mem EXCEPT ![q] = Sealed(@)],
           UNCHANGED <<info, b, ret, chain, extents>>, cur' \in Nat,
           phase' \in {"build", "sealing", "sealed"}
    PROVE  /\ TypeOK' /\ ChainWellFormed' /\ Layout'
           /\ CrcOk(mem'[q])
           /\ \A p \in DOMAIN mem : CrcOk(mem[p]) => CrcOk(mem'[p])
  <1>1. /\ DOMAIN mem' = DOMAIN mem
        /\ mem'[q] = Sealed(mem[q])
        /\ \A p \in DOMAIN mem : p # q => mem'[p] = mem[p]
    OBVIOUS
  <1>2. \A p \in DOMAIN mem : mem[p] \in Cell
    BY DEF Inv, TypeOK
  <1>3. \A p \in DOMAIN mem : /\ mem'[p] \in Cell
                              /\ mem'[p].size = mem[p].size
                              /\ mem'[p].next = mem[p].next
                              /\ CrcOk(mem[p]) => CrcOk(mem'[p])
    BY <1>1, <1>2, SealedFacts
  <1>4. CrcOk(mem'[q])
    BY <1>1, <1>2, SealedFacts
  <1>5. ChainWellFormed' /\ Layout'
    BY <1>1, <1>3, RewriteKeepsLayout DEF Inv
  <1>6. TypeOK'
    BY <1>1, <1>3 DEF Inv, TypeOK
  <1> QED
    BY <1>3, <1>4, <1>5, <1>6

\* bbp_seal_tag, at any time outside finalize.
LEMMA SealTagKeepsInv ==
    ASSUME Inv, NEW i \in DOMAIN chain, SealTag(i)
    PROVE  Inv'
  <1>1. /\ mem' = [mem EXCEPT ![chain[i]] = Sealed(@)] /\ phase # "sealing"
        /\ UNCHANGED <<info, b, phase, cur, ret, chain, extents>>
    BY DEF SealTag, Call
  <1>2. DOMAIN chain = 1 .. Len(chain)
    BY SMTT(60) DEF Inv, TypeOK
  <1>3. \A j \in DOMAIN chain : chain[j] \in DOMAIN mem
    BY ZenonT(60), <1>2 DEF Inv, ChainWellFormed
  <1>4. cur' \in Nat /\ phase' \in {"build", "sealing", "sealed"}
    BY <1>1 DEF Inv, TypeOK
  <1>5. /\ TypeOK' /\ ChainWellFormed' /\ Layout'
        /\ \A p \in DOMAIN mem : CrcOk(mem[p]) => CrcOk(mem'[p])
    BY ZenonT(60), <1>1, <1>3, <1>4, SealOneFacts
  <1>6. SealProgress'
    BY <1>1, <1>3, <1>5 DEF Inv, SealProgress, SealedIsComplete
  <1> QED
    BY <1>5, <1>6 DEF Inv

-----------------------------------------------------------------------------
\* finalize's checks passed: the loop starts with nothing sealed behind it.
LEMMA FinalizeStartKeepsInv ==
    ASSUME Inv, FinalizeStart
    PROVE  Inv'
  <1>1. /\ phase' = "sealing" /\ cur' = b.first
        /\ UNCHANGED <<mem, info, b, ret, chain, extents>>
        /\ b.used + InfoSize <= MaxInfo
    BY DEF FinalizeStart, FinalizeOk
  <1>2. TypeOK'
    BY <1>1 DEF Inv, TypeOK, Builder
  <1>3. ChainWellFormed' /\ Layout'
    BY ZenonT(60), <1>1 DEF Inv, ChainWellFormed, Layout
  <1>4. Len(chain) \in Nat
    BY DEF Inv, TypeOK
  <1>5. SealProgress'
    <2>1. cur' = IF 1 = Len(chain) + 1 THEN 0 ELSE chain[1]
      BY <1>1, <1>4 DEF Inv, ChainWellFormed
    <2>2. 1 \in 1 .. Len(chain) + 1 /\ \A i \in 1 .. 1 - 1 : CrcOk(mem'[chain[i]])
      BY <1>4
    <2> QED
      BY <1>1, <2>1, <2>2 DEF SealProgress, SealedIsComplete
  <1> QED
    BY <1>2, <1>3, <1>5 DEF Inv

\* One iteration of finalize's loop seals the tag at the cursor.
LEMMA FinalizeSealKeepsInv ==
    ASSUME Inv, FinalizeSeal
    PROVE  Inv'
  <1> DEFINE n == Len(chain)
  <1>1. /\ mem' = [mem EXCEPT ![cur] = Sealed(@)] /\ cur' = mem[cur].next
        /\ phase = "sealing" /\ cur # 0
        /\ UNCHANGED <<info, b, phase, ret, chain, extents>>
    BY DEF FinalizeSeal
  <1>2. n \in Nat /\ DOMAIN chain = 1 .. n
    BY DEF Inv, TypeOK
  <1>3. PICK j \in 1 .. n + 1 :
            /\ cur = IF j = n + 1 THEN 0 ELSE chain[j]
            /\ \A i \in 1 .. j - 1 : CrcOk(mem[chain[i]])
    BY <1>1 DEF Inv, SealProgress
  <1>4. j \in 1 .. n /\ cur = chain[j]
    BY <1>1, <1>2, <1>3
  <1>5. \A i \in 1 .. n : chain[i] \in DOMAIN mem
    BY DEF Inv, ChainWellFormed
  <1>6. mem[cur].next = IF j = n THEN 0 ELSE chain[j + 1]
    BY SMTT(60), <1>4 DEF Inv, ChainWellFormed
  <1>7. cur \in DOMAIN mem /\ cur' \in Nat /\ phase' \in {"build", "sealing", "sealed"}
    BY SMTT(30), <1>1, <1>4, <1>5 DEF Inv, TypeOK, Cell
  <1>8. /\ TypeOK' /\ ChainWellFormed' /\ Layout' /\ CrcOk(mem'[cur])
        /\ \A p \in DOMAIN mem : CrcOk(mem[p]) => CrcOk(mem'[p])
    BY ZenonT(60), <1>1, <1>7, SealOneFacts
  <1>9. SealProgress'
    <2>1. j + 1 \in 1 .. n + 1 /\ (j + 1 = n + 1 <=> j = n)
      <3>1. n \in Nat /\ j \in 1 .. n
        BY <1>2, <1>4
      <3> HIDE DEF n
      <3> QED
        BY <3>1
    <2>4. cur' = IF j + 1 = n + 1 THEN 0 ELSE chain[j + 1]
      BY <1>1, <1>6, <2>1
    <2>2. \A i \in 1 .. (j + 1) - 1 : CrcOk(mem'[chain[i]])
      <3> SUFFICES ASSUME NEW i \in 1 .. (j + 1) - 1 PROVE CrcOk(mem'[chain[i]])
        OBVIOUS
      <3>1. i = j \/ i \in 1 .. j - 1
        BY <1>2, <1>4
      <3>2. i \in 1 .. n
        BY <1>2, <1>4
      <3> QED
        BY <3>1, <3>2, <1>3, <1>4, <1>5, <1>8
    <2>3. b'.used + InfoSize <= MaxInfo
      BY <1>1 DEF Inv, SealProgress
    <2> QED
      BY SMTT(60), <1>1, <2>1, <2>2, <2>3, <2>4 DEF SealProgress, SealedIsComplete
  <1> QED
    BY <1>8, <1>9 DEF Inv

\* The loop has run off the chain: every tag is sealed, the info is written.
LEMMA FinalizeEndKeepsInv ==
    ASSUME Inv, FinalizeEnd
    PROVE  Inv'
  <1> DEFINE n == Len(chain)
  <1>1. /\ phase = "sealing" /\ cur = 0 /\ info' = FinalInfo
        /\ phase' = "sealed" /\ ret' = "ok"
        /\ UNCHANGED <<mem, b, cur, chain, extents>>
    BY DEF FinalizeEnd
  <1>2. n \in Nat /\ DOMAIN chain = 1 .. n /\ b \in Builder /\ b.used \in Nat
        /\ b.count \in Nat /\ b.first \in Nat
    BY DEF Inv, TypeOK, Builder
  <1>3. PICK j \in 1 .. n + 1 :
            /\ cur = IF j = n + 1 THEN 0 ELSE chain[j]
            /\ \A i \in 1 .. j - 1 : CrcOk(mem[chain[i]])
    BY <1>1 DEF Inv, SealProgress
  <1>4. j = n + 1
    <2>1. \A i \in 1 .. n : chain[i] \in Nat /\ chain[i] > 0
      BY ZenonT(60), <1>2 DEF Inv, TypeOK, ChainWellFormed
    <2> QED
      BY SMTT(60), <1>1, <1>2, <1>3, <2>1
  <1>5. \A i \in DOMAIN chain : CrcOk(mem[chain[i]])
    BY <1>2, <1>3, <1>4
  <1>6. /\ InfoCrcOk(FinalInfo) /\ FinalInfo.magic
        /\ FinalInfo.major = VersionMajor /\ FinalInfo.count = b.count
        /\ FinalInfo.first = b.first /\ FinalInfo.size = InfoSize + b.used
    BY ZenonT(60) DEF FinalInfo, SealedInfo, InfoContent, InfoCrcOk
  <1>7. FinalInfo \in Info
    <2> DEFINE raw == [magic |-> TRUE, major |-> VersionMajor,
                       size |-> InfoSize + b.used, count |-> b.count,
                       first |-> b.first, crc |-> NoCrc]
    <2>1. raw \in Info
      BY <1>2 DEF Info, InfoSize, VersionMajor
    <2>2. FinalInfo = SealedInfo(raw)
      BY DEF FinalInfo
    <2> HIDE DEF raw
    <2> QED
      BY <2>1, <2>2, SealedInfoFacts
  <1>8. TypeOK'
    BY <1>1, <1>7 DEF Inv, TypeOK
  <1>9. ChainWellFormed' /\ Layout'
    BY ZenonT(60), <1>1 DEF Inv, ChainWellFormed, Layout
  <1>10. SealProgress'
    <2>1. b.count = n
      BY DEF Inv, ChainWellFormed
    <2>2. InfoSize + b.used <= MaxInfo
      BY <1>1, <1>2 DEF Inv, SealProgress, InfoSize
    <2> QED
      BY <1>1, <1>5, <1>6, <2>1, <2>2 DEF SealProgress, SealedIsComplete
  <1> QED
    BY <1>8, <1>9, <1>10 DEF Inv

-----------------------------------------------------------------------------
\* bbp_alloc_tag appends at the end: old tags keep size, body and checksum,
\* only the previous last one gets its pointer.
LEMMA AllocTagKeepsInv ==
    ASSUME Inv, NEW id \in Ids, NEW size \in Nat, AllocTag(id, size)
    PROVE  Inv'
  <1> DEFINE n == Len(chain)
             at == BumpAt
  <1> USE WireAssumption
  <1>1. /\ size \in HeaderSize .. MaxTag /\ b.count < MaxTags /\ BumpOk(size)
        /\ mem' = Put(Linked(at), at, NewTag(id, size))
        /\ b' = [Bumped(size) EXCEPT !.last = at,
                                     !.first = IF b.last = 0 THEN at ELSE b.first,
                                     !.count = b.count + 1]
        /\ chain' = Append(chain, at) /\ extents' = extents \cup {Extent(size)}
        /\ phase' = "build" /\ UNCHANGED <<info, cur, ret>>
    BY DEF AllocTag, TagRequestOk
  <1>2. /\ at \in Nat /\ at > 0 /\ at % Align = 0
        /\ b.phys + b.used <= at /\ b.phys <= at
        /\ Bumped(size) \in Builder
        /\ at + size = b.phys + Bumped(size).used
        /\ b.used <= Bumped(size).used
    BY <1>1, BumpFacts
  <1>3. /\ n \in Nat /\ chain \in Seq(Nat) /\ DOMAIN chain = 1 .. n
        /\ b \in Builder /\ b.used \in Nat /\ b.phys \in Nat /\ b.count \in Nat
        /\ b.first \in Nat /\ b.last \in Nat
    BY DEF Inv, TypeOK, Builder
  <1>4. b' \in Builder
    <2>1. (IF b.last = 0 THEN at ELSE b.first) \in Nat /\ b.count + 1 \in Nat
      BY SMTT(60), <1>2, <1>3
    <2> HIDE DEF at
    <2> QED
      BY ZenonT(60), <1>1, <1>2, <2>1 DEF Builder
  <1>5. /\ b'.used = Bumped(size).used /\ b'.cap = b.cap /\ b'.phys = b.phys
        /\ b'.arena = b.arena /\ b'.overflow = b.overflow
        /\ b'.last = at /\ b'.count = b.count + 1
        /\ b'.first = IF b.last = 0 THEN at ELSE b.first
    BY <1>1, <1>2, <1>3 DEF Builder, Bumped
  <1>6. /\ chain' \in Seq(Nat) /\ Len(chain') = n + 1
        /\ chain'[n + 1] = at
        /\ \A i \in 1 .. n : chain'[i] = chain[i]
    BY <1>1, <1>2, <1>3
  <1>7. /\ b.count = n
        /\ b.first = (IF n = 0 THEN 0 ELSE chain[1])
        /\ b.last = (IF n = 0 THEN 0 ELSE chain[n])
        /\ DOMAIN mem = {chain[i] : i \in 1 .. n}
        /\ \A i \in 1 .. n :
            /\ chain[i] \in Nat /\ chain[i] > 0 /\ chain[i] % Align = 0
            /\ chain[i] \in DOMAIN mem /\ mem[chain[i]] \in Cell
            /\ mem[chain[i]].size \in HeaderSize .. MaxTag
            /\ b.phys <= chain[i]
            /\ chain[i] + mem[chain[i]].size <= b.phys + b.used
            /\ mem[chain[i]].next = (IF i = n THEN 0 ELSE chain[i + 1])
        /\ \A i, j \in 1 .. n : i < j => chain[i] + mem[chain[i]].size <= chain[j]
    BY ZenonT(60), <1>3 DEF Inv, TypeOK, ChainWellFormed
  <1> HIDE DEF n, at
  <1>8. \A i \in 1 .. n : /\ mem[chain[i]].size \in Nat /\ mem[chain[i]].size > 0
                          /\ chain[i] + mem[chain[i]].size <= at
                          /\ chain[i] # at
    <2> SUFFICES ASSUME NEW i \in 1 .. n
                 PROVE  /\ mem[chain[i]].size \in Nat /\ mem[chain[i]].size > 0
                        /\ chain[i] + mem[chain[i]].size <= at
                        /\ chain[i] # at
      OBVIOUS
    <2>1. mem[chain[i]].size \in Nat /\ mem[chain[i]].size > 0
      BY SMTT(60), <1>7 DEF HeaderSize
    <2>2. chain[i] \in Nat /\ chain[i] + mem[chain[i]].size <= b.phys + b.used
      BY <1>7
    <2>3. at \in Nat /\ b.phys + b.used <= at /\ b.phys + b.used \in Nat
      BY SMTT(60), <1>2, <1>3
    <2>4. chain[i] + mem[chain[i]].size <= at
      BY <2>1, <2>2, <2>3
    <2>5. chain[i] # at
      BY <2>1, <2>2, <2>3, <2>4
    <2> QED
      BY <2>1, <2>4, <2>5
  \* The memory after the step.
  <1>9. /\ DOMAIN mem' = DOMAIN mem \cup {at}
        /\ mem'[at] = NewTag(id, size)
        /\ \A i \in 1 .. n :
             /\ mem'[chain[i]] \in Cell
             /\ mem'[chain[i]].size = mem[chain[i]].size
             /\ mem'[chain[i]].next = IF i = n THEN at ELSE chain[i + 1]
    <2>1. CASE n = 0
      BY <1>1, <1>7, <2>1 DEF Linked, Put
    <2>2. CASE n # 0
      <3>a. n \in 1 .. n
        BY <1>3, <2>2
      <3>b. b.last = chain[n]
        BY SMTT(60), <1>7, <2>2
      <3>c. chain[n] \in Nat /\ chain[n] > 0 /\ chain[n] \in DOMAIN mem
        BY <1>7, <3>a
      <3>1. n \in 1 .. n /\ b.last = chain[n] /\ b.last # 0 /\ b.last \in DOMAIN mem
        BY <3>a, <3>b, <3>c
      <3>2. Linked(at) = [mem EXCEPT ![b.last].next = at]
        BY <3>1 DEF Linked
      <3>3. DOMAIN Linked(at) = DOMAIN mem
        BY <3>2
      <3>4. /\ DOMAIN mem' = DOMAIN mem \cup {at}
            /\ mem'[at] = NewTag(id, size)
            /\ \A p \in DOMAIN mem : p # at => mem'[p] = Linked(at)[p]
        BY SMTT(60), <1>1, <3>3 DEF Put
      <3>5. \A i \in 1 .. n : mem'[chain[i]] = Linked(at)[chain[i]]
        BY <1>7, <1>8, <3>4
      <3>6. \A i \in 1 .. n : i # n => chain[i] # chain[n]
        BY ZenonT(60), <3>1, <1>3, ChainInjective DEF Inv
      <3>7. /\ Linked(at)[chain[n]] \in Cell
            /\ Linked(at)[chain[n]].size = mem[chain[n]].size
            /\ Linked(at)[chain[n]].next = at
        <4>1. mem[chain[n]] \in Cell
          BY <1>7, <3>1
        <4>2. Linked(at)[chain[n]] = [mem[chain[n]] EXCEPT !.next = at]
          BY <3>1, <3>2
        <4> QED
          BY <1>2, <4>1, <4>2 DEF Cell
      <3>8. \A i \in 1 .. n : i # n => Linked(at)[chain[i]] = mem[chain[i]]
        BY <1>7, <3>1, <3>2, <3>6
      <3> QED
        BY <1>7, <3>4, <3>5, <3>7, <3>8
    <2> QED
      BY <2>1, <2>2
  <1>10. /\ NewTag(id, size) \in Cell /\ NewTag(id, size).size = size
         /\ NewTag(id, size).next = 0
    BY DEF NewTag, Cell
  <1>11. TypeOK'
    <2>1. Extent(size) \in [lo : Nat, hi : Nat]
      BY SMTT(60), <1>1, <1>2 DEF Extent, at
    <2>2. DOMAIN mem' \subseteq Nat /\ \A p \in DOMAIN mem' : mem'[p] \in Cell
      BY SMTT(60), <1>2, <1>7, <1>9, <1>10
    <2> QED
      BY SMTT(30), <1>1, <1>4, <1>6, <2>1, <2>2 DEF Inv, TypeOK
  <1>12. ChainWellFormed'
    <2>1. /\ b'.count = n + 1 /\ n + 1 <= MaxTags
          /\ b'.last = chain'[n + 1]
      BY SMTT(60), <1>1, <1>3, <1>5, <1>6, <1>7
    <2>2. b'.first = chain'[1]
      BY SMTT(60), <1>3, <1>5, <1>6, <1>7
    <2>3. DOMAIN mem' = {chain'[i] : i \in 1 .. n + 1}
      <3>1. {chain'[i] : i \in 1 .. n + 1} = {chain'[i] : i \in 1 .. n} \cup {chain'[n + 1]}
        <4> 1 .. n + 1 = (1 .. n) \cup {n + 1}
          BY SMTT(30), <1>3
        <4> QED
          OBVIOUS
      <3>2. {chain'[i] : i \in 1 .. n} = {chain[i] : i \in 1 .. n}
        BY SMTT(60), <1>6
      <3> QED
        BY ZenonT(60), <1>6, <1>7, <1>9, <3>1, <3>2
    <2>4. ASSUME NEW i \in 1 .. n + 1
          PROVE  /\ chain'[i] % Align = 0 /\ chain'[i] > 0
                 /\ mem'[chain'[i]].size \in HeaderSize .. MaxTag
                 /\ b'.phys <= chain'[i]
                 /\ chain'[i] + mem'[chain'[i]].size <= b'.phys + b'.used
                 /\ mem'[chain'[i]].next = (IF i = n + 1 THEN 0 ELSE chain'[i + 1])
      <3>1. CASE i = n + 1
        BY SMTT(60), <1>1, <1>2, <1>5, <1>6, <1>9, <1>10, <3>1
      <3>2. CASE i \in 1 .. n
        <4>1. chain'[i] = chain[i] /\ mem'[chain'[i]].size = mem[chain[i]].size
          BY SMTT(60), <1>6, <1>9, <3>2
        <4>2. chain[i] + mem[chain[i]].size <= b'.phys + b'.used
          <5>1. chain[i] + mem[chain[i]].size <= at
            BY <1>8, <3>2
          <5>2. at <= b'.phys + b'.used
            BY SMTT(60), <1>1, <1>2, <1>5
          <5>3. chain[i] \in Nat /\ mem[chain[i]].size \in Nat
            BY ZenonT(60), <1>7, <1>8, <3>2
          <5>4. b'.phys \in Nat /\ b'.used \in Nat /\ at \in Nat
            BY <1>2, <1>4 DEF Builder
          <5> QED
            BY SMTT(60), <5>1, <5>2, <5>3, <5>4
        <4>3. mem'[chain'[i]].next = chain'[i + 1]
          <5>1. mem'[chain[i]].next = IF i = n THEN at ELSE chain[i + 1]
            BY <1>9, <3>2
          <5>2. CASE i = n
            BY <1>6, <4>1, <5>1, <5>2
          <5>3. CASE i # n
            <6>1. i + 1 \in 1 .. n
              BY <1>3, <3>2, <5>3
            <6> QED
              BY <1>6, <4>1, <5>1, <5>3, <6>1
          <5> QED
            BY <5>2, <5>3
        <4>4. i # n + 1
          BY SMTT(60), <1>3, <3>2
        <4> QED
          BY SMTT(60), <1>5, <1>7, <3>2, <4>1, <4>2, <4>3, <4>4
      <3> QED
        BY SMTT(60), <1>3, <3>1, <3>2
    <2>5. ASSUME NEW i \in 1 .. n + 1, NEW j \in 1 .. n + 1, i < j
          PROVE  chain'[i] + mem'[chain'[i]].size <= chain'[j]
      <3>1. i \in 1 .. n /\ (j = n + 1 \/ j \in 1 .. n)
        BY <1>3, <2>5
      <3>2. chain'[i] = chain[i] /\ mem'[chain'[i]].size = mem[chain[i]].size
        BY SMTT(30), <1>6, <1>9, <3>1
      <3> QED
        BY ZenonT(60), <1>6, <1>7, <1>8, <2>5, <3>1, <3>2
    <2>6. Len(chain') # 0
      BY <1>3, <1>6
    <2> QED
      BY <1>6, <2>1, <2>2, <2>3, <2>4, <2>5, <2>6 DEF ChainWellFormed
  <1>13. Layout'
    <2>1. size > 0
      BY <1>1 DEF HeaderSize
    <2>2. ASSUME NEW i \in 1 .. n + 1
          PROVE  [lo |-> chain'[i], hi |-> chain'[i] + mem'[chain'[i]].size] \in extents'
      <3>1. CASE i = n + 1
        BY SMTT(30), <1>1, <1>6, <1>9, <1>10, <3>1 DEF Extent, at
      <3>2. CASE i \in 1 .. n
        <4>1. chain'[i] = chain[i] /\ mem'[chain'[i]].size = mem[chain[i]].size
          BY SMTT(60), <1>6, <1>9, <3>2
        <4>2. [lo |-> chain[i], hi |-> chain[i] + mem[chain[i]].size] \in extents
          BY ZenonT(60), <1>3, <3>2 DEF Inv, Layout
        <4> QED
          BY <1>1, <4>1, <4>2
      <3> QED
        BY <1>3, <3>1, <3>2
    <2>3. DOMAIN chain' = 1 .. n + 1
      BY <1>3, <1>6
    <2> QED
      BY ZenonT(60), <1>1, <1>5, <2>1, <2>2, <2>3, NewExtent DEF Layout
  <1>14. SealProgress'
    BY <1>1 DEF SealProgress, SealedIsComplete
  <1> QED
    BY <1>11, <1>12, <1>13, <1>14 DEF Inv

\* Every step of the builder and its client keeps the invariant.
LEMMA NextInv == Inv /\ [Next]_vars => Inv'
  <1> SUFFICES ASSUME Inv, [Next]_vars PROVE Inv'
    OBVIOUS
  <1> USE WireAssumption, BuilderAssumption
  <1>0. ret \in {"none", "ok", "failed"}
    BY DEF Inv, TypeOK
  <1>1. ASSUME NEW id \in Ids, NEW size \in TagSizes, AllocTag(id, size) PROVE Inv'
    BY <1>1, AllocTagKeepsInv
  <1>2. ASSUME NEW size \in TagSizes, AllocTagFails(size) PROVE Inv'
    BY <1>0, <1>2, OverflowKeepsInv DEF AllocTagFails, Refuse
  <1>3. ASSUME NEW len \in BlobSizes, ArenaBlob(len) PROVE Inv'
    BY <1>3, ArenaBlobKeepsInv
  <1>4. ASSUME NEW len \in BlobSizes, ArenaStrdup(len) PROVE Inv'
    <2>1. len + 1 \in Nat
      OBVIOUS
    <2> QED
      BY <1>4, <2>1, ArenaBlobKeepsInv DEF ArenaStrdup
  <1>5. CASE BadSource
    BY <1>0, <1>5, OverflowKeepsInv DEF BadSource, Refuse
  <1>6. ASSUME NEW i \in DOMAIN chain, NEW v \in Bodies, WriteBody(i, v) PROVE Inv'
    BY <1>6, WriteBodyKeepsInv
  <1>7. ASSUME NEW i \in DOMAIN chain, SealTag(i) PROVE Inv'
    BY <1>7, SealTagKeepsInv
  <1>8. CASE FinalizeFails
    BY <1>8, OverflowKeepsInv DEF FinalizeFails
  <1>9. CASE FinalizeStart
    BY <1>9, FinalizeStartKeepsInv
  <1>10. CASE FinalizeSeal
    BY <1>10, FinalizeSealKeepsInv
  <1>11. CASE FinalizeEnd
    BY <1>11, FinalizeEndKeepsInv
  <1>12. CASE UNCHANGED vars
    <2>1. UNCHANGED <<mem, info, b, phase, cur, ret, chain, extents>>
      BY <1>12 DEF vars, buildVars
    <2>2. TypeOK'
      BY SMTT(60), <2>1 DEF Inv, TypeOK
    <2>3. ChainWellFormed'
      BY SMTT(60), <2>1 DEF Inv, ChainWellFormed
    <2>4. Layout'
      BY SMTT(60), <2>1 DEF Inv, Layout
    <2>5. SealProgress'
      BY ZenonT(60), <2>1 DEF Inv, SealProgress, SealedIsComplete
    <2> QED
      BY <2>2, <2>3, <2>4, <2>5 DEF Inv
  <1> QED
    BY <1>1, <1>2, <1>3, <1>4, <1>5, <1>6, <1>7, <1>8, <1>9, <1>10, <1>11, <1>12
       DEF Next, Finalizing

\* The invariant holds in every reachable state of the builder.
THEOREM InvHolds == Spec => []Inv
  BY InitInv, NextInv, PTL DEF Spec

\* The state of struct bbp_builder, the info block and the arena stays typed.
THEOREM TypeCorrect == Spec => []TypeOK
  <1>1. Inv => TypeOK
    BY DEF Inv
  <1> QED
    BY <1>1, InvHolds, PTL

\* For every arena and every sequence of calls, bbp_alloc_tag's next_tag
\* pointers spell out the allocation order, upwards, aligned and in bounds.
THEOREM ChainAlwaysWellFormed == Spec => []ChainWellFormed
  <1>1. Inv => ChainWellFormed
    BY DEF Inv
  <1> QED
    BY <1>1, InvHolds, PTL

\* arena_bump never hands out a byte twice, or one outside the arena.
THEOREM NeverOverlaps == Spec => []AllocationsDisjoint
  <1>1. Inv => AllocationsDisjoint
    <2> SUFFICES ASSUME Inv PROVE AllocationsDisjoint
      BY SMTT(60)
    <2>1. /\ b.phys \in Nat /\ b.used \in Nat /\ b.cap \in Nat
          /\ b.used <= b.cap /\ extents \subseteq [lo : Nat, hi : Nat]
      BY SMTT(60) DEF Inv, TypeOK, Builder, Layout
    <2>2. \A e \in extents : e.hi \in Nat /\ e.hi <= b.phys + b.used
      BY ZenonT(60), <2>1 DEF Inv, Layout
    <2>3. \A e \in extents : e.hi <= b.phys + b.cap
      BY <2>1, <2>2
    <2> QED
      BY ZenonT(60), <2>3 DEF Inv, Layout, AllocationsDisjoint
  <1> QED
    BY <1>1, InvHolds, PTL

\* bbp_builder_finalize only reports success over a completely sealed chain.
THEOREM SealedMeansComplete == Spec => []SealedIsComplete
  <1>1. Inv => SealedIsComplete
    BY DEF Inv, SealProgress
  <1> QED
    BY <1>1, InvHolds, PTL

-----------------------------------------------------------------------------
\* finalize's loop only runs over a builder that never refused a request.
CleanWhileSealing == phase = "sealing" => ~b.overflow

\* Once the overflow flag of bbp_builder is set it stays set, nothing more is
\* chained, and finalize never publishes.
THEOREM OverflowIsFinal == Spec => OverflowFailsClosed
  <1> DEFINE Closed == b.overflow => /\ b'.overflow
                                     /\ b'.used = b.used /\ b'.count = b.count
                                     /\ chain' = chain
                                     /\ phase # "sealed" => phase' # "sealed"
  <1>1. Init => CleanWhileSealing
    BY SMTT(60) DEF Init, BuilderInit, CleanWhileSealing
  <1>2. ASSUME TypeOK, CleanWhileSealing, [Next]_vars
        PROVE  CleanWhileSealing' /\ Closed
    <2> USE <1>2 DEF CleanWhileSealing
    <2>0. b \in Builder
      BY DEF TypeOK
    <2>1. ASSUME NEW id \in Ids, NEW size \in TagSizes, AllocTag(id, size)
          PROVE  CleanWhileSealing' /\ Closed
      BY <2>1 DEF AllocTag, TagRequestOk, BumpOk
    <2>2. ASSUME Refuse, phase # "sealing" PROVE CleanWhileSealing' /\ Closed
      BY <2>0, <2>2 DEF Refuse, Builder
    <2>3. ASSUME NEW len, ArenaBlob(len) PROVE CleanWhileSealing' /\ Closed
      <3>1. CASE BumpOk(len)
        BY ZenonT(60), <2>3, <3>1 DEF ArenaBlob, BumpOk, Call
      <3>2. CASE ~BumpOk(len)
        BY <2>2, <2>3, <3>2 DEF ArenaBlob, Call
      <3> QED
        BY SMTT(60), <3>1, <3>2
    <2>4. ASSUME NEW i \in DOMAIN chain, NEW v \in Bodies, WriteBody(i, v)
          PROVE  CleanWhileSealing' /\ Closed
      BY <2>4 DEF WriteBody
    <2>5. ASSUME NEW i \in DOMAIN chain, SealTag(i)
          PROVE  CleanWhileSealing' /\ Closed
      BY <2>5 DEF SealTag
    <2>6. CASE FinalizeFails
      BY <2>0, <2>6 DEF FinalizeFails, Call, Builder
    <2>7. CASE FinalizeStart
      BY <2>7 DEF FinalizeStart, FinalizeOk
    <2>8. CASE FinalizeSeal
      BY <2>8 DEF FinalizeSeal
    <2>9. CASE FinalizeEnd
      BY <2>9 DEF FinalizeEnd
    <2>10. CASE UNCHANGED vars
      BY <2>10 DEF vars, buildVars
    <2> QED
      BY ZenonT(60), <2>1, <2>2, <2>3, <2>4, <2>5, <2>6, <2>7, <2>8, <2>9, <2>10
         DEF Next, Finalizing, AllocTagFails, BadSource, ArenaStrdup, Call
  <1>3. TypeOK /\ CleanWhileSealing /\ [Next]_vars => CleanWhileSealing'
    BY <1>2
  <1>4. TypeOK /\ CleanWhileSealing /\ [Next]_vars => [Closed]_vars
    BY <1>2
  <1> HIDE DEF Closed
  <1>5. Spec => [][Closed]_vars
    BY <1>1, <1>3, <1>4, TypeCorrect, PTL DEF Spec
  <1> QED
    BY <1>5 DEF Closed, OverflowFailsClosed

=============================================================================
