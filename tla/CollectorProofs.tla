---------------------------- MODULE CollectorProofs ----------------------------
(***************************************************************************)
(* The measurement collector for every number of measurements, every arena *)
(* and every allocator behaviour the model knows, on top of the builder's  *)
(* invariant.  LogInv is about the TPM; PlanInv relates the plan that was  *)
(* made before the first extension to what the builder has done since.     *)
(***************************************************************************)
EXTENDS SecurityCollector, BbpBuilderProofs, SequenceTheorems

Measurement == Nat \X Nat

Places == {"idle", "extend", "blob", "blobcheck", "tag", "tagcheck"}

\* The locals are a record with these fields.
Locals ==
    sc = [pc |-> sc.pc, n |-> sc.n, i |-> sc.i, blob |-> sc.blob,
          blobEnd |-> sc.blobEnd, tag |-> sc.tag, tagEnd |-> sc.tagEnd,
          records |-> sc.records, got |-> sc.got, before |-> sc.before]

\* What the registers hold and no log has yet is in the call's own records.
LogInv ==
    /\ Locals /\ sc.pc \in Places
    /\ calls \in Nat /\ sc.i \in Nat
    /\ pcr \in Seq(Measurement) /\ published \in Seq(Measurement)
    /\ sc.records \in Seq(Measurement)
    /\ sc.pc = "extend" => Len(sc.records) = sc.i
    /\ ~Collecting => sc.records = << >>
    /\ Collecting => status = "none"
    /\ status # "aborted" => pcr = published \o sc.records

\* The log of a call grows at the end of the log of all calls.
LEMMA AppendToConcat ==
    \A s, t \in Seq(Measurement) : \A e \in Measurement :
        Append(s \o t, e) = s \o Append(t, e)
<1> SUFFICES ASSUME NEW s \in Seq(Measurement), NEW t \in Seq(Measurement),
                    NEW e \in Measurement
             PROVE  Append(s \o t, e) = s \o Append(t, e)
  BY ZenonT(60)
<1>1. <<e>> \in Seq(Measurement) /\ s \o t \in Seq(Measurement)
  OBVIOUS
<1>2. Append(s \o t, e) = (s \o t) \o <<e>> /\ Append(t, e) = t \o <<e>>
  BY <1>1, AppendIsConcat
<1>3. (s \o t) \o <<e>> = s \o (t \o <<e>>)
  BY SMTT(30), <1>1, ConcatAssociative
<1> QED
  BY SMTT(30), <1>2, <1>3

\* A call begins, an extension is logged, or the call ends.
LEMMA LogNext == LogInv /\ [CollectNext]_collectorVars => LogInv'
<1> SUFFICES ASSUME LogInv, [CollectNext]_collectorVars PROVE LogInv'
  OBVIOUS
<1> USE DEF LogInv, Locals, Places, Collecting
<1>1. ASSUME NEW n \in Counts, Rejected(n) PROVE LogInv'
  BY SMTT(30), <1>1 DEF Rejected, Invoke, Refusal, Resting
<1>2. ASSUME NEW n \in Counts, Begin(n) PROVE LogInv'
  BY SMTT(30), <1>2 DEF Begin, Invoke
<1>3. CASE Extend
  <2>1. <<calls, sc.i>> \in Measurement /\ sc.i + 1 \in Nat
    BY DEF Measurement
  <2>2. /\ sc'.i = sc.i + 1 /\ sc'.records = Append(sc.records, <<calls, sc.i>>)
        /\ sc'.pc \in {"blob", "extend"} /\ pcr' = Append(pcr, <<calls, sc.i>>)
        /\ UNCHANGED <<status, published, calls>> /\ Locals'
    BY <1>3, ZenonT(60) DEF Extend
  <2>3. /\ pcr' \in Seq(Measurement) /\ sc'.records \in Seq(Measurement)
        /\ Len(sc'.records) = Len(sc.records) + 1
    BY <2>1, <2>2
  <2>4. pcr = published \o sc.records => pcr' = published \o sc'.records
    <3>1. published \in Seq(Measurement) /\ sc.records \in Seq(Measurement)
      OBVIOUS
    <3>2. Append(published \o sc.records, <<calls, sc.i>>)
              = published \o Append(sc.records, <<calls, sc.i>>)
      BY <2>1, <3>1, AppendToConcat, ZenonT(60)
    <3> QED
      BY <2>2, <3>2, ZenonT(60)
  <2> QED
    BY <1>3, <2>1, <2>2, <2>3, <2>4, ZenonT(60) DEF Extend
<1>4. CASE ExtendFails
  BY <1>4 DEF ExtendFails, Finish, Resting
<1>5. CASE ZeroCrc
  BY <1>5 DEF ZeroCrc, Finish, Resting
<1>6. CASE AllocateBlob \/ AllocateTag
  <2>1. \E label \in {"blobcheck", "tagcheck"} : \E at : Allocated(label, at)
    BY <1>6 DEF AllocateBlob, AllocateTag
  <2> QED
    BY <1>6, <2>1, ZenonT(60) DEF AllocateBlob, AllocateTag, Allocated
<1>7. CASE Misallocate
  <2>1. \E label \in {"blobcheck", "tagcheck"} : \E at : Allocated(label, at)
    BY <1>7 DEF Misallocate
  <2> QED
    BY <1>7, <2>1, ZenonT(60) DEF Misallocate, Allocated
<1>8. CASE BlobChecked
  BY <1>8, ZenonT(60) DEF BlobChecked
<1>9. CASE RollBack
  BY <1>9 DEF RollBack, Finish, Resting
<1>10. CASE Publish
  BY SMTT(30), <1>10 DEF Publish, Finish, Resting
<1>11. CASE UNCHANGED collectVars
  BY <1>11 DEF collectVars
<1> QED
  BY <1>1, <1>2, <1>3, <1>4, <1>5, <1>6, <1>7, <1>8, <1>9, <1>10, <1>11, ZenonT(60)
  DEF CollectNext, CollectStep, LoaderCall, collectorVars

-----------------------------------------------------------------------------
MemoryOk == mem \in [DOMAIN mem -> Cell]

Old == sc.before.b

\* The plan: where blob and tag go, inside every limit, above all that is used.
PlanHolds ==
    /\ sc.before = [b |-> sc.before.b, mem |-> sc.before.mem,
                    chain |-> sc.before.chain, extents |-> sc.before.extents]
    /\ Old \in Builder /\ Old.arena /\ ~Old.overflow /\ Old.count < MaxTags
    /\ sc.n \in Nat \ {0}
    /\ sc.blob = AlignUp(Old.used) /\ sc.blobEnd = sc.blob + sc.n * RecordSize
    /\ sc.tag = AlignUp(sc.blobEnd) /\ sc.tagEnd = sc.tag + SecurityTagSize
    /\ sc.tagEnd <= Old.cap /\ sc.tagEnd + InfoSize <= MaxInfo
    /\ Old.phys + sc.tagEnd <= MaxPhys
    /\ sc.before.mem \in [DOMAIN sc.before.mem -> Cell]
    /\ DOMAIN sc.before.mem \subseteq Nat
    /\ IF Old.count = 0 THEN Old.last = 0 /\ Old.first = 0
       ELSE /\ Old.last # 0 /\ Old.last < Old.phys + Old.used
            /\ Old.last \in DOMAIN sc.before.mem /\ sc.before.mem[Old.last].next = 0

BlobBuilder == [Old EXCEPT !.used = sc.blobEnd]

TagAddress == Old.phys + sc.tag

\* Memory after a tag was allocated behind the blob.
WithTag(id) ==
    Put(IF Old.last = 0 THEN sc.before.mem
        ELSE [sc.before.mem EXCEPT ![Old.last].next = TagAddress],
        TagAddress, NewTag(id, SecurityTagSize))

\* How far the builder is from where the call found it.
PlanInv ==
    /\ Collecting => PlanHolds /\ phase # "sealing" /\ b.phys = Old.phys
    /\ sc.pc \in {"extend", "blob"} => Snapshot = sc.before
    /\ sc.pc \in {"blobcheck", "tag"} => mem = sc.before.mem
    /\ sc.pc = "blobcheck" /\ ~tampered =>
           b = BlobBuilder /\ sc.got = b.phys + sc.blob
    /\ sc.pc = "tag" => b = BlobBuilder
    /\ sc.pc = "tagcheck" => mem = sc.before.mem \/ \E id \in Ids : mem = WithTag(id)
    /\ sc.pc = "tagcheck" /\ ~tampered =>
           /\ phase = "build" /\ sc.got \in DOMAIN mem
           /\ TagAccepted /\ FinalizeOk

\* An allocator that broke its contract has been, or is about to be, caught.
TamperInv ==
    /\ tampered \in BOOLEAN
    /\ ~tampered => Inv /\ MemoryOk
    /\ tampered => \/ sc.pc = "blobcheck" /\ ~BlobAccepted
                   \/ sc.pc = "tagcheck" /\ ~TagAccepted
                   \/ ~Collecting /\ status = "aborted"

CollectInv == LogInv /\ PlanInv /\ TamperInv

\* The numbers of a plan: the old last tag, the blob and the tag, upwards.
LEMMA PlanNumbers ==
    ASSUME PlanHolds
    PROVE  /\ Old.used \in Nat /\ Old.phys \in Nat /\ Old.cap \in Nat
           /\ Old.count \in Nat /\ Old.last \in Nat /\ Old.first \in Nat
           /\ sc.blob \in Nat /\ sc.blobEnd \in Nat /\ sc.tag \in Nat /\ sc.tagEnd \in Nat
           /\ Old.used <= sc.blob /\ sc.blob + RecordSize <= sc.blobEnd
           /\ sc.blobEnd <= sc.tag /\ sc.tagEnd = sc.tag + SecurityTagSize
           /\ sc.n * RecordSize \in Nat \ {0} /\ sc.blobEnd = sc.blob + sc.n * RecordSize
           /\ TagAddress \in Nat /\ TagAddress > Old.last
<1>1. /\ Old.used \in Nat /\ Old.phys \in Nat /\ Old.cap \in Nat
      /\ Old.count \in Nat /\ Old.last \in Nat /\ Old.first \in Nat
  BY DEF PlanHolds, Builder
<1>2. sc.blob \in Nat /\ Old.used <= sc.blob
  BY <1>1, AlignUpFacts DEF PlanHolds
<1>3. /\ sc.n * RecordSize \in Nat \ {0} /\ sc.n * RecordSize >= RecordSize
      /\ sc.blobEnd = sc.blob + sc.n * RecordSize
  BY DEF PlanHolds, RecordSize
<1>4. sc.blobEnd \in Nat /\ sc.blob + RecordSize <= sc.blobEnd
  BY <1>2, <1>3 DEF RecordSize
<1>5. sc.tag \in Nat /\ sc.blobEnd <= sc.tag
  BY <1>4, AlignUpFacts DEF PlanHolds
<1>6. sc.tagEnd = sc.tag + SecurityTagSize /\ sc.tagEnd \in Nat
  BY <1>5 DEF PlanHolds, SecurityTagSize
<1>7. TagAddress \in Nat /\ TagAddress > Old.last
  <2>1. Old.last = 0 \/ Old.last < Old.phys + Old.used
    BY ZenonT(60) DEF PlanHolds
  <2> QED
    BY <1>1, <1>2, <1>4, <1>5, <2>1 DEF TagAddress, RecordSize
<1> QED
  BY <1>1, <1>2, <1>3, <1>4, <1>5, <1>6, <1>7

\* rollback_publish puts the arena back exactly as the call found it.
LEMMA RestoredExactly ==
    ASSUME PlanHolds, b.phys = Old.phys,
           mem = sc.before.mem \/ \E id \in Ids : mem = WithTag(id)
    PROVE  Restored = sc.before.mem
<1> DEFINE old == sc.before.mem
           Within(p) == b.phys + sc.blob <= p /\ p < b.phys + sc.tagEnd
           kept == [p \in {q \in DOMAIN mem : ~Within(q)}
                          \cup {q \in DOMAIN old : Within(q)} |->
                       IF Within(p) THEN old[p] ELSE mem[p]]
<1>1. /\ Within(TagAddress)
      /\ Old.last # 0 => ~Within(Old.last)
  <2>1. /\ Old.last # 0 => Old.last < Old.phys + Old.used
        /\ sc.tagEnd = sc.tag + SecurityTagSize
    BY ZenonT(60) DEF PlanHolds
  <2> QED
    BY <2>1, PlanNumbers DEF TagAddress, SecurityTagSize, RecordSize
<1>2. \A p : ~Within(p) => /\ p \in DOMAIN mem <=> p \in DOMAIN old
                           /\ p \in DOMAIN old /\ p # Old.last => mem[p] = old[p]
  BY <1>1 DEF WithTag, Put
<1>3. DOMAIN kept = DOMAIN old
  BY <1>2
<1>4. \A p \in DOMAIN old : p # Old.last => kept[p] = old[p]
  BY <1>2, <1>3
<1>5. Restored = IF Old.last = 0 THEN kept ELSE [kept EXCEPT ![Old.last].next = 0]
  BY ZenonT(60) DEF Restored, Old
<1> HIDE DEF kept
<1>6. CASE Old.last = 0
  <2>1. \A p \in DOMAIN old : kept[p] = old[p]
    BY <1>1, <1>6 DEF WithTag, Put, kept
  <2>2. kept = old
    BY <1>3, <2>1, ZenonT(60) DEF PlanHolds, kept
  <2> QED
    BY <1>5, <1>6, <2>2
<1>7. CASE Old.last # 0
  <2>1. Old.last \in DOMAIN old /\ old[Old.last] \in Cell /\ old[Old.last].next = 0
    BY <1>7, ZenonT(60) DEF PlanHolds
  <2>2. \/ kept[Old.last] = old[Old.last]
        \/ kept[Old.last] = [old[Old.last] EXCEPT !.next = TagAddress]
    BY <1>1, <1>3, <1>7, <2>1, ZenonT(60) DEF WithTag, Put, kept
  <2>3. [kept[Old.last] EXCEPT !.next = 0] = old[Old.last]
    BY ZenonT(60), <2>1, <2>2 DEF Cell
  <2>4. [kept EXCEPT ![Old.last].next = 0] = old
    BY <1>3, <1>4, <2>1, <2>3, ZenonT(60) DEF PlanHolds, kept
  <2> QED
    BY <1>5, <1>7, <2>4
<1> QED
  BY <1>6, <1>7, ZenonT(60)

-----------------------------------------------------------------------------
\* Memory stays a table of tags when a tag in it is rewritten.
LEMMA RewriteIsMemory ==
    ASSUME MemoryOk, Inv', NEW q, NEW c,
           mem' = [mem EXCEPT ![q] = c] \/ mem' = mem
    PROVE  MemoryOk'
<1>1. \A p \in DOMAIN mem' : mem'[p] \in Cell
  BY DEF Inv, TypeOK
<1> QED
  BY <1>1 DEF MemoryOk

\* And when one is added.
LEMMA PutIsMemory ==
    ASSUME Inv', NEW m, NEW q, NEW c, mem' = Put(m, q, c)
    PROVE  MemoryOk'
<1>1. \A p \in DOMAIN mem' : mem'[p] \in Cell
  BY DEF Inv, TypeOK
<1> QED
  BY <1>1 DEF MemoryOk, Put

\* The loader's own calls of the builder keep the builder's invariant.
LEMMA LoaderCallKeeps ==
    ASSUME Inv, MemoryOk, Next
    PROVE  Inv' /\ MemoryOk'
<1>1. Inv'
  BY NextInv
<1> USE <1>1
<1>2. ASSUME NEW id \in Ids, NEW size \in TagSizes, AllocTag(id, size) PROVE MemoryOk'
  BY <1>2, PutIsMemory DEF AllocTag
<1>3. ASSUME mem' = mem PROVE MemoryOk'
  BY <1>3, RewriteIsMemory
<1>4. ASSUME NEW i \in DOMAIN chain, NEW v \in Bodies, WriteBody(i, v) PROVE MemoryOk'
  <2>1. mem' = [mem EXCEPT ![chain[i]] = [mem[chain[i]] EXCEPT !.body = v]]
    BY <1>4 DEF WriteBody
  <2> QED
    BY <2>1, RewriteIsMemory, ZenonT(60)
<1>5. ASSUME NEW i \in DOMAIN chain, SealTag(i) PROVE MemoryOk'
  <2>1. mem' = [mem EXCEPT ![chain[i]] = Sealed(mem[chain[i]])]
    BY <1>5 DEF SealTag
  <2> QED
    BY <2>1, RewriteIsMemory, ZenonT(60)
<1>6. ASSUME FinalizeSeal PROVE MemoryOk'
  <2>1. mem' = [mem EXCEPT ![cur] = Sealed(mem[cur])]
    BY <1>6 DEF FinalizeSeal
  <2> QED
    BY <2>1, RewriteIsMemory, ZenonT(60)
<1>7. ASSUME NEW len, ArenaBlob(len) PROVE mem' = mem
  BY <1>7 DEF ArenaBlob, Refuse
<1>8. ASSUME BadSource \/ FinalizeFails \/ FinalizeStart \/ FinalizeEnd PROVE mem' = mem
  BY <1>8 DEF BadSource, Refuse, FinalizeFails, FinalizeStart, FinalizeEnd
<1>9. ASSUME NEW size, AllocTagFails(size) PROVE mem' = mem
  BY <1>9 DEF AllocTagFails, Refuse
<1> QED
  BY <1>1, <1>2, <1>3, <1>4, <1>5, <1>6, <1>7, <1>8, <1>9 DEF Next, Finalizing,
      ArenaStrdup

\* The validation before the first TPM operation makes a plan that holds.
LEMMA BeginPlans ==
    ASSUME Inv, MemoryOk, NEW n \in Nat, Begin(n)
    PROVE  PlanHolds' /\ Snapshot' = sc'.before /\ b'.phys = Old'.phys
<1>1. /\ n \in 1 .. MaxMeasurements /\ BuilderValid /\ PlanFits(n)
      /\ UNCHANGED vars
  BY DEF Begin, Invoke, Refusal
<1>2. UNCHANGED <<b, mem, chain, extents>>
  BY <1>1 DEF vars, buildVars
<1>3. /\ sc'.n = n /\ sc'.blob = BlobStart /\ sc'.blobEnd = BlobEnd(n)
      /\ sc'.tag = TagStart(n) /\ sc'.tagEnd = TagEnd(n)
      /\ sc'.before = Snapshot
  BY DEF Begin
<1>4. /\ Old' = b /\ sc'.before.mem = mem /\ Snapshot' = Snapshot
  BY <1>2, <1>3 DEF Old, Snapshot
<1>5. /\ b \in Builder /\ b.used \in Nat /\ b.phys \in Nat /\ b.count \in Nat
      /\ b.last \in Nat /\ b.first \in Nat /\ DOMAIN mem \subseteq Nat
  BY DEF Inv, TypeOK, Builder
<1>6. IF b.count = 0 THEN b.last = 0 /\ b.first = 0
      ELSE /\ b.last # 0 /\ b.last < b.phys + b.used /\ mem[b.last].next = 0
  BY <1>1, <1>5 DEF BuilderValid, HeaderSize
<1>7. b.count # 0 => b.last \in DOMAIN mem
  BY <1>5 DEF Inv, ChainWellFormed
<1>8. /\ TagEnd(n) <= b.cap /\ TagEnd(n) + InfoSize <= MaxInfo
      /\ b.phys + TagEnd(n) <= MaxPhys /\ b.count < MaxTags
  <2>1. TagEnd(n) \in Nat
    <3>1. BlobEnd(n) \in Nat
      BY <1>5, AlignUpFacts DEF BlobEnd, BlobStart, RecordSize
    <3> QED
      BY <3>1, AlignUpFacts DEF TagEnd, TagStart, SecurityTagSize
  <2> QED
    BY <1>1, <2>1, WireAssumption DEF PlanFits, MaxArena, InfoSize
<1>9. b.arena /\ ~b.overflow
  BY <1>1 DEF BuilderValid
<1>10. PlanHolds'
  BY <1>1, <1>3, <1>4, <1>5, <1>6, <1>7, <1>8, <1>9
  DEF PlanHolds, MemoryOk, BlobStart, BlobEnd, TagStart, TagEnd, Snapshot
<1> QED
  BY <1>2, <1>3, <1>4, <1>10

-----------------------------------------------------------------------------
\* The first allocation of a plan that holds is granted, where planned.
LEMMA BlobFits ==
    ASSUME PlanHolds, b = Old
    PROVE  /\ BumpOk(sc.n * RecordSize) /\ BumpAt = b.phys + sc.blob
           /\ Bumped(sc.n * RecordSize) = BlobBuilder
<1>1. sc.tagEnd <= Old.cap /\ Old.phys + sc.tagEnd <= MaxPhys
  BY ZenonT(60) DEF PlanHolds
<1>2. Old.used + 7 <= SizeMax
  BY <1>1, PlanNumbers, WireAssumption DEF RecordSize, SecurityTagSize
<1>3. sc.blobEnd <= Old.cap /\ Old.phys + sc.blobEnd <= MaxPhys
  BY <1>1, PlanNumbers, WireAssumption DEF SecurityTagSize
<1>4. /\ AlignUp(b.used) = sc.blob /\ AlignUp(b.used) + sc.n * RecordSize = sc.blobEnd
      /\ b.arena /\ ~b.overflow
  BY ZenonT(60) DEF PlanHolds
<1>5. b.phys + AlignUp(b.used) + sc.n * RecordSize = b.phys + sc.blobEnd
  BY <1>4, PlanNumbers
<1> QED
  BY <1>2, <1>3, <1>4, <1>5, ZenonT(60) DEF BumpOk, BumpAt, Bumped, BlobBuilder

\* So is the second.
LEMMA TagFits ==
    ASSUME PlanHolds, b = BlobBuilder
    PROVE  /\ TagRequestOk(SecurityTagSize) /\ BumpAt = TagAddress
           /\ Bumped(SecurityTagSize) = [Old EXCEPT !.used = sc.tagEnd]
<1>1. /\ sc.tagEnd <= Old.cap /\ Old.phys + sc.tagEnd <= MaxPhys
      /\ Old \in Builder /\ Old.arena /\ ~Old.overflow /\ Old.count < MaxTags
  BY ZenonT(60) DEF PlanHolds
<1>2. /\ b.used = sc.blobEnd /\ b.phys = Old.phys /\ b.cap = Old.cap
      /\ b.arena = Old.arena /\ b.overflow = Old.overflow /\ b.count = Old.count
  BY <1>1, ZenonT(60) DEF BlobBuilder, Builder
<1>3. AlignUp(b.used) = sc.tag /\ AlignUp(b.used) + SecurityTagSize = sc.tagEnd
  BY <1>2 DEF PlanHolds
<1>4. b.used + 7 <= SizeMax
  BY <1>1, <1>2, PlanNumbers, WireAssumption DEF SecurityTagSize
<1>5. b.phys + AlignUp(b.used) + SecurityTagSize = Old.phys + sc.tagEnd
  BY <1>2, <1>3, PlanNumbers DEF SecurityTagSize
<1>6. BumpOk(SecurityTagSize)
  BY <1>1, <1>2, <1>3, <1>4, <1>5 DEF BumpOk
<1>7. SecurityTagSize \in HeaderSize .. MaxTag
  BY CollectorAssumption, WireAssumption DEF SecurityTagSize, HeaderSize
<1>8. Bumped(SecurityTagSize) = [Old EXCEPT !.used = sc.tagEnd]
  BY <1>1, <1>3, ZenonT(60) DEF Bumped, BlobBuilder, Builder
<1> QED
  BY <1>1, <1>2, <1>3, <1>6, <1>7, <1>8, ZenonT(60) DEF TagRequestOk, BumpAt, TagAddress

\* What the builder and memory are once the tag is allocated.
LEMMA TagAllocated ==
    ASSUME PlanHolds, b = BlobBuilder, mem = sc.before.mem,
           NEW id \in Ids, AllocTag(id, SecurityTagSize)
    PROVE  /\ mem' = WithTag(id) /\ b'.phys = Old.phys /\ b'.used = sc.tagEnd
           /\ ~b'.overflow /\ b'.count = Old.count + 1 /\ b'.last = TagAddress
           /\ b'.first = IF Old.last = 0 THEN TagAddress ELSE Old.first
           /\ TagAddress \in DOMAIN mem' /\ mem'[TagAddress] = NewTag(id, SecurityTagSize)
           /\ Old.last # 0 => mem'[Old.last].next = TagAddress
           /\ FinalizeOk'
<1>1. Old \in Builder /\ ~Old.overflow
  BY ZenonT(60) DEF PlanHolds
<1>2. b.last = Old.last /\ b.first = Old.first /\ b.count = Old.count
  BY <1>1 DEF BlobBuilder, Builder
<1>3. b' = [[Old EXCEPT !.used = sc.tagEnd] EXCEPT
                !.last = TagAddress,
                !.first = IF Old.last = 0 THEN TagAddress ELSE Old.first,
                !.count = Old.count + 1]
  BY <1>2, TagFits, ZenonT(60) DEF AllocTag
<1>4. /\ b'.phys = Old.phys /\ b'.used = sc.tagEnd /\ b'.overflow = Old.overflow
      /\ b'.count = Old.count + 1 /\ b'.last = TagAddress /\ b'.cap = Old.cap
      /\ b'.first = IF Old.last = 0 THEN TagAddress ELSE Old.first
  BY <1>1, <1>3 DEF Builder
<1>5. mem' = WithTag(id)
  BY <1>2, TagFits DEF AllocTag, Linked, WithTag
<1>6. TagAddress \in DOMAIN mem' /\ mem'[TagAddress] = NewTag(id, SecurityTagSize)
  BY <1>5 DEF WithTag, Put
<1>7. ASSUME Old.last # 0 PROVE mem'[Old.last].next = TagAddress
  <2>1. Old.last \in DOMAIN sc.before.mem /\ Old.last # TagAddress
        /\ sc.before.mem \in [DOMAIN sc.before.mem -> Cell]
    <3>1. /\ Old.last \in DOMAIN sc.before.mem
          /\ sc.before.mem \in [DOMAIN sc.before.mem -> Cell]
      BY <1>7, ZenonT(60) DEF PlanHolds
    <3>2. Old.last # TagAddress
      BY PlanNumbers
    <3> QED
      BY <3>1, <3>2, ZenonT(60)
  <2> QED
    BY <1>5, <1>7, <2>1, ZenonT(60) DEF WithTag, Put, Cell
<1>8. FinalizeOk'
  <2>1. Old.count < MaxTags /\ sc.tagEnd <= Old.cap /\ sc.tagEnd + InfoSize <= MaxInfo
    BY ZenonT(60) DEF PlanHolds
  <2>2. Old.count + 1 <= MaxTags
    BY <2>1, PlanNumbers, WireAssumption
  <2> QED
    BY <1>1, <1>4, <2>1, <2>2, ZenonT(60) DEF FinalizeOk
<1> QED
  BY <1>1, <1>4, <1>5, <1>6, <1>7, <1>8, ZenonT(60)

-----------------------------------------------------------------------------
\* Filling and sealing the tag just allocated keeps the builder's invariant.
LEMMA PublishKeeps ==
    ASSUME Inv, MemoryOk, phase = "build", sc.got \in DOMAIN mem, sc.n \in Nat, Publish
    PROVE  Inv' /\ MemoryOk'
<1> DEFINE c == [mem[sc.got] EXCEPT !.body = sc.n]
<1>1. /\ mem' = [mem EXCEPT ![sc.got] = Sealed(c)]
      /\ UNCHANGED <<info, b, phase, cur, ret, chain, extents>>
  BY DEF Publish, buildVars
<1>2. c \in Cell /\ c.size = mem[sc.got].size /\ c.next = mem[sc.got].next
  BY DEF MemoryOk, Cell
<1>3. /\ Sealed(c) \in Cell
      /\ Sealed(c).size = mem[sc.got].size /\ Sealed(c).next = mem[sc.got].next
  BY <1>2, SealedFacts, ZenonT(60)
<1> HIDE DEF c
<1>4. /\ DOMAIN mem' = DOMAIN mem
      /\ \A p \in DOMAIN mem : /\ mem'[p] \in Cell
                               /\ mem'[p].size = mem[p].size
                               /\ mem'[p].next = mem[p].next
  BY <1>1, <1>3 DEF MemoryOk
<1>5. ChainWellFormed' /\ Layout'
  BY <1>1, <1>4, RewriteKeepsLayout DEF Inv
<1>6. TypeOK'
  BY <1>1, <1>4 DEF Inv, TypeOK
<1>7. SealProgress'
  BY <1>1 DEF SealProgress, SealedIsComplete
<1>8. Inv'
  BY <1>5, <1>6, <1>7 DEF Inv
<1> QED
  BY <1>1, <1>8, RewriteIsMemory, ZenonT(60)

\* Steps that keep the plan's fields keep the plan.
LEMMA SamePlan ==
    ASSUME PlanHolds, sc'.n = sc.n, sc'.blob = sc.blob, sc'.blobEnd = sc.blobEnd,
           sc'.tag = sc.tag, sc'.tagEnd = sc.tagEnd, sc'.before = sc.before
    PROVE  /\ PlanHolds' /\ Old' = Old /\ BlobBuilder' = BlobBuilder
           /\ TagAddress' = TagAddress /\ \A id : WithTag(id)' = WithTag(id)
<1>1. Old' = Old
  BY DEF Old
<1>2. BlobBuilder' = BlobBuilder /\ TagAddress' = TagAddress
  BY <1>1 DEF BlobBuilder, TagAddress
<1> QED
  BY <1>1, <1>2 DEF PlanHolds, WithTag

\* A step that touches nothing of the builder's keeps its invariant.
LEMMA SameBuilder ==
    ASSUME Inv, MemoryOk, UNCHANGED vars
    PROVE  Inv' /\ MemoryOk'
  BY NextInv DEF vars, MemoryOk

\* A step that ends the call or leaves none running.
LEMMA CallEnds ==
    ASSUME sc'.pc = "idle", tampered' \in BOOLEAN,
           ~tampered' => Inv' /\ MemoryOk', tampered' => status' = "aborted"
    PROVE  PlanInv' /\ TamperInv'
  BY DEF PlanInv, TamperInv, Collecting

\* Every step of the collector, of its allocator and of the loader.
LEMMA CollectNextInv ==
    CollectInv /\ [CollectNext]_collectorVars => PlanInv' /\ TamperInv'
<1> SUFFICES ASSUME CollectInv, [CollectNext]_collectorVars
             PROVE  PlanInv' /\ TamperInv'
  OBVIOUS
<1>1. /\ PlanInv /\ TamperInv /\ Locals /\ tampered \in BOOLEAN
      /\ Collecting => PlanHolds
      /\ ~tampered => Inv /\ MemoryOk
      /\ sc.pc \in {"extend", "blob", "tag"} => ~tampered
      /\ ~Collecting /\ status # "aborted" => ~tampered
  BY ZenonT(60) DEF CollectInv, LogInv, PlanInv, TamperInv, Collecting
<1>2. ASSUME NEW n \in Counts, Rejected(n) PROVE PlanInv' /\ TamperInv'
  <2>1. ~tampered /\ UNCHANGED vars /\ tampered' = tampered /\ sc'.pc = "idle"
    <3>1. /\ sc' = Resting /\ ~Collecting /\ status # "aborted"
          /\ UNCHANGED vars /\ tampered' = tampered
      BY <1>2, ZenonT(60) DEF Rejected, Invoke
    <3>2. sc'.pc = "idle"
      BY <3>1 DEF Resting
    <3>3. ~tampered
      BY <1>1, <3>1, ZenonT(60)
    <3> QED
      BY <3>1, <3>2, <3>3, ZenonT(60)
  <2> QED
    BY <1>1, <2>1, CallEnds, SameBuilder, ZenonT(60)
<1>3. ASSUME NEW n \in Counts, Begin(n) PROVE PlanInv' /\ TamperInv'
  <2>1. /\ ~tampered /\ UNCHANGED vars /\ tampered' = tampered /\ sc'.pc = "extend"
        /\ phase # "sealing" /\ phase' = phase /\ n \in Nat
    BY ZenonT(60), <1>1, <1>3, CollectorAssumption DEF Begin, Invoke, Call, vars, buildVars
  <2>2. PlanHolds' /\ Snapshot' = sc'.before /\ b'.phys = Old'.phys
    BY ZenonT(60), <1>1, <1>3, <2>1, BeginPlans
  <2>3. Inv' /\ MemoryOk'
    BY <1>1, <2>1, SameBuilder, ZenonT(60)
  <2> QED
    <3>1. PlanInv'
      BY <2>1, <2>2 DEF PlanInv, Collecting
    <3>2. TamperInv'
      BY <1>1, <2>1, <2>3, ZenonT(60) DEF TamperInv
    <3> QED
      BY <3>1, <3>2
<1>4. CASE Extend
  <2>1. /\ sc.pc = "extend" /\ sc'.pc \in {"extend", "blob"} /\ UNCHANGED vars
        /\ sc'.n = sc.n /\ sc'.blob = sc.blob /\ sc'.blobEnd = sc.blobEnd
        /\ sc'.tag = sc.tag /\ sc'.tagEnd = sc.tagEnd /\ sc'.before = sc.before
        /\ tampered' = tampered
    BY <1>1, <1>4, ZenonT(60) DEF Extend, Locals
  <2>2. /\ PlanHolds' /\ Old' = Old /\ Inv' /\ MemoryOk' /\ ~tampered
    BY <1>1, <2>1, SamePlan, SameBuilder, ZenonT(60) DEF Collecting
  <2>3. Snapshot' = Snapshot /\ b' = b /\ phase' = phase
    BY ZenonT(60), <2>1 DEF vars, buildVars, Snapshot
  <2> QED
    BY ZenonT(60), <1>1, <2>1, <2>2, <2>3 DEF PlanInv, TamperInv, Collecting
<1>5. CASE ExtendFails \/ ZeroCrc
  <2>1. ~tampered /\ UNCHANGED vars /\ tampered' = tampered /\ sc'.pc = "idle"
    <3>1. /\ sc.pc \in {"extend", "blob"} /\ sc' = Resting
          /\ UNCHANGED vars /\ tampered' = tampered
      BY <1>5, ZenonT(60) DEF ExtendFails, ZeroCrc, Finish
    <3>2. sc'.pc = "idle"
      BY <3>1 DEF Resting
    <3>3. ~tampered
      BY <1>1, <3>1, ZenonT(60)
    <3> QED
      BY <3>1, <3>2, <3>3, ZenonT(60)
  <2> QED
    BY <1>1, <2>1, CallEnds, SameBuilder, ZenonT(60)
<1>6. ASSUME NEW label \in {"blobcheck", "tagcheck"}, NEW at, Allocated(label, at)
      PROVE  /\ sc'.n = sc.n /\ sc'.blob = sc.blob /\ sc'.blobEnd = sc.blobEnd
             /\ sc'.tag = sc.tag /\ sc'.tagEnd = sc.tagEnd /\ sc'.before = sc.before
             /\ sc'.pc = label /\ sc'.got = at
  BY <1>1, <1>6 DEF Allocated, Locals
<1>7. CASE AllocateBlob
  <2>1. /\ sc.pc = "blob" /\ ~tampered /\ Inv /\ MemoryOk /\ PlanHolds /\ tampered' = tampered
        /\ ArenaBlob(sc.n * RecordSize)
        /\ Allocated("blobcheck", IF BumpOk(sc.n * RecordSize) THEN BumpAt ELSE 0)
        /\ phase # "sealing"
    BY <1>1, <1>7, ZenonT(60) DEF AllocateBlob, Collecting, PlanInv
  <2>2. b = Old /\ mem = sc.before.mem
    <3>1. Snapshot = sc.before
      BY <1>1, <2>1, ZenonT(60) DEF PlanInv
    <3> QED
      BY <3>1 DEF Snapshot, Old
  <2>3. /\ b' = BlobBuilder /\ mem' = mem /\ phase' = phase
        /\ Allocated("blobcheck", b.phys + sc.blob)
    BY <2>1, <2>2, BlobFits, ZenonT(60) DEF ArenaBlob
  <2>4. /\ PlanHolds' /\ Old' = Old /\ BlobBuilder' = BlobBuilder
        /\ sc'.pc = "blobcheck" /\ sc'.got = Old.phys + sc'.blob /\ sc'.before = sc.before
    BY <1>6, <2>1, <2>2, <2>3, SamePlan, ZenonT(60)
  <2>5. b'.phys = Old.phys
    BY <2>1, <2>3 DEF BlobBuilder, PlanHolds, Builder
  <2>6. Inv' /\ MemoryOk'
    BY <2>1, <2>3, ArenaBlobKeepsInv, PlanNumbers DEF MemoryOk
  <2> QED
    <3>1. PlanInv'
      BY ZenonT(60), <2>1, <2>2, <2>3, <2>4, <2>5 DEF PlanInv, Collecting
    <3>2. TamperInv'
      BY <1>1, <2>1, <2>6, ZenonT(60) DEF TamperInv
    <3> QED
      BY <3>1, <3>2, ZenonT(60)
<1>8. ASSUME NEW id \in Ids, sc.pc = "tag", AllocTag(id, SecurityTagSize),
             Allocated("tagcheck", BumpAt)
      PROVE  /\ PlanHolds' /\ Old' = Old /\ b'.phys = Old.phys /\ sc'.pc = "tagcheck"
             /\ mem' = WithTag(id)' /\ phase' = "build" /\ sc'.got \in DOMAIN mem'
             /\ TagAccepted' <=> id = SECURITY
             /\ FinalizeOk'
  <2>1. ~tampered /\ b = BlobBuilder /\ mem = sc.before.mem /\ PlanHolds
    BY ZenonT(60), <1>1, <1>8 DEF PlanInv, Collecting
  <2>2. /\ BumpAt = TagAddress
        /\ mem' = WithTag(id) /\ b'.phys = Old.phys /\ b'.used = sc.tagEnd
        /\ ~b'.overflow /\ b'.count = Old.count + 1 /\ b'.last = TagAddress
        /\ b'.first = IF Old.last = 0 THEN TagAddress ELSE Old.first
        /\ TagAddress \in DOMAIN mem' /\ mem'[TagAddress] = NewTag(id, SecurityTagSize)
        /\ Old.last # 0 => mem'[Old.last].next = TagAddress
        /\ FinalizeOk'
    BY <1>8, <2>1, TagFits, TagAllocated, ZenonT(60)
  <2>3. /\ PlanHolds' /\ Old' = Old /\ TagAddress' = TagAddress
        /\ WithTag(id)' = WithTag(id) /\ sc'.pc = "tagcheck" /\ sc'.got = TagAddress
        /\ sc'.tag = sc.tag /\ sc'.tagEnd = sc.tagEnd
    BY <1>6, <1>8, <2>1, <2>2, SamePlan, ZenonT(60)
  <2>4. Old.count = 0 <=> Old.last = 0
    BY <2>1, ZenonT(60) DEF PlanHolds
  <2>5. sc'.got = b'.phys + sc'.tag
    BY <2>2, <2>3, ZenonT(60) DEF TagAddress
  <2>6. /\ mem'[sc'.got].id = id /\ mem'[sc'.got].size = SecurityTagSize
        /\ mem'[sc'.got].next = 0
    <3>1. mem'[sc'.got] = NewTag(id, SecurityTagSize)
      BY <2>2, <2>3
    <3> QED
      BY ONLY <3>1 DEF NewTag
  <2>7. TagAccepted' <=> id = SECURITY
    BY <2>2, <2>3, <2>4, <2>5, <2>6, ZenonT(60) DEF TagAccepted, Old
  <2> QED
    BY <1>8, <2>2, <2>3, <2>7, ZenonT(60) DEF AllocTag
<1>9. CASE AllocateTag
  <2>1. sc.pc = "tag" /\ ~tampered /\ Inv /\ tampered' = tampered /\ PlanHolds /\ b = BlobBuilder
    BY ZenonT(60), <1>1, <1>9 DEF AllocateTag, PlanInv, Collecting
  <2>2. AllocTag(SECURITY, SecurityTagSize) /\ Allocated("tagcheck", BumpAt)
    BY <1>9, <2>1, TagFits DEF AllocateTag
  <2>3. SECURITY \in Ids
    BY CollectorAssumption
  <2>4. Inv' /\ MemoryOk'
    <3>1. Inv'
      BY <2>1, <2>2, <2>3, AllocTagKeepsInv, ZenonT(60) DEF SecurityTagSize
    <3> QED
      BY <2>2, <3>1, PutIsMemory DEF AllocTag
  <2> QED
    <3>1. PlanInv'
      BY <1>8, <2>1, <2>2, <2>3, ZenonT(60) DEF PlanInv, Collecting
    <3>2. TamperInv'
      BY <1>1, <2>1, <2>4, ZenonT(60) DEF TamperInv
    <3> QED
      BY <3>1, <3>2
<1>10. CASE Misallocate
  <2>1. /\ tampered' = TRUE /\ sc.pc \in {"blob", "tag"} /\ ~tampered /\ PlanHolds
        /\ mem = sc.before.mem /\ phase # "sealing" /\ b.phys = Old.phys /\ Inv
    <3>1. tampered' = TRUE /\ sc.pc \in {"blob", "tag"}
      BY <1>10, ZenonT(60) DEF Misallocate
    <3>2. Collecting /\ PlanHolds /\ phase # "sealing" /\ b.phys = Old.phys
      BY <1>1, <3>1, ZenonT(60) DEF PlanInv, Collecting
    <3>3. mem = sc.before.mem
      BY <1>1, <3>1 DEF PlanInv, Snapshot
    <3>4. ~tampered /\ Inv
      BY <1>1, <3>1, ZenonT(60) DEF TamperInv, Collecting
    <3> QED
      BY <3>1, <3>2, <3>3, <3>4
  <2>2. CASE /\ Refuse
             /\ Allocated(IF sc.pc = "blob" THEN "blobcheck" ELSE "tagcheck", 0)
    <3>1. mem' = mem /\ phase' = phase /\ b'.phys = b.phys /\ b'.overflow = TRUE
      BY <2>1, <2>2, ZenonT(60) DEF Refuse, Inv, TypeOK, Builder
    <3>2. /\ sc'.pc \in {"blobcheck", "tagcheck"} /\ PlanHolds' /\ Old' = Old
          /\ sc'.before = sc.before
      BY <1>6, <2>1, <2>2, SamePlan, ZenonT(60)
    <3>3. ~BlobAccepted' /\ ~TagAccepted'
      BY <3>1, ZenonT(60) DEF BlobAccepted, TagAccepted
    <3> QED
      BY ZenonT(60), <2>1, <3>1, <3>2, <3>3 DEF PlanInv, TamperInv, Collecting
  <2>3. CASE /\ sc.pc = "blob" /\ BumpOk(sc.n * RecordSize + Align)
             /\ b' = Bumped(sc.n * RecordSize + Align)
             /\ Allocated("blobcheck", BumpAt + Align)
             /\ UNCHANGED <<mem, info, phase, cur, ret, chain>>
    <3>1. b = Old
      <4>1. Snapshot = sc.before
        BY <1>1, <2>3, ZenonT(60) DEF PlanInv
      <4> QED
        BY <4>1 DEF Snapshot, Old
    <3>2. /\ sc'.pc = "blobcheck" /\ PlanHolds' /\ Old' = Old
          /\ sc'.before = sc.before /\ sc'.got = BumpAt + Align /\ sc'.blob = sc.blob
      BY <1>6, <2>1, <2>3, SamePlan, ZenonT(60)
    <3>3. b'.phys = b.phys
      BY <2>3, <3>1, <2>1, ZenonT(60) DEF Bumped, PlanHolds, Builder
    <3>4. ~BlobAccepted'
      <4>1. BumpAt = b.phys + sc.blob
        BY <2>1, <3>1, BlobFits, ZenonT(60)
      <4>2. b.phys + sc.blob \in Nat
        BY <2>1, <3>1, PlanNumbers
      <4>3. sc'.got # b'.phys + sc'.blob
        BY <3>2, <3>3, <4>1, <4>2 DEF Align
      <4> QED
        BY <4>3, ZenonT(60) DEF BlobAccepted
    <3> QED
      BY <2>1, <2>3, <3>1, <3>2, <3>3, <3>4, ZenonT(60) DEF PlanInv, TamperInv, Collecting
  <2>4. CASE sc.pc = "tag" /\ AllocTag(HHDM, SecurityTagSize) /\ Allocated("tagcheck", BumpAt)
    <3>1. HHDM \in Ids /\ HHDM # SECURITY
      BY WireAssumption, CollectorAssumption
    <3> QED
      BY <1>8, <2>1, <2>4, <3>1, ZenonT(60) DEF PlanInv, TamperInv, Collecting
  <2> QED
    BY <1>10, <2>2, <2>3, <2>4 DEF Misallocate
<1>11. CASE BlobChecked
  <2>1. /\ sc.pc = "blobcheck" /\ BlobAccepted /\ UNCHANGED vars /\ tampered' = tampered
        /\ sc' = [sc EXCEPT !.pc = "tag"]
    BY <1>11 DEF BlobChecked
  <2>2. ~tampered
    BY <1>1, <2>1 DEF TamperInv, Collecting
  <2>3. /\ sc'.n = sc.n /\ sc'.blob = sc.blob /\ sc'.blobEnd = sc.blobEnd
        /\ sc'.tag = sc.tag /\ sc'.tagEnd = sc.tagEnd /\ sc'.before = sc.before
        /\ sc'.pc = "tag"
    BY <1>1, <2>1 DEF Locals
  <2>4. PlanHolds' /\ Old' = Old /\ BlobBuilder' = BlobBuilder /\ Inv' /\ MemoryOk'
    BY <1>1, <2>1, <2>2, <2>3, SamePlan, SameBuilder DEF Collecting
  <2>5. UNCHANGED <<b, mem, phase>>
    BY <2>1 DEF vars, buildVars
  <2> QED
    BY <1>1, <2>1, <2>2, <2>3, <2>4, <2>5 DEF PlanInv, TamperInv, Collecting
<1>12. CASE RollBack
  <2>1. sc'.pc = "idle" /\ status' = "aborted" /\ tampered' = tampered
    BY <1>12, ZenonT(60) DEF RollBack, Finish, Resting
  <2>2. tampered
    BY <1>1, <1>12, ZenonT(60) DEF RollBack, PlanInv, BlobAccepted, BlobBuilder, PlanHolds,
        Builder,
                       Collecting, Old
  <2> QED
    BY <1>1, <2>1, <2>2, CallEnds, ZenonT(60)
<1>13. CASE Publish
  <2>1. /\ sc.pc = "tagcheck" /\ TagAccepted /\ sc'.pc = "idle" /\ tampered' = tampered
    BY <1>13 DEF Publish, Finish, Resting
  <2>2. ~tampered /\ phase = "build" /\ sc.got \in DOMAIN mem /\ sc.n \in Nat
    BY <1>1, <2>1, ZenonT(60) DEF TamperInv, PlanInv, PlanHolds, Collecting
  <2> QED
    BY <1>1, <1>13, <2>1, <2>2, CallEnds, PublishKeeps, ZenonT(60)
<1>14. CASE LoaderCall
  <2>1. ~tampered /\ Next /\ UNCHANGED <<sc, tampered, status>> /\ sc.pc = "idle"
    BY <1>1, <1>14 DEF LoaderCall, collectVars, Collecting
  <2> QED
    BY <1>1, <2>1, LoaderCallKeeps, CallEnds
<1>15. CASE UNCHANGED collectorVars
  <2>1. UNCHANGED <<vars, sc, status, tampered>>
    BY <1>15 DEF collectorVars, collectVars
  <2>2. UNCHANGED <<b, mem, chain, extents, phase>>
    BY <2>1 DEF vars, buildVars
  <2>3. PlanInv'
    BY <1>1, <2>1, <2>2, SamePlan, ZenonT(60)
    DEF PlanInv, Collecting, Snapshot, TagAccepted, FinalizeOk
  <2>4. TamperInv'
    BY <1>1, <2>1, <2>2, SameBuilder, ZenonT(60) DEF TamperInv, Collecting, BlobAccepted,
        TagAccepted
  <2> QED
    BY <2>3, <2>4
<1> QED
  BY <1>2, <1>3, <1>4, <1>5, <1>7, <1>9, <1>10, <1>11, <1>12, <1>13, <1>14, <1>15,
      ZenonT(60)
  DEF CollectNext, CollectStep

-----------------------------------------------------------------------------
\* The invariant holds in every reachable state of the collector.
THEOREM CollectorSafe == CollectSpec => []CollectInv
<1>1. CollectInit => CollectInv
  <2> SUFFICES ASSUME CollectInit PROVE CollectInv
    OBVIOUS
  <2>1. Inv
    BY InitInv DEF CollectInit
  <2>2. MemoryOk
    BY DEF CollectInit, Init, BuilderInit, MemoryOk
  <2>3. LogInv
    BY DEF CollectInit, LogInv, Locals, Places, Collecting, Resting, Measurement
  <2>4. PlanInv /\ TamperInv
    BY <2>1, <2>2, ZenonT(60) DEF CollectInit, PlanInv, TamperInv, Collecting, Resting
  <2> QED
    BY <2>3, <2>4 DEF CollectInv
<1>2. CollectInv /\ [CollectNext]_collectorVars => CollectInv'
  BY LogNext, CollectNextInv DEF CollectInv
<1> QED
  BY <1>1, <1>2, PTL DEF CollectSpec

\* Unless bbp_security_collect reported an aborted boot, all that the TPM was
\* extended with is in the logs it handed out, in order.
THEOREM LogsMatchRegisters == CollectSpec => []LogMatchesPcr
<1>1. CollectInv => LogMatchesPcr
  <2> SUFFICES ASSUME LogInv, ~Collecting, status # "aborted" PROVE published = pcr
    BY DEF CollectInv, LogMatchesPcr
  <2>1. published \in Seq(Measurement) /\ pcr = published \o << >>
    BY ZenonT(60) DEF LogInv
  <2> QED
    BY <2>1, ConcatEmptySeq
<1> QED
  BY <1>1, CollectorSafe, PTL

\* The plan that bbp_security_collect makes before its first TPM operation is
\* what the builder then does: nothing fails after an extension for want of
\* space, and finalization accepts the result.
THEOREM PlansAreExact == CollectSpec => []PlanIsExact
<1>1. CollectInv => PlanIsExact
  <2> SUFFICES ASSUME CollectInv, ~tampered PROVE PlanIsExact
    BY DEF PlanIsExact
  <2>1. sc.pc = "tagcheck" => TagAccepted /\ FinalizeOk
    BY DEF CollectInv, PlanInv
  <2>2. ASSUME sc.pc = "blobcheck" PROVE BlobAccepted
    <3>1. b = BlobBuilder /\ sc.got = b.phys + sc.blob /\ Old \in Builder /\ ~Old.overflow
      BY <2>2, ZenonT(60) DEF CollectInv, PlanInv, PlanHolds, Collecting
    <3> QED
      BY <3>1 DEF BlobBuilder, BlobAccepted, Builder, Old
  <2> QED
    BY <2>1, <2>2 DEF PlanIsExact
<1> QED
  BY <1>1, CollectorSafe, PTL

\* Whenever a call of bbp_security_collect fails, in rollback_publish or
\* before, the builder, the arena and *out_tag are as the call found them.
THEOREM FailuresAreAtomic == CollectSpec => FailureIsAtomic
<1> DEFINE Fails == (status' # status \/ calls' # calls) /\ status' \notin {"ok", "none"}
           Atomic == Fails => /\ Snapshot' = (IF Collecting THEN sc.before ELSE Snapshot)
                              /\ out' = out /\ published' = published
<1>1. CollectInv /\ [CollectNext]_collectorVars => Atomic
  <2> SUFFICES ASSUME CollectInv, [CollectNext]_collectorVars, Fails PROVE Atomic
    OBVIOUS
  <2>1. PlanInv /\ calls \in Nat
    BY ZenonT(60) DEF CollectInv, LogInv
  <2>2. ASSUME NEW n \in Counts, Rejected(n) PROVE Atomic
    BY <2>2, ZenonT(60) DEF Rejected, Invoke, vars, buildVars, Snapshot
  <2>3. ASSUME NEW n \in Counts, Begin(n) PROVE Atomic
    BY ZenonT(60), <2>3 DEF Begin
  <2>4. CASE ExtendFails \/ ZeroCrc
    <3>1. Snapshot = sc.before /\ Collecting
      BY <2>1, <2>4, ZenonT(60) DEF ExtendFails, ZeroCrc, PlanInv, Collecting
    <3>2. Snapshot' = Snapshot
      BY <2>4, ZenonT(60) DEF ExtendFails, ZeroCrc, vars, buildVars, Snapshot
    <3> QED
      BY <2>4, <3>1, <3>2, ZenonT(60) DEF ExtendFails, ZeroCrc
  <2>5. CASE RollBack
    <3>1. /\ sc.pc \in {"blobcheck", "tagcheck"} /\ mem' = Restored
          /\ b' = sc.before.b /\ chain' = sc.before.chain
          /\ extents' = sc.before.extents /\ UNCHANGED <<out, published>>
      BY <2>5, ZenonT(60) DEF RollBack
    <3>2. Restored = sc.before.mem
      BY <2>1, <3>1, RestoredExactly, ZenonT(60) DEF PlanInv, Collecting
    <3>3. sc.before = [b |-> sc.before.b, mem |-> sc.before.mem,
                       chain |-> sc.before.chain, extents |-> sc.before.extents]
      BY <2>1, <3>1, ZenonT(60) DEF PlanInv, PlanHolds, Collecting
    <3> QED
      BY <3>1, <3>2, <3>3, ZenonT(60) DEF Snapshot, Collecting
  <2>6. CASE \/ Extend \/ AllocateBlob \/ AllocateTag \/ Misallocate
             \/ BlobChecked \/ LoaderCall \/ UNCHANGED collectorVars
    BY <2>6 DEF Extend, AllocateBlob, AllocateTag, Misallocate, BlobChecked, LoaderCall,
                collectVars, collectorVars
  <2>7. CASE Publish
    BY <2>7 DEF Publish, Finish
  <2> QED
    BY <2>2, <2>3, <2>4, <2>5, <2>6, <2>7, ZenonT(60) DEF CollectNext, CollectStep
<1>2. CollectSpec => [][Atomic]_collectorVars
  BY <1>1, CollectorSafe, PTL DEF CollectSpec
<1> QED
  BY <1>2, ZenonT(60) DEF FailureIsAtomic
=============================================================================
