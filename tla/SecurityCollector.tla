--------------------------- MODULE SecurityCollector ---------------------------
(***************************************************************************)
(* The measurement collector,                                              *)
(* experimental/firmware/uefi/bbp_security_collector.c, on top of the tag  *)
(* builder: it extends TPM registers, which cannot be undone, and then     *)
(* publishes the log of what it extended as a blob and a SECURITY tag in   *)
(* the builder's arena.                                                    *)
(*                                                                         *)
(* The TPM may fail at any measurement, the log's CRC may come out as the  *)
(* reserved value zero, and the integration's arena allocator may refuse,  *)
(* misplace or mislabel what it was asked for.  Registers are reached with *)
(* the TCG2 helpers.                                                       *)
(***************************************************************************)
EXTENDS BbpBuilder, Tcg2

CONSTANTS
    SECURITY,         \* BBP_TAG_SECURITY
    Counts,           \* measurement_count arguments
    MaxMeasurements,  \* BBP_SECURITY_MAX_MEASUREMENTS
    MaxCalls,         \* bound: calls of bbp_security_collect
    DataLengths,      \* lengths of the measured data, used in turn
    Registers         \* registers they are extended into, used in turn

RecordSize == 144       \* sizeof(struct bbp_measurement)
SecurityTagSize == 128  \* sizeof(struct bbp_tag_security)

ASSUME CollectorAssumption ==
    /\ SECURITY \in Ids \ {HHDM} /\ SecurityTagSize <= MaxTag
    /\ Counts \subseteq Nat
    /\ MaxMeasurements \in Nat \ {0} /\ MaxCalls \in Nat
    /\ DataLengths \in Seq(Nat) /\ DataLengths # << >>
    /\ Registers \in Seq(0 .. MaxPcr) /\ Registers # << >>

VARIABLES
    sc,         \* locals of bbp_security_collect
    status,     \* what the last call returned
    out,        \* *out_tag
    pcr,        \* history: every measurement the TPM was extended with
    published,  \* history: records of all logs handed to the caller
    tampered,   \* history: the allocator broke its contract
    calls

collectVars == <<sc, status, out, pcr, published, tampered, calls>>

MaxArena == MaxInfo - InfoSize
RollbackBytes == MaxMeasurements * RecordSize + SecurityTagSize + 14

NoBuilder == [arena |-> FALSE, phys |-> 0, cap |-> 0, used |-> 0, last |-> 0,
              first |-> 0, count |-> 0, overflow |-> FALSE]

Resting == [pc |-> "idle", n |-> 0, i |-> 0, blob |-> 0, blobEnd |-> 0,
            tag |-> 0, tagEnd |-> 0, records |-> << >>, got |-> 0,
            before |-> [b |-> NoBuilder, mem |-> << >>, chain |-> << >>,
                        extents |-> {}]]

CollectInit ==
    /\ Init
    /\ sc = Resting /\ status = "none" /\ out = 0
    /\ pcr = << >> /\ published = << >> /\ tampered = FALSE /\ calls = 0

Snapshot == [b |-> b, mem |-> mem, chain |-> chain, extents |-> extents]

-----------------------------------------------------------------------------
(* Validation, all of it before the first TPM operation *)

BuilderValid ==
    /\ b.arena /\ ~b.overflow /\ b.used <= b.cap /\ b.used <= MaxArena
    /\ b.count <= MaxTags
    /\ b.phys # 0 /\ b.phys % Align = 0 /\ b.phys + b.cap <= MaxPhys
    /\ IF b.count = 0 THEN b.last = 0 /\ b.first = 0
       ELSE /\ b.first # 0 /\ b.first % Align = 0
            /\ b.phys <= b.first /\ b.first < b.phys + b.used
            /\ b.last % Align = 0 /\ b.phys <= b.last
            /\ b.last + HeaderSize <= b.phys + b.used
            /\ mem[b.last].next = 0

\* struct bbp_security_plan, as offsets into the arena.
BlobStart == AlignUp(b.used)
BlobEnd(n) == BlobStart + n * RecordSize
TagStart(n) == AlignUp(BlobEnd(n))
TagEnd(n) == TagStart(n) + SecurityTagSize

\* Fault: the info block's size limit is not considered.
PlanFitsAnyInfo(n) ==
    b.count < MaxTags /\ TagEnd(n) <= b.cap /\ b.phys + TagEnd(n) <= MaxPhys

PlanFits(n) ==
    /\ b.count < MaxTags
    /\ TagEnd(n) <= b.cap /\ TagEnd(n) <= MaxArena
    /\ b.phys + TagEnd(n) <= MaxPhys
    /\ TagEnd(n) - BlobStart <= RollbackBytes

Refusal(n) ==
    IF n \notin 1 .. MaxMeasurements THEN "count"
    ELSE IF ~BuilderValid THEN "builder"
    ELSE IF ~PlanFits(n) THEN "capacity"
    ELSE "none"

Collecting == sc.pc # "idle"

Invoke ==
    /\ Call /\ ~Collecting /\ status # "aborted" /\ calls < MaxCalls
    /\ calls' = calls + 1
    /\ UNCHANGED <<vars, out, pcr, published, tampered>>

\* A bad source or platform descriptor is refused like a bad count.
Rejected(n) ==
    /\ Invoke
    /\ \/ Refusal(n) # "none" /\ status' = Refusal(n)
       \/ status' = "invalid"
    /\ sc' = Resting

Begin(n) ==
    /\ Invoke
    /\ Refusal(n) = "none"
    /\ status' = "none"
    /\ sc' = [pc |-> "extend", n |-> n, i |-> 0, blob |-> BlobStart,
              blobEnd |-> BlobEnd(n), tag |-> TagStart(n), tagEnd |-> TagEnd(n),
              records |-> << >>, got |-> 0, before |-> Snapshot]

Finish(s) == status' = s /\ sc' = Resting

-----------------------------------------------------------------------------
(* hash_extend for each source; a measurement is named by call and index *)

Extend ==
    /\ sc.pc = "extend"
    /\ pcr' = Append(pcr, <<calls, sc.i>>)
    /\ sc' = [sc EXCEPT !.records = Append(@, <<calls, sc.i>>), !.i = @ + 1,
                        !.pc = IF sc.i + 1 = sc.n THEN "blob" ELSE "extend"]
    /\ UNCHANGED <<vars, status, out, published, tampered, calls>>

\* Fault: every TPM failure is reported as recoverable.
ExtendFailsRecoverably ==
    /\ sc.pc = "extend"
    /\ Finish("tpm")
    /\ UNCHANGED <<vars, out, pcr, published, tampered, calls>>

\* Assumed, as the code does when it reports the first one as recoverable: a
\* hash_extend that reports failure has not extended the PCR.
ExtendFails ==
    /\ sc.pc = "extend"
    /\ Finish(IF sc.i = 0 THEN "tpm" ELSE "aborted")
    /\ UNCHANGED <<vars, out, pcr, published, tampered, calls>>

\* The log's CRC is zero, which the wire format reserves for "unchecked".
ZeroCrc ==
    /\ sc.pc = "blob"
    /\ Finish("aborted")
    /\ UNCHANGED <<vars, out, pcr, published, tampered, calls>>

-----------------------------------------------------------------------------
(* Publication.  Each allocation is followed by the check of its result. *)

Allocated(label, at) == sc' = [sc EXCEPT !.pc = label, !.got = at]

\* arena_allocate through bbp_security_builder_allocate.
AllocateBlob ==
    /\ sc.pc = "blob"
    /\ ArenaBlob(sc.n * RecordSize)
    /\ Allocated("blobcheck", IF BumpOk(sc.n * RecordSize) THEN BumpAt ELSE 0)
    /\ UNCHANGED <<status, out, pcr, published, tampered, calls>>

AllocateTag ==
    /\ sc.pc = "tag"
    /\ IF TagRequestOk(SecurityTagSize)
       THEN AllocTag(SECURITY, SecurityTagSize)
       ELSE AllocTagFails(SecurityTagSize)
    /\ Allocated("tagcheck", IF TagRequestOk(SecurityTagSize) THEN BumpAt ELSE 0)
    /\ UNCHANGED <<status, out, pcr, published, tampered, calls>>

\* An allocator that breaks its contract: it refuses, leaves a gap in front
\* of the object, or (for the tag) uses another identifier.  A blob that is no
\* copy of the records and a tag of another version are refused where these
\* are, and are left out.
Misallocate ==
    /\ sc.pc \in {"blob", "tag"}
    /\ \/ Refuse /\ Allocated(IF sc.pc = "blob" THEN "blobcheck" ELSE "tagcheck", 0)
       \/ /\ sc.pc = "blob" /\ BumpOk(sc.n * RecordSize + Align)
          /\ b' = Bumped(sc.n * RecordSize + Align)
          /\ extents' = extents \cup {Extent(sc.n * RecordSize + Align)}
          /\ Allocated("blobcheck", BumpAt + Align)
          /\ UNCHANGED <<mem, info, phase, cur, ret, chain>>
       \/ /\ sc.pc = "tag" /\ TagRequestOk(SecurityTagSize)
          /\ AllocTag(HHDM, SecurityTagSize)
          /\ Allocated("tagcheck", BumpAt)
    /\ tampered' = TRUE
    /\ UNCHANGED <<status, out, pcr, published, calls>>

BlobAccepted ==
    /\ sc.got = b.phys + sc.blob
    /\ b.used = sc.blobEnd /\ ~b.overflow
    /\ b.count = sc.before.b.count
    /\ b.last = sc.before.b.last /\ b.first = sc.before.b.first

TagAccepted ==
    /\ sc.got = b.phys + sc.tag
    /\ b.used = sc.tagEnd /\ ~b.overflow
    /\ b.count = sc.before.b.count + 1 /\ b.last = sc.got
    /\ mem[sc.got].id = SECURITY /\ mem[sc.got].size = SecurityTagSize
    /\ mem[sc.got].next = 0
    /\ IF sc.before.b.count = 0 THEN b.first = sc.got
       ELSE b.first = sc.before.b.first /\ mem[sc.before.b.last].next = sc.got

BlobChecked ==
    /\ sc.pc = "blobcheck" /\ BlobAccepted
    /\ sc' = [sc EXCEPT !.pc = "tag"]
    /\ UNCHANGED <<vars, status, out, pcr, published, tampered, calls>>

\* Fault: the arena is not wiped.
RestoredUnwiped ==
    IF sc.before.b.last = 0 THEN mem
    ELSE [mem EXCEPT ![sc.before.b.last].next = 0]

\* rollback_publish: the arena between the plan's bounds, the old last tag's
\* pointer and the builder are put back.
Restored ==
    LET old == sc.before
        Planned(p) == b.phys + sc.blob <= p /\ p < b.phys + sc.tagEnd
        kept == [p \in {q \in DOMAIN mem : ~Planned(q)}
                       \cup {q \in DOMAIN old.mem : Planned(q)} |->
                    IF Planned(p) THEN old.mem[p] ELSE mem[p]]
    IN  IF old.b.last = 0 THEN kept ELSE [kept EXCEPT ![old.b.last].next = 0]

RollBack ==
    /\ \/ sc.pc = "blobcheck" /\ ~BlobAccepted
       \/ sc.pc = "tagcheck" /\ ~TagAccepted
    /\ mem' = Restored
    /\ b' = sc.before.b /\ chain' = sc.before.chain /\ extents' = sc.before.extents
    /\ Finish("aborted")
    /\ UNCHANGED <<info, phase, cur, ret, out, pcr, published, tampered, calls>>

\* The tag is filled and sealed, then *out_tag is set.
Publish ==
    /\ sc.pc = "tagcheck" /\ TagAccepted
    /\ mem' = [mem EXCEPT ![sc.got] = Sealed([@ EXCEPT !.body = sc.n])]
    /\ out' = sc.got
    /\ published' = published \o sc.records
    /\ Finish("ok")
    /\ UNCHANGED <<info, buildVars, pcr, tampered, calls>>

CollectStep ==
    \/ Extend \/ ExtendFails \/ ZeroCrc \/ AllocateBlob \/ AllocateTag
    \/ Misallocate \/ BlobChecked \/ RollBack \/ Publish

\* The loader's own use of the builder, before and after.
LoaderCall ==
    /\ ~Collecting /\ status # "aborted"
    /\ Next
    /\ UNCHANGED collectVars

CollectNext ==
    \/ \E n \in Counts : Rejected(n) \/ Begin(n)
    \/ CollectStep
    \/ LoaderCall

collectorVars == <<vars, collectVars>>

CollectSpec == CollectInit /\ [][CollectNext]_collectorVars

-----------------------------------------------------------------------------
\* The TPM and the published logs tell the same story: unless the boot was
\* aborted, whenever the collector is not running every measurement the
\* irreversible registers hold is in a log handed to the caller, in order.
LogMatchesPcr ==
    ~Collecting /\ status # "aborted" => published = pcr

\* The data of a measurement and the register it goes to.
Nth(m) == (m[1] - 1) * MaxMeasurements + m[2]
Data(m) == [i \in 1 .. DataLengths[(Nth(m) % Len(DataLengths)) + 1] |-> <<"byte", m, i>>]
RegisterOf(m) == Registers[(Nth(m) % Len(Registers)) + 1]

ResetValue == [i \in 1 .. DigestBytes |-> <<"reset", i>>]

\* The value of a register after the given measurements, for some hash.
Extended(ms, register, Hash(_)) ==
    LET value[k \in 0 .. Len(ms)] ==
            IF k = 0 THEN ResetValue
            ELSE IF RegisterOf(ms[k]) # register THEN value[k - 1]
            ELSE Hash(value[k - 1] \o Hash(Data(ms[k])))
    IN  value[Len(ms)]

\* Whoever holds the log can check it against the TPM: the register that a
\* PCR_Read returns is what the loader's own hash makes of the log, whatever
\* the lengths of the measured data.  The parser accepts the answer for the
\* register it asked for and no other, and reads nothing past its end.
LogReplaysToRegister ==
    ~Collecting /\ status = "ok" =>
        \A i \in DOMAIN Registers :
            LET register == Registers[i]
                command == BuildPcrRead(register, 20)
                genuine == Response(command, Len(pcr), Extended(pcr, register, StandardSha256))
            IN
            /\ command.st = "ok" /\ ParseStatusOf(genuine, register) = "ok"
            /\ genuine.digest = Extended(published, register, Sha256)
            /\ \A r \in OtherResponses(genuine) :
                /\ ReadsInside(r, register)
                /\ r # genuine => ParseStatusOf(r, register) # "ok"

\* All failures preserve the builder, the arena and the output pointer
\* (ADR-0017), those after partial publication by a misbehaving allocator
\* included: at the moment a call fails everything is as the call found it.
FailureIsAtomic ==
    [][(status' # status \/ calls' # calls) /\ status' \notin {"ok", "none"}
        => /\ Snapshot' = (IF Collecting THEN sc.before ELSE Snapshot)
           /\ out' = out /\ published' = published]_collectorVars

\* Capacity errors occur before any TPM side effect (ADR-0017): with an
\* allocator that keeps its contract, the plan made beforehand is exactly what
\* the builder then does, so publication never fails after an extension, and
\* the finalization that makes the log reach the kernel accepts the result.
PlanIsExact ==
    ~tampered => /\ sc.pc = "blobcheck" => BlobAccepted
                 /\ sc.pc = "tagcheck" => TagAccepted /\ FinalizeOk

=============================================================================
