--------------------------- MODULE EnvelopeProofs ---------------------------
(***************************************************************************)
(* Proofs about the envelope for any number of callers, keys, capsules and *)
(* rollback indices.                                                       *)
(***************************************************************************)
EXTENDS Envelope, TLAPS

\* The shape of what seal makes and of every altered copy.
IsEnvelope(e) ==
    /\ e = [head |-> e.head, size |-> e.size, index |-> e.index, id |-> e.id,
            payload |-> e.payload, tag |-> e.tag]
    /\ e.size \in Nat /\ e.index \in 0 .. MaxIndex /\ e.id \in Keys
    /\ e.payload \in Payloads

StateFile == {Absent, Corrupt} \cup [kind : {"state"}, index : 0 .. MaxIndex, key : Keys]

Holding == {"check", "write", "sync"}

EnvelopeTypeOK ==
    /\ \A e \in transit : IsEnvelope(e)
    /\ file \in StateFile /\ durable \in StateFile
    /\ lock \in Callers \cup {Nobody}
    /\ pc \in [Callers -> {"idle", "lock"} \cup Holding]
    /\ DOMAIN arg = Callers
    /\ \A c \in Callers : pc[c] # "idle" => IsEnvelope(arg[c])
    /\ returned \in Seq(0 .. MaxIndex)

\* flock admits one caller at a time.
Mutex == \A c \in Callers : pc[c] \in Holding <=> lock = c

\* Over state file f nothing that was returned is accepted again.
Blocks(f) ==
    \/ f = Corrupt
    \/ f = Absent /\ returned = << >>
    \/ f.kind = "state" /\ \A i \in DOMAIN returned : returned[i] <= f.index

\* A caller past the checks is about to publish a new highest index.
Fresh(c) ==
    /\ pc[c] \in {"write", "sync"} =>
        \A i \in DOMAIN returned : returned[i] < arg[c].index
    /\ pc[c] = "sync" => file \in {Corrupt, State(arg[c].index, arg[c].id)}

ReplayInv ==
    /\ EnvelopeTypeOK /\ Mutex
    /\ Blocks(file) /\ Blocks(durable)
    /\ \A c \in Callers : Fresh(c)
    /\ AcceptedOnce

-----------------------------------------------------------------------------
\* The kinds of state file exclude each other.
LEMMA StateFacts ==
    /\ Absent \in StateFile /\ Corrupt \in StateFile /\ Absent # Corrupt
    /\ Absent.kind # "state" /\ Corrupt.kind # "state"
    /\ \A f \in StateFile :
        f \notin {Absent, Corrupt} => f.kind = "state" /\ f.index \in Nat
    /\ \A i \in 0 .. MaxIndex, k \in Keys :
        /\ State(i, k) \in StateFile /\ State(i, k).kind = "state"
        /\ State(i, k).index = i
  <1>1. Absent # Corrupt /\ Absent.kind # "state" /\ Corrupt.kind # "state"
    BY DEF Absent, Corrupt
  <1>2. \A i \in 0 .. MaxIndex, k \in Keys :
            /\ State(i, k) \in StateFile /\ State(i, k).kind = "state"
            /\ State(i, k).index = i
    BY DEF State, StateFile
  <1> QED
    BY <1>1, <1>2, EnvelopeAssumption DEF StateFile

\* What seal makes: the tag is the MAC of all the rest under the named key.
LEMMA SealFacts ==
    ASSUME NEW p \in Payloads, NEW k \in Keys, NEW i \in 0 .. MaxIndex,
           NEW s, s = SealEnvelope(p, k, i)
    PROVE  /\ IsEnvelope(s)
           /\ s.head = "ok" /\ s.size = p.size /\ s.index = i /\ s.id = k
           /\ s.payload = p /\ s.tag = <<k, "ok", p.size, i, k, p>>
  <1>1. s = [head |-> "ok", size |-> p.size, index |-> i, id |-> k,
             payload |-> p, tag |-> <<k, "ok", p.size, i, k, p>>]
    BY DEF SealEnvelope, Mac
  <1> QED
    BY <1>1, EnvelopeAssumption DEF IsEnvelope

\* An altered copy differs in the header or the payload, or has no tag.
LEMMA VariantFacts ==
    ASSUME NEW e, IsEnvelope(e), NEW v \in Variants(e)
    PROVE  IsEnvelope(v) /\ (v.tag = e.tag \/ v.tag = << >>)
  <1> USE EnvelopeAssumption DEF IsEnvelope
  <1>1. CASE v \in {[e EXCEPT !.head = h] : h \in {"magic", "version", "algorithm", "flags"}}
    BY <1>1
  <1>2. CASE v \in {[e EXCEPT !.size = @ + 1], [e EXCEPT !.tag = << >>]}
    BY <1>2
  <1>3. CASE v \in {[e EXCEPT !.index = i] : i \in 0 .. MaxIndex}
    BY <1>3
  <1>4. CASE v \in {[e EXCEPT !.id = k] : k \in Keys}
    BY <1>4
  <1>5. CASE v \in {[e EXCEPT !.payload = p] : p \in Payloads}
    BY <1>5
  <1>6. CASE v \in {[e EXCEPT !.payload = p, !.size = p.size] : p \in Payloads}
    BY <1>6, ZenonT(60)
  <1> QED
    BY <1>1, <1>2, <1>3, <1>4, <1>5, <1>6, ZenonT(60) DEF Variants

-----------------------------------------------------------------------------
\* With no state file and nobody called, the invariant holds.
LEMMA InitReplay == Init => ReplayInv
  BY StateFacts, NobodyAssumption
  DEF Init, ReplayInv, EnvelopeTypeOK, Mutex, Blocks, Fresh, AcceptedOnce, Holding

\* Every step keeps the types.
LEMMA TypeStep == ASSUME ReplayInv, Next PROVE EnvelopeTypeOK'
  <1> USE StateFacts DEF ReplayInv, EnvelopeTypeOK, Goto, Leave, Holding
  <1>1. ASSUME NEW payload \in Payloads, NEW key \in Keys, NEW index \in 0 .. MaxIndex,
               Seal(payload, key, index)
        PROVE  EnvelopeTypeOK'
    BY <1>1, SealFacts DEF Seal
  <1>2. CASE Alter
    BY <1>2, VariantFacts DEF Alter
  <1>3. ASSUME NEW c \in Callers, NEW e \in transit, Call(c, e) PROVE EnvelopeTypeOK'
    BY <1>3 DEF Call
  <1>4. ASSUME NEW c \in Callers, Acquire(c) \/ Admit(c) PROVE EnvelopeTypeOK'
    BY <1>4 DEF Acquire, Admit
  <1>5. ASSUME NEW c \in Callers, Refuse(c) \/ Fail(c) \/ Die(c) PROVE EnvelopeTypeOK'
    BY <1>5 DEF Refuse, Fail, Die
  <1>6. ASSUME NEW c \in Callers, Replace(c) PROVE EnvelopeTypeOK'
    BY <1>6 DEF Replace, IsEnvelope
  <1>7. ASSUME NEW c \in Callers, SyncAndReturn(c) PROVE EnvelopeTypeOK'
    <2>1. returned' \in Seq(0 .. MaxIndex)
      BY <1>7 DEF SyncAndReturn, IsEnvelope
    <2> QED
      BY <1>7, <2>1 DEF SyncAndReturn
  <1>8. ASSUME NEW undone \in BOOLEAN, PowerLoss(undone) PROVE EnvelopeTypeOK'
    BY <1>8 DEF PowerLoss
  <1>9. CASE DamageFile
    BY <1>9 DEF DamageFile
  <1> QED
    BY <1>1, <1>2, <1>3, <1>4, <1>5, <1>6, <1>7, <1>8, <1>9 DEF Next, Finish

\* Only the holder of the lock moves past it, and leaving frees it.
LEMMA MutexStep == ASSUME ReplayInv, Next PROVE Mutex'
  <1> USE NobodyAssumption DEF ReplayInv, EnvelopeTypeOK, Mutex, Goto, Leave, Holding
  <1>1. CASE \/ \E payload \in Payloads, key \in Keys, index \in 0 .. MaxIndex :
                    Seal(payload, key, index)
             \/ Alter \/ DamageFile
    BY <1>1 DEF Seal, Alter, DamageFile
  <1>2. ASSUME NEW c \in Callers, NEW e \in transit, Call(c, e) PROVE Mutex'
    BY <1>2 DEF Call
  <1>3. ASSUME NEW c \in Callers, Acquire(c) \/ Admit(c) \/ Replace(c) PROVE Mutex'
    BY <1>3 DEF Acquire, Admit, Replace
  <1>4. ASSUME NEW c \in Callers, Refuse(c) \/ SyncAndReturn(c) \/ Fail(c) \/ Die(c)
        PROVE  Mutex'
    BY <1>4 DEF Refuse, SyncAndReturn, Fail, Die
  <1>5. ASSUME NEW undone \in BOOLEAN, PowerLoss(undone) PROVE Mutex'
    BY <1>5 DEF PowerLoss
  <1> QED
    BY <1>1, <1>2, <1>3, <1>4, <1>5 DEF Next, Finish

Guarded == Blocks(file) /\ Blocks(durable) /\ (\A c \in Callers : Fresh(c)) /\ AcceptedOnce

\* The file a power loss may leave blocks whatever was returned, and what is
\* about to be returned is above it.
LEMMA GuardedStep == ASSUME ReplayInv, Next PROVE Guarded'
  <1>0. Guarded /\ EnvelopeTypeOK /\ Mutex
    BY DEF ReplayInv, Guarded
  <1> USE StateFacts
  <1>1. ASSUME UNCHANGED <<file, durable, returned>>,
               \A c \in Callers : \/ pc'[c] \notin {"write", "sync"}
                                  \/ pc'[c] = pc[c] /\ arg'[c] = arg[c]
        PROVE  Guarded'
    BY <1>0, <1>1 DEF Guarded, Blocks, Fresh, AcceptedOnce
  <1>2. CASE \/ \E payload \in Payloads, key \in Keys, index \in 0 .. MaxIndex :
                    Seal(payload, key, index)
             \/ Alter
    BY <1>1, <1>2 DEF Seal, Alter
  <1>3. ASSUME NEW c \in Callers,
               \/ \E e \in transit : Call(c, e)
               \/ Acquire(c) \/ Refuse(c) \/ Fail(c) \/ Die(c)
        PROVE  Guarded'
    BY <1>0, <1>1, <1>3 DEF Call, Acquire, Refuse, Fail, Die, Goto, Leave, EnvelopeTypeOK
  <1>4. ASSUME NEW c \in Callers, Admit(c) PROVE Guarded'
    <2>1. /\ UNCHANGED <<file, durable, returned, arg>> /\ pc[c] = "check"
          /\ pc'[c] = "write" /\ \A d \in Callers : d # c => pc'[d] = pc[d]
          /\ file # Corrupt /\ arg[c].index >= Minimum(file)
      <3>1. Verify(arg[c], Minimum(file)) = "ok" /\ file # Corrupt
        BY <1>4 DEF Admit, Acceptable
      <3>2. ~(arg[c].index < Minimum(file))
        BY <3>1 DEF Verify
      <3>3. arg[c].index \in Nat /\ Minimum(file) \in Nat
        BY SMTT(30), <1>0, <1>4, <3>1, EnvelopeAssumption
        DEF Admit, EnvelopeTypeOK, IsEnvelope, Minimum
      <3> QED
        BY <1>0, <1>4, <3>1, <3>2, <3>3 DEF Admit, Goto, EnvelopeTypeOK
    <2>2. \A i \in DOMAIN returned : returned[i] < arg[c].index
      <3>1. arg[c].index \in Nat /\ \A i \in DOMAIN returned : returned[i] \in Nat
        BY SMTT(30), <1>0, <2>1, EnvelopeAssumption DEF EnvelopeTypeOK, IsEnvelope
      <3>2. CASE file = Absent
        BY <1>0, <3>2 DEF Guarded, Blocks
      <3>3. CASE file # Absent
        BY <1>0, <2>1, <3>1, <3>3 DEF Guarded, Blocks, Minimum, EnvelopeTypeOK
      <3> QED
        BY <3>2, <3>3
    <2> QED
      BY <1>0, <2>1, <2>2 DEF Guarded, Blocks, Fresh, AcceptedOnce
  <1>5. ASSUME NEW c \in Callers, Replace(c) PROVE Guarded'
    <2>1. /\ UNCHANGED <<durable, returned, arg>> /\ pc[c] = "write" /\ pc'[c] = "sync"
          /\ file' = State(arg[c].index, arg[c].id)
          /\ \A d \in Callers : d # c => pc'[d] = pc[d] /\ pc[d] \notin Holding
          /\ arg[c].index \in 0 .. MaxIndex /\ arg[c].id \in Keys
      BY <1>0, <1>5 DEF Replace, Goto, EnvelopeTypeOK, IsEnvelope, Mutex, Holding
    <2>2. \A i \in DOMAIN returned : returned[i] < arg[c].index /\ returned[i] \in Int
      BY <1>0, <2>1, EnvelopeAssumption DEF Guarded, Fresh, EnvelopeTypeOK
    <2>3. \A i \in DOMAIN returned : returned[i] <= arg[c].index
      BY <2>1, <2>2, EnvelopeAssumption
    <2> QED
      BY <1>0, <2>1, <2>2, <2>3 DEF Guarded, Blocks, Fresh, AcceptedOnce, Holding
  <1>6. ASSUME NEW c \in Callers, SyncAndReturn(c) PROVE Guarded'
    <2> DEFINE n == arg[c].index
    <2>1. /\ pc[c] = "sync" /\ durable' = file /\ file' = file
          /\ returned' = Append(returned, n)
          /\ \A d \in Callers : pc'[d] \notin {"write", "sync"}
          /\ n \in Nat /\ returned \in Seq(Nat)
      <3>1. /\ pc[c] = "sync" /\ durable' = file /\ file' = file
            /\ returned' = Append(returned, n)
            /\ \A d \in Callers : pc'[d] \notin {"write", "sync"}
        BY <1>0, <1>6 DEF SyncAndReturn, Leave, Goto, EnvelopeTypeOK, Mutex, Holding
      <3>2. n \in Nat
        BY <1>0, <3>1, EnvelopeAssumption DEF EnvelopeTypeOK, IsEnvelope
      <3>3. returned \in Seq(Nat)
        BY <1>0, EnvelopeAssumption DEF EnvelopeTypeOK
      <3> QED
        BY <3>1, <3>2, <3>3
    <2>2. \A i \in DOMAIN returned : returned[i] < n
      BY <1>0, <2>1 DEF Guarded, Fresh
    <2>3. file # Corrupt => file.kind = "state" /\ file.index = n
      <3>1. n \in 0 .. MaxIndex /\ arg[c].id \in Keys
        BY <1>0, <2>1 DEF EnvelopeTypeOK, IsEnvelope
      <3> QED
        BY <1>0, <2>1, <3>1 DEF Guarded, Fresh
    <2> HIDE DEF n
    <2>4. \A i \in DOMAIN returned' : returned'[i] <= n
      BY <2>1, <2>2
    <2>5. AcceptedOnce'
      <3>1. ASSUME NEW i \in DOMAIN returned', NEW j \in DOMAIN returned', i < j
            PROVE  returned'[i] < returned'[j]
        <4>1. CASE j = Len(returned) + 1
          BY <2>1, <2>2, <3>1, <4>1
        <4>2. CASE j # Len(returned) + 1
          <5>1. /\ i \in DOMAIN returned /\ j \in DOMAIN returned
                /\ returned'[i] = returned[i] /\ returned'[j] = returned[j]
            BY <2>1, <3>1, <4>2
          <5> QED
            BY <1>0, <3>1, <5>1 DEF Guarded, AcceptedOnce
        <4> QED
          BY <4>1, <4>2
      <3> QED
        BY <3>1 DEF AcceptedOnce
    <2>6. Blocks(file)' /\ Blocks(durable)'
      BY <2>1, <2>3, <2>4 DEF Blocks
    <2> QED
      BY <2>1, <2>5, <2>6 DEF Guarded, Fresh
  <1>7. ASSUME NEW undone \in BOOLEAN, PowerLoss(undone) PROVE Guarded'
    BY <1>0, <1>7 DEF PowerLoss, Guarded, Blocks, Fresh, AcceptedOnce
  <1>8. CASE DamageFile
    BY <1>0, <1>8 DEF DamageFile, Guarded, Blocks, Fresh, AcceptedOnce
  <1> QED
    BY <1>2, <1>3, <1>4, <1>5, <1>6, <1>7, <1>8 DEF Next, Finish

\* No rollback index is accepted twice or after a higher one, whatever crashes
\* and contention come in between.
THEOREM NoReplay == Spec => []AcceptedOnce
  <1>1. ReplayInv /\ [Next]_vars => ReplayInv'
    <2>1. CASE UNCHANGED vars
      BY <2>1 DEF vars, ReplayInv, EnvelopeTypeOK, Mutex, Blocks, Fresh, AcceptedOnce
    <2> QED
      BY <2>1, TypeStep, MutexStep, GuardedStep DEF ReplayInv, Guarded
  <1>2. ReplayInv => AcceptedOnce
    BY DEF ReplayInv
  <1> QED
    BY <1>1, <1>2, InitReplay, PTL DEF Spec

-----------------------------------------------------------------------------
(* The verifiers *)

Sealing(s) == \E p \in Payloads, k \in Keys, i \in 0 .. MaxIndex :
    p.size <= MaxSize /\ s = SealEnvelope(p, k, i)

\* Tags come from seal only.
TagInv ==
    /\ \A s \in sealed : Sealing(s)
    /\ \A e \in transit :
        /\ IsEnvelope(e)
        /\ e.tag # << >> => \E s \in sealed : e.tag = s.tag

\* No step puts a tag into circulation that seal did not compute.
LEMMA TagStep == TagInv /\ [Next]_vars => TagInv'
  <1> SUFFICES ASSUME TagInv, [Next]_vars PROVE TagInv'
    OBVIOUS
  <1>1. ASSUME NEW payload \in Payloads, NEW key \in Keys, NEW index \in 0 .. MaxIndex,
               Seal(payload, key, index)
        PROVE  TagInv'
    <2> DEFINE s == SealEnvelope(payload, key, index)
    <2>1. sealed' = sealed \cup {s} /\ transit' = transit \cup {s} /\ Sealing(s)
      BY <1>1 DEF Seal, Sealing
    <2>2. IsEnvelope(s)
      BY SealFacts
    <2> HIDE DEF s
    <2> QED
      BY <2>1, <2>2 DEF TagInv
  <1>2. CASE Alter
    <2>1. PICK e \in transit : \E v \in Variants(e) \ transit : transit' = transit \cup {v}
      BY <1>2 DEF Alter
    <2>2. PICK v \in Variants(e) : transit' = transit \cup {v}
      BY <2>1
    <2>3. IsEnvelope(v) /\ (v.tag = e.tag \/ v.tag = << >>)
      BY VariantFacts DEF TagInv
    <2> QED
      BY <1>2, <2>2, <2>3 DEF TagInv, Alter
  <1>3. CASE UNCHANGED <<sealed, transit>>
    BY <1>3 DEF TagInv
  <1> QED
    BY <1>1, <1>2, <1>3
    DEF Next, Finish, vars, Call, Acquire, Refuse, Admit, Replace, SyncAndReturn,
        Fail, Die, PowerLoss, DamageFile

\* An envelope whose tag is the MAC of its own fields was sealed as it is.
LEMMA GenuineFacts ==
    ASSUME TagInv, NEW e \in transit, KnownKey(e)
    PROVE  /\ MacOk(e) <=> e \in sealed
           /\ e \in sealed => /\ e.head = "ok" /\ e.size = e.payload.size
                              /\ e.payload.size <= MaxSize
  <1>1. \A s \in sealed :
            /\ IsEnvelope(s) /\ s.head = "ok" /\ s.size = s.payload.size
            /\ s.payload.size <= MaxSize
            /\ s.tag = <<s.id, s.head, s.size, s.index, s.id, s.payload>>
    <2> SUFFICES ASSUME NEW s \in sealed
                 PROVE  /\ IsEnvelope(s) /\ s.head = "ok" /\ s.size = s.payload.size
                        /\ s.payload.size <= MaxSize
                        /\ s.tag = <<s.id, s.head, s.size, s.index, s.id, s.payload>>
      OBVIOUS
    <2>1. PICK p \in Payloads, k \in Keys, i \in 0 .. MaxIndex :
            p.size <= MaxSize /\ s = SealEnvelope(p, k, i)
      BY DEF TagInv, Sealing
    <2> QED
      BY <2>1, SealFacts
  <1>2. MacOk(e) <=> e.tag = <<e.id, e.head, e.size, e.index, e.id, e.payload>>
    BY DEF MacOk, Mac, KnownKey
  <1>3. e \in sealed => MacOk(e)
    BY <1>1, <1>2
  <1>4. ASSUME MacOk(e) PROVE e \in sealed
    <2>0. e.tag # << >>
      <3>1. e.tag = <<e.id, e.head, e.size, e.index, e.id, e.payload>>
        BY <1>2, <1>4
      <3>2. Len(e.tag) = 6 /\ Len(<< >>) = 0
        BY <3>1
      <3> QED
        BY SMTT(30), <3>2
    <2>1. PICK s \in sealed : e.tag = s.tag
      BY <2>0 DEF TagInv
    <2>2. <<e.id, e.head, e.size, e.index, e.id, e.payload>> =
          <<s.id, s.head, s.size, s.index, s.id, s.payload>>
      BY <1>1, <1>2, <1>4, <2>1
    <2>3. /\ e.id = s.id /\ e.head = s.head /\ e.size = s.size /\ e.index = s.index
          /\ e.payload = s.payload
      BY <2>2
    <2>4. e = [head |-> e.head, size |-> e.size, index |-> e.index, id |-> e.id,
               payload |-> e.payload, tag |-> e.tag]
      BY DEF TagInv, IsEnvelope
    <2>5. s = [head |-> s.head, size |-> s.size, index |-> s.index, id |-> s.id,
               payload |-> s.payload, tag |-> s.tag]
      BY <1>1 DEF IsEnvelope
    <2>6. e = s
      BY <2>1, <2>3, <2>4, <2>5
    <2> QED
      BY <2>6
  <1> QED
    BY <1>1, <1>3, <1>4

\* The Python, the C and the Rust verifier accept the same envelopes, for every
\* key store and every minimum.
THEOREM VerifiersAgree == Spec => []VerifiersAreExact
  <1>1. Init => TagInv
    BY DEF Init, TagInv
  <1>2. ASSUME TagInv, NEW e \in transit, NEW minimum \in 0 .. MaxIndex
        PROVE  LET genuine == e \in sealed /\ KnownKey(e) /\ e.payload.valid IN
               /\ Verify(e, minimum) = "ok" <=> genuine /\ e.index >= minimum
               /\ AuthParse(e, minimum) = "ok" <=> genuine /\ e.index >= minimum
               /\ RustParse(e) = "ok" /\ KnownKey(e) /\ MacOk(e) <=> genuine
    <2>1. /\ e.payload.size \in Nat /\ e.payload.valid \in BOOLEAN /\ e.index \in Int
          /\ minimum \in Int /\ MaxSize \in Int
      BY <1>2, EnvelopeAssumption DEF TagInv, IsEnvelope
    <2>2. ~(e.index < minimum) <=> e.index >= minimum
      BY <2>1
    <2>3. ~(e.payload.size > MaxSize) <=> e.payload.size <= MaxSize
      BY <2>1
    <2>4. CASE KnownKey(e)
      <3>1. /\ MacOk(e) <=> e \in sealed
            /\ e \in sealed => /\ e.head = "ok" /\ e.size = e.payload.size
                               /\ e.payload.size <= MaxSize
        BY <1>2, <2>4, GenuineFacts
      <3> QED
        BY <2>2, <2>3, <2>4, <3>1 DEF Verify, AuthParse, RustParse
    <2>5. CASE ~KnownKey(e)
      BY <2>5 DEF Verify, AuthParse, RustParse
    <2> QED
      BY <2>4, <2>5
  <1>3. TagInv => VerifiersAreExact
    BY <1>2 DEF VerifiersAreExact
  <1> QED
    BY <1>1, <1>3, TagStep, PTL DEF Spec

=============================================================================
