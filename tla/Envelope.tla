------------------------------ MODULE Envelope ------------------------------
(***************************************************************************)
(* The authenticated envelope of v2 capsules.  tools/bbp_v2_envelope.py    *)
(* seals and verifies it and, in verify_and_commit, keeps the highest      *)
(* accepted rollback index in a state file under an advisory lock.         *)
(* v2/bbp_v2_auth.c and sdk/rust/bbp-wire/src/auth.rs verify it too.       *)
(* The lock is the code's (line 191 of bbp_v2_envelope.py); the documents  *)
(* deny it: see AcceptedOnce.                                              *)
(*                                                                         *)
(* Callers present envelopes concurrently, also old and altered ones.  A   *)
(* caller may die between any two steps, a file operation may fail, power  *)
(* may be lost (a rename not yet covered by a directory fsync may then be  *)
(* undone), and the state file may be corrupted.                           *)
(*                                                                         *)
(* A key stands for its identity too, and a MAC for the key and all it was *)
(* computed over.                                                          *)
(***************************************************************************)
EXTENDS Integers, FiniteSets, Sequences

CONSTANTS
    Callers,    \* processes calling verify_and_commit
    Keys,       \* HMAC keys
    Payloads,   \* [size, valid]: valid as _validate_v2_capsule says
    Stores,     \* key stores: functions from identities to keys
    MaxIndex,   \* UINT64_MAX for rollback indices
    MaxSize,    \* MAX_CAPSULE_SIZE
    MaxTransit, \* bound on the envelopes in transit, sealed or altered
    MaxDamage   \* bound on corruptions of the state file

ASSUME EnvelopeAssumption ==
    /\ MaxIndex \in Nat /\ MaxSize \in Nat
    /\ MaxTransit \in Nat /\ MaxDamage \in Nat
    /\ \A p \in Payloads : p.size \in Nat /\ p.valid \in BOOLEAN

Nobody == "nobody"

ASSUME NobodyAssumption == Nobody \notin Callers

VARIABLES
    store,     \* the key store callers pass
    transit,   \* envelopes callers may present
    file,      \* the state file, as processes read it
    durable,   \* what a power loss would leave of it
    lock,      \* holder of <state_path>.lock
    pc, arg,   \* per caller: where it is in verify_and_commit, its envelope
    returned,  \* history: rollback indices of the payloads returned, in order
    sealed,    \* history: envelopes made by seal
    damage     \* history: corruptions of the state file

vars == <<store, transit, file, durable, lock, pc, arg, returned,
          sealed, damage>>

Absent == [kind |-> "absent"]
Corrupt == [kind |-> "corrupt"]
State(index, key) == [kind |-> "state", index |-> index, key |-> key]

-----------------------------------------------------------------------------
\* hmac.new over the header with its tag cleared, and the payload (external).
Mac(key, e) == <<key, e.head, e.size, e.index, e.id, e.payload>>

\* seal, for arguments it takes.
SealEnvelope(payload, key, index) ==
    LET e == [head |-> "ok", size |-> payload.size, index |-> index, id |-> key,
              payload |-> payload, tag |-> << >>]
    IN  [e EXCEPT !.tag = Mac(key, e)]

\* keys.get and the comparison of the identity with the key found.
KnownKey(e) == e.id \in DOMAIN store /\ store[e.id] = e.id

MacOk(e) == e.tag = Mac(store[e.id], e)

\* Fault: an index equal to the minimum is refused.
VerifyAbove(e, minimum) ==
    IF e.payload.size > MaxSize THEN "limit"
    ELSE IF e.head # "ok" THEN "framing"
    ELSE IF e.size # e.payload.size THEN "extent"
    ELSE IF e.index <= minimum THEN "rollback"
    ELSE IF ~KnownKey(e) THEN "key"
    ELSE IF ~MacOk(e) THEN "mac"
    ELSE IF ~e.payload.valid THEN "capsule"
    ELSE "ok"

\* verify.
Verify(e, minimum) ==
    IF e.payload.size > MaxSize THEN "limit"
    ELSE IF e.head # "ok" THEN "framing"
    ELSE IF e.size # e.payload.size THEN "extent"
    ELSE IF e.index < minimum THEN "rollback"
    ELSE IF ~KnownKey(e) THEN "key"
    ELSE IF ~MacOk(e) THEN "mac"
    ELSE IF ~e.payload.valid THEN "capsule"
    ELSE "ok"

\* bbp_v2_auth_parse with a verify_mac callback that looks the key up and a
\* policy callback that compares the index.
AuthParse(e, minimum) ==
    IF e.payload.size > MaxSize THEN "extent"
    ELSE IF e.head # "ok" THEN e.head
    ELSE IF e.size > MaxSize \/ e.size # e.payload.size THEN "extent"
    ELSE IF ~(KnownKey(e) /\ MacOk(e)) THEN "mac"
    ELSE IF ~e.payload.valid THEN "capsule"
    ELSE IF e.index < minimum THEN "policy"
    ELSE "ok"

\* V2AuthEnvelopeRef::parse, which leaves MAC and index to its caller.
RustParse(e) ==
    IF e.head # "ok" THEN e.head
    ELSE IF e.payload.size > MaxSize \/ e.size # e.payload.size THEN "extent"
    ELSE IF ~e.payload.valid THEN "capsule"
    ELSE "ok"

-----------------------------------------------------------------------------
Init ==
    /\ store \in Stores
    /\ transit = {} /\ sealed = {}
    /\ file = Absent /\ durable = Absent
    /\ lock = Nobody
    /\ pc = [c \in Callers |-> "idle"]
    /\ arg = [c \in Callers |-> Nobody]
    /\ returned = << >>
    /\ damage = 0

Seal(payload, key, index) ==
    /\ Cardinality(transit) < MaxTransit
    /\ payload.size <= MaxSize
    /\ sealed' = sealed \cup {SealEnvelope(payload, key, index)}
    /\ transit' = transit \cup {SealEnvelope(payload, key, index)}
    /\ UNCHANGED <<store, file, durable, lock, pc, arg, returned, damage>>

\* A copy reaches a caller with one field changed (external).
Variants(e) ==
    {[e EXCEPT !.head = h] : h \in {"magic", "version", "algorithm", "flags"}}
    \cup {[e EXCEPT !.size = @ + 1], [e EXCEPT !.tag = << >>]}
    \cup {[e EXCEPT !.index = i] : i \in 0 .. MaxIndex}
    \cup {[e EXCEPT !.id = k] : k \in Keys}
    \cup {[e EXCEPT !.payload = p] : p \in Payloads}
    \cup {[e EXCEPT !.payload = p, !.size = p.size] : p \in Payloads}

Alter ==
    /\ Cardinality(transit) < MaxTransit
    /\ \E e \in transit : \E v \in Variants(e) \ transit :
        transit' = transit \cup {v}
    /\ UNCHANGED <<store, file, durable, lock, pc, arg, returned, sealed, damage>>

-----------------------------------------------------------------------------
(* verify_and_commit *)

Goto(c, label) == pc' = [pc EXCEPT ![c] = label]

Call(c, e) ==
    /\ pc[c] = "idle"
    /\ Goto(c, "lock")
    /\ arg' = [arg EXCEPT ![c] = e]
    /\ UNCHANGED <<store, transit, file, durable, lock, returned, sealed, damage>>

\* flock.
Acquire(c) ==
    /\ pc[c] = "lock" /\ lock = Nobody
    /\ lock' = c
    /\ Goto(c, "check")
    /\ UNCHANGED <<store, transit, file, durable, arg, returned, sealed, damage>>

\* Fault: the lock is not dropped.
LeaveLocked(c) ==
    /\ Goto(c, "idle")
    /\ arg' = [arg EXCEPT ![c] = Nobody]
    /\ UNCHANGED lock

\* The finally clause that drops the lock.
Leave(c) ==
    /\ lock' = Nobody
    /\ Goto(c, "idle")
    /\ arg' = [arg EXCEPT ![c] = Nobody]

\* The least index verify accepts over a state file it can read.
Minimum(f) == IF f = Absent THEN 0 ELSE f.index + 1

\* _load_state and the checks of verify_and_commit before policy.
Acceptable(c) ==
    /\ file # Corrupt
    /\ file # Absent => file.index # MaxIndex
    /\ Verify(arg[c], Minimum(file)) = "ok"

\* It raises, or policy refuses.
Refuse(c) ==
    /\ pc[c] = "check"
    /\ Leave(c)
    /\ UNCHANGED <<store, transit, file, durable, returned, sealed, damage>>

\* policy agrees, or there is none.
Admit(c) ==
    /\ pc[c] = "check" /\ Acceptable(c)
    /\ Goto(c, "write")
    /\ UNCHANGED <<store, transit, file, durable, lock, arg, returned,
                   sealed, damage>>

\* The state is written to a temporary file of this caller's own, synced, and
\* renamed to the state file.
Replace(c) ==
    /\ pc[c] = "write"
    /\ file' = State(arg[c].index, arg[c].id)
    /\ Goto(c, "sync")
    /\ UNCHANGED <<store, transit, durable, lock, arg, returned, sealed, damage>>

\* Fault: the directory is not synced.
SyncAndReturnUnsynced(c) ==
    /\ pc[c] = "sync"
    /\ returned' = Append(returned, arg[c].index)
    /\ Leave(c)
    /\ UNCHANGED <<store, transit, file, durable, sealed, damage>>

\* fsync of the directory, then the payload is returned.
SyncAndReturn(c) ==
    /\ pc[c] = "sync"
    /\ durable' = file
    /\ returned' = Append(returned, arg[c].index)
    /\ Leave(c)
    /\ UNCHANGED <<store, transit, file, sealed, damage>>

\* An OSError: nothing is returned, though the state file may have advanced.
Fail(c) ==
    /\ pc[c] \in {"write", "sync"}
    /\ Leave(c)
    /\ UNCHANGED <<store, transit, file, durable, returned, sealed, damage>>

Finish(c) ==
    Refuse(c) \/ Admit(c) \/ Replace(c) \/ SyncAndReturn(c) \/ Fail(c)

-----------------------------------------------------------------------------
\* A caller dies; the system drops its lock.
Die(c) ==
    /\ pc[c] # "idle"
    /\ lock' = IF lock = c THEN Nobody ELSE lock
    /\ Goto(c, "idle")
    /\ arg' = [arg EXCEPT ![c] = Nobody]
    /\ UNCHANGED <<store, transit, file, durable, returned, sealed, damage>>

PowerLoss(undone) ==
    /\ file' = IF undone THEN durable ELSE file
    /\ durable' = file'
    /\ lock' = Nobody
    /\ pc' = [c \in Callers |-> "idle"]
    /\ arg' = [c \in Callers |-> Nobody]
    /\ UNCHANGED <<store, transit, returned, sealed, damage>>

DamageFile ==
    /\ damage < MaxDamage /\ file # Absent
    /\ file' = Corrupt /\ durable' = Corrupt
    /\ damage' = damage + 1
    /\ UNCHANGED <<store, transit, lock, pc, arg, returned, sealed>>

Next ==
    \/ \E payload \in Payloads, key \in Keys, index \in 0 .. MaxIndex :
        Seal(payload, key, index)
    \/ Alter
    \/ \E c \in Callers : (\E e \in transit : Call(c, e)) \/ Acquire(c) \/ Finish(c) \/ Die(c)
    \/ \E undone \in BOOLEAN : PowerLoss(undone)
    \/ DamageFile

\* A running caller runs on.  That flock serves a waiter in the end is an
\* assumption on the system: flock promises no order among waiters.
Fairness == \A c \in Callers : WF_vars(Finish(c)) /\ SF_vars(Acquire(c))

Spec == Init /\ [][Next]_vars
FairSpec == Spec /\ Fairness

-----------------------------------------------------------------------------
\* Whatever is presented, in whatever order and by however many callers, and
\* whatever died, failed or lost power in between: a payload is returned only
\* if its rollback index is above that of every payload returned before.
\* It rests on the flock of verify_and_commit.  The documents promise less:
\* docs/rfc/0003-bbp-v2-auth-envelope.md:71-74 says "single-writer only. There
\* is no file lock [...] Callers must serialize all acceptance attempts for a
\* state path", docs/adr/0015-authenticated-envelope.md:14 and CHANGELOG.md:77
\* call the state file single-writer.  By the code, concurrent callers of one
\* state path need no serialization of their own.
AcceptedOnce ==
    \A i, j \in DOMAIN returned : i < j => returned[i] < returned[j]

\* The three verifiers, which test in different orders and trust different
\* lengths, accept the same envelopes: those that seal made with a key filed
\* under its own identity, over a valid capsule, at an index not below the
\* minimum.
VerifiersAreExact ==
    \A e \in transit, minimum \in 0 .. MaxIndex :
        LET genuine == e \in sealed /\ KnownKey(e) /\ e.payload.valid IN
        /\ Verify(e, minimum) = "ok" <=> genuine /\ e.index >= minimum
        /\ AuthParse(e, minimum) = "ok" <=> genuine /\ e.index >= minimum
        /\ RustParse(e) = "ok" /\ KnownKey(e) /\ MacOk(e) <=> genuine

\* Every call of verify_and_commit ends, however many callers contend for the
\* lock that RFC 0003 says is not there, as long as flock starves none of them.
CallersReturn == \A c \in Callers : pc[c] # "idle" ~> pc[c] = "idle"

=============================================================================
