--------------------------- MODULE RollbackJournal ---------------------------
(***************************************************************************)
(* The durable generation journal, tools/bbp_rollback_state.py: an A/B     *)
(* pair of record files under an advisory lock, bounded by a monotonic     *)
(* generation floor that an injected provider owns and that other          *)
(* journals may advance too.                                               *)
(*                                                                         *)
(* Processes load and commit concurrently.  A process may die between any  *)
(* two steps, a write may fail, the machine may lose power (renames not    *)
(* yet covered by a directory fsync may then be undone), files may be      *)
(* corrupted or deleted, and reading one may fail.                         *)
(***************************************************************************)
EXTENDS Integers, FiniteSets

CONSTANTS
    Procs,      \* processes using the journal
    Configs,    \* (active_slot, pending_slot) pairs that _validate_slots takes
    AnyRole,    \* artifact roles callers pass, known or not
    MaxGen,     \* UINT64_MAX for generations
    MaxSeq,     \* UINT64_MAX for sequence numbers
    MaxDamage   \* bound on files damaged and loads that could not read one

ASSUME JournalAssumption ==
    /\ MaxGen \in Nat /\ MaxSeq \in Nat \ {0} /\ MaxDamage \in Nat

Free == "free"
Unset == "unset"

ASSUME NamesAssumption == Free \notin Procs /\ Unset \notin Configs

VARIABLES
    floor,     \* the provider's floor
    slot,      \* 0 -> <path>.a, 1 -> <path>.b, as processes read them
    unsynced,  \* slots renamed since the last directory fsync -> durable content
    lock,      \* holder of <path>.lock
    pc, loc,   \* per process: where it is in load or commit, and its locals
    seen,      \* per process: the sequence its caller last learned
    acked,     \* history: highest sequence a commit has returned
    damage     \* history: number of files damaged and of failed reads

vars == <<floor, slot, unsynced, lock, pc, loc, seen, acked, damage>>

Missing == [kind |-> "missing"]
Corrupt == [kind |-> "corrupt"]
Record(seq, gen, cfg) ==
    [kind |-> "record", seq |-> seq, gen |-> gen, cfg |-> cfg]

IsRecord(x) == x.kind = "record"

Roles == {"release", "recovery"}

-----------------------------------------------------------------------------
\* _policy, and bbp_boot_policy_evaluate in experimental/rollback.
Policy(f, gen, role) ==
    IF role \notin Roles THEN "role"
    ELSE IF f = MaxGen /\ gen # f THEN "exhausted"
    ELSE IF gen < f THEN "rollback"
    ELSE IF gen = f THEN "retry"
    ELSE IF gen - f # 1 THEN "gap"
    ELSE IF role = "recovery" THEN "role"
    ELSE "update"

\* _load_unlocked over files s and a floor f the caller read before.
LoadUnlocked(s, f) ==
    LET valid == {i \in {0, 1} : IsRecord(s[i])}
        newest == {i \in valid : \A j \in valid : s[j].seq <= s[i].seq}
        r == s[CHOOSE i \in newest : TRUE]
    IN  IF valid = {}
        THEN IF s[0] = Missing /\ s[1] = Missing THEN Record(0, f, Unset)
             ELSE Corrupt
        ELSE IF (\E i, j \in newest : s[i] # s[j]) \/ r.gen > f THEN Corrupt
        ELSE IF r.gen < f THEN Record(r.seq, f, Unset)
        ELSE r

-----------------------------------------------------------------------------
NoLocals == [op |-> "none", gen |-> 0, role |-> "release", cfg |-> Unset,
             since |-> 0, floor |-> 0, cur |-> Missing, rounds |-> 0]

Init ==
    /\ floor = 0
    /\ slot = [i \in {0, 1} |-> Missing]
    /\ unsynced = [i \in {} |-> Missing]
    /\ lock = Free
    /\ pc = [p \in Procs |-> "idle"]
    /\ loc = [p \in Procs |-> NoLocals]
    /\ seen = [p \in Procs |-> 0]
    /\ acked = 0 /\ damage = 0

Goto(p, label) == pc' = [pc EXCEPT ![p] = label]

\* since records the floor at the moment of the call.
StartLoad(p) ==
    /\ pc[p] = "idle"
    /\ Goto(p, "lock")
    /\ loc' = [loc EXCEPT ![p] = [NoLocals EXCEPT !.op = "load", !.since = floor]]
    /\ UNCHANGED <<floor, slot, unsynced, lock, seen, acked, damage>>

StartCommit(p, gen, role, cfg) ==
    /\ pc[p] = "idle"
    /\ Goto(p, "lock")
    /\ loc' = [loc EXCEPT ![p] =
                [NoLocals EXCEPT !.op = "commit", !.gen = gen, !.role = role,
                                 !.cfg = cfg, !.since = floor]]
    /\ UNCHANGED <<floor, slot, unsynced, lock, seen, acked, damage>>

Acquire(p) ==
    /\ pc[p] = "lock" /\ lock = Free
    /\ lock' = p
    /\ Goto(p, "read")
    /\ UNCHANGED <<floor, slot, unsynced, loc, seen, acked, damage>>

ReadFloor(p) ==
    /\ pc[p] = "read"
    /\ loc' = [loc EXCEPT ![p].floor = floor, ![p].rounds = @ + 1]
    /\ Goto(p, "load")
    /\ UNCHANGED <<floor, slot, unsynced, lock, seen, acked, damage>>

\* Leaving the with block, by return or by exception.
Leave(p) ==
    /\ lock' = Free
    /\ Goto(p, "idle")
    /\ loc' = [loc EXCEPT ![p] = NoLocals]

\* What the files are to _load_unlocked if those in failed cannot be read: it
\* takes an OSError for a corrupt file.
Reads(failed) == [i \in {0, 1} |-> IF i \in failed THEN Corrupt ELSE slot[i]]

Unread(failed) ==
    /\ failed # {} => damage < MaxDamage
    /\ damage' = IF failed = {} THEN damage ELSE damage + 1

\* load returns the state it found, or raises.
LoadReturns(p) ==
    /\ pc[p] = "load" /\ loc[p].op = "load"
    /\ \E failed \in SUBSET {0, 1} :
        LET r == LoadUnlocked(Reads(failed), loc[p].floor) IN
        /\ Unread(failed)
        /\ seen' = IF IsRecord(r) THEN [seen EXCEPT ![p] = r.seq] ELSE seen
    /\ Leave(p)
    /\ UNCHANGED <<floor, slot, unsynced, acked>>

\* Fault: the expected sequence is not compared.
AdmittedStale(p, r) ==
    /\ IsRecord(r)
    /\ r.seq # MaxSeq
    /\ Policy(loc[p].floor, loc[p].gen, loc[p].role) \in {"retry", "update"}

\* Fault: the end of the sequence is not noticed.
AdmittedToTheEnd(p, r) ==
    /\ IsRecord(r)
    /\ r.seq = seen[p]
    /\ Policy(loc[p].floor, loc[p].gen, loc[p].role) \in {"retry", "update"}

\* The checks of one round of commit's loop, which has loaded r.
Admitted(p, r) ==
    /\ IsRecord(r)
    /\ r.seq = seen[p]
    /\ r.seq # MaxSeq
    /\ Policy(loc[p].floor, loc[p].gen, loc[p].role) \in {"retry", "update"}

CommitRaises(p) ==
    /\ pc[p] = "load" /\ loc[p].op = "commit"
    /\ \E failed \in SUBSET {0, 1} :
        /\ Unread(failed)
        /\ ~Admitted(p, LoadUnlocked(Reads(failed), loc[p].floor))
    /\ Leave(p)
    /\ UNCHANGED <<floor, slot, unsynced, seen, acked>>

\* Fault: the record is written before the floor is advanced.
CommitAdmittedUnfloored(p) ==
    /\ pc[p] = "load" /\ loc[p].op = "commit"
    /\ \E failed \in SUBSET {0, 1} :
        LET r == LoadUnlocked(Reads(failed), loc[p].floor) IN
        /\ Unread(failed) /\ Admitted(p, r)
        /\ loc' = [loc EXCEPT ![p].cur = r]
    /\ Goto(p, "write")
    /\ UNCHANGED <<floor, slot, unsynced, lock, seen, acked>>

CommitAdmitted(p) ==
    /\ pc[p] = "load" /\ loc[p].op = "commit"
    /\ \E failed \in SUBSET {0, 1} :
        LET r == LoadUnlocked(Reads(failed), loc[p].floor) IN
        /\ Unread(failed) /\ Admitted(p, r)
        /\ loc' = [loc EXCEPT ![p].cur = r]
    /\ Goto(p, IF Policy(loc[p].floor, loc[p].gen, loc[p].role) = "retry"
               THEN "write" ELSE "advance")
    /\ UNCHANGED <<floor, slot, unsynced, lock, seen, acked>>

\* compare_and_advance succeeds.
Advance(p) ==
    /\ pc[p] = "advance"
    /\ floor = loc[p].floor /\ floor # MaxGen /\ loc[p].gen = floor + 1
    /\ floor' = loc[p].gen
    /\ Goto(p, "write")
    /\ UNCHANGED <<slot, unsynced, lock, loc, seen, acked, damage>>

\* It fails on a moved floor; the abstract provider may also just refuse.
AdvanceFails(p) ==
    /\ pc[p] = "advance"
    /\ Goto(p, "reread")
    /\ UNCHANGED <<floor, slot, unsynced, lock, loc, seen, acked, damage>>

AdvanceRefused(p) ==
    /\ pc[p] = "reread" /\ floor = loc[p].floor
    /\ Leave(p)
    /\ UNCHANGED <<floor, slot, unsynced, seen, acked, damage>>

\* Fault: a refused advance is retried although the floor did not move.
NextRoundAlways(p) ==
    /\ pc[p] = "reread"
    /\ Goto(p, "read")
    /\ UNCHANGED <<floor, slot, unsynced, lock, loc, seen, acked, damage>>

NextRound(p) ==
    /\ pc[p] = "reread" /\ floor # loc[p].floor
    /\ Goto(p, "read")
    /\ UNCHANGED <<floor, slot, unsynced, lock, loc, seen, acked, damage>>

\* Fault: the sequence is not incremented.
NewRecordSameSeq(p) == Record(loc[p].cur.seq, loc[p].gen, loc[p].cfg)

\* _write_slot up to os.replace: the complete record appears atomically.
NewRecord(p) == Record(loc[p].cur.seq + 1, loc[p].gen, loc[p].cfg)

\* Fault: the files do not alternate.
TargetFixed(p) == 0

Target(p) == (loc[p].cur.seq + 1) % 2

WriteSlot(p) ==
    LET t == Target(p) IN
    /\ pc[p] = "write"
    /\ slot' = [slot EXCEPT ![t] = NewRecord(p)]
    /\ unsynced' = [i \in DOMAIN unsynced \cup {t} |->
                        IF i \in DOMAIN unsynced THEN unsynced[i] ELSE slot[i]]
    /\ Goto(p, "sync")
    /\ UNCHANGED <<floor, lock, loc, seen, acked, damage>>

\* Fault: the directory is not synced.
SyncAndReturnUnsynced(p) ==
    /\ pc[p] = "sync"
    /\ seen' = [seen EXCEPT ![p] = NewRecord(p).seq]
    /\ acked' = IF acked < NewRecord(p).seq THEN NewRecord(p).seq ELSE acked
    /\ Leave(p)
    /\ UNCHANGED <<floor, slot, unsynced, damage>>

\* fsync of the directory, then return the state to the caller.
SyncAndReturn(p) ==
    /\ pc[p] = "sync"
    /\ unsynced' = [i \in {} |-> Missing]
    /\ seen' = [seen EXCEPT ![p] = NewRecord(p).seq]
    /\ acked' = IF acked < NewRecord(p).seq THEN NewRecord(p).seq ELSE acked
    /\ Leave(p)
    /\ UNCHANGED <<floor, slot, damage>>

\* An OSError before or after the rename: the with block unwinds.
WriteFails(p) ==
    /\ pc[p] \in {"write", "sync"}
    /\ Leave(p)
    /\ UNCHANGED <<floor, slot, unsynced, seen, acked, damage>>

Step(p) ==
    \/ Acquire(p) \/ ReadFloor(p) \/ LoadReturns(p)
    \/ CommitRaises(p) \/ CommitAdmitted(p)
    \/ Advance(p) \/ AdvanceFails(p) \/ AdvanceRefused(p) \/ NextRound(p)
    \/ WriteSlot(p) \/ SyncAndReturn(p) \/ WriteFails(p)

-----------------------------------------------------------------------------
\* A process dies; the system drops its lock.
Die(p) ==
    /\ pc[p] # "idle"
    /\ lock' = IF lock = p THEN Free ELSE lock
    /\ Goto(p, "idle")
    /\ loc' = [loc EXCEPT ![p] = NoLocals]
    /\ UNCHANGED <<floor, slot, unsynced, seen, acked, damage>>

\* Power is lost: any set of unsynced renames is undone.
PowerLoss(undone) ==
    /\ slot' = [i \in {0, 1} |-> IF i \in undone THEN unsynced[i] ELSE slot[i]]
    /\ unsynced' = [i \in {} |-> Missing]
    /\ lock' = Free
    /\ pc' = [p \in Procs |-> "idle"]
    /\ loc' = [p \in Procs |-> NoLocals]
    /\ UNCHANGED <<floor, seen, acked, damage>>

\* Another journal on the same provider advances the floor.
OthersAdvance ==
    /\ floor < MaxGen
    /\ floor' = floor + 1
    /\ UNCHANGED <<slot, unsynced, lock, pc, loc, seen, acked, damage>>

DamageSlot(i, how) ==
    /\ damage < MaxDamage
    /\ slot[i] # Missing
    /\ slot' = [slot EXCEPT ![i] = how]
    /\ unsynced' = [j \in DOMAIN unsynced \ {i} |-> unsynced[j]]
    /\ damage' = damage + 1
    /\ UNCHANGED <<floor, lock, pc, loc, seen, acked>>

Environment ==
    \/ \E p \in Procs : Die(p)
    \/ \E undone \in SUBSET DOMAIN unsynced : PowerLoss(undone)
    \/ OthersAdvance
    \/ \E i \in {0, 1}, how \in {Missing, Corrupt} : DamageSlot(i, how)

Call(p) ==
    \/ StartLoad(p)
    \/ \E gen \in 0 .. MaxGen, role \in AnyRole, cfg \in Configs :
        StartCommit(p, gen, role, cfg)

Next == (\E p \in Procs : Call(p) \/ Step(p)) \/ Environment

Spec == Init /\ [][Next]_vars

-----------------------------------------------------------------------------
\* The floor is advanced before a record is published, so no file, not even
\* one a power loss brings back, ever claims a generation above the floor:
\* the "exceeds monotonic authority" refusal is never raised.  Nor does the
\* sequence ever leave its integer range.
RecordsBelowFloor ==
    /\ \A i \in {0, 1} : IsRecord(slot[i]) => slot[i].seq <= MaxSeq
    /\ \A i \in {0, 1} : IsRecord(slot[i]) => slot[i].gen <= floor
    /\ \A i \in DOMAIN unsynced : IsRecord(unsynced[i]) => unsynced[i].gen <= floor

\* A commit that gets as far as writing publishes a generation that is not
\* below the floor in force when it was called, and not above the present
\* one, although the floor may move between any two of its steps.
NoRollbackAccepted ==
    \A p \in Procs : pc[p] \in {"write", "sync"} =>
        loc[p].since <= loc[p].gen /\ loc[p].gen <= floor

\* A bound on the steps p takes before it gives the lock back.
StepsLeft(p) ==
    5 * (2 - loc[p].rounds) +
    CASE pc[p] = "load" -> 4
      [] pc[p] = "advance" -> 3
      [] pc[p] \in {"reread", "write"} -> 2
      [] pc[p] \in {"read", "sync"} -> 1
      [] OTHER -> 0

\* Nobody waits for ever on a holder of the lock.  The compare-and-advance loop
\* has no bound in the code; however often others advance the floor, it takes
\* at most two rounds, and every step of a holder brings it closer to leaving
\* the with block.
HoldIsBounded ==
    [][\A p \in Procs :
        lock = p /\ lock' = p /\ <<pc[p], loc[p]>>' # <<pc[p], loc[p]>> =>
            0 <= StepsLeft(p)' /\ StepsLeft(p)' < StepsLeft(p)]_vars

\* Stale writers receive a conflict rather than overwriting newer state
\* (ADR-0018): while no file was damaged and every read succeeded, a commit
\* about to be published was prepared by a caller that knew of every commit
\* already returned.  (A failed read of the newest file hides it from the
\* comparison: the code falls back to the other file instead of raising.)
StaleWritersConflict ==
    damage = 0 =>
        \A p \in Procs : pc[p] \in {"write", "sync"} => acked <= seen[p]

\* What a power loss that undoes the renames of u would leave in the files.
After(u) == [i \in {0, 1} |-> IF i \in u THEN unsynced[i] ELSE slot[i]]

\* A commit that has returned survives process deaths, failed writes and power
\* losses, but for damage or a failed read: whatever renames are undone, a
\* record at least as new remains.
AckedIsDurable ==
    damage = 0 /\ acked > 0 =>
        \A u \in SUBSET DOMAIN unsynced :
            \E i \in {0, 1} : IsRecord(After(u)[i]) /\ After(u)[i].seq >= acked

\* The A/B journal tolerates one torn, corrupt or deleted file, or one failed
\* read, once both have been written: it still loads, also if power is lost next.
OneDamagedFileTolerated ==
    damage <= 1 /\ acked >= 2 =>
        \A u \in SUBSET DOMAIN unsynced : IsRecord(LoadUnlocked(After(u), floor))

\* The record of highest sequence in a pair of files.
NewestOf(d) ==
    LET valid == {i \in {0, 1} : IsRecord(d[i])}
    IN  IF valid = {} THEN Record(0, 0, Unset)
        ELSE d[CHOOSE i \in valid : \A j \in valid : d[j].seq <= d[i].seq]

\* The journal as a durable log: an interrupted or undone publication is not
\* visible in it.
DurableNewest == NewestOf(After(DOMAIN unsynced))

Log == INSTANCE GenerationLog
        WITH seq <- DurableNewest.seq, gen <- DurableNewest.gen,
             damaged <- damage > 0

\* The journal implements the generation log, whose record part ends with damage.
ImplementsLog == Log!Spec

=============================================================================
