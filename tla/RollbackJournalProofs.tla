------------------------ MODULE RollbackJournalProofs ------------------------
(***************************************************************************)
(* Proofs about the generation journal for any number of processes, any    *)
(* generation and sequence range and any sequence of deaths, power losses, *)
(* floor movements, damaged files and failed reads.                        *)
(***************************************************************************)
EXTENDS RollbackJournal, TLAPS

JournalRecord ==
    [kind : {"record"}, seq : 0 .. MaxSeq, gen : 0 .. MaxGen,
     cfg : Configs \cup {Unset}]

File == {Missing, Corrupt} \cup {r \in JournalRecord : r.seq > 0}

Locals ==
    [op : {"none", "load", "commit"}, gen : 0 .. MaxGen,
     role : AnyRole \cup {"release"}, cfg : Configs \cup {Unset},
     since : 0 .. MaxGen, floor : 0 .. MaxGen,
     cur : JournalRecord \cup {Missing}, rounds : Nat]

Busy == {"read", "load", "advance", "reread", "write", "sync"}
Writing == {"advance", "reread", "write", "sync"}

JournalTypeOK ==
    /\ floor \in 0 .. MaxGen
    /\ slot \in [{0, 1} -> File]
    /\ DOMAIN unsynced \subseteq {0, 1}
    /\ unsynced \in [DOMAIN unsynced -> File]
    /\ lock \in Procs \cup {Free}
    /\ pc \in [Procs -> {"idle", "lock"} \cup Busy]
    /\ loc \in [Procs -> Locals]
    /\ seen \in [Procs -> 0 .. MaxSeq]
    /\ acked \in 0 .. MaxSeq /\ damage \in Nat

\* flock admits one process at a time.
Mutex == \A p \in Procs : pc[p] \in Busy <=> lock = p

\* What commit knows of generations and floors at each step of its loop.
Rounds(p) ==
    /\ loc[p].since <= floor
    /\ pc[p] = "lock" => loc[p].rounds = 0
    /\ pc[p] = "read" =>
        \/ loc[p].rounds = 0
        \/ loc[p].rounds = 1 /\ loc[p].op = "commit" /\ loc[p].gen <= floor
    /\ pc[p] = "load" =>
        /\ loc[p].since <= loc[p].floor /\ loc[p].floor <= floor
        /\ \/ loc[p].rounds = 1
           \/ loc[p].rounds = 2 /\ loc[p].op = "commit" /\ loc[p].gen <= loc[p].floor
    /\ pc[p] \in {"advance", "reread"} =>
        /\ loc[p].since <= loc[p].floor /\ loc[p].floor <= floor
        /\ loc[p].gen = loc[p].floor + 1 /\ loc[p].rounds = 1
        /\ loc[p].op = "commit"
    /\ pc[p] \in {"write", "sync"} =>
        /\ loc[p].since <= loc[p].gen /\ loc[p].gen <= floor
        /\ loc[p].rounds \in 1 .. 2

RoundsInv == \A p \in Procs : Rounds(p)

\* Even sequences are in the first file, odd ones in the second, and none is
\* ahead of the floor.
Filed(i, x) == IsRecord(x) => x.seq % 2 = i /\ x.gen <= floor

FiledInv ==
    /\ \A i \in {0, 1} : Filed(i, slot[i])
    /\ \A i \in DOMAIN unsynced : Filed(i, unsynced[i])

\* All that is in the files or may come back to them.
Kept == {slot[i] : i \in {0, 1}} \cup {unsynced[i] : i \in DOMAIN unsynced}

\* Until a file is damaged or cannot be read, an unsynced rename replaced an older record or none
\* by a record, and newer records have no lower generation.
OrderInv == damage = 0 =>
    /\ \A i \in DOMAIN unsynced :
        /\ IsRecord(slot[i])
        /\ IsRecord(unsynced[i]) => unsynced[i].seq < slot[i].seq
    /\ \A x, y \in Kept :
        IsRecord(x) /\ IsRecord(y) /\ x.seq < y.seq => x.gen <= y.gen

\* What a process past the checks of commit knows of the files it replaces.
Writer(p) == pc[p] \in Writing =>
    /\ loc[p].cur \in JournalRecord /\ loc[p].cur.seq = seen[p] /\ seen[p] < MaxSeq
    /\ pc[p] = "sync" /\ seen[p] # 0 /\ damage <= 1 =>
        \E i \in {0, 1} : IsRecord(slot[i])
    /\ damage = 0 =>
        /\ acked <= seen[p]
        /\ pc[p] # "sync" =>
            \A i \in {0, 1} : IsRecord(slot[i]) => slot[i].seq <= seen[p]
        /\ seen[p] # 0 => /\ IsRecord(slot[seen[p] % 2])
                          /\ slot[seen[p] % 2].seq = seen[p]
        /\ pc[p] = "sync" => slot[Target(p)] = NewRecord(p)
        /\ pc[p] # "sync" => \A x \in Kept : IsRecord(x) => x.gen <= loc[p].gen

WriterInv == \A p \in Procs : Writer(p)

\* File i holds a record, whatever renames are undone.
Solid(i) ==
    IsRecord(slot[i]) /\ (i \in DOMAIN unsynced => IsRecord(unsynced[i]))

\* Two commits have filled both files; one loss leaves one of them.
SolidInv == acked >= 2 =>
    /\ damage = 0 => \A i \in {0, 1} : Solid(i)
    /\ damage <= 1 => \E i \in {0, 1} : Solid(i)

\* The newest commit that returned, or a later one, is in every outcome.
AckedInv == damage = 0 /\ acked > 0 =>
    \E i \in {0, 1} :
        /\ Solid(i) /\ slot[i].seq >= acked
        /\ i \in DOMAIN unsynced => unsynced[i].seq >= acked

JournalInv ==
    /\ JournalTypeOK /\ Mutex /\ RoundsInv /\ FiledInv
    /\ OrderInv /\ WriterInv /\ SolidInv /\ AckedInv

-----------------------------------------------------------------------------
(* What _load_unlocked returns *)

\* A record without a configuration is a record of the journal.
LEMMA UnsetRecord ==
    \A n \in 0 .. MaxSeq, g \in 0 .. MaxGen :
        /\ Record(n, g, Unset) \in JournalRecord
        /\ Record(n, g, Unset).seq = n
  BY DEF Record, JournalRecord

\* The record it returns is as new as any file, and one of the files has its
\* sequence, unless there is no record at all.
LEMMA LoadFacts ==
    ASSUME NEW s \in [{0, 1} -> File], NEW f \in 0 .. MaxGen,
           \A i \in {0, 1} : IsRecord(s[i]) => s[i].seq % 2 = i,
           NEW r, r = LoadUnlocked(s, f), IsRecord(r)
    PROVE  /\ r \in JournalRecord
           /\ \A i \in {0, 1} : IsRecord(s[i]) => s[i].seq <= r.seq
           /\ r.seq # 0 => /\ r.seq % 2 \in {0, 1} /\ IsRecord(s[r.seq % 2])
                           /\ s[r.seq % 2].seq = r.seq /\ s[r.seq % 2].gen <= f
  <1> DEFINE valid == {i \in {0, 1} : IsRecord(s[i])}
             newest == {i \in valid : \A j \in valid : s[j].seq <= s[i].seq}
             k == CHOOSE i \in newest : TRUE
  <1>1. \A i \in valid : s[i] \in JournalRecord /\ s[i].seq \in Nat /\ s[i].seq > 0
    BY DEF File, JournalRecord, IsRecord, Missing, Corrupt
  <1>2. CASE valid = {}
    <2>1. r = Record(0, f, Unset)
      BY ZenonT(60), <1>2 DEF LoadUnlocked, IsRecord, Corrupt
    <2> QED
      BY <1>2, <2>1, JournalAssumption DEF Record, JournalRecord
  <1>3. CASE valid # {}
    <2>1. newest # {}
      <3>1. CASE 0 \in valid /\ 1 \in valid
        BY <1>1, <3>1
      <3> QED
        BY <1>1, <1>3, <3>1
    <2>2. k \in newest
      BY <2>1, ZenonT(60)
    <2>3. /\ s[k].gen <= f
          /\ r = IF s[k].gen < f THEN Record(s[k].seq, f, Unset) ELSE s[k]
      <3>1. r = IF (\E i, j \in newest : s[i] # s[j]) \/ s[k].gen > f THEN Corrupt
                ELSE IF s[k].gen < f THEN Record(s[k].seq, f, Unset) ELSE s[k]
        BY <1>3, ZenonT(60) DEF LoadUnlocked
      <3>2. s[k].gen \in 0 .. MaxGen
        BY <1>1, <2>2, ZenonT(60) DEF JournalRecord
      <3>3. ~IsRecord(Corrupt)
        BY DEF IsRecord, Corrupt
      <3>4. ~(s[k].gen > f)
        BY <3>1, <3>3, ZenonT(60)
      <3>5. s[k].gen <= f
        BY <3>2, <3>4, JournalAssumption
      <3>6. r = IF s[k].gen < f THEN Record(s[k].seq, f, Unset) ELSE s[k]
        <4> HIDE DEF newest, k
        <4> QED
          BY <3>1, <3>3, ZenonT(60)
      <3> QED
        BY <3>5, <3>6, ZenonT(60)
    <2>4. r.seq = s[k].seq /\ r \in JournalRecord
      <3> s[k] \in JournalRecord
        BY <1>1, <2>2, ZenonT(60)
      <3>1. CASE s[k].gen < f
        <4>1. r = Record(s[k].seq, f, Unset)
          BY <2>3, <3>1, ZenonT(60)
        <4>2. s[k].seq \in 0 .. MaxSeq
          BY ZenonT(60) DEF JournalRecord
        <4> QED
          BY <4>1, <4>2, UnsetRecord, ZenonT(60)
      <3>2. CASE ~(s[k].gen < f)
        BY <2>3, <3>2, ZenonT(60)
      <3> QED
        BY <3>1, <3>2
    <2> QED
      BY <1>1, <2>2, <2>3, <2>4, ZenonT(60)
  <1> QED
    BY <1>2, <1>3

\* Every value the constructors build is of its type.
LEMMA FileFacts ==
    /\ Missing \in File /\ Corrupt \in File
    /\ ~IsRecord(Missing) /\ ~IsRecord(Corrupt)
    /\ \A x \in File : IsRecord(x) => x \in JournalRecord /\ x.seq > 0
    /\ \A x \in JournalRecord : IsRecord(x)
    /\ Missing \notin JournalRecord
    /\ NoLocals \in Locals
  <1>1. ~IsRecord(Missing) /\ ~IsRecord(Corrupt)
    BY DEF IsRecord, Missing, Corrupt
  <1>2. \A x \in JournalRecord : IsRecord(x)
    BY DEF IsRecord, JournalRecord
  <1>3. NoLocals \in Locals
    BY JournalAssumption DEF NoLocals, Locals
  <1> QED
    BY <1>1, <1>2, <1>3 DEF File

\* What a load reads is well typed and filed like the files; a failed read is
\* counted.
LEMMA ReadFacts ==
    ASSUME JournalInv, NEW failed \in SUBSET {0, 1}
    PROVE  /\ Reads(failed) \in [{0, 1} -> File]
           /\ \A i \in {0, 1} : IsRecord(Reads(failed)[i]) => Reads(failed)[i].seq % 2 = i
           /\ failed = {} => \A i \in {0, 1} : Reads(failed)[i] = slot[i]
           /\ Unread(failed) => damage' = damage + 1 \/ (failed = {} /\ damage' = damage)
  <1>1. \A i \in {0, 1} : Reads(failed)[i] = IF i \in failed THEN Corrupt ELSE slot[i]
    BY DEF Reads
  <1>2. Reads(failed) \in [{0, 1} -> File]
    BY FileFacts DEF Reads, JournalInv, JournalTypeOK
  <1>3. \A i \in {0, 1} : IsRecord(Reads(failed)[i]) => Reads(failed)[i].seq % 2 = i
    BY ZenonT(60), <1>1, FileFacts DEF JournalInv, FiledInv, Filed
  <1>4. Unread(failed) => damage' = damage + 1 \/ (failed = {} /\ damage' = damage)
    BY ZenonT(60) DEF Unread
  <1> QED
    BY <1>1, <1>2, <1>3, <1>4, ZenonT(60)

\* Loading leaves the files alone.
LEMMA LoadFrame ==
    ASSUME NEW p \in Procs, LoadReturns(p) \/ CommitRaises(p) \/ CommitAdmitted(p)
    PROVE  /\ UNCHANGED <<floor, slot, unsynced, acked>>
           /\ damage' = damage \/ damage' = damage + 1
  BY ZenonT(60) DEF LoadReturns, CommitRaises, CommitAdmitted, Unread

-----------------------------------------------------------------------------
(* Types *)

\* The journal of a new machine is well typed.
LEMMA InitType == Init => JournalTypeOK
  BY FileFacts, JournalAssumption DEF Init, JournalTypeOK

\* A step of a process keeps the types.
LEMMA StepType ==
    ASSUME JournalInv, NEW p \in Procs, Call(p) \/ Step(p) \/ Die(p)
    PROVE  JournalTypeOK'
  <1> USE JournalAssumption, FileFacts DEF JournalInv, JournalTypeOK, Goto
  <1>1. CASE StartLoad(p)
    <2> [NoLocals EXCEPT !.op = "load", !.since = floor] \in Locals
      BY ZenonT(60) DEF NoLocals, Locals
    <2> QED
      BY <1>1 DEF StartLoad
  <1>2. ASSUME NEW gen \in 0 .. MaxGen, NEW role \in AnyRole, NEW cfg \in Configs,
               StartCommit(p, gen, role, cfg)
        PROVE  JournalTypeOK'
    <2> [NoLocals EXCEPT !.op = "commit", !.gen = gen, !.role = role,
                         !.cfg = cfg, !.since = floor] \in Locals
      BY ZenonT(60) DEF NoLocals, Locals
    <2> QED
      BY <1>2 DEF StartCommit
  <1>3. CASE Acquire(p)
    BY <1>3 DEF Acquire, Busy
  <1>4. CASE ReadFloor(p)
    <2>1. loc[p] \in Locals /\ floor \in 0 .. MaxGen /\ loc[p].rounds + 1 \in Nat
      BY DEF Locals
    <2>2. [loc[p] EXCEPT !.floor = floor, !.rounds = @ + 1] \in Locals
      BY ONLY <2>1, ZenonT(60) DEF Locals
    <2>3. loc' = [loc EXCEPT ![p] = [loc[p] EXCEPT !.floor = floor, !.rounds = @ + 1]]
      BY <1>4, ZenonT(60) DEF ReadFloor
    <2> QED
      BY <1>4, <2>2, <2>3 DEF ReadFloor, Busy
  <1>a. ASSUME NEW failed \in SUBSET {0, 1}, NEW r,
               r = LoadUnlocked(Reads(failed), loc[p].floor), IsRecord(r)
        PROVE  r \in JournalRecord /\ r.seq \in 0 .. MaxSeq
    <2>1. loc[p].floor \in 0 .. MaxGen
      BY DEF Locals
    <2>2. r \in JournalRecord
      BY <1>a, <2>1, ReadFacts, LoadFacts, ZenonT(60)
    <2> QED
      BY ONLY <2>2 DEF JournalRecord
  <1>5. CASE LoadReturns(p)
    <2>1. seen' \in [Procs -> 0 .. MaxSeq]
      <3>1. PICK failed \in SUBSET {0, 1} :
                LET r == LoadUnlocked(Reads(failed), loc[p].floor) IN
                seen' = IF IsRecord(r) THEN [seen EXCEPT ![p] = r.seq] ELSE seen
        BY <1>5, ZenonT(60) DEF LoadReturns
      <3> DEFINE r == LoadUnlocked(Reads(failed), loc[p].floor)
      <3>2. IsRecord(r) => r.seq \in 0 .. MaxSeq
        BY <1>a, ZenonT(60)
      <3> HIDE DEF r
      <3> QED
        BY <3>1, <3>2 DEF r
    <2>2. damage' \in Nat /\ UNCHANGED <<floor, slot, unsynced, acked>>
      BY <1>5, LoadFrame
    <2>3. Leave(p)
      BY <1>5, ZenonT(60) DEF LoadReturns
    <2> QED
      BY <2>1, <2>2, <2>3 DEF Leave
  <1>6. CASE CommitRaises(p)
    <2>1. damage' \in Nat /\ UNCHANGED <<floor, slot, unsynced, acked>>
      BY <1>6, LoadFrame
    <2>2. Leave(p) /\ UNCHANGED seen
      BY <1>6, ZenonT(60) DEF CommitRaises
    <2> QED
      BY <2>1, <2>2 DEF Leave
  <1>7. CASE CommitAdmitted(p)
    <2>1. PICK failed \in SUBSET {0, 1} :
            LET r == LoadUnlocked(Reads(failed), loc[p].floor) IN
            Admitted(p, r) /\ loc' = [loc EXCEPT ![p].cur = r]
      BY <1>7, ZenonT(60) DEF CommitAdmitted
    <2> DEFINE r == LoadUnlocked(Reads(failed), loc[p].floor)
    <2>2. r \in JournalRecord
      BY <1>a, <2>1, ZenonT(60) DEF Admitted
    <2>3. loc' = [loc EXCEPT ![p] = [loc[p] EXCEPT !.cur = r]]
      BY <2>1
    <2> HIDE DEF r
    <2>4. [loc[p] EXCEPT !.cur = r] \in Locals
      BY SMTT(30), <2>2 DEF Locals
    <2>5. damage' \in Nat /\ UNCHANGED <<floor, slot, unsynced, acked>>
      BY <1>7, LoadFrame
    <2>6. /\ UNCHANGED <<lock, seen>>
          /\ \E label \in Busy : pc' = [pc EXCEPT ![p] = label]
      BY <1>7, ZenonT(60) DEF CommitAdmitted, Busy
    <2> QED
      BY <2>3, <2>4, <2>5, <2>6
  <1>8. CASE Advance(p)
    BY <1>8 DEF Advance, Busy
  <1>9. CASE AdvanceFails(p) \/ NextRound(p)
    BY <1>9 DEF AdvanceFails, NextRound, Busy
  <1>10. CASE AdvanceRefused(p) \/ WriteFails(p)
    BY <1>10 DEF AdvanceRefused, WriteFails, Leave
  <1>11. CASE WriteSlot(p)
    <2>1. /\ loc[p] \in Locals /\ loc[p].cur \in JournalRecord
          /\ loc[p].cur.seq \in 0 .. MaxSeq /\ loc[p].cur.seq + 1 <= MaxSeq
      BY <1>11 DEF WriteSlot, WriterInv, Writer, Writing, JournalRecord
    <2>2. NewRecord(p) \in File
      <3>1. /\ loc[p].cur.seq + 1 \in 0 .. MaxSeq /\ loc[p].cur.seq + 1 > 0
            /\ loc[p].gen \in 0 .. MaxGen /\ loc[p].cfg \in Configs \cup {Unset}
        BY <2>1 DEF Locals
      <3> QED
        BY ONLY <3>1 DEF NewRecord, Record, File, JournalRecord
    <2>3. Target(p) \in {0, 1}
      BY ONLY <2>1 DEF Target
    <2> QED
      BY <1>11, <2>2, <2>3 DEF WriteSlot, Busy
  <1>12. CASE SyncAndReturn(p)
    <2>1. loc[p].cur.seq = seen[p] /\ seen[p] \in 0 .. MaxSeq /\ seen[p] < MaxSeq
      BY <1>12 DEF SyncAndReturn, WriterInv, Writer, Writing
    <2>2. NewRecord(p).seq \in 0 .. MaxSeq
      BY ONLY <2>1, JournalAssumption DEF NewRecord, Record
    <2> QED
      BY <1>12, <2>2 DEF SyncAndReturn, Leave
  <1>13. CASE Die(p)
    BY <1>13 DEF Die
  <1> QED
    BY <1>1, <1>2, <1>3, <1>4, <1>5, <1>6, <1>7, <1>8, <1>9, <1>10, <1>11, ZenonT(60),
       <1>12, <1>13 DEF Call, Step

\* So does the environment.
LEMMA EnvironmentType == ASSUME JournalInv, Environment PROVE JournalTypeOK'
  <1> USE JournalAssumption, FileFacts DEF JournalInv, JournalTypeOK
  <1>1. ASSUME NEW undone \in SUBSET DOMAIN unsynced, PowerLoss(undone)
        PROVE  JournalTypeOK'
    BY <1>1 DEF PowerLoss
  <1>2. CASE OthersAdvance
    BY <1>2 DEF OthersAdvance
  <1>3. ASSUME NEW i \in {0, 1}, NEW how \in {Missing, Corrupt}, DamageSlot(i, how)
        PROVE  JournalTypeOK'
    BY <1>3 DEF DamageSlot
  <1> QED
    BY <1>1, <1>2, <1>3, StepType DEF Environment

-----------------------------------------------------------------------------
(* The lock and the loop of commit *)

\* Only the holder moves past the lock, and leaving frees it.
LEMMA MutexStep == ASSUME JournalInv, Next PROVE Mutex'
  <1> USE NamesAssumption DEF JournalInv, JournalTypeOK, Mutex, Goto, Leave, Busy
  <1>1. ASSUME NEW p \in Procs, Call(p) PROVE Mutex'
    BY <1>1, ZenonT(60) DEF Call, StartLoad, StartCommit
  <1>2. ASSUME NEW p \in Procs, Acquire(p) PROVE Mutex'
    BY <1>2 DEF Acquire
  <1>3. ASSUME NEW p \in Procs, ReadFloor(p) \/ CommitAdmitted(p) \/ Advance(p)
                 \/ AdvanceFails(p) \/ NextRound(p) \/ WriteSlot(p)
        PROVE  Mutex'
    BY <1>3 DEF ReadFloor, CommitAdmitted, Advance, AdvanceFails, NextRound, WriteSlot
  <1>4. ASSUME NEW p \in Procs, LoadReturns(p) \/ CommitRaises(p)
                 \/ AdvanceRefused(p) \/ SyncAndReturn(p) \/ WriteFails(p)
        PROVE  Mutex'
    BY <1>4, ZenonT(60) DEF LoadReturns, CommitRaises, AdvanceRefused, SyncAndReturn,
        WriteFails
  <1>5. ASSUME NEW p \in Procs, Die(p) PROVE Mutex'
    BY <1>5 DEF Die
  <1>6. ASSUME NEW undone \in SUBSET DOMAIN unsynced, PowerLoss(undone)
        PROVE  Mutex'
    BY <1>6 DEF PowerLoss
  <1>7. CASE OthersAdvance
    BY <1>7 DEF OthersAdvance
  <1>8. ASSUME NEW i \in {0, 1}, NEW how \in {Missing, Corrupt}, DamageSlot(i, how)
        PROVE  Mutex'
    BY <1>8 DEF DamageSlot
  <1> QED
    BY <1>1, <1>2, <1>3, <1>4, <1>5, <1>6, <1>7, <1>8 DEF Next, Step, Environment

\* A process that is idle knows nothing; the floor only rises under the others.
LEMMA RoundsFrame ==
    ASSUME JournalInv, floor' \in 0 .. MaxGen, floor <= floor', NEW q \in Procs,
           \/ pc'[q] = pc[q] /\ loc'[q] = loc[q]
           \/ pc'[q] = "idle" /\ loc'[q] = NoLocals
    PROVE  Rounds(q)'
  <1>1. CASE pc'[q] = pc[q] /\ loc'[q] = loc[q]
    <2>1. loc[q] \in Locals /\ floor \in 0 .. MaxGen /\ Rounds(q)
      BY DEF JournalInv, JournalTypeOK, RoundsInv
    <2>2. /\ loc[q].since \in Int /\ loc[q].floor \in Int /\ loc[q].gen \in Int
          /\ floor \in Int /\ floor' \in Int
      BY <2>1, JournalAssumption DEF Locals
    <2> QED
      BY <1>1, <2>1, <2>2 DEF Rounds
  <1>2. CASE pc'[q] = "idle" /\ loc'[q] = NoLocals
    BY <1>2, JournalAssumption DEF Rounds, NoLocals
  <1> QED
    BY <1>1, <1>2

\* A step of one process leaves the locals of the others alone.
LEMMA OthersKeep ==
    ASSUME JournalInv, NEW p \in Procs, NEW q \in Procs, p # q,
           Call(p) \/ Step(p) \/ Die(p)
    PROVE  pc'[q] = pc[q] /\ loc'[q] = loc[q]
  BY ZenonT(60) DEF JournalInv, JournalTypeOK, Call, Step, Goto, Leave, StartLoad,
         StartCommit, Acquire, ReadFloor, LoadReturns, CommitRaises,
         CommitAdmitted, Advance, AdvanceFails, AdvanceRefused, NextRound,
         WriteSlot, SyncAndReturn, WriteFails, Die

\* The floor never falls.
LEMMA FloorRises == ASSUME JournalInv, Next PROVE floor <= floor'
  <1>0. floor \in Int
    BY JournalAssumption DEF JournalInv, JournalTypeOK
  <1>1. CASE UNCHANGED floor
    BY <1>0, <1>1
  <1>2. CASE \E p \in Procs : Advance(p)
    BY <1>0, <1>2 DEF Advance
  <1>3. CASE OthersAdvance
    BY <1>0, <1>3 DEF OthersAdvance
  <1> QED
    BY <1>1, <1>2, <1>3, ZenonT(60)
    DEF Next, Environment, Call, Step, StartLoad, StartCommit, Acquire,
        ReadFloor, LoadReturns, CommitRaises, CommitAdmitted, AdvanceFails,
        AdvanceRefused, NextRound, WriteSlot, SyncAndReturn, WriteFails, Die,
        PowerLoss, DamageSlot

\* A second round is entered only after the floor has reached the generation.
LEMMA RoundsStep == ASSUME JournalInv, Next, JournalTypeOK' PROVE RoundsInv'
  <1> SUFFICES ASSUME NEW q \in Procs PROVE Rounds(q)'
    BY DEF RoundsInv
  <1> USE DEF Goto
  <1>0. /\ loc[q] \in Locals /\ Rounds(q) /\ floor <= floor'
        /\ floor \in Nat /\ floor' \in Nat /\ floor' \in 0 .. MaxGen
        /\ pc \in [Procs -> {"idle", "lock"} \cup Busy] /\ loc \in [Procs -> Locals]
    BY FloorRises, JournalAssumption DEF JournalInv, JournalTypeOK, RoundsInv
  <1>a. /\ loc[q].since \in Nat /\ loc[q].floor \in Nat /\ loc[q].gen \in Nat
        /\ loc[q].rounds \in Nat
    BY <1>0, JournalAssumption DEF Locals
  <1>1. CASE \/ pc'[q] = pc[q] /\ loc'[q] = loc[q]
             \/ pc'[q] = "idle" /\ loc'[q] = NoLocals
    BY <1>0, <1>1, RoundsFrame, ZenonT(60)
  <1>2. CASE LoadReturns(q) \/ CommitRaises(q) \/ AdvanceRefused(q)
               \/ SyncAndReturn(q) \/ WriteFails(q) \/ Die(q)
    BY ZenonT(60), <1>0, <1>1, <1>2 DEF LoadReturns, CommitRaises, AdvanceRefused,
                            SyncAndReturn, WriteFails, Die, Leave
  <1>3. CASE StartLoad(q)
    <2>1. /\ pc'[q] = "lock" /\ floor' = floor
          /\ loc'[q] = [NoLocals EXCEPT !.op = "load", !.since = floor]
      BY <1>0, <1>3 DEF StartLoad
    <2> QED
      BY <1>0, <2>1 DEF Rounds, NoLocals
  <1>4. ASSUME NEW gen \in 0 .. MaxGen, NEW role \in AnyRole, NEW cfg \in Configs,
               StartCommit(q, gen, role, cfg)
        PROVE  Rounds(q)'
    <2>1. /\ pc'[q] = "lock" /\ floor' = floor
          /\ loc'[q] = [NoLocals EXCEPT !.op = "commit", !.gen = gen,
                            !.role = role, !.cfg = cfg, !.since = floor]
      BY <1>0, <1>4 DEF StartCommit
    <2> QED
      BY <1>0, <2>1 DEF Rounds, NoLocals
  <1>5. CASE Acquire(q)
    <2>1. pc[q] = "lock" /\ pc'[q] = "read" /\ loc'[q] = loc[q] /\ floor' = floor
      BY <1>0, <1>5 DEF Acquire
    <2> QED
      BY <1>0, <2>1 DEF Rounds
  <1>6. CASE ReadFloor(q)
    <2>1. /\ pc[q] = "read" /\ pc'[q] = "load" /\ floor' = floor
          /\ loc'[q] = [loc[q] EXCEPT !.floor = floor, !.rounds = @ + 1]
      BY <1>0, <1>6 DEF ReadFloor
    <2>2. /\ loc'[q].since = loc[q].since /\ loc'[q].floor = floor
          /\ loc'[q].gen = loc[q].gen /\ loc'[q].op = loc[q].op
          /\ loc'[q].rounds = loc[q].rounds + 1
      BY <1>0, <2>1 DEF Locals
    <2> QED
      BY <1>0, <1>a, <2>1, <2>2 DEF Rounds
  <1>7. CASE CommitAdmitted(q)
    <2>0. PICK failed \in SUBSET {0, 1} :
            LET r == LoadUnlocked(Reads(failed), loc[q].floor) IN
            Admitted(q, r) /\ loc' = [loc EXCEPT ![q].cur = r]
      BY <1>7, ZenonT(60) DEF CommitAdmitted
    <2> DEFINE r == LoadUnlocked(Reads(failed), loc[q].floor)
    <2>1. /\ pc[q] = "load" /\ loc[q].op = "commit" /\ floor' = floor
          /\ Policy(loc[q].floor, loc[q].gen, loc[q].role) \in {"retry", "update"}
          /\ pc'[q] = IF Policy(loc[q].floor, loc[q].gen, loc[q].role) = "retry"
                      THEN "write" ELSE "advance"
          /\ loc'[q] = [loc[q] EXCEPT !.cur = r]
      BY <1>0, <1>7, <2>0, ZenonT(60) DEF CommitAdmitted, Admitted
    <2> HIDE DEF r
    <2>2. /\ loc'[q].since = loc[q].since /\ loc'[q].floor = loc[q].floor
          /\ loc'[q].gen = loc[q].gen /\ loc'[q].op = loc[q].op
          /\ loc'[q].rounds = loc[q].rounds
      BY <1>0, <2>1 DEF Locals
    <2>3. \/ pc'[q] = "write" /\ loc[q].gen = loc[q].floor
          \/ pc'[q] = "advance" /\ loc[q].gen = loc[q].floor + 1
      BY <1>a, <2>1 DEF Policy
    <2> QED
      BY <1>0, <1>a, <2>1, <2>2, <2>3 DEF Rounds
  <1>8. CASE Advance(q)
    <2>1. /\ pc[q] = "advance" /\ pc'[q] = "write" /\ loc'[q] = loc[q]
          /\ floor' = loc[q].gen
      BY <1>0, <1>8 DEF Advance
    <2> QED
      BY <1>0, <1>a, <2>1 DEF Rounds
  <1>9. CASE AdvanceFails(q)
    <2>1. /\ pc[q] = "advance" /\ pc'[q] = "reread" /\ loc'[q] = loc[q]
          /\ floor' = floor
      BY <1>0, <1>9 DEF AdvanceFails
    <2> QED
      BY <1>0, <1>a, <2>1 DEF Rounds
  <1>10. CASE NextRound(q)
    <2>1. /\ pc[q] = "reread" /\ pc'[q] = "read" /\ loc'[q] = loc[q]
          /\ floor' = floor /\ floor # loc[q].floor
      BY <1>0, <1>10 DEF NextRound
    <2> QED
      BY <1>0, <1>a, <2>1 DEF Rounds
  <1>11. CASE WriteSlot(q)
    <2>1. pc[q] = "write" /\ pc'[q] = "sync" /\ loc'[q] = loc[q] /\ floor' = floor
      BY <1>0, <1>11 DEF WriteSlot
    <2> QED
      BY <1>0, <1>a, <2>1 DEF Rounds
  <1>12. ASSUME NEW p \in Procs, p # q, Call(p) \/ Step(p) \/ Die(p)
         PROVE  Rounds(q)'
    BY ZenonT(60), <1>1, <1>12, OthersKeep
  <1>13. CASE \/ \E undone \in SUBSET DOMAIN unsynced : PowerLoss(undone)
              \/ OthersAdvance
              \/ \E i \in {0, 1}, how \in {Missing, Corrupt} : DamageSlot(i, how)
    BY <1>0, <1>1, <1>13 DEF PowerLoss, OthersAdvance, DamageSlot
  <1> QED
    BY <1>2, <1>3, <1>4, <1>5, <1>6, <1>7, <1>8, <1>9, <1>10, <1>11, <1>12,
       <1>13 DEF Next, Call, Step, Environment

-----------------------------------------------------------------------------
(* The files *)

\* The steps that touch the files or what is remembered of them.
FileStep ==
    \/ /\ UNCHANGED <<slot, unsynced, acked>>
       /\ damage' = damage \/ damage' = damage + 1
    \/ \E p \in Procs : WriteSlot(p) \/ SyncAndReturn(p)
    \/ \E undone \in SUBSET DOMAIN unsynced : PowerLoss(undone)
    \/ \E i \in {0, 1}, how \in {Missing, Corrupt} : DamageSlot(i, how)

\* What any step does to the two files is one of the cases of FileStep.
LEMMA FileSteps == Next => FileStep
  BY LoadFrame, ZenonT(60) DEF FileStep, Next, Environment, Call, Step, StartLoad,
      StartCommit, Acquire, ReadFloor, Advance, AdvanceFails, AdvanceRefused, NextRound,
      WriteFails, Die, OthersAdvance

\* What _write_slot publishes: the successor of the newest record, in the file
\* that does not hold it.
LEMMA Published ==
    ASSUME JournalInv, NEW p \in Procs, pc[p] \in {"write", "sync"}
    PROVE  /\ NewRecord(p) \in File /\ IsRecord(NewRecord(p))
           /\ NewRecord(p).seq = seen[p] + 1 /\ NewRecord(p).gen = loc[p].gen
           /\ Target(p) = (seen[p] + 1) % 2 /\ Target(p) \in {0, 1}
           /\ loc[p].gen <= floor
           /\ seen[p] \in Nat /\ seen[p] < MaxSeq
  <1>1. /\ loc[p] \in Locals /\ loc[p].cur.seq = seen[p] /\ loc[p].gen <= floor
        /\ seen[p] \in 0 .. MaxSeq /\ seen[p] < MaxSeq
    BY ZenonT(60) DEF JournalInv, JournalTypeOK, WriterInv, Writer, Writing, RoundsInv, Rounds
  <1>2. seen[p] + 1 \in 0 .. MaxSeq /\ seen[p] + 1 > 0 /\ seen[p] \in Nat
    BY <1>1, JournalAssumption
  <1>3. NewRecord(p) = Record(seen[p] + 1, loc[p].gen, loc[p].cfg)
    BY <1>1 DEF NewRecord
  <1>4. NewRecord(p) \in File
    BY <1>1, <1>2, <1>3 DEF Record, File, JournalRecord, Locals
  <1>5. /\ IsRecord(NewRecord(p)) /\ NewRecord(p).seq = seen[p] + 1
        /\ NewRecord(p).gen = loc[p].gen
    BY <1>3 DEF Record, IsRecord
  <1> QED
    BY <1>1, <1>2, <1>4, <1>5 DEF Target

\* The new record replaces one file; what a crash may bring back is the content
\* that was last synced.
LEMMA WriteEffect ==
    ASSUME JournalInv, NEW p \in Procs, WriteSlot(p)
    PROVE  /\ \A i \in {0, 1} :
                slot'[i] = IF i = Target(p) THEN NewRecord(p) ELSE slot[i]
           /\ DOMAIN unsynced' = DOMAIN unsynced \cup {Target(p)}
           /\ \A i \in DOMAIN unsynced' :
                unsynced'[i] = IF i \in DOMAIN unsynced THEN unsynced[i] ELSE slot[i]
  BY DEF WriteSlot, JournalInv, JournalTypeOK

\* Whatever happens to the files, records stay where they belong and below the
\* floor.
LEMMA FiledStep == ASSUME JournalInv, Next, floor <= floor' PROVE FiledInv'
  <1>0. /\ slot \in [{0, 1} -> File] /\ DOMAIN unsynced \subseteq {0, 1}
        /\ unsynced \in [DOMAIN unsynced -> File] /\ floor \in Int /\ floor' \in Int
        /\ \A i \in {0, 1} : Filed(i, slot[i])
        /\ \A i \in DOMAIN unsynced : Filed(i, unsynced[i])
    <2>1. floor' \in Int
      BY StepType, EnvironmentType, JournalAssumption DEF Next, JournalTypeOK
    <2> QED
      BY <2>1, JournalAssumption DEF JournalInv, JournalTypeOK, FiledInv
  <1>1. \A i \in {0, 1}, x \in File : Filed(i, x) => Filed(i, x)'
    BY <1>0, FileFacts, JournalAssumption DEF Filed, JournalRecord
  <1>2. \A i \in {0, 1} : ~IsRecord(Missing) /\ ~IsRecord(Corrupt)
    BY FileFacts
  <1>3. CASE UNCHANGED <<slot, unsynced, acked>>
    BY <1>0, <1>1, <1>3 DEF FiledInv
  <1>4. ASSUME NEW p \in Procs, WriteSlot(p) PROVE FiledInv'
    <2>1. Filed(Target(p), NewRecord(p)) /\ NewRecord(p) \in File /\ Target(p) \in {0, 1}
      BY ZenonT(60), <1>4, Published DEF WriteSlot, Filed
    <2>2. /\ \A i \in {0, 1} : slot'[i] \in File /\ Filed(i, slot'[i])
          /\ \A i \in DOMAIN unsynced' : i \in {0, 1} /\ unsynced'[i] \in File
                                          /\ Filed(i, unsynced'[i])
      BY <1>0, <1>4, <2>1, WriteEffect, ZenonT(60)
    <2> QED
      BY <1>1, <2>2 DEF FiledInv, Filed
  <1>5. ASSUME NEW p \in Procs, SyncAndReturn(p) PROVE FiledInv'
    BY <1>0, <1>1, <1>5 DEF SyncAndReturn, FiledInv
  <1>6. ASSUME NEW undone \in SUBSET DOMAIN unsynced, PowerLoss(undone)
        PROVE  FiledInv'
    BY <1>0, <1>1, <1>6 DEF PowerLoss, FiledInv, Filed
  <1>7. ASSUME NEW i \in {0, 1}, NEW how \in {Missing, Corrupt}, DamageSlot(i, how)
        PROVE  FiledInv'
    BY <1>0, <1>1, <1>2, <1>7 DEF DamageSlot, FiledInv, Filed
  <1> QED
    BY <1>3, <1>4, <1>5, <1>6, <1>7, FileSteps DEF FileStep

\* The typing facts the arguments about sequences and generations use.
LEMMA KeptFacts ==
    ASSUME JournalInv
    PROVE  /\ slot \in [{0, 1} -> File] /\ DOMAIN unsynced \subseteq {0, 1}
           /\ \A i \in {0, 1} : slot[i] \in Kept
           /\ \A i \in DOMAIN unsynced : unsynced[i] \in Kept
           /\ \A x \in Kept : x \in File
           /\ \A x \in File : IsRecord(x) => x.seq \in Nat /\ x.gen \in Nat /\ x.seq > 0
           /\ damage \in Nat /\ acked \in Nat
  <1>1. \A x \in File : IsRecord(x) => x.seq \in Nat /\ x.gen \in Nat /\ x.seq > 0
    BY FileFacts DEF JournalRecord
  <1> QED
    BY <1>1, JournalAssumption DEF JournalInv, JournalTypeOK, Kept

\* A publication is newer than all it leaves behind; losing power only forgets.
LEMMA OrderStep == ASSUME JournalInv, Next PROVE OrderInv'
  <1> SUFFICES ASSUME damage' = 0
               PROVE  /\ \A i \in DOMAIN unsynced' :
                          /\ IsRecord(slot'[i])
                          /\ IsRecord(unsynced'[i]) => unsynced'[i].seq < slot'[i].seq
                      /\ \A x, y \in Kept' :
                          IsRecord(x) /\ IsRecord(y) /\ x.seq < y.seq => x.gen <= y.gen
    BY DEF OrderInv
  <1>1. ASSUME damage = 0
        PROVE  /\ \A i \in DOMAIN unsynced :
                  /\ IsRecord(slot[i])
                  /\ IsRecord(unsynced[i]) => unsynced[i].seq < slot[i].seq
               /\ \A x, y \in Kept :
                  IsRecord(x) /\ IsRecord(y) /\ x.seq < y.seq => x.gen <= y.gen
    BY <1>1 DEF JournalInv, OrderInv
  <1>2. CASE /\ UNCHANGED <<slot, unsynced, acked>>
             /\ damage' = damage \/ damage' = damage + 1
    BY <1>1, <1>2, KeptFacts DEF Kept
  <1>3. ASSUME NEW p \in Procs, WriteSlot(p)
        PROVE  /\ \A i \in DOMAIN unsynced' :
                  /\ IsRecord(slot'[i])
                  /\ IsRecord(unsynced'[i]) => unsynced'[i].seq < slot'[i].seq
               /\ \A x, y \in Kept' :
                  IsRecord(x) /\ IsRecord(y) /\ x.seq < y.seq => x.gen <= y.gen
    <2> DEFINE n == NewRecord(p)
    <2>0. damage = 0 /\ pc[p] = "write"
      BY <1>3 DEF WriteSlot
    <2>1. /\ IsRecord(n) /\ n.seq = seen[p] + 1 /\ n.gen = loc[p].gen /\ seen[p] \in Nat
          /\ Target(p) \in {0, 1}
      BY <2>0, Published
    <2>2. /\ \A i \in {0, 1} : IsRecord(slot[i]) => slot[i].seq <= seen[p]
          /\ \A x \in Kept : IsRecord(x) => x.gen <= loc[p].gen
      BY <2>0 DEF JournalInv, WriterInv, Writer, Writing
    <2> HIDE DEF n
    <2>3. \A x \in Kept : IsRecord(x) => x.seq < n.seq /\ x.gen <= n.gen
      <3>1. \A i \in {0, 1} : IsRecord(slot[i]) => slot[i].seq < n.seq
        BY <2>1, <2>2, KeptFacts
      <3>2. \A i \in DOMAIN unsynced : IsRecord(unsynced[i]) => unsynced[i].seq < n.seq
        BY <1>1, <2>0, <3>1, <2>1, KeptFacts
      <3> QED
        BY <2>1, <2>2, <3>1, <3>2 DEF Kept
    <2>4. Kept' \subseteq Kept \cup {n}
      <3>1. \A i \in {0, 1} : slot'[i] \in Kept \cup {n}
        BY <1>3, WriteEffect, KeptFacts, ZenonT(60) DEF n
      <3>2. \A i \in DOMAIN unsynced' : unsynced'[i] \in Kept
        BY <1>3, <2>1, WriteEffect, KeptFacts, ZenonT(60)
      <3>3. Kept' = {slot'[i] : i \in {0, 1}} \cup {unsynced'[i] : i \in DOMAIN unsynced'}
        BY DEF Kept
      <3> QED
        BY <3>1, <3>2, <3>3
    <2>5. n.gen \in Nat /\ n.seq \in Nat
      BY <2>0, Published, KeptFacts DEF n
    <2>6. ASSUME NEW i \in DOMAIN unsynced'
          PROVE  /\ IsRecord(slot'[i])
                 /\ IsRecord(unsynced'[i]) => unsynced'[i].seq < slot'[i].seq
      <3>1. CASE i = Target(p)
        <4>1. slot'[i] = n /\ unsynced'[i] \in Kept
          BY <1>3, <2>1, <3>1, WriteEffect, KeptFacts, ZenonT(60) DEF n
        <4> QED
          BY <2>1, <2>3, <4>1
      <3>2. CASE i # Target(p)
        <4>1. i \in DOMAIN unsynced /\ slot'[i] = slot[i] /\ unsynced'[i] = unsynced[i]
          BY <1>3, <2>6, <3>2, WriteEffect, KeptFacts, ZenonT(60)
        <4> QED
          BY <1>1, <2>0, <4>1
      <3> QED
        BY <3>1, <3>2
    <2>7. ASSUME NEW x \in Kept', NEW y \in Kept', IsRecord(x), IsRecord(y), x.seq < y.seq
          PROVE  x.gen <= y.gen
      <3>1. CASE x = n
        <4>1. CASE y = n
          BY <2>5, <2>7, <3>1, <4>1
        <4>2. CASE y \in Kept
          BY <2>3, <2>5, <2>7, <3>1, <4>2, KeptFacts
        <4> QED
          BY <2>4, <4>1, <4>2
      <3>2. CASE x \in Kept
        BY <1>1, <2>0, <2>3, <2>4, <2>7, <3>2
      <3> QED
        BY <2>4, <3>1, <3>2
    <2> QED
      BY <2>6, <2>7
  <1>4. CASE \/ \E p \in Procs : SyncAndReturn(p)
             \/ \E undone \in SUBSET DOMAIN unsynced : PowerLoss(undone)
    <2>1. DOMAIN unsynced' = {} /\ Kept' \subseteq Kept /\ damage = 0
      BY <1>4, KeptFacts DEF SyncAndReturn, PowerLoss, Kept
    <2> QED
      BY <1>1, <2>1
  <1>5. ASSUME NEW i \in {0, 1}, NEW how \in {Missing, Corrupt}, DamageSlot(i, how)
        PROVE  FALSE
    BY <1>5, KeptFacts DEF DamageSlot
  <1> QED
    BY <1>2, <1>3, <1>4, <1>5, FileSteps DEF FileStep

\* A write leaves the older content of its file to come back to, and a returned
\* commit makes the second of two filled files.
LEMMA SolidStep == ASSUME JournalInv, Next PROVE SolidInv'
  <1> USE KeptFacts
  <1>0. SolidInv
    BY DEF JournalInv
  <1>1. CASE /\ UNCHANGED <<slot, unsynced, acked>>
             /\ damage' = damage \/ damage' = damage + 1
    BY <1>0, <1>1 DEF SolidInv, Solid
  <1>2. ASSUME NEW p \in Procs, WriteSlot(p) PROVE SolidInv'
    <2>1. pc[p] = "write" /\ acked' = acked /\ damage' = damage
      BY ZenonT(60), <1>2 DEF WriteSlot
    <2>2. \A i \in {0, 1} : Solid(i) => Solid(i)'
      BY <1>2, <2>1, Published, WriteEffect, ZenonT(60) DEF Solid
    <2> QED
      BY <1>0, <2>1, <2>2 DEF SolidInv
  <1>3. ASSUME NEW p \in Procs, SyncAndReturn(p) PROVE SolidInv'
    <2>1. /\ slot' = slot /\ DOMAIN unsynced' = {} /\ damage' = damage
          /\ pc[p] = "sync"
          /\ acked' = IF acked < NewRecord(p).seq THEN NewRecord(p).seq ELSE acked
      BY <1>3 DEF SyncAndReturn
    <2>2. \A i \in {0, 1} : IsRecord(slot[i]) <=> Solid(i)'
      BY <2>1 DEF Solid
    <2>3. CASE acked >= 2
      <3>1. \A i \in {0, 1} : Solid(i) => Solid(i)'
        BY <2>2 DEF Solid
      <3> QED
        BY <1>0, <2>1, <2>3, <3>1 DEF SolidInv
    <2>4. CASE acked' >= 2 /\ ~(acked >= 2)
      <3>1. /\ seen[p] \in Nat /\ seen[p] # 0 /\ NewRecord(p).seq = seen[p] + 1
            /\ Target(p) = (seen[p] + 1) % 2 /\ IsRecord(NewRecord(p))
        BY <2>1, <2>4, Published
      <3>2. Writer(p)
        BY DEF JournalInv, WriterInv
      <3>3. damage <= 1 => \E i \in {0, 1} : IsRecord(slot[i])
        BY ZenonT(60), <2>1, <3>1, <3>2 DEF Writer, Writing
      <3>4. damage = 0 => IsRecord(slot[seen[p] % 2]) /\ IsRecord(slot[(seen[p] + 1) % 2])
        BY ZenonT(60), <2>1, <3>1, <3>2 DEF Writer, Writing
      <3>5. \A i \in {0, 1} : i = seen[p] % 2 \/ i = (seen[p] + 1) % 2
        BY <3>1
      <3> QED
        BY <2>1, <2>2, <3>3, <3>4, <3>5 DEF SolidInv
    <2> QED
      BY <2>3, <2>4 DEF SolidInv
  <1>4. ASSUME NEW undone \in SUBSET DOMAIN unsynced, PowerLoss(undone)
        PROVE  SolidInv'
    <2>1. \A i \in {0, 1} : Solid(i) => Solid(i)'
      BY <1>4 DEF PowerLoss, Solid
    <2> QED
      BY <1>0, <1>4, <2>1 DEF SolidInv, PowerLoss
  <1>5. ASSUME NEW i \in {0, 1}, NEW how \in {Missing, Corrupt}, DamageSlot(i, how)
        PROVE  SolidInv'
    <2>1. \A j \in {0, 1} : j # i /\ Solid(j) => Solid(j)'
      BY <1>5 DEF DamageSlot, Solid
    <2>2. \E j \in {0, 1} : j # i
      OBVIOUS
    <2>3. acked' = acked /\ damage' = damage + 1
      BY <1>5 DEF DamageSlot
    <2> QED
      BY <1>0, <2>1, <2>2, <2>3 DEF SolidInv
  <1> QED
    BY <1>1, <1>2, <1>3, <1>4, <1>5, FileSteps DEF FileStep

\* The file that keeps the newest returned commit keeps it, or gets a newer one.
LEMMA AckedStep == ASSUME JournalInv, Next PROVE AckedInv'
  <1> USE KeptFacts
  <1> DEFINE Keeps(i, a) == /\ Solid(i) /\ slot[i].seq >= a
                            /\ i \in DOMAIN unsynced => unsynced[i].seq >= a
  <1>0. damage = 0 /\ acked > 0 => \E i \in {0, 1} : Keeps(i, acked)
    BY DEF JournalInv, AckedInv
  <1>1. CASE /\ UNCHANGED <<slot, unsynced, acked>>
             /\ damage' = damage \/ damage' = damage + 1
    BY <1>0, <1>1 DEF AckedInv, Solid
  <1>2. ASSUME NEW p \in Procs, WriteSlot(p), damage = 0 PROVE AckedInv'
    <2>1. pc[p] = "write" /\ acked' = acked /\ damage' = damage
      BY <1>2, ZenonT(60) DEF WriteSlot
    <2>2. acked <= seen[p] /\ seen[p] \in Nat /\ NewRecord(p).seq = seen[p] + 1
      BY <1>2, <2>1, Published, ZenonT(60) DEF JournalInv, WriterInv, Writer, Writing
    <2>3. \A i \in {0, 1} : Keeps(i, acked) => Keeps(i, acked)'
      <3> SUFFICES ASSUME NEW i \in {0, 1}, Keeps(i, acked) PROVE Keeps(i, acked)'
        OBVIOUS
      <3>1. CASE i = Target(p)
        <4>1. slot'[i] = NewRecord(p) /\ IsRecord(NewRecord(p))
          BY <1>2, <2>1, <3>1, Published, WriteEffect, ZenonT(60)
        <4>2. unsynced'[i] = IF i \in DOMAIN unsynced THEN unsynced[i] ELSE slot[i]
          BY <1>2, <3>1, WriteEffect, ZenonT(60)
        <4> QED
          BY <2>1, <2>2, <4>1, <4>2 DEF Solid
      <3>2. CASE i # Target(p)
        <4>1. /\ slot'[i] = slot[i] /\ (i \in DOMAIN unsynced' <=> i \in DOMAIN unsynced)
              /\ i \in DOMAIN unsynced => unsynced'[i] = unsynced[i]
          BY <1>2, <3>2, WriteEffect, ZenonT(60)
        <4> QED
          BY ZenonT(60), <2>1, <4>1 DEF Solid
      <3> QED
        BY ZenonT(60), <3>1, <3>2
    <2> QED
      BY <1>0, <2>1, <2>3 DEF AckedInv
  <1>3. ASSUME NEW p \in Procs, SyncAndReturn(p), damage = 0 PROVE AckedInv'
    <2>1. /\ slot' = slot /\ DOMAIN unsynced' = {} /\ pc[p] = "sync"
          /\ acked' = IF acked < NewRecord(p).seq THEN NewRecord(p).seq ELSE acked
      BY <1>3, ZenonT(60) DEF SyncAndReturn
    <2>2. /\ slot[Target(p)] = NewRecord(p) /\ acked <= seen[p] /\ seen[p] \in Nat
          /\ IsRecord(NewRecord(p)) /\ NewRecord(p).seq = seen[p] + 1
          /\ Target(p) \in {0, 1}
      BY <1>3, <2>1, Published, ZenonT(60) DEF JournalInv, WriterInv, Writer, Writing
    <2> QED
      BY <2>1, <2>2 DEF AckedInv, Solid
  <1>4. ASSUME NEW undone \in SUBSET DOMAIN unsynced, PowerLoss(undone)
        PROVE  AckedInv'
    <2>1. \A i \in {0, 1} : Keeps(i, acked) => Keeps(i, acked)'
      BY ZenonT(60), <1>4 DEF PowerLoss, Solid
    <2> QED
      BY <1>0, <1>4, <2>1, ZenonT(60) DEF AckedInv, PowerLoss
  <1>5. ASSUME NEW i \in {0, 1}, NEW how \in {Missing, Corrupt}, DamageSlot(i, how)
        PROVE  damage' # 0
    BY <1>5 DEF DamageSlot
  <1>6. CASE damage' # 0
    BY <1>6 DEF AckedInv
  <1> QED
    BY <1>1, <1>2, <1>3, <1>4, <1>5, <1>6, FileSteps, ZenonT(60)
    DEF FileStep, WriteSlot, SyncAndReturn

\* A round of commit that is admitted has read the newest record, and knows of
\* every commit that has returned.
LEMMA AdmittedWriter ==
    ASSUME JournalInv, NEW q \in Procs, CommitAdmitted(q) PROVE Writer(q)'
  <1>0. PICK failed \in SUBSET {0, 1} :
            LET r == LoadUnlocked(Reads(failed), loc[q].floor) IN
            Unread(failed) /\ Admitted(q, r) /\ loc' = [loc EXCEPT ![q].cur = r]
    BY ZenonT(60) DEF CommitAdmitted
  <1> DEFINE r == LoadUnlocked(Reads(failed), loc[q].floor)
             f == loc[q].floor
             s == Reads(failed)
  <1>a. /\ pc[q] = "load" /\ IsRecord(r) /\ r.seq = seen[q] /\ r.seq # MaxSeq
        /\ Policy(f, loc[q].gen, loc[q].role) \in {"retry", "update"}
        /\ UNCHANGED <<slot, unsynced, seen, acked>>
    BY <1>0, ZenonT(60) DEF CommitAdmitted, Admitted
  <1>b. damage' = 0 => damage = 0 /\ \A i \in {0, 1} : s[i] = slot[i]
    <2>1. damage' = damage + 1 \/ (failed = {} /\ damage' = damage)
      BY <1>0, ReadFacts, ZenonT(60)
    <2>2. damage' = 0 => failed = {} /\ damage = 0
      BY <2>1, KeptFacts
    <2> QED
      BY <2>2, ReadFacts, ZenonT(60)
  <1>1. /\ loc[q] \in Locals /\ f \in 0 .. MaxGen /\ f \in Nat /\ loc[q].gen \in Nat
        /\ seen[q] \in 0 .. MaxSeq /\ MaxSeq \in Nat
    BY JournalAssumption DEF JournalInv, JournalTypeOK, Locals
  <1>c. /\ r \in JournalRecord
        /\ \A i \in {0, 1} : IsRecord(s[i]) => s[i].seq <= r.seq
        /\ r.seq # 0 => /\ r.seq % 2 \in {0, 1} /\ IsRecord(s[r.seq % 2])
                        /\ s[r.seq % 2].seq = r.seq /\ s[r.seq % 2].gen <= f
    BY <1>a, <1>1, LoadFacts, ReadFacts, ZenonT(60)
  <1> HIDE DEF r, s
  <1>2. damage' = 0 =>
        /\ \A i \in {0, 1} : IsRecord(slot[i]) => slot[i].seq <= r.seq
        /\ r.seq # 0 => /\ r.seq % 2 \in {0, 1} /\ IsRecord(slot[r.seq % 2])
                        /\ slot[r.seq % 2].seq = r.seq /\ slot[r.seq % 2].gen <= f
    BY <1>b, <1>c, ZenonT(60)
  <1>3. /\ pc'[q] \in {"write", "advance"} /\ loc'[q] = [loc[q] EXCEPT !.cur = r]
        /\ f <= loc[q].gen
    <2>1. f <= loc[q].gen
      BY <1>a, <1>1 DEF Policy
    <2>2. loc'[q] = [loc[q] EXCEPT !.cur = r]
      BY <1>0, ZenonT(60) DEF JournalInv, JournalTypeOK, r
    <2> QED
      BY <2>1, <2>2, ZenonT(60) DEF CommitAdmitted, Goto, JournalInv, JournalTypeOK
  <1>4. loc'[q].cur = r /\ loc'[q].gen = loc[q].gen
    BY <1>1, <1>3, ZenonT(60) DEF Locals
  <1>5. damage' = 0 => acked <= seen[q]
    BY <1>a, <1>b, <1>1, <1>2, KeptFacts DEF JournalInv, AckedInv, Solid
  <1>6. ASSUME damage' = 0, NEW i \in {0, 1}, IsRecord(slot[i])
        PROVE  slot[i].gen <= f
    <2>1. /\ slot[i].seq \in Nat /\ slot[i].gen \in Nat /\ slot[i].seq <= seen[q]
          /\ seen[q] # 0
      BY <1>a, <1>1, <1>2, <1>6, KeptFacts
    <2>2. CASE slot[i].seq < seen[q]
      <3>1. slot[i].gen <= slot[seen[q] % 2].gen
        BY <1>a, <1>b, <1>2, <1>6, <2>1, <2>2, KeptFacts, ZenonT(60) DEF JournalInv, OrderInv
      <3>2. slot[seen[q] % 2].gen <= f /\ slot[seen[q] % 2].gen \in Nat
        BY <1>a, <1>2, <1>6, <2>1, KeptFacts, ZenonT(60)
      <3> QED
        BY <1>1, <2>1, <3>1, <3>2
    <2>3. CASE slot[i].seq = seen[q]
      <3>1. i = seen[q] % 2
        BY ZenonT(60), <1>6, <2>3 DEF JournalInv, FiledInv, Filed
      <3> QED
        BY ZenonT(60), <1>a, <1>2, <1>6, <2>1, <3>1
    <2> QED
      BY <1>1, <2>1, <2>2, <2>3
  <1>7. ASSUME damage' = 0, NEW i \in DOMAIN unsynced, IsRecord(unsynced[i])
        PROVE  unsynced[i].gen <= f
    <2>1. IsRecord(slot[i]) /\ unsynced[i].gen <= slot[i].gen /\ i \in {0, 1}
      BY ZenonT(60), <1>b, <1>7, KeptFacts DEF JournalInv, OrderInv
    <2> QED
      BY <1>1, <1>6, <1>7, <2>1, KeptFacts
  <1>8. damage' = 0 => \A x \in Kept : IsRecord(x) => x.gen <= loc[q].gen
    BY <1>1, <1>3, <1>6, <1>7, KeptFacts DEF Kept
  <1>9. Kept' = Kept
    BY <1>a DEF Kept
  <1> QED
    BY <1>a, <1>1, <1>2, <1>c, <1>3, <1>4, <1>5, <1>8, <1>9 DEF Writer, Writing

\* Nothing a writer knows changes while it holds the lock, but by damage.
LEMMA WriterStep == ASSUME JournalInv, Next PROVE WriterInv'
  <1> SUFFICES ASSUME NEW q \in Procs PROVE Writer(q)'
    BY DEF WriterInv
  <1>0. /\ Writer(q) /\ pc \in [Procs -> {"idle", "lock"} \cup Busy]
        /\ loc \in [Procs -> Locals] /\ seen \in [Procs -> 0 .. MaxSeq]
        /\ damage \in Nat /\ acked \in Nat
    BY KeptFacts DEF JournalInv, JournalTypeOK, WriterInv
  <1>1. CASE pc'[q] \notin Writing
    BY <1>1, ZenonT(60) DEF Writer
  <1>2. ASSUME UNCHANGED <<slot, unsynced, acked, damage>>, seen'[q] = seen[q],
               loc'[q] = loc[q],
               \/ pc'[q] = pc[q]
               \/ pc[q] = "advance" /\ pc'[q] \in {"reread", "write"}
        PROVE  Writer(q)'
    BY <1>0, <1>2, ZenonT(60) DEF Writer, Writing, Kept, Target, NewRecord
  <1>3. CASE Advance(q) \/ AdvanceFails(q)
    BY ZenonT(60), <1>0, <1>2, <1>3 DEF Advance, AdvanceFails, Goto
  <1>4. CASE CommitAdmitted(q)
    BY <1>4, AdmittedWriter, ZenonT(60)
  <1>5. CASE WriteSlot(q)
    <2>1. /\ pc[q] = "write" /\ pc'[q] = "sync" /\ loc'[q] = loc[q]
          /\ UNCHANGED <<seen, acked, damage>>
      BY <1>0, <1>5 DEF WriteSlot, Goto
    <2>2. /\ Target(q) \in {0, 1} /\ Target(q) = (seen[q] + 1) % 2 /\ seen[q] \in Nat
          /\ slot'[Target(q)] = NewRecord(q) /\ IsRecord(NewRecord(q))
          /\ slot'[seen[q] % 2] = slot[seen[q] % 2]
      <3>1. Target(q) \in {0, 1} /\ Target(q) = (seen[q] + 1) % 2 /\ seen[q] \in Nat
        BY ZenonT(60), <2>1, Published
      <3>2. seen[q] % 2 \in {0, 1} /\ seen[q] % 2 # (seen[q] + 1) % 2
        BY <3>1
      <3> QED
        BY <1>5, <2>1, <3>1, <3>2, Published, WriteEffect, ZenonT(60)
    <2>3. Target(q)' = Target(q) /\ NewRecord(q)' = NewRecord(q)
      BY <2>1 DEF Target, NewRecord
    <2> QED
      BY <1>0, <2>1, <2>2, <2>3, ZenonT(60) DEF Writer, Writing
  <1>6. CASE \/ Call(q) \/ Acquire(q) \/ ReadFloor(q) \/ LoadReturns(q)
             \/ CommitRaises(q) \/ AdvanceRefused(q) \/ NextRound(q)
             \/ SyncAndReturn(q) \/ WriteFails(q) \/ Die(q)
    <2>1. pc'[q] \in {"lock", "read", "load", "idle"}
      BY <1>0, <1>6, ZenonT(60) DEF Call, StartLoad, StartCommit, Acquire, ReadFloor,
            LoadReturns, CommitRaises, AdvanceRefused, NextRound, SyncAndReturn,
            WriteFails, Die, Goto, Leave
    <2> QED
      BY <1>1, <2>1 DEF Writing
  <1>7. ASSUME NEW p \in Procs, p # q, Call(p) \/ Step(p) \/ Die(p)
        PROVE  Writer(q)'
    <2>1. pc'[q] = pc[q] /\ loc'[q] = loc[q]
      BY <1>7, OthersKeep
    <2>2. CASE pc[q] \in Writing
      <3>1. lock = q /\ pc[p] \notin Busy
        BY <1>7, <2>2 DEF JournalInv, Mutex, Busy, Writing
      <3>2. UNCHANGED <<slot, unsynced, acked, damage, seen>>
        BY <1>7, <3>1, NamesAssumption, ZenonT(60)
        DEF Busy, Call, Step, StartLoad, StartCommit, Acquire, ReadFloor,
            LoadReturns, CommitRaises, CommitAdmitted, Advance, AdvanceFails,
            AdvanceRefused, NextRound, WriteSlot, SyncAndReturn, WriteFails, Die
      <3> QED
        BY <1>2, <2>1, <3>2
    <2> QED
      BY <1>1, <2>1, <2>2
  <1>8. ASSUME NEW undone \in SUBSET DOMAIN unsynced, PowerLoss(undone)
        PROVE  Writer(q)'
    BY <1>1, <1>8 DEF PowerLoss, Writing
  <1>9. CASE OthersAdvance
    BY <1>2, <1>9, ZenonT(60) DEF OthersAdvance
  <1>10. ASSUME NEW i \in {0, 1}, NEW how \in {Missing, Corrupt}, DamageSlot(i, how)
         PROVE  Writer(q)'
    <2>1. /\ UNCHANGED <<pc, loc, seen, acked>> /\ damage' = damage + 1
          /\ \A j \in {0, 1} : slot'[j] = IF j = i THEN how ELSE slot[j]
          /\ ~IsRecord(how)
      BY <1>10, KeptFacts, FileFacts, ZenonT(60) DEF DamageSlot
    <2>2. damage' # 0 /\ (damage' <= 1 => damage = 0)
      BY <2>1 DEF JournalInv, JournalTypeOK
    <2>3. ASSUME pc[q] = "sync", seen[q] # 0, damage = 0
          PROVE  \E j \in {0, 1} : IsRecord(slot'[j])
      <3>1. /\ IsRecord(slot[Target(q)]) /\ IsRecord(slot[seen[q] % 2])
            /\ Target(q) = (seen[q] + 1) % 2 /\ seen[q] \in Nat
        BY <1>0, <2>3, Published, ZenonT(60) DEF Writer, Writing
      <3>2. /\ seen[q] % 2 \in {0, 1} /\ (seen[q] + 1) % 2 \in {0, 1}
            /\ seen[q] % 2 # (seen[q] + 1) % 2
        BY <3>1
      <3> QED
        BY <2>1, <3>1, <3>2
    <2>4. \A j \in {0, 1} : IsRecord(slot'[j]) => slot'[j] = slot[j]
      BY <2>1, ZenonT(60)
    <2> QED
      BY <1>0, <2>1, <2>2, <2>3, <2>4, ZenonT(60) DEF Writer
  <1> QED
    BY ZenonT(60), <1>3, <1>4, <1>5, <1>6, <1>7, <1>8, <1>9, <1>10 DEF Next, Step, Environment

-----------------------------------------------------------------------------
(* The invariant *)

\* The empty journal satisfies the whole invariant.
LEMMA InitInv == Init => JournalInv
  <1> SUFFICES ASSUME Init PROVE JournalInv
    OBVIOUS
  <1> USE FileFacts, JournalAssumption, NamesAssumption
  <1>1. JournalTypeOK
    BY InitType, ZenonT(60)
  <1>2. Mutex /\ WriterInv
    BY ZenonT(60) DEF Init, Mutex, Busy, WriterInv, Writer, Writing
  <1>3. RoundsInv
    BY DEF Init, RoundsInv, Rounds, NoLocals
  <1>4. FiledInv /\ OrderInv /\ SolidInv /\ AckedInv
    BY DEF Init, FiledInv, Filed, OrderInv, Kept, SolidInv, AckedInv
  <1> QED
    BY <1>1, <1>2, <1>3, <1>4 DEF JournalInv

\* Every step of a process and of its environment preserves the invariant.
LEMMA NextInv == JournalInv /\ [Next]_vars => JournalInv'
  <1> SUFFICES ASSUME JournalInv, [Next]_vars PROVE JournalInv'
    OBVIOUS
  <1>1. CASE Next
    <2>1. JournalTypeOK'
      BY <1>1, StepType, EnvironmentType DEF Next
    <2> QED
      BY <1>1, <2>1, MutexStep, FloorRises, RoundsStep, FiledStep, OrderStep,
         WriterStep, SolidStep, AckedStep DEF JournalInv
  <1>2. CASE UNCHANGED vars
    <2>1. JournalTypeOK' /\ Mutex'
      BY <1>2, ZenonT(60) DEF vars, JournalInv, JournalTypeOK, Mutex
    <2>2. RoundsInv' /\ FiledInv'
      BY <1>2, ZenonT(60) DEF vars, JournalInv, RoundsInv, Rounds, FiledInv, Filed
    <2>3. OrderInv'
      <3>1. Kept' = Kept
        BY <1>2 DEF vars, Kept
      <3> QED
        BY <1>2, <3>1, ZenonT(60) DEF vars, JournalInv, OrderInv
    <2>4. WriterInv'
      <3> SUFFICES ASSUME NEW p \in Procs PROVE Writer(p)'
        BY ZenonT(60) DEF WriterInv
      <3>1. Kept' = Kept /\ Target(p)' = Target(p) /\ NewRecord(p)' = NewRecord(p)
        BY <1>2, ZenonT(60) DEF vars, Kept, Target, NewRecord
      <3>2. Writer(p)
        BY ZenonT(60) DEF JournalInv, WriterInv
      <3> QED
        BY <1>2, <3>1, <3>2, ZenonT(60) DEF vars, Writer
    <2>5. SolidInv' /\ AckedInv'
      BY <1>2, ZenonT(60) DEF vars, JournalInv, SolidInv, Solid, AckedInv
    <2> QED
      BY <2>1, <2>2, <2>3, <2>4, <2>5 DEF JournalInv
  <1> QED
    BY <1>1, <1>2

\* The journal keeps its invariant through every interleaving and every fault.
THEOREM JournalSafe == Spec => []JournalInv
  BY InitInv, NextInv, PTL DEF Spec

\* No file, and nothing a power loss brings back, is ahead of the floor.
THEOREM RecordsStayBelowFloor == Spec => []RecordsBelowFloor
  <1>1. JournalInv => RecordsBelowFloor
    BY FileFacts, JournalAssumption
    DEF JournalInv, JournalTypeOK, FiledInv, Filed, RecordsBelowFloor, JournalRecord
  <1> QED
    BY <1>1, JournalSafe, PTL

\* A commit that writes publishes a generation between the floor at its call
\* and the present floor, however the floor moved in between.
THEOREM CommitsNeverRollBack == Spec => []NoRollbackAccepted
  <1>1. JournalInv => NoRollbackAccepted
    BY ZenonT(60) DEF JournalInv, RoundsInv, Rounds, NoRollbackAccepted
  <1> QED
    BY <1>1, JournalSafe, PTL

\* A writer whose expected sequence is stale does not get to write.
THEOREM StaleWritersAreRefused == Spec => []StaleWritersConflict
  <1>1. JournalInv => StaleWritersConflict
    BY ZenonT(60) DEF JournalInv, WriterInv, Writer, Writing, StaleWritersConflict
  <1> QED
    BY <1>1, JournalSafe, PTL

\* A commit that returned is found again after any crash.
THEOREM ReturnedCommitsSurvive == Spec => []AckedIsDurable
  <1>1. ASSUME JournalInv, damage = 0, acked > 0, NEW u \in SUBSET DOMAIN unsynced
        PROVE  \E i \in {0, 1} : IsRecord(After(u)[i]) /\ After(u)[i].seq >= acked
    <2>1. PICK i \in {0, 1} : /\ Solid(i) /\ slot[i].seq >= acked
                              /\ i \in DOMAIN unsynced => unsynced[i].seq >= acked
      BY <1>1, ZenonT(60) DEF JournalInv, AckedInv
    <2>2. After(u)[i] = IF i \in u THEN unsynced[i] ELSE slot[i]
      BY ZenonT(60) DEF After
    <2> QED
      BY <2>1, <2>2, ZenonT(60) DEF Solid
  <1>2. JournalInv => AckedIsDurable
    BY ZenonT(60), <1>1 DEF AckedIsDurable
  <1> QED
    BY <1>2, JournalSafe, PTL

\* Two files of which at least one is a record, filed by parity and not ahead
\* of the floor, load.
LEMMA LoadSucceeds ==
    ASSUME NEW s \in [{0, 1} -> File], NEW f \in 0 .. MaxGen,
           \A i \in {0, 1} : IsRecord(s[i]) => s[i].seq % 2 = i /\ s[i].gen <= f,
           \E i \in {0, 1} : IsRecord(s[i])
    PROVE  IsRecord(LoadUnlocked(s, f))
  <1> DEFINE valid == {i \in {0, 1} : IsRecord(s[i])}
             newest == {i \in valid : \A j \in valid : s[j].seq <= s[i].seq}
             k == CHOOSE i \in newest : TRUE
  <1>1. \A i \in valid : s[i].seq \in Nat /\ s[i].gen \in Nat
    BY FileFacts DEF JournalRecord
  <1>2. newest # {}
    <2>1. CASE 0 \in valid /\ 1 \in valid
      BY <1>1, <2>1
    <2> QED
      BY <1>1, <2>1
  <1>3. k \in newest
    BY <1>2, ZenonT(60)
  <1>4. \A i, j \in newest : s[i] = s[j]
    <2> SUFFICES ASSUME NEW i \in newest, NEW j \in newest PROVE i = j
      OBVIOUS
    <2>1. s[i].seq = s[j].seq
      BY <1>1
    <2> QED
      BY <2>1
  <1>5. ~(s[k].gen > f)
    <2>1. s[k].gen <= f /\ s[k].gen \in Nat
      BY <1>1, <1>3, ZenonT(60)
    <2> QED
      BY <2>1, JournalAssumption
  <1>6. LoadUnlocked(s, f) = IF s[k].gen < f THEN Record(s[k].seq, f, Unset) ELSE s[k]
    <2>1. valid # {}
      OBVIOUS
    <2>2. LoadUnlocked(s, f) =
            IF (\E i, j \in newest : s[i] # s[j]) \/ s[k].gen > f THEN Corrupt
            ELSE IF s[k].gen < f THEN Record(s[k].seq, f, Unset) ELSE s[k]
      BY <2>1, ZenonT(60) DEF LoadUnlocked
    <2> HIDE DEF newest, k
    <2> QED
      BY <1>4, <1>5, <2>2, ZenonT(60)
  <1>7. IsRecord(s[k]) /\ IsRecord(Record(s[k].seq, f, Unset))
    BY <1>3, ZenonT(60) DEF IsRecord, Record
  <1> QED
    BY <1>6, <1>7, ZenonT(60)

\* What the files hold after any power loss is well filed.
LEMMA AfterFacts ==
    ASSUME JournalInv, NEW u \in SUBSET DOMAIN unsynced
    PROVE  /\ After(u) \in [{0, 1} -> File]
           /\ \A i \in {0, 1} : /\ After(u)[i] \in Kept
                                /\ After(u)[i] = IF i \in u THEN unsynced[i] ELSE slot[i]
                                /\ IsRecord(After(u)[i]) =>
                                    After(u)[i].seq % 2 = i /\ After(u)[i].gen <= floor
  <1>1. \A i \in {0, 1} : After(u)[i] = IF i \in u THEN unsynced[i] ELSE slot[i]
    BY DEF After
  <1>2. \A i \in {0, 1} : After(u)[i] \in Kept /\ After(u)[i] \in File
    BY <1>1, KeptFacts, ZenonT(60)
  <1> QED
    BY ZenonT(60), <1>1, <1>2 DEF After, JournalInv, FiledInv, Filed

\* Two files written and at most one lost: the journal loads, now and after the
\* next power loss.
THEOREM OneLossIsTolerated == Spec => []OneDamagedFileTolerated
  <1>1. ASSUME JournalInv, damage <= 1, acked >= 2, NEW u \in SUBSET DOMAIN unsynced
        PROVE  IsRecord(LoadUnlocked(After(u), floor))
    <2>1. PICK i \in {0, 1} : Solid(i)
      BY <1>1 DEF JournalInv, SolidInv
    <2>2. IsRecord(After(u)[i])
      BY ZenonT(60), <1>1, <2>1, AfterFacts DEF Solid
    <2> QED
      BY ZenonT(60), <1>1, <2>2, AfterFacts, LoadSucceeds DEF JournalInv, JournalTypeOK
  <1>2. JournalInv => OneDamagedFileTolerated
    BY <1>1 DEF OneDamagedFileTolerated
  <1> QED
    BY <1>2, JournalSafe, PTL

-----------------------------------------------------------------------------
(* Progress of a holder *)

\* Every step of a lock holder that keeps the lock uses up one of the steps it
\* has left.
LEMMA HolderStep ==
    ASSUME JournalInv, Next, NEW p \in Procs, lock = p, lock' = p,
           <<pc[p], loc[p]>>' # <<pc[p], loc[p]>>
    PROVE  0 <= StepsLeft(p)' /\ StepsLeft(p)' < StepsLeft(p)
  <1> DEFINE r == loc[p].rounds
  <1>0. /\ pc \in [Procs -> {"idle", "lock"} \cup Busy] /\ loc \in [Procs -> Locals]
        /\ pc[p] \in Busy /\ Rounds(p) /\ r \in Nat /\ p # Free
    BY ZenonT(60), NamesAssumption DEF JournalInv, JournalTypeOK, Mutex, RoundsInv, Locals
  <1>1. CASE ReadFloor(p)
    <2>1. pc[p] = "read" /\ pc'[p] = "load" /\ loc'[p].rounds = r + 1
      BY <1>0, <1>1, ZenonT(60) DEF ReadFloor, Goto, Locals
    <2>2. r = 0 \/ r = 1
      BY ZenonT(60), <1>0, <2>1 DEF Rounds
    <2> QED
      BY <2>1, <2>2 DEF StepsLeft
  <1>2. CASE CommitAdmitted(p)
    <2>0. \E x : loc' = [loc EXCEPT ![p].cur = x]
      BY <1>2, ZenonT(60) DEF CommitAdmitted
    <2>1. /\ pc[p] = "load" /\ pc'[p] \in {"write", "advance"}
          /\ loc'[p].rounds = r
      <3>1. pc[p] = "load" /\ pc'[p] \in {"write", "advance"}
        BY <1>0, <1>2, ZenonT(60) DEF CommitAdmitted, Goto
      <3>2. loc'[p].rounds = r
        BY <1>0, <2>0, ZenonT(60) DEF Locals
      <3> QED
        BY <3>1, <3>2
    <2>2. r = 1 \/ r = 2
      BY ZenonT(60), <1>0, <2>1 DEF Rounds
    <2> QED
      BY <2>1, <2>2 DEF StepsLeft
  <1>3. CASE Advance(p) \/ AdvanceFails(p) \/ NextRound(p) \/ WriteSlot(p)
    <2>1. /\ loc'[p] = loc[p]
          /\ \/ pc[p] = "advance" /\ pc'[p] \in {"write", "reread"}
             \/ pc[p] = "reread" /\ pc'[p] = "read"
             \/ pc[p] = "write" /\ pc'[p] = "sync"
      BY <1>0, <1>3, ZenonT(60) DEF Advance, AdvanceFails, NextRound, WriteSlot, Goto
    <2>2. r = 1 \/ r = 2
      BY <1>0, <2>1 DEF Rounds
    <2> QED
      BY <2>1, <2>2 DEF StepsLeft
  <1>4. CASE \/ Call(p) \/ Acquire(p) \/ LoadReturns(p) \/ CommitRaises(p)
             \/ AdvanceRefused(p) \/ SyncAndReturn(p) \/ WriteFails(p) \/ Die(p)
             \/ \E undone \in SUBSET DOMAIN unsynced : PowerLoss(undone)
    BY <1>0, <1>4, ZenonT(60) DEF Call, StartLoad, StartCommit, Acquire, LoadReturns,
        CommitRaises, AdvanceRefused, SyncAndReturn, WriteFails, Die, PowerLoss,
        Leave, Busy
  <1>5. ASSUME NEW q \in Procs, q # p, Call(q) \/ Step(q) \/ Die(q) PROVE FALSE
    BY ZenonT(60), <1>5, OthersKeep
  <1>6. CASE \/ OthersAdvance
             \/ \E i \in {0, 1}, how \in {Missing, Corrupt} : DamageSlot(i, how)
    BY <1>6 DEF OthersAdvance, DamageSlot
  <1> QED
    BY <1>1, <1>2, <1>3, <1>4, <1>5, <1>6, ZenonT(60) DEF Next, Step, Environment

\* However the floor moves, a holder of the lock is a bounded number of its own
\* steps from leaving the with block.
THEOREM HoldersLeave == Spec => HoldIsBounded
  <1>1. ASSUME JournalInv, [Next]_vars, NEW p \in Procs, lock = p, lock' = p,
               <<pc[p], loc[p]>>' # <<pc[p], loc[p]>>
        PROVE  0 <= StepsLeft(p)' /\ StepsLeft(p)' < StepsLeft(p)
    BY ZenonT(60), <1>1, HolderStep DEF vars
  <1>2. JournalInv /\ [Next]_vars =>
          [\A p \in Procs :
            lock = p /\ lock' = p /\ <<pc[p], loc[p]>>' # <<pc[p], loc[p]>> =>
                0 <= StepsLeft(p)' /\ StepsLeft(p)' < StepsLeft(p)]_vars
    BY <1>1
  <1> QED
    BY <1>2, JournalSafe, PTL DEF Spec, HoldIsBounded

-----------------------------------------------------------------------------
(* The journal implements the generation log *)

\* Files filed by parity have one newest record, or none.
LEMMA NewestFacts ==
    ASSUME NEW d \in [{0, 1} -> File],
           \A i \in {0, 1} : IsRecord(d[i]) => d[i].seq % 2 = i
    PROVE  \/ /\ \A i \in {0, 1} : ~IsRecord(d[i])
              /\ NewestOf(d) = Record(0, 0, Unset)
           \/ \E k \in {0, 1} :
                /\ IsRecord(d[k]) /\ NewestOf(d) = d[k]
                /\ \A i \in {0, 1} : IsRecord(d[i]) => d[i].seq <= d[k].seq
  <1> DEFINE valid == {i \in {0, 1} : IsRecord(d[i])}
             k == CHOOSE i \in valid : \A j \in valid : d[j].seq <= d[i].seq
  <1>1. CASE valid = {}
    BY <1>1 DEF NewestOf
  <1>2. CASE valid # {}
    <2>1. \A i \in valid : d[i].seq \in Nat
      BY FileFacts DEF JournalRecord
    <2>2. \E i \in valid : \A j \in valid : d[j].seq <= d[i].seq
      <3>1. CASE 0 \in valid /\ 1 \in valid
        BY <2>1, <3>1
      <3> QED
        BY <1>2, <2>1, <3>1
    <2>3. k \in valid /\ \A j \in valid : d[j].seq <= d[k].seq
      BY <2>2, ZenonT(60)
    <2>4. NewestOf(d) = d[k]
      BY ZenonT(60), <1>2 DEF NewestOf
    <2> QED
      BY <2>3, <2>4, ZenonT(60)
  <1> QED
    BY ZenonT(60), <1>1, <1>2

\* When unsynced renames settle, by fsync or by power loss, the durable newest
\* record is the same or has been replaced by a newer one the log allows.
LEMMA Settle ==
    ASSUME JournalInv, damage = 0, NEW u \in SUBSET DOMAIN unsynced
    PROVE  \/ NewestOf(After(u)) = DurableNewest
           \/ /\ NewestOf(After(u)).seq \in Nat
              /\ NewestOf(After(u)).seq > DurableNewest.seq
              /\ NewestOf(After(u)).gen \in DurableNewest.gen .. floor
  <1> DEFINE d == After(DOMAIN unsynced)
             e == After(u)
             D == DurableNewest
             E == NewestOf(e)
  <1>1. /\ d \in [{0, 1} -> File] /\ e \in [{0, 1} -> File] /\ D = NewestOf(d)
        /\ \A i \in {0, 1} :
            /\ d[i] \in Kept /\ e[i] \in Kept
            /\ d[i] = IF i \in DOMAIN unsynced THEN unsynced[i] ELSE slot[i]
            /\ e[i] = IF i \in u THEN unsynced[i] ELSE slot[i]
            /\ IsRecord(d[i]) => d[i].seq % 2 = i /\ d[i].gen <= floor
            /\ IsRecord(e[i]) => e[i].seq % 2 = i /\ e[i].gen <= floor
    BY ZenonT(60), AfterFacts DEF DurableNewest
  <1>2. \A x \in Kept : IsRecord(x) => x.seq \in Nat /\ x.gen \in Nat /\ x.seq > 0
    BY ZenonT(60), KeptFacts
  <1>3. /\ \A i \in DOMAIN unsynced :
            IsRecord(slot[i]) /\ (IsRecord(unsynced[i]) => unsynced[i].seq < slot[i].seq)
        /\ \A x, y \in Kept :
            IsRecord(x) /\ IsRecord(y) /\ x.seq < y.seq => x.gen <= y.gen
    BY ZenonT(60) DEF JournalInv, OrderInv
  <1>4. floor \in Nat
    BY JournalAssumption DEF JournalInv, JournalTypeOK
  <1> HIDE DEF d, e
  <1>5. \A i \in {0, 1} : IsRecord(d[i]) =>
            IsRecord(e[i]) /\ (e[i] = d[i] \/ d[i].seq < e[i].seq)
    BY ZenonT(60), <1>1, <1>2, <1>3
  <1>6. CASE \A i \in {0, 1} : ~IsRecord(e[i])
    <2>1. E = Record(0, 0, Unset)
      BY <1>1, <1>6, NewestFacts, ZenonT(60)
    <2>2. D = Record(0, 0, Unset)
      BY ZenonT(60), <1>1, <1>5, <1>6, NewestFacts
    <2> QED
      BY <2>1, <2>2, ZenonT(60) DEF e
  <1>7. CASE \E i \in {0, 1} : IsRecord(e[i])
    <2>1. PICK k \in {0, 1} : /\ IsRecord(e[k]) /\ E = e[k]
                              /\ \A i \in {0, 1} : IsRecord(e[i]) => e[i].seq <= e[k].seq
      BY <1>1, <1>7, NewestFacts, ZenonT(60)
    <2>2. e[k].seq \in Nat /\ e[k].gen \in Nat /\ e[k].seq > 0 /\ e[k].gen <= floor
      BY <1>1, <1>2, <2>1, ZenonT(60)
    <2>3. CASE \A i \in {0, 1} : ~IsRecord(d[i])
      <3>1. D = Record(0, 0, Unset)
        BY ZenonT(60), <1>1, <2>3, NewestFacts
      <3>2. D.seq = 0 /\ D.gen = 0
        BY <3>1, ZenonT(60) DEF Record
      <3> QED
        BY <1>4, <2>1, <2>2, <3>2 DEF e
    <2>4. CASE \E i \in {0, 1} : IsRecord(d[i])
      <3>1. PICK j \in {0, 1} : IsRecord(d[j]) /\ D = d[j]
        BY <1>1, <2>4, NewestFacts, ZenonT(60)
      <3>2. /\ d[j].seq \in Nat /\ d[j].gen \in Nat /\ IsRecord(e[j])
            /\ e[j].seq \in Nat /\ e[j].seq <= e[k].seq
            /\ e[j] = d[j] \/ d[j].seq < e[j].seq
        BY <1>1, <1>2, <1>5, <2>1, <3>1, ZenonT(60)
      <3>3. CASE d[j].seq < e[k].seq
        <4>1. d[j].gen <= e[k].gen
          BY <1>1, <1>3, <2>1, <3>1, <3>3, ZenonT(60)
        <4>2. e[k].seq > d[j].seq /\ e[k].gen \in d[j].gen .. floor
          BY <1>4, <2>2, <3>2, <3>3, <4>1
        <4> QED
          BY ZenonT(60), <2>1, <2>2, <3>1, <4>2 DEF e
      <3>4. CASE ~(d[j].seq < e[k].seq)
        <4>1. e[j] = d[j] /\ e[j].seq = e[k].seq
          BY <2>2, <3>2, <3>4
        <4>2. j = k
          BY <1>1, <2>1, <3>2, <4>1
        <4> QED
          BY ZenonT(60), <2>1, <3>1, <4>1, <4>2 DEF e
      <3> QED
        BY <3>3, <3>4, ZenonT(60)
    <2> QED
      BY <2>3, <2>4, ZenonT(60)
  <1> QED
    BY <1>6, <1>7, ZenonT(60)

\* Every step of the journal is a step of the log, or leaves the log alone.
LEMMA LogStep ==
    ASSUME JournalInv, [Next]_vars
    PROVE  [Log!Next]_<<floor, DurableNewest.seq, DurableNewest.gen, damage > 0>>
  <1> USE DEF Log!Next, Log!Advance, Log!Publish, Log!Damaged
  <1>0. damage \in Nat /\ damage' \in Nat /\ floor \in Nat
    BY NextInv, JournalAssumption DEF JournalInv, JournalTypeOK
  <1>1. CASE UNCHANGED <<slot, unsynced, damage, floor>>
    BY <1>1, ZenonT(60) DEF DurableNewest, After
  <1>2. CASE UNCHANGED <<slot, unsynced, damage>> /\ floor' = floor + 1
    BY ZenonT(60), <1>2 DEF DurableNewest, After
  <1>3. CASE UNCHANGED floor /\ damage' > 0
    BY <1>3
  <1>4. ASSUME NEW p \in Procs, WriteSlot(p)
        PROVE  [Log!Next]_<<floor, DurableNewest.seq, DurableNewest.gen, damage > 0>>
    <2>1. \A i \in {0, 1} :
            (IF i \in DOMAIN unsynced' THEN unsynced'[i] ELSE slot'[i])
              = IF i \in DOMAIN unsynced THEN unsynced[i] ELSE slot[i]
      BY <1>4, WriteEffect, ZenonT(60)
    <2>2. After(DOMAIN unsynced)' = After(DOMAIN unsynced)
      BY <2>1 DEF After
    <2>3. DurableNewest' = DurableNewest
      BY <2>2, ZenonT(60) DEF DurableNewest
    <2> QED
      BY ZenonT(60), <1>4, <2>3 DEF WriteSlot
  <1>5. ASSUME NEW u \in SUBSET DOMAIN unsynced, damage = 0, UNCHANGED <<floor, damage>>,
               DOMAIN unsynced' = {}, \A i \in {0, 1} : slot'[i] = After(u)[i]
        PROVE  [Log!Next]_<<floor, DurableNewest.seq, DurableNewest.gen, damage > 0>>
    <2>1. After(DOMAIN unsynced)' = After(u)
      <3>1. After(DOMAIN unsynced)' = [i \in {0, 1} |-> slot'[i]]
        BY <1>5 DEF After
      <3>2. After(u) = [i \in {0, 1} |-> After(u)[i]]
        BY DEF After
      <3> QED
        BY <1>5, <3>1, <3>2
    <2>2. DurableNewest' = NewestOf(After(u))
      BY <2>1, ZenonT(60) DEF DurableNewest
    <2> QED
      BY ZenonT(60), <1>0, <1>5, <2>2, Settle
  <1>6. ASSUME NEW p \in Procs, SyncAndReturn(p), damage = 0
        PROVE  [Log!Next]_<<floor, DurableNewest.seq, DurableNewest.gen, damage > 0>>
    <2>1. \A i \in {0, 1} : slot'[i] = After({})[i]
      BY <1>6, ZenonT(60) DEF SyncAndReturn, After
    <2> QED
      BY <1>5, <1>6, <2>1 DEF SyncAndReturn
  <1>7. ASSUME NEW undone \in SUBSET DOMAIN unsynced, PowerLoss(undone), damage = 0
        PROVE  [Log!Next]_<<floor, DurableNewest.seq, DurableNewest.gen, damage > 0>>
    <2>1. \A i \in {0, 1} : slot'[i] = After(undone)[i]
      BY ZenonT(60), <1>7 DEF PowerLoss, After
    <2> QED
      BY <1>5, <1>7, <2>1, ZenonT(60) DEF PowerLoss
  <1>8. ASSUME NEW i \in {0, 1}, NEW how \in {Missing, Corrupt}, DamageSlot(i, how)
        PROVE  UNCHANGED floor /\ damage' > 0
    BY <1>0, <1>8 DEF DamageSlot
  <1>9. CASE \/ \E p \in Procs : SyncAndReturn(p)
             \/ \E undone \in SUBSET DOMAIN unsynced : PowerLoss(undone)
    <2>1. UNCHANGED <<floor, damage>>
      BY <1>9, ZenonT(60) DEF SyncAndReturn, PowerLoss
    <2>2. damage = 0 \/ damage' > 0
      BY <1>0, <2>1
    <2> QED
      BY <1>3, <1>6, <1>7, <1>9, <2>1, <2>2, ZenonT(60)
  <1>10. CASE OthersAdvance \/ \E p \in Procs : Advance(p)
    BY <1>2, <1>10, ZenonT(60) DEF OthersAdvance, Advance
  <1>11. CASE \E p \in Procs :
                \/ Call(p) \/ Die(p) \/ Acquire(p) \/ ReadFloor(p) \/ LoadReturns(p)
                \/ CommitRaises(p) \/ CommitAdmitted(p) \/ AdvanceFails(p)
                \/ AdvanceRefused(p) \/ NextRound(p) \/ WriteFails(p)
    <2>1. CASE \E p \in Procs : LoadReturns(p) \/ CommitRaises(p) \/ CommitAdmitted(p)
      <3>1. /\ UNCHANGED <<slot, unsynced, floor>>
            /\ damage' = damage \/ damage' = damage + 1
        BY <2>1, LoadFrame, ZenonT(60)
      <3>2. damage' = damage \/ damage' > 0
        BY <1>0, <3>1
      <3> QED
        BY <1>1, <1>3, <3>1, <3>2, ZenonT(60)
    <2> QED
      BY <1>1, <1>11, <2>1, ZenonT(60) DEF Call, StartLoad, StartCommit, Die, Acquire,
          ReadFloor, AdvanceFails, AdvanceRefused, NextRound, WriteFails
  <1>12. CASE UNCHANGED vars
    BY ZenonT(60), <1>1, <1>12 DEF vars
  <1> QED
    BY <1>3, <1>4, <1>8, <1>9, <1>10, <1>11, <1>12, ZenonT(60) DEF Next, Step, Environment

\* The journal implements the generation log.
THEOREM JournalImplementsLog == Spec => ImplementsLog
  <1>1. Init => Log!Init
    <2> SUFFICES ASSUME Init PROVE Log!Init
      OBVIOUS
    <2>1. After(DOMAIN unsynced) = [i \in {0, 1} |-> Missing] /\ damage = 0 /\ floor = 0
      BY DEF Init, After
    <2>2. DurableNewest = Record(0, 0, Unset)
      BY <2>1, FileFacts DEF DurableNewest, NewestOf
    <2> QED
      BY <2>1, <2>2 DEF Log!Init, Record
  <1> QED
    BY <1>1, LogStep, JournalSafe, PTL DEF Spec, ImplementsLog, Log!Spec

=============================================================================
