---------------------------- MODULE EfiLoaderProofs ----------------------------
(***************************************************************************)
(* For every number of attempts, slack, map size and segment count: the    *)
(* loader's safety properties, from one inductive invariant.  ExitInv says *)
(* who holds the map buffer and how old the map in it may be; MainInv ties *)
(* what the firmware has given out to the place efi_main has reached.      *)
(***************************************************************************)
EXTENDS EfiLoader, TLAPS

ExitPlaces == {"idle", "probe", "allocate", "map", "exit", "done"}

ExitStatuses == {"none", "ok", "probe", "overflow", "allocation", "memory_map",
                 "exit_boot_services", "retry_limit"}

ExitType ==
    /\ live \in BOOLEAN /\ key \in Nat /\ msize \in Nat \ {0} /\ changes \in Nat
    /\ x \in [pc : ExitPlaces, status : ExitStatuses, attempt : Nat, buf : Nat,
              fresh : Nat \ {0}, cap : Nat, size : Nat, key : Nat, stored : Nat]

ExitInv ==
    /\ ExitType
    /\ pool = IF x.buf = NoBuffer THEN {} ELSE {x.buf}
    /\ x.pc \in {"idle", "probe", "allocate"} => x.buf = NoBuffer
    /\ x.pc \in {"map", "exit"} => x.buf # NoBuffer
    /\ x.pc = "done" => (x.buf # NoBuffer <=> x.status = "ok")
    /\ x.pc = "done" <=> x.status # "none"
    /\ live <=> x.status # "ok"
    /\ live => result = NoResult
    /\ ~live => /\ result = [final |-> TRUE, buf |-> x.buf, size |-> x.size,
                             cap |-> x.cap, key |-> x.key]
                /\ x.key = key
    /\ x.key <= key
    /\ x.pc = "exit" \/ ~live =>
           /\ x.stored = x.key /\ x.size <= x.cap
           /\ x.key = key => x.size = msize
    /\ late = FALSE

\* The map buffer is nobody's before the exit begins.
LEMMA ExitInitInv == ExitInit => ExitInv
  BY ExitAssumption
  DEF ExitInit, ExitInv, ExitType, Start, ExitPlaces, ExitStatuses, NoBuffer, NoResult

\* Whatever the firmware's map does of its own accord, it does while live.
LEMMA FirmwareKeepsExitInv == ExitInv /\ FirmwareChangesMap => ExitInv'
  BY ExitAssumption DEF FirmwareChangesMap, ExitInv, ExitType, NoBuffer

\* A step of somebody else that leaves the machine and the firmware alone.
LEMMA StillKeepsExitInv == ExitInv /\ Still /\ UNCHANGED late => ExitInv'
  BY DEF Still, firmwareVars, ExitInv, ExitType

\* An allocation or a free of the loader's own, while nothing is held here.
LEMMA MapMovesKeepsExitInv ==
    ExitInv /\ live /\ MapMoves /\ UNCHANGED <<pool, x, result, late>> => ExitInv'
  BY ExitAssumption DEF MapMoves, ExitInv, ExitType, NoBuffer

\* Each step of bbp_uefi_exit_boot_services keeps the invariant.
LEMMA ExitStepInv == ExitInv /\ ExitStep => ExitInv'
<1> SUFFICES ASSUME ExitInv, ExitStep PROVE ExitInv'
  OBVIOUS
<1> USE ExitAssumption DEF ExitType, ExitPlaces, ExitStatuses
<1>1. /\ ExitType /\ late = FALSE
      /\ x.pc \in {"probe", "allocate", "map", "exit"} =>
             live /\ x.status = "none" /\ result = NoResult
  BY DEF ExitInv
<1>2. /\ x.attempt + 1 \in Nat /\ x.fresh + 1 \in Nat \ {0}
       /\ Capacity(msize) \in Nat /\ key + 1 \in Nat
  BY <1>1 DEF Capacity
<1>3. ASSUME MapMoves
       PROVE  /\ msize' \in Nat \ {0} /\ key' = key + 1
              /\ live' = live /\ changes' = changes
  <2>1. \A n \in 1 .. MaxMap : n \in Nat \ {0}
    OBVIOUS
  <2> QED
    BY <1>3, <2>1 DEF MapMoves
<1> USE DEF Call, Service, firmwareVars
<1>4. CASE Probe
  <2>1. ExitType' /\ live' = live /\ late' = FALSE
    BY <1>1, <1>4, <1>2, ZenonT(60) DEF Probe, Return
  <2>2. /\ x'.buf = x.buf /\ x'.key = x.key /\ x'.size = x.size
        /\ \/ x'.pc = "allocate" /\ x'.status = "none"
           \/ x'.pc = "done" /\ x'.status = "overflow"
    BY <1>1, <1>4, ZenonT(60) DEF Probe, Return
  <2> QED
    BY <1>1, <1>4, <2>1, <2>2 DEF ExitInv, Probe, NoBuffer
<1>5. CASE ProbeFails
  BY <1>1, <1>5, ZenonT(60) DEF ProbeFails, Return, ExitInv
<1>6. CASE Allocate
  <2>1. ExitType' /\ live' = live /\ late' = FALSE /\ key' = key + 1
    BY <1>1, <1>6, <1>3, <1>2, ZenonT(60) DEF Allocate
  <2>2. /\ x'.buf = x.fresh /\ x'.key = x.key /\ x'.pc = "map"
        /\ x'.status = "none" /\ pool' = pool \cup {x.fresh} /\ result' = result
    BY <1>1, <1>6 DEF Allocate
  <2> QED
    BY <1>1, <1>6, <2>1, <2>2 DEF ExitInv, Allocate, NoBuffer
<1>7. CASE AllocateFails
  BY <1>1, <1>7, ZenonT(60) DEF AllocateFails, Return, ExitInv
<1>8. CASE GetMap
  <2>1. ExitType' /\ late' = FALSE
    BY <1>1, <1>8, ZenonT(60) DEF GetMap
  <2>2. /\ x'.buf = x.buf /\ x'.key = key /\ x'.pc = "exit" /\ x'.stored = key
        /\ x'.status = "none" /\ x'.size = msize /\ x'.cap = x.cap
    BY <1>1, <1>8 DEF GetMap
  <2> QED
    BY <1>1, <1>8, <2>1, <2>2 DEF ExitInv, GetMap, NoBuffer
<1>9. ASSUME NEW status \in ExitStatuses \ {"none", "ok"}, FreeAndReturn(status),
             x.pc \in {"map", "exit"}, late' = FALSE, result' = result
      PROVE  ExitInv'
  <2>1. ExitType' /\ live' = live /\ key' = key + 1
    BY <1>1, <1>9, <1>3, <1>2, ZenonT(60) DEF FreeAndReturn, NoBuffer
  <2>2. /\ x'.buf = NoBuffer /\ x'.key = x.key /\ x'.pc = "done"
        /\ x'.status = status /\ pool' = pool \ {x.buf}
    BY <1>1, <1>9 DEF FreeAndReturn
  <2> QED
    BY <1>1, <1>9, <2>1, <2>2 DEF ExitInv, NoBuffer
<1>10. CASE MapTooLarge
  <2>1. x.pc = "map" /\ late' = FALSE /\ result' = result
    BY <1>1, <1>10, ZenonT(60) DEF MapTooLarge
  <2>2. CASE ~CapacityOk(msize)
    <3>1. FreeAndReturn("overflow")
      BY <1>10, <2>2 DEF MapTooLarge
    <3> QED
      BY <1>1, <1>9, <2>1, <3>1, ZenonT(60)
  <2>3. CASE CapacityOk(msize)
    <3>1. /\ live' = live /\ key' = key + 1 /\ changes' = changes
          /\ msize' \in Nat \ {0} /\ key' \in Nat
      BY <1>2, <1>3, <1>10, <2>3 DEF MapTooLarge
    <3>2. x' = [x EXCEPT !.pc = "allocate", !.buf = 0, !.cap = Capacity(msize),
                         !.attempt = x.attempt + 1]
      BY <1>10, <2>3 DEF MapTooLarge, NoBuffer
    <3>3. ExitType'
      BY <1>1, <1>2, <3>1, <3>2, ZenonT(60)
    <3>4. /\ x'.buf = NoBuffer /\ x'.key = x.key /\ x'.pc = "allocate"
          /\ x'.status = "none" /\ pool' = pool \ {x.buf}
      BY <1>1, <1>10, <2>3, ZenonT(60) DEF MapTooLarge
    <3> QED
      BY <1>1, <2>1, <3>1, <3>3, <3>4 DEF ExitInv, NoBuffer
  <2> QED
    BY <2>2, <2>3
<1>11. CASE GetMapFails
  <2>1. FreeAndReturn("memory_map") /\ x.pc = "map" /\ late' = FALSE /\ result' = result
    BY <1>1, <1>11, ZenonT(60) DEF GetMapFails
  <2> QED
    BY <1>1, <1>9, <2>1, ZenonT(60)
<1>12. CASE ExitBootServices
  BY <1>1, <1>12, ZenonT(60) DEF ExitBootServices, Return, ExitInv
<1>13. CASE KeyRejected
  <2>1. ExitType' /\ late' = FALSE
    BY <1>1, <1>13, <1>2, ZenonT(60) DEF KeyRejected
  <2>2. /\ x'.buf = x.buf /\ x'.key = x.key /\ x'.pc = "map" /\ x'.status = "none"
    BY <1>1, <1>13 DEF KeyRejected
  <2> QED
    BY <1>1, <1>13, <2>1, <2>2 DEF ExitInv, KeyRejected, NoBuffer
<1>14. CASE ExitFails
  <2>1. FreeAndReturn("exit_boot_services") /\ x.pc = "exit" /\ late' = FALSE /\ result' = result
    BY <1>1, <1>14, ZenonT(60) DEF ExitFails
  <2> QED
    BY <1>1, <1>9, <2>1, ZenonT(60)
<1>15. CASE GiveUp
  <2>1. FreeAndReturn("retry_limit") /\ x.pc = "map" /\ late' = FALSE /\ result' = result
    BY <1>1, <1>15, ZenonT(60) DEF GiveUp
  <2> QED
    BY <1>1, <1>9, <2>1, ZenonT(60)
<1> QED
  BY <1>4, <1>5, <1>6, <1>7, <1>8, <1>10, <1>11, <1>12, <1>13, <1>14, <1>15 DEF ExitStep

-----------------------------------------------------------------------------
\* As long as the firmware serves every call and keeps its map still, the
\* machine is in its first attempt with a buffer that is large enough.
QuietInv ==
    ~faulty /\ changes = 0 =>
        /\ x.attempt = 0
        /\ x.pc = "allocate" => msize + Slack <= x.cap
        /\ x.pc = "map" => msize <= x.cap
        /\ x.pc = "exit" => x.key = key
        /\ x.pc = "done" => x.status \in {"ok", "overflow"}

\* Each step of bbp_uefi_exit_boot_services keeps it.
LEMMA ExitStepQuiet == ExitInv /\ QuietInv /\ ExitStep => QuietInv'
<1> SUFFICES ASSUME ExitInv, QuietInv, ExitStep, ~faulty', changes' = 0
             PROVE  QuietInv'
  BY DEF QuietInv
<1> USE ExitAssumption DEF ExitType, ExitPlaces, ExitStatuses, Call, firmwareVars
<1>1. ExitType
  BY DEF ExitInv
<1>2. CASE Probe
  <2>1. /\ x'.attempt = x.attempt /\ faulty' = faulty /\ UNCHANGED <<changes, msize>>
        /\ \/ x'.pc = "allocate" /\ x'.cap = Capacity(msize)
           \/ x'.pc = "done" /\ x'.status = "overflow"
    BY <1>1, <1>2, ZenonT(60) DEF Probe, Return
  <2>2. msize + Slack <= Capacity(msize)
    BY <1>1 DEF Capacity
  <2> QED
    BY <1>1, <2>1, <2>2 DEF QuietInv
<1>3. CASE Allocate
  <2>1. /\ x'.attempt = x.attempt /\ x'.cap = x.cap /\ x'.pc = "map"
        /\ msize' <= msize + 1 /\ msize' \in Nat
        /\ faulty' = faulty /\ changes' = changes /\ x.pc = "allocate"
    BY <1>1, <1>3 DEF Allocate, MapMoves
  <2> QED
    BY <1>1, <2>1 DEF QuietInv
<1>4. CASE GetMap
  BY <1>1, <1>4 DEF GetMap, QuietInv
<1>5. CASE MapTooLarge
  BY <1>1, <1>5 DEF MapTooLarge, MapMoves, FreeAndReturn, QuietInv
<1>6. CASE ExitBootServices
  BY <1>1, <1>6 DEF ExitBootServices, Return, QuietInv
<1>7. CASE KeyRejected
  BY <1>1, <1>7, ZenonT(60) DEF KeyRejected, QuietInv
<1>8. CASE GiveUp
  BY <1>1, <1>8 DEF GiveUp, MapMoves, FreeAndReturn, QuietInv, InLoop
<1>9. CASE ProbeFails \/ AllocateFails \/ GetMapFails \/ ExitFails
  BY <1>9 DEF ProbeFails, AllocateFails, GetMapFails, ExitFails
<1> QED
  BY <1>2, <1>3, <1>4, <1>5, <1>6, <1>7, <1>8, <1>9 DEF ExitStep

-----------------------------------------------------------------------------
Reading == {"volume", "open", "info", "buffer", "read", "plan"}

Allocating == {"header", "image", "arena", "stack", "tables", "preflight", "paging"}

Gone == {"handoff", "jumped", "halted"}

\* What the firmware has given out, by the place that efi_main has reached.
HoldingInv ==
    /\ ptr = owned
    /\ pc \in {"volume", "image", "arena", "returned"} => owned = {}
    /\ pc = "open" => owned = {"root"}
    /\ pc = "info" => owned = {"root", "file"}
    /\ pc = "buffer" => owned = {"root", "file", "info"}
    /\ pc = "read" => owned = {"root", "file", "info", "kernel_file"}
    /\ pc \in {"plan", "segments", "header"} => owned = {"kernel_file"}
    /\ pc \in Reading \cup {"segments", "header", "image", "arena", "stack", "tables"} =>
           pf.cap = 0
    /\ pc = "stack" => owned = {"arena"}
    /\ pc = "tables" => owned = {"arena", "stack"}
    /\ pc = "preflight" => /\ owned \ {"map"} = {"arena", "stack", "tables"}
                           /\ pf.cap = 0 \/ "map" \in owned
    /\ pc \in {"paging", "exit"} \cup Gone => owned = {"arena", "stack", "tables"}
    /\ pc = "cleanup" => owned \subseteq {"tables", "stack", "arena", "kernel_file"}

\* Which segments have pages, and what load_segments' caller believes of them.
SegmentInv ==
    /\ loaded \in BOOLEAN /\ index \in Nat
    /\ pc \in Reading => segs = {} /\ loaded = FALSE
    /\ pc = "segments" => /\ loaded = FALSE /\ segs = {i \in WithPages : i < index}
                          /\ \E n \in Nat : DOMAIN plan = 1 .. n /\ index \in 1 .. n + 1
    /\ pc \in Allocating \cup {"exit"} \cup Gone => loaded = TRUE /\ segs = WithPages
    /\ pc \in {"image", "arena", "stack", "tables", "preflight"} => header \in WithPages
    /\ pc = "cleanup" => segs = IF loaded THEN WithPages ELSE {}
    /\ pc = "returned" => segs = {}

\* Where the exit machine is, by the place that efi_main has reached.
PhaseInv ==
    /\ pc \in Reading \cup {"segments"} \cup Allocating => x.pc = "idle"
    /\ pc \in {"cleanup", "returned"} => x.pc = "idle" \/ (x.pc = "done" /\ x.status # "ok")
    /\ pc \in Gone => x.status = "ok"

MainInv ==
    /\ pc \in Reading \cup {"segments"} \cup Allocating
             \cup {"exit", "cleanup", "returned"} \cup Gone
    /\ pf \in [attempt : Nat, cap : Nat]
    /\ badFree = FALSE
    /\ HoldingInv /\ SegmentInv /\ PhaseInv

LoaderInv == ExitInv /\ QuietInv /\ MainInv

\* The loader starts with nothing held and the exit machine idle.
LEMMA LoaderInitInv == LoaderInit => LoaderInv
<1> SUFFICES ASSUME LoaderInit PROVE LoaderInv
  OBVIOUS
<1>1. ExitInv
  BY ExitInitInv DEF LoaderInit
<1>2. QuietInv
  BY DEF LoaderInit, ExitInit, Start, QuietInv
<1>3. MainInv
  BY ZenonT(60) DEF LoaderInit, ExitInit, Start, MainInv, HoldingInv, SegmentInv, PhaseInv,
         Reading, Allocating, Gone
<1> QED
  BY <1>1, <1>2, <1>3 DEF LoaderInv

\* A step of efi_main that leaves the exit machine alone calls the firmware
\* only where boot services are live, so it has to preserve MainInv only.
LEMMA MainStep ==
    ASSUME LoaderInv, Still, MainInv',
           late' = late \/ (Service /\ pc \notin Gone \cup {"exit"})
    PROVE  LoaderInv'
<1>1. pc \notin Gone \cup {"exit"} => live
  BY DEF LoaderInv, MainInv, PhaseInv, ExitInv
<1>2. late' = late
  BY <1>1, ZenonT(60) DEF Service, LoaderInv, ExitInv
<1>3. ExitInv'
  BY <1>2, StillKeepsExitInv DEF LoaderInv
<1>4. QuietInv'
  BY DEF LoaderInv, QuietInv, Still, firmwareVars
<1> QED
  BY <1>3, <1>4 DEF LoaderInv

\* Every step of the loader and of the firmware keeps the invariant.
LEMMA LoaderNextInv == LoaderInv /\ [LoaderNext]_loaderVars => LoaderInv'
<1> SUFFICES ASSUME LoaderInv, [LoaderNext]_loaderVars PROVE LoaderInv'
  OBVIOUS
<1>1. MainInv /\ HoldingInv /\ SegmentInv /\ PhaseInv /\ ExitType
  BY DEF LoaderInv, MainInv, ExitInv
<1> USE DEF Reading, Allocating, Gone
<1>2. CASE ReadStep
  <2>1. HoldingInv'
    BY <1>1, <1>2 DEF ReadStep, ReadOrder, After, Obtain, Goto, HoldingInv
  <2>2. SegmentInv'
    BY <1>1, <1>2 DEF ReadStep, ReadOrder, After, Obtain, Goto, SegmentInv, WithPages
  <2>3. PhaseInv'
    BY <1>1, <1>2 DEF ReadStep, ReadOrder, After, Obtain, Goto, PhaseInv, Still
  <2>4. MainInv'
    <3>1. pc' \in {"open", "info", "buffer", "read"} /\ pf' = pf /\ badFree' = badFree
      BY <1>2 DEF ReadStep, ReadOrder, After, Goto
    <3> QED
      BY <1>1, <2>1, <2>2, <2>3, <3>1, ZenonT(60) DEF MainInv
  <2> QED
    BY <1>2, <2>4, MainStep DEF ReadStep, ReadOrder, After, Obtain, Goto
<1>3. CASE ReadDone
  <2>1. HoldingInv'
    BY <1>1, <1>3 DEF ReadDone, Release, Goto, HoldingInv
  <2>2. SegmentInv'
    BY <1>1, <1>3 DEF ReadDone, Release, Goto, SegmentInv, WithPages
  <2>3. PhaseInv'
    BY <1>1, <1>3 DEF ReadDone, Release, Goto, PhaseInv, Still
  <2>4. MainInv'
    BY ZenonT(60), <1>1, <1>3, <2>1, <2>2, <2>3 DEF ReadDone, Release, Goto, MainInv, HoldingInv,
        SegmentInv
  <2> QED
    BY <1>3, <2>4, MainStep DEF ReadDone, Release, Goto
<1>4. CASE ReadFails
  <2>1. HoldingInv'
    BY <1>1, <1>4 DEF ReadFails, ReadOrder, Release, Goto, HoldingInv
  <2>2. SegmentInv'
    BY <1>1, <1>4 DEF ReadFails, ReadOrder, Release, Goto, SegmentInv, WithPages
  <2>3. PhaseInv'
    BY <1>1, <1>4, ZenonT(60) DEF ReadFails, ReadOrder, Release, Goto, PhaseInv, Still
  <2>4. MainInv'
    BY ZenonT(60), <1>1, <1>4, <2>1, <2>2, <2>3 DEF ReadFails, ReadOrder, Release, Goto, MainInv,
        HoldingInv, SegmentInv
  <2> QED
    BY <1>4, <2>4, MainStep DEF ReadFails, ReadOrder, Release, Goto
<1>5. CASE Plan
  <2>1. HoldingInv'
    BY <1>1, <1>5 DEF Plan, Goto, HoldingInv
  <2>2. SegmentInv'
    BY <1>1, <1>5 DEF Plan, Goto, SegmentInv, WithPages
  <2>3. PhaseInv'
    BY <1>1, <1>5, ZenonT(60) DEF Plan, Goto, PhaseInv, Still
  <2>4. MainInv'
    BY ZenonT(60), <1>1, <1>5, <2>1, <2>2, <2>3 DEF Plan, Goto, MainInv, HoldingInv, SegmentInv
  <2> QED
    BY <1>5, <2>4, MainStep DEF Plan, Goto
<1>6. CASE LoadSegment
  <2>1. HoldingInv'
    BY <1>1, <1>6 DEF LoadSegment, HoldingInv
  <2>2. SegmentInv'
    BY <1>1, <1>6 DEF LoadSegment, SegmentInv, WithPages
  <2>3. PhaseInv'
    BY <1>1, <1>6 DEF LoadSegment, PhaseInv, Still
  <2>4. MainInv'
    BY ZenonT(60), <1>1, <1>6, <2>1, <2>2, <2>3 DEF LoadSegment, MainInv, HoldingInv, SegmentInv
  <2> QED
    BY <1>6, <2>4, MainStep DEF LoadSegment
<1>7. CASE SegmentsLoaded
  <2>1. HoldingInv'
    BY <1>1, <1>7 DEF SegmentsLoaded, Goto, HoldingInv
  <2>2. SegmentInv'
    BY <1>1, <1>7 DEF SegmentsLoaded, Goto, SegmentInv, WithPages
  <2>3. PhaseInv'
    BY <1>1, <1>7, ZenonT(60) DEF SegmentsLoaded, Goto, PhaseInv, Still
  <2>4. MainInv'
    BY ZenonT(60), <1>1, <1>7, <2>1, <2>2, <2>3 DEF SegmentsLoaded, Goto, MainInv, HoldingInv,
        SegmentInv
  <2> QED
    BY <1>7, <2>4, MainStep DEF SegmentsLoaded, Goto
<1>8. CASE LoadFails
  <2>1. HoldingInv'
    BY <1>1, <1>8 DEF LoadFails, FreeSegments, Goto, HoldingInv
  <2>2. SegmentInv'
    BY <1>1, <1>8 DEF LoadFails, FreeSegments, Goto, SegmentInv, WithPages
  <2>3. PhaseInv'
    BY <1>1, <1>8, ZenonT(60) DEF LoadFails, FreeSegments, Goto, PhaseInv, Still
  <2>4. MainInv'
    BY ZenonT(60), <1>1, <1>8, <2>1, <2>2, <2>3 DEF LoadFails, FreeSegments, Goto, MainInv,
        HoldingInv, SegmentInv
  <2> QED
    BY <1>8, <2>4, MainStep DEF LoadFails, FreeSegments, Goto
<1>9. CASE HeaderVerified
  <2>1. HoldingInv'
    BY <1>1, <1>9 DEF HeaderVerified, Release, Goto, HoldingInv
  <2>2. SegmentInv'
    BY <1>1, <1>9 DEF HeaderVerified, FindHeader, Release, Goto, SegmentInv, WithPages
  <2>3. PhaseInv'
    BY <1>1, <1>9 DEF HeaderVerified, Release, Goto, PhaseInv, Still
  <2>4. MainInv'
    BY <1>1, <1>9, <2>1, <2>2, <2>3, ZenonT(60) DEF HeaderVerified, Release, Goto,
        MainInv, HoldingInv, SegmentInv
  <2> QED
    BY <1>9, <2>4, MainStep DEF HeaderVerified, Release, Goto
<1>10. CASE ImageBelowLimit
  <2>1. HoldingInv'
    BY <1>1, <1>10 DEF ImageBelowLimit, Goto, HoldingInv
  <2>2. SegmentInv'
    BY <1>1, <1>10 DEF ImageBelowLimit, Goto, SegmentInv, WithPages
  <2>3. PhaseInv'
    BY <1>1, <1>10, ZenonT(60) DEF ImageBelowLimit, Goto, PhaseInv, Still
  <2>4. MainInv'
    BY ZenonT(60), <1>1, <1>10, <2>1, <2>2, <2>3 DEF ImageBelowLimit, Goto, MainInv, HoldingInv,
        SegmentInv
  <2> QED
    BY <1>10, <2>4, MainStep DEF ImageBelowLimit, Goto
<1>11. CASE AllocateLowPages
  <2>1. HoldingInv'
    <3>1. ptr' = ptr \cup {pc} /\ owned' = owned \cup {pc} /\ pf' = pf
      BY <1>11 DEF AllocateLowPages, Obtain
    <3>2. \/ pc = "arena" /\ pc' = "stack"
          \/ pc = "stack" /\ pc' = "tables"
          \/ pc = "tables" /\ pc' = "preflight"
      BY <1>11 DEF AllocateLowPages, PageOrder, Goto
    <3> QED
      BY <1>1, <3>1, <3>2 DEF HoldingInv
  <2>2. SegmentInv'
    BY <1>1, <1>11 DEF AllocateLowPages, PageOrder, Obtain, Goto, SegmentInv, WithPages
  <2>3. PhaseInv'
    BY <1>1, <1>11 DEF AllocateLowPages, PageOrder, Obtain, Goto, PhaseInv, Still
  <2>4. MainInv'
    <3>1. pc' \in {"stack", "tables", "preflight"} /\ pf' = pf /\ badFree' = badFree
      BY <1>11 DEF AllocateLowPages, PageOrder, Goto
    <3> QED
      BY <1>1, <2>1, <2>2, <2>3, <3>1, ZenonT(60) DEF MainInv
  <2> QED
    BY <1>11, <2>4, MainStep DEF AllocateLowPages, PageOrder, Obtain, Goto
<1>12. CASE EarlyFailure
  <2>1. HoldingInv'
    BY <1>1, <1>12 DEF EarlyFailure, Fails, Goto, HoldingInv
  <2>2. SegmentInv'
    BY <1>1, <1>12 DEF EarlyFailure, Fails, Goto, SegmentInv, WithPages
  <2>3. PhaseInv'
    BY <1>1, <1>12, ZenonT(60) DEF EarlyFailure, Fails, Goto, PhaseInv, Still
  <2>4. MainInv'
    BY ZenonT(60), <1>1, <1>12, <2>1, <2>2, <2>3 DEF EarlyFailure, Fails, Goto, MainInv,
        HoldingInv, SegmentInv
  <2> QED
    BY <1>12, <2>4, MainStep DEF EarlyFailure, Fails, Goto
<1>13. CASE PreflightGrows
  <2>1. HoldingInv'
    BY <1>1, <1>13 DEF PreflightGrows, HoldingInv
  <2>2. SegmentInv'
    BY <1>1, <1>13 DEF PreflightGrows, SegmentInv, WithPages
  <2>3. PhaseInv'
    BY <1>1, <1>13 DEF PreflightGrows, PhaseInv
  <2>4. pf' \in [attempt : Nat, cap : Nat]
    BY <1>1, <1>13, ExitAssumption DEF PreflightGrows, Capacity, MainInv, ExitType
  <2>5. MainInv'
    BY <1>1, <1>13, <2>1, <2>2, <2>3, <2>4, ZenonT(60) DEF PreflightGrows, MainInv, HoldingInv
  <2>6. live /\ late' = late /\ x.pc = "idle"
    BY <1>1, <1>13, ZenonT(60) DEF LoaderInv, ExitInv, PreflightGrows, Service, PhaseInv
  <2>7. ExitInv'
    BY <1>13, <2>6, MapMovesKeepsExitInv DEF LoaderInv, PreflightGrows
  <2>8. QuietInv'
    BY <1>13, <2>6 DEF LoaderInv, QuietInv, PreflightGrows, MapMoves
  <2> QED
    BY <2>5, <2>7, <2>8 DEF LoaderInv
<1>14. CASE PreflightOk
  <2>1. HoldingInv'
    BY <1>1, <1>14 DEF PreflightOk, Release, Goto, HoldingInv
  <2>2. SegmentInv'
    BY <1>1, <1>14 DEF PreflightOk, Release, Goto, SegmentInv, WithPages
  <2>3. PhaseInv'
    BY <1>1, <1>14 DEF PreflightOk, Release, Goto, PhaseInv, Still
  <2>4. MainInv'
    <3>1. "map" \in owned
      BY <1>1, <1>14 DEF PreflightOk, HoldingInv, MainInv, ExitType
    <3>2. badFree' = FALSE
      BY <1>1, <1>14, <3>1, ZenonT(60) DEF PreflightOk, Release, MainInv
    <3> QED
      BY <1>1, <1>14, <2>1, <2>2, <2>3, <3>2 DEF PreflightOk, Goto, MainInv
  <2> QED
    BY <1>14, <2>4, MainStep DEF PreflightOk, Release, Goto
<1>15. CASE PreflightFails
  <2>1. HoldingInv'
    BY <1>1, <1>15 DEF PreflightFails, Release, Goto, HoldingInv
  <2>2. SegmentInv'
    BY <1>1, <1>15 DEF PreflightFails, Release, Goto, SegmentInv, WithPages
  <2>3. PhaseInv'
    BY <1>1, <1>15 DEF PreflightFails, Release, Goto, PhaseInv, Still
  <2>4. MainInv'
    BY <1>1, <1>15, <2>1, <2>2, <2>3, ZenonT(60) DEF PreflightFails, Release, Goto, MainInv,
        HoldingInv, SegmentInv
  <2> QED
    BY <1>15, <2>4, MainStep DEF PreflightFails, Release, Goto
<1>16. CASE PageTablesBuilt
  <2>1. HoldingInv'
    BY <1>1, <1>16 DEF PageTablesBuilt, Goto, HoldingInv
  <2>2. SegmentInv'
    BY <1>1, <1>16 DEF PageTablesBuilt, Goto, SegmentInv, WithPages
  <2>3. PhaseInv'
    BY <1>1, <1>16, ZenonT(60) DEF PageTablesBuilt, Goto, PhaseInv, Still
  <2>4. MainInv'
    BY ZenonT(60), <1>1, <1>16, <2>1, <2>2, <2>3 DEF PageTablesBuilt, Goto, MainInv, HoldingInv,
        SegmentInv
  <2> QED
    BY <1>16, <2>4, MainStep DEF PageTablesBuilt, Goto
<1>17. CASE Fails("paging")
  <2>1. HoldingInv'
    BY <1>1, <1>17 DEF Fails, Goto, HoldingInv
  <2>2. SegmentInv'
    BY <1>1, <1>17 DEF Fails, Goto, SegmentInv, WithPages
  <2>3. PhaseInv'
    BY <1>1, <1>17, ZenonT(60) DEF Fails, Goto, PhaseInv, Still
  <2>4. MainInv'
    BY ZenonT(60), <1>1, <1>17, <2>1, <2>2, <2>3 DEF Fails, Goto, MainInv, HoldingInv, SegmentInv
  <2> QED
    BY <1>17, <2>4, MainStep DEF Fails, Goto
<1>18. CASE CallExit
  <2>1. MainInv'
    BY <1>1, <1>18 DEF CallExit, Begin, mainVars, MainInv, HoldingInv, SegmentInv,
                       WithPages, PhaseInv
  <2>2. /\ x'.pc = "probe" /\ UNCHANGED <<live, key, msize, pool, result, late, changes, faulty>>
        /\ x' = [x EXCEPT !.pc = "probe"]
    BY <1>1, <1>18 DEF CallExit, Begin, firmwareVars, ExitType
  <2>3. ExitInv' /\ QuietInv'
    BY <1>1, <1>18, <2>2 DEF CallExit, Begin, LoaderInv, ExitInv, ExitType, ExitPlaces,
                             ExitStatuses, QuietInv
  <2> QED
    BY <2>1, <2>3 DEF LoaderInv
<1>19. CASE InExit
  <2>1. MainInv'
    <3>1. HoldingInv'
      BY <1>1, <1>19 DEF InExit, mainVars, HoldingInv
    <3>2. SegmentInv'
      BY <1>1, <1>19 DEF InExit, mainVars, SegmentInv, WithPages
    <3>3. PhaseInv'
      BY <1>1, <1>19 DEF InExit, mainVars, PhaseInv
    <3> QED
      BY <1>1, <1>19, <3>1, <3>2, <3>3, ZenonT(60) DEF InExit, mainVars, MainInv
  <2> QED
    BY <1>19, <2>1, ExitStepInv, ExitStepQuiet, ZenonT(60) DEF LoaderInv, InExit
<1>20. CASE ExitReturned
  <2>1. HoldingInv'
    BY <1>1, <1>20 DEF ExitReturned, Goto, HoldingInv
  <2>2. SegmentInv'
    BY <1>1, <1>20 DEF ExitReturned, Goto, SegmentInv, WithPages
  <2>3. PhaseInv'
    BY <1>1, <1>20, ZenonT(60) DEF ExitReturned, Goto, PhaseInv, Still
  <2>4. MainInv'
    BY ZenonT(60), <1>1, <1>20, <2>1, <2>2, <2>3 DEF ExitReturned, Goto, MainInv, HoldingInv,
        SegmentInv
  <2> QED
    BY <1>20, <2>4, MainStep DEF ExitReturned, Goto
<1>21. CASE Transfer
  <2>1. HoldingInv'
    BY <1>1, <1>21 DEF Transfer, Goto, HoldingInv
  <2>2. SegmentInv'
    BY <1>1, <1>21 DEF Transfer, Goto, SegmentInv, WithPages
  <2>3. PhaseInv'
    BY <1>1, <1>21, ZenonT(60) DEF Transfer, Goto, PhaseInv, Still
  <2>4. MainInv'
    BY ZenonT(60), <1>1, <1>21, <2>1, <2>2, <2>3 DEF Transfer, Goto, MainInv, HoldingInv, SegmentInv
  <2> QED
    BY <1>21, <2>4, MainStep DEF Transfer, Goto
<1>22. CASE HandoffFails
  <2>1. HoldingInv'
    BY <1>1, <1>22 DEF HandoffFails, Goto, HoldingInv
  <2>2. SegmentInv'
    BY <1>1, <1>22 DEF HandoffFails, Goto, SegmentInv, WithPages
  <2>3. PhaseInv'
    BY <1>1, <1>22, ZenonT(60) DEF HandoffFails, Goto, PhaseInv, Still
  <2>4. MainInv'
    BY ZenonT(60), <1>1, <1>22, <2>1, <2>2, <2>3 DEF HandoffFails, Goto, MainInv, HoldingInv,
        SegmentInv
  <2> QED
    BY <1>22, <2>4, MainStep DEF HandoffFails, Goto
<1>23. CASE Cleanup
  <2>1. HoldingInv'
    BY <1>1, <1>23 DEF Cleanup, Goto, HoldingInv
  <2>2. SegmentInv'
    BY ZenonT(60), <1>1, <1>23 DEF Cleanup, Goto, SegmentInv, WithPages
  <2>3. PhaseInv'
    BY <1>1, <1>23 DEF Cleanup, Goto, PhaseInv, Still
  <2>4. MainInv'
    BY <1>1, <1>23, <2>1, <2>2, <2>3, ZenonT(60) DEF Cleanup, Goto, MainInv,
        HoldingInv, SegmentInv
  <2> QED
    BY <1>23, <2>4, MainStep DEF Cleanup, Goto
<1>24. CASE Timer
  <2>1. MainInv'
    <3>1. HoldingInv'
      BY <1>1, <1>24 DEF Timer, mainVars, HoldingInv
    <3>2. SegmentInv'
      BY <1>1, <1>24 DEF Timer, mainVars, SegmentInv, WithPages
    <3>3. PhaseInv'
      BY <1>1, <1>24 DEF Timer, FirmwareChangesMap, mainVars, PhaseInv
    <3> QED
      BY <1>1, <1>24, <3>1, <3>2, <3>3, ZenonT(60) DEF Timer, mainVars, MainInv
  <2>2. QuietInv'
    BY <1>1, <1>24 DEF Timer, FirmwareChangesMap, ExitType, QuietInv
  <2> QED
    BY <1>24, <2>1, <2>2, FirmwareKeepsExitInv, ZenonT(60) DEF LoaderInv, Timer
<1>25. CASE UNCHANGED loaderVars
  <2>1. MainInv'
    <3>1. HoldingInv'
      BY <1>1, <1>25 DEF loaderVars, mainVars, HoldingInv
    <3>2. SegmentInv'
      BY <1>1, <1>25 DEF loaderVars, mainVars, SegmentInv, WithPages
    <3>3. PhaseInv'
      BY <1>1, <1>25 DEF loaderVars, mainVars, exitVars, PhaseInv
    <3> QED
      BY <1>1, <1>25, <3>1, <3>2, <3>3, ZenonT(60) DEF loaderVars, mainVars, MainInv
  <2> QED
    BY <1>25, <2>1, MainStep, ZenonT(60) DEF loaderVars, exitVars, Still
<1> QED
  BY <1>2, <1>3, <1>4, <1>5, <1>6, <1>7, <1>8, <1>9, <1>10, <1>11, <1>12, <1>13,
     <1>14, <1>15, <1>16, <1>17, <1>18, <1>19, <1>20, <1>21, <1>22, <1>23, <1>24,
     <1>25
  DEF LoaderNext, LoaderStep

-----------------------------------------------------------------------------
\* The invariant holds in every reachable state of the loader.
THEOREM LoaderSafe == LoaderSpec => []LoaderInv
  BY LoaderInitInv, LoaderNextInv, PTL DEF LoaderSpec

\* However often bbp_uefi_exit_boot_services exchanges its buffer, it owns at
\* most the one it still points to, and none after a failure.
THEOREM OneMapBuffer == LoaderSpec => []BufferOwnership
<1>1. LoaderInv => BufferOwnership
  BY DEF LoaderInv, ExitInv, ExitType, BufferOwnership
<1> QED
  BY <1>1, LoaderSafe, PTL

\* A map that bbp_uefi_exit_boot_services marks final is the firmware's map at
\* the moment boot services ended, and is in the retained buffer.
THEOREM FinalMapNeverStale == LoaderSpec => []FinalMapIsCurrent
<1>1. LoaderInv => FinalMapIsCurrent
  BY DEF LoaderInv, ExitInv, ExitType, FinalMapIsCurrent, NoResult, NoBuffer
<1> QED
  BY <1>1, LoaderSafe, PTL

\* With a firmware that keeps its map still and serves every call, the slack
\* of map_capacity absorbs what the allocation adds: the first attempt works.
THEOREM SlackSuffices == LoaderSpec => []QuietFirmwareExits
<1>1. LoaderInv => QuietFirmwareExits
  BY DEF LoaderInv, ExitInv, ExitType, QuietInv, QuietFirmwareExits
<1> QED
  BY <1>1, LoaderSafe, PTL

\* After a successful ExitBootServices no path of efi_main, its clean-up
\* included, calls a boot service.
THEOREM ExitIsFinal == LoaderSpec => []NoCallAfterExit
<1>1. LoaderInv => NoCallAfterExit
  BY DEF LoaderInv, ExitInv, NoCallAfterExit
<1> QED
  BY <1>1, LoaderSafe, PTL

\* Wherever efi_main fails before the exit, the clean-up code's pointers are
\* exactly what is held: it frees all of it, nothing twice.
THEOREM FailureReturnsEverything == LoaderSpec => []CleanReturn
<1>1. LoaderInv => CleanReturn
  BY ZenonT(60) DEF LoaderInv, ExitInv, MainInv, HoldingInv, SegmentInv, PhaseInv, CleanReturn,
         NoCallAfterExit
<1> QED
  BY <1>1, LoaderSafe, PTL

\* Memory is held while efi_main reads it, and the kernel is entered with its
\* segments, arena, stack, page tables and the final map still held.
THEOREM KernelGetsItsMemory == LoaderSpec => []HandoffStaysHeld
<1>1. LoaderInv => HandoffStaysHeld
  BY SMTT(30) DEF LoaderInv, ExitInv, ExitType, MainInv, HoldingInv, SegmentInv, PhaseInv,
         Allocating, Gone, HandoffStaysHeld, NoBuffer
<1> QED
  BY <1>1, LoaderSafe, PTL
=============================================================================
