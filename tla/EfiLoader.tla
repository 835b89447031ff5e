------------------------------- MODULE EfiLoader -------------------------------
(***************************************************************************)
(* The reference UEFI loader, bootloader/efi_main.c: read the kernel, load *)
(* its segments, verify its header, allocate the handoff memory, leave boot*)
(* services through UefiExit, build the handoff and jump.  Any firmware    *)
(* call may fail at any point.                                             *)
(*                                                                         *)
(* "owned" and "segs" are what the firmware has really given out; "ptr"    *)
(* holds the variables of the code that are not NULL (or zero), by which   *)
(* alone the clean-up code decides what to free.                           *)
(***************************************************************************)
EXTENDS UefiExit

CONSTANTS MaxSegments  \* BBP_ELF64_MAX_LOAD_SEGMENTS

ASSUME LoaderAssumption == MaxSegments \in Nat

VARIABLES
    pc,       \* where efi_main is
    ptr,      \* non-NULL pointers of efi_main and of the function it is in
    owned,    \* pool buffers, handles and page ranges held, other than segs, pool
    plan,     \* bbp_elf64_plan: for each segment, whether it has pages
    index,    \* load_segments' index
    loaded,   \* segments_loaded
    segs,     \* segments whose pages are allocated
    pf,       \* preflight_memory_geometry: attempt and capacity
    header,   \* the segment the header was found in, 0 for none
    badFree   \* history: something not held was freed

mainVars == <<pc, ptr, owned, plan, index, loaded, segs, pf, header, badFree>>
loaderVars == <<mainVars, exitVars>>

Limit == 3  \* attempts of preflight_memory_geometry

WithPages == {i \in DOMAIN plan : plan[i]}

LoaderInit ==
    /\ ExitInit
    /\ pc = "volume" /\ ptr = {} /\ owned = {} /\ plan = <<>> /\ index = 1
    /\ loaded = FALSE /\ segs = {} /\ pf = [attempt |-> 0, cap |-> 0]
    /\ header = 0 /\ badFree = FALSE

\* The firmware hands out r and the code stores the pointer.
Obtain(r) == ptr' = ptr \cup {r} /\ owned' = owned \cup {r}

\* The code frees everything in R and forgets the pointers.
Release(R) ==
    /\ ptr' = ptr \ R
    /\ owned' = owned \ R
    /\ badFree' = (badFree \/ ~(R \subseteq owned))

Goto(label) == pc' = label

\* Before the preflight the firmware's map is arbitrary and nobody has looked
\* at it, so the calls made until then need not move it.
Still == UNCHANGED <<firmwareVars, pool, x, result, faulty>>

-----------------------------------------------------------------------------
(* read_kernel *)

ReadOrder == [volume |-> "root", open |-> "file", info |-> "info",
              buffer |-> "kernel_file"]
After == [volume |-> "open", open |-> "info", info |-> "buffer",
          buffer |-> "read"]

ReadStep ==
    /\ pc \in DOMAIN ReadOrder
    /\ Service
    /\ Obtain(ReadOrder[pc]) /\ Goto(After[pc])
    /\ Still /\ UNCHANGED <<plan, index, loaded, segs, pf, header, badFree>>

\* Fault: the buffer handed to the caller is freed on the way out.
ReadDoneFreesBuffer ==
    /\ pc = "read"
    /\ Service
    /\ Release({"info", "file", "root", "kernel_file"}) /\ Goto("plan")
    /\ Still /\ UNCHANGED <<plan, index, loaded, segs, pf, header>>

\* The read loop ends and out: releases all but the buffer.
ReadDone ==
    /\ pc = "read"
    /\ Service
    /\ Release({"info", "file", "root"}) /\ Goto("plan")
    /\ Still /\ UNCHANGED <<plan, index, loaded, segs, pf, header>>

\* goto out, or a return before OpenVolume; efi_main returns at once.
ReadFails ==
    /\ pc \in DOMAIN ReadOrder \cup {"read"}
    /\ Service
    /\ Release(ptr \cap {"info", "file", "root", "kernel_file"})
    /\ Goto("returned")
    /\ Still /\ UNCHANGED <<plan, index, loaded, segs, pf, header>>

-----------------------------------------------------------------------------
(* efi_main up to the handoff allocations *)

Fails(label) ==
    /\ pc = label /\ Goto("cleanup")
    /\ Still
    /\ UNCHANGED <<ptr, owned, plan, index, loaded, segs, pf, header, badFree, late>>

Plan ==
    /\ pc = "plan"
    /\ \E n \in 0 .. MaxSegments : plan' \in [1 .. n -> BOOLEAN]
    /\ index' = 1 /\ Goto("segments")
    /\ Still /\ UNCHANGED <<ptr, owned, loaded, segs, pf, header, badFree, late>>

LoadSegment ==
    /\ pc = "segments" /\ index \in DOMAIN plan
    /\ segs' = IF plan[index] THEN segs \cup {index} ELSE segs
    /\ index' = index + 1
    /\ Service
    /\ Still /\ UNCHANGED <<pc, ptr, owned, plan, loaded, pf, header, badFree>>

SegmentsLoaded ==
    /\ pc = "segments" /\ index \notin DOMAIN plan
    /\ loaded' = TRUE /\ Goto("header")
    /\ Still /\ UNCHANGED <<ptr, owned, plan, index, segs, pf, header, badFree, late>>

FreeSegments(S) ==
    /\ segs' = segs \ S
    /\ badFree' = (badFree \/ ~(S \subseteq segs))

\* Fault: the segments already loaded are left to the caller.
LoadFailsKeeping ==
    /\ pc = "segments" /\ index \in WithPages
    /\ Service
    /\ index' = 1 /\ Goto("cleanup")
    /\ Still /\ UNCHANGED <<ptr, owned, plan, loaded, segs, pf, header, badFree>>

\* A segment outside the identity map, no pages, or pages at another address
\* (freed on the spot): the segments before it are given back.
LoadFails ==
    /\ pc = "segments" /\ index \in WithPages
    /\ Service
    /\ FreeSegments({i \in WithPages : i < index})
    /\ index' = 1 /\ Goto("cleanup")
    /\ Still /\ UNCHANGED <<ptr, owned, plan, loaded, pf, header>>

\* find_header searches the loaded segments, never the file image.
FindHeader == header' \in WithPages

HeaderVerified ==
    /\ pc = "header"
    /\ FindHeader
    /\ Service
    /\ Release({"kernel_file"}) /\ Goto("image")
    /\ Still /\ UNCHANGED <<plan, index, loaded, segs, pf>>

ImageBelowLimit ==
    /\ pc = "image" /\ Goto("arena")
    /\ Still
    /\ UNCHANGED <<ptr, owned, plan, index, loaded, segs, pf, header, badFree, late>>

PageOrder == [arena |-> "stack", stack |-> "tables", tables |-> "preflight"]

AllocateLowPages ==
    /\ pc \in DOMAIN PageOrder
    /\ Service
    /\ Obtain(pc) /\ Goto(PageOrder[pc])
    /\ Still /\ UNCHANGED <<plan, index, loaded, segs, pf, header, badFree>>

EarlyFailure ==
    \E label \in {"plan", "header", "image", "arena", "stack", "tables"} :
        Fails(label)

-----------------------------------------------------------------------------
(* preflight_memory_geometry and build_page_tables *)

\* Too small: exchange the buffer, unless no larger one can be had.
PreflightGrows ==
    /\ pc = "preflight" /\ pf.attempt < Limit /\ msize > pf.cap
    /\ CapacityOk(msize)
    /\ Service /\ MapMoves
    /\ ptr' = ptr \cup {"map"} /\ owned' = owned \cup {"map"}
    /\ badFree' = (badFree \/ ("map" \in ptr /\ "map" \notin owned))
    /\ pf' = [attempt |-> pf.attempt + 1, cap |-> Capacity(msize)]
    /\ UNCHANGED <<pc, plan, index, loaded, segs, header, pool, x, result, faulty>>

PreflightOk ==
    /\ pc = "preflight" /\ pf.attempt < Limit /\ msize <= pf.cap
    /\ Service
    /\ Release({"map"}) /\ Goto("paging")
    /\ Still /\ UNCHANGED <<plan, index, loaded, segs, pf, header>>

\* An error, a bad geometry, no memory, or the third attempt used up.
PreflightFails ==
    /\ pc = "preflight"
    /\ Service
    /\ Release(ptr \cap {"map"}) /\ Goto("cleanup")
    /\ Still /\ UNCHANGED <<plan, index, loaded, segs, pf, header>>

PageTablesBuilt ==
    /\ pc = "paging" /\ Goto("exit")
    /\ Still
    /\ UNCHANGED <<ptr, owned, plan, index, loaded, segs, pf, header, badFree, late>>

-----------------------------------------------------------------------------
(* Leaving boot services and the two ends *)

CallExit == pc = "exit" /\ Begin /\ UNCHANGED mainVars

InExit == pc = "exit" /\ ExitStep /\ UNCHANGED mainVars

ExitReturned ==
    /\ pc = "exit" /\ x.pc = "done"
    /\ Goto(IF x.status = "ok" THEN "handoff" ELSE "cleanup")
    /\ Still
    /\ UNCHANGED <<ptr, owned, plan, index, loaded, segs, pf, header, badFree, late>>

\* build_handoff accepts the final map and fills the arena.
Transfer ==
    /\ pc = "handoff" /\ result.final /\ result.size > 0
    /\ Goto("jumped")
    /\ Still
    /\ UNCHANGED <<ptr, owned, plan, index, loaded, segs, pf, header, badFree, late>>

\* fail_after_exit: the processor halts.
HandoffFails ==
    /\ pc = "handoff" /\ Goto("halted")
    /\ Still
    /\ UNCHANGED <<ptr, owned, plan, index, loaded, segs, pf, header, badFree, late>>

Cleanup ==
    /\ pc = "cleanup"
    /\ LET R == ptr \cap {"tables", "stack", "arena", "kernel_file"}
           S == IF loaded THEN WithPages ELSE {}
       IN  /\ ptr' = ptr \ R /\ owned' = owned \ R /\ segs' = segs \ S
           /\ badFree' = (badFree \/ ~(R \subseteq owned) \/ ~(S \subseteq segs))
    /\ Service /\ Goto("returned")
    /\ Still /\ UNCHANGED <<plan, index, loaded, pf, header>>

Timer == FirmwareChangesMap /\ UNCHANGED mainVars

LoaderStep ==
    \/ ReadStep \/ ReadDone \/ ReadFails \/ Plan \/ LoadSegment \/ SegmentsLoaded
    \/ LoadFails \/ HeaderVerified \/ ImageBelowLimit \/ AllocateLowPages
    \/ EarlyFailure \/ PreflightGrows \/ PreflightOk \/ PreflightFails
    \/ PageTablesBuilt \/ Fails("paging") \/ CallExit \/ InExit \/ ExitReturned
    \/ Transfer \/ HandoffFails \/ Cleanup

LoaderNext == LoaderStep \/ Timer

LoaderSpec == LoaderInit /\ [][LoaderNext]_loaderVars /\ WF_loaderVars(LoaderStep)

-----------------------------------------------------------------------------
\* However far it got, a loader that returns to the firmware has given back
\* everything it took, and boot services are still there to continue with the
\* next boot option.  On no path does it free anything twice or unallocated, or
\* call a boot service once they have ended.
CleanReturn ==
    /\ ~badFree /\ NoCallAfterExit
    /\ pc = "returned" => owned = {} /\ segs = {} /\ pool = {} /\ live

\* Memory is read only while it is held: the file image while segments are
\* copied from it; the segments, among them the one with the header, until its
\* flags are used, long after the file image was freed; the arena and the final
\* map while the handoff is built.  The kernel is then entered with exactly what
\* the handoff promises still held: its segments, the arena, the stack, the page
\* tables and the final map.
HandoffStaysHeld ==
    /\ pc = "segments" => "kernel_file" \in owned
    /\ pc \in {"header", "image", "arena", "stack", "tables", "preflight",
               "paging", "exit", "handoff"} => segs = WithPages
    /\ pc \in {"image", "arena", "stack", "tables", "preflight"} => header \in segs
    /\ pc = "handoff" => "arena" \in owned /\ result.buf \in pool
    /\ pc = "jumped" => /\ owned = {"arena", "stack", "tables"}
                        /\ segs = WithPages /\ pool = {result.buf}
                        /\ ~live /\ result.final /\ result.key = key

\* The loader ends in one of its three ends.
LoaderEnds == <>(pc \in {"returned", "jumped", "halted"})

=============================================================================
