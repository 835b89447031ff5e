------------------------------- MODULE UefiExit -------------------------------
(***************************************************************************)
(* The bounded ExitBootServices state machine, bootloader/uefi/uefi_exit.c,*)
(* against a firmware that may change its memory map at any moment, refuse *)
(* allocations and return any status its interface allows.                 *)
(*                                                                         *)
(* The map key counts changes of the firmware's map.  Sizes are in memory  *)
(* descriptors; a buffer is identified by a number and remembers the key   *)
(* of the map last stored in it.                                           *)
(***************************************************************************)
EXTENDS Naturals

CONSTANTS
    MaxAttempts,  \* BBP_UEFI_EXIT_MAX_ATTEMPTS
    Slack,        \* BBP_UEFI_EXIT_DESCRIPTOR_SLACK
    SizeLimit,    \* SIZE_MAX in descriptors
    MaxMap,       \* bound: largest map the firmware ever has
    MaxChanges    \* bound: changes the firmware makes on its own

ASSUME ExitAssumption ==
    /\ MaxAttempts \in Nat \ {0} /\ Slack \in Nat \ {0}
    /\ SizeLimit \in Nat /\ MaxMap \in Nat \ {0} /\ MaxChanges \in Nat

VARIABLES
    live,     \* boot services are available
    key,      \* the firmware's current map key
    msize,    \* the firmware's current map size
    changes,  \* history: how often the firmware changed its map on its own
    pool,     \* map buffers allocated from the firmware and not freed
    x,        \* locals of bbp_uefi_exit_boot_services
    result,   \* *result, as its caller sees it
    late,     \* history: a boot service was called after they ended
    faulty    \* history: the firmware failed a call it could have served

firmwareVars == <<live, key, msize, changes>>
exitVars == <<firmwareVars, pool, x, result, late, faulty>>

NoBuffer == 0
NoResult == [final |-> FALSE, buf |-> NoBuffer, size |-> 0, cap |-> 0, key |-> 0]

Start == [pc |-> "idle", status |-> "none", attempt |-> 0, buf |-> NoBuffer,
          fresh |-> 1, cap |-> 0, size |-> 0, key |-> 0, stored |-> 0]

ExitInit ==
    /\ live = TRUE /\ key = 0 /\ msize \in 1 .. MaxMap /\ changes = 0
    /\ pool = {} /\ x = Start /\ result = NoResult
    /\ late = FALSE /\ faulty = FALSE

\* Allocating or freeing changes the firmware's own map.
MapMoves ==
    /\ key' = key + 1
    /\ msize' \in {n \in 1 .. MaxMap : n <= msize + 1 /\ msize <= n + 1}
    /\ UNCHANGED <<live, changes>>

FirmwareChangesMap ==
    /\ live /\ changes < MaxChanges
    /\ changes' = changes + 1 /\ key' = key + 1 /\ msize' \in 1 .. MaxMap
    /\ UNCHANGED <<live, pool, x, result, late, faulty>>

\* map_capacity for a descriptor size of one, when it does not overflow.
CapacityOk(required) == required + Slack <= SizeLimit
\* Fault: no slack for the growth the allocation itself causes.
CapacityExact(required) == required

Capacity(required) == required + Slack

Return(status) == x' = [x EXCEPT !.pc = "done", !.status = status]

\* ops->free of the current buffer and return.
FreeAndReturn(status) ==
    /\ pool' = pool \ {x.buf}
    /\ MapMoves
    /\ x' = [x EXCEPT !.pc = "done", !.status = status, !.buf = NoBuffer]

\* A step that calls the firmware.
Service == late' = (late \/ ~live)

Call(pc) == x.pc = pc /\ Service

-----------------------------------------------------------------------------
Begin ==
    /\ x.pc = "idle"
    /\ x' = [x EXCEPT !.pc = "probe"]
    /\ UNCHANGED <<firmwareVars, pool, result, late, faulty>>

Probe ==
    /\ Call("probe")
    /\ IF CapacityOk(msize)
       THEN x' = [x EXCEPT !.pc = "allocate", !.cap = Capacity(msize)]
       ELSE Return("overflow")
    /\ UNCHANGED <<firmwareVars, pool, result, faulty>>

\* Any status but BUFFER_TOO_SMALL, or a descriptor size of zero.
ProbeFails ==
    /\ Call("probe")
    /\ \E status \in {"probe", "overflow"} : Return(status)
    /\ faulty' = TRUE
    /\ UNCHANGED <<firmwareVars, pool, result>>

Allocate ==
    /\ Call("allocate")
    /\ pool' = pool \cup {x.fresh}
    /\ x' = [x EXCEPT !.pc = "map", !.buf = x.fresh, !.fresh = @ + 1,
                      !.stored = 0]
    /\ MapMoves
    /\ UNCHANGED <<result, faulty>>

AllocateFails ==
    /\ Call("allocate")
    /\ Return("allocation")
    /\ faulty' = TRUE
    /\ UNCHANGED <<firmwareVars, pool, result>>

InLoop == x.attempt < MaxAttempts

GetMap ==
    /\ Call("map") /\ InLoop /\ msize <= x.cap
    /\ x' = [x EXCEPT !.pc = "exit", !.size = msize, !.key = key, !.stored = key]
    /\ UNCHANGED <<firmwareVars, pool, result, faulty>>

\* The map outgrew the buffer: exchange it, at the price of one attempt.
MapTooLarge ==
    /\ Call("map") /\ InLoop /\ msize > x.cap
    /\ IF CapacityOk(msize)
       THEN /\ pool' = pool \ {x.buf}
            /\ MapMoves
            /\ x' = [x EXCEPT !.pc = "allocate", !.buf = NoBuffer,
                              !.cap = Capacity(msize), !.attempt = @ + 1]
       ELSE FreeAndReturn("overflow")
    /\ UNCHANGED <<result, faulty>>

\* An error status, a descriptor size of zero or a size beyond the buffer.
GetMapFails ==
    /\ Call("map") /\ InLoop
    /\ FreeAndReturn("memory_map")
    /\ faulty' = TRUE
    /\ UNCHANGED result

\* ExitBootServices succeeds only with the current key.
ExitBootServices ==
    /\ Call("exit") /\ x.key = key
    /\ live' = FALSE
    /\ result' = [final |-> TRUE, buf |-> x.buf, size |-> x.size,
                  cap |-> x.cap, key |-> x.key]
    /\ Return("ok")
    /\ UNCHANGED <<key, msize, changes, pool, faulty>>

\* Fault: only the key is fetched again, not the map.
KeyRejectedKeepsMap ==
    /\ Call("exit")
    /\ x' = [x EXCEPT !.key = key, !.attempt = @ + 1,
                      !.pc = IF x.attempt + 1 < MaxAttempts THEN "exit" ELSE "map"]
    /\ faulty' = (faulty \/ x.key = key)
    /\ UNCHANGED <<firmwareVars, pool, result>>

\* Fault: a rejected key does not cost an attempt.
KeyRejectedUncounted ==
    /\ Call("exit")
    /\ x' = [x EXCEPT !.pc = "map"]
    /\ faulty' = (faulty \/ x.key = key)
    /\ UNCHANGED <<firmwareVars, pool, result>>

KeyRejected ==
    /\ Call("exit")
    /\ x' = [x EXCEPT !.pc = "map", !.attempt = @ + 1]
    /\ faulty' = (faulty \/ x.key = key)
    /\ UNCHANGED <<firmwareVars, pool, result>>

ExitFails ==
    /\ Call("exit")
    /\ FreeAndReturn("exit_boot_services")
    /\ faulty' = TRUE
    /\ UNCHANGED result

GiveUp ==
    /\ Call("map") /\ ~InLoop
    /\ FreeAndReturn("retry_limit")
    /\ UNCHANGED <<result, faulty>>

ExitStep ==
    \/ Probe \/ ProbeFails \/ Allocate \/ AllocateFails
    \/ GetMap \/ MapTooLarge \/ GetMapFails
    \/ ExitBootServices \/ KeyRejected \/ ExitFails \/ GiveUp

-----------------------------------------------------------------------------
\* On every path, however many buffers were exchanged, the code owns at most
\* one: exactly the one it still points to.  Failure leaves none behind and
\* success keeps the one it publishes.
BufferOwnership ==
    /\ pool = IF x.buf = NoBuffer THEN {} ELSE {x.buf}
    /\ x.pc \in {"map", "exit"} => x.buf # NoBuffer
    /\ x.pc = "done" => x.buf # NoBuffer <=> x.status = "ok"

\* A map marked final is the firmware's map at the moment boot services ended:
\* the retained buffer holds it, its key is current and it fits the buffer.
\* On any failure the caller's result is as it was, and services still run.
FinalMapIsCurrent ==
    /\ result.final <=> x.status = "ok"
    /\ result.final <=> ~live
    /\ result.final => /\ result.key = key /\ x.stored = key
                       /\ result.size = msize /\ result.size <= result.cap
                       /\ pool = {result.buf}
    /\ ~result.final => result = NoResult

\* Once boot services have ended nothing calls the firmware any more: no late
\* free of a replaced buffer, no further map request.
NoCallAfterExit == ~late

\* With a firmware that serves every call and keeps its map still, the slack
\* absorbs the growth its own allocation causes, and the first attempt works.
QuietFirmwareExits ==
    (x.pc = "done" /\ ~faulty /\ changes = 0) =>
        \/ x.status = "ok" /\ x.attempt = 0
        \/ x.status = "overflow" /\ x.attempt = 0

=============================================================================
