----------------------------- MODULE MCEnvelope -----------------------------
(* Two callers; a valid, an invalid and an oversized capsule; a store that   *)
(* files one key under the identity of the other, and one that does not.     *)
EXTENDS Envelope, TLC

CONSTANTS k1, k2

MCPayloads ==
    {[size |-> 1, valid |-> TRUE], [size |-> 2, valid |-> FALSE],
     [size |-> 3, valid |-> TRUE]}
MCStores == {k1 :> k1, (k1 :> k1) @@ (k2 :> k1)}
=============================================================================
