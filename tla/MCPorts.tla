------------------------------- MODULE MCPorts -------------------------------
(* Small instance of Ports. *)
EXTENDS Ports

Snap(hhdm, map, kaddr, cpus, rsdp, fb, sd, cmd) ==
    [hhdm |-> hhdm, map |-> map, kaddr |-> kaddr, cpus |-> cpus,
     rsdp |-> rsdp, fb |-> fb, seed |-> sd, cmd |-> cmd]

\* Nothing offered; a little of everything; a map beyond the glue's cap; too
\* much for the arena in a tag, in a blob, and in the last tag; a second seed.
MCSnapshots == {
    Snap(0, << >>, FALSE, 0, 0, FALSE, 0, 0),
    Snap(Offset, << >>, FALSE, 0, 0, FALSE, 0, 0),
    Snap(Offset, <<"usable">>, TRUE, 1, 9, TRUE, 11, 3),
    Snap(Offset, <<"other", "null", "usable", "usable", "usable">>, TRUE, 0, 9, FALSE, 0, 1),
    Snap(Offset, <<"usable", "other">>, FALSE, 4, 9, FALSE, 12, 9),
    Snap(Offset, <<"usable">>, TRUE, 0, 0, TRUE, 12, 200),
    Snap(Offset, <<"null">>, TRUE, 1, 9, FALSE, 13, 0)}

=============================================================================
