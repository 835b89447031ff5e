-------------------------------- MODULE Status --------------------------------
(* Early returns: a function returns the error of its first failing test.    *)
EXTENDS Sequences

Check(condition, error) == IF condition THEN "ok" ELSE error

\* The first of a sequence of statuses that is not "ok".
FirstError(s) ==
    LET errors == SelectSeq(s, LAMBDA e : e # "ok")
    IN  IF errors = << >> THEN "ok" ELSE errors[1]

=============================================================================
