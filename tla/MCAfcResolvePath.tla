-------------------------- MODULE MCAfcResolvePath --------------------------
(* Small instances of AfcResolvePath for TLC. *)
EXTENDS AfcResolvePath

CONSTANTS a, b

Abs(p) == [absolute |-> TRUE, path |-> p]
Rel(p) == [absolute |-> FALSE, path |-> p]
MCTargets  == {Abs(<<b>>), Abs(<<a, b>>), Abs(<<Up, a, a>>), Rel(<<a>>), Rel(<<Up, b>>)}
MCRequests == {<<>>, <<Up, a>>, <<a>>, <<a, a>>, <<a, b>>, <<b, a>>}
=============================================================================
