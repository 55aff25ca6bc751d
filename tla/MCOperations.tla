---------------------------- MODULE MCOperations -----------------------------
(***************************************************************************)
(* An instance of Operations for TLC.                                      *)
(***************************************************************************)
EXTENDS Operations

CONSTANTS m1, m2

MCMachines == {m1, m2}
\* No machine, one, both.
MCLists == {<<>>, <<m1>>, <<m1, m2>>}
=============================================================================
