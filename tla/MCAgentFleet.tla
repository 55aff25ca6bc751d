---------------------------- MODULE MCAgentFleet -----------------------------
(***************************************************************************)
(* Instances of AgentFleet for TLC: one or two machines, model values for  *)
(* the departments and the operator's request.                             *)
(***************************************************************************)
EXTENDS AgentFleetInv, TLC

CONSTANTS m1, m2, root, d1, o1

MCMachine  == {m1, m2}
MCOne      == {m1}
MCDepart   == {root, d1}
MCOperator == {o1}
MCNoOperator == {}

\* Departments and the request are told apart, machines are not.
MachineSymmetry == Permutations({m1, m2})
=============================================================================
