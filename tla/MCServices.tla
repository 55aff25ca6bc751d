----------------------------- MODULE MCServices ------------------------------
(***************************************************************************)
(* An instance of Services for TLC: two requests at a time, a cron         *)
(* expression and two commands, three texts, two names of plugins, two     *)
(* machines in a tree of three departments.                                *)
(***************************************************************************)
EXTENDS Services, TLC

CONSTANTS s1, s2, hourly, run, list, text1, text2, text3, name1, name2, m1, m2, top, sub, side

MCSlots      == {s1, s2}
MCExpression == {hourly}
MCCommand    == {run, list}
MCComma      == {list}
MCText       == {text1, text2, text3}
MCPluginName == {name1, name2}
MCFormName   == {"plain", "dash"}
MCMachine    == {m1, m2}
MCDepartment == {top, sub, side}
MCBelow      == top :> <<sub, side>> @@ sub :> << >> @@ side :> << >>

\* Slots and texts are alike.
ServicesSymmetry == Permutations(MCSlots) \cup Permutations(MCText)
=============================================================================
