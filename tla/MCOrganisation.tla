--------------------------- MODULE MCOrganisation ----------------------------
(***************************************************************************)
(* An instance of Organisation for TLC.                                    *)
(***************************************************************************)
EXTENDS Organisation, TLC

CONSTANTS s1, s2, m1, admin, other

MCSlots    == {s1, s2}
MCMachines == {m1}
MCEmails   == {admin, other}
\* A chain of departments: 2 below the root, 3 below 2.
MCParents  == [d \in {2, 3} |-> d - 1]
MCNames      == {1, 2}
MCFirstNames == <<1, 2, 1>>
\* Role 1, of which 12 has the digit, and 12.
MCRoles    == {1, 12}

SlotSymmetry == Permutations(MCSlots)
=============================================================================
