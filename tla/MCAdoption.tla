------------------------------ MODULE MCAdoption ------------------------------
(***************************************************************************)
(* A small instance of Adoption for TLC.                                   *)
(***************************************************************************)
EXTENDS MCDependents, Adoption

\* Rivals: one object that may only be taken over without an owner, and later not at
\* all, and one that is removed, or claimed whoever owns it.
RivalsManifest ==
    [r1 |-> [a |-> Plain, b |-> [Plain EXCEPT !.deleteOrder = 1]],
     r2 |-> <<>>,
     r3 |-> [a |-> [Plain EXCEPT !.content = "y", !.adoption = "Never"],
             b |-> [Plain EXCEPT !.adoption = "Always", !.update = "SsaMerge"]]]
=============================================================================
