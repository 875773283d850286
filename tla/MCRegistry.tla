------------------------------ MODULE MCRegistry ------------------------------
(***************************************************************************)
(* TLC instances of the registry.                                          *)
(***************************************************************************)
EXTENDS RegistryProperties, TLC

CONSTANTS c1, c2, v1, v2, o1, o2, d1, d2, p1, r1, r2, masked, garbage

\* A second way to write the plate, and a text that is no plate.
Stands == p1 :> p1 @@ masked :> p1 @@ garbage :> None

Symmetry == Permutations({c1, c2}) \union Permutations({v1, v2})
              \union Permutations({o1, o2}) \union Permutations({d1, d2})
              \union Permutations({r1, r2})
=============================================================================
