------------------------------ MODULE MCMigrate ------------------------------
(* A small instance of Migrate for TLC. *)
EXTENDS Migrate

M(v, body) == [version |-> v, body |-> body]

\* Three releases in a row; one that edited a migration; one from a branch that
\* took the next number but one; and two that cannot be loaded.
Releases ==
  {{M(1, "x")}, {M(1, "x"), M(2, "y")}, {M(1, "x"), M(2, "y"), M(3, "z")},
   {M(1, "edited"), M(2, "y")}, {M(1, "x"), M(3, "z")},
   {}, {M(1, "x"), M(1, "edited")}}
=============================================================================
