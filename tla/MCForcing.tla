------------------------------ MODULE MCForcing ------------------------------
(* Instances of Forcing for TLC: accounts, endpoints and processes are        *)
(* interchangeable.  Runs with a liveness property do not use Symmetry.       *)
EXTENDS Forcing, TLC

Symmetry == Permutations(Accounts) \union Permutations(Endpoints) \union Permutations(Procs)

=============================================================================
