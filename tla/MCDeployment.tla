---------------------------- MODULE MCDeployment ----------------------------
(* Deployment with two workers and two migrators, two of the four at a time.  *)
(* It makes no difference which of them it is, nor which token or row.        *)
EXTENDS Deployment

Symmetry == Permutations(Workers) \cup Permutations(Tokens) \cup Permutations(Migrators)
            \cup Permutations(Logs)
=============================================================================
