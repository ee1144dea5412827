-------------------------- MODULE MCMemoryApproval --------------------------
(***************************************************************************)
(* Small instances of MemoryApproval: two users and the CLI, one fact in   *)
(* two spellings, and a text the sanitizer refuses.                        *)
(***************************************************************************)
EXTENDS MemoryApproval, TLC

CONSTANTS alice, bob, cli, None_, r1, r2, m1, m2, m3, c1, c2

\* No definition chooses among ids, users or requests.
Alike == Permutations({m1, m2, m3}) \union Permutations({c1, c2}) \union Permutations({r1, r2})
         \union Permutations({alice, bob})

MCFold == [t \in {"Fact", "fact", "secret"} |-> IF t = "Fact" THEN "fact" ELSE t]

=============================================================================
