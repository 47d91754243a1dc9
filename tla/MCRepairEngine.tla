---------------------------- MODULE MCRepairEngine ----------------------------
(* Small instances of RepairEngine for TLC. *)
EXTENDS RepairEngine, TLC

CONSTANT c1

Symmetry == Permutations(Callers)

Rule(name, check, max) == [rule |-> name, check |-> check, recipe |-> "restart", max |-> max]

\* One rule without a limit.
Unlimited == <<Rule("r1", c1, 0)>>
\* A limit of one; the second rule replaces the first for c1, and as it sets no
\* limit of its own the one set under its name stays.
OnePerHour == <<Rule("r1", c1, 1), Rule("r1", c1, 0)>>
=============================================================================
