------------------------------ MODULE MCQueue -------------------------------
(***************************************************************************)
(* Queue for TLC: threads are model values and interchangeable.            *)
(***************************************************************************)
EXTENDS Queue, TLC

Symmetry == Permutations(Loggers) \union Permutations(Flushers)
              \union Permutations(Closers)
=============================================================================
