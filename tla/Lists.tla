------------------------------- MODULE Lists -------------------------------
(***************************************************************************)
(* Order and completeness of what a stream delivers.                       *)
(***************************************************************************)
EXTENDS Naturals

\* f, on numbers, lists the numbers of S in ascending order, each of them once.
Lists(f, S) == /\ {f[i] : i \in DOMAIN f} = S
               /\ \A i, j \in DOMAIN f : i < j => f[i] < f[j]
=============================================================================
