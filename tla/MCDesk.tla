------------------------------- MODULE MCDesk -------------------------------
(* The program with two tasks that share the swap. *)
EXTENDS DeskProps, TLC

CONSTANTS c1, c2, swap, spot, spot2, other

Pairs == (c1 :> <<swap, spot>>) @@ (c2 :> <<swap, spot2>>)

\* The two commands, each with its spot, may change places.
Symmetric == {p \in Permutations({c1, c2, spot, spot2}) :
                 \A c \in {c1, c2} : p[c] \in {c1, c2} /\ p[Pairs[c][2]] = Pairs[p[c]][2]}
=============================================================================
