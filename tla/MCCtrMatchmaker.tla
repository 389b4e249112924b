-------------------------- MODULE MCCtrMatchmaker --------------------------
(* Instances of CtrMatchmaker for TLC. *)
EXTENDS CtrMatchmaker, TLC

CONSTANTS p1, p2, p3, p4, c1, c2, c3

(* Three players, a connection each; they are interchangeable. *)
Apart == (c1 :> p1) @@ (c2 :> p2) @@ (c3 :> p3)

ConnOf(p) == CHOOSE c \in Conns : ConnPid[c] = p
Symm == {f @@ [c \in Conns |-> ConnOf(f[ConnPid[c]])] : f \in Permutations({p1, p2, p3})}

Doc(ps, lo, hi) == [members |-> ps, min |-> lo, max |-> hi, filter |-> "any"]

(* Everybody searches alone, for a lobby of two or three. *)
Solo == {[sends |-> [c \in Conns |-> {Doc({ConnPid[c]}, 2, 3)}], ids |-> 6]}

(* ... or of two only. *)
SoloOrDuel ==
    [sends |-> [c \in Conns |-> {Doc({ConnPid[c]}, 2, n) : n \in {2, 3}}], ids |-> 5]

(* p leads the party of p and q, r that of r and p4, which changes its mind  *)
(* about the size of the lobby; q's own connection does not search. Every    *)
(* choice of p, q and r is a workload, because the three are interchangeable. *)
Parties(p, q, r) ==
    [sends |-> [c \in Conns |->
                  CASE ConnPid[c] = p -> {Doc({p, q}, 2, 4)}
                    [] ConnPid[c] = r -> {Doc({r, p4}, 2, 3), Doc({r, p4}, 2, 4)}
                    [] OTHER -> {}],
     ids |-> 4]

Both ==
    {SoloOrDuel} \cup {Parties(f[p1], f[p2], f[p3]) : f \in Permutations({p1, p2, p3})}

=============================================================================
