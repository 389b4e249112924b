----------------------------- MODULE MCCtrStats -----------------------------
(* An instance of CtrStats for TLC: a board of times, one of Ring Rally and  *)
(* one of points, with uploads that are valid, refused for their account,    *)
(* operation, score or length, that overflow in both directions, and that    *)
(* write a board twice.                                                      *)
EXTENDS CtrStats, TLC

W(board, pid, op, score) == [board |-> board, entity |-> pid, op |-> op, score |-> score]

MCUploads ==
    UNION {{<<W("time", p, 4, 1)>>,
            <<W("time", p, 4, 3), W("time", p, 4, 2)>>,
            <<W("time", p, 0, 1)>>,
            <<W("time", p, 4, 0)>>,
            <<W("ring", p, 4, 0), W("points", p, 1, 2)>>,
            <<W("ring", p, 4, 2), W("points", p, 1, -3), W("points", p, 1, -1)>>,
            <<W("points", p, 0, 1)>>,
            <<W("points", p, 4, -2)>>,
            <<W("points", p, 2, 1)>>,
            <<W("points", p, 0, 3), W("points", p, 1, 0), W("time", p, 4, 1), W("ring", p, 4, 1)>>} :
           p \in Pids}

=============================================================================
