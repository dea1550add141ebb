---------------------------- MODULE MCThreadPool ----------------------------
(***************************************************************************)
(* ThreadPool for TLC: a pool of three, and graphs for three, one and two  *)
(* of its threads.                                                         *)
(***************************************************************************)
EXTENDS ThreadPool

ThreeGraphs ==
    << [threads |-> 3, nodes |-> <<"mul_mat", "other", "empty", "mul_mat">>],
       [threads |-> 1, nodes |-> <<"mul_mat">>],
       [threads |-> 2, nodes |-> <<"other", "other">>] >>
=============================================================================
