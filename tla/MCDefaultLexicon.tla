-------------------------- MODULE MCDefaultLexicon --------------------------
(* The threads are alike: DefaultLexicon has no order on them.              *)
EXTENDS DefaultLexicon, TLC

ThreadSymmetry == Permutations(Threads)
=============================================================================
