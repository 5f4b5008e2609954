---------------------------- MODULE MCRemediation ----------------------------
(* Small instance of Remediation: two overlapping runs over two files with   *)
(* one and two findings; one edit of each file.                              *)
EXTENDS Remediation, TLC

CONSTANTS f1, f2
MCFiles == {f1, f2}
MCFlaws == f1 :> 1 @@ f2 :> 2
MCSymmetry == Permutations(Runs)
=============================================================================
