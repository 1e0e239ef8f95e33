----------------------------- MODULE MCLakehouse -----------------------------
EXTENDS Lakehouse, TLC

\* Publication 1 passes with a warning, publication 2 is past the fail threshold.
MCGrade == <<"warn", "fail">>

\* The attempts' drivers are told apart by what they did only.
MCAttemptSymmetry == Permutations(Attempts)
=============================================================================
