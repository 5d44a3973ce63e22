-------------------------------- MODULE Sums --------------------------------
(* Sums of integers over finite sets: the sum() of the Python code, the loops *)
(* of the Go code and the map().sum of the Scala code.                        *)
EXTENDS Integers, FiniteSetsExt

\* what the numbers g gives the members of S add up to
SumOver(g, S) == MapThenSumSet(LAMBDA x : g[x], S)
=============================================================================
