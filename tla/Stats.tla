------------------------------- MODULE Stats -------------------------------
(* Order statistics of finite families of integers (sequences, or functions  *)
(* of a finite set), as numpy computes them.  A value is an even integer     *)
(* wherever the mean of two middle ones is taken.                            *)
EXTENDS Integers, Sequences, FiniteSets

Distance(a, b) == IF a < b THEN b - a ELSE a - b

\* The k-th smallest value of s.
Kth(s, k) ==
  CHOOSE v \in {s[i] : i \in DOMAIN s} :
    /\ Cardinality({i \in DOMAIN s : s[i] < v}) < k
    /\ k <= Cardinality({i \in DOMAIN s : s[i] <= v})

\* np.median
Median(s) ==
  LET n == Cardinality(DOMAIN s)
  IN (Kth(s, (n + 1) \div 2) + Kth(s, n \div 2 + 1)) \div 2

Least(S) == CHOOSE v \in S : \A u \in S : v <= u
Greatest(S) == CHOOSE v \in S : \A u \in S : u <= v
=============================================================================
