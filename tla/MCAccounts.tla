------------------------------ MODULE MCAccounts ------------------------------
(* Two logins of one or two accounts, and what their sessions do.               *)
EXTENDS Accounts, TLC

CONSTANTS s1, s2, c1, c2, x1, x2, q1, q2, q3, a1, a2

Symmetry == Permutations({s1, s2}) \cup Permutations({c1, c2}) \cup Permutations({x1, x2})
            \cup Permutations({q1, q2, q3}) \cup Permutations({a1, a2})
===============================================================================
