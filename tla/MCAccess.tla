------------------------------ MODULE MCAccess ------------------------------
EXTENDS Access, TLC

CONSTANTS r1, r2, u1, u2, l1, x, y, s1, s2, q1, q2, c1, c2, v1, v2

\* Two roles that both have api x.
MCTables == {{<<r1, x>>, <<r2, x>>}}
MCWants == {{}, {x}, {x, y}}

\* Two servers, one with a clock that is a second ahead.
MCAhead == (s1 :> 0) @@ (s2 :> 1)

Symmetry ==
  Permutations({r1, r2}) \cup Permutations({u1, u2}) \cup Permutations({q1, q2})

=============================================================================
