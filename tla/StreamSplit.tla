---------------------------- MODULE StreamSplit ----------------------------
(***************************************************************************)
(* How SamplerPool::init splits n_streams over its groups: group g of G    *)
(* takes (n_streams - lo) / (G - g) of the streams that are left.          *)
(***************************************************************************)
EXTENDS Integers

\* lo before group g, groups numbered from 0; lo after the last is SplitLo(n, G)[G].
SplitLo(n, G) ==
    LET lo[g \in 0 .. G] ==
            IF g = 0 THEN 0
            ELSE lo[g - 1] + (n - lo[g - 1]) \div (G - (g - 1))
    IN lo

\* The number of groups: at most one per stream, at least one.
GroupCount(n, groups) ==
    LET m == IF groups < n THEN groups ELSE n IN IF m < 1 THEN 1 ELSE m
=============================================================================
