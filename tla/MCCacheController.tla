------------------------- MODULE MCCacheController -------------------------
(* One worker under each kind of fault, and two workers of which half must   *)
(* have finished before freeze mode ends.                                    *)
EXTENDS CacheController

CONSTANTS w1, w2, k1, k2

M(t, ws, m, o, s, r) ==
    [thr |-> t, workers |-> ws, may |-> m, syncs |-> s, retry |-> r,
     faults |-> Cardinality(m),
     ops |-> [w \in Workers |-> IF w = w1 THEN o ELSE 0]]

AllModes ==
    {M(80, {w1}, {"push"}, 1, 1, 1), M(80, {w1}, {"rpc"}, 1, 2, 2),
     M(80, {w1}, {"late"}, 1, 2, 1), M(80, {w1}, {"worker"}, 1, 1, 1),
     M(80, {w1}, {"controller"}, 1, 2, 1), M(80, {w1}, {"clear"}, 2, 1, 1),
     M(80, {w1}, {"controller", "rpc"}, 0, 1, 1),
     M(80, {w1}, {"close"}, 1, 1, 1), M(50, {w1, w2}, {}, 1, 1, 1)}
=============================================================================
