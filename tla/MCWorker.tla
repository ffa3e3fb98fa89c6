------------------------------ MODULE MCWorker ------------------------------
(* A job with combiner over a block in each of two nodes, for TLC: the maps   *)
(* and the partial reduces; the map and the partial reduce of the first node, *)
(* once more when the reduce failed; and the final reduce.                    *)
EXTENDS Worker, TLC

CONSTANTS n1, n2, m1, m2, m3, p1, p2, p3, f

JobAt == [o \in {m1, m3, p1, p3} |-> n1] @@ [o \in {m2, p2, f} |-> n2]
JobInputs == (p1 :> {m1}) @@ (p2 :> {m2}) @@ (p3 :> {m3}) @@ (f :> {p2, p3})
                @@ [o \in {m1, m2, m3} |-> {}]
JobAfter  == (m3 :> {p1}) @@ [o \in Order |-> {}]
=============================================================================
