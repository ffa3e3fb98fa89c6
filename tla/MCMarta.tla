------------------------------ MODULE MCMarta ------------------------------
(* Instances of Marta for TLC. *)
EXTENDS Marta, TLC

CONSTANTS j1, j2, n1, n2, n3, b1, b2, b3, m1, m2, m3, f1, f2

\* One job, two files: the first has two blocks, the second one.
SoloJobOf == m1 :> j1 @@ m2 :> j1 @@ m3 :> j1
SoloFileOf == m1 :> f1 @@ m2 :> f1 @@ m3 :> f2
SoloBlockOf == m1 :> b1 @@ m2 :> b2 @@ m3 :> b3
SoloHolders == b1 :> {n1, n2} @@ b2 :> {n2, n3} @@ b3 :> {n1, n3}

\* Two jobs.  The first reads a file of two blocks, the second a file of one
\* block, which is the first one's first block.
DuoJobOf == m1 :> j1 @@ m2 :> j1 @@ m3 :> j2
DuoFileOf == m1 :> f1 @@ m2 :> f1 @@ m3 :> f2
DuoBlockOf == m1 :> b1 @@ m2 :> b2 @@ m3 :> b1
DuoHolders == b1 :> {n1, n2} @@ b2 :> {n1, n2}
=============================================================================
