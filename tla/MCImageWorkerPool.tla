------------------------- MODULE MCImageWorkerPool --------------------------
(* Two threads and four requests: two are converted, two wait.                *)
EXTENDS ImageWorkerPool

\* The requests are alike, so they may as well come in one order: every
\* behaviour is one of these with the requests renamed.  (A symmetry set would
\* not be sound for the liveness properties.)
Order == SetToSeq(Requests)
InOrder ==
    \A i \in DOMAIN Order :
        request[Order[i]] = "new" /\ request'[Order[i]] # "new" =>
            \A k \in 1..(i - 1) : request[Order[k]] # "new"
=============================================================================
