------------------------- MODULE MCObjectOwnership -------------------------
(* Instances of ObjectOwnership for TLC: one request with one copy, one      *)
(* request with two copies, and two requests that share their queues.        *)
EXTENDS ObjectOwnershipInd, TLC

CONSTANTS f1, w1, w2, g1, g2,   \* processes
          r1, r2, j1, j2,       \* requests and jobs
          qa, qb, qr            \* queues: transfer (two tape pools), report

OneCopyRequest == j1 :> r1
OneCopyQueues == j1 :> {qa, qr}
OneCopyOneQueue == j1 :> {qa}
OneCopyTransfer == j1 :> qa

TwoCopiesRequest == j1 :> r1 @@ j2 :> r1
TwoCopiesQueues == j1 :> {qa, qr} @@ j2 :> {qb}
TwoCopiesTransfer == j1 :> qa @@ j2 :> qb

TwoRequestsRequest == j1 :> r1 @@ j2 :> r2
TwoRequestsQueues == j1 :> {qa} @@ j2 :> {qa}
TwoRequestsTransfer == j1 :> qa @@ j2 :> qa

Interchangeable == Permutations({w1, w2})
=============================================================================
