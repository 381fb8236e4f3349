----------------------------- MODULE MCRequests -----------------------------
(* Requests with two clients: a has a read-only request between two others,*)
(* so that it may be buffered while either is queued.                      *)
EXTENDS Requests

CONSTANTS a, b

MCKinds == (a :> <<"rw", "ro", "rw">>) @@ (b :> <<"rw">>)
=============================================================================
