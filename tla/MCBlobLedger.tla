---------------------------- MODULE MCBlobLedger ----------------------------
(* Two accounts and two blobs, small enough for TLC and large enough for     *)
(* shared blobs, quota refusals, and moderation deletes that deadlock.       *)
EXTENDS BlobLedger, TLC

CONSTANTS u1, u2, h1, h2, t1, t2, t3

MCSizeOf == h1 :> 1 @@ h2 :> 2

=============================================================================
