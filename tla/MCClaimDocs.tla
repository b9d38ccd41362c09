----------------------------- MODULE MCClaimDocs -----------------------------
(* The instance of MCClaimLifecycle, for what the documentation says.      *)
EXTENDS MCClaimLifecycle, ClaimDocs
=============================================================================
