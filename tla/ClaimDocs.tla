------------------------------ MODULE ClaimDocs ------------------------------
(***************************************************************************)
(* What the documentation and the comments say about the life of a claim,  *)
(* stated over ClaimLifecycle.  The code does otherwise in each of these   *)
(* cases; the README tells each story.                                     *)
(***************************************************************************)
EXTENDS ClaimLifecycle

(* docs/MANUAL.md: an idempotency key makes doing the same operation twice *)
(* have the effect of doing it once (you can't double-pay).                *)
CannotDoublePay == Len(rail) <= 1

(* README.md: money never moves without a hard-coded policy tier or a      *)
(* human signature.  w2_await reads a resume value that has no resolution, *)
(* such as an uploaded document, as an approval.                           *)
TierOrSignature ==
  \A i \in DOMAIN rail :
    rail[i].workflow = "W2" => \E d \in decisions : d.kind \in {"approve", "modify"}
=============================================================================
