--------------------------- MODULE MCReviewDelivery ---------------------------
(* One Run whose review copy takes two messages. *)
EXTENDS ReviewDelivery
=============================================================================
