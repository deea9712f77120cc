-------------------------- MODULE MCDigestDelivery --------------------------
(* DigestDelivery on an instance TLC can check. *)
EXTENDS DigestDelivery, TLC

WorkerSymmetry == Permutations(Worker)

=============================================================================
