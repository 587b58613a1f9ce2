----------------------------- MODULE MCAuthFlow -----------------------------
(* The OAuth model for TLC: three hosts, two users, nonces enough that a  *)
(* fresh one always exists under the bounds of the cfg.                    *)
EXTENDS AuthFlow

MCNonces == {"n1", "n2", "n3", "n4", "n5", "n6", "n7"}

(* Depth of relay JWTs the attacker can nest is bounded by MaxSends.       *)
=============================================================================
