--------------------------- MODULE MCOutboundQueue ---------------------------
(* Small instances of OutboundQueue for TLC. *)
EXTENDS OutboundQueue, TLC

CONSTANTS m1, m2

(* One message goes over HTTP, the other to a connector that uses SFTP. *)
MixedChannel == (m1 :> "http_post") @@ (m2 :> "sftp")

ProcessSymmetry == Permutations(Worker) \union Permutations(Operator)
===============================================================================
