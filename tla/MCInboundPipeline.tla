--------------------------- MODULE MCInboundPipeline ---------------------------
(* A small instance of InboundPipeline for TLC. *)
EXTENDS InboundPipeline, TLC

CONSTANTS f1, f2, f3, c1, c2

(* The report in f1 is delivered again as f2; f3 is an acknowledgement
   of more than 50 MB. *)
SomePayload == (f1 :> c1) @@ (f2 :> c1) @@ (f3 :> c2)
SomeKind == (c1 :> "inventory_report") @@ (c2 :> "so_acknowledgement")
===============================================================================
