--------------------------- MODULE MCEmbeddingQueue ---------------------------
(***************************************************************************)
(* The second process is configured with another tag weight.                *)
(***************************************************************************)
EXTENDS EmbeddingQueue, TLC

CONSTANTS x, y, w1, w2

MCVersionOf == (w1 :> "v1") @@ (w2 :> "v2")
===============================================================================
