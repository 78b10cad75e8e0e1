----------------------------- MODULE MCWebhooks -----------------------------
(***************************************************************************)
(* Webhooks on one endpoint that wants every customer event, and one       *)
(* event delivered to it automatically and by a replay.                    *)
(***************************************************************************)
EXTENDS Webhooks

CONSTANTS e1, c1

MCWants == [e \in Endpoints |-> {}]
=============================================================================
