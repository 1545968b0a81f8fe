---------------------------- MODULE MCStatusCall ----------------------------
(* The launcher registers "ue", and "agent" when one is configured. *)
EXTENDS StatusCall

TheOrders == {<<"ue">>, <<"ue", "agent">>}
=============================================================================
