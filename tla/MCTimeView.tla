----------------------------- MODULE MCTimeView -----------------------------
(* TimeView on a time axis of a dozen units. *)
EXTENDS TimeView

MCPanDeltas == {-7, -3, -1, 1, 4}
MCWindows == {1, 4, 6, 12}
=============================================================================
