------------------------------- MODULE MCSmd -------------------------------
(* Smd with two callers, enough for one of them to inherit the other's late *)
(* response.                                                                *)
EXTENDS Smd
CONSTANTS mac, dfs
TwoCallers == {mac, dfs}
=============================================================================
