--------------------------- MODULE MCLobbySession ---------------------------
(* LobbySession for TLC; the constants are given by the configurations. *)
EXTENDS LobbySessionProperties
=============================================================================
