-------------------------- MODULE MCLobbyTransport --------------------------
EXTENDS LobbyTransportProperties
=============================================================================
