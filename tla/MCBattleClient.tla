--------------------------- MODULE MCBattleClient ---------------------------
EXTENDS BattleClientProperties
=============================================================================
