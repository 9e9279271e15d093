---------------------------- MODULE MCPrediction ----------------------------
EXTENDS PredictionProperties
=============================================================================
