--------------------------- MODULE MCMqttSession ---------------------------
EXTENDS MqttSession
=============================================================================
