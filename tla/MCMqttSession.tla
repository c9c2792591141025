--------------------------- MODULE MCMqttSession ---------------------------
(* Small instances of MqttSession for TLC.                                 *)
EXTENDS MqttSession

CONSTANTS configSet, logsGet, channelSet

MCDeviceTopics == {configSet, logsGet}
MCSwitchTopics == {channelSet}
=============================================================================
