----------------------------- MODULE MCMqttClient -----------------------------
(* MqttClient for model checking: the topics may be exchanged for one another. *)
EXTENDS MqttClient, TLC

AnyTopic == Permutations(Topics)

=============================================================================
