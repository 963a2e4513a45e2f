---------------------------- MODULE MCStateMachine ----------------------------
(* Configurations for ConnectionStateMachine.                              *)
EXTENDS ConnectionStateMachine

AllConfigs == ConfigType

\* One configuration per directory, for the runs that ask one question.
SimpleConfigs == {c \in ConfigType : c.bind_type = "simple" /\ ~c.use_start_tls}
=============================================================================
