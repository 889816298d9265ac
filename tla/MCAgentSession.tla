-------------------------- MODULE MCAgentSession ---------------------------
(* Small instances of AgentSession. *)
EXTENDS AgentSession

HostAndOthers == [c \in Controllers |-> CASE c = "host"      -> {"stop", "reset", "drain"}
                                          [] c = "evictor"   -> {"close"}
                                          [] c = "canceller" -> {"interrupt", "cancel_child"}]
CtrlC == [c \in Controllers |-> {"stop"}]
=============================================================================
