------------------------------ MODULE MCProcess ------------------------------
(* Two blocks and two channels, so that both are used again. *)
EXTENDS Process

Commands1  == {"start", "filtered", "list", "await", "sentinel", "change", "detach"}
Commands2  == {"start", "exec", "monitor", "string", "eot", "int", "kill", "stop", "continue",
               "change", "filter", "reset", "detach"}
BlocksVal   == 1..2
ChannelsVal == 1..2
==============================================================================
