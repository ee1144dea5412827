----------------------------- MODULE MCAgentRun -----------------------------
(***************************************************************************)
(* Small instances of AgentRun: a tool with a transient payload, one that  *)
(* asks, one that is denied; two calls share an id, as a provider that     *)
(* numbers the calls of each response makes them.                          *)
(***************************************************************************)
EXTENDS AgentRun

MCCalls == {[id |-> "1", tool |-> "use_skill"], [id |-> "1", tool |-> "bash"],
            [id |-> "2", tool |-> "write"]}

=============================================================================
