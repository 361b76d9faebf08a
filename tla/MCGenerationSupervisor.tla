----------------------- MODULE MCGenerationSupervisor -----------------------
(* One peer, and a second that is added with its AllowedIPs. *)
EXTENDS GenerationSupervisor

Configs == {[p \in {"p"} |-> "net1"],
            [p \in {"p", "q"} |-> IF p = "p" THEN "net1" ELSE "net2"]}
MCSpec == SupervisorSpec /\ SupervisorFairness
===============================================================================
