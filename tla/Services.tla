------------------------------ MODULE Services ------------------------------
(***************************************************************************)
(* The parts of Metis around the agent's turn, side by side: the registry  *)
(* of agents, the provider router, an MCP connection, the web              *)
(* application's rate limits and chat turns, the evaluation runs, the      *)
(* plans that repair what they found, the judgement of a run, the context  *)
(* that a provider gets, the calls of the provider, the state store that   *)
(* runs share and the tools that change files.                             *)
(* They share no state and no step of one reads another, so a behaviour    *)
(* with steps of all of them shows nothing that its parts do not: each     *)
(* behaviour here is one of one component, the others stay as they began.  *)
(***************************************************************************)
EXTENDS SwarmRegistry, Routing, McpClient, RateLimit, ChatTurns, EvalRuns,
        RepairPlan, JudgedRuns, ContextFit, ProviderCalls, StoredRuns,
        FileTools

VARIABLE component

Components == {"registry", "routing", "mcp", "rate limits", "chat",
               "evaluation", "repair plans", "judged runs", "context",
               "provider", "stored runs", "files"}

servicesVars == <<component, registryVars, routingVars, mcpVars, rateVars,
                  chatVars, evalVars, repairVars, judgedVars, contextVars,
                  providerVars, storedVars, filesVars>>

ServicesTypeOK ==
    /\ component \in Components
    /\ RegistryTypeOK
    /\ RoutingTypeOK
    /\ McpTypeOK
    /\ RateLimitTypeOK
    /\ ChatTypeOK
    /\ EvalTypeOK
    /\ RepairTypeOK
    /\ JudgedTypeOK
    /\ ContextTypeOK
    /\ ProviderTypeOK
    /\ StoredTypeOK
    /\ FilesTypeOK

\* Where a component can begin in several ways, only the chosen one does.
ServicesInit ==
    /\ component \in Components
    /\ RegistryInit
    /\ component # "registry" => Placed = {}
    /\ RoutingInit
    /\ component # "routing" =>
         setup = [strategy |-> "primary", failover |-> FALSE, monitored |-> FALSE]
    /\ McpInit
    /\ RateLimitInit
    /\ ChatInit
    /\ component # "chat" => kind = [t \in Turns |-> "plain"]
    /\ EvalInit
    /\ RepairInit
    /\ component # "repair plans" => \A d \in PlanDirs : page[d].att = NoFile
    /\ JudgedInit
    /\ ContextInit
    /\ component # "context" => talk = CHOOSE s \in Openings : TRUE
    /\ ProviderInit
    /\ StoredInit
    /\ component # "stored runs" => assigned = CHOOSE j \in StoredJobs : TRUE
    /\ FilesInit
    /\ component # "files" => disk = [f \in Paths |-> NoText]

ServicesNext ==
    /\ UNCHANGED component
    /\ \/ component = "registry" /\ RegistryNext
       \/ component # "registry" /\ UNCHANGED registryVars
    /\ \/ component = "routing" /\ RoutingNext
       \/ component # "routing" /\ UNCHANGED routingVars
    /\ \/ component = "mcp" /\ McpNext
       \/ component # "mcp" /\ UNCHANGED mcpVars
    /\ \/ component = "rate limits" /\ RateLimitNext
       \/ component # "rate limits" /\ UNCHANGED rateVars
    /\ \/ component = "chat" /\ ChatNext
       \/ component # "chat" /\ UNCHANGED chatVars
    /\ \/ component = "evaluation" /\ EvalNext
       \/ component # "evaluation" /\ UNCHANGED evalVars
    /\ \/ component = "repair plans" /\ RepairNext
       \/ component # "repair plans" /\ UNCHANGED repairVars
    /\ \/ component = "judged runs" /\ JudgedNext
       \/ component # "judged runs" /\ UNCHANGED judgedVars
    /\ \/ component = "context" /\ ContextNext
       \/ component # "context" /\ UNCHANGED contextVars
    /\ \/ component = "provider" /\ ProviderNext
       \/ component # "provider" /\ UNCHANGED providerVars
    /\ \/ component = "stored runs" /\ StoredNext
       \/ component # "stored runs" /\ UNCHANGED storedVars
    /\ \/ component = "files" /\ FilesNext
       \/ component # "files" /\ UNCHANGED filesVars

ServicesSpec == ServicesInit /\ [][ServicesNext]_servicesVars

=============================================================================
