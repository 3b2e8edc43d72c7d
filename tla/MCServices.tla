---------------------------- MODULE MCServices ----------------------------
(***************************************************************************)
(* The services around the agents, each on its own: the management system  *)
(* and the directory facilitator, the channel to other platforms, the      *)
(* behaviour scheduler, discovery, the registry with its gRPC front, the   *)
(* manager of a hosted agent, the router, name resolution, and what bounds *)
(* an agent: the fit of its manifest, its engine, its host state; and the  *)
(* bridge to MCP clients.                                                  *)
(* They share no state; the rigid variable says which one a behaviour is   *)
(* about, and the others stay as they began.                               *)
(***************************************************************************)
EXTENDS Platform, Channel, Scheduler, Network, Hosting, Sandbox, Bridge, TLC

CONSTANTS m1, m2, m3, m4

MCDest == (m1 :> "name@url") @@ (m2 :> "name@other") @@ (m3 :> "url") @@ (m4 :> "name@url")
MCTransitions == {<<"start", "go", "end">>}
MCAgentNames == <<"agent", "agent-1">>
MCCalls == "c1" :> <<"x", "y", "x">>
\* Budgets at, below and above the ceilings of the two profiles.
MCManifests ==
  [grants : SUBSET {"State", "Llm", "Spawn"}, mem : {512, 513}, fuel : {1, 2}, state : {64},
   timers : {4, 1025}, msgs : {50, 51}, net : Scopes]

MCBridgeIds == <<"agent-1", "agent-2", "agent-3">>

VARIABLE service

directoriesParts == <<amsvars, dfvars, channelvars, schedulervars, discoveryvars, registryvars>>
hostingParts == <<managedvars, routervars, answers, fitvars, enginevars, hostvars, bridgevars>>
AllVars == <<service, directoriesParts, hostingParts>>

ServicesInit ==
  /\ service \in {"ams", "df", "channel", "scheduler", "discovery", "registry", "managed", "router",
                  "resolve", "fit", "engine", "host", "bridge"}
  /\ AMSInit /\ DFInit /\ ChannelInit /\ SchedulerInit /\ DiscoveryInit /\ RegistryInit
  /\ ManagedInit /\ RouterInit /\ ResolveInit /\ FitInit /\ EngineInit /\ HostInit /\ BridgeInit

DirectoriesNext ==
  \/ service = "ams" /\ AMSNext
     /\ UNCHANGED <<dfvars, channelvars, schedulervars, discoveryvars, registryvars>>
  \/ service = "df" /\ DFNext
     /\ UNCHANGED <<amsvars, channelvars, schedulervars, discoveryvars, registryvars>>
  \/ service = "channel" /\ ChannelNext
     /\ UNCHANGED <<amsvars, dfvars, schedulervars, discoveryvars, registryvars>>
  \/ service = "scheduler" /\ SchedulerNext
     /\ UNCHANGED <<amsvars, dfvars, channelvars, discoveryvars, registryvars>>
  \/ service = "discovery" /\ DiscoveryNext
     /\ UNCHANGED <<amsvars, dfvars, channelvars, schedulervars, registryvars>>
  \/ service = "registry" /\ RegistryNext
     /\ UNCHANGED <<amsvars, dfvars, channelvars, schedulervars, discoveryvars>>

HostingNext ==
  \/ service = "managed" /\ ManagedNext
     /\ UNCHANGED <<routervars, answers, fitvars, enginevars, hostvars, bridgevars>>
  \/ service = "router" /\ RouterNext
     /\ UNCHANGED <<managedvars, answers, fitvars, enginevars, hostvars, bridgevars>>
  \/ service = "resolve" /\ ResolveNext
     /\ UNCHANGED <<managedvars, routervars, fitvars, enginevars, hostvars, bridgevars>>
  \/ service = "fit" /\ FitNext
     /\ UNCHANGED <<managedvars, routervars, answers, enginevars, hostvars, bridgevars>>
  \/ service = "engine" /\ EngineNext
     /\ UNCHANGED <<managedvars, routervars, answers, fitvars, hostvars, bridgevars>>
  \/ service = "host" /\ HostNext
     /\ UNCHANGED <<managedvars, routervars, answers, fitvars, enginevars, bridgevars>>
  \/ service = "bridge" /\ BridgeNext
     /\ UNCHANGED <<managedvars, routervars, answers, fitvars, enginevars, hostvars>>

ServicesNext ==
  \/ DirectoriesNext /\ UNCHANGED <<service, hostingParts>>
  \/ HostingNext /\ UNCHANGED <<service, directoriesParts>>

ServicesSpec == ServicesInit /\ [][ServicesNext]_AllVars
=============================================================================
