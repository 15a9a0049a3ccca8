----------------------------- MODULE CoreServices -----------------------------
(***************************************************************************)
(* The parts of the engine a session works through, side by side: the      *)
(* registry of sub agents, the client of an MCP server, the event bus, the *)
(* hooks, the gate of tool calls, the client of a language server, the     *)
(* tools over one and the gateway to the provider.  Each has a lock of its *)
(* own and none reads what another keeps (the tools' module has a server   *)
(* of its own to speak with), so a step is a step of one of them.          *)
(***************************************************************************)
EXTENDS Registry, McpClient, EventBus, Hooks, Policy, LspClient, LspDocuments,
  Gateway

coreVars ==
  <<registryVars, mcpVars, busVars, hookVars, policyVars, lspVars, docVars, gatewayVars>>

CoreInit ==
  /\ RegistryInit /\ McpInit /\ BusInit /\ HookInit /\ PolicyInit
  /\ LspInit /\ DocInit /\ GatewayInit

CoreNext ==
  \/ /\ RegistryNext
     /\ UNCHANGED <<mcpVars, busVars, hookVars, policyVars, lspVars, docVars, gatewayVars>>
  \/ /\ McpNext
     /\ UNCHANGED <<registryVars, busVars, hookVars, policyVars, lspVars, docVars, gatewayVars>>
  \/ /\ BusNext
     /\ UNCHANGED <<registryVars, mcpVars, hookVars, policyVars, lspVars, docVars, gatewayVars>>
  \/ /\ HookNext
     /\ UNCHANGED <<registryVars, mcpVars, busVars, policyVars, lspVars, docVars, gatewayVars>>
  \/ /\ PolicyNext
     /\ UNCHANGED <<registryVars, mcpVars, busVars, hookVars, lspVars, docVars, gatewayVars>>
  \/ /\ LspNext
     /\ UNCHANGED <<registryVars, mcpVars, busVars, hookVars, policyVars, docVars, gatewayVars>>
  \/ /\ DocNext
     /\ UNCHANGED <<registryVars, mcpVars, busVars, hookVars, policyVars, lspVars, gatewayVars>>
  \/ /\ GatewayNext
     /\ UNCHANGED <<registryVars, mcpVars, busVars, hookVars, policyVars, lspVars, docVars>>

CoreSpec == CoreInit /\ [][CoreNext]_coreVars

-----------------------------------------------------------------------------
(* Properties, beside RecordsAreTrue and ToolsOfTheSession *)

\* Whoever has a say is heard, and whoever listens hears: a subscriber gets its events in
\* order and whole (core/event.go), each hook that stays registered runs in its place
\* (core/hooks.go), and a call is decided by the strictest policy (security/policy.go).
EveryoneIsHeard == InOrderAndWhole /\ EveryHookRuns /\ StrictestDecides

\* Model calls: streams that share a gateway have one end each, which nothing follows, and
\* what they used is counted once, whichever of them is cancelled (gateway.go).
ModelCallsAreWhole == EndsOnce /\ UsageCountedOnce

\* Language servers: an answer goes to the question it was given to, a question is asked
\* twice at most and one server is started at a time, through crashes, restarts and
\* retries (client.go); the texts of a document have versions of their own (tools.go).
ServersAnswerWhatWasAsked == AnswersMatch /\ AskedTwice /\ OneStart /\ VersionsOnce
=============================================================================
