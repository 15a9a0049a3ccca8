----------------------------- MODULE MCServices -----------------------------
(***************************************************************************)
(* One run for the parts of the engine that share no state with each       *)
(* other: the crashes of a storage scope (Durability), the parts a session *)
(* works through (CoreServices) and those that keep what was said and      *)
(* learnt (MemoryServices), and the components below (instances).  A       *)
(* behavior picks a part and runs it alone, so what is checked of each is  *)
(* what a run of its own would check; a step of a part of CoreServices is  *)
(* one of CoreNext, as one of MemoryServices is of MemoryNext.             *)
(* The instances take turns on one set of variables, the stage: only one   *)
(* of them is on it in a behavior.                                         *)
(***************************************************************************)
EXTENDS Durability, CoreServices, MemoryServices

VARIABLES
  part,   \* the part this behavior runs
  s1, s2, s3, s4, s5, s6, s7

\* The compositions, the tool calls and the policies of the configuration.
MCWork == {<<"team", 1>>, <<"team", 2>>, <<"solo", 1>>}
MCEventTypes == <<"error", "done">>
Confined == [kind |-> "workspace", roots |-> {<<"data">>}, outside |-> FALSE,
             dangerous |-> {"rm"}, requireApproval |-> FALSE, allowed |-> {"ls"}]
Asking == [Confined EXCEPT !.roots = {}, !.requireApproval = TRUE]
Allowing(base) == [kind |-> "allowlist", tools |-> {"shell", "read"}, denied |-> {"read"},
                   base |-> base]
MCPolicies == {[kind |-> "none"], Confined, Asking, Allowing({}), Allowing({Confined})}
MCToolCalls ==
  [tool : {"shell"}, path : {None, <<"data", "x">>, <<"data-old">>, <<".", "data">>},
   command : {None, <<"ls">>}]
  \cup [tool : {"shell"}, path : {None},
        command : {None, <<>>, <<"assignment", "rm">>, <<"ls">>, <<"cc">>}]
  \cup [tool : {"read", "write"}, path : {None}, command : {None}]

Diag == INSTANCE Diagnostics WITH Docs <- {1, 2}, Reports <- {<<>>, <<0>>, <<2, 1>>},
  Asked <- {2}, MaxProblems <- 1, store <- s1, paths <- s2, severities <- s3,
  lastCount <- s4, reading <- s5
Ps == INSTANCE ProviderStream WITH MaxBlocks <- 3, Pieces <- 2, format <- s1,
  block <- s2, held <- s3, finished <- s4, out <- s5, tally <- s6, over <- s7
Cr == INSTANCE ChatRequest WITH MaxTurns <- 2, provider <- s1, history <- s2,
  turn <- s3, spoken <- s4

stage == <<s1, s2, s3, s4, s5, s6, s7>>
\* What a part with fewer variables leaves of the stage.
after5 == <<s6, s7>>
after4 == <<s5, after5>>

IdleAfter5 == s6 = "idle" /\ s7 = "idle"
IdleAfter4 == s5 = "idle" /\ IdleAfter5
IdleAfter0 == s1 = "idle" /\ s2 = "idle" /\ s3 = "idle" /\ s4 = "idle" /\ IdleAfter4

CoreParts == {"registry", "mcp", "bus", "hooks", "policy", "lsp", "documents", "gateway"}
MemoryParts == {"context", "cache", "rate", "log", "wiki", "skills"}
StageParts == {"diagnostics", "provider", "request"}

\* One of the instances is on the stage, or another part runs.
Staged ==
  \/ part = "diagnostics" /\ Diag!Init /\ IdleAfter5
  \/ part = "provider" /\ Ps!Init
  \/ part = "request" /\ Cr!Init /\ IdleAfter4
  \/ part \in {"storage"} \cup CoreParts \cup MemoryParts /\ IdleAfter0

\* A part that does not run waits in one of its initial states.
Waiting ==
  /\ part # "context" => ~summarizes
  /\ part # "wiki" => schema = "none"
  /\ part # "skills" => disk = [r \in ToSet(Roots) |-> [n \in Names |-> "gone"]]
  /\ part # "policy" => policies = <<>>
  /\ part # "gateway" => apiFormat = "responses"

SumInit == Staged /\ Init /\ CoreInit /\ MemoryInit /\ Waiting

\* A step of one of the parts of CoreServices, of MemoryServices, of the instances.
CoreStep ==
  \/ /\ part = "registry"
     /\ UNCHANGED <<mcpVars, busVars, hookVars, policyVars, lspVars, docVars, gatewayVars>>
     /\ RegistryNext
  \/ /\ part = "mcp"
     /\ UNCHANGED <<registryVars, busVars, hookVars, policyVars, lspVars, docVars, gatewayVars>>
     /\ McpNext
  \/ /\ part = "bus"
     /\ UNCHANGED <<registryVars, mcpVars, hookVars, policyVars, lspVars, docVars, gatewayVars>>
     /\ BusNext
  \/ /\ part = "hooks"
     /\ UNCHANGED <<registryVars, mcpVars, busVars, policyVars, lspVars, docVars, gatewayVars>>
     /\ HookNext
  \/ /\ part = "policy"
     /\ UNCHANGED <<registryVars, mcpVars, busVars, hookVars, lspVars, docVars, gatewayVars>>
     /\ PolicyNext
  \/ /\ part = "lsp"
     /\ UNCHANGED <<registryVars, mcpVars, busVars, hookVars, policyVars, docVars, gatewayVars>>
     /\ LspNext
  \/ /\ part = "documents"
     /\ UNCHANGED <<registryVars, mcpVars, busVars, hookVars, policyVars, lspVars, gatewayVars>>
     /\ DocNext
  \/ /\ part = "gateway"
     /\ UNCHANGED <<registryVars, mcpVars, busVars, hookVars, policyVars, lspVars, docVars>>
     /\ GatewayNext

MemoryStep ==
  \/ /\ part = "context"
     /\ UNCHANGED <<cacheVars, rateVars, logVars, wikiVars, skillVars>>
     /\ ContextNext
  \/ /\ part = "cache"
     /\ UNCHANGED <<contextVars, rateVars, logVars, wikiVars, skillVars>>
     /\ CacheNext
  \/ /\ part = "rate"
     /\ UNCHANGED <<contextVars, cacheVars, logVars, wikiVars, skillVars>>
     /\ RateNext
  \/ /\ part = "log"
     /\ UNCHANGED <<contextVars, cacheVars, rateVars, wikiVars, skillVars>>
     /\ LogNext
  \/ /\ part = "wiki"
     /\ UNCHANGED <<contextVars, cacheVars, rateVars, logVars, skillVars>>
     /\ WikiNext
  \/ /\ part = "skills"
     /\ UNCHANGED <<contextVars, cacheVars, rateVars, logVars, wikiVars>>
     /\ SkillNext

StageStep ==
  \/ part = "diagnostics" /\ UNCHANGED after5 /\ Diag!Next
  \/ part = "provider" /\ Ps!Next
  \/ part = "request" /\ UNCHANGED after4 /\ Cr!Next

SumNext ==
  \/ part = "storage" /\ UNCHANGED <<part, coreVars, memoryVars, stage>> /\ Next
  \/ part \in CoreParts /\ UNCHANGED <<part, vars, memoryVars, stage>> /\ CoreStep
  \/ part \in MemoryParts /\ UNCHANGED <<part, vars, coreVars, stage>> /\ MemoryStep
  \/ part \in StageParts /\ UNCHANGED <<part, vars, coreVars, memoryVars>> /\ StageStep

SumSpec == SumInit /\ [][SumNext]_<<part, vars, coreVars, memoryVars, stage>>

-----------------------------------------------------------------------------
(* Properties, beside those of Durability, CoreServices and MemoryServices.  Each *)
(* speaks of the components it names.                                             *)

\* The state of the part that runs is what its code can hold.
ServicesTypeOK ==
  CASE part = "storage" -> TypeOK
    [] part = "registry" -> RegistryTypeOK
    [] part = "mcp" -> McpTypeOK
    [] part = "bus" -> BusTypeOK
    [] part = "hooks" -> HookTypeOK
    [] part = "policy" -> PolicyTypeOK
    [] part = "context" -> ContextTypeOK
    [] part = "cache" -> CacheTypeOK
    [] part = "rate" -> RateTypeOK
    [] part = "log" -> LogTypeOK
    [] part = "wiki" -> WikiTypeOK
    [] part = "skills" -> SkillTypeOK
    [] part = "lsp" -> LspTypeOK
    [] part = "documents" -> DocTypeOK
    [] part = "diagnostics" -> Diag!TypeOK
    [] part = "gateway" -> GatewayTypeOK
    [] part = "provider" -> Ps!TypeOK
    [] part = "request" -> Cr!TypeOK

\* What is said reaches the other side whole: what a provider sends is handed on in its
\* order and whole wherever the body breaks off (the three parsers), what is sent to a
\* provider is the conversation, in whichever format it was held (the three request
\* builders), and no file with problems is left out of the message about them (injector.go).
TextsAreWhole ==
  /\ part = "provider" => Ps!CallsAreWhole /\ Ps!HandedOnWhole
  /\ part = "request" => Cr!NothingLost
  /\ part = "diagnostics" => Diag!EveryFileSpeaks
=============================================================================
