-------------------------------- MODULE Policy --------------------------------
(***************************************************************************)
(* The gate of tool calls (internal/engine/security/policy.go): policies   *)
(* that decide one call, the chain of them, and the recorder that counts   *)
(* what the chain decided.                                                 *)
(*                                                                         *)
(* A list of names and patterns is the set of the names it matches, a path *)
(* the sequence of its components, a command the sequence of its words.    *)
(***************************************************************************)
EXTENDS Naturals, Sequences, SequencesExt, FiniteSets

CONSTANTS
  Policies,         \* the policies a chain may be made of
  MaxPolicies,      \* bound: policies of a chain
  ToolCalls,        \* the tool calls
  MaxEvaluations    \* bound: calls the recorder decides

VARIABLES
  policies,         \* c.policies
  deciding,         \* decided, and not yet recorded
  returned,         \* the decisions handed back, one after another
  tally

policyVars == <<policies, deciding, returned, tally>>

None == <<"none">>     \* no path, no command

Allow == [allowed |-> TRUE, approval |-> FALSE, rule |-> ""]
Deny(rule) == [allowed |-> FALSE, approval |-> FALSE, rule |-> rule]
NeedsApproval(rule) == [allowed |-> TRUE, approval |-> TRUE, rule |-> rule]

\* A relative path is refused before it is compared.
Relative(path) == path # <<>> /\ Head(path) = "."
WithinRoots(roots, path) == \E r \in roots : IsPrefix(r, path)

\* firstToken skips the assignments before the command word.
FirstToken(command) ==
  LET words == SelectSeq(command, LAMBDA w : w # "assignment")
  IN IF words = <<>> THEN "" ELSE Head(words)

\* WorkspacePolicy.
Workspace(p, call) ==
  LET command == FirstToken(call.command)
      checked == call.path # None /\ p.roots # {} /\ ~p.outside
  IN IF checked /\ (Relative(call.path) \/ ~WithinRoots(p.roots, call.path))
       THEN Deny("workspace.path")
     ELSE IF call.command = None THEN Allow
     ELSE IF command \in p.dangerous THEN NeedsApproval("workspace.dangerous")
     ELSE IF p.requireApproval THEN NeedsApproval("workspace.approval")
     ELSE IF command \in p.allowed THEN Allow
     ELSE Deny("workspace.command")

\* AllowlistPolicy; its base is a set, of one workspace or of nothing.
TheOne(S) == CHOOSE p \in S : TRUE

Allowlist(p, call) ==
  IF call.tool \in p.denied THEN Deny("allowlist.denied")
  ELSE IF call.tool \notin p.tools THEN Deny("allowlist.tool")
  ELSE IF p.base = {} THEN Allow
  ELSE Workspace(TheOne(p.base), call)

Evaluate(p, call) ==
  CASE p.kind = "none"      -> Deny("none")
    [] p.kind = "allowlist" -> Allowlist(p, call)
    [] p.kind = "workspace" -> Workspace(p, call)

-----------------------------------------------------------------------------
(* The recorder: the base, a chain, decides without its lock.  A call that is being *)
(* decided has been before the first policies of the chain: next is the one it comes to. *)

Decide ==
  /\ Len(returned) + Len(deciding) < MaxEvaluations
  /\ \E call \in ToolCalls :
       deciding' = Append(deciding, [call |-> call, next |-> 1, decision |-> Allow])
  /\ UNCHANGED <<policies, returned, tally>>

\* mutant: the first answer that is not a plain permission is taken.
StopsAtApproval(d, current) ==
  IF current.allowed /\ ~current.approval
    THEN [d EXCEPT !.next = @ + 1]
    ELSE [d EXCEPT !.next = Len(policies) + 1, !.decision = current]

\* A refusal is returned at once; an approval is held back until all have agreed.
Heard(d, current) ==
  IF ~current.allowed
    THEN [d EXCEPT !.next = Len(policies) + 1, !.decision = current]
    ELSE [d EXCEPT !.next = @ + 1, !.decision = IF current.approval THEN current ELSE @]

\* One turn of the loop of Chain.Evaluate.
Consult ==
  /\ \E i \in DOMAIN deciding :
       LET d == deciding[i] IN
       /\ d.next <= Len(policies)
       /\ deciding' = [deciding EXCEPT ![i] = Heard(d, Evaluate(policies[d.next], d.call))]
  /\ UNCHANGED <<policies, returned, tally>>

RecordDecision ==
  /\ \E i \in DOMAIN deciding :
       LET d == deciding[i].decision
           counter == IF ~d.allowed THEN "denied" ELSE IF d.approval THEN "approval" ELSE "allowed"
       IN /\ deciding[i].next > Len(policies)
          /\ tally' = [tally EXCEPT ![counter] = @ + 1,
                                    !.byRule = IF d.rule = "" THEN @ ELSE Append(@, d.rule)]
          /\ returned' = Append(returned, deciding[i])
          /\ deciding' = RemoveAt(deciding, i)
  /\ UNCHANGED policies

PolicyInit ==
  /\ policies \in BoundedSeq(Policies, MaxPolicies)
  /\ deciding = <<>> /\ returned = <<>>
  /\ tally = [allowed |-> 0, denied |-> 0, approval |-> 0, byRule |-> <<>>]

PolicyNext == Decide \/ Consult \/ RecordDecision

PolicySpec == PolicyInit /\ [][PolicyNext]_policyVars

-----------------------------------------------------------------------------
(* Properties *)

\* The state is what the declarations of the chain and the recorder allow.
PolicyTypeOK ==
  /\ policies \in Seq(Policies)
  /\ \A d \in ToSet(deciding) \cup ToSet(returned) :
       d.call \in ToolCalls /\ d.decision.allowed \in BOOLEAN /\ d.decision.approval \in BOOLEAN
  /\ \A k \in {"allowed", "denied", "approval"} : tally[k] \in 0 .. MaxEvaluations

\* Whatever their order, policies compose to the strictest of them: a call runs when all of
\* them allow it, needs a human when one of them says so, and the rule named is of a policy
\* that decided so (policy.go:260-265, and the comment in Evaluate).
StrictestDecides ==
  \A d \in ToSet(returned) :
    LET answers == {Evaluate(policies[i], d.call) : i \in DOMAIN policies} IN
    /\ d.decision.allowed <=> \A a \in answers : a.allowed
    /\ d.decision.allowed => (d.decision.approval <=> \E a \in answers : a.approval)
    /\ d.decision = Allow \/ d.decision \in answers
=============================================================================
