------------------------------ MODULE McpClient ------------------------------
(***************************************************************************)
(* The client of one MCP server (internal/engine/mcp/client.go): callers   *)
(* that list its tools, call them, probe it and close it, the session they *)
(* share and the tools cached with it.                                     *)
(*                                                                         *)
(* A session is the number of its connection, and a list of tools is the   *)
(* session it was read over.  startMu is held over connecting and listing, *)
(* stateMu for one action at a time; calls and probes hold neither.        *)
(***************************************************************************)
EXTENDS Naturals, FiniteSets

CONSTANTS
  Users,        \* callers, each of one call
  Free,         \* nobody holds startMu
  MaxPages,     \* config.MaxToolPages
  MaxSessions   \* bound: connections

\* Nobody is a caller who holds no lock, and a list has a page.
ASSUME McpParameters == Free \notin Users /\ MaxSessions \in Nat /\ MaxPages \in Nat \ {0}

VARIABLES
  session,      \* c.session, 0 for nil
  toolList,        \* c.tools, 0 for nil
  startMu,
  opened,       \* connections made
  closed,       \* sessions a close of which was begun, once for each begin
  use           \* every caller: where it is, its call, its session, page and attempt

mcpVars == <<session, toolList, startMu, opened, closed, use>>

Sessions == 1 .. MaxSessions
IdleUse == [at |-> "idle", call |-> "none", over |-> 0, page |-> 0, attempt |-> 0, got |-> 0]
At(u, l) == use' = [use EXCEPT ![u].at = l]
Mine(u) == use[u].over

BeginUse(u) ==
  /\ use[u].at = "idle"
  /\ \E c \in {"tools", "refresh", "tool", "health", "close"} :
       use' = [use EXCEPT ![u].call = c,
                          ![u].at = CASE c = "tool" -> "ensure" [] c = "health" -> "probe"
                                      [] c = "close" -> "close" [] OTHER -> "discover"]
  /\ UNCHANGED <<session, toolList, startMu, opened, closed>>

\* ensureSession, for a tool that is called.
Ensure(u) ==
  /\ use[u].at = "ensure" /\ startMu = Free
  /\ IF session # 0
     THEN use' = [use EXCEPT ![u].at = "call", ![u].over = session] /\ UNCHANGED startMu
     ELSE At(u, "connect") /\ startMu' = u
  /\ UNCHANGED <<session, toolList, opened, closed>>

\* discover serves the cache, or lists over the session that is there or is made.
Discover(u) ==
  /\ use[u].at = "discover" /\ startMu = Free
  /\ \/ /\ session # 0 /\ toolList # 0 /\ use[u].call = "tools"
        /\ use' = [use EXCEPT ![u].at = "over", ![u].got = toolList]
        /\ UNCHANGED startMu
     \/ /\ session # 0 /\ (toolList = 0 \/ use[u].call = "refresh")
        /\ use' = [use EXCEPT ![u].at = "page", ![u].over = session]
        /\ startMu' = u
     \/ session = 0 /\ At(u, "connect") /\ startMu' = u
  /\ UNCHANGED <<session, toolList, opened, closed>>

\* mutant: the tools of the session before are kept.
ConnectOnly(u) ==
  /\ use[u].at = "connect"
  /\ \/ At(u, "over") /\ startMu' = Free /\ UNCHANGED <<session, toolList, opened>>
     \/ /\ opened < MaxSessions
        /\ opened' = opened + 1 /\ session' = opened' /\ UNCHANGED toolList
        /\ use' = [use EXCEPT ![u].at = IF use[u].call = "tool" THEN "call" ELSE "page",
                              ![u].over = opened']
        /\ startMu' = IF use[u].call = "tool" THEN Free ELSE u
  /\ UNCHANGED closed

Connect(u) ==
  /\ use[u].at = "connect"
  /\ \/ At(u, "over") /\ startMu' = Free /\ UNCHANGED <<session, toolList, opened>>
     \/ /\ opened < MaxSessions
        /\ opened' = opened + 1 /\ session' = opened' /\ toolList' = 0
        /\ use' = [use EXCEPT ![u].at = IF use[u].call = "tool" THEN "call" ELSE "page",
                              ![u].over = opened']
        /\ startMu' = IF use[u].call = "tool" THEN Free ELSE u
  /\ UNCHANGED closed

\* mutant: whoever saw the session fail closes it.
InvalidateAnyway(k) ==
  /\ session' = IF session = k THEN 0 ELSE session
  /\ toolList' = IF session = k THEN 0 ELSE toolList
  /\ closed' = [closed EXCEPT ![k] = @ + 1]

\* The one who finds the session still in place takes it out and closes it.
InvalidateSession(k) ==
  IF session = k
  THEN session' = 0 /\ toolList' = 0 /\ closed' = [closed EXCEPT ![k] = @ + 1]
  ELSE UNCHANGED <<session, toolList, closed>>

\* A page of tools: another follows, or it is the last, or it fails, or it holds what
\* discover refuses: a bad or a second name, a bad schema, a repeated cursor, a page
\* too many.
Page(u) ==
  /\ use[u].at = "page"
  /\ \/ /\ use[u].page + 1 < MaxPages
        /\ use' = [use EXCEPT ![u].page = @ + 1]
        /\ UNCHANGED <<session, toolList, closed, startMu>>
     \/ At(u, "store") /\ UNCHANGED <<session, toolList, closed, startMu>>
     \/ At(u, "over") /\ InvalidateSession(Mine(u)) /\ startMu' = Free
     \/ At(u, "over") /\ startMu' = Free /\ UNCHANGED <<session, toolList, closed>>
  /\ UNCHANGED opened

\* What was listed is stored, whatever became of the session.
Store(u) ==
  /\ use[u].at = "store"
  /\ toolList' = Mine(u)
  /\ use' = [use EXCEPT ![u].at = "over", ![u].got = Mine(u)]
  /\ startMu' = Free
  /\ UNCHANGED <<session, opened, closed>>

\* callTool: an error, also that of its own context, costs everybody the session, and
\* the call is made once more.
CallTool(u) ==
  /\ use[u].at = "call"
  /\ \/ At(u, "over") /\ UNCHANGED <<session, toolList, closed>>
     \/ /\ InvalidateSession(Mine(u))
        /\ use' = [use EXCEPT ![u].at = IF use[u].attempt = 0 THEN "ensure" ELSE "over",
                              ![u].attempt = 1, ![u].over = 0]
  /\ UNCHANGED <<startMu, opened>>

\* Health, and the ping it makes without a lock.
Probe(u) ==
  /\ use[u].at = "probe"
  /\ IF session = 0 THEN At(u, "over")
     ELSE use' = [use EXCEPT ![u].at = "ping", ![u].over = session]
  /\ UNCHANGED <<session, toolList, startMu, opened, closed>>

Ping(u) ==
  /\ use[u].at = "ping"
  /\ At(u, "over")
  /\ InvalidateSession(Mine(u)) \/ UNCHANGED <<session, toolList, closed>>
  /\ UNCHANGED <<startMu, opened>>

CloseClient(u) ==
  /\ use[u].at = "close" /\ startMu = Free
  /\ At(u, "over")
  /\ session' = 0 /\ toolList' = 0
  /\ closed' = IF session = 0 THEN closed ELSE [closed EXCEPT ![session] = @ + 1]
  /\ UNCHANGED <<startMu, opened>>

-----------------------------------------------------------------------------
McpInit ==
  /\ session = 0 /\ toolList = 0 /\ startMu = Free /\ opened = 0
  /\ closed = [k \in Sessions |-> 0]
  /\ use = [u \in Users |-> IdleUse]

McpNext == \E u \in Users :
  \/ BeginUse(u) \/ Ensure(u) \/ Discover(u) \/ Connect(u) \/ Page(u) \/ Store(u)
  \/ CallTool(u) \/ Probe(u) \/ Ping(u) \/ CloseClient(u)

McpSpec == McpInit /\ [][McpNext]_mcpVars

-----------------------------------------------------------------------------
(* Properties *)

\* The state is what the declarations of Client allow.
McpTypeOK ==
  /\ {session, toolList, opened} \subseteq 0 .. MaxSessions
  /\ startMu \in Users \cup {Free}
  /\ \A u \in Users : use[u].over \in 0 .. opened /\ use[u].page < MaxPages

\* The cache beside a session was listed over that session, although a list is stored
\* after the session it was read over may have been thrown away: no caller is served
\* the tools of a server that was replaced.
ToolsServed == session # 0 => toolList \in {0, session}

\* Every session that is not in use any more was closed, once, however many callers
\* saw it fail.
SessionsClosedOnce ==
  \A k \in 1 .. opened : closed[k] = IF k = session THEN 0 ELSE 1

\* A caller is not served the tools of a session that was replaced, and a session is
\* closed once (mcp/client.go).
ToolsOfTheSession == ToolsServed /\ SessionsClosedOnce
=============================================================================
