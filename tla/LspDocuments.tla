----------------------------- MODULE LspDocuments -----------------------------
(***************************************************************************)
(* The tools over the language server (internal/engine/lsp/tools.go): what *)
(* the pool remembers of the documents it opened, what the server of the   *)
(* moment was told of them, and the questions of the tools.                *)
(*                                                                         *)
(* The client underneath is LspClient; here it is a server that dies, is   *)
(* noticed dead and is launched again, and a writer that outlives it.      *)
(***************************************************************************)
EXTENDS Naturals, FiniteSets

CONSTANTS
  DocUsers,     \* calls of the tools, of Open and of CloseDocument
  Docs,
  MaxOpens,     \* bound: calls of Open
  MaxServers    \* bound: servers launched

VARIABLES
  openDocs,     \* p.open: the version of each document, 0 when it is not there
  opens,
  docServers,   \* servers launched
  serverHeld,   \* c.process is set
  serverUp,     \* the last server lives
  givenDocs,    \* the version of each document the server has, 0 for none
  docUser

docVars == <<openDocs, opens, docServers, serverHeld, serverUp, givenDocs, docUser>>

FirstDocumentVersion == 1
Absent == [version |-> 0, since |-> 0]
AtRest == [at |-> "rest"]

DocGoto(c, l) == docUser' = [docUser EXCEPT ![c].at = l]
DocOver(c) == docUser' = [docUser EXCEPT ![c] = AtRest]

-----------------------------------------------------------------------------
(* The section of openMu a call begins with *)

\* mutant: the version is read when the server is told.
OpenUnread(c, asks, d) ==
  LET document == IF openDocs[d] = Absent
                  THEN [version |-> FirstDocumentVersion, since |-> opens + 1]
                  ELSE [openDocs[d] EXCEPT !.version = @ + 1]
  IN /\ docUser[c] = AtRest /\ opens < MaxOpens
     /\ opens' = opens + 1
     /\ openDocs' = [openDocs EXCEPT ![d] = document]
     /\ docUser' = [docUser EXCEPT ![c] =
          [at |-> "ensure", doc |-> d, asks |-> asks, existed |-> openDocs[d] # Absent,
           version |-> FirstDocumentVersion, since |-> document.since, saw |-> 0]]
     /\ UNCHANGED <<docServers, serverHeld, serverUp, givenDocs>>

\* Open, of its own or for a question that brings the contents: the document is
\* remembered, and its version raised, before the server is told.
OpenDocument(c, asks, d) ==
  LET document == IF openDocs[d] = Absent
                  THEN [version |-> FirstDocumentVersion, since |-> opens + 1]
                  ELSE [openDocs[d] EXCEPT !.version = @ + 1]
  IN /\ docUser[c] = AtRest /\ opens < MaxOpens
     /\ opens' = opens + 1
     /\ openDocs' = [openDocs EXCEPT ![d] = document]
     /\ docUser' = [docUser EXCEPT ![c] =
          [at |-> "ensure", doc |-> d, asks |-> asks, existed |-> openDocs[d] # Absent,
           version |-> document.version, since |-> document.since, saw |-> 0]]
     /\ UNCHANGED <<docServers, serverHeld, serverUp, givenDocs>>

\* resolve without contents: the document must have been opened.
Resolve(c, d) ==
  /\ docUser[c] = AtRest /\ openDocs[d].version # 0
  /\ docUser' = [docUser EXCEPT ![c] =
       [at |-> "supports", doc |-> d, asks |-> TRUE, existed |-> TRUE,
        version |-> openDocs[d].version, since |-> openDocs[d].since, saw |-> 0]]
  /\ UNCHANGED <<openDocs, opens, docServers, serverHeld, serverUp, givenDocs>>

CloseDocument(c, d) ==
  /\ docUser[c] = AtRest
  /\ openDocs' = [openDocs EXCEPT ![d] = Absent]
  /\ docUser' = [docUser EXCEPT ![c] =
       [at |-> "close", doc |-> d, asks |-> FALSE, existed |-> FALSE,
        version |-> 0, since |-> 0, saw |-> 0]]
  /\ UNCHANGED <<opens, docServers, serverHeld, serverUp, givenDocs>>

-----------------------------------------------------------------------------
(* What follows, outside of it *)

\* Ensure: a server that is held is taken for running.
EnsureDocServer(c, next) ==
  \/ /\ (serverHeld /\ DocGoto(c, next)) \/ (~serverHeld /\ DocOver(c))
     /\ UNCHANGED <<docServers, serverHeld, serverUp, givenDocs>>
  \/ /\ ~serverHeld /\ docServers < MaxServers
     /\ docServers' = docServers + 1 /\ serverHeld' = TRUE /\ serverUp' = TRUE
     /\ givenDocs' = [d \in Docs |-> 0]
     /\ DocGoto(c, next)

EnsureToTell(c) ==
  /\ docUser[c].at = "ensure"
  /\ EnsureDocServer(c, "tell")
  /\ UNCHANGED <<openDocs, opens>>

\* didOpen or didChange, whole texts both.  A server takes a change of a document it
\* has; written to one that died, the notification is lost or fails.
Tell(c) ==
  LET t == docUser[c] IN
  /\ t.at = "tell"
  /\ givenDocs' = IF serverUp /\ (t.existed => givenDocs[t.doc] # 0)
                  THEN [givenDocs EXCEPT ![t.doc] = t.version] ELSE givenDocs
  /\ \/ t.asks /\ DocGoto(c, "supports")
     \/ (t.asks => ~serverUp) /\ DocOver(c)
  /\ UNCHANGED <<openDocs, opens, docServers, serverHeld, serverUp>>

TellClosed(c) ==
  LET t == docUser[c] IN
  /\ t.at = "close"
  /\ givenDocs' = IF serverHeld /\ serverUp
                  THEN [givenDocs EXCEPT ![t.doc] = 0] ELSE givenDocs
  /\ DocOver(c)
  /\ UNCHANGED <<openDocs, opens, docServers, serverHeld, serverUp>>

\* The four tools that ask, all in the same steps: what the last server said it supports,
\* nothing before the first; then Request, which makes sure of a server again.
Supports(c) ==
  /\ docUser[c].at = "supports"
  /\ (docServers > 0 /\ DocGoto(c, "request")) \/ DocOver(c)
  /\ UNCHANGED <<openDocs, opens, docServers, serverHeld, serverUp, givenDocs>>

EnsureToAsk(c) ==
  /\ docUser[c].at = "request"
  /\ EnsureDocServer(c, "ask")
  /\ UNCHANGED <<openDocs, opens>>

AskAbout(c) ==
  /\ docUser[c].at = "ask"
  /\ IF serverUp
     THEN docUser' = [docUser EXCEPT ![c].at = "asked",
                                     ![c].saw = givenDocs[docUser[c].doc]]
     ELSE DocOver(c)
  /\ UNCHANGED <<openDocs, opens, docServers, serverHeld, serverUp, givenDocs>>

Answered(c) ==
  /\ docUser[c].at = "asked"
  /\ DocOver(c)
  /\ UNCHANGED <<openDocs, opens, docServers, serverHeld, serverUp, givenDocs>>

-----------------------------------------------------------------------------
(* The server *)

DocServerEnds ==
  /\ serverUp /\ serverUp' = FALSE
  /\ UNCHANGED <<openDocs, opens, docServers, serverHeld, givenDocs, docUser>>

\* The reader ends and the client lets go of the server; the pool hears nothing of it.
DocServerNoticed ==
  /\ ~serverUp /\ serverHeld /\ serverHeld' = FALSE
  /\ UNCHANGED <<openDocs, opens, docServers, serverUp, givenDocs, docUser>>

DocInit ==
  /\ openDocs = [d \in Docs |-> Absent] /\ opens = 0
  /\ docServers = 0 /\ serverHeld = FALSE /\ serverUp = FALSE
  /\ givenDocs = [d \in Docs |-> 0]
  /\ docUser = [c \in DocUsers |-> AtRest]

DocNext ==
  \/ \E c \in DocUsers, d \in Docs :
       \/ \E asks \in BOOLEAN : OpenDocument(c, asks, d)
       \/ Resolve(c, d) \/ CloseDocument(c, d)
  \/ \E c \in DocUsers :
       \/ EnsureToTell(c) \/ Tell(c) \/ TellClosed(c) \/ Supports(c)
       \/ EnsureToAsk(c) \/ AskAbout(c) \/ Answered(c)
  \/ DocServerEnds \/ DocServerNoticed

DocSpec == DocInit /\ [][DocNext]_docVars

-----------------------------------------------------------------------------
(* Properties *)

\* The state is what the declarations of the pool allow.
DocTypeOK ==
  /\ openDocs \in [Docs -> [version : 0 .. MaxOpens, since : 0 .. MaxOpens]]
  /\ opens \in 0 .. MaxOpens /\ docServers \in 0 .. MaxServers
  /\ serverHeld \in BOOLEAN /\ serverUp \in BOOLEAN
  /\ givenDocs \in [Docs -> 0 .. MaxOpens]
  /\ \A c \in DocUsers :
       docUser[c].at \in {"rest", "ensure", "tell", "close", "supports", "request", "ask",
                          "asked"}

\* A caller with a text to tell.
Telling(c) == docUser[c].at = "ensure" \/ docUser[c].at = "tell"

\* However the callers interleave, the texts of one document are told under different
\* versions, and one of them opens it.
VersionsOnce ==
  \A b \in DocUsers : Telling(b) => \A c \in DocUsers \ {b} :
    Telling(c) /\ docUser[b].doc = docUser[c].doc /\ docUser[b].since = docUser[c].since
    => /\ docUser[b].version # docUser[c].version
       /\ docUser[b].existed \/ docUser[c].existed

\* "every question needs [Open]: a server answers about a document it has been given"
\* (tools.go:69-70): a question that is written is about a document its server has.
\* It does not hold: Open remembers the document before the server is told, and a server
\* that replaces another is not told at all.
AskedAboutGiven == \A c \in DocUsers : docUser[c].at = "asked" => docUser[c].saw # 0
=============================================================================
