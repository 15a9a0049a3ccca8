------------------------------ MODULE LspClient ------------------------------
(***************************************************************************)
(* The language server client of internal/engine/lsp/client.go: callers    *)
(* that ask, stop and restart, the servers they launch one after another,  *)
(* and the reader goroutine each server leaves behind.                     *)
(*                                                                         *)
(* A server is the number of its launch.  One lock guards all of the       *)
(* client; what a caller does between two of its sections is where others  *)
(* may run, so every section is one action.                                *)
(***************************************************************************)
EXTENDS Naturals, FiniteSets

CONSTANTS
  Askers,       \* calls of Request, Stop and Restart
  Nil,          \* nil
  MayCrash,     \* servers also end on their own
  MaxRestarts,  \* config.MaxRestarts
  MaxLaunches   \* bound: servers launched

VARIABLES
  lspProcess, lspWriter,  \* c.process and c.writer, 0 for nil
  initialized, starting, lspStopped, restarts,
  crashed,                \* c.crash is set
  retried,                \* c.retriedMethods; all questions are of one method
  generation,
  pending,                \* c.pending: the callers that wait, by identifier
  nextID,
  launches, alive,        \* servers launched, and those that still run
  reader,                 \* where the read loop of each server is
  wire,                   \* questions on their way: answered by nobody yet
  place, lspCall,         \* where each caller is, and in which call
  retrying,               \* 0, 1 between the mark and the second question, 2 in it
  attempts,               \* handshakes that failed in this start
  waiter,                 \* what each caller waits for
  asked                   \* how often each caller's question was written

lspClient == <<lspProcess, lspWriter, initialized, starting, lspStopped, restarts,
               crashed, retried, generation, pending, nextID>>
lspServer == <<launches, alive, reader, wire>>
lspCaller == <<place, lspCall, retrying, attempts, waiter, asked>>
lspVars   == <<lspClient, lspServer, lspCaller>>

Servers == 1 .. MaxLaunches
GoesTo(a, l) == place' = [place EXCEPT ![a] = l]

Starting == {"backoff", "launch", "count", "hello", "shake", "greet", "ready",
             "abandon", "spend", "started", "failed"}
AskerPlaces == {"rest", "ensure", "register", "wait", "mark", "clear", "respend", "over"}
                 \cup Starting

\* A question is told from another by who asks it, in which attempt, and whether
\* it is the handshake.
Question(a) ==
  [from |-> a, hello |-> place[a] = "hello", attempt |-> attempts[a] + retrying[a]]
NoWaiter == [question |-> Nil, answer |-> Nil, done |-> FALSE]

-----------------------------------------------------------------------------
(* Calls *)

\* Whether there is a context to be cancelled makes no difference: a caller may
\* always fail where it waits.
RequestAnswer(a) ==
  /\ place[a] = "rest"
  /\ GoesTo(a, "ensure")
  /\ lspCall' = [lspCall EXCEPT ![a] = "request"]
  /\ UNCHANGED <<lspClient, lspServer, retrying, attempts, waiter, asked>>

\* Stop, which Restart begins with too: its section, and the server it took is closed.
\* It waits for the reader two seconds at most, so it need not have ended.
StopClient(a) ==
  /\ place[a] = "rest"
  /\ \E o \in {"stop", "restart"} :
       /\ lspCall' = [lspCall EXCEPT ![a] = o]
       /\ GoesTo(a, IF o = "stop" THEN "over" ELSE "respend")
  /\ IF lspStopped /\ lspProcess = 0 THEN UNCHANGED <<lspStopped, lspProcess,
                                                      initialized, alive>>
     ELSE /\ lspStopped' = TRUE /\ lspProcess' = 0 /\ initialized' = FALSE
          /\ alive' = alive \ {lspProcess}
  /\ UNCHANGED <<lspWriter, starting, restarts, crashed, retried, generation, pending,
                 nextID, launches, reader, wire, retrying, attempts, waiter, asked>>

RestartClient(a) ==
  /\ place[a] = "respend"
  /\ IF restarts >= MaxRestarts
     THEN GoesTo(a, "over") /\ UNCHANGED <<restarts, lspStopped>>
     ELSE /\ restarts' = restarts + 1 /\ lspStopped' = FALSE
          /\ GoesTo(a, "ensure")
  /\ UNCHANGED <<lspProcess, lspWriter, initialized, starting, crashed, retried,
                 generation, pending, nextID, lspServer, lspCall, retrying, attempts,
                 waiter, asked>>

\* Ensure succeeded: the question follows, or Ensure itself was the first of the two
\* calls a retry makes of it, or there is no question.
Ensured(a) ==
  /\ GoesTo(a, IF lspCall[a] = "restart" THEN "over"
             ELSE IF retrying[a] = 1 THEN "ensure" ELSE "register")
  /\ retrying' = [retrying EXCEPT ![a] = IF @ = 1 THEN 2 ELSE @]

\* The call is over; a second question takes its mark away.
GiveUp(a) == GoesTo(a, IF retrying[a] = 2 THEN "clear" ELSE "over")

EnsureServer(a) ==
  /\ place[a] = "ensure"
  /\ \/ /\ lspProcess # 0
        /\ Ensured(a)
        /\ UNCHANGED <<starting, restarts>>
     \/ /\ lspProcess = 0
        /\ lspStopped \/ starting \/ (crashed /\ restarts >= MaxRestarts)
        /\ GiveUp(a)
        /\ UNCHANGED <<starting, restarts, retrying>>
     \/ /\ lspProcess = 0 /\ ~lspStopped /\ ~starting
        /\ crashed => restarts < MaxRestarts
        /\ starting' = TRUE
        /\ restarts' = restarts + (IF crashed THEN 1 ELSE 0)
        /\ GoesTo(a, IF restarts' > 1 /\ crashed THEN "backoff" ELSE "launch")
        /\ UNCHANGED retrying
  /\ UNCHANGED <<lspProcess, lspWriter, initialized, lspStopped, crashed, retried,
                 generation, pending, nextID, lspServer, lspCall, attempts, waiter,
                 asked>>

-----------------------------------------------------------------------------
(* Starting a server, under the starting flag *)

Backoff(a) ==
  /\ place[a] = "backoff"
  /\ GoesTo(a, "launch") \/ GoesTo(a, "failed")
  /\ UNCHANGED <<lspClient, lspServer, lspCall, retrying, attempts, waiter, asked>>

\* The starter fails, or the first section publishes the server.  Callers that
\* waited for another one are dropped and not told.
Launch(a) ==
  /\ place[a] = "launch"
  /\ \/ GoesTo(a, "abandon") /\ UNCHANGED <<lspProcess, lspWriter, initialized, pending,
                                            launches, alive>>
     \/ /\ launches < MaxLaunches
        /\ launches' = launches + 1
        /\ alive' = alive \cup {launches'}
        /\ lspProcess' = launches' /\ lspWriter' = launches'
        /\ initialized' = FALSE
        /\ pending' = {}
        /\ GoesTo(a, "count")
  /\ UNCHANGED <<starting, lspStopped, restarts, crashed, retried, generation, nextID,
                 reader, wire, lspCall, retrying, attempts, waiter, asked>>

\* mutant: identifiers begin again with every server.
CountAnew(a) ==
  /\ place[a] = "count"
  /\ generation' = generation + 1
  /\ nextID' = 0
  /\ reader' = [reader EXCEPT ![launches] = "reading"]
  /\ GoesTo(a, "hello")
  /\ UNCHANGED <<lspProcess, lspWriter, initialized, starting, lspStopped, restarts,
                 crashed, retried, pending, launches, alive, wire, lspCall, retrying,
                 attempts, waiter, asked>>

\* The second section counts it, and its reader starts.
CountServer(a) ==
  /\ place[a] = "count"
  /\ generation' = generation + 1
  /\ reader' = [reader EXCEPT ![launches] = "reading"]
  /\ GoesTo(a, "hello")
  /\ UNCHANGED <<lspProcess, lspWriter, initialized, starting, lspStopped, restarts,
                 crashed, retried, pending, nextID, launches, alive, wire, lspCall,
                 retrying, attempts, waiter, asked>>

\* exchangeRaw makes a waiter and writes the question, which a server that has gone
\* does not see.
RegisterWaiter(a, l) ==
  /\ nextID' = nextID + 1
  /\ pending' = pending \cup {[id |-> nextID', from |-> a]}
  /\ waiter' = [waiter EXCEPT ![a] = [NoWaiter EXCEPT !.question = Question(a)]]
  /\ wire' = wire \cup {[server |-> k, id |-> nextID', question |-> Question(a)] :
                          k \in alive \cap {lspWriter}}
  /\ GoesTo(a, l)

\* The handshake asks Ensure too, which fails if the server went away already, as
\* its own start is under way.
Hello(a) ==
  /\ place[a] = "hello"
  /\ \/ lspProcess = 0 /\ GoesTo(a, "abandon") /\ UNCHANGED <<pending, nextID, waiter,
                                                              wire>>
     \/ lspProcess # 0 /\ RegisterWaiter(a, "shake")
  /\ UNCHANGED <<lspProcess, lspWriter, initialized, starting, lspStopped, restarts,
                 crashed, retried, generation, launches, alive, reader, lspCall,
                 retrying, attempts, asked>>

\* The notification that ends the handshake, which may be written to a server that
\* has gone.
Greet(a) ==
  /\ place[a] = "greet"
  /\ GoesTo(a, "ready") \/ GoesTo(a, "abandon")
  /\ UNCHANGED <<lspClient, lspServer, lspCall, retrying, attempts, waiter, asked>>

Ready(a) ==
  /\ place[a] = "ready"
  /\ initialized' = TRUE
  /\ GoesTo(a, "started")
  /\ UNCHANGED <<lspProcess, lspWriter, starting, lspStopped, restarts, crashed, retried,
                 generation, pending, nextID, launches, alive, reader, wire, lspCall,
                 retrying, attempts, waiter, asked>>

Abandon(a) ==
  /\ place[a] = "abandon"
  /\ alive' = alive \ {lspProcess}
  /\ lspProcess' = 0 /\ lspWriter' = 0 /\ initialized' = FALSE
  /\ attempts' = [attempts EXCEPT ![a] = @ + 1]
  /\ GoesTo(a, "spend")
  /\ UNCHANGED <<starting, lspStopped, restarts, crashed, retried, generation, pending,
                 nextID, launches, reader, wire, lspCall, retrying, waiter, asked>>

\* One more attempt, if a death was observed; the error a crash holds is never the
\* one of a handshake that ran out of time.  The pause before it may be cut short.
Spend(a) ==
  /\ place[a] = "spend"
  /\ IF attempts[a] > 1 \/ ~crashed \/ restarts >= MaxRestarts
     THEN GoesTo(a, "failed") /\ UNCHANGED restarts
     ELSE restarts' = restarts + 1 /\ (GoesTo(a, "launch") \/ GoesTo(a, "failed"))
  /\ UNCHANGED <<lspProcess, lspWriter, initialized, starting, lspStopped, crashed,
                 retried, generation, pending, nextID, lspServer, lspCall, retrying,
                 attempts, waiter, asked>>

Started(a) ==
  /\ place[a] \in {"started", "failed"}
  /\ starting' = FALSE
  /\ attempts' = [attempts EXCEPT ![a] = 0]
  /\ IF place[a] = "started" THEN Ensured(a) ELSE GiveUp(a) /\ UNCHANGED retrying
  /\ UNCHANGED <<lspProcess, lspWriter, initialized, lspStopped, restarts, crashed,
                 retried, generation, pending, nextID, lspServer, lspCall, waiter,
                 asked>>

-----------------------------------------------------------------------------
(* Asking *)

AskServer(a) ==
  /\ place[a] = "register"
  /\ \/ ~initialized /\ GiveUp(a) /\ UNCHANGED <<pending, nextID, waiter, wire, asked>>
     \/ initialized /\ RegisterWaiter(a, "wait") /\ asked' = [asked EXCEPT ![a] = @ + 1]
  /\ UNCHANGED <<lspProcess, lspWriter, initialized, starting, lspStopped, restarts,
                 crashed, retried, generation, launches, alive, reader, lspCall,
                 retrying, attempts>>

ForgetWaiter(a) ==
  /\ pending' = {p \in pending : p.from # a}
  /\ waiter' = [waiter EXCEPT ![a] = NoWaiter]

\* The four ways a wait ends.  An answer closes done as well, so that both may be
\* ready; the answer may be an error.
WaitEnds(a) ==
  /\ place[a] \in {"wait", "shake"}
  /\ ForgetWaiter(a)
  /\ \/ /\ waiter[a].answer # Nil
        /\ IF place[a] = "wait" THEN GiveUp(a)
           ELSE GoesTo(a, "greet") \/ GoesTo(a, "abandon")
     \/ /\ waiter[a].done
        /\ GoesTo(a, IF place[a] = "wait" THEN "mark" ELSE "abandon")
     \/ GoesTo(a, IF place[a] = "wait" THEN "mark" ELSE "abandon")     \* the timer
     \/ IF place[a] = "wait" THEN GiveUp(a) ELSE GoesTo(a, "abandon")  \* the context
  /\ UNCHANGED <<lspProcess, lspWriter, initialized, starting, lspStopped, restarts,
                 crashed, retried, generation, nextID, lspServer, lspCall, retrying,
                 attempts, asked>>

\* mutant: the mark is set and not looked at.
MarkAnyway(a) ==
  /\ place[a] = "mark"
  /\ retried' = TRUE
  /\ IF lspStopped THEN GoesTo(a, "over") /\ UNCHANGED retrying
     ELSE GoesTo(a, "ensure") /\ retrying' = [retrying EXCEPT ![a] = 1]
  /\ UNCHANGED <<lspProcess, lspWriter, initialized, starting, lspStopped, restarts,
                 crashed, generation, pending, nextID, lspServer, lspCall, attempts,
                 waiter, asked>>

\* retryAfterCrash, up to its Ensure.  A caller that finds the client stopped leaves
\* the mark behind, and so does one whose Ensure fails.
MarkRetry(a) ==
  /\ place[a] = "mark"
  /\ retried' = TRUE
  /\ IF retried THEN GiveUp(a) /\ UNCHANGED retrying
     ELSE IF lspStopped THEN GoesTo(a, "over") /\ UNCHANGED retrying
     ELSE GoesTo(a, "ensure") /\ retrying' = [retrying EXCEPT ![a] = 1]
  /\ UNCHANGED <<lspProcess, lspWriter, initialized, starting, lspStopped, restarts,
                 crashed, generation, pending, nextID, lspServer, lspCall, attempts,
                 waiter, asked>>

ClearRetry(a) ==
  /\ place[a] = "clear"
  /\ retried' = FALSE
  /\ GoesTo(a, "over")
  /\ UNCHANGED <<lspProcess, lspWriter, initialized, starting, lspStopped, restarts,
                 crashed, generation, pending, nextID, lspServer, lspCall, retrying,
                 attempts, waiter, asked>>

-----------------------------------------------------------------------------
(* Servers and their readers *)

EndServer(k) ==
  /\ k \in alive
  /\ alive' = alive \ {k}
  /\ UNCHANGED <<lspClient, launches, reader, wire, lspCaller>>

CrashServer(k) == MayCrash /\ EndServer(k)

\* Every starter of internal/engine/sandbox binds a server to the context it is started
\* under (exec.CommandContext), and startOnce cancels that one when it returns.
KillServer(k) ==
  /\ k = launches =>
       \A a \in Askers : place[a] \notin {"count", "hello", "shake", "greet"}
  /\ EndServer(k)

\* The reader hands an answer to whoever waits under its identifier.
DeliverAnswer(k) ==
  /\ reader[k] = "reading"
  /\ \E q \in wire :
       /\ q.server = k
       /\ wire' = wire \ {q}
       /\ pending' = {p \in pending : p.id # q.id}
       /\ waiter' = [a \in Askers |->
                       IF [id |-> q.id, from |-> a] \in pending
                       THEN [waiter[a] EXCEPT !.answer = q.question, !.done = TRUE]
                       ELSE waiter[a]]
  /\ UNCHANGED <<lspProcess, lspWriter, initialized, starting, lspStopped, restarts,
                 crashed, retried, generation, nextID, launches, alive, reader, place,
                 lspCall, retrying, attempts, asked>>

\* The stream ends, or cannot be read on: recordCrash.
NoticeEnd(k) ==
  /\ reader[k] = "reading"
  /\ reader' = [reader EXCEPT ![k] = "ended"]
  /\ wire' = {q \in wire : q.server # k}
  /\ crashed' = (crashed \/ ~lspStopped)
  /\ UNCHANGED <<lspProcess, lspWriter, initialized, starting, lspStopped, restarts,
                 retried, generation, pending, nextID, launches, alive, lspCaller>>

\* teardownGeneration, and the waiters it found are told.
TeardownServer(k) ==
  /\ reader[k] = "ended"
  /\ reader' = [reader EXCEPT ![k] = "over"]
  /\ IF k = generation
     THEN /\ waiter' = [a \in Askers |->
                          [waiter[a] EXCEPT !.done = @ \/ \E p \in pending : p.from = a]]
          /\ pending' = {} /\ initialized' = FALSE /\ lspProcess' = 0
     ELSE UNCHANGED <<waiter, pending, initialized, lspProcess>>
  /\ UNCHANGED <<lspWriter, starting, lspStopped, restarts, crashed, retried, generation,
                 nextID, launches, alive, wire, place, lspCall, retrying, attempts,
                 asked>>

-----------------------------------------------------------------------------
LspInit ==
  /\ lspProcess = 0 /\ lspWriter = 0 /\ restarts = 0 /\ generation = 0 /\ nextID = 0
  /\ initialized = FALSE /\ starting = FALSE /\ lspStopped = FALSE
  /\ crashed = FALSE /\ retried = FALSE
  /\ pending = {} /\ launches = 0 /\ alive = {} /\ wire = {}
  /\ reader = [k \in Servers |-> "none"]
  /\ place = [a \in Askers |-> "rest"]
  /\ lspCall = [a \in Askers |-> "none"]
  /\ retrying = [a \in Askers |-> 0]
  /\ attempts = [a \in Askers |-> 0]
  /\ waiter = [a \in Askers |-> NoWaiter]
  /\ asked = [a \in Askers |-> 0]

AskerStep(a) ==
  \/ RestartClient(a) \/ EnsureServer(a) \/ Backoff(a) \/ Launch(a) \/ CountServer(a)
  \/ Hello(a) \/ Greet(a) \/ Ready(a) \/ Abandon(a) \/ Spend(a) \/ Started(a)
  \/ AskServer(a) \/ WaitEnds(a) \/ MarkRetry(a) \/ ClearRetry(a)

LspNext ==
  \/ \E a \in Askers : RequestAnswer(a) \/ StopClient(a) \/ AskerStep(a)
  \/ \E k \in Servers :
       \/ KillServer(k) \/ CrashServer(k)
       \/ DeliverAnswer(k) \/ NoticeEnd(k) \/ TeardownServer(k)

LspSpec == LspInit /\ [][LspNext]_lspVars

-----------------------------------------------------------------------------
(* Properties *)

\* The state is what the declarations of Client allow.
LspTypeOK ==
  /\ lspProcess \in 0 .. launches /\ lspWriter \in 0 .. launches
  /\ launches \in 0 .. MaxLaunches
  /\ {initialized, starting, lspStopped, crashed, retried} \subseteq BOOLEAN
  /\ restarts \in 0 .. MaxRestarts
  /\ generation \in 0 .. launches /\ nextID \in Nat
  /\ \A p \in pending : p.id \in 1 .. nextID /\ p.from \in Askers
  /\ alive \subseteq 1 .. launches
  /\ reader \in [Servers -> {"none", "reading", "ended", "over"}]
  /\ \A q \in wire : q.server \in 1 .. launches /\ q.id \in 1 .. nextID
  /\ place \in [Askers -> AskerPlaces]
  /\ lspCall \in [Askers -> {"none", "request", "stop", "restart"}]
  /\ retrying \in [Askers -> 0 .. 2] /\ attempts \in [Askers -> 0 .. 2]

\* An answer goes to the question it was given to, through restarts, retries and the
\* late answers of servers that were replaced.
AnswersMatch ==
  \A a \in Askers : waiter[a].answer # Nil => waiter[a].answer = waiter[a].question

\* "a question is asked twice at most" (client.go:133), however many callers share the
\* mark of its method and however often the server dies.
AskedTwice == \A a \in Askers : asked[a] <= 2

\* The flag lets one caller start a server at a time, through failed handshakes, stops
\* and restarts.
OneStart ==
  \A a \in Askers :
    place[a] \in Starting => \A b \in Askers \ {a} : place[b] \notin Starting

\* "StartTimeout bounds the initialize handshake" (client.go:47), and is over with it:
\* where no server ends on its own, the one that came through its handshake and is held
\* runs until it is let go.
HeldServerRuns == initialized /\ lspProcess # 0 => lspProcess \in alive
=============================================================================
