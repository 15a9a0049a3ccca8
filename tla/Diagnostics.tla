------------------------------ MODULE Diagnostics -----------------------------
(***************************************************************************)
(* The diagnostics a language server pushes (DiagnosticStore), and their   *)
(* two readers: the injector, which adds them to a request within a        *)
(* budget, and the tool that reports them (internal/engine/lsp).           *)
(*                                                                         *)
(* A diagnostic is its severity, 1 for an error to 4 for a hint, and 0 for *)
(* one the server did not rank.  The store is locked for one document at a *)
(* time, so pushes come between the documents of one report.               *)
(***************************************************************************)
EXTENDS Naturals, Sequences, SequencesExt, FiniteSets

CONSTANTS
  Docs,          \* integers, for URIs are sorted
  Reports,       \* the lists a server may push
  Asked,         \* the severities a reader may ask for
  MaxProblems    \* d.maxProblems

VARIABLES
  store,
  paths, severities, lastCount,   \* the injector's
  reading                         \* the report being put together

vars == <<store, paths, severities, lastCount, reading>>

SeverityError == 1
None == [by |-> "none"]

Lowest(S) == CHOOSE k \in S : \A l \in S : k <= l
Total(files) == FoldLeft(LAMBDA n, f : n + Len(f.items), 0, files)
URIs == SetToSortSeq({d \in Docs : store[d] # <<>>}, <)

\* Publish, a full list that replaces the one before; an empty one deletes.
Publish ==
  /\ \E d \in Docs, r \in Reports : store' = [store EXCEPT ![d] = r] /\ store' # store
  /\ UNCHANGED <<paths, severities, lastCount, reading>>

SetPaths ==
  /\ \E p \in {<<>>} \cup {<<d>> : d \in Docs} : paths' = p /\ paths' # paths
  /\ UNCHANGED <<store, severities, lastCount, reading>>

SetSeverities ==
  /\ \E s \in SUBSET Asked : severities' = s /\ severities' # severities
  /\ UNCHANGED <<store, paths, lastCount, reading>>

-----------------------------------------------------------------------------
(* What is kept *)

\* filterDiagnostics: the worst of the severities and SeverityError is the limit.
FilterDiagnostics(items, wanted) ==
  IF wanted = {} THEN items
  ELSE LET worst == Lowest(wanted \cup {SeverityError})
       IN SelectSeq(items, LAMBDA s : s = 0 \/ s <= worst)

\* filterBySeverity, which finds no severity in the line of an unranked one and takes
\* it for an error.
FilterBySeverity(items, wanted) ==
  IF wanted = {} THEN items ELSE SelectSeq(items, LAMBDA s : s <= Lowest(wanted))

\* mutant: the budget is filled from the first file.
SpreadFilled(files) ==
  FoldLeft(LAMBDA out, f :
             LET room == MaxProblems - Total(out) IN
             IF room = 0 THEN out
             ELSE Append(out, [f EXCEPT !.items = IF Len(@) > room THEN SubSeq(@, 1, room) ELSE @]),
           <<>>, files)

\* The budget spread over the files, one of each at least.
Spread(files) ==
  LET share == IF MaxProblems \div Len(files) = 0 THEN 1 ELSE MaxProblems \div Len(files)
  IN IF Total(files) <= MaxProblems THEN files
     ELSE [i \in DOMAIN files |->
             [files[i] EXCEPT !.items = IF Len(@) > share THEN SubSeq(@, 1, share) ELSE @]]

-----------------------------------------------------------------------------
(* Reports *)

\* Inject copies its configuration, and has the documents listed.
Inject ==
  /\ reading.by = "none"
  /\ reading' = [by |-> "inject", wanted |-> severities,
                 left |-> IF paths = <<>> THEN URIs ELSE paths, found |-> <<>>, said |-> <<>>]
  /\ UNCHANGED <<store, paths, severities, lastCount>>

ReadDocument ==
  /\ reading.by = "inject" /\ reading.left # <<>>
  /\ LET d == Head(reading.left)
         items == FilterDiagnostics(store[d], reading.wanted)
     IN reading' = [reading EXCEPT !.left = Tail(@),
          !.found = IF items = <<>> THEN @ ELSE Append(@, [doc |-> d, items |-> items])]
  /\ UNCHANGED <<store, paths, severities, lastCount>>

\* The rest of Inject, and the request the hook made of it; no message if nothing was
\* found.
Say ==
  /\ reading.by = "inject" /\ reading.left = <<>>
  /\ LET said == IF reading.found = <<>> THEN <<>> ELSE Spread(reading.found)
     IN /\ reading' = [reading EXCEPT !.by = "injected", !.said = said]
        /\ lastCount' = Total(said)
  /\ UNCHANGED <<store, paths, severities>>

\* The tool: For and Count of a document are two sections, and the total the report is
\* headed by is what was counted.
Report ==
  /\ reading.by = "none"
  /\ \E l \in {URIs} \cup {<<d>> : d \in Docs}, w \in {{}} \cup {{s} : s \in Asked} :
       reading' = [by |-> "tool", wanted |-> w, left |-> l, found |-> <<>>, total |-> 0,
                   counted |-> TRUE]
  /\ UNCHANGED <<store, paths, severities, lastCount>>

ReportDocument ==
  /\ reading.by = "tool" /\ reading.left # <<>> /\ reading.counted
  /\ reading' = [reading EXCEPT !.found = @ \o store[Head(reading.left)], !.counted = FALSE]
  /\ UNCHANGED <<store, paths, severities, lastCount>>

CountDocument ==
  /\ reading.by = "tool" /\ ~reading.counted
  /\ reading' = [reading EXCEPT !.total = @ + Len(store[Head(reading.left)]),
                                !.left = Tail(@), !.counted = TRUE]
  /\ UNCHANGED <<store, paths, severities, lastCount>>

Reported ==
  /\ reading.by = "tool" /\ reading.left = <<>>
  /\ LET filtered == FilterBySeverity(reading.found, reading.wanted)
     IN reading' = [by |-> "reported", reported |-> Len(filtered),
                    count |-> IF filtered = <<>> THEN 0 ELSE reading.total,
                    dropped |-> Len(reading.found) - Len(filtered)]
  /\ UNCHANGED <<store, paths, severities, lastCount>>

Done ==
  /\ reading.by \in {"injected", "reported"}
  /\ reading' = None
  /\ UNCHANGED <<store, paths, severities, lastCount>>

Init ==
  /\ store = [d \in Docs |-> <<>>]
  /\ paths = <<>> /\ severities = {} /\ lastCount = 0
  /\ reading = None

Next ==
  \/ Publish \/ SetPaths \/ SetSeverities
  \/ Inject \/ ReadDocument \/ Say
  \/ Report \/ ReportDocument \/ CountDocument \/ Reported
  \/ Done

Spec == Init /\ [][Next]_vars

-----------------------------------------------------------------------------
(* Properties *)

\* The state is what the declarations of the store and the injector allow.
TypeOK ==
  /\ store \in [Docs -> Reports]
  /\ paths \in {<<>>} \cup {<<d>> : d \in Docs} /\ severities \subseteq Asked
  /\ lastCount \in Nat
  /\ reading.by \in {"none", "inject", "injected", "tool", "reported"}

\* Whatever is pushed while the documents are read, "the errors in the other files" are
\* seen (injector.go:144-146): every file found to have problems has the first of them in
\* the message, the budget is passed by one problem a file at most, and the count kept is
\* the message's.
EveryFileSpeaks ==
  reading.by = "injected" =>
    /\ Len(reading.said) = Len(reading.found)
    /\ \A i \in DOMAIN reading.said :
         /\ reading.said[i].doc = reading.found[i].doc
         /\ reading.said[i].items # <<>> /\ IsPrefix(reading.said[i].items, reading.found[i].items)
    /\ Total(reading.said) > MaxProblems => \A i \in DOMAIN reading.said : Len(reading.said[i].items) = 1
    /\ lastCount = Total(reading.said)
=============================================================================
