---------------------------- MODULE ContextManager ----------------------------
(***************************************************************************)
(* Compaction (internal/engine/context/manager.go, strategy.go): a         *)
(* conversation grows, is sent, and is folded down when it is over budget. *)
(*                                                                         *)
(* A message is [id, kind, size]: its size is what the estimator counts,   *)
(* and a "failed" message is one isKeyResult holds for.  Indexes are the   *)
(* code's, from 0.  held is the history a provider or a cached prefix      *)
(* still stands for, <<>> once they were told to forget it; the assembly   *)
(* that sends and compacts is outside the repository.                      *)
(***************************************************************************)
EXTENDS Naturals, Sequences, SequencesExt, FiniteSetsExt

CONSTANTS
  Budget,            \* BudgetTokens()
  KeepRecentTurns,
  Sizes,             \* what one message may cost
  MaxMessages        \* bound: messages appended

ASSUME ContextParameters == KeepRecentTurns \in Nat

VARIABLES history, held, summarizes, said, report

contextVars == <<history, held, summarizes, said, report>>

Target == Budget \div 4
Estimate(messages) == FoldLeft(LAMBDA n, m : n + m.size, 0, messages)
From(messages, i) == SubSeq(messages, i + 1, Len(messages))
Kinds == {"user", "assistant", "failed"}

\* A turn is a message of the user, a summary too, and all that follows it.
UserTurns(messages) == {i \in DOMAIN messages : messages[i].kind \in {"user", "summary"}}

\* mutant: the messages, and not the turns, are counted back.
KeepMessages(messages) == Max({0, Len(messages) - KeepRecentTurns})

\* Where the turn before the last KeepRecentTurns begins, 0 when there is none.
KeepFrom(messages) ==
  Max({0} \cup {i - 1 : i \in {u \in UserTurns(messages) :
         Cardinality({v \in UserTurns(messages) : v >= u}) > KeepRecentTurns}})

\* Plan walks back from the protected tail while there is room; suffixes only grow.
Cut(messages) ==
  Min({c \in 0 .. KeepFrom(messages) :
         c = KeepFrom(messages) \/ Estimate(From(messages, c)) < Budget - Target})

\* What these positions of a history hold, in their order: a set of one sequence.
Picked(messages, positions) ==
  LET n == Cardinality(positions)
  IN {[k \in 1 .. n |-> messages[from[k]]] :
        from \in {f \in [1 .. n -> positions] : \A k, l \in 1 .. n : k < l => f[k] < f[l]}}

\* forceTruncate when nothing can be folded: the longest suffix that fits, and the
\* newest message whatever it costs.
Truncated(messages) ==
  LET last == Max({0, Len(messages) - 1})
  IN From(messages, Min({c \in 0 .. last : c = last \/ Estimate(From(messages, c)) <= Budget}))

\* The key results of the folded region that are not in the result any more.
Missing(messages, compacted, cut) ==
  {i \in DOMAIN messages : /\ i <= cut /\ messages[i].kind = "failed"
                           /\ \A j \in DOMAIN compacted : compacted[j].id # messages[i].id}

\* mutant: the strategy is trusted to have kept them.
PreserveNothing(messages, compacted, cut) == {compacted}

\* They go in front of it, in front of a summary too.
PreserveKeyResults(messages, compacted, cut) ==
  {missing \o compacted : missing \in Picked(messages, Missing(messages, compacted, cut))}

\* mutant: who holds the conversation is told of a fallback only.
ForgetOnFallback(r) == held' = IF r.fellBack THEN <<>> ELSE held

\* finish tells the cache and the provider when anything was folded, and remembers.
FinishReport(r) == held' = IF r.dropped > 0 \/ r.fellBack THEN <<>> ELSE held

\* A message of the conversation; the tool loop and the user append.
Append1 ==
  /\ said < MaxMessages
  /\ said' = said + 1
  /\ \E k \in Kinds, s \in Sizes :
       history' = Append(history, [id |-> said', kind |-> k, size |-> s])
  /\ UNCHANGED <<held, summarizes, report>>

\* The provider keeps what it is sent, the cache its prefix.
SendHistory ==
  /\ history # <<>> /\ held # history
  /\ held' = history
  /\ UNCHANGED <<history, summarizes, said, report>>

Report(fellBack, dropped, result) ==
  [fellBack |-> fellBack, dropped |-> dropped,
   over |-> fellBack /\ Estimate(result) > Budget]

Within ==
  /\ Estimate(history) <= Budget
  /\ report' = Report(FALSE, 0, history)
  /\ UNCHANGED <<history, held, summarizes, said>>

\* Nothing is older than the protected tail: hard truncation, without the key results.
NothingToFold ==
  /\ Estimate(history) > Budget /\ Cut(history) = 0
  /\ history' = Truncated(history)
  /\ report' = Report(TRUE, Len(history) - Len(history'), history')
  /\ FinishReport(report')
  /\ UNCHANGED <<summarizes, said>>

\* The strategy's part of the history: the tail, or a summary in front of it.  A
\* summary is user text: a header, and up to four times Target runes, of any density.
Folds(cut) ==
  IF summarizes
  THEN {<<[id |-> 0, kind |-> "summary", size |-> s]>> \o From(history, cut) : s \in Sizes}
  ELSE {From(history, cut)}

\* The report, which says only of a fallback whether it is still over the budget, is
\* made before the key results are put back.
Fold ==
  LET cut == Cut(history)
  IN /\ Estimate(history) > Budget /\ cut > 0
     /\ \/ \E compacted \in Folds(cut) :
             /\ history' \in PreserveKeyResults(history, compacted, cut)
             /\ report' = Report(FALSE, cut, compacted)
        \/ /\ summarizes
           /\ history' \in PreserveKeyResults(history, From(history, cut), cut)
           /\ report' = Report(TRUE, cut, From(history, cut))
     /\ FinishReport(report')
     /\ UNCHANGED <<summarizes, said>>

Compact == Within \/ NothingToFold \/ Fold

-----------------------------------------------------------------------------
ContextInit ==
  /\ history = <<>> /\ held = <<>> /\ said = 0
  /\ summarizes \in BOOLEAN
  /\ report = Report(FALSE, 0, <<>>)

ContextNext == Append1 \/ SendHistory \/ Compact

ContextSpec == ContextInit /\ [][ContextNext]_contextVars

-----------------------------------------------------------------------------
(* Properties *)

\* The state is what the declarations allow; no message is in the history twice.
ContextTypeOK ==
  /\ said \in 0 .. MaxMessages /\ summarizes \in BOOLEAN
  /\ \A i, j \in DOMAIN history :
       /\ history[i].size \in Sizes
       /\ i # j => history[i].id # history[j].id \/ history[i].kind = "summary"

\* Nobody who keeps the conversation, a provider or a cached prefix, stands for a
\* history that compaction rewrote: what is held is a beginning of what will be sent.
HeldIsPrefix == IsPrefix(held, history)

\* The last KeepRecentTurns turns, or less.
RecentTurns(messages) ==
  LET late == {i \in UserTurns(messages) :
                 Cardinality({j \in UserTurns(messages) : j >= i}) <= KeepRecentTurns}
  IN IF late = {} THEN <<>> ELSE From(messages, Min(late) - 1)

\* A compaction loses neither the message that has to be answered nor, when it folds,
\* a recent turn or a failed result: the newest message stays the newest, the turns
\* KeepRecentTurns protects stay together at the end, and every key result of the
\* folded region is still there.
WhatCompactionKeeps ==
  history' # history /\ said' = said =>
    /\ history' # <<>> /\ Last(history') = Last(history)
    /\ Cut(history) > 0 =>
         /\ IsSuffix(RecentTurns(history), history')
         /\ \A i \in DOMAIN history : history[i].kind = "failed" => Contains(history', history[i])
=============================================================================
