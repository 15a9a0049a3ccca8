---------------------------- MODULE MemoryServices ----------------------------
(***************************************************************************)
(* The parts of the engine that keep what was said and learnt, side by     *)
(* side: the conversation and its compaction, the record of the cached     *)
(* prefix and the watch over the hit rate, the log, the wiki and the pool  *)
(* of skills.  Each has locks and files of its own, so a step is a step of *)
(* one of them.                                                            *)
(***************************************************************************)
EXTENDS ContextManager, PrefixCache, HitRate, LogCollector, Wiki, Skills

memoryVars == <<contextVars, cacheVars, rateVars, logVars, wikiVars, skillVars>>

MemoryInit == ContextInit /\ CacheInit /\ RateInit /\ LogInit /\ WikiInit /\ SkillInit

MemoryNext ==
  \/ ContextNext /\ UNCHANGED <<cacheVars, rateVars, logVars, wikiVars, skillVars>>
  \/ CacheNext /\ UNCHANGED <<contextVars, rateVars, logVars, wikiVars, skillVars>>
  \/ RateNext /\ UNCHANGED <<contextVars, cacheVars, logVars, wikiVars, skillVars>>
  \/ LogNext /\ UNCHANGED <<contextVars, cacheVars, rateVars, wikiVars, skillVars>>
  \/ WikiNext /\ UNCHANGED <<contextVars, cacheVars, rateVars, logVars, skillVars>>
  \/ SkillNext /\ UNCHANGED <<contextVars, cacheVars, rateVars, logVars, wikiVars>>

MemorySpec == MemoryInit /\ [][MemoryNext]_memoryVars

-----------------------------------------------------------------------------
(* Properties *)

\* What is cached is a beginning of what is sent: compaction tells whoever holds the
\* conversation (context/manager.go), the recorded changes of the cached prefix follow
\* one another, and a caller reports a collapse of the hit rate once (cache/cache.go).
PrefixIsKept == HeldIsPrefix /\ ChangesChain /\ AlarmOnce

\* What was written down is found where it belongs: a log record once, in the file of
\* its day, and drained by an orderly end (logging/collector.go); the index of the wiki
\* says what its files say (wiki.go).
WrittenOnceWhereItBelongs == OnceInItsFile /\ EndDrains /\ IndexFollowsFiles

\* A rewritten history keeps what it must: the list of skills only grows at its end
\* (skills/pool.go), and a compaction keeps the newest message, the recent turns and the
\* failed results (context/manager.go).
HistoryIsKept == [][OrderIsKept /\ WhatCompactionKeeps]_memoryVars
=============================================================================
