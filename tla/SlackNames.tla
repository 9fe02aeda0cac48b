----------------------------- MODULE SlackNames -----------------------------
(***************************************************************************)
(* _SlackJsonbNameCache of kb/handlers/slack.py: the names of Slack users  *)
(* and channels, in an LRU map per worker process (hot) over a JSONB       *)
(* column shared by the processes (cold).  Hydration passes resolve names  *)
(* concurrently with one remote call per new id; a backfill primes the     *)
(* cache in bulk; a debounced task flushes to the cold tier, merging what  *)
(* it finds there.  Times are a logical clock.                             *)
(***************************************************************************)
EXTENDS Naturals, Sequences, FiniteSets

CONSTANTS
    SnProcs,     \* worker processes
    SnCrew,      \* process -> its coroutines that resolve names
    SnIds,       \* ids
    SnNamed,     \* the ids Slack knows a name for
    SnHotMax,    \* MAX_IN_MEMORY
    SnColdMax,   \* MAX_PERSIST
    SnSets,      \* bound: entries written
    SnFaults     \* bound: transient answers and failed flushes

VARIABLES
    snHot,       \* process -> sequence of [id, name, ts], least recent first
    snLoaded,    \* process -> ensure_loaded has run
    snLock,      \* process -> id -> lock number, 0 when _locks has none
    snNextLock,  \* process -> the number of its next lock
    snPc,        \* process -> caller -> "idle" | "waiting" | "fetching"
    snWants,     \* process -> caller -> [id, lock]
    snDirty,     \* process -> _dirty
    snFlush,     \* process -> "none" | "asleep" | "read": the flush task
    snSeen,      \* process -> the cold tier as the flush read it
    snCold,      \* id -> [name, ts]; ts = 0 when absent
    snClock,     \* the time, advanced by every entry written
    snFaultsLeft

snVars == <<snHot, snLoaded, snLock, snNextLock, snPc, snWants, snDirty, snFlush,
            snSeen, snCold, snClock, snFaultsLeft>>

SnAbsent == [name |-> FALSE, ts |-> 0]

SnNothing == [id |-> CHOOSE k \in SnIds : TRUE, lock |-> 0]

SnHas(p, id) == \E i \in DOMAIN snHot[p] : snHot[p][i].id = id

SnWithout(hot, id) == SelectSeq(hot, LAMBDA e : e.id # id)

\* move_to_end
SnBump(hot, id) == SnWithout(hot, id) \o SelectSeq(hot, LAMBDA e : e.id = id)

SnOver(hot) == IF Len(hot) > SnHotMax THEN Len(hot) - SnHotMax ELSE 0

\* _set and _mark_dirty: write the entry as the most recent, evict the least
\* recent beyond the cap with their locks, and start a flush unless one is
\* under way.
SnSet(p, id, name) ==
    LET hot == Append(SnWithout(snHot[p], id),
                      [id |-> id, name |-> name, ts |-> snClock])
        out == {hot[i].id : i \in 1..SnOver(hot)}
    IN /\ snClock <= SnSets
       /\ snClock' = snClock + 1
       /\ snHot' = [snHot EXCEPT ![p] = SubSeq(hot, SnOver(hot) + 1, Len(hot))]
       /\ snLock' = [snLock EXCEPT ![p] =
                        [k \in SnIds |-> IF k \in out THEN 0 ELSE @[k]]]
       /\ snDirty' = [snDirty EXCEPT ![p] = TRUE]
       /\ snFlush' = [snFlush EXCEPT ![p] = IF @ = "none" THEN "asleep" ELSE @]

\* ensure_loaded: the cold tier becomes the hot one.  An unreadable database
\* leaves the process with memory only, and is not asked again.
SnLoad(p) ==
    /\ ~snLoaded[p]
    /\ snLoaded' = [snLoaded EXCEPT ![p] = TRUE]
    /\ \/ /\ \E order \in [1..Cardinality({k \in SnIds : snCold[k].ts > 0}) -> SnIds] :
                /\ \A i, j \in DOMAIN order : i < j => order[i] # order[j]
                /\ \A i \in DOMAIN order : snCold[order[i]].ts > 0
                /\ snHot' = [snHot EXCEPT ![p] =
                       [i \in DOMAIN order |->
                          [id |-> order[i], name |-> snCold[order[i]].name,
                           ts |-> snCold[order[i]].ts]]]
          /\ UNCHANGED snFaultsLeft
       \/ /\ snFaultsLeft > 0
          /\ snFaultsLeft' = snFaultsLeft - 1
          /\ UNCHANGED snHot
    /\ UNCHANGED <<snLock, snNextLock, snPc, snWants, snDirty, snFlush, snSeen,
                   snCold, snClock>>

\* resolve, up to the lock: a hit is bumped and answered; a miss takes the id's
\* lock, made on first use, and waits when a coroutine holds it.
SnHeld(p, lock) == \E c \in SnCrew[p] :
                      snPc[p][c] = "fetching" /\ snWants[p][c].lock = lock

SnLockOf(p, id) == IF snLock[p][id] = 0 THEN snNextLock[p] ELSE snLock[p][id]

SnResolve(p, c) ==
    /\ snLoaded[p] /\ snPc[p][c] = "idle"
    /\ \E id \in SnIds :
          \/ /\ SnHas(p, id)
             /\ snHot' = [snHot EXCEPT ![p] = SnBump(@, id)]
             /\ UNCHANGED <<snLock, snNextLock, snPc, snWants>>
          \/ /\ ~SnHas(p, id)
             /\ LET lock == SnLockOf(p, id)
                IN /\ snLock' = [snLock EXCEPT ![p][id] = lock]
                   /\ snNextLock' = [snNextLock EXCEPT ![p] =
                                        IF lock = @ THEN @ + 1 ELSE @]
                   /\ snWants' = [snWants EXCEPT ![p][c] = [id |-> id, lock |-> lock]]
                   /\ snPc' = [snPc EXCEPT ![p][c] =
                                  IF SnHeld(p, lock) THEN "waiting" ELSE "fetching"]
             /\ UNCHANGED snHot
    /\ UNCHANGED <<snLoaded, snDirty, snFlush, snSeen, snCold, snClock,
                   snFaultsLeft>>

\* A waiting coroutine gets the lock and looks again before it fetches.
SnWake(p, c) ==
    /\ snPc[p][c] = "waiting" /\ ~SnHeld(p, snWants[p][c].lock)
    /\ LET id == snWants[p][c].id
       IN /\ snPc' = [snPc EXCEPT ![p][c] = IF SnHas(p, id) THEN "idle" ELSE "fetching"]
          /\ snHot' = [snHot EXCEPT ![p] = SnBump(@, id)]
          /\ snWants' = IF SnHas(p, id) THEN [snWants EXCEPT ![p][c] = SnNothing]
                        ELSE snWants
    /\ UNCHANGED <<snLoaded, snLock, snNextLock, snDirty, snFlush, snSeen,
                   snCold, snClock, snFaultsLeft>>

\* _fetch_remote answers.  ok or a definite refusal is authoritative and is
\* cached, without a name if there is none; anything else is not cached.
SnFetched(p, c) ==
    /\ snPc[p][c] = "fetching"
    /\ snPc' = [snPc EXCEPT ![p][c] = "idle"]
    /\ snWants' = [snWants EXCEPT ![p][c] = SnNothing]
    /\ SnSet(p, snWants[p][c].id, snWants[p][c].id \in SnNamed)
    /\ UNCHANGED <<snLoaded, snNextLock, snSeen, snCold, snFaultsLeft>>

SnFetchFailed(p, c) ==
    /\ snPc[p][c] = "fetching" /\ snFaultsLeft > 0
    /\ snFaultsLeft' = snFaultsLeft - 1
    /\ snPc' = [snPc EXCEPT ![p][c] = "idle"]
    /\ snWants' = [snWants EXCEPT ![p][c] = SnNothing]
    /\ UNCHANGED <<snHot, snLoaded, snLock, snNextLock, snDirty, snFlush,
                   snSeen, snCold, snClock>>

\* prime and prime_from_listing: one listed id.
SnPrime(p) ==
    /\ snLoaded[p]
    /\ \E id \in SnIds : SnSet(p, id, id \in SnNamed)
    /\ UNCHANGED <<snLoaded, snNextLock, snPc, snWants, snSeen, snCold, snFaultsLeft>>

(***************************************************************************)
(* _debounced_flush: after the debounce, read the cold tier, merge the     *)
(* latest entry per id, keep the SnColdMax most recent, write.             *)
(***************************************************************************)
SnFlushRead(p) ==
    /\ snFlush[p] = "asleep"
    /\ IF snDirty[p]
       THEN /\ snFlush' = [snFlush EXCEPT ![p] = "read"]
            /\ \/ snSeen' = [snSeen EXCEPT ![p] = snCold] /\ UNCHANGED snFaultsLeft
               \/ /\ snFaultsLeft > 0
                  /\ snFaultsLeft' = snFaultsLeft - 1
                  /\ snSeen' = [snSeen EXCEPT ![p] = [k \in SnIds |-> SnAbsent]]
       ELSE /\ snFlush' = [snFlush EXCEPT ![p] = "none"]
            /\ UNCHANGED <<snSeen, snFaultsLeft>>
    /\ UNCHANGED <<snHot, snLoaded, snLock, snNextLock, snPc, snWants, snDirty,
                   snCold, snClock>>

SnHotEntry(p, id) ==
    IF SnHas(p, id)
    THEN LET i == CHOOSE j \in DOMAIN snHot[p] : snHot[p][j].id = id
         IN [name |-> snHot[p][i].name, ts |-> snHot[p][i].ts]
    ELSE SnAbsent

\* Variant of SnMerged: without reading what other processes contributed.
SnOwnOnly(p) == [id \in SnIds |-> SnHotEntry(p, id)]

SnMerged(p) ==
    [id \in SnIds |-> IF SnHotEntry(p, id).ts >= snSeen[p][id].ts
                      THEN SnHotEntry(p, id) ELSE snSeen[p][id]]

SnKept(m) ==
    [id \in SnIds |->
        IF Cardinality({k \in SnIds : m[k].ts > m[id].ts}) < SnColdMax
        THEN m[id] ELSE SnAbsent]

SnFlushWrite(p) ==
    /\ snFlush[p] = "read"
    /\ snFlush' = [snFlush EXCEPT ![p] = "none"]
    /\ snSeen' = [snSeen EXCEPT ![p] = [k \in SnIds |-> SnAbsent]]
    /\ \/ /\ snCold' = SnKept(SnMerged(p))
          /\ snDirty' = [snDirty EXCEPT ![p] = FALSE]
          /\ UNCHANGED snFaultsLeft
       \/ /\ snFaultsLeft > 0
          /\ snFaultsLeft' = snFaultsLeft - 1
          /\ UNCHANGED <<snCold, snDirty>>
    /\ UNCHANGED <<snHot, snLoaded, snLock, snNextLock, snPc, snWants, snClock>>

\* The process is replaced: its hot tier and unflushed entries are gone.
SnRestart(p) ==
    /\ snLoaded[p] /\ snFaultsLeft > 0
    /\ snFaultsLeft' = snFaultsLeft - 1
    /\ snHot' = [snHot EXCEPT ![p] = <<>>]
    /\ snLoaded' = [snLoaded EXCEPT ![p] = FALSE]
    /\ snLock' = [snLock EXCEPT ![p] = [k \in SnIds |-> 0]]
    /\ snNextLock' = [snNextLock EXCEPT ![p] = 1]
    /\ snPc' = [snPc EXCEPT ![p] = [c \in SnCrew[p] |-> "idle"]]
    /\ snWants' = [snWants EXCEPT ![p] =
                      [c \in SnCrew[p] |-> SnNothing]]
    /\ snDirty' = [snDirty EXCEPT ![p] = FALSE]
    /\ snFlush' = [snFlush EXCEPT ![p] = "none"]
    /\ snSeen' = [snSeen EXCEPT ![p] = [k \in SnIds |-> SnAbsent]]
    /\ UNCHANGED <<snCold, snClock>>

SnInit ==
    /\ snHot = [p \in SnProcs |-> <<>>]
    /\ snLoaded = [p \in SnProcs |-> FALSE]
    /\ snLock = [p \in SnProcs |-> [k \in SnIds |-> 0]]
    /\ snNextLock = [p \in SnProcs |-> 1]
    /\ snPc = [p \in SnProcs |-> [c \in SnCrew[p] |-> "idle"]]
    /\ snWants = [p \in SnProcs |->
                     [c \in SnCrew[p] |-> SnNothing]]
    /\ snDirty = [p \in SnProcs |-> FALSE]
    /\ snFlush = [p \in SnProcs |-> "none"]
    /\ snSeen = [p \in SnProcs |-> [k \in SnIds |-> SnAbsent]]
    /\ snCold = [k \in SnIds |-> SnAbsent]
    /\ snClock = 1
    /\ snFaultsLeft = SnFaults

SnNext ==
    \E p \in SnProcs :
       \/ SnLoad(p) \/ SnPrime(p) \/ SnFlushRead(p) \/ SnFlushWrite(p) \/ SnRestart(p)
       \/ \E c \in SnCrew[p] :
             SnResolve(p, c) \/ SnWake(p, c) \/ SnFetched(p, c) \/ SnFetchFailed(p, c)

(***************************************************************************)
(* Properties.                                                             *)
(***************************************************************************)

\* _flush_to_db merges "the most-recent entry per id across both views": a
\* flush that read the column as it still is never takes an id back to an
\* earlier entry, and forgets one only for a full column of later ones.
FlushKeepsNewest ==
    [][\A p \in SnProcs :
         (snFlush[p] = "read" /\ snFlush'[p] = "none" /\ snSeen[p] = snCold) =>
            \A id \in SnIds :
               \/ snCold'[id].ts >= snCold[id].ts
               \/ /\ snCold'[id].ts = 0
                  /\ Cardinality({k \in SnIds : snCold'[k].ts > snCold[id].ts})
                        >= SnColdMax]_snVars
=============================================================================
