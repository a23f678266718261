------------------------ MODULE AutocompleteLruCache ------------------------
(***************************************************************************)
(* The cache of autocomplete results                                       *)
(* (core/autocomplete/util/AutocompleteLruCache.ts): a map in the memory   *)
(* of every window, and the one SQLite table to which each window writes   *)
(* its dirty keys, in a transaction of several awaits.                     *)
(*                                                                         *)
(* A key is a truncated prefix.  A lookup may touch any entry: the lookup  *)
(* of its own key does.  What a lookup returns is left out.  A window that *)
(* is closed has closed its database or has gone; it opens again as a new  *)
(* process.                                                                *)
(***************************************************************************)
EXTENDS Integers, FiniteSets

CONSTANTS CacheWindows,  \* windows of one machine
          Keys,          \* truncated prefixes
          EmptyKey,      \* the empty prefix, if it is among them
          Values,        \* completions
          Capacity,
          Absent,        \* no entry
          Nobody,        \* no window
          MaxClock,      \* bound on the clock
          MaxFailures    \* bound on crashes and failed statements

ASSUME CacheAssumption ==
  /\ Capacity \in Nat \ {0} /\ MaxClock \in Nat /\ MaxFailures \in Nat
  /\ Nobody \notin CacheWindows
  /\ Absent \notin [value : Values, time : Nat]
  /\ IsFiniteSet(Keys)

VARIABLES
  table,     \* the rows of the table cache
  mem,       \* the map of each window
  dirty,     \* its keys that a flush has to write
  batch,     \* dirtyKeys of the flush that is under way
  written,   \* those it has written in its transaction
  draft,     \* and what it has written for them
  flusher,   \* who called that flush, which holds the mutex
  calls,     \* calls of flush that wait for the mutex
  life,      \* whether the cache of the window is open
  timer,     \* whether its flush timer is set
  dbLock,    \* the window whose transaction has the write lock of the file
  clock,
  failures,
  stray      \* keys dropped by a failure or saved by another window since,
             \* for the properties

entries == <<mem, dirty>>
flushing == <<batch, written, draft, flusher, calls>>
service == <<life, timer>>
bounds == <<clock, failures>>
cacheVars == <<table, entries, flushing, service, dbLock, bounds, stray>>

Entry == [value : Values, time : Nat]
MaybeEntry == Entry \cup {Absent}
Callers == {"timer", "close"}
Alive == {"open", "closing"}

CacheTypeOK ==
  /\ table \in [Keys -> MaybeEntry]
  /\ mem \in [CacheWindows -> [Keys -> MaybeEntry]]
  /\ dirty \in [CacheWindows -> SUBSET Keys]
  /\ batch \in [CacheWindows -> SUBSET Keys]
  /\ written \in [CacheWindows -> SUBSET Keys]
  /\ draft \in [CacheWindows -> [Keys -> MaybeEntry]]
  /\ flusher \in [CacheWindows -> Callers \cup {"none"}]
  /\ calls \in [CacheWindows -> SUBSET Callers]
  /\ life \in [CacheWindows -> {"closed", "failed"} \cup Alive]
  /\ timer \in [CacheWindows -> BOOLEAN]
  /\ dbLock \in CacheWindows \cup {Nobody}
  /\ clock \in Nat /\ failures \in Nat
  /\ stray \in [CacheWindows -> SUBSET Keys]

NoEntries == [k \in Keys |-> Absent]

CacheInit ==
  /\ table = NoEntries
  /\ mem = [w \in CacheWindows |-> NoEntries]
  /\ dirty = [w \in CacheWindows |-> {}]
  /\ batch = [w \in CacheWindows |-> {}]
  /\ written = [w \in CacheWindows |-> {}]
  /\ draft = [w \in CacheWindows |-> NoEntries]
  /\ flusher = [w \in CacheWindows |-> "none"]
  /\ calls = [w \in CacheWindows |-> {}]
  /\ life = [w \in CacheWindows |-> "closed"]
  /\ timer = [w \in CacheWindows |-> FALSE]
  /\ dbLock = Nobody
  /\ clock = 0 /\ failures = 0
  /\ stray = [w \in CacheWindows |-> {}]

-----------------------------------------------------------------------------
(***************************************************************************)
(* The map                                                                 *)
(***************************************************************************)
Cached(m) == {k \in Keys : m[k] # Absent}
Oldest(m) == {k \in Cached(m) : \A o \in Cached(m) : m[k].time <= m[o].time}

OverfullByOne(m) == Cardinality(Cached(m)) > Capacity + 1
Overfull(m) == Cardinality(Cached(m)) > Capacity

\* The keys put deletes: one of the oldest entries, but never the empty key
\* (if (oldestKey)), whose eviction deletes nothing.
Evictions(m) ==
  IF Overfull(m) THEN {{k} \ {EmptyKey} : k \in Oldest(m)} ELSE {{}}

\* Keys that a lookup makes dirty.
NotDirtied(k) == {}
Dirtied(k) == {k}

\* get, which does not take the mutex
Lookup(w, k) ==
  /\ life[w] \in Alive
  /\ mem[w][k] # Absent
  /\ mem' = [mem EXCEPT ![w][k].time = clock]
  /\ dirty' = [dirty EXCEPT ![w] = @ \cup Dirtied(k)]
  /\ UNCHANGED <<table, flushing, service, dbLock, bounds, stray>>

\* What put stores.
ValueOnly(v) == v
NewEntry(v) == [value |-> v, time |-> clock]

\* put, from when it has the mutex
Put(w, k, v) ==
  /\ life[w] \in Alive
  /\ flusher[w] = "none"
  /\ LET full == [mem[w] EXCEPT ![k] = NewEntry(v)] IN
     \E evicted \in Evictions(full) :
       /\ mem' = [mem EXCEPT ![w] =
            [o \in Keys |-> IF o \in evicted THEN Absent ELSE full[o]]]
       /\ dirty' = [dirty EXCEPT ![w] = @ \cup {k} \cup evicted]
  /\ UNCHANGED <<table, flushing, service, dbLock, bounds, stray>>

-----------------------------------------------------------------------------
(***************************************************************************)
(* flush                                                                   *)
(***************************************************************************)
\* The timer calls flush, which returns at once if nothing is dirty.
TimerFlush(w) ==
  /\ life[w] \in Alive
  /\ timer[w] /\ dirty[w] # {}
  /\ calls' = [calls EXCEPT ![w] = @ \cup {"timer"}]
  /\ UNCHANGED <<table, entries, batch, written, draft, flusher, service,
                 dbLock, bounds, stray>>

\* What stays dirty when a flush has taken the dirty keys.
AllDirty(w) == dirty[w]
LeftDirty(w) == {}

\* It gets the mutex, takes the dirty keys and begins its transaction.
FlushStart(w, caller) ==
  /\ caller \in calls[w] /\ flusher[w] = "none"
  /\ flusher' = [flusher EXCEPT ![w] = caller]
  /\ calls' = [calls EXCEPT ![w] = @ \ {caller}]
  /\ batch' = [batch EXCEPT ![w] = dirty[w]]
  /\ dirty' = [dirty EXCEPT ![w] = LeftDirty(w)]
  /\ UNCHANGED <<table, mem, written, draft, service, dbLock, bounds, stray>>

\* The row of a key: an upsert if there is an entry now, or a delete.
EntryOrRow(w, k) == IF mem[w][k] # Absent THEN mem[w][k] ELSE table[k]
RowFor(w, k) == mem[w][k]

\* One statement; the first takes the write lock, or waits for it.
WriteRow(w, k) ==
  /\ flusher[w] # "none"
  /\ k \in batch[w] \ written[w]
  /\ dbLock \in {Nobody, w}
  /\ dbLock' = w
  /\ written' = [written EXCEPT ![w] = @ \cup {k}]
  /\ draft' = [draft EXCEPT ![w][k] = RowFor(w, k)]
  /\ UNCHANGED <<table, entries, batch, flusher, calls, service, bounds, stray>>

\* The transaction ends and the mutex is released.
EndFlush(w) ==
  /\ batch' = [batch EXCEPT ![w] = {}]
  /\ written' = [written EXCEPT ![w] = {}]
  /\ draft' = [draft EXCEPT ![w] = NoEntries]
  /\ dbLock' = IF dbLock = w THEN Nobody ELSE dbLock

Commit(w) ==
  /\ flusher[w] # "none"
  /\ written[w] = batch[w]
  /\ table' = [k \in Keys |-> IF k \in batch[w] THEN draft[w][k] ELSE table[k]]
  /\ stray' = [u \in CacheWindows |->
                 CASE u = w -> stray[u] \ batch[w]
                   [] u # w /\ life[u] \in Alive -> stray[u] \cup batch[w]
                   [] OTHER -> {}]
  /\ EndFlush(w)
  /\ flusher' = [flusher EXCEPT ![w] = "none"]
  /\ UNCHANGED <<entries, calls, service, bounds>>

\* An error rolls the transaction back; what it should have written is not
\* dirty any more.
RollBack(w) ==
  /\ flusher[w] # "none"
  /\ stray' = [stray EXCEPT ![w] = @ \cup batch[w]]
  /\ EndFlush(w)
  /\ flusher' = [flusher EXCEPT ![w] = "none"]
  /\ UNCHANGED <<table, entries, calls, timer, clock>>

\* The first statement has waited three seconds for the lock of the file.
BusyTimeout(w) ==
  /\ dbLock \notin {Nobody, w} /\ batch[w] # {}
  /\ RollBack(w)
  /\ UNCHANGED <<life, failures>>

\* A statement fails, for example since the disk is full.  If ROLLBACK fails as
\* well flush throws, and with it the close that called it.
FlushFails(w, throws) ==
  /\ failures < MaxFailures
  /\ RollBack(w)
  /\ life' = [life EXCEPT ![w] =
       IF throws /\ flusher[w] = "close" THEN "open" ELSE @]
  /\ failures' = failures + 1

-----------------------------------------------------------------------------
(***************************************************************************)
(* Opening and closing                                                     *)
(***************************************************************************)
\* AutocompleteLruCache.get and loadFromDb
OpenCache(w) ==
  /\ life[w] = "closed"
  /\ life' = [life EXCEPT ![w] = "open"]
  /\ timer' = [timer EXCEPT ![w] = TRUE]
  /\ mem' = [mem EXCEPT ![w] = table]
  /\ stray' = [stray EXCEPT ![w] = {}]
  /\ UNCHANGED <<table, dirty, flushing, dbLock, bounds>>

\* The rejected promise stays in instancePromise.
OpenFails(w) ==
  /\ life[w] = "closed"
  /\ failures < MaxFailures
  /\ life' = [life EXCEPT ![w] = "failed"]
  /\ failures' = failures + 1
  /\ UNCHANGED <<table, entries, flushing, timer, dbLock, clock, stray>>

\* close stops the timer and calls flush, which may return at once.
CloseCalled(w) ==
  /\ life[w] = "open"
  /\ life' = [life EXCEPT ![w] = "closing"]
  /\ timer' = [timer EXCEPT ![w] = FALSE]
  /\ calls' = [calls EXCEPT ![w] =
       @ \cup (IF dirty[w] = {} THEN {} ELSE {"close"})]
  /\ UNCHANGED <<table, entries, batch, written, draft, flusher, dbLock,
                 bounds, stray>>

\* Nothing of the window is left but the rows it has committed.
Gone(w) ==
  /\ life' = [life EXCEPT ![w] = "closed"]
  /\ timer' = [timer EXCEPT ![w] = FALSE]
  /\ mem' = [mem EXCEPT ![w] = NoEntries]
  /\ dirty' = [dirty EXCEPT ![w] = {}]
  /\ calls' = [calls EXCEPT ![w] = {}]
  /\ stray' = [stray EXCEPT ![w] = {}]
  /\ EndFlush(w)
  /\ flusher' = [flusher EXCEPT ![w] = "none"]
  /\ UNCHANGED <<table, clock>>

\* The flush of close has returned, and the database is closed.  A transaction
\* that the timer has begun is rolled back.
CloseDatabase(w) ==
  /\ life[w] = "closing"
  /\ "close" \notin calls[w] /\ flusher[w] # "close"
  /\ Gone(w)
  /\ UNCHANGED failures

\* The window is closed without dispose, or crashes.
WindowDies(w) ==
  /\ failures < MaxFailures
  /\ life[w] # "closed"
  /\ Gone(w)
  /\ failures' = failures + 1

ClockTicks ==
  /\ clock < MaxClock
  /\ clock' = clock + 1
  /\ UNCHANGED <<table, entries, flushing, service, dbLock, failures, stray>>

FlushStep(w) ==
  \/ \E caller \in Callers : FlushStart(w, caller)
  \/ \E k \in Keys : WriteRow(w, k)
  \/ Commit(w) \/ BusyTimeout(w)

CacheNext ==
  \/ \E w \in CacheWindows :
       \/ \E k \in Keys : Lookup(w, k) \/ \E v \in Values : Put(w, k, v)
       \/ TimerFlush(w) \/ FlushStep(w)
       \/ \E throws \in BOOLEAN : FlushFails(w, throws)
       \/ OpenCache(w) \/ OpenFails(w) \/ CloseCalled(w) \/ CloseDatabase(w)
       \/ WindowDies(w)
  \/ ClockTicks

CacheSpec == CacheInit /\ [][CacheNext]_cacheVars

\* The timer fires, and statements are settled, in three seconds at the latest.
CacheFairness ==
  \A w \in CacheWindows :
    /\ WF_cacheVars(TimerFlush(w))
    /\ WF_cacheVars(FlushStep(w))

FairCacheSpec == CacheSpec /\ CacheFairness

-----------------------------------------------------------------------------
(***************************************************************************)
(* Properties                                                              *)
(***************************************************************************)
\* What a window has and does not count as dirty is in the table, except for
\* the keys of a failed flush and those another window has written since: a
\* lookup in the middle of a flush must not be lost.
SavedUnlessDirty ==
  \A w \in CacheWindows : life[w] \in Alive =>
    \A k \in Keys \ (dirty[w] \cup batch[w] \cup stray[w]) : table[k] = mem[w][k]

\* Why it holds: a row that has been written and is not dirty again is the entry.
DraftIsCurrent ==
  \A w \in CacheWindows :
    \A k \in written[w] \ dirty[w] : draft[w][k] = mem[w][k]

\* Storing a completion never makes the cache larger than its capacity, or than
\* what was loaded, as long as the empty prefix is not in it (which is kept for
\* ever, and then nothing is evicted).
PutKeepsSize ==
  [][\A w \in CacheWindows :
       (life[w] \in Alive /\ life'[w] \in Alive /\ EmptyKey \notin Cached(mem'[w])) =>
         \/ Cardinality(Cached(mem'[w])) <= Capacity
         \/ Cardinality(Cached(mem'[w])) <= Cardinality(Cached(mem[w]))]_cacheVars

\* While the timer is set, dirty keys are taken by a flush in the end: the mutex
\* of the window and the lock of the file are always released.
DirtyIsFlushed(w) == (timer[w] /\ dirty[w] # {}) ~> (~timer[w] \/ dirty[w] = {})

\* A window that closes its database has nothing pending from before.
CloseSaves ==
  [][\A w \in CacheWindows :
       (life[w] = "closing" /\ life'[w] = "closed" /\ failures' = failures)
         => batch[w] = {}]_cacheVars

\* Every step changes the view of a window, or saves, or gives up, as a durable
\* map may: a transaction reaches the table as a whole or not at all.
Durable == INSTANCE DurableMap WITH
  Clients <- CacheWindows,
  store <- table,
  joined <- {w \in CacheWindows : life[w] \in Alive},
  view <- mem,
  unsaved <- [w \in CacheWindows |-> dirty[w] \cup batch[w]],
  apart <- stray

ImplementsDurableMap == Durable!MapSpec
=============================================================================
