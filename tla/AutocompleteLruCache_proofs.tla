--------------------- MODULE AutocompleteLruCache_proofs ---------------------
(***************************************************************************)
(* Theorems about AutocompleteLruCache, for any windows, keys, values and  *)
(* capacity: what is clean is saved, the cache implements DurableMap, and  *)
(* storing keeps it within its capacity.                                   *)
(***************************************************************************)
EXTENDS AutocompleteLruCache, FiniteSetTheorems, TLAPS

\* A window that is not alive keeps nothing, and only a flush has a batch.
Resting ==
  \A w \in CacheWindows :
    /\ life[w] \notin Alive =>
         /\ mem[w] = NoEntries /\ dirty[w] = {} /\ stray[w] = {}
         /\ flusher[w] = "none" /\ calls[w] = {}
    /\ flusher[w] = "none" => batch[w] = {}
    /\ written[w] \subseteq batch[w]

CacheInv ==
  CacheTypeOK /\ Resting /\ DraftIsCurrent /\ SavedUnlessDirty

LEMMA InitInv == CacheInit => CacheInv
BY CacheAssumption
   DEF CacheInit, CacheInv, CacheTypeOK, Resting, DraftIsCurrent,
       SavedUnlessDirty, NoEntries, MaybeEntry, Alive, Callers

-----------------------------------------------------------------------------
(***************************************************************************)
(* Types                                                                   *)
(***************************************************************************)
LEMMA EndFlushType ==
  ASSUME CacheTypeOK, NEW w \in CacheWindows, EndFlush(w)
  PROVE  /\ batch' \in [CacheWindows -> SUBSET Keys]
         /\ written' \in [CacheWindows -> SUBSET Keys]
         /\ draft' \in [CacheWindows -> [Keys -> MaybeEntry]]
         /\ dbLock' \in CacheWindows \cup {Nobody}
BY DEF CacheTypeOK, EndFlush, NoEntries, MaybeEntry

LEMMA LookupType ==
  ASSUME CacheTypeOK, NEW w \in CacheWindows, NEW k \in Keys, Lookup(w, k)
  PROVE  CacheTypeOK'
<1>1. [mem[w][k] EXCEPT !.time = clock] \in Entry
  <2>1. mem[w][k] \in Entry /\ clock \in Nat
    BY DEF CacheTypeOK, Lookup, MaybeEntry
  <2>2. QED
    BY <2>1 DEF Entry
<1>2. mem' \in [CacheWindows -> [Keys -> MaybeEntry]]
  BY <1>1 DEF CacheTypeOK, Lookup, MaybeEntry
<1>3. dirty' \in [CacheWindows -> SUBSET Keys]
  BY DEF CacheTypeOK, Lookup, Dirtied
<1>4. QED
  BY <1>2, <1>3 DEF CacheTypeOK, Lookup, flushing, service, bounds

LEMMA PutType ==
  ASSUME CacheTypeOK, NEW w \in CacheWindows, NEW k \in Keys, NEW v \in Values,
         Put(w, k, v)
  PROVE  CacheTypeOK'
<1> DEFINE full == [mem[w] EXCEPT ![k] = [value |-> v, time |-> clock]]
<1>1. PICK evicted \in Evictions(full) :
         /\ mem' = [mem EXCEPT ![w] =
              [o \in Keys |-> IF o \in evicted THEN Absent ELSE full[o]]]
         /\ dirty' = [dirty EXCEPT ![w] = @ \cup {k} \cup evicted]
  BY DEF Put, NewEntry
<1>2. full \in [Keys -> MaybeEntry]
  BY DEF CacheTypeOK, Entry, MaybeEntry
<1>3. evicted \subseteq Keys
  BY <1>1 DEF Evictions, Oldest, Cached
<1>4. [o \in Keys |-> IF o \in evicted THEN Absent ELSE full[o]]
        \in [Keys -> MaybeEntry]
  BY <1>2 DEF MaybeEntry
<1>5. mem' \in [CacheWindows -> [Keys -> MaybeEntry]]
  BY <1>1, <1>4 DEF CacheTypeOK
<1>6. dirty' \in [CacheWindows -> SUBSET Keys]
  BY <1>1, <1>3 DEF CacheTypeOK
<1>7. QED
  BY <1>5, <1>6 DEF CacheTypeOK, Put, NewEntry, flushing, service, bounds

LEMMA RollBackType ==
  ASSUME CacheTypeOK, NEW w \in CacheWindows, RollBack(w)
  PROVE  /\ batch' \in [CacheWindows -> SUBSET Keys]
         /\ written' \in [CacheWindows -> SUBSET Keys]
         /\ draft' \in [CacheWindows -> [Keys -> MaybeEntry]]
         /\ dbLock' \in CacheWindows \cup {Nobody}
         /\ stray' \in [CacheWindows -> SUBSET Keys]
         /\ flusher' \in [CacheWindows -> Callers \cup {"none"}]
         /\ UNCHANGED <<table, mem, dirty, calls, timer, clock>>
BY EndFlushType DEF CacheTypeOK, RollBack, entries

LEMMA GoneType ==
  ASSUME CacheTypeOK, NEW w \in CacheWindows, Gone(w), failures' \in Nat
  PROVE  CacheTypeOK'
<1>1. mem' \in [CacheWindows -> [Keys -> MaybeEntry]]
  BY DEF CacheTypeOK, Gone, NoEntries, MaybeEntry
<1>2. life' \in [CacheWindows -> {"closed", "failed"} \cup Alive]
  BY DEF CacheTypeOK, Gone
<1>3. /\ dirty' \in [CacheWindows -> SUBSET Keys]
      /\ stray' \in [CacheWindows -> SUBSET Keys]
      /\ calls' \in [CacheWindows -> SUBSET Callers]
      /\ timer' \in [CacheWindows -> BOOLEAN]
      /\ flusher' \in [CacheWindows -> Callers \cup {"none"}]
  BY DEF CacheTypeOK, Gone
<1>4. QED
  BY <1>1, <1>2, <1>3, EndFlushType DEF CacheTypeOK, Gone

LEMMA TypeStep ==
  ASSUME CacheTypeOK, [CacheNext]_cacheVars
  PROVE  CacheTypeOK'
<1>1. ASSUME NEW w \in CacheWindows, NEW k \in Keys, Lookup(w, k)
      PROVE  CacheTypeOK'
  BY <1>1, LookupType
<1>2. ASSUME NEW w \in CacheWindows, NEW k \in Keys, NEW v \in Values,
             Put(w, k, v)
      PROVE  CacheTypeOK'
  BY <1>2, PutType
<1>3. ASSUME NEW w \in CacheWindows, TimerFlush(w) PROVE CacheTypeOK'
  BY <1>3 DEF CacheTypeOK, TimerFlush, entries, service, bounds, Callers
<1>4. ASSUME NEW w \in CacheWindows, NEW caller \in Callers,
             FlushStart(w, caller)
      PROVE  CacheTypeOK'
  BY <1>4 DEF CacheTypeOK, FlushStart, LeftDirty, service, bounds
<1>5. ASSUME NEW w \in CacheWindows, NEW k \in Keys, WriteRow(w, k)
      PROVE  CacheTypeOK'
  <2>1. /\ draft' \in [CacheWindows -> [Keys -> MaybeEntry]]
        /\ written' \in [CacheWindows -> SUBSET Keys]
    BY <1>5 DEF CacheTypeOK, WriteRow, RowFor
  <2>2. QED
    BY <1>5, <2>1 DEF CacheTypeOK, WriteRow, entries, service, bounds
<1>6. ASSUME NEW w \in CacheWindows, Commit(w) PROVE CacheTypeOK'
  <2>1. table' \in [Keys -> MaybeEntry]
    BY <1>6 DEF CacheTypeOK, Commit
  <2>2. stray' \in [CacheWindows -> SUBSET Keys]
    BY <1>6 DEF CacheTypeOK, Commit
  <2>3. flusher' \in [CacheWindows -> Callers \cup {"none"}]
    BY <1>6 DEF CacheTypeOK, Commit
  <2>4. QED
    BY <1>6, <2>1, <2>2, <2>3, EndFlushType
       DEF CacheTypeOK, Commit, entries, service, bounds
<1>7. ASSUME NEW w \in CacheWindows, BusyTimeout(w) PROVE CacheTypeOK'
  BY <1>7, RollBackType DEF CacheTypeOK, BusyTimeout
<1>8. ASSUME NEW w \in CacheWindows, NEW throws \in BOOLEAN,
             FlushFails(w, throws)
      PROVE  CacheTypeOK'
  <2>1. life' \in [CacheWindows -> {"closed", "failed"} \cup Alive]
    BY <1>8 DEF CacheTypeOK, FlushFails, Alive
  <2>2. QED
    BY <1>8, <2>1, RollBackType DEF CacheTypeOK, FlushFails
<1>9. ASSUME NEW w \in CacheWindows, OpenCache(w) PROVE CacheTypeOK'
  BY <1>9 DEF CacheTypeOK, OpenCache, flushing, bounds, Alive
<1>10. ASSUME NEW w \in CacheWindows, OpenFails(w) PROVE CacheTypeOK'
  BY <1>10 DEF CacheTypeOK, OpenFails, entries, flushing, Alive
<1>11. ASSUME NEW w \in CacheWindows, CloseCalled(w) PROVE CacheTypeOK'
  BY <1>11 DEF CacheTypeOK, CloseCalled, entries, bounds, Alive, Callers
<1>12. ASSUME NEW w \in CacheWindows, CloseDatabase(w) PROVE CacheTypeOK'
  BY <1>12, GoneType DEF CacheTypeOK, CloseDatabase
<1>13. ASSUME NEW w \in CacheWindows, WindowDies(w) PROVE CacheTypeOK'
  BY <1>13, GoneType DEF CacheTypeOK, WindowDies
<1>14. ASSUME ClockTicks PROVE CacheTypeOK'
  BY <1>14 DEF CacheTypeOK, ClockTicks, entries, flushing, service
<1>15. ASSUME UNCHANGED cacheVars PROVE CacheTypeOK'
  BY <1>15 DEF CacheTypeOK, cacheVars, entries, flushing, service, bounds
<1>16. QED
  BY <1>1, <1>2, <1>3, <1>4, <1>5, <1>6, <1>7, <1>8, <1>9, <1>10, <1>11,
     <1>12, <1>13, <1>14, <1>15 DEF CacheNext, FlushStep

\* Every variable of the cache keeps its type.
THEOREM CacheTypeCorrect == CacheSpec => []CacheTypeOK
<1>1. CacheInit => CacheTypeOK
  BY InitInv DEF CacheInv
<1>2. CacheTypeOK /\ [CacheNext]_cacheVars => CacheTypeOK'
  BY TypeStep
<1>3. QED
  BY <1>1, <1>2, PTL DEF CacheSpec

-----------------------------------------------------------------------------
(***************************************************************************)
(* What is clean is saved                                                  *)
(***************************************************************************)
\* A lookup changes one entry, and makes it dirty.
LEMMA LookupInv ==
  ASSUME CacheInv, NEW w \in CacheWindows, NEW k \in Keys, Lookup(w, k)
  PROVE  Resting' /\ DraftIsCurrent' /\ SavedUnlessDirty'
<1> USE DEF CacheInv, CacheTypeOK, Lookup, Dirtied, flushing, service
<1>1. \A u \in CacheWindows, o \in Keys :
        (u # w \/ o # k) => mem'[u][o] = mem[u][o]
  OBVIOUS
<1>2. /\ \A u \in CacheWindows : u # w => mem'[u] = mem[u] /\ dirty'[u] = dirty[u]
      /\ dirty'[w] = dirty[w] \cup {k}
  OBVIOUS
<1>3. Resting'
  BY <1>2 DEF Resting
<1>4. DraftIsCurrent'
  BY <1>1, <1>2 DEF DraftIsCurrent
<1>5. SavedUnlessDirty'
  BY <1>1, <1>2 DEF SavedUnlessDirty
<1>6. QED
  BY <1>3, <1>4, <1>5

LEMMA PutInv ==
  ASSUME CacheInv, NEW w \in CacheWindows, NEW k \in Keys, NEW v \in Values,
         Put(w, k, v)
  PROVE  Resting' /\ DraftIsCurrent' /\ SavedUnlessDirty'
<1> DEFINE full == [mem[w] EXCEPT ![k] = [value |-> v, time |-> clock]]
<1>1. PICK evicted \in Evictions(full) :
         /\ mem' = [mem EXCEPT ![w] =
              [o \in Keys |-> IF o \in evicted THEN Absent ELSE full[o]]]
         /\ dirty' = [dirty EXCEPT ![w] = @ \cup {k} \cup evicted]
  BY DEF Put, NewEntry
<1>2. /\ \A u \in CacheWindows : u # w => mem'[u] = mem[u] /\ dirty'[u] = dirty[u]
      /\ dirty'[w] = dirty[w] \cup {k} \cup evicted
  BY <1>1 DEF CacheInv, CacheTypeOK
<1>3. \A o \in Keys : o # k /\ o \notin evicted => mem'[w][o] = mem[w][o]
  BY <1>1 DEF CacheInv, CacheTypeOK
<1>4. UNCHANGED <<table, batch, written, draft, flusher, calls, life, stray>>
  BY DEF Put, NewEntry, flushing, service
<1>5. Resting'
  BY <1>2, <1>4 DEF CacheInv, Resting, Put, NewEntry
<1>6. DraftIsCurrent'
  <2> SUFFICES ASSUME NEW u \in CacheWindows, NEW o \in written[u] \ dirty'[u]
               PROVE  draft[u][o] = mem'[u][o]
    BY <1>4 DEF DraftIsCurrent
  <2>1. o \in Keys /\ o \notin dirty[u]
    BY <1>2 DEF CacheInv, CacheTypeOK
  <2>2. mem'[u][o] = mem[u][o]
    BY <1>2, <1>3, <2>1
  <2>3. QED
    BY <2>1, <2>2 DEF CacheInv, DraftIsCurrent
<1>7. SavedUnlessDirty'
  BY <1>2, <1>3, <1>4 DEF CacheInv, SavedUnlessDirty
<1>8. QED
  BY <1>5, <1>6, <1>7

\* What the end of a transaction does to the flush of a window.
LEMMA EndFlushFacts ==
  ASSUME CacheTypeOK, NEW w \in CacheWindows, EndFlush(w)
  PROVE  /\ batch'[w] = {} /\ written'[w] = {}
         /\ \A u \in CacheWindows : u # w =>
              batch'[u] = batch[u] /\ written'[u] = written[u]
                /\ draft'[u] = draft[u]
BY DEF CacheTypeOK, EndFlush

LEMMA CommitInv ==
  ASSUME CacheInv, NEW w \in CacheWindows, Commit(w)
  PROVE  Resting' /\ DraftIsCurrent' /\ SavedUnlessDirty'
<1>1. UNCHANGED <<mem, dirty, calls, life>>
  BY DEF Commit, entries, service
<1>2. /\ batch'[w] = {} /\ written'[w] = {}
      /\ \A u \in CacheWindows : u # w =>
           batch'[u] = batch[u] /\ written'[u] = written[u] /\ draft'[u] = draft[u]
  BY EndFlushFacts DEF Commit, CacheInv
<1>3. /\ flusher'[w] = "none"
      /\ \A u \in CacheWindows : u # w => flusher'[u] = flusher[u]
  BY DEF Commit, CacheInv, CacheTypeOK
<1>4. /\ stray'[w] = stray[w] \ batch[w]
      /\ \A u \in CacheWindows : u # w =>
           stray'[u] = IF life[u] \in Alive THEN stray[u] \cup batch[w] ELSE {}
  BY DEF Commit
<1>5. \A k \in Keys : table'[k] = IF k \in batch[w] THEN draft[w][k] ELSE table[k]
  BY DEF Commit
<1>6. written[w] = batch[w] /\ flusher[w] # "none" /\ life[w] \in Alive
  BY DEF Commit, CacheInv, Resting
<1>7. Resting'
  BY <1>1, <1>2, <1>3, <1>4, <1>6 DEF CacheInv, Resting
<1>8. DraftIsCurrent'
  BY <1>1, <1>2 DEF CacheInv, DraftIsCurrent
<1>9. SavedUnlessDirty'
  <2> SUFFICES ASSUME NEW u \in CacheWindows, life[u] \in Alive,
                      NEW k \in Keys,
                      k \notin dirty[u], k \notin batch'[u], k \notin stray'[u]
               PROVE  table'[k] = mem[u][k]
    BY <1>1 DEF SavedUnlessDirty
  <2>1. CASE u = w /\ k \in batch[w]
    BY <2>1, <1>5, <1>6 DEF CacheInv, DraftIsCurrent
  <2>2. CASE u = w /\ k \notin batch[w]
    BY <2>2, <1>4, <1>5 DEF CacheInv, SavedUnlessDirty
  <2>3. CASE u # w
    BY <2>3, <1>2, <1>4, <1>5 DEF CacheInv, SavedUnlessDirty
  <2>4. QED
    BY <2>1, <2>2, <2>3
<1>10. QED
  BY <1>7, <1>8, <1>9

LEMMA RollBackInv ==
  ASSUME CacheInv, NEW w \in CacheWindows, RollBack(w),
         \A u \in CacheWindows : life'[u] \in Alive <=> life[u] \in Alive
  PROVE  Resting' /\ DraftIsCurrent' /\ SavedUnlessDirty'
<1>1. UNCHANGED <<table, mem, dirty, calls>>
  BY DEF RollBack, entries
<1>2. /\ batch'[w] = {} /\ written'[w] = {}
      /\ \A u \in CacheWindows : u # w =>
           batch'[u] = batch[u] /\ written'[u] = written[u] /\ draft'[u] = draft[u]
  BY EndFlushFacts DEF RollBack, CacheInv
<1>3. /\ flusher'[w] = "none"
      /\ \A u \in CacheWindows : u # w =>
           flusher'[u] = flusher[u] /\ stray'[u] = stray[u]
      /\ stray'[w] = stray[w] \cup batch[w]
  BY DEF RollBack, CacheInv, CacheTypeOK
<1>4. life[w] \in Alive
  BY DEF RollBack, CacheInv, Resting
<1>5. Resting'
  BY <1>1, <1>2, <1>3, <1>4 DEF CacheInv, Resting
<1>6. DraftIsCurrent'
  BY <1>1, <1>2 DEF CacheInv, DraftIsCurrent
<1>7. SavedUnlessDirty'
  BY <1>1, <1>2, <1>3 DEF CacheInv, SavedUnlessDirty
<1>8. QED
  BY <1>5, <1>6, <1>7

\* A window that goes takes nothing from another one.
LEMMA GoneFacts ==
  ASSUME CacheTypeOK, NEW w \in CacheWindows, Gone(w)
  PROVE  /\ mem'[w] = NoEntries /\ dirty'[w] = {} /\ stray'[w] = {}
         /\ flusher'[w] = "none" /\ life'[w] = "closed" /\ calls'[w] = {}
         /\ batch'[w] = {} /\ written'[w] = {} /\ table' = table
         /\ \A u \in CacheWindows : u # w =>
              /\ mem'[u] = mem[u] /\ dirty'[u] = dirty[u] /\ stray'[u] = stray[u]
              /\ flusher'[u] = flusher[u] /\ life'[u] = life[u]
              /\ batch'[u] = batch[u] /\ written'[u] = written[u]
              /\ draft'[u] = draft[u] /\ calls'[u] = calls[u]
BY EndFlushFacts DEF Gone, CacheTypeOK

LEMMA GoneInv ==
  ASSUME CacheInv, NEW w \in CacheWindows, Gone(w)
  PROVE  Resting' /\ DraftIsCurrent' /\ SavedUnlessDirty'
<1>1. Resting'
  BY GoneFacts DEF CacheInv, Resting, Alive
<1>2. DraftIsCurrent'
  BY GoneFacts DEF CacheInv, DraftIsCurrent
<1>3. SavedUnlessDirty'
  BY GoneFacts DEF CacheInv, SavedUnlessDirty, Alive
<1>4. QED
  BY <1>1, <1>2, <1>3

LEMMA InvStep ==
  ASSUME CacheInv, [CacheNext]_cacheVars
  PROVE  CacheInv'
<1>1. CacheTypeOK'
  BY TypeStep DEF CacheInv
<1> DEFINE Rest == Resting' /\ DraftIsCurrent' /\ SavedUnlessDirty'
<1>2. ASSUME NEW w \in CacheWindows, TimerFlush(w) PROVE Rest
  BY <1>2 DEF CacheInv, Resting, DraftIsCurrent, SavedUnlessDirty, TimerFlush,
              entries, service
<1>3. ASSUME NEW w \in CacheWindows, NEW caller \in Callers,
             FlushStart(w, caller)
      PROVE  Rest
  <2>1. /\ batch'[w] = dirty[w] /\ dirty'[w] = {} /\ flusher'[w] = caller
        /\ \A u \in CacheWindows : u # w =>
             /\ batch'[u] = batch[u] /\ dirty'[u] = dirty[u]
             /\ flusher'[u] = flusher[u]
        /\ UNCHANGED <<table, mem, written, draft, life, stray>>
    BY <1>3 DEF FlushStart, LeftDirty, CacheInv, CacheTypeOK, service
  <2>2. batch[w] = {} /\ written[w] = {}
    BY <1>3 DEF FlushStart, LeftDirty, CacheInv, Resting
  <2>3. life[w] \in Alive
    BY <1>3 DEF FlushStart, LeftDirty, CacheInv, Resting, Callers
  <2>4. calls'[w] \subseteq calls[w] /\ \A u \in CacheWindows : u # w => calls'[u] = calls[u]
    BY <1>3 DEF FlushStart, LeftDirty, CacheInv, CacheTypeOK
  <2>5. Resting'
    BY <2>1, <2>2, <2>3, <2>4 DEF CacheInv, Resting, Callers
  <2>6. DraftIsCurrent'
    BY <2>1, <2>2 DEF CacheInv, DraftIsCurrent
  <2>7. SavedUnlessDirty'
    BY <2>1, <2>2 DEF CacheInv, SavedUnlessDirty
  <2>8. QED
    BY <2>5, <2>6, <2>7
<1>4. ASSUME NEW w \in CacheWindows, NEW k \in Keys, WriteRow(w, k) PROVE Rest
  <2>1. /\ written'[w] = written[w] \cup {k}
        /\ draft'[w][k] = mem[w][k]
        /\ \A o \in Keys : o # k => draft'[w][o] = draft[w][o]
        /\ \A u \in CacheWindows : u # w =>
             written'[u] = written[u] /\ draft'[u] = draft[u]
    BY <1>4 DEF WriteRow, RowFor, CacheInv, CacheTypeOK
  <2>2. UNCHANGED <<table, mem, dirty, batch, flusher, calls, life, stray>>
    BY <1>4 DEF WriteRow, entries, service
  <2>3. Resting'
    BY <1>4, <2>1, <2>2 DEF CacheInv, Resting, WriteRow
  <2>4. DraftIsCurrent'
    <3> SUFFICES ASSUME NEW u \in CacheWindows,
                        NEW o \in written'[u], o \notin dirty[u]
                 PROVE  draft'[u][o] = mem[u][o]
      BY <2>2 DEF DraftIsCurrent
    <3>1. CASE u = w /\ o = k
      BY <3>1, <2>1
    <3>2. CASE u = w /\ o # k
      BY <3>2, <2>1 DEF CacheInv, CacheTypeOK, DraftIsCurrent
    <3>3. CASE u # w
      BY <3>3, <2>1 DEF CacheInv, DraftIsCurrent
    <3>4. QED
      BY <3>1, <3>2, <3>3
  <2>5. SavedUnlessDirty'
    BY <2>2 DEF CacheInv, SavedUnlessDirty
  <2>6. QED
    BY <2>3, <2>4, <2>5
<1>5. ASSUME NEW w \in CacheWindows, BusyTimeout(w) PROVE Rest
  BY <1>5, RollBackInv DEF BusyTimeout
<1>6. ASSUME NEW w \in CacheWindows, NEW throws \in BOOLEAN,
             FlushFails(w, throws)
      PROVE  Rest
  <2>1. life[w] \in Alive
    BY <1>6 DEF FlushFails, RollBack, CacheInv, Resting
  <2>2. \A u \in CacheWindows : life'[u] \in Alive <=> life[u] \in Alive
    BY <1>6, <2>1 DEF FlushFails, CacheInv, CacheTypeOK, Alive
  <2>3. QED
    BY <1>6, <2>2, RollBackInv DEF FlushFails
<1>7. ASSUME NEW w \in CacheWindows, OpenCache(w) PROVE Rest
  <2>1. /\ mem'[w] = table /\ stray'[w] = {} /\ life'[w] = "open"
        /\ \A u \in CacheWindows : u # w =>
             mem'[u] = mem[u] /\ stray'[u] = stray[u] /\ life'[u] = life[u]
        /\ UNCHANGED <<table, dirty, batch, written, draft, flusher, calls>>
    BY <1>7 DEF OpenCache, CacheInv, CacheTypeOK, flushing
  <2>2. batch[w] = {} /\ written[w] = {}
    BY <1>7 DEF OpenCache, CacheInv, Resting, Alive
  <2>3. QED
    BY <2>1, <2>2
       DEF CacheInv, Resting, DraftIsCurrent, SavedUnlessDirty, Alive
<1>8. ASSUME NEW w \in CacheWindows, OpenFails(w) PROVE Rest
  <2>1. /\ \A u \in CacheWindows : life'[u] \in Alive <=> life[u] \in Alive
        /\ UNCHANGED <<table, mem, dirty, flushing, stray>>
    BY <1>8 DEF OpenFails, CacheInv, CacheTypeOK, Alive, entries
  <2>2. QED
    BY <2>1 DEF CacheInv, Resting, DraftIsCurrent, SavedUnlessDirty, flushing
<1>9. ASSUME NEW w \in CacheWindows, CloseCalled(w) PROVE Rest
  <2>1. /\ \A u \in CacheWindows : life'[u] \in Alive <=> life[u] \in Alive
        /\ UNCHANGED <<table, mem, dirty, batch, written, draft, flusher, stray>>
        /\ life[w] \in Alive
        /\ \A u \in CacheWindows : u # w => calls'[u] = calls[u]
    BY <1>9 DEF CloseCalled, CacheInv, CacheTypeOK, Alive, entries
  <2>2. QED
    BY <2>1 DEF CacheInv, Resting, DraftIsCurrent, SavedUnlessDirty
<1>10. ASSUME NEW w \in CacheWindows, CloseDatabase(w) \/ WindowDies(w)
       PROVE  Rest
  BY <1>10, GoneInv DEF CloseDatabase, WindowDies
<1>11. ASSUME ClockTicks \/ UNCHANGED cacheVars PROVE Rest
  BY <1>11 DEF CacheInv, Resting, DraftIsCurrent, SavedUnlessDirty, ClockTicks,
               cacheVars, entries, flushing, service
<1>12. QED
  BY <1>1, <1>2, <1>3, <1>4, <1>5, <1>6, <1>7, <1>8, <1>9, <1>10, <1>11,
     LookupInv, PutInv, CommitInv DEF CacheInv, CacheNext, FlushStep

\* What a window has and does not count as dirty is in the table, except for
\* the keys of a failed flush and those another window has written since.
THEOREM SavedUnlessDirtyHolds == CacheSpec => []SavedUnlessDirty
<1>1. CacheInit => CacheInv
  BY InitInv
<1>2. CacheInv /\ [CacheNext]_cacheVars => CacheInv'
  BY InvStep
<1>3. CacheInv => SavedUnlessDirty
  BY DEF CacheInv
<1>4. QED
  BY <1>1, <1>2, <1>3, PTL DEF CacheSpec

-----------------------------------------------------------------------------
(***************************************************************************)
(* The refinement of DurableMap                                            *)
(***************************************************************************)
Pending(w) == dirty[w] \cup batch[w]
Joined == {w \in CacheWindows : life[w] \in Alive}
Unsaved == [w \in CacheWindows |-> Pending(w)]

LEMMA MapInitial == CacheInit => Durable!MapInit
BY DEF CacheInit, Durable!MapInit, NoEntries, Alive

\* A step in which nothing reaches the table and no window comes or goes.
LEMMA ChangeStep ==
  ASSUME CacheInv, NEW w \in CacheWindows, life[w] \in Alive,
         UNCHANGED <<table, batch, life, stray>>,
         dirty[w] \subseteq dirty'[w],
         \A k \in Keys : mem'[w][k] # mem[w][k] => k \in dirty'[w],
         \A u \in CacheWindows : u # w => mem'[u] = mem[u] /\ dirty'[u] = dirty[u]
  PROVE  Durable!Change(w)
BY DEF Durable!Change, Durable!OthersKeep

\* A step after which every window has the same changes pending.
LEMMA StutterStep ==
  ASSUME UNCHANGED <<table, mem, stray>>,
         \A w \in CacheWindows : Pending(w)' = Pending(w),
         \A w \in CacheWindows : life'[w] \in Alive <=> life[w] \in Alive
  PROVE  UNCHANGED Durable!mapVars
<1>1. Joined' = Joined
  BY DEF Joined
<1>2. Unsaved' = Unsaved
  BY DEF Unsaved
<1>3. QED
  BY <1>1, <1>2 DEF Durable!mapVars, Joined, Unsaved, Pending

LEMMA RollBackStep ==
  ASSUME CacheInv, NEW w \in CacheWindows, RollBack(w),
         \A u \in CacheWindows : life'[u] \in Alive <=> life[u] \in Alive
  PROVE  Durable!Drop(w)
<1>1. UNCHANGED <<table, mem, dirty>>
  BY DEF RollBack, entries
<1>2. /\ batch'[w] = {}
      /\ \A u \in CacheWindows : u # w => batch'[u] = batch[u]
  BY EndFlushFacts DEF RollBack, CacheInv
<1>3. /\ \A u \in CacheWindows : u # w => stray'[u] = stray[u]
      /\ stray'[w] = stray[w] \cup batch[w]
  BY DEF RollBack, CacheInv, CacheTypeOK
<1>4. life[w] \in Alive
  BY DEF RollBack, CacheInv, Resting
<1>5. {u \in CacheWindows : life'[u] \in Alive} = {u \in CacheWindows : life[u] \in Alive}
  OBVIOUS
<1>6. QED
  BY <1>1, <1>2, <1>3, <1>4, <1>5 DEF Durable!Drop, Durable!OthersKeep

LEMMA GoneStep ==
  ASSUME CacheInv, NEW w \in CacheWindows, Gone(w), life[w] \in Alive
  PROVE  Durable!Leave(w)
<1>1. {u \in CacheWindows : life'[u] \in Alive}
        = {u \in CacheWindows : life[u] \in Alive} \ {w}
  BY GoneFacts DEF CacheInv, Alive
<1>2. QED
  BY <1>1, GoneFacts DEF CacheInv, Durable!Leave, Durable!OthersKeep

LEMMA CommitStep ==
  ASSUME CacheInv, NEW w \in CacheWindows, Commit(w)
  PROVE  Durable!Save(w)
<1>1. UNCHANGED <<mem, dirty, life>>
  BY DEF Commit, entries, service
<1>2. /\ batch'[w] = {}
      /\ \A u \in CacheWindows : u # w => batch'[u] = batch[u]
  BY EndFlushFacts DEF Commit, CacheInv
<1>3. /\ stray'[w] = stray[w] \ batch[w]
      /\ \A u \in CacheWindows : (u # w /\ life[u] \in Alive) =>
           stray'[u] = stray[u] \cup batch[w]
  BY DEF Commit
<1>4. \A k \in Keys : table'[k] = IF k \in batch[w] THEN draft[w][k] ELSE table[k]
  BY DEF Commit
<1>5. \A k \in batch[w] \ dirty[w] : draft[w][k] = mem[w][k]
  BY DEF Commit, CacheInv, DraftIsCurrent
<1>6. life[w] \in Alive /\ batch[w] \subseteq Keys /\ dirty[w] \subseteq Keys
  BY DEF Commit, CacheInv, Resting, CacheTypeOK
<1>7. \A k \in Pending(w) \ dirty[w] : table'[k] = mem[w][k]
  BY <1>4, <1>5, <1>6 DEF Pending
<1>8. QED
  BY <1>1, <1>2, <1>3, <1>4, <1>6, <1>7
     DEF Durable!Save, Durable!OthersKeep, Pending

LEMMA MapStep ==
  ASSUME CacheInv, [CacheNext]_cacheVars
  PROVE  [Durable!MapNext]_Durable!mapVars
<1> DEFINE Maps == [Durable!MapNext]_Durable!mapVars
<1>1. ASSUME NEW w \in CacheWindows, NEW k \in Keys, Lookup(w, k) PROVE Maps
  <2>1. /\ \A o \in Keys : o # k => mem'[w][o] = mem[w][o]
        /\ dirty'[w] = dirty[w] \cup {k}
        /\ \A u \in CacheWindows : u # w => mem'[u] = mem[u] /\ dirty'[u] = dirty[u]
    BY <1>1 DEF Lookup, Dirtied, CacheInv, CacheTypeOK
  <2>2. Durable!Change(w)
    BY <1>1, <2>1, ChangeStep DEF Lookup, flushing, service
  <2>3. QED
    BY <2>2 DEF Durable!MapNext
<1>2. ASSUME NEW w \in CacheWindows, NEW k \in Keys, NEW v \in Values,
             Put(w, k, v)
      PROVE  Maps
  <2> DEFINE full == [mem[w] EXCEPT ![k] = [value |-> v, time |-> clock]]
  <2>1. PICK evicted \in Evictions(full) :
           /\ mem' = [mem EXCEPT ![w] =
                [o \in Keys |-> IF o \in evicted THEN Absent ELSE full[o]]]
           /\ dirty' = [dirty EXCEPT ![w] = @ \cup {k} \cup evicted]
    BY <1>2 DEF Put, NewEntry
  <2>2. /\ \A u \in CacheWindows : u # w => mem'[u] = mem[u] /\ dirty'[u] = dirty[u]
        /\ dirty'[w] = dirty[w] \cup {k} \cup evicted
    BY <2>1 DEF CacheInv, CacheTypeOK
  <2>3. \A o \in Keys : o # k /\ o \notin evicted => mem'[w][o] = mem[w][o]
    BY <2>1 DEF CacheInv, CacheTypeOK
  <2>4. Durable!Change(w)
    BY <1>2, <2>2, <2>3, ChangeStep DEF Put, NewEntry, flushing, service
  <2>5. QED
    BY <2>4 DEF Durable!MapNext
<1>3. ASSUME NEW w \in CacheWindows, NEW caller \in Callers,
             FlushStart(w, caller)
      PROVE  Maps
  <2>1. /\ batch'[w] = dirty[w] /\ dirty'[w] = {}
        /\ \A u \in CacheWindows : u # w =>
             batch'[u] = batch[u] /\ dirty'[u] = dirty[u]
    BY <1>3 DEF FlushStart, LeftDirty, CacheInv, CacheTypeOK
  <2>2. batch[w] = {}
    BY <1>3 DEF FlushStart, LeftDirty, CacheInv, Resting
  <2>3. \A u \in CacheWindows : Pending(u)' = Pending(u)
    BY <2>1, <2>2 DEF Pending
  <2>4. QED
    BY <1>3, <2>3, StutterStep DEF FlushStart, LeftDirty, service
<1>4. ASSUME NEW w \in CacheWindows,
             TimerFlush(w) \/ \E k \in Keys : WriteRow(w, k)
      PROVE  Maps
  BY <1>4, StutterStep DEF TimerFlush, WriteRow, entries, service, Pending
<1>5. ASSUME NEW w \in CacheWindows, Commit(w) PROVE Maps
  BY <1>5, CommitStep DEF Durable!MapNext
<1>6. ASSUME NEW w \in CacheWindows,
             BusyTimeout(w) \/ \E throws \in BOOLEAN : FlushFails(w, throws)
      PROVE  Maps
  <2>1. RollBack(w)
    BY <1>6 DEF BusyTimeout, FlushFails
  <2>2. life[w] \in Alive
    BY <2>1 DEF RollBack, CacheInv, Resting
  <2>3. \A u \in CacheWindows : life'[u] \in Alive <=> life[u] \in Alive
    BY <1>6, <2>2 DEF BusyTimeout, FlushFails, CacheInv, CacheTypeOK, Alive
  <2>4. QED
    BY <2>1, <2>3, RollBackStep DEF Durable!MapNext
<1>7. ASSUME NEW w \in CacheWindows, OpenCache(w) PROVE Maps
  <2>1. /\ life[w] \notin Alive /\ batch[w] = {} /\ dirty[w] = {}
        /\ life' = [life EXCEPT ![w] = "open"]
    BY <1>7 DEF OpenCache, CacheInv, Resting, Alive
  <2>2. {u \in CacheWindows : life'[u] \in Alive}
          = {u \in CacheWindows : life[u] \in Alive} \cup {w}
    BY <2>1 DEF CacheInv, CacheTypeOK, Alive
  <2>3. [u \in CacheWindows |-> dirty[u] \cup batch[u]]
          = [[u \in CacheWindows |-> dirty[u] \cup batch[u]] EXCEPT ![w] = {}]
    BY <2>1
  <2>4. Durable!Join(w)
    BY <1>7, <2>1, <2>2, <2>3 DEF OpenCache, flushing, Durable!Join
  <2>5. QED
    BY <2>4 DEF Durable!MapNext
<1>8. ASSUME NEW w \in CacheWindows, OpenFails(w) \/ CloseCalled(w) PROVE Maps
  <2>1. \A u \in CacheWindows : life'[u] \in Alive <=> life[u] \in Alive
    BY <1>8 DEF OpenFails, CloseCalled, CacheInv, CacheTypeOK, Alive
  <2>2. QED
    BY <1>8, <2>1, StutterStep
       DEF OpenFails, CloseCalled, entries, flushing, Pending
<1>9. ASSUME NEW w \in CacheWindows, CloseDatabase(w) \/ WindowDies(w) PROVE Maps
  <2>1. CASE life[w] \in Alive
    BY <1>9, <2>1, GoneStep DEF CloseDatabase, WindowDies, Durable!MapNext
  <2>2. CASE life[w] \notin Alive
    <3>1. mem' = mem /\ stray' = stray
      BY <1>9, <2>2 DEF CloseDatabase, WindowDies, Gone, CacheInv, CacheTypeOK, Resting
    <3>2. \A u \in CacheWindows : Pending(u)' = Pending(u)
      BY <1>9, <2>2, GoneFacts
         DEF CloseDatabase, WindowDies, CacheInv, Resting, Pending
    <3>3. \A u \in CacheWindows : life'[u] \in Alive <=> life[u] \in Alive
      BY <1>9, <2>2, GoneFacts DEF CloseDatabase, WindowDies, CacheInv, Alive
    <3>4. QED
      BY <1>9, <3>1, <3>2, <3>3, StutterStep DEF CloseDatabase, WindowDies, Gone
  <2>3. QED
    BY <2>1, <2>2
<1>10. ASSUME ClockTicks \/ UNCHANGED cacheVars PROVE Maps
  BY <1>10, StutterStep DEF ClockTicks, cacheVars, entries, flushing, service, Pending
<1>11. QED
  BY <1>1, <1>2, <1>3, <1>4, <1>5, <1>6, <1>7, <1>8, <1>9, <1>10
     DEF CacheNext, FlushStep

\* The cache implements the durable map: a transaction reaches the table as a
\* whole or not at all, and what stops being pending is saved or given up.
THEOREM ImplementsDurableMapHolds == CacheSpec => ImplementsDurableMap
<1>1. CacheInit => CacheInv
  BY InitInv
<1>2. CacheInv /\ [CacheNext]_cacheVars => CacheInv'
  BY InvStep
<1>3. CacheInit => Durable!MapInit
  BY MapInitial
<1>4. CacheInv /\ [CacheNext]_cacheVars => [Durable!MapNext]_Durable!mapVars
  BY MapStep
<1>5. QED
  BY <1>1, <1>2, <1>3, <1>4, PTL
     DEF CacheSpec, ImplementsDurableMap, Durable!MapSpec

-----------------------------------------------------------------------------
(***************************************************************************)
(* The size of the cache                                                   *)
(***************************************************************************)
Size(m) == Cardinality(Cached(m))

LEMMA CachedIsFinite ==
  ASSUME NEW m \in [Keys -> MaybeEntry]
  PROVE  IsFiniteSet(Cached(m)) /\ Size(m) \in Nat
<1>1. IsFiniteSet(Cached(m))
  BY FS_Subset, CacheAssumption DEF Cached
<1>2. QED
  BY <1>1, FS_CardinalityType DEF Size

LEMMA FewerCached ==
  ASSUME NEW m \in [Keys -> MaybeEntry], NEW n \in [Keys -> MaybeEntry],
         Cached(n) \subseteq Cached(m)
  PROVE  Size(n) <= Size(m)
BY CachedIsFinite, FS_Subset DEF Size

\* A lookup changes no more than the time of an entry.
LEMMA LookupKeepsSize ==
  ASSUME CacheTypeOK, NEW w \in CacheWindows, NEW k \in Keys, Lookup(w, k)
  PROVE  Cached(mem'[w]) \subseteq Cached(mem[w])
<1>1. \A o \in Keys : o # k => mem'[w][o] = mem[w][o]
  BY DEF Lookup, CacheTypeOK
<1>2. mem[w][k] # Absent
  BY DEF Lookup
<1>3. QED
  BY <1>1, <1>2 DEF Cached

\* A put adds its key and, beyond the capacity, deletes another one.
LEMMA PutIsBounded ==
  ASSUME CacheTypeOK, CacheTypeOK', NEW w \in CacheWindows, NEW k \in Keys,
         NEW v \in Values, Put(w, k, v), EmptyKey \notin Cached(mem'[w])
  PROVE  Size(mem'[w]) <= Capacity \/ Size(mem'[w]) <= Size(mem[w])
<1> DEFINE full == [mem[w] EXCEPT ![k] = [value |-> v, time |-> clock]]
<1>1. PICK evicted \in Evictions(full) :
         mem' = [mem EXCEPT ![w] =
                  [o \in Keys |-> IF o \in evicted THEN Absent ELSE full[o]]]
  BY DEF Put, NewEntry
<1>2. mem[w] \in [Keys -> MaybeEntry] /\ mem'[w] \in [Keys -> MaybeEntry]
  BY DEF CacheTypeOK
<1>3. full \in [Keys -> MaybeEntry] /\ full[k] # Absent
  BY <1>2, CacheAssumption DEF CacheTypeOK, MaybeEntry, Entry
<1>4. Cached(mem'[w]) = Cached(full) \ evicted
  <2>1. \A o \in Keys :
          mem'[w][o] = IF o \in evicted THEN Absent ELSE full[o]
    BY <1>1, <1>2 DEF CacheTypeOK
  <2> HIDE DEF full
  <2>2. QED
    BY <2>1 DEF Cached
<1>5. Size(full) <= Size(mem[w]) + 1
  <2>1. Cached(full) \subseteq Cached(mem[w]) \cup {k}
    BY <1>2 DEF Cached
  <2>2. /\ IsFiniteSet(Cached(mem[w]) \cup {k})
        /\ Cardinality(Cached(mem[w]) \cup {k}) <= Size(mem[w]) + 1
    <3>1. IsFiniteSet(Cached(mem[w])) /\ Size(mem[w]) \in Nat
      BY <1>2, CachedIsFinite
    <3>2. /\ IsFiniteSet(Cached(mem[w]) \cup {k})
          /\ \/ Cardinality(Cached(mem[w]) \cup {k}) = Cardinality(Cached(mem[w]))
             \/ Cardinality(Cached(mem[w]) \cup {k}) = Cardinality(Cached(mem[w])) + 1
      BY <3>1, FS_AddElement
    <3>3. QED
      BY <3>1, <3>2 DEF Size
  <2>3. Size(full) <= Cardinality(Cached(mem[w]) \cup {k})
    BY <2>1, <2>2, FS_Subset DEF Size
  <2> HIDE DEF full
  <2>4. QED
    BY <1>2, <1>3, <2>2, <2>3, CachedIsFinite, FS_CardinalityType
<1> HIDE DEF full
<1>6. CASE ~Overfull(full)
  <2>1. Size(full) <= Capacity
    BY <1>3, <1>6, CachedIsFinite, CacheAssumption DEF Overfull, Size
  <2>2. Size(mem'[w]) <= Size(full)
    BY <1>2, <1>3, <1>4, FewerCached
  <2>3. QED
    BY <1>2, <1>3, <2>1, <2>2, CachedIsFinite, CacheAssumption
<1>7. CASE Overfull(full)
  <2>1. PICK o \in Oldest(full) : evicted = {o} \ {EmptyKey}
    BY <1>1, <1>7 DEF Evictions
  <2>2. o \in Cached(full)
    BY <2>1 DEF Oldest
  <2>3. o # EmptyKey
    BY <1>4, <2>1, <2>2
  <2>4. Cached(mem'[w]) = Cached(full) \ {o}
    BY <1>4, <2>1, <2>3
  <2>5. Size(mem'[w]) = Size(full) - 1
    BY <1>3, <2>2, <2>4, CachedIsFinite, FS_RemoveElement DEF Size
  <2>6. QED
    BY <1>2, <1>3, <1>5, <2>5, CachedIsFinite
<1>8. QED
  BY <1>6, <1>7

\* A window that stays alive gets no larger cache by any step, except by a put,
\* which keeps within the capacity.
LEMMA SizeStep ==
  ASSUME CacheTypeOK, CacheTypeOK', [CacheNext]_cacheVars,
         NEW w \in CacheWindows, life[w] \in Alive, life'[w] \in Alive,
         EmptyKey \notin Cached(mem'[w])
  PROVE  Size(mem'[w]) <= Capacity \/ Size(mem'[w]) <= Size(mem[w])
<1> DEFINE Bounded == Size(mem'[w]) <= Capacity \/ Size(mem'[w]) <= Size(mem[w])
<1>1. mem[w] \in [Keys -> MaybeEntry] /\ mem'[w] \in [Keys -> MaybeEntry]
  BY DEF CacheTypeOK
<1>2. ASSUME mem'[w] = mem[w] PROVE Bounded
  BY <1>1, <1>2, CachedIsFinite
<1>3. ASSUME NEW u \in CacheWindows, NEW k \in Keys, Lookup(u, k) PROVE Bounded
  <2>1. CASE u = w
    BY <1>1, <1>3, <2>1, LookupKeepsSize, FewerCached
  <2>2. CASE u # w
    BY <1>2, <1>3, <2>2 DEF Lookup, CacheTypeOK
  <2>3. QED
    BY <2>1, <2>2
<1>4. ASSUME NEW u \in CacheWindows, NEW k \in Keys, NEW v \in Values,
             Put(u, k, v)
      PROVE  Bounded
  <2>1. CASE u = w
    BY <1>4, <2>1, PutIsBounded
  <2>2. CASE u # w
    <3>1. mem'[w] = mem[w]
      BY <1>4, <2>2 DEF Put, CacheTypeOK
    <3>2. QED
      BY <1>2, <3>1
  <2>3. QED
    BY <2>1, <2>2
<1>5. ASSUME NEW u \in CacheWindows, OpenCache(u) PROVE Bounded
  <2>1. u # w
    BY <1>5 DEF OpenCache, Alive
  <2>2. mem'[w] = mem[w]
    BY <1>5, <2>1 DEF OpenCache, CacheTypeOK
  <2>3. QED
    BY <1>2, <2>2
<1>6. ASSUME NEW u \in CacheWindows, CloseDatabase(u) \/ WindowDies(u)
      PROVE  Bounded
  <2>1. Gone(u)
    BY <1>6 DEF CloseDatabase, WindowDies
  <2>2. u # w
    BY <2>1 DEF Gone, CacheTypeOK, Alive
  <2>3. mem'[w] = mem[w]
    BY <2>1, <2>2 DEF Gone, CacheTypeOK
  <2>4. QED
    BY <1>2, <2>3
<1>7. ASSUME mem' = mem PROVE Bounded
  BY <1>2, <1>7
<1>8. ASSUME NEW u \in CacheWindows,
             \/ TimerFlush(u) \/ FlushStep(u)
             \/ \E throws \in BOOLEAN : FlushFails(u, throws)
             \/ OpenFails(u) \/ CloseCalled(u)
      PROVE  Bounded
  <2>1. mem' = mem
    BY <1>8 DEF TimerFlush, FlushStep, FlushStart, WriteRow, Commit, BusyTimeout,
                FlushFails, RollBack, OpenFails, CloseCalled, entries
  <2>2. QED
    BY <1>7, <2>1
<1>9. ASSUME ClockTicks \/ UNCHANGED cacheVars PROVE Bounded
  BY <1>7, <1>9 DEF ClockTicks, cacheVars, entries
<1> HIDE DEF Bounded
<1>10. Bounded
  BY <1>3, <1>4, <1>5, <1>6, <1>8, <1>9 DEF CacheNext
<1>11. QED
  BY <1>10 DEF Bounded

\* Storing a completion never makes the cache larger than its capacity, or than
\* what was loaded, as long as the empty prefix is not in it: whatever is looked
\* up, flushed, rolled back, opened or closed in the windows meanwhile.
THEOREM PutKeepsSizeHolds == CacheSpec => PutKeepsSize
<1> DEFINE Kept ==
      \A w \in CacheWindows :
        (life[w] \in Alive /\ life'[w] \in Alive /\ EmptyKey \notin Cached(mem'[w])) =>
          \/ Cardinality(Cached(mem'[w])) <= Capacity
          \/ Cardinality(Cached(mem'[w])) <= Cardinality(Cached(mem[w]))
<1>1. CacheInit => CacheInv
  BY InitInv
<1>2. CacheInv /\ [CacheNext]_cacheVars => CacheInv'
  BY InvStep
<1>3. CacheInv /\ CacheInv' /\ [CacheNext]_cacheVars => [Kept]_cacheVars
  <2> SUFFICES ASSUME CacheInv, CacheInv', [CacheNext]_cacheVars PROVE Kept
    OBVIOUS
  <2>1. QED
    BY SizeStep DEF CacheInv, Size
<1>4. QED
  BY <1>1, <1>2, <1>3, PTL DEF CacheSpec, PutKeepsSize
=============================================================================
