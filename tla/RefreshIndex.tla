----------------------------- MODULE RefreshIndex -----------------------------
(***************************************************************************)
(* Content-addressed refresh planning: the tag catalog, the global cache,  *)
(* and the four lists that an index is asked to process                    *)
(* (core/indexing/refreshIndex.ts, called by indexFiles and refreshFile of *)
(* CodebaseIndexer.ts).                                                    *)
(*                                                                         *)
(* One artifact and one directory are modelled, so a tag is a branch.  The *)
(* content of a file is the text readFile gives, which stands for its      *)
(* sha256 as well: in VS Code that is the first 100 KB of the file, and    *)
(* nothing at all of a file above 1 MB.  A file that is missing, ignored   *)
(* or above 5 MB is None.  A plan fits in one batch.                       *)
(* What an index stores between two calls of markComplete is the subject   *)
(* of ChunkIndex.                                                          *)
(***************************************************************************)
EXTENDS Integers, FiniteSets

CONSTANTS Paths,      \* files of the workspace
          Contents,   \* contents a file may have, and their cache keys
          MayHold,    \* the contents each file may have
          Branches,   \* branches of the repository, that is, tags
          Jobs,       \* runs of the planner, one per refresh
          Missing,    \* what readFile gives for a file that is no longer there:
                      \* the empty content (VS Code, IntelliJ), or None if it
                      \* throws (the file system of core)
          Buffers,    \* files open in an editor with unsaved changes
          Scope,      \* the file a run is for, or None for the directory
          None,       \* no file, no content, no timestamp
          Order,      \* the place of each list in the update of the index
          Serial,     \* whether the refreshes run one after the other
          MaxTime,    \* bound on the clock
          MaxFaults   \* bound on crashes and failed updates

Lists == {"compute", "addTag", "removeTag", "del"}

ASSUME DataAssumption ==
  /\ MayHold \in [Paths -> SUBSET Contents]
  /\ Missing \in Contents \cup {None} /\ Buffers \subseteq Paths
  /\ Scope \in [Jobs -> Paths \cup {None}]
  /\ None \notin Paths /\ None \notin Contents /\ None \notin Int

ASSUME OrderAssumption == Order \in [Lists -> Nat]

ASSUME BoundsAssumption ==
  /\ Serial \in BOOLEAN
  /\ MaxTime \in Nat
  /\ MaxFaults \in Nat

VARIABLES
  disk,      \* content of each file of the working tree
  mtime,     \* its modification time
  head,      \* the branch that is checked out
  now,       \* the clock
  catalog,   \* rows of tag_catalog
  cache,     \* rows of global_cache
  pc,        \* where each run is
  tag,       \* its tag
  stats,     \* modification times it was given
  stamp,     \* newLastUpdatedTimestamp
  saved,     \* rows of the catalog it has read
  hash,      \* hashes of the files it has read
  todo,      \* operations its index has still to complete
  uncached,  \* operations marked in the catalog, not yet in the cache
  touched,   \* files that changed in time only
  faults,    \* crashes, failures and files read as Missing so far
  clean      \* whether nothing has disturbed the run

world == <<disk, mtime, head, now>>
tables == <<catalog, cache>>
locals == <<stats, stamp, saved, hash>>
lists == <<todo, uncached, touched>>
history == <<faults, clean>>      \* read by the properties and the bounds only

vars == <<world, tables, pc, tag, locals, lists, history>>

Row == [tag : Branches, path : Paths, key : Contents, time : Nat]
Tagged == [tag : Branches, key : Contents]
Op == [list : Lists, path : Paths, key : Contents]
Item == [path : Paths, key : Contents]

Running == {"stat", "stamp", "saved", "read", "update"}

TypeOK ==
  /\ disk \in [Paths -> Contents \cup {None}]
  /\ mtime \in [Paths -> Nat]
  /\ head \in Branches
  /\ now \in Nat
  /\ catalog \subseteq Row
  /\ cache \subseteq Tagged
  /\ pc \in [Jobs -> {"idle", "done", "crashed"} \cup Running]
  /\ tag \in [Jobs -> Branches]
  /\ stats \in [Jobs -> [Paths -> Nat \cup {None}]]
  /\ stamp \in [Jobs -> Nat]
  /\ saved \in [Jobs -> SUBSET Row]
  /\ hash \in [Jobs -> [Paths -> Contents \cup {None}]]
  /\ todo \in [Jobs -> SUBSET Op]
  /\ uncached \in [Jobs -> SUBSET Op]
  /\ touched \in [Jobs -> SUBSET Item]
  /\ faults \in Nat
  /\ clean \in [Jobs -> BOOLEAN]

Nothing == [p \in Paths |-> None]

Init ==
  /\ disk \in [Paths -> Contents \cup {None}]
  /\ \A p \in Paths : disk[p] \in MayHold[p] \cup {None}
  /\ mtime = [p \in Paths |-> 0]
  /\ head \in Branches
  /\ now = 0
  /\ catalog = {} /\ cache = {}
  /\ pc = [j \in Jobs |-> "idle"]
  /\ tag = [j \in Jobs |-> head]
  /\ stats = [j \in Jobs |-> Nothing]
  /\ stamp = [j \in Jobs |-> 0]
  /\ saved = [j \in Jobs |-> {}]
  /\ hash = [j \in Jobs |-> Nothing]
  /\ todo = [j \in Jobs |-> {}]
  /\ uncached = [j \in Jobs |-> {}]
  /\ touched = [j \in Jobs |-> {}]
  /\ faults = 0
  /\ clean = [j \in Jobs |-> FALSE]

Active(j) == pc[j] \in Running
Goto(j, place) == pc' = [pc EXCEPT ![j] = place]

\* The runs in Over return, or die with their window.
End(Over, place) ==
  /\ pc' = [j \in Jobs |-> IF j \in Over THEN place ELSE pc[j]]
  /\ stats' = [j \in Jobs |-> IF j \in Over THEN Nothing ELSE stats[j]]
  /\ stamp' = [j \in Jobs |-> IF j \in Over THEN 0 ELSE stamp[j]]
  /\ saved' = [j \in Jobs |-> IF j \in Over THEN {} ELSE saved[j]]
  /\ hash' = [j \in Jobs |-> IF j \in Over THEN Nothing ELSE hash[j]]

-----------------------------------------------------------------------------
(***************************************************************************)
(* The tables                                                              *)
(***************************************************************************)
RowsOf(t, p) == {r \in catalog : r.tag = t /\ r.path = p}
IsRowOf(r, t, item) == r.tag = t /\ r.path = item.path /\ r.key = item.key

\* getTagsFromGlobalCache
TagsOf(key) == {t \in Branches : [tag |-> t, key |-> key] \in cache}

\* The time a version is recorded with.
MarkedAtCompletion(j) == now
MarkedAtNoTime(j) == None
MarkedAt(j) == stamp[j]

\* REPLACE INTO tag_catalog, for the lists compute and addTag.
WithRow(j, op) ==
  {r \in catalog : ~IsRowOf(r, tag[j], op)}
    \cup {[tag |-> tag[j], path |-> op.path, key |-> op.key, time |-> MarkedAt(j)]}

\* DELETE FROM tag_catalog, for the lists removeTag and del.
WithoutRow(j, op) == {r \in catalog : ~IsRowOf(r, tag[j], op)}

Adds(op) == op.list \in {"compute", "addTag"}

\* GlobalCacheCodeBaseIndex.update
NeverForgotten(j) == {}
Forgotten(j) == {[tag |-> tag[j], key |-> op.key] :
                    op \in {o \in uncached[j] : ~Adds(o)}}
NothingRemembered(j) == {}
Remembered(j) == {[tag |-> tag[j], key |-> op.key] :
                    op \in {o \in uncached[j] : Adds(o)}}

-----------------------------------------------------------------------------
(***************************************************************************)
(* Planning, as a function of what a run has read                          *)
(***************************************************************************)
Versions(j, p) == {r \in saved[j] : r.path = p}

Latest(j, p) ==
  CHOOSE r \in Versions(j, p) : \A s \in Versions(j, p) : s.time <= r.time

IsPresent(j, p) == stats[j][p] # None

IsNew(j, p) == Versions(j, p) = {} /\ IsPresent(j, p)

IsChanged(j, p) ==
  /\ Versions(j, p) # {} /\ IsPresent(j, p)
  /\ Latest(j, p).time < stats[j][p]

\* Files whose content has to be read and hashed.
MustRead(j) == {p \in Paths : IsNew(j, p) \/ IsChanged(j, p)}

IsSameContent(j, p) == IsChanged(j, p) /\ Latest(j, p).key = hash[j][p]

\* singleFileIndexOps: the only file of the run, if it has been found.
InScope(j, p) == Scope[j] = None \/ (Scope[j] = p /\ IsPresent(j, p))

ItemsToAdd(j) ==
  {[path |-> p, key |-> hash[j][p]] :
     p \in {q \in MustRead(j) : InScope(j, q) /\ ~IsSameContent(j, q)}}

\* All versions of a file that has gone or whose content is new, and the
\* older versions of a file whose content is that of the latest.
NoOldVersions(j, p) == IF IsPresent(j, p) THEN {} ELSE Versions(j, p)
OldVersions(j, p) ==
  CASE ~IsPresent(j, p)    -> Versions(j, p)
    [] IsSameContent(j, p) -> {r \in Versions(j, p) : r.key # Latest(j, p).key}
    [] IsChanged(j, p) /\ ~IsSameContent(j, p) -> Versions(j, p)
    [] OTHER               -> {}

ItemsToRemove(j) ==
  UNION {{[path |-> p, key |-> r.key] : r \in OldVersions(j, p)} :
           p \in {q \in Paths : InScope(j, q)}}

ListToAddBlindly(key) == "addTag"
ListToAdd(key) == IF TagsOf(key) # {} THEN "addTag" ELSE "compute"

ListToRemoveAlways(key) == "del"
ListToRemove(key) == IF Cardinality(TagsOf(key)) > 1 THEN "removeTag" ELSE "del"

PlannedOps(j) ==
  {[list |-> ListToAdd(i.key), path |-> i.path, key |-> i.key] :
     i \in ItemsToAdd(j)}
  \cup
  {[list |-> ListToRemove(i.key), path |-> i.path, key |-> i.key] :
     i \in ItemsToRemove(j)}

-----------------------------------------------------------------------------
(***************************************************************************)
(* One run of getComputeDeleteAddRemove and of the update that follows     *)
(***************************************************************************)
\* getBranch
Start(j) ==
  /\ pc[j] = "idle"
  /\ Serial => \A k \in Jobs : ~Active(k)
  /\ Goto(j, "stat")
  /\ tag' = [tag EXCEPT ![j] = head]
  /\ clean' = [k \in Jobs |-> k = j /\ \A i \in Jobs : ~Active(i)]
  /\ UNCHANGED <<world, tables, stats, stamp, saved, hash, lists, faults>>

\* getFileStats, after the walk of the directory
Stat(j) ==
  /\ pc[j] = "stat"
  /\ Goto(j, "stamp")
  /\ stats' = [stats EXCEPT ![j] =
       [p \in Paths |-> IF disk[p] # None /\ Scope[j] \in {None, p}
                        THEN mtime[p] ELSE None]]
  /\ UNCHANGED <<world, tables, tag, stamp, saved, hash, lists, history>>

\* const newLastUpdatedTimestamp = Date.now()
Stamp(j) ==
  /\ pc[j] = "stamp"
  /\ now < MaxTime
  /\ now' = now + 1
  /\ stamp' = [stamp EXCEPT ![j] = now + 1]
  /\ Goto(j, "saved")
  /\ UNCHANGED <<disk, mtime, head, tables, tag, stats, saved, hash, lists,
                 history>>

\* getSavedItemsForTag
ReadSaved(j) ==
  /\ pc[j] = "saved"
  /\ saved' = [saved EXCEPT ![j] = {r \in catalog : r.tag = tag[j]}]
  /\ Goto(j, "read")
  /\ UNCHANGED <<world, tables, tag, stats, stamp, hash, lists, history>>

\* IDE.readFile: the text of an open document is preferred to the file.
Readable(p) ==
  {IF disk[p] # None THEN disk[p] ELSE Missing}
    \cup (IF p \in Buffers THEN MayHold[p] ELSE {})

\* readFile and calculateHash; an error ends the run.  A file that has gone since
\* the walk counts as a fault: the run goes on with a content nobody wrote.
ReadFile(j, p) ==
  /\ pc[j] = "read"
  /\ p \in MustRead(j) /\ hash[j][p] = None
  /\ \E content \in Readable(p) :
       \/ /\ content # None
          /\ hash' = [hash EXCEPT ![j][p] = content]
          /\ clean' = [clean EXCEPT ![j] = @ /\ content = disk[p]]
          /\ faults' = IF disk[p] = None THEN faults + 1 ELSE faults
          /\ UNCHANGED <<pc, stats, stamp, saved>>
       \/ /\ content = None
          /\ End({j}, "done")
          /\ clean' = [clean EXCEPT ![j] = FALSE]
          /\ UNCHANGED faults
  /\ UNCHANGED <<world, tables, tag, lists>>

\* The lists are drawn up from the global cache.
Plan(j) ==
  /\ pc[j] = "read"
  /\ \A p \in MustRead(j) : hash[j][p] # None
  /\ todo' = [todo EXCEPT ![j] = PlannedOps(j)]
  /\ touched' = [touched EXCEPT ![j] =
       IF Scope[j] # None THEN {}      \* refreshFile never marks these
       ELSE {[path |-> p, key |-> hash[j][p]] :
               p \in {q \in Paths : IsSameContent(j, q)}}]
  /\ Goto(j, "update")
  /\ UNCHANGED <<world, tables, tag, locals, uncached, history>>

\* The index has processed an operation and markComplete reaches the catalog.
\* The operations of the list compute are marked in one call.
Mark(j, op) ==
  /\ pc[j] = "update"
  /\ op \in todo[j] /\ \A o \in todo[j] : Order[op.list] <= Order[o.list]
  /\ uncached[j] = {} \/ op.list = "compute"
  /\ catalog' = IF Adds(op) THEN WithRow(j, op) ELSE WithoutRow(j, op)
  /\ todo' = [todo EXCEPT ![j] = @ \ {op}]
  /\ uncached' = [uncached EXCEPT ![j] = @ \cup {op}]
  /\ UNCHANGED <<world, cache, pc, tag, locals, touched, history>>

\* The second half of the same call: the global cache.
UpdateCache(j) ==
  /\ pc[j] = "update"
  /\ uncached[j] # {}
  /\ (\E o \in uncached[j] : o.list = "compute")
        => \A o \in todo[j] : o.list # "compute"
  /\ cache' = (cache \ Forgotten(j)) \cup Remembered(j)
  /\ uncached' = [uncached EXCEPT ![j] = {}]
  /\ UNCHANGED <<world, catalog, pc, tag, locals, todo, touched, history>>

\* markComplete(lastUpdated, UpdateLastUpdated): every row of the file gets the
\* same key and time, which the unique index refuses if there are two rows.
Touch(j) ==
  /\ pc[j] = "update" /\ todo[j] = {} /\ uncached[j] = {}
  /\ \E item \in touched[j] :
       LET rows == RowsOf(tag[j], item.path) IN
       IF \E r, s \in rows : r # s
       THEN /\ touched' = [touched EXCEPT ![j] = {}]
            /\ clean' = [clean EXCEPT ![j] = FALSE]
            /\ UNCHANGED catalog
       ELSE /\ touched' = [touched EXCEPT ![j] = @ \ {item}]
            /\ catalog' = (catalog \ rows) \cup
                 {[r EXCEPT !.key = item.key, !.time = stamp[j]] : r \in rows}
            /\ UNCHANGED clean
  /\ UNCHANGED <<world, cache, pc, tag, locals, todo, uncached, faults>>

Finish(j) ==
  /\ pc[j] = "update"
  /\ todo[j] = {} /\ uncached[j] = {} /\ touched[j] = {}
  /\ End({j}, "done")
  /\ UNCHANGED <<world, tables, tag, lists, history>>

\* The update of the index throws: the rest of its batch is dropped.
Fail(j) ==
  /\ faults < MaxFaults
  /\ pc[j] = "update" /\ (todo[j] # {} \/ uncached[j] # {})
  /\ todo' = [todo EXCEPT ![j] = {}]
  /\ uncached' = [uncached EXCEPT ![j] = {}]
  /\ faults' = faults + 1
  /\ clean' = [clean EXCEPT ![j] = FALSE]
  /\ UNCHANGED <<world, tables, pc, tag, locals, touched>>

-----------------------------------------------------------------------------
(***************************************************************************)
(* What happens around the runs                                            *)
(***************************************************************************)
\* Files are edited, created and deleted, or another branch is checked out.
\* A file that is written gets a modification time later than the clock was, also
\* when the text read from it stays the same: it was saved as it is, or changed
\* behind its first 100 KB.
ChangeFiles(b, new, written) ==
  /\ now < MaxTime
  /\ \A p \in Paths : new[p] \in MayHold[p] \cup {None}
  /\ {p \in Paths : new[p] # disk[p]} \subseteq written
  /\ \A p \in written : disk[p] # None \/ new[p] # None
  /\ b # head \/ written # {}
  /\ now' = now + 1
  /\ head' = b
  /\ disk' = new
  /\ mtime' = [p \in Paths |-> IF p \in written THEN now + 1 ELSE mtime[p]]
  /\ clean' = [j \in Jobs |-> FALSE]
  /\ UNCHANGED <<tables, pc, tag, locals, lists, faults>>

\* The window closes; the tables are on disk.
Crash ==
  /\ faults < MaxFaults
  /\ \E j \in Jobs : Active(j)
  /\ End({j \in Jobs : Active(j)}, "crashed")
  /\ todo' = [j \in Jobs |-> {}]
  /\ uncached' = [j \in Jobs |-> {}]
  /\ touched' = [j \in Jobs |-> {}]
  /\ faults' = faults + 1
  /\ UNCHANGED <<world, tables, tag, clean>>

Step(j) ==
  \/ Start(j) \/ Stat(j) \/ Stamp(j) \/ ReadSaved(j)
  \/ \E p \in Paths : ReadFile(j, p)
  \/ Plan(j) \/ \E op \in todo[j] : Mark(j, op)
  \/ UpdateCache(j) \/ Touch(j) \/ Finish(j) \/ Fail(j)

Next ==
  \/ \E j \in Jobs : Step(j)
  \/ \E b \in Branches, new \in [Paths -> Contents \cup {None}],
        written \in SUBSET Paths : ChangeFiles(b, new, written)
  \/ Crash

Spec == Init /\ [][Next]_vars

-----------------------------------------------------------------------------
(***************************************************************************)
(* Properties                                                              *)
(***************************************************************************)
\* The catalog never claims a version the file does not have: a row that is
\* not older than the file names its content, so the next run may trust it.
\* Files with unsaved changes are the exception, see README.
NoFalseProgress ==
  \A r \in catalog :
    (r.path \notin Buffers /\ disk[r.path] # None /\ mtime[r.path] <= r.time)
      => r.key = disk[r.path]

Quiet == \A j \in Jobs : ~Active(j)

\* The working tree as the catalog of a tag should describe it.
Synced(t) ==
  {[path |-> r.path, key |-> r.key] : r \in {s \in catalog : s.tag = t}}
    = {[path |-> p, key |-> disk[p]] : p \in {q \in Paths : disk[q] # None}}

\* A directory refresh that nothing disturbed leaves exactly the versions of
\* the working tree under its tag, whatever the catalog held before.
SyncedWhenClean ==
  \A j \in Jobs :
    (pc[j] = "done" /\ clean[j] /\ Scope[j] = None) => Synced(tag[j])

\* Why NoFalseProgress holds: what a run has hashed after its timestamp is a
\* version it may claim at that time, until the file is written again.
Believable(p, key, time) ==
  (p \notin Buffers /\ disk[p] # None /\ mtime[p] <= time) => key = disk[p]

ClaimsBelievable ==
  /\ \A r \in catalog : r.time <= now /\ Believable(r.path, r.key, r.time)
  /\ \A j \in Jobs :
       /\ stamp[j] <= now
       /\ pc[j] # "update" => todo[j] = {} /\ touched[j] = {}
       /\ pc[j] \in {"idle", "stat", "stamp", "saved"} => hash[j] = Nothing
       /\ \A p \in Paths :
            hash[j][p] # None => Believable(p, hash[j][p], stamp[j])
       /\ \A op \in todo[j] : Adds(op) => Believable(op.path, op.key, stamp[j])
       /\ \A i \in touched[j] : Believable(i.path, i.key, stamp[j])

\* Between refreshes the global cache is the projection of the catalog.
CacheMatchesCatalog ==
  (Quiet /\ faults = 0) => cache = {[tag |-> r.tag, key |-> r.key] : r \in catalog}

\* A version that is to be removed is known to the global cache.
RemoveFindsTag ==
  [][\A j \in Jobs : (pc[j] = "read" /\ pc'[j] = "update" /\ faults = 0) =>
       \A op \in todo'[j] : ~Adds(op) => TagsOf(op.key) # {}]_vars

\* An artifact is deleted only if no other file or branch has its content.
DeletesOnlyUnneeded ==
  [][\A j \in Jobs : (pc[j] = "read" /\ pc'[j] = "update" /\ faults = 0) =>
       \A op \in todo'[j] : op.list = "del" =>
         \A r \in catalog : r.key = op.key =>
           r.tag = tag[j] /\ r.path = op.path]_vars

\* An artifact is tagged only if it has been computed, on some branch.
TagsOnlyComputed ==
  [][\A j \in Jobs : (pc[j] = "read" /\ pc'[j] = "update" /\ faults = 0) =>
       \A op \in todo'[j] : op.list = "addTag" =>
         \E r \in catalog : r.key = op.key]_vars
=============================================================================
