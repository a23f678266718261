----------------------- MODULE RefreshIndexSerial_proofs -----------------------
(***************************************************************************)
(* Theorems about RefreshIndex when the refreshes run one after the other  *)
(* and until the first crash or failure: what a refresh leaves in the      *)
(* catalog and in the global cache.                                        *)
(***************************************************************************)
EXTENDS RefreshIndex_proofs, FiniteSetTheorems

(***************************************************************************)
(* What a run has to do, row by row, for a catalog with one version of     *)
(* each file under a tag.                                                  *)
(***************************************************************************)
SameItem(a, b) == a.path = b.path /\ a.key = b.key

HasRow(t, p, k) == \E r \in catalog : r.tag = t /\ r.path = p /\ r.key = k

Had(j, p, k) == \E r \in saved[j] : r.path = p /\ r.key = k

\* The file has been read because the catalog has no version as late as it.
WasRead(j, p) ==
  stats[j][p] # None /\ \A r \in saved[j] : r.path = p => r.time < stats[j][p]

ToAdd(j, p, k) ==
  InScope(j, p) /\ WasRead(j, p) /\ k = hash[j][p] /\ ~Had(j, p, k)

ToRemove(j, p, k) ==
  /\ InScope(j, p) /\ Had(j, p, k)
  /\ stats[j][p] = None \/ (WasRead(j, p) /\ k # hash[j][p])

ToTouch(j, p, k) == WasRead(j, p) /\ k = hash[j][p] /\ Had(j, p, k)

AddLeft(j, p, k) == \E op \in todo[j] : Adds(op) /\ op.path = p /\ op.key = k
RemoveLeft(j, p, k) == \E op \in todo[j] : ~Adds(op) /\ op.path = p /\ op.key = k

-----------------------------------------------------------------------------
(***************************************************************************)
(* The inductive invariant                                                 *)
(***************************************************************************)
OneAtATime == \A i, j \in Jobs : Active(i) /\ Active(j) => i = j

AtRest ==
  \A j \in Jobs : pc[j] # "update" =>
    todo[j] = {} /\ uncached[j] = {} /\ touched[j] = {}

\* The unique index of tag_catalog.
UniqueRows ==
  \A r, s \in catalog : (r.tag = s.tag /\ SameItem(r, s)) => r = s

\* One version of each file, but for the tag that is being updated.
OneVersion ==
  \A r, s \in catalog :
    (r.tag = s.tag /\ r.path = s.path
       /\ \A j \in Jobs : pc[j] = "update" => tag[j] # r.tag) => r = s

\* What a run has read from the catalog.
SavedFits(j) ==
  /\ pc[j] = "read" => saved[j] = {r \in catalog : r.tag = tag[j]}
  /\ pc[j] \in {"read", "update"} =>
       \A r, s \in saved[j] : r.path = s.path => r = s

\* How far the update has come.
PlanFits(j) ==
  pc[j] = "update" =>
    /\ \A p \in Paths : WasRead(j, p) => hash[j][p] # None
    /\ \A a, b \in todo[j] : (SameItem(a, b) /\ (Adds(a) <=> Adds(b))) => a = b
    /\ \A op \in todo[j] \cup uncached[j] :
         IF Adds(op) THEN ToAdd(j, op.path, op.key) ELSE ToRemove(j, op.path, op.key)
    /\ \A i \in touched[j] : ToTouch(j, i.path, i.key)
    /\ \A p \in Paths, k \in Contents :
         HasRow(tag[j], p, k) <=>
           \/ Had(j, p, k) /\ (ToRemove(j, p, k) => RemoveLeft(j, p, k))
           \/ ToAdd(j, p, k) /\ ~AddLeft(j, p, k)

OneClean == \A i, j \in Jobs : clean[i] /\ Active(j) => i = j

\* What is known of the working tree by a run that nothing has disturbed.
CleanFits(j) ==
  (clean[j] /\ Scope[j] = None) =>
    /\ pc[j] \in {"stamp", "saved", "read", "update"} =>
         \A p \in Paths : stats[j][p] = IF disk[p] # None THEN mtime[p] ELSE None
    /\ pc[j] \in {"read", "update"} =>
         /\ \A p \in Paths : hash[j][p] # None => hash[j][p] = disk[p]
         /\ \A r \in saved[j] :
              (disk[r.path] # None /\ mtime[r.path] <= r.time) => r.key = disk[r.path]
    /\ pc[j] = "done" => Synced(tag[j])

Tables ==
  /\ OneAtATime /\ AtRest /\ UniqueRows /\ OneVersion
  /\ \A j \in Jobs : SavedFits(j) /\ PlanFits(j)

Trees == OneClean /\ \A j \in Jobs : CleanFits(j)

\* The global cache once the marks that are under way have reached it is the
\* projection of the catalog.
Cached(t, k) == [tag |-> t, key |-> k] \in cache
Cataloged(t, k) == \E r \in catalog : r.tag = t /\ r.key = k
Forgetting(t, k) ==
  \E j \in Jobs : tag[j] = t /\ \E op \in uncached[j] : ~Adds(op) /\ op.key = k
Remembering(t, k) ==
  \E j \in Jobs : tag[j] = t /\ \E op \in uncached[j] : Adds(op) /\ op.key = k

CacheFits ==
  \A t \in Branches, k \in Contents :
    Cataloged(t, k) <=> (Cached(t, k) /\ ~Forgetting(t, k)) \/ Remembering(t, k)

\* A key tells which file it is of.
KeysAreOwn ==
  /\ \A p \in Paths : disk[p] \in MayHold[p] \cup {None}
  /\ \A r \in catalog : r.key \in MayHold[r.path]
  /\ \A j \in Jobs :
       /\ \A r \in saved[j] : r.key \in MayHold[r.path]
       /\ \A p \in Paths : hash[j][p] \in MayHold[p] \cup {None}
       /\ \A op \in todo[j] \cup uncached[j] : op.key \in MayHold[op.path]
       /\ \A i \in touched[j] : i.key \in MayHold[i.path]

\* No two files ever have the same content.
Apart == \A p, q \in Paths : p # q => MayHold[p] \cap MayHold[q] = {}

-----------------------------------------------------------------------------
(***************************************************************************)
(* The plan of a run that has read one version of each file                *)
(***************************************************************************)
\* The only version of a file is its latest.
LEMMA LatestIsOnly ==
  ASSUME TypeOK, NEW j \in Jobs, NEW r \in saved[j],
         \A s \in saved[j] : s.path = r.path => s = r
  PROVE  Versions(j, r.path) = {r} /\ Latest(j, r.path) = r
<1>1. Versions(j, r.path) = {r}
  BY DEF Versions
<1>2. r.time \in Nat
  BY DEF TypeOK, Row
<1>3. Latest(j, r.path) = r
  BY <1>1, <1>2 DEF Latest
<1>4. QED
  BY <1>1, <1>3

LEMMA ReadIsMustRead ==
  ASSUME TypeOK, NEW j \in Jobs, \A r, s \in saved[j] : r.path = s.path => r = s,
         NEW p \in Paths
  PROVE  /\ WasRead(j, p) <=> p \in MustRead(j)
         /\ IsSameContent(j, p) <=> ToTouch(j, p, hash[j][p])
<1>1. CASE \E r \in saved[j] : r.path = p
  <2>1. PICK r \in saved[j] : r.path = p
    BY <1>1
  <2>2. Versions(j, p) = {r} /\ Latest(j, p) = r
    BY <2>1, LatestIsOnly
  <2>3. WasRead(j, p) <=> (stats[j][p] # None /\ r.time < stats[j][p])
    BY <2>1 DEF WasRead
  <2>4. IsChanged(j, p) <=> (stats[j][p] # None /\ r.time < stats[j][p])
    BY <2>2 DEF IsChanged, IsPresent
  <2>5. ~IsNew(j, p)
    BY <2>2 DEF IsNew
  <2>6. WasRead(j, p) <=> p \in MustRead(j)
    BY <2>3, <2>4, <2>5 DEF MustRead
  <2>7. Had(j, p, hash[j][p]) <=> r.key = hash[j][p]
    BY <2>1 DEF Had
  <2>8. IsSameContent(j, p) <=> IsChanged(j, p) /\ r.key = hash[j][p]
    BY <2>2 DEF IsSameContent
  <2>9. QED
    BY <2>3, <2>4, <2>6, <2>7, <2>8 DEF ToTouch
<1>2. CASE ~\E r \in saved[j] : r.path = p
  <2>1. Versions(j, p) = {}
    BY <1>2 DEF Versions
  <2>2. WasRead(j, p) <=> IsNew(j, p)
    BY <1>2, <2>1 DEF WasRead, IsNew, IsPresent
  <2>3. ~IsChanged(j, p)
    BY <2>1 DEF IsChanged
  <2>4. QED
    BY <1>2, <2>2, <2>3 DEF MustRead, IsSameContent, ToTouch, Had
<1>3. QED
  BY <1>1, <1>2

\* What is to be added, and what is to be removed.
LEMMA ItemsMean ==
  ASSUME TypeOK, NEW j \in Jobs, \A r, s \in saved[j] : r.path = s.path => r = s,
         NEW p \in Paths, NEW k
  PROVE  /\ [path |-> p, key |-> k] \in ItemsToAdd(j) <=> ToAdd(j, p, k)
         /\ [path |-> p, key |-> k] \in ItemsToRemove(j) <=> ToRemove(j, p, k)
<1>1. [path |-> p, key |-> k] \in ItemsToAdd(j) <=> ToAdd(j, p, k)
  <2>1. [path |-> p, key |-> k] \in ItemsToAdd(j) <=>
          p \in MustRead(j) /\ InScope(j, p) /\ ~IsSameContent(j, p) /\ k = hash[j][p]
    BY DEF ItemsToAdd, MustRead
  <2>2. QED
    BY <2>1, ReadIsMustRead DEF ToAdd, ToTouch
<1>2. [path |-> p, key |-> k] \in ItemsToRemove(j) <=>
        InScope(j, p) /\ \E r \in OldVersions(j, p) : r.key = k
  <2> DEFINE Of(q) == {[path |-> q, key |-> r.key] : r \in OldVersions(j, q)}
  <2>1. ItemsToRemove(j) = UNION {Of(q) : q \in {x \in Paths : InScope(j, x)}}
    BY DEF ItemsToRemove
  <2>2. \A q \in Paths : [path |-> p, key |-> k] \in Of(q) <=>
          (q = p /\ \E r \in OldVersions(j, q) : r.key = k)
    OBVIOUS
  <2> HIDE DEF Of
  <2>3. QED
    BY <2>1, <2>2
<1>3. CASE \E r \in saved[j] : r.path = p
  <2>1. PICK r \in saved[j] : r.path = p
    BY <1>3
  <2>2. Versions(j, p) = {r} /\ Latest(j, p) = r
    BY <2>1, LatestIsOnly
  <2>3. WasRead(j, p) <=> IsChanged(j, p)
    BY <2>2, ReadIsMustRead DEF MustRead, IsNew
  <2>4. Had(j, p, k) <=> r.key = k
    BY <2>1 DEF Had
  <2>5. IsSameContent(j, p) <=> IsChanged(j, p) /\ r.key = hash[j][p]
    BY <2>2 DEF IsSameContent
  <2>6. IsChanged(j, p) => IsPresent(j, p)
    BY DEF IsChanged
  <2>7. (\E s \in OldVersions(j, p) : s.key = k) <=>
          (r.key = k /\ (~IsPresent(j, p) \/ (IsChanged(j, p) /\ ~IsSameContent(j, p))))
    <3>1. CASE ~IsPresent(j, p)
      BY <2>2, <2>6, <3>1 DEF OldVersions, IsSameContent
    <3>2. CASE IsPresent(j, p) /\ IsSameContent(j, p)
      BY <2>2, <3>2 DEF OldVersions
    <3>3. CASE IsPresent(j, p) /\ ~IsSameContent(j, p) /\ IsChanged(j, p)
      BY <2>2, <3>3 DEF OldVersions
    <3>4. CASE IsPresent(j, p) /\ ~IsSameContent(j, p) /\ ~IsChanged(j, p)
      BY <3>4 DEF OldVersions
    <3>5. QED
      BY <3>1, <3>2, <3>3, <3>4
  <2>8. QED
    BY <1>1, <1>2, <2>3, <2>4, <2>5, <2>6, <2>7 DEF ToRemove, IsPresent
<1>4. CASE ~\E r \in saved[j] : r.path = p
  <2>1. OldVersions(j, p) \subseteq Versions(j, p)
    BY DEF OldVersions
  <2>2. Versions(j, p) = {}
    BY <1>4 DEF Versions
  <2>3. QED
    BY <1>1, <1>2, <1>4, <2>1, <2>2 DEF ToRemove, Had
<1>5. QED
  BY <1>3, <1>4

\* The operations of a plan are those, and there is one for each.
LEMMA PlanMeans ==
  ASSUME TypeOK, NEW j \in Jobs, \A r, s \in saved[j] : r.path = s.path => r = s,
         \A p \in MustRead(j) : hash[j][p] # None
  PROVE  /\ \A op \in PlannedOps(j) :
              IF Adds(op)
              THEN ToAdd(j, op.path, op.key) /\ op.list = ListToAdd(op.key)
              ELSE ToRemove(j, op.path, op.key) /\ op.list = ListToRemove(op.key)
         /\ \A a, b \in PlannedOps(j) :
              (SameItem(a, b) /\ (Adds(a) <=> Adds(b))) => a = b
         /\ \A p \in Paths, k \in Contents :
              /\ ToAdd(j, p, k) =>
                   \E op \in PlannedOps(j) : Adds(op) /\ op.path = p /\ op.key = k
              /\ ToRemove(j, p, k) =>
                   \E op \in PlannedOps(j) : ~Adds(op) /\ op.path = p /\ op.key = k
<1> DEFINE Add(i) == [list |-> ListToAdd(i.key), path |-> i.path, key |-> i.key]
           Remove(i) == [list |-> ListToRemove(i.key), path |-> i.path, key |-> i.key]
<1>1. PlannedOps(j) = {Add(i) : i \in ItemsToAdd(j)} \cup {Remove(i) : i \in ItemsToRemove(j)}
  BY DEF PlannedOps
<1>2. \A i : Adds(Add(i)) /\ ~Adds(Remove(i))
  BY DEF Adds, ListToAdd, ListToRemove
<1>3. ItemsToAdd(j) \subseteq Item /\ ItemsToRemove(j) \subseteq Item
  <2>1. \A p \in MustRead(j) : p \in Paths /\ hash[j][p] \in Contents
    BY PlanType DEF MustRead
  <2>2. \A p \in Paths : OldVersions(j, p) \subseteq Versions(j, p)
    BY DEF OldVersions
  <2>3. \A p \in Paths : \A r \in Versions(j, p) : r \in Row
    BY DEF Versions, TypeOK
  <2>4. ItemsToAdd(j) \subseteq Item
    BY <2>1 DEF ItemsToAdd, Item
  <2>5. ItemsToRemove(j) \subseteq Item
    BY <2>2, <2>3 DEF ItemsToRemove, Item, Row
  <2>6. QED
    BY <2>4, <2>5
<1>4. \A i \in Item : i = [path |-> i.path, key |-> i.key] /\ i.path \in Paths
  BY DEF Item
<1>5. \A i \in ItemsToAdd(j) : ToAdd(j, i.path, i.key)
  BY <1>3, <1>4, ItemsMean
<1>6. \A i \in ItemsToRemove(j) : ToRemove(j, i.path, i.key)
  BY <1>3, <1>4, ItemsMean
<1>7. ASSUME NEW op \in PlannedOps(j)
      PROVE  IF Adds(op)
             THEN ToAdd(j, op.path, op.key) /\ op.list = ListToAdd(op.key)
             ELSE ToRemove(j, op.path, op.key) /\ op.list = ListToRemove(op.key)
  <2>1. CASE op \in {Add(i) : i \in ItemsToAdd(j)}
    <3>1. PICK i \in ItemsToAdd(j) : op = Add(i)
      BY <2>1
    <3>2. op.path = i.path /\ op.key = i.key /\ op.list = ListToAdd(i.key)
      BY <3>1
    <3>3. QED
      BY <1>2, <1>5, <3>1, <3>2
  <2>2. CASE op \in {Remove(i) : i \in ItemsToRemove(j)}
    <3>1. PICK i \in ItemsToRemove(j) : op = Remove(i)
      BY <2>2
    <3>2. op.path = i.path /\ op.key = i.key /\ op.list = ListToRemove(i.key)
      BY <3>1
    <3>3. QED
      BY <1>2, <1>6, <3>1, <3>2
  <2>3. QED
    BY <1>1, <2>1, <2>2
<1>8. ASSUME NEW a \in PlannedOps(j), NEW b \in PlannedOps(j),
             SameItem(a, b), Adds(a) <=> Adds(b)
      PROVE  a = b
  <2>1. a \in Op /\ b \in Op
    BY PlanType
  <2>2. a.path = b.path /\ a.key = b.key
    BY <1>8 DEF SameItem
  <2>3. a.list = b.list
    BY <1>7, <1>8, <2>2
  <2>4. QED
    BY <2>1, <2>2, <2>3 DEF Op
<1>9. ASSUME NEW p \in Paths, NEW k \in Contents
      PROVE  /\ ToAdd(j, p, k) =>
                   \E op \in PlannedOps(j) : Adds(op) /\ op.path = p /\ op.key = k
             /\ ToRemove(j, p, k) =>
                   \E op \in PlannedOps(j) : ~Adds(op) /\ op.path = p /\ op.key = k
  <2> DEFINE i == [path |-> p, key |-> k]
  <2>1. Add(i).path = p /\ Add(i).key = k /\ Remove(i).path = p /\ Remove(i).key = k
    OBVIOUS
  <2>2. ToAdd(j, p, k) => Add(i) \in PlannedOps(j)
    BY <1>1, ItemsMean
  <2>3. ToRemove(j, p, k) => Remove(i) \in PlannedOps(j)
    BY <1>1, ItemsMean
  <2>4. Adds(Add(i)) /\ ~Adds(Remove(i))
    BY <1>2
  <2> HIDE DEF Add, Remove, i
  <2>5. QED
    BY <2>1, <2>2, <2>3, <2>4
<1> HIDE DEF Add, Remove
<1>10. QED
  BY <1>7, <1>8, <1>9

-----------------------------------------------------------------------------
(***************************************************************************)
(* The tables, step by step                                                *)
(***************************************************************************)
\* The plan of a run whose reads stay as they are, after a step.
LEMMA PlanFitsNext ==
  ASSUME NEW j \in Jobs, UNCHANGED <<stats, saved, hash>>,
         \A p \in Paths : WasRead(j, p) => hash[j][p] # None,
         \A a, b \in todo'[j] : (SameItem(a, b) /\ (Adds(a) <=> Adds(b))) => a = b,
         \A op \in todo'[j] \cup uncached'[j] :
           IF Adds(op) THEN ToAdd(j, op.path, op.key) ELSE ToRemove(j, op.path, op.key),
         \A i \in touched'[j] : ToTouch(j, i.path, i.key),
         \A p \in Paths, k \in Contents :
           (HasRow(tag[j], p, k))' <=>
             \/ Had(j, p, k) /\ (ToRemove(j, p, k) => (RemoveLeft(j, p, k))')
             \/ ToAdd(j, p, k) /\ ~(AddLeft(j, p, k))'
  PROVE  PlanFits(j)'
<1>1. \A p, k : /\ (ToAdd(j, p, k))' <=> ToAdd(j, p, k)
                /\ (ToRemove(j, p, k))' <=> ToRemove(j, p, k)
                /\ (ToTouch(j, p, k))' <=> ToTouch(j, p, k)
                /\ (Had(j, p, k))' <=> Had(j, p, k)
                /\ (WasRead(j, p))' <=> WasRead(j, p)
  BY DEF ToAdd, ToRemove, ToTouch, Had, WasRead, InScope, IsPresent
<1>2. \A p \in Paths : (WasRead(j, p))' => hash'[j][p] # None
  BY <1>1
<1>3. \A a, b \in todo'[j] :
        ((SameItem(a, b))' /\ ((Adds(a))' <=> (Adds(b))')) => a = b
  BY DEF SameItem, Adds
<1>4. \A op \in todo'[j] \cup uncached'[j] :
        IF (Adds(op))' THEN (ToAdd(j, op.path, op.key))' ELSE (ToRemove(j, op.path, op.key))'
  BY <1>1 DEF Adds
<1>5. \A i \in touched'[j] : (ToTouch(j, i.path, i.key))'
  BY <1>1
<1>6. \A p \in Paths, k \in Contents :
        (HasRow(tag[j], p, k))' <=>
          \/ (Had(j, p, k))' /\ ((ToRemove(j, p, k))' => (RemoveLeft(j, p, k))')
          \/ (ToAdd(j, p, k))' /\ ~(AddLeft(j, p, k))'
  BY <1>1
<1>7. QED
  BY <1>2, <1>3, <1>4, <1>5, <1>6 DEF PlanFits

\* Nothing that the invariant speaks of changes.
LEMMA TablesFrame ==
  ASSUME Tables, UNCHANGED <<catalog, pc, tag, stats, saved, hash, todo, uncached, touched>>
  PROVE  Tables'
<1>1. OneAtATime' /\ AtRest' /\ UniqueRows' /\ OneVersion'
  BY DEF Tables, OneAtATime, AtRest, UniqueRows, OneVersion, Active, SameItem
<1>2. ASSUME NEW j \in Jobs PROVE SavedFits(j)'
  BY DEF Tables, SavedFits
<1>3. ASSUME NEW j \in Jobs PROVE PlanFits(j)'
  <2>1. \A p, k : /\ (AddLeft(j, p, k))' <=> AddLeft(j, p, k)
                  /\ (RemoveLeft(j, p, k))' <=> RemoveLeft(j, p, k)
                  /\ (HasRow(tag[j], p, k))' <=> HasRow(tag[j], p, k)
    BY DEF AddLeft, RemoveLeft, HasRow, Adds
  <2>2. CASE pc[j] = "update"
    BY <2>1, <2>2, PlanFitsNext DEF Tables, PlanFits
  <2>3. QED
    BY <2>2 DEF PlanFits
<1>4. QED
  BY <1>1, <1>2, <1>3 DEF Tables

\* Only the run that moves is under way.
LEMMA OthersRest ==
  ASSUME TypeOK, Tables, NEW j \in Jobs, Active(j) \/ \A k \in Jobs : ~Active(k),
         \A k \in Jobs \ {j} : pc'[k] = pc[k] /\ todo'[k] = todo[k]
                               /\ uncached'[k] = uncached[k] /\ touched'[k] = touched[k],
         pc'[j] # "update" => todo'[j] = {} /\ uncached'[j] = {} /\ touched'[j] = {}
  PROVE  /\ OneAtATime' /\ AtRest'
         /\ \A k \in Jobs \ {j} : pc'[k] \notin Running /\ SavedFits(k)' /\ PlanFits(k)'
<1>1. \A k \in Jobs \ {j} : ~Active(k)
  BY DEF Tables, OneAtATime
<1>2. \A k \in Jobs \ {j} : pc'[k] \notin Running
  BY <1>1 DEF Active
<1>3. OneAtATime'
  BY <1>2 DEF OneAtATime, Active
<1>4. AtRest'
  BY DEF Tables, AtRest
<1>5. \A k \in Jobs \ {j} : SavedFits(k)' /\ PlanFits(k)'
  BY <1>2 DEF SavedFits, PlanFits, Running
<1>6. QED
  BY <1>2, <1>3, <1>4, <1>5

\* A step outside the update, after which the run has read what it should.
LEMMA TablesQuiet ==
  ASSUME TypeOK, Tables, NEW j \in Jobs, Active(j) \/ \A k \in Jobs : ~Active(k),
         catalog' = catalog, todo' = todo, uncached' = uncached, touched' = touched,
         \A k \in Jobs \ {j} : pc'[k] = pc[k],
         pc[j] # "update", pc'[j] # "update", SavedFits(j)'
  PROVE  Tables'
<1>1. todo'[j] = {} /\ uncached'[j] = {} /\ touched'[j] = {}
  BY DEF Tables, AtRest
<1>2. /\ OneAtATime' /\ AtRest'
      /\ \A k \in Jobs \ {j} : pc'[k] \notin Running /\ SavedFits(k)' /\ PlanFits(k)'
  BY <1>1, OthersRest
<1>3. PlanFits(j)'
  BY DEF PlanFits
<1>4. UniqueRows'
  BY DEF Tables, UniqueRows, SameItem
<1>5. \A k \in Jobs : pc[k] # "update" /\ pc'[k] # "update"
  BY DEF Tables, OneAtATime, Active, Running
<1>6. OneVersion'
  BY <1>5 DEF Tables, OneVersion
<1>7. \A k \in Jobs : SavedFits(k)' /\ PlanFits(k)'
  BY <1>2, <1>3
<1>8. QED
  BY <1>2, <1>4, <1>6, <1>7 DEF Tables

LEMMA TablesPlan ==
  ASSUME TypeOK, Tables, NEW j \in Jobs, Plan(j)
  PROVE  Tables'
<1>1. /\ pc[j] = "read" /\ pc' = [pc EXCEPT ![j] = "update"]
      /\ \A p \in MustRead(j) : hash[j][p] # None
      /\ todo' = [todo EXCEPT ![j] = PlannedOps(j)]
      /\ UNCHANGED <<catalog, tag, stats, saved, hash, uncached>>
  BY DEF Plan, Goto, tables, locals
<1>2. Active(j)
  BY <1>1 DEF Active, Running
<1>3. /\ todo'[j] = PlannedOps(j) /\ pc'[j] = "update" /\ uncached'[j] = {}
      /\ \A k \in Jobs \ {j} : pc'[k] = pc[k] /\ todo'[k] = todo[k]
  BY <1>1 DEF TypeOK, Tables, AtRest
<1>4. /\ \A i \in touched'[j] : \E p \in Paths :
           IsSameContent(j, p) /\ i = [path |-> p, key |-> hash[j][p]]
      /\ \A k \in Jobs \ {j} : touched'[k] = touched[k]
  BY DEF Plan, TypeOK
<1>5. /\ OneAtATime' /\ AtRest'
      /\ \A k \in Jobs \ {j} : pc'[k] \notin Running /\ SavedFits(k)' /\ PlanFits(k)'
  BY <1>1, <1>2, <1>3, <1>4, OthersRest
<1>6. UniqueRows'
  BY <1>1 DEF Tables, UniqueRows, SameItem
<1>7. \A k \in Jobs : pc[k] # "update"
  BY <1>1, <1>2 DEF Tables, OneAtATime, Active, Running
<1>8. OneVersion'
  BY <1>1, <1>7 DEF Tables, OneVersion
<1>9. \A r, s \in saved[j] : r.path = s.path => r = s
  BY <1>1 DEF Tables, SavedFits
<1>10. SavedFits(j)'
  BY <1>1, <1>3, <1>9 DEF SavedFits
<1>11. PlanFits(j)'
  <2>1. \A p, k : (HasRow(tag[j], p, k))' <=> HasRow(tag[j], p, k)
    BY <1>1 DEF HasRow
  <2>2. \A p \in Paths : WasRead(j, p) => hash[j][p] # None
    BY <1>1, <1>9, ReadIsMustRead
  <2>3. \A i \in touched'[j] : ToTouch(j, i.path, i.key)
    BY <1>4, <1>9, ReadIsMustRead
  <2>4. \A op \in PlannedOps(j) :
          IF Adds(op) THEN ToAdd(j, op.path, op.key) ELSE ToRemove(j, op.path, op.key)
    BY <1>1, <1>9, PlanMeans
  <2>5. \A a, b \in PlannedOps(j) : (SameItem(a, b) /\ (Adds(a) <=> Adds(b))) => a = b
    BY <1>1, <1>9, PlanMeans
  <2>6. ASSUME NEW p \in Paths, NEW k \in Contents
        PROVE  HasRow(tag[j], p, k) <=>
                 \/ Had(j, p, k) /\ (ToRemove(j, p, k) => (RemoveLeft(j, p, k))')
                 \/ ToAdd(j, p, k) /\ ~(AddLeft(j, p, k))'
    <3>1. ToRemove(j, p, k) => (RemoveLeft(j, p, k))'
      BY <1>1, <1>3, <1>9, PlanMeans DEF RemoveLeft, Adds
    <3>2. ToAdd(j, p, k) => (AddLeft(j, p, k))'
      BY <1>1, <1>3, <1>9, PlanMeans DEF AddLeft, Adds
    <3>3. HasRow(tag[j], p, k) <=> Had(j, p, k)
      BY <1>1 DEF Tables, SavedFits, HasRow, Had
    <3>4. QED
      BY <3>1, <3>2, <3>3
  <2>7. \A op \in todo'[j] \cup uncached'[j] :
          IF Adds(op) THEN ToAdd(j, op.path, op.key) ELSE ToRemove(j, op.path, op.key)
    BY <1>3, <2>4
  <2>8. \A a, b \in todo'[j] : (SameItem(a, b) /\ (Adds(a) <=> Adds(b))) => a = b
    BY <1>3, <2>5
  <2>9. QED
    BY <1>1, <2>1, <2>2, <2>3, <2>6, <2>7, <2>8, PlanFitsNext
<1>12. \A k \in Jobs : SavedFits(k)' /\ PlanFits(k)'
  BY <1>5, <1>10, <1>11
<1>13. QED
  BY <1>5, <1>6, <1>8, <1>12 DEF Tables

\* What marking an operation does to the rows.
LEMMA MarkedRows ==
  ASSUME TypeOK, NEW j \in Jobs, NEW op \in Op,
         catalog' = IF Adds(op) THEN WithRow(j, op) ELSE WithoutRow(j, op)
  PROVE  /\ \A r \in catalog' :
              \/ r \in catalog /\ ~IsRowOf(r, tag[j], op)
              \/ Adds(op) /\ r = [tag |-> tag[j], path |-> op.path, key |-> op.key,
                                  time |-> stamp[j]]
         /\ \A r \in catalog : ~IsRowOf(r, tag[j], op) => r \in catalog'
         /\ Adds(op) => [tag |-> tag[j], path |-> op.path, key |-> op.key,
                         time |-> stamp[j]] \in catalog'
<1>1. CASE Adds(op)
  BY <1>1 DEF WithRow, MarkedAt
<1>2. CASE ~Adds(op)
  BY <1>2 DEF WithoutRow
<1>3. QED
  BY <1>1, <1>2

LEMMA MarkedItems ==
  ASSUME TypeOK, NEW j \in Jobs, NEW op \in Op,
         catalog' = IF Adds(op) THEN WithRow(j, op) ELSE WithoutRow(j, op),
         tag' = tag, NEW p, NEW k
  PROVE  (HasRow(tag[j], p, k))' <=>
           IF p = op.path /\ k = op.key THEN Adds(op) ELSE HasRow(tag[j], p, k)
<1> DEFINE new == [tag |-> tag[j], path |-> op.path, key |-> op.key, time |-> stamp[j]]
<1>1. new.tag = tag[j] /\ new.path = op.path /\ new.key = op.key
  OBVIOUS
<1> HIDE DEF new
<1>2. /\ \A r \in catalog' : \/ r \in catalog /\ ~IsRowOf(r, tag[j], op)
                             \/ Adds(op) /\ r = new
      /\ \A r \in catalog : ~IsRowOf(r, tag[j], op) => r \in catalog'
      /\ Adds(op) => new \in catalog'
  BY MarkedRows DEF new
<1>3. CASE p = op.path /\ k = op.key
  BY <1>1, <1>2, <1>3 DEF HasRow, IsRowOf
<1>4. CASE ~(p = op.path /\ k = op.key)
  BY <1>1, <1>2, <1>4 DEF HasRow, IsRowOf
<1>5. QED
  BY <1>3, <1>4

LEMMA TablesMark ==
  ASSUME TypeOK, Tables, NEW j \in Jobs, NEW op \in todo[j], Mark(j, op)
  PROVE  Tables'
<1>1. /\ pc[j] = "update" /\ pc' = pc /\ op \in Op
      /\ catalog' = IF Adds(op) THEN WithRow(j, op) ELSE WithoutRow(j, op)
      /\ UNCHANGED <<tag, stats, saved, hash, touched>>
  BY DEF Mark, locals, TypeOK
<1>2. Active(j)
  BY <1>1 DEF Active, Running
<1>3. /\ todo'[j] = todo[j] \ {op} /\ uncached'[j] = uncached[j] \cup {op}
      /\ \A k \in Jobs \ {j} : todo'[k] = todo[k] /\ uncached'[k] = uncached[k]
  BY DEF Mark, TypeOK
<1>4. /\ OneAtATime' /\ AtRest'
      /\ \A k \in Jobs \ {j} : pc'[k] \notin Running /\ SavedFits(k)' /\ PlanFits(k)'
  BY <1>1, <1>2, <1>3, OthersRest
<1> DEFINE new == [tag |-> tag[j], path |-> op.path, key |-> op.key, time |-> stamp[j]]
<1>5. new.tag = tag[j] /\ new.path = op.path /\ new.key = op.key
  OBVIOUS
<1> HIDE DEF new
<1>6. \A r \in catalog' : \/ r \in catalog /\ ~IsRowOf(r, tag[j], op)
                          \/ Adds(op) /\ r = new
  BY <1>1, MarkedRows DEF new
<1>7. UniqueRows'
  BY <1>5, <1>6 DEF Tables, UniqueRows, SameItem, IsRowOf
<1>8. OneVersion'
  BY <1>1, <1>5, <1>6 DEF Tables, OneVersion
<1>9. SavedFits(j)'
  BY <1>1 DEF Tables, SavedFits
<1>10. PlanFits(j)'
  <2>2. PlanFits(j)
    BY DEF Tables
  <2>3. \A a, b \in todo'[j] : (SameItem(a, b) /\ (Adds(a) <=> Adds(b))) => a = b
    BY <1>1, <1>3, <2>2 DEF PlanFits
  <2>4. \A o \in todo'[j] \cup uncached'[j] :
          IF Adds(o) THEN ToAdd(j, o.path, o.key) ELSE ToRemove(j, o.path, o.key)
    BY <1>1, <1>3, <2>2 DEF PlanFits
  <2>5. ASSUME NEW p \in Paths, NEW k \in Contents
        PROVE  (HasRow(tag[j], p, k))' <=>
                 \/ Had(j, p, k) /\ (ToRemove(j, p, k) => (RemoveLeft(j, p, k))')
                 \/ ToAdd(j, p, k) /\ ~(AddLeft(j, p, k))'
    <3>1. HasRow(tag[j], p, k) <=>
            \/ Had(j, p, k) /\ (ToRemove(j, p, k) => RemoveLeft(j, p, k))
            \/ ToAdd(j, p, k) /\ ~AddLeft(j, p, k)
      BY <1>1, <2>2 DEF PlanFits
    <3>2. CASE ~(p = op.path /\ k = op.key)
      <4>1. (AddLeft(j, p, k))' <=> AddLeft(j, p, k)
        BY <1>3, <3>2 DEF AddLeft, Adds
      <4>2. (RemoveLeft(j, p, k))' <=> RemoveLeft(j, p, k)
        BY <1>3, <3>2 DEF RemoveLeft, Adds
      <4>3. (HasRow(tag[j], p, k))' <=> HasRow(tag[j], p, k)
        BY <1>1, <3>2, MarkedItems
      <4>4. QED
        BY <3>1, <4>1, <4>2, <4>3
    <3>3. CASE p = op.path /\ k = op.key
      <4>1. (HasRow(tag[j], p, k))' <=> Adds(op)
        BY <1>1, <3>3, MarkedItems
      <4>2. \A o \in todo[j] : (o.path = p /\ o.key = k /\ (Adds(o) <=> Adds(op))) => o = op
        BY <1>1, <2>2, <3>3 DEF PlanFits, SameItem
      <4>3. CASE Adds(op)
        <5>1. ToAdd(j, p, k)
          BY <1>1, <2>2, <3>3, <4>3 DEF PlanFits
        <5>2. ~(AddLeft(j, p, k))'
          BY <1>3, <4>2, <4>3 DEF AddLeft, Adds
        <5>3. QED
          BY <4>1, <4>3, <5>1, <5>2
      <4>4. CASE ~Adds(op)
        <5>1. ToRemove(j, p, k)
          BY <1>1, <2>2, <3>3, <4>4 DEF PlanFits
        <5>2. ~(RemoveLeft(j, p, k))'
          BY <1>3, <4>2, <4>4 DEF RemoveLeft, Adds
        <5>3. ~ToAdd(j, p, k)
          BY <5>1 DEF ToAdd, ToRemove
        <5>4. QED
          BY <4>1, <4>4, <5>1, <5>2, <5>3
      <4>5. QED
        BY <4>3, <4>4
    <3>4. QED
      BY <3>2, <3>3
  <2>6. \A p \in Paths : WasRead(j, p) => hash[j][p] # None
    BY <1>1, <2>2 DEF PlanFits
  <2>7. \A i \in touched[j] : ToTouch(j, i.path, i.key)
    BY <1>1, <2>2 DEF PlanFits
  <2>8. QED
    BY <1>1, <2>3, <2>4, <2>5, <2>6, <2>7, PlanFitsNext
<1>11. \A k \in Jobs : SavedFits(k)' /\ PlanFits(k)'
  BY <1>4, <1>9, <1>10
<1>12. QED
  BY <1>4, <1>7, <1>8, <1>11 DEF Tables

LEMMA TablesUpdateCache ==
  ASSUME TypeOK, Tables, NEW j \in Jobs, UpdateCache(j)
  PROVE  Tables'
<1>1. /\ pc[j] = "update" /\ pc' = pc
      /\ UNCHANGED <<catalog, tag, stats, saved, hash, todo, touched>>
      /\ uncached'[j] = {} /\ \A k \in Jobs \ {j} : uncached'[k] = uncached[k]
  BY DEF UpdateCache, locals, TypeOK
<1>2. Active(j)
  BY <1>1 DEF Active, Running
<1>3. /\ OneAtATime' /\ AtRest'
      /\ \A k \in Jobs \ {j} : pc'[k] \notin Running /\ SavedFits(k)' /\ PlanFits(k)'
  BY <1>1, <1>2, OthersRest
<1>4. UniqueRows' /\ OneVersion' /\ SavedFits(j)'
  BY <1>1 DEF Tables, UniqueRows, OneVersion, SavedFits, SameItem
<1>5. PlanFits(j)'
  <2>1. \A p, k : /\ (AddLeft(j, p, k))' <=> AddLeft(j, p, k)
                  /\ (RemoveLeft(j, p, k))' <=> RemoveLeft(j, p, k)
                  /\ (HasRow(tag[j], p, k))' <=> HasRow(tag[j], p, k)
    BY <1>1 DEF AddLeft, RemoveLeft, HasRow, Adds
  <2>2. QED
    BY <1>1, <2>1, PlanFitsNext DEF Tables, PlanFits
<1>6. \A k \in Jobs : SavedFits(k)' /\ PlanFits(k)'
  BY <1>3, <1>4, <1>5
<1>7. QED
  BY <1>3, <1>4, <1>6 DEF Tables

\* A file that changed in time only has one row, which keeps its key.
LEMMA TouchFindsOne ==
  ASSUME TypeOK, Tables, NEW j \in Jobs, Touch(j)
  PROVE  \E item \in touched[j], r, s \in Row :
           /\ r \in catalog /\ IsRowOf(r, tag[j], item)
           /\ s.tag = r.tag /\ s.path = r.path /\ s.key = r.key /\ s.time = stamp[j]
           /\ catalog' = (catalog \ {r}) \cup {s}
           /\ touched' = [touched EXCEPT ![j] = @ \ {item}]
           /\ UNCHANGED clean
<1>1. pc[j] = "update" /\ todo[j] = {} /\ uncached[j] = {}
  BY DEF Touch
<1>2. PICK item \in touched[j] :
        LET rows == RowsOf(tag[j], item.path) IN
        IF \E r, s \in rows : r # s
        THEN /\ touched' = [touched EXCEPT ![j] = {}]
             /\ clean' = [clean EXCEPT ![j] = FALSE]
             /\ UNCHANGED catalog
        ELSE /\ touched' = [touched EXCEPT ![j] = @ \ {item}]
             /\ catalog' = (catalog \ rows) \cup
                  {[r EXCEPT !.key = item.key, !.time = stamp[j]] : r \in rows}
             /\ UNCHANGED clean
  BY DEF Touch
<1>3. item \in Item /\ item.path \in Paths /\ item.key \in Contents
  BY DEF TypeOK, Item
<1>4. ToTouch(j, item.path, item.key) /\ PlanFits(j)
      /\ \A r, s \in saved[j] : r.path = s.path => r = s
  BY <1>1 DEF Tables, PlanFits, SavedFits
<1>5. \A k \in Contents : HasRow(tag[j], item.path, k) <=> k = item.key
  <2>1. \A k \in Contents : HasRow(tag[j], item.path, k) <=>
          \/ Had(j, item.path, k) /\ ~ToRemove(j, item.path, k)
          \/ ToAdd(j, item.path, k)
    BY <1>1, <1>3, <1>4 DEF PlanFits, RemoveLeft, AddLeft
  <2>2. \A k : Had(j, item.path, k) <=> k = item.key
    BY <1>4 DEF ToTouch, Had
  <2>3. item.key = hash[j][item.path] /\ WasRead(j, item.path)
    BY <1>4 DEF ToTouch
  <2>4. \A k : ~ToAdd(j, item.path, k)
    BY <2>2, <2>3 DEF ToAdd
  <2>5. ~ToRemove(j, item.path, item.key)
    BY <2>3 DEF ToRemove, WasRead
  <2>6. QED
    BY <1>3, <2>1, <2>2, <2>4, <2>5
<1>6. PICK r \in catalog : r.tag = tag[j] /\ r.path = item.path /\ r.key = item.key
  BY <1>3, <1>5 DEF HasRow
<1>7. \A s \in RowsOf(tag[j], item.path) : s = r
  <2> SUFFICES ASSUME NEW s \in catalog, s.tag = tag[j], s.path = item.path PROVE s = r
    BY DEF RowsOf
  <2>1. s.key \in Contents
    BY DEF TypeOK, Row
  <2>2. s.key = item.key
    BY <1>5, <2>1 DEF HasRow
  <2>3. QED
    BY <1>6, <2>2 DEF Tables, UniqueRows, SameItem
<1>8. RowsOf(tag[j], item.path) = {r}
  BY <1>6, <1>7 DEF RowsOf
<1> DEFINE s == [r EXCEPT !.key = item.key, !.time = stamp[j]]
<1>9. r \in Row
  BY DEF TypeOK
<1>10. s \in Row /\ s.tag = r.tag /\ s.path = r.path /\ s.key = r.key /\ s.time = stamp[j]
  BY <1>3, <1>6, <1>9 DEF Row, TypeOK
<1>11. /\ touched' = [touched EXCEPT ![j] = @ \ {item}] /\ UNCHANGED clean
       /\ catalog' = (catalog \ RowsOf(tag[j], item.path)) \cup
            {[x EXCEPT !.key = item.key, !.time = stamp[j]] : x \in RowsOf(tag[j], item.path)}
  BY <1>2, <1>7
<1>12. catalog' = (catalog \ {r}) \cup {s}
  BY <1>8, <1>11
<1>13. IsRowOf(r, tag[j], item)
  BY <1>6 DEF IsRowOf
<1> HIDE DEF s
<1>14. QED
  BY <1>9, <1>10, <1>11, <1>12, <1>13

LEMMA TablesTouch ==
  ASSUME TypeOK, Tables, NEW j \in Jobs, Touch(j)
  PROVE  Tables'
<1>1. /\ pc[j] = "update" /\ pc' = pc
      /\ UNCHANGED <<tag, stats, saved, hash, todo, uncached>>
  BY DEF Touch, locals
<1>2. Active(j)
  BY <1>1 DEF Active, Running
<1>3. PICK item \in touched[j], r, s \in Row :
        /\ r \in catalog /\ IsRowOf(r, tag[j], item)
        /\ s.tag = r.tag /\ s.path = r.path /\ s.key = r.key
        /\ catalog' = (catalog \ {r}) \cup {s}
        /\ touched' = [touched EXCEPT ![j] = @ \ {item}]
  BY TouchFindsOne
<1>4. /\ touched'[j] \subseteq touched[j]
      /\ \A k \in Jobs \ {j} : touched'[k] = touched[k]
  BY <1>3 DEF TypeOK
<1>5. /\ OneAtATime' /\ AtRest'
      /\ \A k \in Jobs \ {j} : pc'[k] \notin Running /\ SavedFits(k)' /\ PlanFits(k)'
  BY <1>1, <1>2, <1>4, OthersRest
<1>6. \A x \in catalog' : x = s \/ (x \in catalog /\ x # r)
  BY <1>3
<1>7. UniqueRows'
  BY <1>3, <1>6 DEF Tables, UniqueRows, SameItem
<1>8. OneVersion'
  BY <1>1, <1>3, <1>6 DEF Tables, OneVersion, IsRowOf
<1>9. SavedFits(j)'
  BY <1>1 DEF Tables, SavedFits
<1>10. PlanFits(j)'
  <2>1. \A p, k : /\ (AddLeft(j, p, k))' <=> AddLeft(j, p, k)
                  /\ (RemoveLeft(j, p, k))' <=> RemoveLeft(j, p, k)
    BY <1>1 DEF AddLeft, RemoveLeft, Adds
  <2>2. \A p, k : (HasRow(tag[j], p, k))' <=> HasRow(tag[j], p, k)
    BY <1>1, <1>3 DEF HasRow
  <2>3. QED
    BY <1>1, <1>4, <2>1, <2>2, PlanFitsNext DEF Tables, PlanFits
<1>11. \A k \in Jobs : SavedFits(k)' /\ PlanFits(k)'
  BY <1>5, <1>9, <1>10
<1>12. QED
  BY <1>5, <1>7, <1>8, <1>11 DEF Tables

\* What the run has left of each file when it has done all it had to.
LEMMA UpdateDone ==
  ASSUME Tables, NEW j \in Jobs, pc[j] = "update", todo[j] = {},
         NEW p \in Paths, NEW k \in Contents
  PROVE  HasRow(tag[j], p, k) <=>
           (Had(j, p, k) /\ ~ToRemove(j, p, k)) \/ ToAdd(j, p, k)
BY DEF Tables, PlanFits, RemoveLeft, AddLeft

LEMMA TablesFinish ==
  ASSUME TypeOK, Tables, NEW j \in Jobs, Finish(j)
  PROVE  Tables'
<1>1. /\ pc[j] = "update" /\ todo[j] = {} /\ uncached[j] = {} /\ touched[j] = {}
      /\ UNCHANGED <<catalog, tag, todo, uncached, touched>>
  BY DEF Finish, tables, lists
<1>2. pc'[j] = "done" /\ \A k \in Jobs \ {j} : pc'[k] = pc[k]
  BY DEF Finish, End
<1>3. Active(j)
  BY <1>1 DEF Active, Running
<1>4. /\ OneAtATime' /\ AtRest'
      /\ \A k \in Jobs \ {j} : pc'[k] \notin Running /\ SavedFits(k)' /\ PlanFits(k)'
  BY <1>1, <1>2, <1>3, OthersRest
<1>5. UniqueRows'
  BY <1>1 DEF Tables, UniqueRows, SameItem
<1>6. \A r, s \in saved[j] : r.path = s.path => r = s
  BY <1>1 DEF Tables, SavedFits
<1>7. ASSUME NEW p \in Paths, NEW k \in Contents, NEW h \in Contents,
             HasRow(tag[j], p, k), HasRow(tag[j], p, h)
      PROVE  k = h
  <2>1. /\ (Had(j, p, k) /\ ~ToRemove(j, p, k)) \/ ToAdd(j, p, k)
        /\ (Had(j, p, h) /\ ~ToRemove(j, p, h)) \/ ToAdd(j, p, h)
    BY <1>1, <1>7, UpdateDone
  <2>2. Had(j, p, k) /\ Had(j, p, h) => k = h
    BY <1>6 DEF Had
  <2>3. ~(ToAdd(j, p, k) /\ Had(j, p, h) /\ ~ToRemove(j, p, h))
    BY DEF ToAdd, ToRemove
  <2>4. ~(ToAdd(j, p, h) /\ Had(j, p, k) /\ ~ToRemove(j, p, k))
    BY DEF ToAdd, ToRemove
  <2>5. ToAdd(j, p, k) /\ ToAdd(j, p, h) => k = h
    BY DEF ToAdd
  <2>6. QED
    BY <2>1, <2>2, <2>3, <2>4, <2>5
<1>8. OneVersion'
  <2> SUFFICES ASSUME NEW r \in catalog, NEW s \in catalog, r.tag = s.tag, r.path = s.path
               PROVE  r = s
    BY <1>1 DEF OneVersion
  <2>1. r.path \in Paths /\ r.key \in Contents /\ s.key \in Contents
    BY DEF TypeOK, Row
  <2>2. CASE r.tag = tag[j]
    <3>1. HasRow(tag[j], r.path, r.key) /\ HasRow(tag[j], r.path, s.key)
      BY <2>2 DEF HasRow
    <3>2. r.key = s.key
      BY <1>7, <2>1, <3>1
    <3>3. QED
      BY <3>2 DEF Tables, UniqueRows, SameItem
  <2>3. CASE r.tag # tag[j]
    <3>1. \A k \in Jobs : pc[k] = "update" => k = j
      BY <1>3 DEF Tables, OneAtATime, Active, Running
    <3>2. QED
      BY <2>3, <3>1 DEF Tables, OneVersion
  <2>4. QED
    BY <2>2, <2>3
<1>9. SavedFits(j)' /\ PlanFits(j)'
  BY <1>2 DEF SavedFits, PlanFits
<1>10. \A k \in Jobs : SavedFits(k)' /\ PlanFits(k)'
  BY <1>4, <1>9
<1>11. QED
  BY <1>4, <1>5, <1>8, <1>10 DEF Tables

LEMMA TablesStep ==
  ASSUME Serial, TypeOK, Tables, faults = 0, faults' = 0, [Next]_vars
  PROVE  Tables'
<1> USE DEF Goto, world, tables, locals, lists, history
<1>1. ASSUME NEW j \in Jobs, Start(j) PROVE Tables'
  <2>1. pc'[j] = "stat" /\ pc[j] = "idle" /\ \A k \in Jobs \ {j} : pc'[k] = pc[k]
    BY <1>1 DEF Start, TypeOK
  <2>2. \A k \in Jobs : ~Active(k)
    BY <1>1 DEF Start
  <2>3. SavedFits(j)'
    BY <2>1 DEF SavedFits
  <2>4. UNCHANGED <<catalog, todo, uncached, touched>>
    BY <1>1 DEF Start
  <2>5. QED
    BY <2>1, <2>2, <2>3, <2>4, TablesQuiet
<1>2. ASSUME NEW j \in Jobs, Stat(j) \/ Stamp(j) PROVE Tables'
  <2>1. /\ pc'[j] \in {"stamp", "saved"} /\ pc[j] \in {"stat", "stamp"}
        /\ \A k \in Jobs \ {j} : pc'[k] = pc[k]
    BY <1>2 DEF Stat, Stamp, TypeOK
  <2>2. Active(j)
    BY <2>1 DEF Active, Running
  <2>3. SavedFits(j)'
    BY <2>1 DEF SavedFits
  <2>4. UNCHANGED <<catalog, todo, uncached, touched>>
    BY <1>2 DEF Stat, Stamp
  <2>5. QED
    BY <2>1, <2>2, <2>3, <2>4, TablesQuiet
<1>3. ASSUME NEW j \in Jobs, ReadSaved(j) PROVE Tables'
  <2>1. /\ pc'[j] = "read" /\ pc[j] = "saved"
        /\ \A k \in Jobs \ {j} : pc'[k] = pc[k]
        /\ saved'[j] = {r \in catalog : r.tag = tag[j]}
        /\ UNCHANGED <<catalog, tag, todo, uncached, touched>>
    BY <1>3 DEF ReadSaved, TypeOK
  <2>2. Active(j)
    BY <2>1 DEF Active, Running
  <2>3. \A k \in Jobs : pc[k] # "update"
    BY <2>1, <2>2 DEF Tables, OneAtATime, Active, Running
  <2>4. SavedFits(j)'
    BY <2>1, <2>3 DEF Tables, OneVersion, SavedFits
  <2>5. QED
    BY <2>1, <2>2, <2>4, TablesQuiet
<1>4. ASSUME NEW j \in Jobs, NEW p \in Paths, ReadFile(j, p) PROVE Tables'
  <2>1. pc[j] = "read" /\ UNCHANGED <<catalog, tag, todo, uncached, touched>>
    BY <1>4 DEF ReadFile
  <2>2. Active(j)
    BY <2>1 DEF Active, Running
  <2>3. UNCHANGED <<pc, saved>> \/ End({j}, "done")
    BY <1>4 DEF ReadFile
  <2>4. /\ pc'[j] \in {"read", "done"} /\ \A k \in Jobs \ {j} : pc'[k] = pc[k]
        /\ pc'[j] = "read" => saved' = saved
    BY <2>1, <2>3 DEF End
  <2>5. SavedFits(j)'
    BY <2>1, <2>4 DEF Tables, SavedFits
  <2>6. QED
    BY <2>1, <2>2, <2>4, <2>5, TablesQuiet
<1>5. ASSUME NEW j \in Jobs, Fail(j) PROVE FALSE
  BY <1>5 DEF Fail
<1>6. ASSUME NEW b \in Branches, NEW new \in [Paths -> Contents \cup {None}],
             NEW written \in SUBSET Paths, ChangeFiles(b, new, written)
      PROVE  Tables'
  <2>1. UNCHANGED <<catalog, pc, tag, stats, saved, hash, todo, uncached, touched>>
    BY <1>6 DEF ChangeFiles
  <2>2. QED
    BY <2>1, TablesFrame
<1>7. ASSUME Crash PROVE FALSE
  BY <1>7 DEF Crash
<1>8. CASE UNCHANGED vars
  <2>1. UNCHANGED <<catalog, pc, tag, stats, saved, hash, todo, uncached, touched>>
    BY <1>8 DEF vars
  <2>2. QED
    BY <2>1, TablesFrame
<1>9. QED
  BY <1>1, <1>2, <1>3, <1>4, <1>5, <1>6, <1>7, <1>8, TablesPlan, TablesMark,
     TablesUpdateCache, TablesTouch, TablesFinish DEF Next, Step

\* Before the first fault, faults have been zero all along.
LEMMA FaultsOnlyGrow ==
  ASSUME TypeOK, [Next]_vars, faults' = 0
  PROVE  faults = 0
<1> USE DEF world, tables, locals, lists, history
<1>1. ASSUME NEW j \in Jobs, Step(j) PROVE faults' = faults \/ faults' = faults + 1
  <2>1. ASSUME NEW p \in Paths, ReadFile(j, p)
        PROVE  faults' = faults \/ faults' = faults + 1
    BY <2>1 DEF ReadFile
  <2>2. ASSUME NEW op \in todo[j], Mark(j, op) PROVE faults' = faults
    BY <2>2 DEF Mark
  <2>3. CASE Start(j) \/ Stat(j) \/ Stamp(j) \/ ReadSaved(j) \/ Plan(j)
    BY <2>3 DEF Start, Stat, Stamp, ReadSaved, Plan
  <2>4. CASE UpdateCache(j) \/ Touch(j) \/ Finish(j) \/ Fail(j)
    BY <2>4 DEF UpdateCache, Touch, Finish, Fail
  <2>5. QED
    BY <1>1, <2>1, <2>2, <2>3, <2>4 DEF Step
<1>2. faults' = faults \/ faults' = faults + 1
  BY <1>1 DEF Next, ChangeFiles, Crash, vars
<1>3. faults \in Nat
  BY DEF TypeOK
<1>4. QED
  BY <1>2, <1>3

\* Until the first crash or failure, refreshes that run one after the other
\* keep the catalog to one version of each file and carry out their plans.
THEOREM OneVersionHolds ==
  ASSUME Serial
  PROVE  Spec => [](faults = 0 => Tables)
<1> DEFINE Inv == faults = 0 => Tables
<1>1. Init => Tables
  <2> SUFFICES ASSUME Init PROVE Tables
    OBVIOUS
  <2>1. /\ catalog = {} /\ \A j \in Jobs : pc[j] = "idle"
        /\ \A j \in Jobs : todo[j] = {} /\ uncached[j] = {} /\ touched[j] = {}
    BY DEF Init
  <2>2. QED
    BY <2>1 DEF Tables, OneAtATime, AtRest, UniqueRows, OneVersion, SavedFits,
                PlanFits, Active, Running
<1>2. Init => Inv
  BY <1>1
<1>3. TypeOK /\ Inv /\ [Next]_vars => Inv'
  BY TablesStep, FaultsOnlyGrow
<1>4. QED
  BY <1>2, <1>3, TypeCorrect, PTL DEF Spec

-----------------------------------------------------------------------------
(***************************************************************************)
(* The working tree                                                        *)
(***************************************************************************)
LEMMA SyncedMeans ==
  ASSUME TypeOK, NEW t \in Branches,
         \A p \in Paths, k \in Contents : HasRow(t, p, k) <=> disk[p] = k
  PROVE  Synced(t)
<1>1. ASSUME NEW r \in catalog, r.tag = t
      PROVE  \E p \in Paths : disk[p] # None
               /\ [path |-> r.path, key |-> r.key] = [path |-> p, key |-> disk[p]]
  <2>1. r.path \in Paths /\ r.key \in Contents
    BY DEF TypeOK, Row
  <2>2. disk[r.path] = r.key
    BY <1>1, <2>1 DEF HasRow
  <2>3. QED
    BY <2>1, <2>2, DataAssumption
<1>2. ASSUME NEW p \in Paths, disk[p] # None
      PROVE  \E r \in catalog : r.tag = t
               /\ [path |-> r.path, key |-> r.key] = [path |-> p, key |-> disk[p]]
  <2>1. disk[p] \in Contents
    BY <1>2 DEF TypeOK
  <2>2. PICK r \in catalog : r.tag = t /\ r.path = p /\ r.key = disk[p]
    BY <2>1 DEF HasRow
  <2>3. QED
    BY <2>2
<1> DEFINE L == {[path |-> r.path, key |-> r.key] : r \in {s \in catalog : s.tag = t}}
           R == {[path |-> p, key |-> disk[p]] : p \in {q \in Paths : disk[q] # None}}
<1>3. L \subseteq R
  BY <1>1
<1>4. ASSUME NEW x \in R PROVE x \in L
  <2>1. PICK p \in Paths : disk[p] # None /\ x = [path |-> p, key |-> disk[p]]
    BY <1>4
  <2>2. PICK r \in catalog : r.tag = t /\ [path |-> r.path, key |-> r.key] = x
    BY <1>2, <2>1
  <2>3. QED
    BY <2>2
<1>5. QED
  BY <1>3, <1>4 DEF Synced

\* Only the run that moves may be undisturbed.
LEMMA OthersDisturbed ==
  ASSUME Tables, Trees, NEW j \in Jobs, Active(j),
         \A k \in Jobs : clean'[k] => clean[k],
         \A k \in Jobs \ {j} : pc'[k] = pc[k]
  PROVE  OneClean' /\ \A k \in Jobs \ {j} : CleanFits(k)'
<1>1. \A k \in Jobs : clean'[k] => k = j
  BY DEF Trees, OneClean
<1>2. \A k \in Jobs \ {j} : ~Active(k) /\ ~Active(k)'
  BY DEF Tables, OneAtATime, Active
<1>3. OneClean'
  BY <1>1, <1>2 DEF OneClean
<1>4. QED
  BY <1>1, <1>3 DEF CleanFits

\* A step of a run that has made its reads, or will.
LEMMA TreesKeep ==
  ASSUME TypeOK, Tables, Trees, NEW j \in Jobs, Active(j),
         UNCHANGED <<disk, mtime, stats, saved, hash>>,
         \A k \in Jobs : clean'[k] => clean[k],
         \A k \in Jobs \ {j} : pc'[k] = pc[k],
         \/ pc'[j] = pc[j]
         \/ pc[j] = "stamp" /\ pc'[j] = "saved"
         \/ pc[j] = "read" /\ pc'[j] = "update"
  PROVE  Trees'
<1>1. OneClean' /\ \A k \in Jobs \ {j} : CleanFits(k)'
  BY OthersDisturbed
<1>2. pc'[j] # "done"
  BY DEF Active, Running
<1>3. CleanFits(j)
  BY DEF Trees
<1>4. CASE ~clean'[j] \/ Scope[j] # None
  BY <1>1, <1>4 DEF Trees, CleanFits
<1>5. CASE clean'[j] /\ Scope[j] = None
  <2>1. pc'[j] \in {"stamp", "saved", "read", "update"} =>
          pc[j] \in {"stamp", "saved", "read", "update"}
    OBVIOUS
  <2>2. pc'[j] \in {"read", "update"} => pc[j] \in {"read", "update"}
    OBVIOUS
  <2>3. CleanFits(j)'
    BY <1>2, <1>3, <1>5, <2>1, <2>2 DEF CleanFits
  <2>4. QED
    BY <1>1, <2>3 DEF Trees
<1>6. QED
  BY <1>4, <1>5

LEMMA TreesFinish ==
  ASSUME TypeOK, Tables, Trees, NEW j \in Jobs, Finish(j)
  PROVE  Trees'
<1>1. /\ pc[j] = "update" /\ todo[j] = {}
      /\ UNCHANGED <<catalog, disk, mtime, tag, clean>>
  BY DEF Finish, tables, world, history
<1>2. pc'[j] = "done" /\ \A k \in Jobs \ {j} : pc'[k] = pc[k]
  BY DEF Finish, End
<1>3. Active(j)
  BY <1>1 DEF Active, Running
<1>4. OneClean' /\ \A k \in Jobs \ {j} : CleanFits(k)'
  BY <1>1, <1>2, <1>3, OthersDisturbed
<1>5. ASSUME clean[j], Scope[j] = None
      PROVE  Synced(tag[j])
  <2>1. /\ \A p \in Paths : stats[j][p] = IF disk[p] # None THEN mtime[p] ELSE None
        /\ \A p \in Paths : hash[j][p] # None => hash[j][p] = disk[p]
        /\ \A r \in saved[j] :
             (disk[r.path] # None /\ mtime[r.path] <= r.time) => r.key = disk[r.path]
    BY <1>1, <1>5 DEF Trees, CleanFits
  <2>2. /\ \A r, s \in saved[j] : r.path = s.path => r = s
        /\ \A p \in Paths : WasRead(j, p) => hash[j][p] # None
    BY <1>1 DEF Tables, SavedFits, PlanFits
  <2>3. ASSUME NEW p \in Paths, NEW k \in Contents
        PROVE  HasRow(tag[j], p, k) <=> disk[p] = k
    <3>1. HasRow(tag[j], p, k) <=> (Had(j, p, k) /\ ~ToRemove(j, p, k)) \/ ToAdd(j, p, k)
      BY <1>1, UpdateDone
    <3>2. InScope(j, p) /\ k # None /\ mtime[p] \in Nat /\ mtime[p] # None
      BY <1>5, DataAssumption DEF InScope, TypeOK
    <3>3. CASE disk[p] = None
      BY <2>1, <3>1, <3>2, <3>3 DEF ToAdd, ToRemove, WasRead
    <3>4. CASE disk[p] # None /\ WasRead(j, p)
      <4>1. hash[j][p] = disk[p] /\ stats[j][p] # None
        BY <2>1, <2>2, <3>4 DEF WasRead
      <4>2. QED
        BY <3>1, <3>2, <3>4, <4>1 DEF ToAdd, ToRemove
    <3>5. CASE disk[p] # None /\ ~WasRead(j, p)
      <4>1. stats[j][p] = mtime[p] /\ stats[j][p] # None
        BY <2>1, <3>2, <3>5
      <4>2. PICK r \in saved[j] : r.path = p /\ ~(r.time < mtime[p])
        BY <3>5, <4>1 DEF WasRead
      <4>3. r.time \in Nat
        BY DEF TypeOK, Row
      <4>4. r.key = disk[p]
        BY <2>1, <3>2, <3>5, <4>2, <4>3
      <4>5. Had(j, p, k) <=> k = disk[p]
        BY <2>2, <4>2, <4>4 DEF Had
      <4>6. ~ToRemove(j, p, k) /\ ~ToAdd(j, p, k)
        BY <3>5, <4>1 DEF ToRemove, ToAdd
      <4>7. QED
        BY <3>1, <4>5, <4>6
    <3>6. QED
      BY <3>3, <3>4, <3>5
  <2>4. tag[j] \in Branches
    BY DEF TypeOK
  <2>5. QED
    BY <2>3, <2>4, SyncedMeans
<1>6. CleanFits(j)'
  <2>1. (Synced(tag[j]))' <=> Synced(tag[j])
    BY <1>1 DEF Synced
  <2>2. QED
    BY <1>1, <1>2, <1>5, <2>1 DEF CleanFits
<1>7. QED
  BY <1>4, <1>6 DEF Trees

LEMMA TreesStep ==
  ASSUME Serial, Buffers = {}, TypeOK, Tables, Trees, ClaimsBelievable,
         faults = 0, faults' = 0, [Next]_vars
  PROVE  Trees'
<1> USE DEF Goto, world, tables, locals, lists, history
<1>1. ASSUME NEW j \in Jobs, Start(j) PROVE Trees'
  <2>1. /\ pc'[j] = "stat" /\ \A k \in Jobs : ~Active(k)
        /\ \A k \in Jobs \ {j} : pc'[k] = pc[k]
        /\ \A k \in Jobs : clean'[k] => k = j
    BY <1>1 DEF Start, TypeOK
  <2>2. \A k \in Jobs : Active(k)' => k = j
    BY <2>1 DEF Active
  <2>3. OneClean'
    BY <2>1, <2>2 DEF OneClean
  <2>4. \A k \in Jobs : CleanFits(k)'
    BY <2>1 DEF CleanFits
  <2>5. QED
    BY <2>3, <2>4 DEF Trees
<1>2. ASSUME NEW j \in Jobs, Stat(j) PROVE Trees'
  <2>1. /\ pc[j] = "stat" /\ pc'[j] = "stamp"
        /\ \A k \in Jobs \ {j} : pc'[k] = pc[k]
        /\ UNCHANGED <<disk, mtime, clean>>
    BY <1>2 DEF Stat, TypeOK
  <2>2. stats'[j] = [p \in Paths |-> IF disk[p] # None /\ Scope[j] \in {None, p}
                                     THEN mtime[p] ELSE None]
    BY <1>2 DEF Stat, TypeOK
  <2>3. Active(j)
    BY <2>1 DEF Active, Running
  <2>4. OneClean' /\ \A k \in Jobs \ {j} : CleanFits(k)'
    BY <2>1, <2>3, OthersDisturbed
  <2>5. CleanFits(j)'
    BY <2>1, <2>2 DEF CleanFits
  <2>6. QED
    BY <2>4, <2>5 DEF Trees
<1>3. ASSUME NEW j \in Jobs, Stamp(j) PROVE Trees'
  <2>1. /\ pc[j] = "stamp" /\ pc'[j] = "saved"
        /\ \A k \in Jobs \ {j} : pc'[k] = pc[k]
        /\ UNCHANGED <<disk, mtime, stats, saved, hash, clean>>
    BY <1>3 DEF Stamp, TypeOK
  <2>2. Active(j)
    BY <2>1 DEF Active, Running
  <2>3. QED
    BY <2>1, <2>2, TreesKeep
<1>4. ASSUME NEW j \in Jobs, ReadSaved(j) PROVE Trees'
  <2>1. /\ pc[j] = "saved" /\ pc'[j] = "read"
        /\ \A k \in Jobs \ {j} : pc'[k] = pc[k]
        /\ saved'[j] = {r \in catalog : r.tag = tag[j]}
        /\ UNCHANGED <<disk, mtime, stats, hash, clean>>
    BY <1>4 DEF ReadSaved, TypeOK
  <2>2. Active(j)
    BY <2>1 DEF Active, Running
  <2>3. OneClean' /\ \A k \in Jobs \ {j} : CleanFits(k)'
    BY <2>1, <2>2, OthersDisturbed
  <2>4. \A p \in Paths : hash[j][p] = None
    BY <2>1 DEF ClaimsBelievable, Nothing
  <2>5. \A r \in saved'[j] :
          (disk[r.path] # None /\ mtime[r.path] <= r.time) => r.key = disk[r.path]
    BY <2>1 DEF ClaimsBelievable, Believable
  <2>6. CleanFits(j)'
    BY <2>1, <2>4, <2>5 DEF Trees, CleanFits
  <2>7. QED
    BY <2>3, <2>6 DEF Trees
<1>5. ASSUME NEW j \in Jobs, NEW p \in Paths, ReadFile(j, p) PROVE Trees'
  <2>1. pc[j] = "read" /\ UNCHANGED <<disk, mtime, tag>>
    BY <1>5 DEF ReadFile
  <2>2. Active(j)
    BY <2>1 DEF Active, Running
  <2>3. PICK content \in Readable(p) :
          \/ /\ hash' = [hash EXCEPT ![j][p] = content]
             /\ clean' = [clean EXCEPT ![j] = @ /\ content = disk[p]]
             /\ UNCHANGED <<pc, stats, saved>>
          \/ End({j}, "done") /\ clean' = [clean EXCEPT ![j] = FALSE]
    BY <1>5 DEF ReadFile
  <2>4. CASE End({j}, "done") /\ clean' = [clean EXCEPT ![j] = FALSE]
    <3>1. ~clean'[j] /\ \A k \in Jobs \ {j} : pc'[k] = pc[k] /\ clean'[k] = clean[k]
      BY <2>4 DEF End, TypeOK
    <3>2. OneClean' /\ \A k \in Jobs \ {j} : CleanFits(k)'
      BY <2>2, <3>1, OthersDisturbed
    <3>3. QED
      BY <3>1, <3>2 DEF Trees, CleanFits
  <2>5. CASE /\ hash' = [hash EXCEPT ![j][p] = content]
             /\ clean' = [clean EXCEPT ![j] = @ /\ content = disk[p]]
             /\ UNCHANGED <<pc, stats, saved>>
    <3>1. /\ clean'[j] => clean[j] /\ content = disk[p]
          /\ \A k \in Jobs \ {j} : clean'[k] = clean[k]
      BY <2>5 DEF TypeOK
    <3>2. OneClean' /\ \A k \in Jobs \ {j} : CleanFits(k)'
      BY <2>2, <2>5, <3>1, OthersDisturbed
    <3>3. \A q \in Paths : hash'[j][q] = IF q = p THEN content ELSE hash[j][q]
      BY <2>5 DEF TypeOK
    <3>4. CASE clean'[j] /\ Scope[j] = None
      <4>1. \A q \in Paths : hash'[j][q] # None => hash'[j][q] = disk[q]
        BY <2>1, <3>1, <3>3, <3>4 DEF Trees, CleanFits
      <4>2. /\ \A q \in Paths : stats[j][q] = IF disk[q] # None THEN mtime[q] ELSE None
            /\ \A r \in saved[j] :
                 (disk[r.path] # None /\ mtime[r.path] <= r.time) => r.key = disk[r.path]
        BY <2>1, <3>1, <3>4 DEF Trees, CleanFits
      <4>3. CleanFits(j)'
        BY <2>1, <2>5, <4>1, <4>2 DEF CleanFits
      <4>4. QED
        BY <3>2, <4>3 DEF Trees
    <3>5. CASE ~(clean'[j] /\ Scope[j] = None)
      BY <3>2, <3>5 DEF Trees, CleanFits
    <3>6. QED
      BY <3>4, <3>5
  <2>6. QED
    BY <2>3, <2>4, <2>5
<1>6. ASSUME NEW j \in Jobs, Plan(j) PROVE Trees'
  <2>1. /\ pc[j] = "read" /\ pc'[j] = "update"
        /\ \A k \in Jobs \ {j} : pc'[k] = pc[k]
        /\ UNCHANGED <<disk, mtime, stats, saved, hash, clean>>
    BY <1>6 DEF Plan, TypeOK
  <2>2. Active(j)
    BY <2>1 DEF Active, Running
  <2>3. QED
    BY <2>1, <2>2, TreesKeep
<1>7. ASSUME NEW j \in Jobs, (\E op \in todo[j] : Mark(j, op)) \/ UpdateCache(j)
      PROVE  Trees'
  <2>1. pc[j] = "update" /\ UNCHANGED <<disk, mtime, pc, stats, saved, hash, clean>>
    BY <1>7 DEF Mark, UpdateCache
  <2>2. Active(j)
    BY <2>1 DEF Active, Running
  <2>3. QED
    BY <2>1, <2>2, TreesKeep
<1>8. ASSUME NEW j \in Jobs, Touch(j) PROVE Trees'
  <2>1. pc[j] = "update" /\ UNCHANGED <<disk, mtime, pc, stats, saved, hash>>
    BY <1>8 DEF Touch
  <2>2. UNCHANGED clean
    BY <1>8, TouchFindsOne
  <2>3. Active(j)
    BY <2>1 DEF Active, Running
  <2>4. QED
    BY <2>1, <2>2, <2>3, TreesKeep
<1>9. ASSUME NEW j \in Jobs, Fail(j) PROVE FALSE
  BY <1>9 DEF Fail
<1>10. ASSUME NEW b \in Branches, NEW new \in [Paths -> Contents \cup {None}],
              NEW written \in SUBSET Paths, ChangeFiles(b, new, written)
       PROVE  Trees'
  <2>1. \A k \in Jobs : ~clean'[k]
    BY <1>10 DEF ChangeFiles
  <2>2. QED
    BY <2>1 DEF Trees, OneClean, CleanFits
<1>11. ASSUME Crash PROVE FALSE
  BY <1>11 DEF Crash
<1>12. CASE UNCHANGED vars
  <2>1. UNCHANGED <<disk, mtime, catalog, pc, tag, stats, saved, hash, clean>>
    BY <1>12 DEF vars
  <2>2. \A j \in Jobs : CleanFits(j)' <=> CleanFits(j)
    BY <2>1 DEF CleanFits, Synced
  <2>3. QED
    BY <2>1, <2>2 DEF Trees, OneClean, Active
<1>13. QED
  BY <1>1, <1>2, <1>3, <1>4, <1>5, <1>6, <1>7, <1>8, <1>9, <1>10, <1>11, <1>12,
     TreesFinish DEF Next, Step

\* What a run that nothing has disturbed knows of the working tree stays true.
LEMMA TreesHold ==
  ASSUME Serial, Buffers = {}
  PROVE  Spec => [](faults = 0 => Tables /\ Trees)
<1> DEFINE Inv == faults = 0 => Tables /\ Trees
<1>1. Init => Inv
  <2> SUFFICES ASSUME Init PROVE Inv
    OBVIOUS
  <2>1. /\ catalog = {} /\ \A j \in Jobs : pc[j] = "idle" /\ ~clean[j]
        /\ \A j \in Jobs : todo[j] = {} /\ uncached[j] = {} /\ touched[j] = {}
    BY DEF Init
  <2>2. Tables
    BY <2>1 DEF Tables, OneAtATime, AtRest, UniqueRows, OneVersion, SavedFits,
                PlanFits, Active, Running
  <2>3. Trees
    BY <2>1 DEF Trees, OneClean, CleanFits
  <2>4. QED
    BY <2>2, <2>3
<1>2. TypeOK /\ ClaimsBelievable /\ Inv /\ [Next]_vars => Inv'
  BY TablesStep, TreesStep, FaultsOnlyGrow
<1>3. QED
  BY <1>1, <1>2, TypeCorrect, ClaimsHold, PTL DEF Spec

\* A directory refresh that nothing disturbed leaves exactly the versions of
\* the working tree under its tag, whatever refreshes of any scope, edits and
\* checkouts came before, until the first crash or failure.
THEOREM SyncedWhenCleanHolds ==
  ASSUME Serial, Buffers = {}
  PROVE  Spec => [](faults = 0 => SyncedWhenClean)
<1>1. Trees => SyncedWhenClean
  BY DEF Trees, CleanFits, SyncedWhenClean
<1>2. Spec => [](faults = 0 => Tables /\ Trees)
  BY TreesHold
<1>3. QED
  BY <1>1, <1>2, PTL

-----------------------------------------------------------------------------
(***************************************************************************)
(* The global cache                                                        *)
(***************************************************************************)
\* The keys of a plan are those of the files.
LEMMA PlanKeysOwn ==
  ASSUME TypeOK, NEW j \in Jobs, \A r \in saved[j] : r.key \in MayHold[r.path],
         \A p \in Paths : hash[j][p] \in MayHold[p] \cup {None},
         \A p \in MustRead(j) : hash[j][p] # None
  PROVE  /\ \A op \in PlannedOps(j) : op.key \in MayHold[op.path]
         /\ \A p \in Paths : IsSameContent(j, p) => hash[j][p] \in MayHold[p]
<1>1. \A p \in MustRead(j) : p \in Paths /\ hash[j][p] \in MayHold[p]
  BY DEF MustRead
<1>2. \A i \in ItemsToAdd(j) : i.key \in MayHold[i.path]
  BY <1>1 DEF ItemsToAdd
<1>3. ASSUME NEW i \in ItemsToRemove(j) PROVE i.key \in MayHold[i.path]
  <2>1. \A p \in Paths : \A r \in OldVersions(j, p) : r \in saved[j] /\ r.path = p
    BY DEF OldVersions, Versions
  <2>2. PICK p \in Paths : i \in {[path |-> p, key |-> r.key] : r \in OldVersions(j, p)}
    BY <1>3 DEF ItemsToRemove
  <2>3. PICK r \in OldVersions(j, p) : i = [path |-> p, key |-> r.key]
    BY <2>2
  <2>4. QED
    BY <2>1, <2>3
<1>4. \A op \in PlannedOps(j) : \E i \in ItemsToAdd(j) \cup ItemsToRemove(j) :
        op.path = i.path /\ op.key = i.key
  BY DEF PlannedOps
<1>5. QED
  BY <1>1, <1>2, <1>3, <1>4 DEF IsSameContent, MustRead

\* What a run holds, and the rows, while the working tree keeps to MayHold.
LEMMA KeysSplit ==
  ASSUME TypeOK, KeysAreOwn, disk' = disk \/ \A p \in Paths : disk'[p] \in MayHold[p] \cup {None},
         NEW j \in Jobs,
         \A r \in catalog' : r.key \in MayHold[r.path],
         \A k \in Jobs \ {j} : /\ saved'[k] = saved[k] /\ hash'[k] = hash[k]
                               /\ todo'[k] = todo[k] /\ uncached'[k] = uncached[k]
                               /\ touched'[k] = touched[k],
         \A r \in saved'[j] : r.key \in MayHold[r.path],
         \A p \in Paths : hash'[j][p] \in MayHold[p] \cup {None},
         \A op \in todo'[j] \cup uncached'[j] : op.key \in MayHold[op.path],
         \A i \in touched'[j] : i.key \in MayHold[i.path]
  PROVE  KeysAreOwn'
BY DEF KeysAreOwn

\* Neither the rows nor what the runs hold becomes more.
LEMMA KeysFewer ==
  ASSUME KeysAreOwn, disk' = disk \/ \A p \in Paths : disk'[p] \in MayHold[p] \cup {None},
         catalog' \subseteq catalog,
         \A j \in Jobs :
           /\ saved'[j] \subseteq saved[j]
           /\ hash'[j] = hash[j] \/ hash'[j] = Nothing
           /\ todo'[j] \cup uncached'[j] \subseteq todo[j] \cup uncached[j]
           /\ touched'[j] \subseteq touched[j]
  PROVE  KeysAreOwn'
<1>1. \A p \in Paths : disk'[p] \in MayHold[p] \cup {None}
  BY DEF KeysAreOwn
<1>2. \A r \in catalog' : r.key \in MayHold[r.path]
  BY DEF KeysAreOwn
<1>3. ASSUME NEW j \in Jobs
      PROVE  /\ \A r \in saved'[j] : r.key \in MayHold[r.path]
             /\ \A p \in Paths : hash'[j][p] \in MayHold[p] \cup {None}
             /\ \A op \in todo'[j] \cup uncached'[j] : op.key \in MayHold[op.path]
             /\ \A i \in touched'[j] : i.key \in MayHold[i.path]
  BY DEF KeysAreOwn, Nothing
<1>4. QED
  BY <1>1, <1>2, <1>3 DEF KeysAreOwn

\* What ends a run takes only from it.
LEMMA EndTakes ==
  ASSUME TypeOK, NEW Over \in SUBSET Jobs, NEW place, End(Over, place), NEW j \in Jobs
  PROVE  saved'[j] \subseteq saved[j] /\ (hash'[j] = hash[j] \/ hash'[j] = Nothing)
BY DEF End, TypeOK

LEMMA KeysStep ==
  ASSUME TypeOK, KeysAreOwn, faults = 0, faults' = 0, [Next]_vars
  PROVE  KeysAreOwn'
<1> USE DEF Goto, world, tables, locals, lists, history
<1>1. ASSUME NEW j \in Jobs, Start(j) \/ Stat(j) \/ Stamp(j) PROVE KeysAreOwn'
  BY <1>1, KeysFewer DEF Start, Stat, Stamp
<1>2. ASSUME NEW j \in Jobs, ReadSaved(j) PROVE KeysAreOwn'
  <2>1. /\ saved'[j] = {r \in catalog : r.tag = tag[j]}
        /\ \A k \in Jobs \ {j} : saved'[k] = saved[k]
        /\ UNCHANGED <<disk, catalog, hash, todo, uncached, touched>>
    BY <1>2 DEF ReadSaved, TypeOK
  <2>2. QED
    BY <2>1, KeysSplit DEF KeysAreOwn
<1>3. ASSUME NEW j \in Jobs, NEW p \in Paths, ReadFile(j, p) PROVE KeysAreOwn'
  <2>1. UNCHANGED <<disk, catalog, todo, uncached, touched>>
    BY <1>3 DEF ReadFile
  <2>2. PICK content \in Readable(p) :
          \/ /\ hash' = [hash EXCEPT ![j][p] = content] /\ UNCHANGED saved
             /\ faults' = IF disk[p] = None THEN faults + 1 ELSE faults
          \/ End({j}, "done")
    BY <1>3 DEF ReadFile
  <2>3. CASE /\ hash' = [hash EXCEPT ![j][p] = content] /\ UNCHANGED saved
             /\ faults' = IF disk[p] = None THEN faults + 1 ELSE faults
    \* The file is there: one that has gone would count as a fault.
    <3>0. disk[p] # None
      BY <2>3
    <3>1. content \in MayHold[p] \cup {None}
      BY <3>0 DEF Readable, KeysAreOwn
    <3>2. /\ \A q \in Paths : hash'[j][q] = IF q = p THEN content ELSE hash[j][q]
          /\ \A k \in Jobs \ {j} : hash'[k] = hash[k]
      BY <2>3 DEF TypeOK
    <3>3. \A q \in Paths : hash'[j][q] \in MayHold[q] \cup {None}
      BY <3>1, <3>2 DEF KeysAreOwn
    <3>4. QED
      BY <2>1, <2>3, <3>2, <3>3, KeysSplit DEF KeysAreOwn
  <2>4. CASE End({j}, "done")
    BY <2>1, <2>4, EndTakes, KeysFewer
  <2>5. QED
    BY <2>2, <2>3, <2>4
<1>4. ASSUME NEW j \in Jobs, Plan(j) PROVE KeysAreOwn'
  <2>1. /\ UNCHANGED <<disk, catalog, saved, hash, uncached>>
        /\ \A p \in MustRead(j) : hash[j][p] # None
    BY <1>4 DEF Plan
  <2>2. /\ todo'[j] = PlannedOps(j)
        /\ \A k \in Jobs \ {j} : todo'[k] = todo[k] /\ touched'[k] = touched[k]
        /\ \A i \in touched'[j] : \E p \in Paths :
             IsSameContent(j, p) /\ i = [path |-> p, key |-> hash[j][p]]
    BY <1>4 DEF Plan, TypeOK
  <2>3. /\ \A op \in PlannedOps(j) : op.key \in MayHold[op.path]
        /\ \A p \in Paths : IsSameContent(j, p) => hash[j][p] \in MayHold[p]
    BY <2>1, PlanKeysOwn DEF KeysAreOwn
  <2>4. \A i \in touched'[j] : i.key \in MayHold[i.path]
    BY <2>2, <2>3
  <2>5. \A op \in todo'[j] \cup uncached'[j] : op.key \in MayHold[op.path]
    BY <2>1, <2>2, <2>3 DEF KeysAreOwn
  <2>6. QED
    BY <2>1, <2>2, <2>4, <2>5, KeysSplit DEF KeysAreOwn
<1>5. ASSUME NEW j \in Jobs, NEW op \in todo[j], Mark(j, op) PROVE KeysAreOwn'
  <2>1. /\ catalog' = IF Adds(op) THEN WithRow(j, op) ELSE WithoutRow(j, op)
        /\ UNCHANGED <<disk, saved, hash, touched>> /\ op \in Op
    BY <1>5 DEF Mark, TypeOK
  <2>2. /\ todo'[j] = todo[j] \ {op} /\ uncached'[j] = uncached[j] \cup {op}
        /\ \A k \in Jobs \ {j} : todo'[k] = todo[k] /\ uncached'[k] = uncached[k]
    BY <1>5 DEF Mark, TypeOK
  <2>3. op.key \in MayHold[op.path]
    BY DEF KeysAreOwn
  <2>4. ASSUME NEW r \in catalog'
        PROVE  r \in catalog \/ (r.path = op.path /\ r.key = op.key)
    <3>1. \/ r \in catalog
          \/ r = [tag |-> tag[j], path |-> op.path, key |-> op.key, time |-> stamp[j]]
      BY <2>1, MarkedRows
    <3>2. QED
      BY <3>1
  <2>5. \A r \in catalog' : r.key \in MayHold[r.path]
    BY <2>3, <2>4 DEF KeysAreOwn
  <2>6. \A o \in todo'[j] \cup uncached'[j] : o.key \in MayHold[o.path]
    BY <2>2, <2>3 DEF KeysAreOwn
  <2>7. QED
    BY <2>1, <2>2, <2>5, <2>6, KeysSplit DEF KeysAreOwn
<1>6. ASSUME NEW j \in Jobs, UpdateCache(j) PROVE KeysAreOwn'
  <2>1. \A k \in Jobs : uncached'[k] \subseteq uncached[k]
    BY <1>6 DEF UpdateCache, TypeOK
  <2>2. QED
    BY <1>6, <2>1, KeysFewer DEF UpdateCache
<1>7. ASSUME NEW j \in Jobs, Touch(j) PROVE KeysAreOwn'
  <2>1. UNCHANGED <<disk, saved, hash, todo, uncached>>
    BY <1>7 DEF Touch
  <2>2. PICK item \in touched[j] :
          \/ touched' = [touched EXCEPT ![j] = {}] /\ catalog' = catalog
          \/ /\ touched' = [touched EXCEPT ![j] = @ \ {item}]
             /\ catalog' = (catalog \ RowsOf(tag[j], item.path)) \cup
                  {[r EXCEPT !.key = item.key, !.time = stamp[j]] :
                     r \in RowsOf(tag[j], item.path)}
    BY <1>7 DEF Touch
  <2>3. CASE touched' = [touched EXCEPT ![j] = {}] /\ catalog' = catalog
    <3>1. \A k \in Jobs : touched'[k] \subseteq touched[k]
      BY <2>3 DEF TypeOK
    <3>2. QED
      BY <2>1, <2>3, <3>1, KeysFewer
  <2>4. CASE /\ touched' = [touched EXCEPT ![j] = @ \ {item}]
             /\ catalog' = (catalog \ RowsOf(tag[j], item.path)) \cup
                  {[r EXCEPT !.key = item.key, !.time = stamp[j]] :
                     r \in RowsOf(tag[j], item.path)}
    <3>1. \A k \in Jobs : touched'[k] \subseteq touched[k]
      BY <2>4 DEF TypeOK
    <3>2. \A k \in Jobs \ {j} : touched'[k] = touched[k]
      BY <2>4 DEF TypeOK
    <3>3. item.key \in MayHold[item.path]
      BY DEF KeysAreOwn
    <3>4. \A r \in RowsOf(tag[j], item.path) :
            LET s == [r EXCEPT !.key = item.key, !.time = stamp[j]] IN
            s.path = item.path /\ s.key = item.key
      BY DEF RowsOf, TypeOK, Row
    <3>5. ASSUME NEW s \in catalog' PROVE s.key \in MayHold[s.path]
      <4>1. CASE s \in catalog
        BY <4>1 DEF KeysAreOwn
      <4>2. CASE s \notin catalog
        <5>1. PICK r \in RowsOf(tag[j], item.path) :
                s = [r EXCEPT !.key = item.key, !.time = stamp[j]]
          BY <2>4, <4>2
        <5>2. QED
          BY <3>3, <3>4, <5>1
      <4>3. QED
        BY <4>1, <4>2
    <3>6. QED
      BY <2>1, <3>1, <3>2, <3>5, KeysSplit DEF KeysAreOwn
  <2>5. QED
    BY <2>2, <2>3, <2>4
<1>8. ASSUME NEW j \in Jobs, Finish(j) PROVE KeysAreOwn'
  BY <1>8, EndTakes, KeysFewer DEF Finish
<1>9. ASSUME NEW j \in Jobs, Fail(j) PROVE KeysAreOwn'
  <2>1. \A k \in Jobs : todo'[k] \subseteq todo[k] /\ uncached'[k] \subseteq uncached[k]
    BY <1>9 DEF Fail, TypeOK
  <2>2. QED
    BY <1>9, <2>1, KeysFewer DEF Fail
<1>10. ASSUME NEW b \in Branches, NEW new \in [Paths -> Contents \cup {None}],
              NEW written \in SUBSET Paths, ChangeFiles(b, new, written)
       PROVE  KeysAreOwn'
  <2>1. UNCHANGED <<catalog, saved, hash, todo, uncached, touched>>
    BY <1>10 DEF ChangeFiles
  <2>2. \A p \in Paths : disk'[p] \in MayHold[p] \cup {None}
    BY <1>10 DEF ChangeFiles
  <2>3. QED
    BY <2>1, <2>2, KeysFewer
<1>11. CASE Crash
  <2>1. End({j \in Jobs : Active(j)}, "crashed") /\ UNCHANGED <<disk, catalog>>
        /\ \A j \in Jobs : todo'[j] = {} /\ uncached'[j] = {} /\ touched'[j] = {}
    BY <1>11 DEF Crash
  <2>2. \A j \in Jobs : saved'[j] \subseteq saved[j]
                        /\ (hash'[j] = hash[j] \/ hash'[j] = Nothing)
    BY <2>1, EndTakes
  <2>3. QED
    BY <2>1, <2>2, KeysFewer
<1>12. CASE UNCHANGED vars
  BY <1>12, KeysFewer DEF vars
<1>13. QED
  BY <1>1, <1>2, <1>3, <1>4, <1>5, <1>6, <1>7, <1>8, <1>9, <1>10, <1>11, <1>12
     DEF Next, Step

\* Until the first fault a key is only ever recorded for a file that may have that
\* content, whatever the IDE reads from a file that has gone.
THEOREM KeysAreOwnHolds == Spec => [](faults = 0 => KeysAreOwn)
<1> DEFINE Inv == faults = 0 => KeysAreOwn
<1>1. Init => Inv
  BY DEF Init, KeysAreOwn, Nothing
<1>2. TypeOK /\ Inv /\ [Next]_vars => Inv'
  BY KeysStep, FaultsOnlyGrow
<1>3. QED
  BY <1>1, <1>2, TypeCorrect, PTL DEF Spec

\* Neither the tables nor what is on its way to the cache changes.
LEMMA CacheFrame ==
  ASSUME CacheFits, cache' = cache,
         \A t \in Branches, k \in Contents : (Cataloged(t, k))' <=> Cataloged(t, k),
         uncached' = uncached, \A j \in Jobs : uncached[j] # {} => tag'[j] = tag[j]
  PROVE  CacheFits'
<1>1. ASSUME NEW t \in Branches, NEW k \in Contents
      PROVE  /\ (Forgetting(t, k))' <=> Forgetting(t, k)
             /\ (Remembering(t, k))' <=> Remembering(t, k)
             /\ (Cached(t, k))' <=> Cached(t, k)
  BY DEF Forgetting, Remembering, Cached, Adds
<1>2. QED
  BY <1>1 DEF CacheFits

\* Only the run in its update has anything on its way to the cache.
LEMMA OneUpdates ==
  ASSUME Tables, NEW j \in Jobs, pc[j] = "update"
  PROVE  \A k \in Jobs \ {j} : uncached[k] = {}
BY DEF Tables, OneAtATime, AtRest, Active, Running

LEMMA CacheMark ==
  ASSUME Apart, TypeOK, Tables, KeysAreOwn, CacheFits,
         NEW j \in Jobs, NEW op \in todo[j], Mark(j, op)
  PROVE  CacheFits'
<1>1. /\ pc[j] = "update" /\ op \in Op
      /\ catalog' = IF Adds(op) THEN WithRow(j, op) ELSE WithoutRow(j, op)
      /\ UNCHANGED <<cache, tag>>
  BY DEF Mark, TypeOK
<1>2. /\ uncached'[j] = uncached[j] \cup {op}
      /\ \A k \in Jobs \ {j} : uncached'[k] = {} /\ uncached[k] = {}
  BY <1>1, OneUpdates DEF Mark, TypeOK
<1> DEFINE new == [tag |-> tag[j], path |-> op.path, key |-> op.key, time |-> stamp[j]]
<1>3. new.tag = tag[j] /\ new.path = op.path /\ new.key = op.key
  OBVIOUS
<1> HIDE DEF new
<1>4. /\ \A r \in catalog' : \/ r \in catalog /\ ~IsRowOf(r, tag[j], op)
                             \/ Adds(op) /\ r = new
      /\ \A r \in catalog : ~IsRowOf(r, tag[j], op) => r \in catalog'
      /\ Adds(op) => new \in catalog'
  BY <1>1, MarkedRows DEF new
<1>5. ASSUME NEW t \in Branches, NEW k \in Contents
      PROVE  (Cataloged(t, k))' <=>
               (((Cached(t, k))' /\ ~(Forgetting(t, k))') \/ (Remembering(t, k))')
  <2>0. Cataloged(t, k) <=> (Cached(t, k) /\ ~Forgetting(t, k)) \/ Remembering(t, k)
    BY DEF CacheFits
  <2>1. (Cached(t, k))' <=> Cached(t, k)
    BY <1>1 DEF Cached
  <2>2. /\ Forgetting(t, k) <=> tag[j] = t /\ \E o \in uncached[j] : ~Adds(o) /\ o.key = k
        /\ Remembering(t, k) <=> tag[j] = t /\ \E o \in uncached[j] : Adds(o) /\ o.key = k
    BY <1>2 DEF Forgetting, Remembering
  <2>3. /\ (Forgetting(t, k))' <=>
             tag[j] = t /\ \E o \in uncached'[j] : ~Adds(o) /\ o.key = k
        /\ (Remembering(t, k))' <=>
             tag[j] = t /\ \E o \in uncached'[j] : Adds(o) /\ o.key = k
    BY <1>1, <1>2 DEF Forgetting, Remembering, Adds
  <2>4. CASE ~(t = tag[j] /\ k = op.key)
    <3>1. (Forgetting(t, k))' <=> Forgetting(t, k)
      BY <1>2, <2>2, <2>3, <2>4
    <3>2. (Remembering(t, k))' <=> Remembering(t, k)
      BY <1>2, <2>2, <2>3, <2>4
    <3>3. (Cataloged(t, k))' <=> Cataloged(t, k)
      BY <1>3, <1>4, <2>4 DEF Cataloged, IsRowOf
    <3>4. QED
      BY <2>0, <2>1, <3>1, <3>2, <3>3
  <2>5. CASE t = tag[j] /\ k = op.key /\ Adds(op)
    <3>1. (Remembering(t, k))'
      BY <1>2, <2>3, <2>5
    <3>2. (Cataloged(t, k))'
      BY <1>3, <1>4, <2>5 DEF Cataloged
    <3>3. QED
      BY <3>1, <3>2
  <2>6. CASE t = tag[j] /\ k = op.key /\ ~Adds(op)
    <3>1. (Forgetting(t, k))'
      BY <1>2, <2>3, <2>6
    <3>2. op.path \in Paths /\ op.key \in MayHold[op.path]
      BY <1>1 DEF KeysAreOwn, Op
    <3>3. ~(Cataloged(t, k))'
      <4> SUFFICES ASSUME NEW r \in catalog', r.tag = t, r.key = k PROVE FALSE
        BY DEF Cataloged
      <4>1. r \in catalog /\ ~IsRowOf(r, tag[j], op)
        BY <1>4, <2>6
      <4>2. r.path \in Paths /\ r.key \in MayHold[r.path]
        BY <4>1 DEF KeysAreOwn, TypeOK, Row
      <4>3. r.path = op.path
        BY <2>6, <3>2, <4>2 DEF Apart
      <4>4. QED
        BY <2>6, <4>1, <4>3 DEF IsRowOf
    <3>4. ~\E o \in uncached[j] : Adds(o) /\ o.key = k
      <4> SUFFICES ASSUME NEW o \in uncached[j], Adds(o), o.key = k PROVE FALSE
        OBVIOUS
      <4>1. o.path \in Paths /\ o.key \in MayHold[o.path]
        BY DEF KeysAreOwn, TypeOK, Op
      <4>2. o.path = op.path
        BY <2>6, <3>2, <4>1 DEF Apart
      <4>3. ToAdd(j, o.path, o.key) /\ ToRemove(j, op.path, op.key)
        BY <1>1, <2>6 DEF Tables, PlanFits
      <4>4. QED
        BY <2>6, <4>2, <4>3 DEF ToAdd, ToRemove
    <3>5. ~(Remembering(t, k))'
      BY <1>2, <2>3, <2>6, <3>4
    <3>6. QED
      BY <3>1, <3>3, <3>5
  <2>7. QED
    BY <2>4, <2>5, <2>6
<1>6. QED
  BY <1>5 DEF CacheFits

LEMMA CacheUpdate ==
  ASSUME TypeOK, Tables, CacheFits, NEW j \in Jobs, UpdateCache(j)
  PROVE  CacheFits'
<1>1. /\ pc[j] = "update" /\ UNCHANGED <<catalog, tag>>
      /\ cache' = (cache \ Forgotten(j)) \cup Remembered(j)
  BY DEF UpdateCache
<1>2. \A k \in Jobs : uncached'[k] = {}
  BY <1>1, OneUpdates DEF UpdateCache, TypeOK
<1>3. \A k \in Jobs \ {j} : uncached[k] = {}
  BY <1>1, OneUpdates
<1>4. ASSUME NEW t \in Branches, NEW k \in Contents
      PROVE  (Cataloged(t, k))' <=>
               (((Cached(t, k))' /\ ~(Forgetting(t, k))') \/ (Remembering(t, k))')
  <2>1. ~(Forgetting(t, k))' /\ ~(Remembering(t, k))'
    BY <1>2 DEF Forgetting, Remembering
  <2>2. (Cataloged(t, k))' <=> Cataloged(t, k)
    BY <1>1 DEF Cataloged
  <2> DEFINE x == [tag |-> t, key |-> k]
  <2>3. x \in Forgotten(j) <=> Forgetting(t, k)
    <3>1. x \in Forgotten(j) <=> tag[j] = t /\ \E op \in uncached[j] : ~Adds(op) /\ op.key = k
      BY DEF Forgotten
    <3>2. QED
      BY <1>3, <3>1 DEF Forgetting
  <2>4. x \in Remembered(j) <=> Remembering(t, k)
    <3>1. x \in Remembered(j) <=> tag[j] = t /\ \E op \in uncached[j] : Adds(op) /\ op.key = k
      BY DEF Remembered
    <3>2. QED
      BY <1>3, <3>1 DEF Remembering
  <2>5. (Cached(t, k))' <=> ((Cached(t, k) /\ ~Forgetting(t, k)) \/ Remembering(t, k))
    BY <1>1, <2>3, <2>4 DEF Cached
  <2>6. QED
    BY <2>1, <2>2, <2>5 DEF CacheFits
<1>5. QED
  BY <1>4 DEF CacheFits

LEMMA CacheStep ==
  ASSUME Serial, Apart, TypeOK, Tables, KeysAreOwn, CacheFits,
         faults = 0, faults' = 0, [Next]_vars
  PROVE  CacheFits'
<1> USE DEF Goto, world, tables, locals, lists, history
<1>same. ASSUME UNCHANGED <<catalog, cache, uncached, tag>> PROVE CacheFits'
  BY <1>same, CacheFrame DEF Cataloged
<1>1. ASSUME NEW j \in Jobs, Start(j) PROVE CacheFits'
  <2>1. uncached[j] = {}
    BY <1>1 DEF Start, Tables, AtRest
  <2>2. UNCHANGED <<catalog, cache, uncached>> /\ \A k \in Jobs \ {j} : tag'[k] = tag[k]
    BY <1>1 DEF Start, TypeOK
  <2>3. QED
    BY <2>1, <2>2, CacheFrame DEF Cataloged
<1>2. ASSUME NEW j \in Jobs, Stat(j) \/ Stamp(j) \/ ReadSaved(j) \/ Plan(j) \/ Finish(j)
      PROVE  CacheFits'
  BY <1>2, <1>same DEF Stat, Stamp, ReadSaved, Plan, Finish
<1>3. ASSUME NEW j \in Jobs, NEW p \in Paths, ReadFile(j, p) PROVE CacheFits'
  BY <1>3, <1>same DEF ReadFile
<1>4. ASSUME NEW j \in Jobs, Touch(j) PROVE CacheFits'
  <2>1. PICK r, s \in Row : /\ r \in catalog /\ s.tag = r.tag /\ s.key = r.key
                            /\ catalog' = (catalog \ {r}) \cup {s}
    BY <1>4, TouchFindsOne
  <2>2. \A t \in Branches, k \in Contents : (Cataloged(t, k))' <=> Cataloged(t, k)
    BY <2>1 DEF Cataloged
  <2>3. UNCHANGED <<cache, uncached, tag>>
    BY <1>4 DEF Touch
  <2>4. QED
    BY <2>2, <2>3, CacheFrame
<1>5. ASSUME NEW j \in Jobs, Fail(j) PROVE FALSE
  BY <1>5 DEF Fail
<1>6. ASSUME NEW b \in Branches, NEW new \in [Paths -> Contents \cup {None}],
             NEW written \in SUBSET Paths, ChangeFiles(b, new, written)
      PROVE  CacheFits'
  BY <1>6, <1>same DEF ChangeFiles
<1>7. ASSUME Crash PROVE FALSE
  BY <1>7 DEF Crash
<1>8. CASE UNCHANGED vars
  BY <1>8, <1>same DEF vars
<1>9. QED
  BY <1>1, <1>2, <1>3, <1>4, <1>5, <1>6, <1>7, <1>8, CacheMark, CacheUpdate
     DEF Next, Step

\* The cache holds what the catalog does while no run is in its update.
LEMMA CacheAtRest ==
  ASSUME TypeOK, Tables, CacheFits, \A j \in Jobs : pc[j] # "update"
  PROVE  /\ \A t \in Branches, k \in Contents : Cached(t, k) <=> Cataloged(t, k)
         /\ cache = {[tag |-> r.tag, key |-> r.key] : r \in catalog}
<1>1. \A j \in Jobs : uncached[j] = {}
  BY DEF Tables, AtRest
<1>2. \A t \in Branches, k \in Contents : Cached(t, k) <=> Cataloged(t, k)
  BY <1>1 DEF CacheFits, Forgetting, Remembering
<1>3. ASSUME NEW x \in cache PROVE x \in {[tag |-> r.tag, key |-> r.key] : r \in catalog}
  <2>1. x.tag \in Branches /\ x.key \in Contents /\ x = [tag |-> x.tag, key |-> x.key]
    BY DEF TypeOK, Tagged
  <2>2. Cataloged(x.tag, x.key)
    BY <1>2, <2>1 DEF Cached
  <2>3. PICK r \in catalog : r.tag = x.tag /\ r.key = x.key
    BY <2>2 DEF Cataloged
  <2>4. x = [tag |-> r.tag, key |-> r.key]
    BY <2>1, <2>3
  <2>5. QED
    BY <2>4
<1>4. ASSUME NEW r \in catalog PROVE [tag |-> r.tag, key |-> r.key] \in cache
  BY <1>2 DEF TypeOK, Row, Cataloged, Cached
<1>5. QED
  BY <1>2, <1>3, <1>4

\* Between refreshes the global cache is the projection of the catalog, when no
\* two files have the same content and until the first crash or failure.
THEOREM CacheMatchesCatalogHolds ==
  ASSUME Serial, Apart
  PROVE  Spec => [](faults = 0 => Tables /\ CacheFits /\ CacheMatchesCatalog)
<1> DEFINE Inv == faults = 0 => Tables /\ CacheFits
<1>1. Init => CacheFits
  BY DEF Init, CacheFits, Cataloged, Cached, Remembering
<1>2. TypeOK /\ (faults = 0 => KeysAreOwn) /\ (faults = 0 => Tables) /\ Inv /\ [Next]_vars
        /\ (faults = 0 => Tables)' => Inv'
  BY CacheStep, FaultsOnlyGrow
<1>3. TypeOK /\ Inv => (faults = 0 => Tables /\ CacheFits /\ CacheMatchesCatalog)
  BY CacheAtRest DEF CacheMatchesCatalog, Quiet, Active, Running
<1>4. Spec => [](faults = 0 => Tables)
  BY OneVersionHolds
<1>5. Init /\ (faults = 0 => Tables) => Inv
  BY <1>1
<1>6. QED
  BY <1>2, <1>3, <1>4, <1>5, TypeCorrect, KeysAreOwnHolds, PTL DEF Spec

-----------------------------------------------------------------------------
(***************************************************************************)
(* The lists                                                               *)
(***************************************************************************)
\* The lists are drawn up by Plan only.
LEMMA OnlyPlan ==
  ASSUME TypeOK, [Next]_vars, NEW j \in Jobs, pc[j] = "read", pc'[j] = "update"
  PROVE  Plan(j)
<1> USE DEF Goto, world, tables, locals, lists, history
<1>1. ASSUME NEW Over \in SUBSET Jobs, NEW place \in {"done", "crashed"}, End(Over, place)
      PROVE  FALSE
  BY <1>1 DEF End
<1>2. ASSUME NEW k \in Jobs, Step(k) PROVE Plan(j)
  <2>1. CASE Start(k) \/ Stat(k) \/ Stamp(k) \/ ReadSaved(k)
    BY <2>1 DEF Start, Stat, Stamp, ReadSaved, TypeOK
  <2>2. ASSUME NEW p \in Paths, ReadFile(k, p) PROVE FALSE
    <3>1. pc' = pc \/ End({k}, "done")
      BY <2>2 DEF ReadFile
    <3>2. QED
      BY <1>1, <3>1
  <2>3. CASE Plan(k)
    <3>1. k = j
      BY <2>3 DEF Plan, TypeOK
    <3>2. QED
      BY <2>3, <3>1
  <2>4. ASSUME NEW op \in todo[k], Mark(k, op) PROVE FALSE
    BY <2>4 DEF Mark
  <2>5. CASE UpdateCache(k) \/ Touch(k) \/ Fail(k)
    BY <2>5 DEF UpdateCache, Touch, Fail
  <2>6. CASE Finish(k)
    BY <1>1, <2>6 DEF Finish
  <2>7. QED
    BY <1>2, <2>1, <2>2, <2>3, <2>4, <2>5, <2>6 DEF Step
<1>3. ASSUME Crash PROVE FALSE
  <2>1. End({i \in Jobs : Active(i)}, "crashed")
    BY <1>3 DEF Crash
  <2>2. QED
    BY <1>1, <2>1
<1>4. QED
  BY <1>2, <1>3 DEF Next, ChangeFiles, vars

\* What is known of the operations of a plan when they are drawn up.
LEMMA PlannedOpsMean ==
  ASSUME TypeOK, Tables, NEW j \in Jobs, Plan(j), NEW op \in todo'[j]
  PROVE  /\ op \in Op /\ \A k \in Jobs : pc[k] # "update"
         /\ Adds(op) => op.list = ListToAdd(op.key)
         /\ ~Adds(op) => /\ op.list = ListToRemove(op.key)
                         /\ \E r \in catalog : r.tag = tag[j] /\ SameItem(r, op)
<1>1. /\ pc[j] = "read" /\ \A p \in MustRead(j) : hash[j][p] # None
      /\ op \in PlannedOps(j)
  BY DEF Plan, TypeOK
<1>2. \A k \in Jobs : pc[k] # "update"
  BY <1>1 DEF Tables, OneAtATime, Active, Running
<1>3. /\ saved[j] = {r \in catalog : r.tag = tag[j]}
      /\ \A r, s \in saved[j] : r.path = s.path => r = s
  BY <1>1 DEF Tables, SavedFits
<1>4. /\ op \in Op
      /\ IF Adds(op)
         THEN ToAdd(j, op.path, op.key) /\ op.list = ListToAdd(op.key)
         ELSE ToRemove(j, op.path, op.key) /\ op.list = ListToRemove(op.key)
  BY <1>1, <1>3, PlanType, PlanMeans
<1>5. ~Adds(op) => \E r \in catalog : r.tag = tag[j] /\ SameItem(r, op)
  BY <1>3, <1>4 DEF ToRemove, Had, SameItem
<1>6. QED
  BY <1>2, <1>4, <1>5

\* A version that is to be removed is known to the global cache.
THEOREM RemoveFindsTagHolds ==
  ASSUME Serial, Apart
  PROVE  Spec => RemoveFindsTag
<1> DEFINE Finds == \A j \in Jobs : (pc[j] = "read" /\ pc'[j] = "update" /\ faults = 0) =>
                      \A op \in todo'[j] : ~Adds(op) => TagsOf(op.key) # {}
<1>1. TypeOK /\ (faults = 0 => Tables /\ CacheFits) /\ [Next]_vars => [Finds]_vars
  <2> SUFFICES ASSUME TypeOK, Tables, CacheFits, [Next]_vars, NEW j \in Jobs,
                      pc[j] = "read", pc'[j] = "update", faults = 0, NEW op \in todo'[j], ~Adds(op)
               PROVE  TagsOf(op.key) # {}
    OBVIOUS
  <2>1. Plan(j)
    BY OnlyPlan
  <2>2. \A k \in Jobs : pc[k] # "update"
    BY <2>1, PlannedOpsMean
  <2>3. PICK r \in catalog : r.tag = tag[j] /\ SameItem(r, op)
    BY <2>1, PlannedOpsMean
  <2>4. r.tag \in Branches /\ r.key \in Contents /\ r.key = op.key
    BY <2>3 DEF TypeOK, Row, SameItem
  <2>5. Cached(r.tag, r.key)
    BY <2>2, <2>4, CacheAtRest DEF Cataloged
  <2>6. QED
    BY <2>4, <2>5 DEF Cached, TagsOf
<1>2. Spec => [](faults = 0 => Tables /\ CacheFits /\ CacheMatchesCatalog)
  BY CacheMatchesCatalogHolds
<1>3. Spec => [][Finds]_vars
  BY <1>1, <1>2, TypeCorrect, PTL DEF Spec
<1>4. QED
  BY <1>3 DEF RemoveFindsTag

\* An artifact is tagged only if it has been computed, on some branch.
THEOREM TagsOnlyComputedHolds ==
  ASSUME Serial, Apart
  PROVE  Spec => TagsOnlyComputed
<1> DEFINE Computed == \A j \in Jobs : (pc[j] = "read" /\ pc'[j] = "update" /\ faults = 0) =>
                         \A op \in todo'[j] : op.list = "addTag" =>
                           \E r \in catalog : r.key = op.key
<1>1. TypeOK /\ (faults = 0 => Tables /\ CacheFits) /\ [Next]_vars => [Computed]_vars
  <2> SUFFICES ASSUME TypeOK, Tables, CacheFits, [Next]_vars, NEW j \in Jobs,
                      pc[j] = "read", pc'[j] = "update", faults = 0, NEW op \in todo'[j],
                      op.list = "addTag"
               PROVE  \E r \in catalog : r.key = op.key
    OBVIOUS
  <2>1. Plan(j)
    BY OnlyPlan
  <2>2. op \in Op /\ op.list = ListToAdd(op.key) /\ \A k \in Jobs : pc[k] # "update"
    BY <2>1, PlannedOpsMean DEF Adds
  <2>3. TagsOf(op.key) # {}
    BY <2>2 DEF ListToAdd
  <2>4. PICK t \in Branches : Cached(t, op.key)
    BY <2>3 DEF TagsOf, Cached
  <2>5. Cataloged(t, op.key)
    BY <2>2, <2>4, CacheAtRest DEF Op
  <2>6. QED
    BY <2>5 DEF Cataloged
<1>2. Spec => [](faults = 0 => Tables /\ CacheFits /\ CacheMatchesCatalog)
  BY CacheMatchesCatalogHolds
<1>3. Spec => [][Computed]_vars
  BY <1>1, <1>2, TypeCorrect, PTL DEF Spec
<1>4. QED
  BY <1>3 DEF TagsOnlyComputed

\* A set of at most one element has no two.
LEMMA AtMostOne ==
  ASSUME NEW S, IsFiniteSet(S), ~(Cardinality(S) > 1), NEW a \in S, NEW b \in S
  PROVE  a = b
<1> SUFFICES ASSUME a # b PROVE FALSE
  OBVIOUS
<1>1. Cardinality({a}) = 1 /\ IsFiniteSet({a})
  BY FS_Singleton
<1>2. Cardinality({a} \cup {b}) = 2
  BY <1>1, FS_AddElement
<1>3. {a} \cup {b} \subseteq S
  OBVIOUS
<1>4. Cardinality({a} \cup {b}) <= Cardinality(S) /\ Cardinality(S) \in Nat
  BY <1>3, FS_Subset, FS_CardinalityType
<1>5. QED
  BY <1>2, <1>4

\* An artifact is deleted only if no other file or branch has its content.
THEOREM DeletesOnlyUnneededHolds ==
  ASSUME Serial, Apart, IsFiniteSet(Branches)
  PROVE  Spec => DeletesOnlyUnneeded
<1> DEFINE Unneeded == \A j \in Jobs : (pc[j] = "read" /\ pc'[j] = "update" /\ faults = 0) =>
                         \A op \in todo'[j] : op.list = "del" =>
                           \A r \in catalog : r.key = op.key =>
                             r.tag = tag[j] /\ r.path = op.path
<1>1. TypeOK /\ (faults = 0 => Tables /\ CacheFits /\ KeysAreOwn) /\ [Next]_vars => [Unneeded]_vars
  <2> SUFFICES ASSUME TypeOK, Tables, CacheFits, KeysAreOwn, [Next]_vars, NEW j \in Jobs,
                      pc[j] = "read", pc'[j] = "update", faults = 0, NEW op \in todo'[j],
                      op.list = "del", NEW r \in catalog, r.key = op.key
               PROVE  r.tag = tag[j] /\ r.path = op.path
    OBVIOUS
  <2>1. Plan(j)
    BY OnlyPlan
  <2>2. op \in Op /\ op.list = ListToRemove(op.key) /\ \A k \in Jobs : pc[k] # "update"
    BY <2>1, PlannedOpsMean DEF Adds
  <2>3. PICK s \in catalog : s.tag = tag[j] /\ SameItem(s, op)
    BY <2>1, PlannedOpsMean DEF Adds
  <2>4. /\ r \in Row /\ s \in Row
        /\ s.key \in MayHold[s.path] /\ r.key \in MayHold[r.path]
    BY DEF TypeOK, KeysAreOwn
  <2>5. r.path = op.path
    BY <2>3, <2>4 DEF Apart, SameItem, Row
  <2>6. Cached(r.tag, op.key) /\ Cached(s.tag, op.key)
    BY <2>2, <2>3, <2>4, CacheAtRest DEF Cataloged, SameItem, Row
  <2>7. r.tag \in TagsOf(op.key) /\ s.tag \in TagsOf(op.key)
    BY <2>4, <2>6 DEF TagsOf, Cached, Row
  <2>8. ~(Cardinality(TagsOf(op.key)) > 1)
    BY <2>2 DEF ListToRemove
  <2>9. IsFiniteSet(TagsOf(op.key))
    BY FS_Subset DEF TagsOf
  <2>10. r.tag = s.tag
    BY <2>7, <2>8, <2>9, AtMostOne
  <2>11. QED
    BY <2>3, <2>5, <2>10
<1>2. Spec => [](faults = 0 => Tables /\ CacheFits /\ CacheMatchesCatalog)
  BY CacheMatchesCatalogHolds
<1>3. Spec => [](faults = 0 => KeysAreOwn)
  BY KeysAreOwnHolds
<1>4. Spec => [][Unneeded]_vars
  BY <1>1, <1>2, <1>3, TypeCorrect, PTL DEF Spec
<1>5. QED
  BY <1>4 DEF DeletesOnlyUnneeded
=============================================================================
