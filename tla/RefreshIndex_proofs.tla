-------------------------- MODULE RefreshIndex_proofs --------------------------
(***************************************************************************)
(* Theorems about RefreshIndex, for any files, contents, branches and any  *)
(* number of runs, crashes and failures, serial or not.                    *)
(***************************************************************************)
EXTENDS RefreshIndex, TLAPS

\* The latest version of a file is one of its versions, and an item to add is
\* the content of a file that has been read.
LEMMA AddedIsHashed ==
  ASSUME NEW j \in Jobs, NEW op \in PlannedOps(j), Adds(op)
  PROVE  op.path \in MustRead(j) /\ op.key = hash[j][op.path]
<1>1. op \in {[list |-> ListToAdd(i.key), path |-> i.path, key |-> i.key] :
                 i \in ItemsToAdd(j)}
  BY DEF PlannedOps, Adds, ListToRemove
<1>2. PICK i \in ItemsToAdd(j) : op.path = i.path /\ op.key = i.key
  BY <1>1
<1>3. QED
  BY <1>2 DEF ItemsToAdd

\* The lists of a plan are made of files, keys and list names.
LEMMA PlanType ==
  ASSUME TypeOK, NEW j \in Jobs, \A p \in MustRead(j) : hash[j][p] # None
  PROVE  /\ PlannedOps(j) \subseteq Op
         /\ \A p \in MustRead(j) : hash[j][p] \in Contents
<1>1. \A p \in MustRead(j) : p \in Paths /\ hash[j][p] \in Contents
  BY DEF MustRead, TypeOK
<1>2. ItemsToAdd(j) \subseteq Item
  BY <1>1 DEF ItemsToAdd, Item
<1>3. \A p \in Paths : OldVersions(j, p) \subseteq Versions(j, p)
  BY DEF OldVersions
<1>4. \A p \in Paths : \A r \in Versions(j, p) : r \in Row
  BY DEF Versions, TypeOK
<1>5. ItemsToRemove(j) \subseteq Item
  BY <1>3, <1>4 DEF ItemsToRemove, Item, Row
<1>6. \A i \in Item : /\ [list |-> ListToAdd(i.key), path |-> i.path, key |-> i.key] \in Op
                      /\ [list |-> ListToRemove(i.key), path |-> i.path, key |-> i.key] \in Op
  BY DEF Item, Op, ListToAdd, ListToRemove, Lists
<1>7. QED
  BY <1>1, <1>2, <1>5, <1>6 DEF PlannedOps

\* What markComplete writes is a row.
LEMMA RowType ==
  ASSUME TypeOK, NEW j \in Jobs, NEW op \in Op
  PROVE  WithRow(j, op) \subseteq Row /\ WithoutRow(j, op) \subseteq Row
<1>1. [tag |-> tag[j], path |-> op.path, key |-> op.key, time |-> MarkedAt(j)] \in Row
  BY DEF TypeOK, Row, Op, MarkedAt
<1>2. QED
  BY <1>1 DEF TypeOK, WithRow, WithoutRow

LEMMA NothingType == Nothing \in [Paths -> Contents \cup {None}]
                     /\ Nothing \in [Paths -> Nat \cup {None}]
BY DEF Nothing

\* Every variable keeps its type.
THEOREM TypeCorrect == Spec => []TypeOK
<1>1. Init => TypeOK
  BY NothingType, BoundsAssumption DEF Init, TypeOK
<1>2. TypeOK /\ [Next]_vars => TypeOK'
  <2> SUFFICES ASSUME TypeOK, [Next]_vars PROVE TypeOK'
    OBVIOUS
  <2> USE DEF TypeOK, Running, Goto, world, tables, locals, lists, history
  <2>0. ASSUME NEW Over \in SUBSET Jobs,
               NEW place \in {"done", "crashed"}, End(Over, place)
        PROVE  /\ pc' \in [Jobs -> {"idle", "done", "crashed"} \cup Running]
               /\ stats' \in [Jobs -> [Paths -> Nat \cup {None}]]
               /\ stamp' \in [Jobs -> Nat]
               /\ saved' \in [Jobs -> SUBSET Row]
               /\ hash' \in [Jobs -> [Paths -> Contents \cup {None}]]
    <3>1. stats' \in [Jobs -> [Paths -> Nat \cup {None}]]
      BY <2>0, NothingType DEF End
    <3>2. hash' \in [Jobs -> [Paths -> Contents \cup {None}]]
      BY <2>0, NothingType DEF End
    <3>3. QED
      BY <2>0, <3>1, <3>2 DEF End
  <2>1. ASSUME NEW j \in Jobs, Start(j) PROVE TypeOK'
    BY <2>1 DEF Start
  <2>2. ASSUME NEW j \in Jobs, Stat(j) PROVE TypeOK'
    BY <2>2 DEF Stat
  <2>3. ASSUME NEW j \in Jobs, Stamp(j) PROVE TypeOK'
    BY <2>3 DEF Stamp
  <2>4. ASSUME NEW j \in Jobs, ReadSaved(j) PROVE TypeOK'
    BY <2>4 DEF ReadSaved
  <2>5. ASSUME NEW j \in Jobs, NEW p \in Paths, ReadFile(j, p) PROVE TypeOK'
    <3>0. PICK content \in Readable(p) :
            \/ /\ hash' = [hash EXCEPT ![j][p] = content]
               /\ clean' = [clean EXCEPT ![j] = @ /\ content = disk[p]]
               /\ UNCHANGED <<pc, stats, stamp, saved>>
            \/ End({j}, "done") /\ clean' = [clean EXCEPT ![j] = FALSE]
      BY <2>5 DEF ReadFile
    <3>1. content \in Contents \cup {None}
      BY DataAssumption DEF Readable
    <3>2. UNCHANGED <<world, tables, tag, lists>> /\ faults' \in Nat
      <4>1. faults' = faults \/ faults' = faults + 1
        BY <2>5 DEF ReadFile
      <4>2. QED
        BY <2>5, <4>1 DEF ReadFile
    <3>3. CASE /\ hash' = [hash EXCEPT ![j][p] = content]
               /\ clean' = [clean EXCEPT ![j] = @ /\ content = disk[p]]
               /\ UNCHANGED <<pc, stats, stamp, saved>>
      <4>1. hash' \in [Jobs -> [Paths -> Contents \cup {None}]]
        BY <3>1, <3>3
      <4>2. clean' \in [Jobs -> BOOLEAN]
        BY <3>3
      <4>3. QED
        BY <3>2, <3>3, <4>1, <4>2
    <3>4. CASE End({j}, "done") /\ clean' = [clean EXCEPT ![j] = FALSE]
      BY <2>0, <3>2, <3>4
    <3>5. QED
      BY <3>0, <3>3, <3>4
  <2>6. ASSUME NEW j \in Jobs, Plan(j) PROVE TypeOK'
    <3>1. todo' \in [Jobs -> SUBSET Op]
      BY <2>6, PlanType DEF Plan
    <3>2. \A p \in Paths : IsSameContent(j, p) =>
            [path |-> p, key |-> hash[j][p]] \in Item
      BY <2>6, PlanType DEF Plan, Item, IsSameContent, MustRead
    <3>3. touched' \in [Jobs -> SUBSET Item]
      BY <2>6, <3>2 DEF Plan
    <3>4. QED
      BY <2>6, <3>1, <3>3 DEF Plan
  <2>7. ASSUME NEW j \in Jobs, NEW op \in todo[j], Mark(j, op) PROVE TypeOK'
    <3>1. op \in Op
      BY <2>7
    <3>2. catalog' \subseteq Row
      BY <2>7, <3>1, RowType DEF Mark
    <3>3. todo' \in [Jobs -> SUBSET Op] /\ uncached' \in [Jobs -> SUBSET Op]
      BY <2>7, <3>1 DEF Mark
    <3>4. QED
      BY <2>7, <3>2, <3>3 DEF Mark
  <2>8. ASSUME NEW j \in Jobs, UpdateCache(j) PROVE TypeOK'
    <3>1. Remembered(j) \subseteq Tagged
      BY <2>8 DEF Remembered, Tagged, Op
    <3>2. cache' \subseteq Tagged
      BY <2>8, <3>1 DEF UpdateCache
    <3>3. QED
      BY <2>8, <3>2 DEF UpdateCache
  <2>9. ASSUME NEW j \in Jobs, Touch(j) PROVE TypeOK'
    <3>1. PICK item \in touched[j] :
            LET rows == RowsOf(tag[j], item.path) IN
            IF \E r, s \in rows : r # s
            THEN /\ touched' = [touched EXCEPT ![j] = {}]
                 /\ clean' = [clean EXCEPT ![j] = FALSE]
                 /\ UNCHANGED catalog
            ELSE /\ touched' = [touched EXCEPT ![j] = @ \ {item}]
                 /\ catalog' = (catalog \ rows) \cup
                      {[r EXCEPT !.key = item.key, !.time = stamp[j]] : r \in rows}
                 /\ UNCHANGED clean
      BY <2>9 DEF Touch
    <3>2. item \in Item
      BY <3>1
    <3>3. \A r \in RowsOf(tag[j], item.path) :
            [r EXCEPT !.key = item.key, !.time = stamp[j]] \in Row
      BY <3>2 DEF RowsOf, Row, Item
    <3>4. catalog' \subseteq Row
      <4>1. {[r EXCEPT !.key = item.key, !.time = stamp[j]] :
               r \in RowsOf(tag[j], item.path)} \subseteq Row
        BY <3>3
      <4>2. catalog \subseteq Row
        OBVIOUS
      <4>3. \/ catalog' = catalog
            \/ catalog' = (catalog \ RowsOf(tag[j], item.path)) \cup
                 {[r EXCEPT !.key = item.key, !.time = stamp[j]] :
                    r \in RowsOf(tag[j], item.path)}
        BY <3>1
      <4>4. QED
        BY <4>1, <4>2, <4>3
    <3>5. touched' \in [Jobs -> SUBSET Item] /\ clean' \in [Jobs -> BOOLEAN]
      BY <3>1
    <3>6. QED
      BY <2>9, <3>4, <3>5 DEF Touch
  <2>10. ASSUME NEW j \in Jobs, Finish(j) PROVE TypeOK'
    BY <2>0, <2>10 DEF Finish
  <2>11. ASSUME NEW j \in Jobs, Fail(j) PROVE TypeOK'
    BY <2>11 DEF Fail
  <2>12. ASSUME NEW b \in Branches, NEW new \in [Paths -> Contents \cup {None}],
                NEW written \in SUBSET Paths, ChangeFiles(b, new, written)
         PROVE  TypeOK'
    BY <2>12 DEF ChangeFiles
  <2>13. CASE Crash
    <3>1. End({j \in Jobs : Active(j)}, "crashed")
      BY <2>13 DEF Crash
    <3>2. QED
      BY <2>0, <2>13, <3>1 DEF Crash
  <2>14. CASE UNCHANGED vars
    BY <2>14 DEF vars
  <2>15. QED
    BY <2>1, <2>2, <2>3, <2>4, <2>5, <2>6, <2>7, <2>8, <2>9, <2>10, <2>11, <2>12,
       <2>13, <2>14 DEF Next, Step
<1>3. QED
  BY <1>1, <1>2, PTL DEF Spec

-----------------------------------------------------------------------------
\* The claims of a run are kept together: they only speak of its own variables,
\* of the working tree and of the clock.
Claims(j) ==
  /\ stamp[j] <= now
  /\ pc[j] # "update" => todo[j] = {} /\ touched[j] = {}
  /\ pc[j] \in {"idle", "stat", "stamp", "saved"} => hash[j] = Nothing
  /\ \A p \in Paths : hash[j][p] # None => Believable(p, hash[j][p], stamp[j])
  /\ \A op \in todo[j] : Adds(op) => Believable(op.path, op.key, stamp[j])
  /\ \A i \in touched[j] : Believable(i.path, i.key, stamp[j])

Rows == \A r \in catalog : r.time <= now /\ Believable(r.path, r.key, r.time)

LEMMA ClaimsSplit == ClaimsBelievable <=> Rows /\ \A j \in Jobs : Claims(j)
BY DEF ClaimsBelievable, Claims, Rows

\* A run keeps its claims while it does nothing and the files do not change.
LEMMA ClaimsFrame ==
  ASSUME TypeOK, TypeOK', NEW j \in Jobs, Claims(j),
         disk' = disk, mtime' = mtime, now <= now',
         pc'[j] = pc[j], stamp'[j] = stamp[j], hash'[j] = hash[j],
         todo'[j] \subseteq todo[j], touched'[j] \subseteq touched[j]
  PROVE  Claims(j)'
<1>1. stamp'[j] <= now'
  BY DEF Claims, TypeOK
<1>2. \A p, k, t : Believable(p, k, t)' <=> Believable(p, k, t)
  BY DEF Believable
<1>3. QED
  BY <1>1, <1>2 DEF Claims, Adds

\* Rows stay believable while the files do not change.
LEMMA RowsFrame ==
  ASSUME TypeOK, TypeOK', Rows, disk' = disk, mtime' = mtime, now <= now',
         catalog' \subseteq catalog
  PROVE  Rows'
<1>1. \A p, k, t : Believable(p, k, t)' <=> Believable(p, k, t)
  BY DEF Believable
<1>2. \A r \in catalog : r.time \in Nat
  BY DEF TypeOK, Row
<1>3. QED
  BY <1>1, <1>2 DEF Rows, TypeOK

\* A run that has ended claims nothing.
LEMMA ClaimsEnd ==
  ASSUME TypeOK, NEW Over \in SUBSET Jobs, NEW place \in {"done", "crashed"},
         End(Over, place), NEW j \in Over,
         todo'[j] = {}, touched'[j] = {}, now' \in Nat
  PROVE  Claims(j)'
<1>1. pc'[j] = place /\ stamp'[j] = 0 /\ hash'[j] = Nothing
  BY DEF End, TypeOK
<1>2. QED
  BY <1>1 DEF Claims, Nothing

LEMMA ClaimsStep ==
  ASSUME TypeOK, TypeOK', ClaimsBelievable, [Next]_vars
  PROVE  ClaimsBelievable'
<1>0. Rows /\ \A j \in Jobs : Claims(j)
  BY ClaimsSplit
<1>now. now \in Nat
  BY DEF TypeOK
\* A step of run j that leaves the files, the clock and the other runs alone.
<1>own. ASSUME NEW j \in Jobs, disk' = disk, mtime' = mtime, now' = now,
               Claims(j)', Rows',
               \A k \in Jobs : k # j =>
                 /\ pc'[k] = pc[k] /\ stamp'[k] = stamp[k] /\ hash'[k] = hash[k]
                 /\ todo'[k] = todo[k] /\ touched'[k] = touched[k]
        PROVE  ClaimsBelievable'
  <2>1. ASSUME NEW k \in Jobs, k # j PROVE Claims(k)'
    <3>1. now <= now'
      BY <1>own, <1>now
    <3>2. QED
      BY <1>0, <1>own, <2>1, <3>1, ClaimsFrame
  <2>2. QED
    BY <1>own, <2>1, ClaimsSplit DEF ClaimsBelievable, Claims, Rows
\* A step of run j that makes no claim and loses none.
<1>quiet. ASSUME NEW j \in Jobs, disk' = disk, mtime' = mtime, now' = now,
                 catalog' \subseteq catalog,
                 stamp' = stamp, hash' = hash, touched' = touched, todo' = todo,
                 pc' = pc \/ (/\ pc' = [pc EXCEPT ![j] = pc'[j]]
                              /\ pc[j] # "update" /\ pc'[j] # "update"
                              /\ pc'[j] \in {"idle", "stat", "stamp", "saved"} =>
                                   pc[j] \in {"idle", "stat", "stamp", "saved"})
          PROVE  ClaimsBelievable'
  <2>1. now <= now'
    BY <1>quiet, <1>now
  <2>2. Rows'
    BY <1>0, <1>quiet, <2>1, RowsFrame
  <2>3. \A p, k, t : Believable(p, k, t)' <=> Believable(p, k, t)
    BY <1>quiet DEF Believable
  <2>4. Claims(j)'
    BY <1>0, <1>quiet, <2>3 DEF Claims, Adds, TypeOK
  <2>5. QED
    BY <1>quiet, <1>own, <2>2, <2>4 DEF TypeOK
<1> USE DEF Goto, world, tables, locals, lists, history
<1>1. ASSUME NEW j \in Jobs, Start(j) PROVE ClaimsBelievable'
  BY <1>1, <1>quiet DEF Start, TypeOK
<1>2. ASSUME NEW j \in Jobs, Stat(j) PROVE ClaimsBelievable'
  BY <1>2, <1>quiet DEF Stat, TypeOK
<1>3. ASSUME NEW j \in Jobs, Stamp(j) PROVE ClaimsBelievable'
  <2>1. now <= now' /\ disk' = disk /\ mtime' = mtime /\ catalog' = catalog
    BY <1>3, <1>now DEF Stamp
  <2>2. Rows'
    BY <1>0, <2>1, RowsFrame
  <2>3. Claims(j)'
    <3>1. hash'[j] = Nothing /\ todo'[j] = {} /\ touched'[j] = {}
      BY <1>0, <1>3 DEF Stamp, Claims
    <3>2. stamp'[j] = now' /\ now' \in Nat /\ pc'[j] = "saved"
      BY <1>3, <1>now DEF Stamp, TypeOK
    <3>3. QED
      BY <3>1, <3>2 DEF Claims, Nothing
  <2>4. ASSUME NEW k \in Jobs, k # j PROVE Claims(k)'
    <3>1. /\ pc'[k] = pc[k] /\ stamp'[k] = stamp[k] /\ hash'[k] = hash[k]
          /\ todo'[k] = todo[k] /\ touched'[k] = touched[k]
      BY <1>3, <2>4 DEF Stamp, TypeOK
    <3>2. QED
      BY <1>0, <2>1, <3>1, ClaimsFrame
  <2>5. QED
    BY <2>2, <2>3, <2>4 DEF ClaimsBelievable, Claims, Rows
<1>4. ASSUME NEW j \in Jobs, ReadSaved(j) PROVE ClaimsBelievable'
  BY <1>4, <1>quiet DEF ReadSaved, TypeOK
<1>5. ASSUME NEW j \in Jobs, NEW p \in Paths, ReadFile(j, p)
      PROVE  ClaimsBelievable'
  <2>1. /\ disk' = disk /\ mtime' = mtime /\ now' = now /\ catalog' = catalog
        /\ todo' = todo /\ touched' = touched /\ pc[j] = "read"
    BY <1>5 DEF ReadFile
  <2>2. Rows'
    BY <1>0, <1>now, <2>1, RowsFrame
  <2>3. todo[j] = {} /\ touched[j] = {}
    BY <1>0, <2>1 DEF Claims
  <2>read. PICK content \in Readable(p) :
             \/ hash' = [hash EXCEPT ![j][p] = content] /\ pc' = pc /\ stamp' = stamp
             \/ End({j}, "done")
    BY <1>5 DEF ReadFile
  <2>4. CASE hash' = [hash EXCEPT ![j][p] = content] /\ pc' = pc /\ stamp' = stamp
    <3>0. (p \notin Buffers /\ disk[p] # None) => content = disk[p]
      BY DEF Readable
    <3>1. hash' = [hash EXCEPT ![j][p] = content] /\ pc' = pc /\ stamp' = stamp
      BY <2>4
    <3>2. \A q \in Paths : hash'[j][q] = IF q = p THEN content ELSE hash[j][q]
      BY <3>1 DEF TypeOK
    <3>3. \A q, k, t : Believable(q, k, t)' <=> Believable(q, k, t)
      BY <2>1 DEF Believable
    <3>4. \A q \in Paths : hash'[j][q] # None =>
            ((q \notin Buffers /\ disk'[q] # None /\ mtime'[q] <= stamp'[j]) => hash'[j][q] = disk'[q])
      <4>1. \A q \in Paths : hash[j][q] # None =>
              ((q \notin Buffers /\ disk[q] # None /\ mtime[q] <= stamp[j]) => hash[j][q] = disk[q])
        BY <1>0 DEF Claims, Believable
      <4>2. QED
        BY <2>1, <3>0, <3>1, <3>2, <4>1
    <3>5. Claims(j)'
      <4>1. stamp'[j] <= now' /\ pc'[j] = "read"
        BY <1>0, <2>1, <3>1 DEF Claims
      <4>2. todo'[j] = {} /\ touched'[j] = {}
        BY <2>1, <2>3
      <4>3. QED
        BY <3>4, <4>1, <4>2 DEF Claims, Believable
    <3>6. QED
      BY <1>own, <2>1, <2>2, <3>1, <3>5 DEF TypeOK
  <2>5. CASE End({j}, "done")
    <3>1. End({j}, "done")
      BY <2>5
    <3>2. Claims(j)'
      BY <1>now, <2>1, <2>3, <3>1, ClaimsEnd
    <3>3. \A k \in Jobs : k # j => /\ pc'[k] = pc[k] /\ stamp'[k] = stamp[k]
                                   /\ hash'[k] = hash[k]
      BY <3>1 DEF End
    <3>4. QED
      BY <1>own, <2>1, <2>2, <3>2, <3>3
  <2>6. QED
    BY <2>read, <2>4, <2>5
<1>6. ASSUME NEW j \in Jobs, Plan(j) PROVE ClaimsBelievable'
  <2>1. /\ disk' = disk /\ mtime' = mtime /\ now' = now /\ catalog' = catalog
        /\ stamp' = stamp /\ hash' = hash
    BY <1>6 DEF Plan
  <2>2. Rows'
    BY <1>0, <1>now, <2>1, RowsFrame
  <2>3. \A q, k, t : Believable(q, k, t)' <=> Believable(q, k, t)
    BY <2>1 DEF Believable
  <2>4. \A p \in MustRead(j) : p \in Paths /\ hash[j][p] # None
                               /\ Believable(p, hash[j][p], stamp[j])
    BY <1>0, <1>6 DEF Plan, Claims, MustRead
  <2>5. \A op \in todo'[j] : Adds(op) => Believable(op.path, op.key, stamp[j])
    <3>1. todo'[j] = PlannedOps(j)
      BY <1>6 DEF Plan, TypeOK
    <3>2. QED
      BY <2>4, <3>1, AddedIsHashed
  <2>6. \A i \in touched'[j] : Believable(i.path, i.key, stamp[j])
    <3>1. \A i \in touched'[j] :
            \E p \in MustRead(j) : i = [path |-> p, key |-> hash[j][p]]
      BY <1>6 DEF Plan, TypeOK, IsSameContent, MustRead
    <3>2. QED
      BY <2>4, <3>1
  <2>7. Claims(j)'
    <3>1. pc'[j] = "update"
      BY <1>6 DEF Plan, TypeOK
    <3>2. QED
      BY <1>0, <2>1, <2>3, <2>5, <2>6, <3>1 DEF Claims, Adds
  <2>8. QED
    BY <1>6, <1>own, <2>1, <2>2, <2>7 DEF Plan, TypeOK
<1>7. ASSUME NEW j \in Jobs, NEW op \in todo[j], Mark(j, op)
      PROVE  ClaimsBelievable'
  <2>1. /\ disk' = disk /\ mtime' = mtime /\ now' = now
        /\ stamp' = stamp /\ hash' = hash /\ pc' = pc /\ touched' = touched
        /\ todo' = [todo EXCEPT ![j] = @ \ {op}]
    BY <1>7 DEF Mark
  <2>2. \A q, k, t : Believable(q, k, t)' <=> Believable(q, k, t)
    BY <2>1 DEF Believable
  <2>3. Rows'
    <3>1. CASE Adds(op)
      <4>1. Believable(op.path, op.key, stamp[j]) /\ stamp[j] <= now
        BY <1>0, <3>1 DEF Claims
      <4>2. \A r \in catalog' :
              \/ r \in catalog
              \/ r = [tag |-> tag[j], path |-> op.path, key |-> op.key,
                      time |-> stamp[j]]
        BY <1>7, <3>1 DEF Mark, WithRow, MarkedAt
      <4>3. QED
        BY <1>0, <2>1, <2>2, <4>1, <4>2 DEF Rows
    <3>2. CASE ~Adds(op)
      <4>1. catalog' \subseteq catalog
        BY <1>7, <3>2 DEF Mark, WithoutRow
      <4>2. QED
        BY <1>0, <1>now, <2>1, <4>1, RowsFrame
    <3>3. QED
      BY <3>1, <3>2
  <2>4. todo'[j] \subseteq todo[j] /\ \A k \in Jobs : k # j => todo'[k] = todo[k]
    BY <2>1 DEF TypeOK
  <2>5. Claims(j)'
    BY <1>0, <1>now, <2>1, <2>4, ClaimsFrame
  <2>6. QED
    BY <1>own, <2>1, <2>3, <2>4, <2>5
<1>8. ASSUME NEW j \in Jobs, UpdateCache(j) PROVE ClaimsBelievable'
  BY <1>8, <1>quiet DEF UpdateCache
<1>9. ASSUME NEW j \in Jobs, Touch(j) PROVE ClaimsBelievable'
  <2>1. /\ disk' = disk /\ mtime' = mtime /\ now' = now
        /\ stamp' = stamp /\ hash' = hash /\ pc' = pc /\ todo' = todo
    BY <1>9 DEF Touch
  <2>2. \A q, k, t : Believable(q, k, t)' <=> Believable(q, k, t)
    BY <2>1 DEF Believable
  <2>3. PICK item \in touched[j] :
          \/ touched' = [touched EXCEPT ![j] = {}] /\ catalog' = catalog
          \/ /\ touched' = [touched EXCEPT ![j] = @ \ {item}]
             /\ catalog' = (catalog \ RowsOf(tag[j], item.path)) \cup
                  {[r EXCEPT !.key = item.key, !.time = stamp[j]] :
                     r \in RowsOf(tag[j], item.path)}
    BY <1>9 DEF Touch
  <2>4. Rows'
    <3>1. Believable(item.path, item.key, stamp[j]) /\ stamp[j] <= now
      BY <1>0 DEF Claims
    <3>2. \A r \in RowsOf(tag[j], item.path) :
            LET s == [r EXCEPT !.key = item.key, !.time = stamp[j]] IN
            s.path = item.path /\ s.key = item.key /\ s.time = stamp[j]
      BY DEF RowsOf, TypeOK, Row
    <3>3. ASSUME NEW s \in catalog'
          PROVE  \/ s \in catalog
                 \/ s.path = item.path /\ s.key = item.key /\ s.time = stamp[j]
      <4>1. CASE catalog' = catalog
        BY <4>1
      <4>2. CASE catalog' = (catalog \ RowsOf(tag[j], item.path)) \cup
                   {[r EXCEPT !.key = item.key, !.time = stamp[j]] :
                      r \in RowsOf(tag[j], item.path)}
        <5>1. CASE s \notin catalog
          <6>1. PICK r \in RowsOf(tag[j], item.path) :
                  s = [r EXCEPT !.key = item.key, !.time = stamp[j]]
            BY <4>2, <5>1
          <6>2. QED
            BY <3>2, <6>1
        <5>2. QED
          BY <5>1
      <4>3. QED
        BY <2>3, <4>1, <4>2
    <3>4. QED
      BY <1>0, <2>1, <2>2, <3>1, <3>3 DEF Rows
  <2>5. touched'[j] \subseteq touched[j]
        /\ \A k \in Jobs : k # j => touched'[k] = touched[k]
    <3>1. \/ touched' = [touched EXCEPT ![j] = {}]
          \/ touched' = [touched EXCEPT ![j] = @ \ {item}]
      BY <2>3
    <3>2. touched \in [Jobs -> SUBSET Item]
      BY DEF TypeOK
    <3>3. CASE touched' = [touched EXCEPT ![j] = {}]
      BY <3>2, <3>3
    <3>4. CASE touched' = [touched EXCEPT ![j] = @ \ {item}]
      BY <3>2, <3>4
    <3>5. QED
      BY <3>1, <3>3, <3>4
  <2>6. Claims(j)'
    BY <1>0, <1>now, <2>1, <2>5, ClaimsFrame
  <2>7. QED
    BY <1>own, <2>1, <2>4, <2>5, <2>6
<1>10. ASSUME NEW j \in Jobs, Finish(j) PROVE ClaimsBelievable'
  <2>1. /\ disk' = disk /\ mtime' = mtime /\ now' = now /\ catalog' = catalog
        /\ todo' = todo /\ touched' = touched /\ End({j}, "done")
        /\ todo[j] = {} /\ touched[j] = {}
    BY <1>10 DEF Finish
  <2>2. Rows'
    BY <1>0, <1>now, <2>1, RowsFrame
  <2>3. Claims(j)'
    BY <1>now, <2>1, ClaimsEnd
  <2>4. \A k \in Jobs : k # j => /\ pc'[k] = pc[k] /\ stamp'[k] = stamp[k]
                                 /\ hash'[k] = hash[k]
    BY <2>1 DEF End
  <2>5. QED
    BY <1>own, <2>1, <2>2, <2>3, <2>4
<1>11. ASSUME NEW j \in Jobs, Fail(j) PROVE ClaimsBelievable'
  <2>1. /\ disk' = disk /\ mtime' = mtime /\ now' = now /\ catalog' = catalog
        /\ stamp' = stamp /\ hash' = hash /\ pc' = pc /\ touched' = touched
        /\ todo' = [todo EXCEPT ![j] = {}]
    BY <1>11 DEF Fail
  <2>2. Rows'
    BY <1>0, <1>now, <2>1, RowsFrame
  <2>3. todo'[j] = {} /\ \A k \in Jobs : k # j => todo'[k] = todo[k]
    BY <2>1 DEF TypeOK
  <2>4. Claims(j)'
    BY <1>0, <1>now, <2>1, <2>3, ClaimsFrame
  <2>5. QED
    BY <1>own, <2>1, <2>2, <2>3, <2>4
\* A file that changes becomes newer than every claim about it.
<1>12. ASSUME NEW b \in Branches, NEW new \in [Paths -> Contents \cup {None}],
              NEW written \in SUBSET Paths, ChangeFiles(b, new, written)
       PROVE  ClaimsBelievable'
  <2>1. /\ now' = now + 1 /\ disk' = new
        /\ mtime' = [p \in Paths |-> IF p \in written THEN now + 1 ELSE mtime[p]]
        /\ \A p \in Paths : new[p] # disk[p] => p \in written
        /\ UNCHANGED <<catalog, pc, stamp, hash, todo, touched>>
    BY <1>12 DEF ChangeFiles
  <2>2. ASSUME NEW p \in Paths, NEW k, NEW t \in Nat, t <= now, Believable(p, k, t)
        PROVE  (p \notin Buffers /\ disk'[p] # None /\ mtime'[p] <= t) => k = disk'[p]
    <3>1. CASE p \notin written
      BY <2>1, <2>2, <3>1 DEF Believable
    <3>2. CASE p \in written
      BY <1>now, <2>1, <2>2, <3>2 DEF Believable
    <3>3. QED
      BY <3>1, <3>2
  <2>3. Rows'
    <3>1. \A r \in catalog : r.time \in Nat /\ r.path \in Paths
      BY DEF TypeOK, Row
    <3>2. \A r \in catalog : r.time <= now'
      BY <1>0, <1>now, <2>1, <3>1 DEF Rows
    <3>3. \A r \in catalog : Believable(r.path, r.key, r.time)'
      BY <1>0, <2>1, <2>2, <3>1 DEF Rows, Believable
    <3>4. QED
      BY <2>1, <3>2, <3>3 DEF Rows
  <2>4. ASSUME NEW j \in Jobs PROVE Claims(j)'
    <3>1. stamp[j] \in Nat /\ stamp[j] <= now /\ stamp[j] <= now'
      BY <1>0, <1>now, <2>1 DEF Claims, TypeOK
    <3>2. \A p \in Paths : hash[j][p] # None =>
            ((p \notin Buffers /\ disk'[p] # None /\ mtime'[p] <= stamp[j]) => hash[j][p] = disk'[p])
      BY <1>0, <2>2, <3>1 DEF Claims, Believable
    <3>3. \A op \in todo[j] : Adds(op) =>
            ((op.path \notin Buffers /\ disk'[op.path] # None /\ mtime'[op.path] <= stamp[j])
               => op.key = disk'[op.path])
      <4> SUFFICES ASSUME NEW op \in todo[j], Adds(op)
                   PROVE  (op.path \notin Buffers /\ disk'[op.path] # None
                             /\ mtime'[op.path] <= stamp[j]) => op.key = disk'[op.path]
        OBVIOUS
      <4>1. op.path \in Paths
        BY DEF TypeOK, Op
      <4>2. Believable(op.path, op.key, stamp[j])
        BY <1>0 DEF Claims
      <4>3. QED
        BY <2>2, <3>1, <4>1, <4>2
    <3>4. \A i \in touched[j] :
            (i.path \notin Buffers /\ disk'[i.path] # None /\ mtime'[i.path] <= stamp[j])
              => i.key = disk'[i.path]
      <4> SUFFICES ASSUME NEW i \in touched[j]
                   PROVE  (i.path \notin Buffers /\ disk'[i.path] # None
                             /\ mtime'[i.path] <= stamp[j]) => i.key = disk'[i.path]
        OBVIOUS
      <4>1. i.path \in Paths
        BY DEF TypeOK, Item
      <4>2. Believable(i.path, i.key, stamp[j])
        BY <1>0 DEF Claims
      <4>3. QED
        BY <2>2, <3>1, <4>1, <4>2
    <3>5. QED
      BY <1>0, <2>1, <3>1, <3>2, <3>3, <3>4 DEF Claims, Adds, Believable
  <2>5. QED
    BY <2>3, <2>4 DEF ClaimsBelievable, Claims, Rows
<1>13. CASE Crash
  <2>1. /\ disk' = disk /\ mtime' = mtime /\ now' = now /\ catalog' = catalog
        /\ todo' = [j \in Jobs |-> {}] /\ touched' = [j \in Jobs |-> {}]
        /\ End({j \in Jobs : Active(j)}, "crashed")
    BY <1>13 DEF Crash
  <2>2. Rows'
    BY <1>0, <1>now, <2>1, RowsFrame
  <2>3. ASSUME NEW j \in Jobs PROVE Claims(j)'
    <3>1. CASE Active(j)
      BY <1>now, <2>1, <3>1, ClaimsEnd
    <3>2. CASE ~Active(j)
      <4>1. pc'[j] = pc[j] /\ stamp'[j] = stamp[j] /\ hash'[j] = hash[j]
        BY <2>1, <3>2 DEF End
      <4>2. QED
        BY <1>0, <1>now, <2>1, <4>1, ClaimsFrame
    <3>3. QED
      BY <3>1, <3>2
  <2>4. QED
    BY <2>2, <2>3 DEF ClaimsBelievable, Claims, Rows
<1>14. CASE UNCHANGED vars
  <2>1. /\ disk' = disk /\ mtime' = mtime /\ now' = now /\ catalog' = catalog
        /\ UNCHANGED <<pc, stamp, hash, todo, touched>>
    BY <1>14 DEF vars
  <2>2. Rows'
    BY <1>0, <1>now, <2>1, RowsFrame
  <2>3. ASSUME NEW j \in Jobs PROVE Claims(j)'
    BY <1>0, <1>now, <2>1, ClaimsFrame
  <2>4. QED
    BY <2>2, <2>3 DEF ClaimsBelievable, Claims, Rows
<1>15. QED
  BY <1>1, <1>2, <1>3, <1>4, <1>5, <1>6, <1>7, <1>8, <1>9, <1>10, <1>11, <1>12,
     <1>13, <1>14 DEF Next, Step

\* What a run may claim, the inductive invariant behind the next theorem.
THEOREM ClaimsHold == Spec => []ClaimsBelievable
<1>0. TypeOK /\ TypeOK' /\ ClaimsBelievable /\ [Next]_vars => ClaimsBelievable'
  BY ClaimsStep
<1>1. Init => ClaimsBelievable
  BY DEF Init, ClaimsBelievable, Nothing
<1>2. QED
  BY <1>0, <1>1, TypeCorrect, PTL DEF Spec

\* The catalog never claims a version that a file does not have, whatever runs,
\* edits, failures and crashes are interleaved, for every file that is not open
\* with unsaved changes.
THEOREM NoFalseProgressHolds == Spec => []NoFalseProgress
<1>1. ClaimsBelievable => NoFalseProgress
  BY DEF ClaimsBelievable, Believable, NoFalseProgress
<1>2. QED
  BY <1>1, ClaimsHold, PTL
=============================================================================
