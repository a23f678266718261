-------------------------- MODULE ChunkIndex_proofs --------------------------
(***************************************************************************)
(* Theorems about ChunkIndex: it implements RefreshIndex, so that what is  *)
(* proved there holds of it, and what can be found under a tag is what     *)
(* the catalog says, for refreshes that run one after the other.           *)
(***************************************************************************)
EXTENDS ChunkIndex, RefreshIndexSerial_proofs, WellFoundedInduction

OneBranch == \A s, t \in Branches : s = t

\* Versions whose chunks are all there as long as the catalog has them.
Whole(key) == Single(key) \/ OneBranch

\* Nothing has failed so far.
Sound == faults = 0 /\ ~insertsFailed

-----------------------------------------------------------------------------
(***************************************************************************)
(* The inductive invariant                                                 *)
(***************************************************************************)
\* Copies of a chunk can be counted.
Countable == \E n \in Nat : \A c \in UsedRows : c.copy <= n

\* Statements are executed for operations that are still to be marked, and for
\* one del at a time.
StoredFits ==
  \A j \in Jobs :
    /\ stored[j] \subseteq todo[j]
    /\ \A v \in victim[j] :
         /\ v.op \in todo[j] /\ v.op.list = "del" /\ v.row.key = v.op.key
         /\ stored[j] = {} /\ victim[j] = {v}

\* What has been read is what is read again.
HashIsDisk ==
  \A j \in Jobs :
    /\ ~Active(j) => hash[j] = Nothing
    /\ \A p \in Paths : hash[j][p] # None => hash[j][p] = disk[p]

\* An artifact is shared with another branch by the lists addTag and removeTag
\* only, until the operation is marked.
SharesKey(t, k) == \E b \in Branches : b # t /\ Cataloged(b, k)
ListsFit ==
  \A j \in Jobs : \A op \in todo[j] :
    op.list \in {"addTag", "removeTag"} <=> SharesKey(tag[j], op.key)

\* The versions under a tag, with those whose statements have been executed.
Storing(t, p, k) ==
  \E j \in Jobs : tag[j] = t
    /\ \E op \in stored[j] : Adds(op) /\ op.path = p /\ op.key = k
Dropping(t, p, k) ==
  \E j \in Jobs : tag[j] = t
    /\ \/ \E op \in stored[j] : ~Adds(op) /\ op.path = p /\ op.key = k
       \/ \E v \in victim[j] : v.row \notin chunks /\ v.op.path = p /\ v.op.key = k
Held(t, p, k) == (HasRow(t, p, k) /\ ~Dropping(t, p, k)) \/ Storing(t, p, k)

ChunkKeysOwn == \A c \in chunks : c.key \in MayHold[c.path]

\* Every chunk of such a version is there and under its tag.
Covered ==
  \A t \in Branches, p \in Paths, k \in Contents : (Whole(k) /\ Held(t, p, k)) =>
    \A i \in 1..ChunksOf[k] :
      \E c \in chunks : /\ c.path = p /\ c.key = k /\ c.idx = i
                        /\ [chunk |-> c, tag |-> t] \in chunkTags

\* Nothing else is of a content of one chunk, and nothing twice.
OnlyHeld ==
  /\ \A r \in chunkTags : (r.chunk \in chunks /\ Single(r.chunk.key)) =>
       Held(r.tag, r.chunk.path, r.chunk.key)
  /\ \A c \in chunks : Single(c.key) => c.idx \in 1..ChunksOf[c.key]
  /\ \A c, d \in chunks : (Single(c.key) /\ c.key = d.key) => c = d
  /\ \A c \in chunks : Single(c.key) =>
       \E t \in Branches : [chunk |-> c, tag |-> t] \in chunkTags

Stores ==
  StoredFits /\ HashIsDisk /\ ListsFit /\ ChunkKeysOwn /\ Covered /\ OnlyHeld

-----------------------------------------------------------------------------
(***************************************************************************)
(* The chunk index implements the planner                                  *)
(***************************************************************************)
LEMMA ChunkStepRefines ==
  ASSUME [ChunkNext]_<<vars, storage>>
  PROVE  [Next]_vars
<1>1. ASSUME NEW j \in Jobs, Plain(j) PROVE Step(j)
  BY <1>1 DEF Plain, Step
<1>2. ASSUME NEW j \in Jobs, Store(j) PROVE UNCHANGED vars
  BY <1>2 DEF Store, StoreComputed, StoreTag, DropTag, FindChunk, DropChunk, DropTags
<1>3. ASSUME NEW j \in Jobs, NEW op \in todo[j], MarkStored(j, op) PROVE Step(j)
  BY <1>3 DEF MarkStored, Step
<1>4. ASSUME NEW j \in Jobs, Dropped(j) PROVE Step(j)
  BY <1>4 DEF Dropped, Step
<1>5. Edited => Next
  BY DEF Edited, Next
<1>6. Closed => Next
  BY DEF Closed, Next
<1>7. QED
  BY <1>1, <1>2, <1>3, <1>4, <1>5, <1>6 DEF ChunkNext, Next

\* Every step of the chunk index is a step of the planner or leaves it alone,
\* so what is proved of the planner holds of both.
THEOREM ChunkIndexRefines == ChunkSpec => Spec
<1>1. ChunkInit => Init
  BY DEF ChunkInit
<1>2. [ChunkNext]_<<vars, storage>> => [Next]_vars
  BY ChunkStepRefines
<1>3. QED
  BY <1>1, <1>2, PTL DEF ChunkSpec, Spec

-----------------------------------------------------------------------------
(***************************************************************************)
(* The tables chunks and chunk_tags                                        *)
(***************************************************************************)
\* A set of numbers that has a bound has a greatest element.
LEMMA MaxOfBounded ==
  ASSUME NEW S \in SUBSET Nat, S # {}, NEW n \in Nat, \A x \in S : x <= n
  PROVE  Max(S) \in S /\ \A x \in S : x <= Max(S)
<1> DEFINE Below == {n - x : x \in S}
           Less == {ss \in Nat \X Nat : ss[1] < ss[2]}
<1>0. IsWellFoundedOn(Less, Nat)
  BY NatLessThanWellFounded DEF OpToRel
<1>1. \A x \in S : x \in Nat /\ n - x \in Nat
  OBVIOUS
<1>2. Below \subseteq Nat /\ Below # {}
  BY <1>1
<1> HIDE DEF Less
<1>3. PICK m \in Below : \A y \in Below : ~(<<y, m>> \in Less)
  BY <1>0, <1>2, WFMin
<1>4. \A y \in Nat : <<y, m>> \in Less <=> y < m
  BY <1>2, <1>3 DEF Less
<1>5. PICK x \in S : m = n - x
  BY <1>3
<1>6. ASSUME NEW y \in S PROVE x >= y
  <2>1. n - y \in Below /\ n - y \in Nat
    BY <1>1
  <2>2. ~(n - y < m)
    BY <1>3, <1>4, <2>1
  <2>3. QED
    BY <1>1, <1>5, <2>2
<1>7. Max(S) \in S /\ \A y \in S : Max(S) >= y
  BY <1>6 DEF Max
<1>8. QED
  BY <1>7

\* The chunks a file is cut into are rows, later than the copies that are there.
LEMMA CutIntoType ==
  ASSUME TypeOK, UsedRows \subseteq ChunkRow, NEW n \in Nat, \A c \in UsedRows : c.copy <= n,
         NEW op \in Op, NEW content \in Contents \cup {None}
  PROVE  /\ CutInto(op, content) \subseteq ChunkRow
         /\ \A c \in CutInto(op, content) : c.copy <= n + 1
<1>1. ASSUME NEW i \in Nat
      PROVE  Max(Copies(op, i) \cup {0}) \in Nat /\ Max(Copies(op, i) \cup {0}) <= n
  <2>1. \A c \in UsedRows : c.copy \in Nat
    BY DEF ChunkRow
  <2>2. Copies(op, i) \subseteq Nat /\ \A x \in Copies(op, i) : x <= n
    BY <2>1 DEF Copies
  <2> DEFINE S == Copies(op, i) \cup {0}
  <2>3. S \in SUBSET Nat /\ S # {} /\ \A x \in S : x <= n
    BY <2>2
  <2> HIDE DEF S
  <2>4. Max(S) \in S
    BY <2>3, MaxOfBounded
  <2>5. QED
    BY <2>3, <2>4 DEF S
<1>2. ChunksOf[content] \in Nat /\ op.path \in Paths /\ op.key \in Contents
  BY ChunksAssumption DEF Op
<1>3. ASSUME NEW c \in CutInto(op, content)
      PROVE  c \in ChunkRow /\ c.copy <= n + 1
  <2>1. PICK i \in 1..ChunksOf[content] :
          c = [path |-> op.path, key |-> op.key, idx |-> i,
               copy |-> Max(Copies(op, i) \cup {0}) + 1]
    BY <1>3 DEF CutInto
  <2>2. i \in Nat
    BY <1>2
  <2> DEFINE top == Max(Copies(op, i) \cup {0})
  <2>3. top \in Nat /\ top <= n
    BY <1>1, <2>2
  <2>4. c = [path |-> op.path, key |-> op.key, idx |-> i, copy |-> top + 1]
    BY <2>1
  <2> HIDE DEF top
  <2>5. top + 1 \in Nat /\ top + 1 <= n + 1
    BY <2>3
  <2>6. QED
    BY <1>2, <2>2, <2>4, <2>5 DEF ChunkRow
<1>4. QED
  BY <1>3

\* What a batch of files adds.
NewChunks(j, text) == UNION {CutInto(op, text[op.path]) : op \in Computed(j)}

StorageFits == StorageTypeOK /\ Countable

LEMMA UsedRowsType ==
  ASSUME StorageTypeOK
  PROVE  UsedRows \subseteq ChunkRow
<1>1. \A r \in chunkTags : r.chunk \in ChunkRow
  BY DEF StorageTypeOK
<1>2. \A j \in Jobs : \A v \in victim[j] : v.row \in ChunkRow
  BY DEF StorageTypeOK
<1>3. QED
  BY <1>1, <1>2 DEF UsedRows, StorageTypeOK

\* The rows after a step are among those before it, or later copies.
LEMMA StorageKept ==
  ASSUME StorageFits, NEW New, NEW n \in Nat,
         New \subseteq ChunkRow, \A c \in New : c.copy <= n,
         chunks' \subseteq chunks \cup New,
         chunkTags' \subseteq [chunk : UsedRows \cup New, tag : Branches],
         stored' \in [Jobs -> SUBSET Op], insertsFailed' \in BOOLEAN,
         victim' \in [Jobs -> SUBSET [op : Op, row : UsedRows]]
  PROVE  StorageFits'
<1>0. StorageTypeOK /\ UsedRows \subseteq ChunkRow
  BY UsedRowsType DEF StorageFits
<1>1. PICK m \in Nat : \A c \in UsedRows : c.copy <= m
  BY DEF StorageFits, Countable
<1>2. chunks \subseteq UsedRows
  BY DEF UsedRows
<1> DEFINE All == UsedRows \cup New
<1>3. All \subseteq ChunkRow /\ \A c \in All : c.copy <= m + n
  <2>1. \A c \in All : c \in ChunkRow /\ c.copy \in Nat
    BY <1>0 DEF ChunkRow
  <2>2. \A c \in All : c.copy <= m \/ c.copy <= n
    BY <1>1
  <2> HIDE DEF All
  <2>3. QED
    BY <2>1, <2>2
<1>4. chunks' \subseteq All
  BY <1>2
<1>5. chunkTags' \subseteq [chunk : All, tag : Branches]
  OBVIOUS
<1>6. victim' \in [Jobs -> SUBSET [op : Op, row : All]]
  <2>1. [op : Op, row : UsedRows] \subseteq [op : Op, row : All]
    OBVIOUS
  <2>2. SUBSET [op : Op, row : UsedRows] \subseteq SUBSET [op : Op, row : All]
    BY <2>1
  <2> HIDE DEF All
  <2>3. QED
    BY <2>2
<1> HIDE DEF All
<1>7. StorageTypeOK'
  <2>1. [op : Op, row : All] \subseteq [op : Op, row : ChunkRow]
    BY <1>3
  <2>2. victim' \in [Jobs -> SUBSET [op : Op, row : ChunkRow]]
    BY <1>6, <2>1
  <2>3. QED
    BY <1>3, <1>4, <1>5, <2>2 DEF StorageTypeOK
<1>8. UsedRows' \subseteq All
  <2>1. \A r \in chunkTags' : r.chunk \in All
    BY <1>5
  <2>2. \A j \in Jobs : \A v \in victim'[j] : v.row \in All
    BY <1>6
  <2>3. QED
    BY <1>4, <2>1, <2>2 DEF UsedRows
<1>9. m + n \in Nat
  OBVIOUS
<1>10. QED
  BY <1>3, <1>7, <1>8, <1>9 DEF StorageFits, Countable

\* Without new rows.
LEMMA StorageShrinks ==
  ASSUME StorageFits, chunks' \subseteq chunks,
         chunkTags' \subseteq [chunk : UsedRows, tag : Branches],
         stored' \in [Jobs -> SUBSET Op], insertsFailed' = insertsFailed,
         victim' \in [Jobs -> SUBSET [op : Op, row : UsedRows]]
  PROVE  StorageFits'
<1> DEFINE New == {}
<1>1. /\ New \subseteq ChunkRow /\ \A c \in New : c.copy <= 0
      /\ chunks' \subseteq chunks \cup New
      /\ chunkTags' \subseteq [chunk : UsedRows \cup New, tag : Branches]
  OBVIOUS
<1>2. insertsFailed' \in BOOLEAN
  BY DEF StorageFits, StorageTypeOK
<1> HIDE DEF New
<1>3. QED
  BY <1>1, <1>2, StorageKept

LEMMA StorageStep ==
  ASSUME TypeOK, StorageFits, [ChunkNext]_<<vars, storage>>
  PROVE  StorageFits'
<1> USE DEF storage
<1>0. StorageTypeOK /\ UsedRows \subseteq ChunkRow /\ chunks \subseteq UsedRows
  BY UsedRowsType DEF StorageFits, UsedRows
<1>t. chunkTags \subseteq [chunk : UsedRows, tag : Branches]
  BY <1>0 DEF StorageTypeOK, UsedRows
<1>v. victim \in [Jobs -> SUBSET [op : Op, row : UsedRows]]
  <2>1. ASSUME NEW j \in Jobs, NEW v \in victim[j] PROVE v \in [op : Op, row : UsedRows]
    <3>1. v \in [op : Op, row : ChunkRow]
      BY <1>0 DEF StorageTypeOK
    <3>2. v.row \in UsedRows
      BY DEF UsedRows
    <3>3. QED
      BY <3>1, <3>2
  <2>2. victim = [j \in Jobs |-> victim[j]]
    BY <1>0 DEF StorageTypeOK
  <2>3. \A j \in Jobs : victim[j] \in SUBSET [op : Op, row : UsedRows]
    BY <2>1
  <2>4. QED
    BY <2>2, <2>3
<1>s. stored \in [Jobs -> SUBSET Op]
  BY <1>0 DEF StorageTypeOK
<1>1. ASSUME UNCHANGED <<chunks, chunkTags, insertsFailed>>, stored' \in [Jobs -> SUBSET Op],
             victim' = victim \/ \E j \in Jobs : victim' = [victim EXCEPT ![j] = {}]
      PROVE  StorageFits'
  <2>1. victim' \in [Jobs -> SUBSET [op : Op, row : UsedRows]]
    BY <1>1, <1>v
  <2>2. QED
    BY <1>1, <1>t, <2>1, StorageShrinks
<1>2. ASSUME UNCHANGED storage PROVE StorageFits'
  BY <1>1, <1>2, <1>s
<1>3. ASSUME NEW j \in Jobs, StoreComputed(j) PROVE StorageFits'
  <2>1. PICK text \in [Paths -> Contents \cup {None}] :
          AllInserted(j, NewChunks(j, text)) \/ SomeInserted(j, NewChunks(j, text))
    BY <1>3 DEF StoreComputed, NewChunks
  <2>2. PICK n \in Nat : \A c \in UsedRows : c.copy <= n
    BY DEF StorageFits, Countable
  <2>3. Computed(j) \subseteq Op /\ tag[j] \in Branches
    BY DEF Computed, TypeOK
  <2>4. \A op \in Computed(j) :
          /\ CutInto(op, text[op.path]) \subseteq ChunkRow
          /\ \A c \in CutInto(op, text[op.path]) : c.copy <= n + 1
    BY <1>0, <2>2, <2>3, CutIntoType DEF Op
  <2> DEFINE New == NewChunks(j, text)
  <2>5. New \subseteq ChunkRow /\ \A c \in New : c.copy <= n + 1
    BY <2>4 DEF NewChunks
  <2>6. AllInserted(j, New) \/ SomeInserted(j, New)
    BY <2>1
  <2> HIDE DEF New
  <2>7. /\ chunks' \subseteq chunks \cup New /\ insertsFailed' \in BOOLEAN
        /\ \A r \in chunkTags' : r \in chunkTags \/ r \in Under(tag[j], chunks \cup New)
    <3>1. CASE AllInserted(j, New)
      BY <1>0, <3>1 DEF AllInserted, StorageTypeOK, Under
    <3>2. CASE SomeInserted(j, New)
      <4>1. PICK kept \in SUBSET New : \E tagged \in SUBSET (chunks \cup kept) :
              /\ chunks' = chunks \cup kept
              /\ chunkTags' = chunkTags \cup Under(tag[j], tagged)
        BY <3>2 DEF SomeInserted
      <4>2. insertsFailed' = TRUE
        BY <3>2 DEF SomeInserted
      <4>3. QED
        BY <4>1, <4>2 DEF Under
    <3>3. QED
      BY <2>6, <3>1, <3>2
  <2>8. chunkTags' \subseteq [chunk : UsedRows \cup New, tag : Branches]
    <3>1. \A r \in Under(tag[j], chunks \cup New) : r \in [chunk : UsedRows \cup New, tag : Branches]
      BY <1>0, <2>3 DEF Under
    <3>2. \A r \in chunkTags : r \in [chunk : UsedRows \cup New, tag : Branches]
      BY <1>t
    <3>3. QED
      BY <2>7, <3>1, <3>2
  <2>9. stored' \in [Jobs -> SUBSET Op] /\ victim' = victim
    BY <1>3, <1>s, <2>3 DEF StoreComputed
  <2>10. n + 1 \in Nat
    OBVIOUS
  <2>11. QED
    BY <1>v, <2>5, <2>7, <2>8, <2>9, <2>10, StorageKept
<1>4. ASSUME NEW j \in Jobs, NEW op \in todo[j], StoreTag(j, op) PROVE StorageFits'
  <2>1. NewTags(j, op) \subseteq [chunk : UsedRows, tag : Branches]
    BY <1>0 DEF NewTags, Under, OfKey, TypeOK
  <2>2. UNCHANGED <<chunks, victim, insertsFailed>> /\ chunkTags' = chunkTags \cup NewTags(j, op)
    BY <1>4 DEF StoreTag
  <2>3. stored' \in [Jobs -> SUBSET Op]
    BY <1>4, <1>s DEF StoreTag, TypeOK
  <2>4. QED
    BY <1>t, <1>v, <2>1, <2>2, <2>3, StorageShrinks
<1>5. ASSUME NEW j \in Jobs, NEW op \in todo[j], DropTag(j, op) PROVE StorageFits'
  <2>1. UNCHANGED <<chunks, victim, insertsFailed>> /\ chunkTags' \subseteq chunkTags
    BY <1>5 DEF DropTag
  <2>2. stored' \in [Jobs -> SUBSET Op]
    BY <1>5, <1>s DEF DropTag, TypeOK
  <2>3. QED
    BY <1>t, <1>v, <2>1, <2>2, StorageShrinks
<1>6. ASSUME NEW j \in Jobs, NEW op \in todo[j], FindChunk(j, op) PROVE StorageFits'
  <2>1. UNCHANGED <<chunks, chunkTags, insertsFailed>> /\ op \in Op
    BY <1>6 DEF FindChunk, TypeOK
  <2>2. CASE stored' = [stored EXCEPT ![j] = {op}] /\ victim' = victim
    BY <1>1, <1>s, <2>1, <2>2
  <2>3. ASSUME NEW row \in ChunksToDelete(op), stored' = stored,
               victim' = [victim EXCEPT ![j] = {[op |-> op, row |-> row]}]
        PROVE  StorageFits'
    <3>1. row \in UsedRows
      BY <1>0 DEF ChunksToDelete, OfKey
    <3>2. victim' \in [Jobs -> SUBSET [op : Op, row : UsedRows]]
      BY <1>v, <2>1, <2>3, <3>1
    <3>3. QED
      BY <1>s, <1>t, <2>1, <2>3, <3>2, StorageShrinks
  <2>4. QED
    BY <1>6, <2>2, <2>3 DEF FindChunk
<1>7. ASSUME NEW j \in Jobs, DropChunk(j) PROVE StorageFits'
  <2>1. chunks' \subseteq chunks /\ UNCHANGED <<chunkTags, stored, victim, insertsFailed>>
    BY <1>7 DEF DropChunk
  <2>2. QED
    BY <1>s, <1>t, <1>v, <2>1, StorageShrinks
<1>8. ASSUME NEW j \in Jobs, DropTags(j) PROVE StorageFits'
  <2>1. PICK v \in victim[j] : /\ chunkTags' = OtherTags(v.row)
                               /\ stored' = [stored EXCEPT ![j] = {v.op}]
    BY <1>8 DEF DropTags
  <2>2. v.op \in Op
    BY <1>v
  <2>3. chunkTags' \subseteq chunkTags /\ stored' \in [Jobs -> SUBSET Op]
    BY <1>s, <2>1, <2>2 DEF OtherTags
  <2>4. UNCHANGED <<chunks, insertsFailed>> /\ victim' = [victim EXCEPT ![j] = {}]
    BY <1>8 DEF DropTags
  <2>5. victim' \in [Jobs -> SUBSET [op : Op, row : UsedRows]]
    BY <1>v, <2>4
  <2>6. QED
    BY <1>t, <2>3, <2>4, <2>5, StorageShrinks
<1>9. ASSUME NEW j \in Jobs, NEW op \in todo[j], MarkStored(j, op) PROVE StorageFits'
  <2>1. stored' \in [Jobs -> SUBSET Op]
    BY <1>9, <1>s DEF MarkStored
  <2>2. QED
    BY <1>1, <1>9, <2>1 DEF MarkStored
<1>10. ASSUME NEW j \in Jobs, Dropped(j) PROVE StorageFits'
  <2>1. stored' \in [Jobs -> SUBSET Op]
    BY <1>10, <1>s DEF Dropped
  <2>2. QED
    BY <1>1, <1>10, <2>1 DEF Dropped
<1>11. CASE Closed
  <2>1. /\ UNCHANGED <<chunks, chunkTags, insertsFailed>>
        /\ stored' \in [Jobs -> SUBSET Op]
        /\ victim' \in [Jobs -> SUBSET [op : Op, row : UsedRows]]
    BY <1>11 DEF Closed
  <2>2. QED
    BY <1>t, <2>1, StorageShrinks
<1>12. QED
  BY <1>2, <1>3, <1>4, <1>5, <1>6, <1>7, <1>8, <1>9, <1>10, <1>11
     DEF ChunkNext, Plain, Store, Edited

\* The tables keep their types.
THEOREM StorageTypeCorrect == ChunkSpec => []StorageTypeOK
<1>1. ChunkInit => StorageFits
  <2> SUFFICES ASSUME ChunkInit PROVE StorageFits
    OBVIOUS
  <2>1. /\ chunks = {} /\ chunkTags = {} /\ insertsFailed = FALSE
        /\ stored = [j \in Jobs |-> {}] /\ victim = [j \in Jobs |-> {}]
    BY DEF ChunkInit
  <2>2. StorageTypeOK
    BY <2>1 DEF StorageTypeOK
  <2>3. UsedRows = {}
    BY <2>1 DEF UsedRows
  <2>4. QED
    BY <2>2, <2>3 DEF StorageFits, Countable
<1>2. TypeOK /\ StorageFits /\ [ChunkNext]_<<vars, storage>> => StorageFits'
  BY StorageStep
<1>3. StorageFits => StorageTypeOK
  BY DEF StorageFits
<1>4. QED
  BY <1>1, <1>2, <1>3, ChunkIndexRefines, TypeCorrect, PTL DEF ChunkSpec

-----------------------------------------------------------------------------
(***************************************************************************)
(* Rows of chunk_tags and their chunks                                     *)
(***************************************************************************)
\* A del that has found its chunk has found one.
OneVictim == \A j \in Jobs : \A v \in victim[j] : victim[j] = {v}

TagsFit == Sound => TagsHaveChunks /\ OneVictim

LEMMA SoundBefore ==
  ASSUME TypeOK, StorageTypeOK, [ChunkNext]_<<vars, storage>>, Sound'
  PROVE  Sound
<1> USE DEF storage
<1>1. faults = 0
  BY ChunkStepRefines, FaultsOnlyGrow DEF Sound
<1>2. ASSUME NEW j \in Jobs, Store(j), insertsFailed PROVE insertsFailed'
  BY <1>2 DEF Store, StoreComputed, AllInserted, SomeInserted, StoreTag, DropTag, FindChunk,
              DropChunk, DropTags
<1>3. insertsFailed => insertsFailed'
  BY <1>2 DEF ChunkNext, Plain, MarkStored, Dropped, Closed, Edited
<1>4. QED
  BY <1>1, <1>3 DEF Sound

LEMMA TagsStep ==
  ASSUME TypeOK, StorageTypeOK, TagsFit, [ChunkNext]_<<vars, storage>>
  PROVE  TagsFit'
<1> SUFFICES ASSUME Sound' PROVE (TagsHaveChunks /\ OneVictim)'
  BY DEF TagsFit
<1> USE DEF storage
<1>0. Sound /\ OneVictim
  BY SoundBefore DEF TagsFit
<1> DEFINE Missed(r) == r.chunk \in chunks
                        \/ \E i \in Jobs : \E v \in victim[i] : v.row = r.chunk
<1>1. \A r \in chunkTags : Missed(r)
  BY <1>0 DEF TagsFit, TagsHaveChunks, Sound
<1>2. SUFFICES (\A r \in chunkTags : Missed(r))' /\ OneVictim'
  BY DEF TagsHaveChunks
<1>3. ASSUME chunks \subseteq chunks', UNCHANGED victim,
             \A r \in chunkTags' : r \in chunkTags \/ r.chunk \in chunks'
      PROVE  (\A r \in chunkTags : Missed(r))' /\ OneVictim'
  BY <1>0, <1>1, <1>3 DEF OneVictim
<1>4. ASSUME NEW j \in Jobs, StoreComputed(j)
      PROVE  (\A r \in chunkTags : Missed(r))' /\ OneVictim'
  <2>1. PICK text \in [Paths -> Contents \cup {None}] :
          AllInserted(j, NewChunks(j, text)) \/ SomeInserted(j, NewChunks(j, text))
    BY <1>4 DEF StoreComputed, NewChunks
  <2>2. AllInserted(j, NewChunks(j, text))
    BY <2>1 DEF SomeInserted, Sound
  <2>3. UNCHANGED victim
    BY <1>4 DEF StoreComputed
  <2>4. \A r \in Under(tag[j], NewChunks(j, text)) : r.chunk \in NewChunks(j, text)
    BY DEF Under
  <2> HIDE DEF Missed
  <2>5. QED
    BY <1>3, <2>2, <2>3, <2>4 DEF AllInserted
<1>5. ASSUME NEW j \in Jobs, NEW op \in todo[j], StoreTag(j, op)
      PROVE  (\A r \in chunkTags : Missed(r))' /\ OneVictim'
  <2>1. \A r \in NewTags(j, op) : r.chunk \in chunks
    BY DEF NewTags, Under, OfKey
  <2> HIDE DEF Missed
  <2>2. QED
    BY <1>3, <1>5, <2>1 DEF StoreTag
<1>6. ASSUME NEW j \in Jobs, NEW op \in todo[j], DropTag(j, op)
      PROVE  (\A r \in chunkTags : Missed(r))' /\ OneVictim'
  <2> HIDE DEF Missed
  <2>1. QED
    BY <1>3, <1>6 DEF DropTag
<1>7. ASSUME NEW j \in Jobs, NEW op \in todo[j], FindChunk(j, op)
      PROVE  (\A r \in chunkTags : Missed(r))' /\ OneVictim'
  <2>1. UNCHANGED <<chunks, chunkTags>> /\ victim[j] = {}
    BY <1>7 DEF FindChunk, IsNext
  <2>2. /\ \A i \in Jobs \ {j} : victim'[i] = victim[i]
        /\ victim'[j] = {} \/ \E v : victim'[j] = {v}
    BY <1>7, <2>1 DEF FindChunk, StorageTypeOK
  <2>3. OneVictim'
    BY <1>0, <2>2 DEF OneVictim
  <2>4. \A i \in Jobs : \A v \in victim[i] : v \in victim'[i]
    BY <2>1, <2>2
  <2>5. QED
    BY <1>1, <2>1, <2>3, <2>4
<1>8. ASSUME NEW j \in Jobs, DropChunk(j)
      PROVE  (\A r \in chunkTags : Missed(r))' /\ OneVictim'
  <2>1. PICK v \in victim[j] : chunks' = chunks \ {v.row}
    BY <1>8 DEF DropChunk
  <2>2. UNCHANGED <<chunkTags, victim>>
    BY <1>8 DEF DropChunk
  <2>3. OneVictim'
    BY <1>0, <2>2 DEF OneVictim
  <2>4. QED
    BY <1>1, <2>1, <2>2, <2>3
<1>9. ASSUME NEW j \in Jobs, DropTags(j)
      PROVE  (\A r \in chunkTags : Missed(r))' /\ OneVictim'
  <2>1. PICK v \in victim[j] : chunkTags' = OtherTags(v.row)
    BY <1>9 DEF DropTags
  <2>2. UNCHANGED chunks /\ victim' = [victim EXCEPT ![j] = {}] /\ victim[j] = {v}
    BY <1>0, <1>9 DEF DropTags, OneVictim
  <2>3. /\ \A i \in Jobs \ {j} : victim'[i] = victim[i]
        /\ victim'[j] = {}
    BY <2>2 DEF StorageTypeOK
  <2>4. OneVictim'
    BY <1>0, <2>3 DEF OneVictim
  <2>5. ASSUME NEW r \in chunkTags' PROVE Missed(r)'
    <3>1. r \in chunkTags /\ r.chunk # v.row
      BY <2>1 DEF OtherTags
    <3>2. CASE r.chunk \in chunks
      BY <2>2, <3>2
    <3>3. ASSUME NEW i \in Jobs, NEW w \in victim[i], w.row = r.chunk PROVE Missed(r)'
      <4>1. i # j
        BY <2>2, <3>1, <3>3
      <4>2. w \in victim'[i]
        BY <2>3, <4>1
      <4>3. QED
        BY <3>3, <4>2
    <3>4. QED
      BY <1>1, <3>1, <3>2, <3>3
  <2>6. QED
    BY <2>4, <2>5
<1>10. ASSUME UNCHANGED <<chunks, chunkTags, victim>>
       PROVE  (\A r \in chunkTags : Missed(r))' /\ OneVictim'
  BY <1>3, <1>10
<1>11. ASSUME NEW j \in Jobs, Dropped(j) PROVE FALSE
  BY <1>0, <1>11 DEF Dropped, Fail, Sound
<1>12. Closed => FALSE
  BY <1>0 DEF Closed, Crash, Sound
<1> HIDE DEF Missed
<1>13. QED
  BY <1>4, <1>5, <1>6, <1>7, <1>8, <1>9, <1>10, <1>11, <1>12
     DEF ChunkNext, Plain, Store, MarkStored, Edited

LEMMA TagsFitHolds == ChunkSpec => []TagsFit
<1>1. ChunkInit => TagsFit
  BY DEF ChunkInit, TagsFit, TagsHaveChunks, OneVictim
<1>2. TypeOK /\ StorageTypeOK /\ TagsFit /\ [ChunkNext]_<<vars, storage>> => TagsFit'
  BY TagsStep
<1>3. QED
  BY <1>1, <1>2, ChunkIndexRefines, TypeCorrect, StorageTypeCorrect, PTL DEF ChunkSpec

\* A row of chunk_tags outlives its chunk only until the del that is under way
\* deletes it too, whatever runs at once, until the first fault or failed INSERT.
THEOREM TagsHaveChunksHolds == ChunkSpec => []TagsHaveChunks
<1>1. TagsFit => TagsHaveChunks
  BY DEF TagsFit, TagsHaveChunks, Sound
<1>2. QED
  BY <1>1, TagsFitHolds, PTL

-----------------------------------------------------------------------------
(***************************************************************************)
(* Between the statements                                                  *)
(***************************************************************************)
\* Only the run in its update has statements executed, or operations left.
LEMMA OneStores ==
  ASSUME Tables, StoredFits, NEW j \in Jobs, Active(j)
  PROVE  \A k \in Jobs \ {j} : stored[k] = {} /\ todo[k] = {} /\ victim[k] = {}
BY DEF Tables, OneAtATime, AtRest, Active, Running, StoredFits

LEMMA RestStores ==
  ASSUME Tables, StoredFits, NEW j \in Jobs, pc[j] # "update"
  PROVE  stored[j] = {} /\ todo[j] = {} /\ victim[j] = {}
BY DEF Tables, AtRest, StoredFits

LEMMA HeldFrame ==
  ASSUME \A t \in Branches, p \in Paths, k \in Contents :
           (HasRow(t, p, k))' <=> HasRow(t, p, k),
         UNCHANGED <<chunks, stored, victim>>,
         \A j \in Jobs : (stored[j] # {} \/ victim[j] # {}) => tag'[j] = tag[j]
  PROVE  \A t \in Branches, p \in Paths, k \in Contents :
           (Held(t, p, k))' <=> Held(t, p, k)
<1>1. ASSUME NEW t \in Branches, NEW p \in Paths, NEW k \in Contents
      PROVE  /\ (Storing(t, p, k))' <=> Storing(t, p, k)
             /\ (Dropping(t, p, k))' <=> Dropping(t, p, k)
  BY DEF Storing, Dropping, Adds
<1>2. QED
  BY <1>1 DEF Held

\* The storage stands for the same versions as before.
LEMMA StoresKeep ==
  ASSUME StorageTypeOK, Stores, chunks' = chunks, chunkTags' \subseteq chunkTags,
         \A r \in chunkTags : r.chunk \in chunks => r \in chunkTags',
         \A t \in Branches, p \in Paths, k \in Contents :
           (Held(t, p, k))' <=> Held(t, p, k),
         StoredFits', HashIsDisk', ListsFit'
  PROVE  Stores'
<1>1. ChunkKeysOwn'
  BY DEF Stores, ChunkKeysOwn
<1>t. \A c \in chunks : \A t : [chunk |-> c, tag |-> t] \in chunkTags
                               => [chunk |-> c, tag |-> t] \in chunkTags'
  OBVIOUS
<1>2. Covered'
  BY <1>t DEF Stores, Covered, Whole, Single, OneBranch
<1>3. OnlyHeld'
  <2>1. OnlyHeld
    BY DEF Stores
  <2>2. \A r \in chunkTags : r.tag \in Branches /\ r.chunk.path \in Paths
                             /\ r.chunk.key \in Contents
    BY DEF StorageTypeOK, ChunkRow
  <2>3. \A r \in chunkTags : (r.chunk \in chunks /\ Single(r.chunk.key)) =>
          (Held(r.tag, r.chunk.path, r.chunk.key))'
    BY <2>1, <2>2 DEF OnlyHeld
  <2>4. \A c \in chunks : Single(c.key) =>
          \E t \in Branches : [chunk |-> c, tag |-> t] \in chunkTags'
    BY <1>t, <2>1 DEF OnlyHeld
  <2>5. \A r \in chunkTags' : (r.chunk \in chunks' /\ Single(r.chunk.key)) =>
          (Held(r.tag, r.chunk.path, r.chunk.key))'
    BY <2>3
  <2>6. QED
    BY <2>1, <2>4, <2>5 DEF OnlyHeld, Single
<1>4. QED
  BY <1>1, <1>2, <1>3 DEF Stores

\* Reading a file that has gone is a fault.
LEMMA ReadCounts ==
  ASSUME TypeOK, NEW j \in Jobs, NEW p \in Paths, ReadFile(j, p), pc' = pc
  PROVE  faults' = IF disk[p] = None THEN faults + 1 ELSE faults
<1>1. pc[j] = "read"
  BY DEF ReadFile
<1>2. ~End({j}, "done")
  <2> SUFFICES ASSUME End({j}, "done") PROVE FALSE
    OBVIOUS
  <2>1. pc'[j] = "done"
    BY DEF End
  <2>2. QED
    BY <1>1, <2>1
<1>3. QED
  BY <1>2 DEF ReadFile

\* What a run has hashed is still what the files hold.
LEMMA HashStep ==
  ASSUME Still, Buffers = {}, TypeOK, Tables, HashIsDisk,
         faults = 0, faults' = 0, [ChunkNext]_<<vars, storage>>
  PROVE  HashIsDisk'
<1> USE DEF Goto, world, tables, locals, lists, history
<1>same. ASSUME UNCHANGED <<disk, hash>>, \A k \in Jobs : Active(k) => Active(k)'
         PROVE  HashIsDisk'
  BY <1>same DEF HashIsDisk, Nothing
<1>end. ASSUME NEW j \in Jobs, End({j}, "done"), disk' = disk PROVE HashIsDisk'
  <2>1. /\ hash'[j] = Nothing
        /\ \A k \in Jobs \ {j} : hash'[k] = hash[k] /\ pc'[k] = pc[k]
    BY <1>end DEF End
  <2>2. QED
    BY <1>end, <2>1 DEF HashIsDisk, Active, Nothing
<1>1. ASSUME NEW j \in Jobs, Start(j) \/ Stat(j) \/ Stamp(j) \/ ReadSaved(j) \/ Plan(j)
      PROVE  HashIsDisk'
  <2>1. UNCHANGED <<disk, hash>> /\ pc'[j] \in Running
        /\ \A k \in Jobs \ {j} : pc'[k] = pc[k]
    BY <1>1 DEF Start, Stat, Stamp, ReadSaved, Plan, Running, TypeOK
  <2>2. QED
    BY <1>same, <2>1 DEF Active
<1>2. ASSUME NEW j \in Jobs, NEW p \in Paths, ReadFile(j, p) PROVE HashIsDisk'
  <2>1. PICK content \in Readable(p) :
          \/ content # None /\ hash' = [hash EXCEPT ![j][p] = content] /\ pc' = pc
          \/ End({j}, "done")
    BY <1>2 DEF ReadFile
  <2>2. disk' = disk /\ pc[j] = "read"
    BY <1>2 DEF ReadFile
  <2>3. CASE content # None /\ hash' = [hash EXCEPT ![j][p] = content] /\ pc' = pc
    <3>1. content = disk[p]
      <4>1. faults' = IF disk[p] = None THEN faults + 1 ELSE faults
        BY <1>2, <2>3, ReadCounts
      <4>2. disk[p] # None
        BY <4>1
      <4>3. QED
        BY <4>2 DEF Readable
    <3>2. /\ \A k \in Jobs \ {j} : hash'[k] = hash[k]
          /\ \A q \in Paths : hash'[j][q] = IF q = p THEN content ELSE hash[j][q]
      BY <2>3 DEF TypeOK
    <3>3. Active(j)'
      BY <2>2, <2>3 DEF Active, Running
    <3>4. QED
      BY <2>2, <2>3, <3>1, <3>2, <3>3 DEF HashIsDisk, Active
  <2>4. QED
    BY <1>end, <2>1, <2>2, <2>3
<1>3. ASSUME NEW j \in Jobs, UpdateCache(j) \/ Touch(j) PROVE HashIsDisk'
  <2>1. UNCHANGED <<disk, hash, pc>>
    BY <1>3 DEF UpdateCache, Touch
  <2>2. QED
    BY <1>same, <2>1 DEF Active
<1>4. ASSUME NEW j \in Jobs, Finish(j) PROVE HashIsDisk'
  BY <1>4, <1>end DEF Finish
<1>5. ASSUME NEW j \in Jobs, NEW op \in todo[j], MarkStored(j, op) PROVE HashIsDisk'
  <2>1. UNCHANGED <<disk, hash, pc>>
    BY <1>5 DEF MarkStored, Mark
  <2>2. QED
    BY <1>same, <2>1 DEF Active
<1>6. ASSUME NEW j \in Jobs, Store(j) PROVE HashIsDisk'
  <2>1. UNCHANGED vars
    BY <1>6 DEF Store, StoreComputed, StoreTag, DropTag, FindChunk, DropChunk, DropTags
  <2>2. QED
    BY <1>same, <2>1 DEF Active, vars
<1>7. CASE Edited
  <2>1. Quiet /\ UNCHANGED <<hash, pc>>
    BY <1>7 DEF Edited, ChangeFiles
  <2>2. QED
    BY <2>1 DEF HashIsDisk, Quiet, Active, Nothing
<1>8. CASE UNCHANGED <<vars, storage>>
  BY <1>8, <1>same DEF Active, vars
<1>9. ASSUME NEW j \in Jobs, Dropped(j) \/ Closed PROVE FALSE
  BY <1>9 DEF Dropped, Fail, Closed, Crash
<1>10. Closed => FALSE
  BY DEF Closed, Crash
<1>11. QED
  BY <1>1, <1>2, <1>3, <1>4, <1>5, <1>6, <1>7, <1>8, <1>9, <1>10 DEF ChunkNext, Plain

\* The rows of other branches are not those of the run.
LEMMA MarkedOthers ==
  ASSUME TypeOK, NEW j \in Jobs, NEW op \in Op,
         catalog' = IF Adds(op) THEN WithRow(j, op) ELSE WithoutRow(j, op),
         NEW t \in Branches, t # tag[j]
  PROVE  /\ \A p, k : (HasRow(t, p, k))' <=> HasRow(t, p, k)
         /\ \A k : (Cataloged(t, k))' <=> Cataloged(t, k)
<1> DEFINE new == [tag |-> tag[j], path |-> op.path, key |-> op.key, time |-> stamp[j]]
<1>1. new.tag = tag[j]
  OBVIOUS
<1> HIDE DEF new
<1>2. /\ \A r \in catalog' : r \in catalog \/ r = new
      /\ \A r \in catalog : ~IsRowOf(r, tag[j], op) => r \in catalog'
  BY MarkedRows DEF new
<1>3. QED
  BY <1>1, <1>2 DEF HasRow, Cataloged, IsRowOf

\* What the lists of a plan say of the other branches.
LEMMA ListsFitPlan ==
  ASSUME Apart, IsFiniteSet(Branches), TypeOK, Tables, KeysAreOwn, CacheFits,
         NEW j \in Jobs, Plan(j), NEW op \in todo'[j]
  PROVE  op.list \in {"addTag", "removeTag"} <=> SharesKey(tag[j], op.key)
<1>1. /\ op \in Op /\ \A k \in Jobs : pc[k] # "update"
      /\ Adds(op) => op.list = ListToAdd(op.key)
      /\ ~Adds(op) => /\ op.list = ListToRemove(op.key)
                      /\ \E r \in catalog : r.tag = tag[j] /\ SameItem(r, op)
  BY PlannedOpsMean
<1>2. op.key \in Contents /\ op.path \in Paths /\ tag[j] \in Branches
  BY <1>1 DEF Op, TypeOK
<1>3. \A t \in Branches : t \in TagsOf(op.key) <=> Cataloged(t, op.key)
  BY <1>1, <1>2, CacheAtRest DEF TagsOf, Cached
<1>4. TagsOf(op.key) \subseteq Branches
  BY DEF TagsOf
<1>5. CASE Adds(op)
  <2>1. op.list = IF TagsOf(op.key) # {} THEN "addTag" ELSE "compute"
    BY <1>1, <1>5 DEF ListToAdd
  <2>2. ~Cataloged(tag[j], op.key)
    <3>1. op \in PlannedOps(j) /\ pc[j] = "read" /\ \A p \in MustRead(j) : hash[j][p] # None
      BY DEF Plan, TypeOK
    <3>2. /\ saved[j] = {r \in catalog : r.tag = tag[j]}
          /\ \A r, s \in saved[j] : r.path = s.path => r = s
      BY <3>1 DEF Tables, SavedFits
    <3>3. ToAdd(j, op.path, op.key)
      BY <1>5, <3>1, <3>2, PlanMeans
    <3>4. op.key \in MayHold[op.path]
      BY <1>2, <3>3, DataAssumption DEF ToAdd, KeysAreOwn
    <3>5. ASSUME NEW r \in catalog, r.tag = tag[j], r.key = op.key PROVE FALSE
      <4>1. r.path \in Paths /\ r.key \in MayHold[r.path]
        BY DEF KeysAreOwn, TypeOK, Row
      <4>2. r.path = op.path
        BY <1>2, <3>4, <3>5, <4>1 DEF Apart
      <4>3. QED
        BY <3>2, <3>3, <3>5, <4>2 DEF ToAdd, Had
    <3>6. QED
      BY <3>5 DEF Cataloged
  <2>3. TagsOf(op.key) # {} <=> SharesKey(tag[j], op.key)
    BY <1>3, <1>4, <2>2 DEF SharesKey
  <2>4. QED
    BY <2>1, <2>3
<1>6. CASE ~Adds(op)
  <2>1. op.list = IF Cardinality(TagsOf(op.key)) > 1 THEN "removeTag" ELSE "del"
    BY <1>1, <1>6 DEF ListToRemove
  <2>2. tag[j] \in TagsOf(op.key)
    BY <1>1, <1>2, <1>3, <1>6 DEF Cataloged, SameItem
  <2>3. IsFiniteSet(TagsOf(op.key))
    BY <1>4, FS_Subset
  <2>4. ASSUME SharesKey(tag[j], op.key) PROVE Cardinality(TagsOf(op.key)) > 1
    <3>1. PICK b \in Branches : b # tag[j] /\ b \in TagsOf(op.key)
      BY <1>3, <2>4 DEF SharesKey
    <3>2. QED
      BY <2>2, <2>3, <3>1, AtMostOne
  <2>5. ASSUME ~SharesKey(tag[j], op.key) PROVE ~(Cardinality(TagsOf(op.key)) > 1)
    <3>1. TagsOf(op.key) = {tag[j]}
      BY <1>3, <1>4, <2>2, <2>5 DEF SharesKey
    <3>2. Cardinality({tag[j]}) = 1
      BY FS_Singleton
    <3>3. QED
      BY <3>1, <3>2
  <2>6. QED
    BY <2>1, <2>4, <2>5
<1>7. QED
  BY <1>5, <1>6

\* The steps of a run that touch no chunk.
LEMMA PlainStep ==
  ASSUME Apart, IsFiniteSet(Branches), TypeOK, Tables, KeysAreOwn, CacheFits,
         StorageTypeOK, Stores, HashIsDisk', NEW j \in Jobs, Plain(j)
  PROVE  Stores'
<1> USE DEF Goto, world, tables, locals, lists, history, storage
<1>0. UNCHANGED <<chunks, chunkTags, stored, victim>>
  BY DEF Plain
<1>1. StoredFits /\ ListsFit
  BY DEF Stores
\* Neither the versions nor the lists change.
<1>keep. ASSUME \A t \in Branches, p \in Paths, k \in Contents :
                  (HasRow(t, p, k))' <=> HasRow(t, p, k),
                \A k \in Jobs : (stored[k] # {} \/ victim[k] # {}) => tag'[k] = tag[k],
                StoredFits', ListsFit'
         PROVE  Stores'
  <2>1. \A t \in Branches, p \in Paths, k \in Contents :
          (Held(t, p, k))' <=> Held(t, p, k)
    BY <1>0, <1>keep, HeldFrame
  <2>2. QED
    BY <1>0, <1>keep, <2>1, StoresKeep
<1>same. ASSUME UNCHANGED <<catalog, todo>>,
                \A k \in Jobs : todo[k] # {} => tag'[k] = tag[k]
         PROVE  Stores'
  <2>1. StoredFits'
    BY <1>0, <1>1, <1>same DEF StoredFits
  <2>2. \A t, p, k : /\ (HasRow(t, p, k))' <=> HasRow(t, p, k)
                     /\ (SharesKey(t, k))' <=> SharesKey(t, k)
    BY <1>same DEF HasRow, SharesKey, Cataloged
  <2>3. ListsFit'
    BY <1>1, <1>same, <2>2 DEF ListsFit
  <2>4. \A k \in Jobs : (stored[k] # {} \/ victim[k] # {}) => tag'[k] = tag[k]
    BY <1>1, <1>same DEF StoredFits
  <2>5. QED
    BY <1>keep, <2>1, <2>2, <2>3, <2>4
<1>2. CASE Start(j)
  <2>1. todo[j] = {}
    BY <1>1, <1>2, RestStores DEF Start
  <2>2. UNCHANGED <<catalog, todo>> /\ \A k \in Jobs \ {j} : tag'[k] = tag[k]
    BY <1>2 DEF Start, TypeOK
  <2>3. QED
    BY <1>same, <2>1, <2>2
<1>3. CASE Stat(j) \/ Stamp(j) \/ ReadSaved(j) \/ UpdateCache(j) \/ Finish(j)
  <2>1. UNCHANGED <<catalog, todo, tag>>
    BY <1>3 DEF Stat, Stamp, ReadSaved, UpdateCache, Finish
  <2>2. QED
    BY <1>same, <2>1
<1>4. ASSUME NEW p \in Paths, ReadFile(j, p) PROVE Stores'
  <2>1. UNCHANGED <<catalog, todo, tag>>
    BY <1>4 DEF ReadFile
  <2>2. QED
    BY <1>same, <2>1
<1>5. CASE Plan(j)
  <2>1. /\ pc[j] = "read" /\ UNCHANGED <<catalog, tag>>
        /\ \A k \in Jobs \ {j} : todo'[k] = todo[k]
    BY <1>5 DEF Plan, TypeOK
  <2>2. Active(j)
    BY <2>1 DEF Active, Running
  <2>3. /\ stored[j] = {} /\ victim[j] = {}
        /\ \A k \in Jobs \ {j} : stored[k] = {} /\ todo[k] = {} /\ victim[k] = {}
    BY <1>1, <2>1, <2>2, OneStores, RestStores
  <2>4. StoredFits'
    BY <1>0, <2>3 DEF StoredFits
  <2>5. \A t, p, k : /\ (HasRow(t, p, k))' <=> HasRow(t, p, k)
                     /\ (SharesKey(t, k))' <=> SharesKey(t, k)
    BY <2>1 DEF HasRow, SharesKey, Cataloged
  <2>6. \A op \in todo'[j] :
          op.list \in {"addTag", "removeTag"} <=> SharesKey(tag[j], op.key)
    BY <1>5, ListsFitPlan
  <2>7. ListsFit'
    BY <2>1, <2>3, <2>5, <2>6 DEF ListsFit
  <2>8. QED
    BY <1>keep, <2>1, <2>4, <2>5, <2>7
<1>6. CASE Touch(j)
  <2>1. pc[j] = "update" /\ todo[j] = {} /\ UNCHANGED <<tag, todo>>
    BY <1>6 DEF Touch
  <2>2. Active(j)
    BY <2>1 DEF Active, Running
  <2>3. \A k \in Jobs : todo[k] = {} /\ stored[k] = {} /\ victim[k] = {}
    BY <1>1, <2>1, <2>2, OneStores DEF StoredFits
  <2>4. PICK r, s \in Row : /\ r \in catalog /\ s.tag = r.tag /\ s.path = r.path
                            /\ s.key = r.key /\ catalog' = (catalog \ {r}) \cup {s}
    BY <1>6, TouchFindsOne
  <2>5. \A t, p, k : (HasRow(t, p, k))' <=> HasRow(t, p, k)
    BY <2>4 DEF HasRow
  <2>6. StoredFits' /\ ListsFit'
    BY <1>0, <2>1, <2>3 DEF StoredFits, ListsFit
  <2>7. QED
    BY <1>keep, <2>1, <2>5, <2>6
<1>7. QED
  BY <1>2, <1>3, <1>4, <1>5, <1>6 DEF Plain

\* An operation that is left is not done yet: what it adds is not there, what
\* it removes is, and no operation of the run undoes another one.
LEMMA LeftToDo ==
  ASSUME Tables, NEW j \in Jobs, pc[j] = "update", NEW op \in todo[j], op \in Op
  PROVE  /\ HasRow(tag[j], op.path, op.key) <=> ~Adds(op)
         /\ Adds(op) => op.key = hash[j][op.path]
         /\ \A o \in todo[j] : SameItem(o, op) => o = op
<1>1. PlanFits(j)
  BY DEF Tables
<1>2. op.path \in Paths /\ op.key \in Contents
  BY DEF Op
<1>3. HasRow(tag[j], op.path, op.key) <=>
        \/ Had(j, op.path, op.key)
             /\ (ToRemove(j, op.path, op.key) => RemoveLeft(j, op.path, op.key))
        \/ ToAdd(j, op.path, op.key) /\ ~AddLeft(j, op.path, op.key)
  BY <1>1, <1>2 DEF PlanFits
<1>4. \A o \in todo[j] :
        IF Adds(o) THEN ToAdd(j, o.path, o.key) ELSE ToRemove(j, o.path, o.key)
  BY <1>1 DEF PlanFits
<1>5. \A p, k : ~(ToAdd(j, p, k) /\ ToRemove(j, p, k))
  BY DEF ToAdd, ToRemove
<1>6. \A o \in todo[j] : SameItem(o, op) => o = op
  BY <1>1, <1>4, <1>5 DEF PlanFits, SameItem
<1>7. CASE Adds(op)
  <2>1. AddLeft(j, op.path, op.key) /\ ToAdd(j, op.path, op.key)
    BY <1>4, <1>7 DEF AddLeft
  <2>2. QED
    BY <1>3, <1>6, <1>7, <2>1 DEF ToAdd
<1>8. CASE ~Adds(op)
  <2>1. RemoveLeft(j, op.path, op.key) /\ ToRemove(j, op.path, op.key)
    BY <1>4, <1>8 DEF RemoveLeft
  <2>2. QED
    BY <1>3, <1>6, <1>8, <2>1 DEF ToRemove
<1>9. QED
  BY <1>7, <1>8

\* Marking moves a version from the storage's account to the catalog's.
LEMMA MarkStoredStep ==
  ASSUME TypeOK, Tables, StorageTypeOK, Stores, HashIsDisk',
         NEW j \in Jobs, NEW op \in todo[j], MarkStored(j, op)
  PROVE  Stores'
<1>1. /\ pc[j] = "update" /\ op \in Op /\ op \in stored[j]
      /\ catalog' = IF Adds(op) THEN WithRow(j, op) ELSE WithoutRow(j, op)
      /\ UNCHANGED <<tag, chunks, chunkTags, victim>>
  BY DEF MarkStored, Mark, TypeOK
<1>2. /\ todo'[j] = todo[j] \ {op} /\ stored'[j] = stored[j] \ {op}
      /\ \A k \in Jobs \ {j} : todo'[k] = todo[k] /\ stored'[k] = stored[k]
  BY DEF MarkStored, Mark, TypeOK, StorageTypeOK
<1>3. Active(j) /\ StoredFits /\ ListsFit
  BY <1>1 DEF Active, Running, Stores
<1>4. /\ \A k \in Jobs \ {j} : stored[k] = {} /\ todo[k] = {}
      /\ \A k \in Jobs : victim[k] = {}
  BY <1>1, <1>3, OneStores DEF StoredFits
<1>5. StoredFits'
  BY <1>1, <1>2, <1>3, <1>4 DEF StoredFits
<1>6. \A k : (SharesKey(tag[j], k))' <=> SharesKey(tag[j], k)
  BY <1>1, MarkedOthers DEF SharesKey
<1>7. ListsFit'
  BY <1>1, <1>2, <1>3, <1>4, <1>6 DEF ListsFit
<1>8. ASSUME NEW t \in Branches, NEW p \in Paths, NEW k \in Contents
      PROVE  (Held(t, p, k))' <=> Held(t, p, k)
  <2>1. /\ Storing(t, p, k) <=>
             tag[j] = t /\ \E o \in stored[j] : Adds(o) /\ o.path = p /\ o.key = k
        /\ Dropping(t, p, k) <=>
             tag[j] = t /\ \E o \in stored[j] : ~Adds(o) /\ o.path = p /\ o.key = k
    BY <1>4 DEF Storing, Dropping
  <2>2. /\ (Storing(t, p, k))' <=>
             tag[j] = t /\ \E o \in stored'[j] : Adds(o) /\ o.path = p /\ o.key = k
        /\ (Dropping(t, p, k))' <=>
             tag[j] = t /\ \E o \in stored'[j] : ~Adds(o) /\ o.path = p /\ o.key = k
    BY <1>1, <1>2, <1>4 DEF Storing, Dropping, Adds
  <2>3. CASE t # tag[j]
    <3>1. (HasRow(t, p, k))' <=> HasRow(t, p, k)
      BY <1>1, <2>3, MarkedOthers
    <3>2. QED
      BY <2>1, <2>2, <2>3, <3>1 DEF Held
  <2>4. CASE t = tag[j] /\ ~(p = op.path /\ k = op.key)
    <3>1. (HasRow(t, p, k))' <=> HasRow(t, p, k)
      BY <1>1, <2>4, MarkedItems
    <3>2. /\ (Storing(t, p, k))' <=> Storing(t, p, k)
          /\ (Dropping(t, p, k))' <=> Dropping(t, p, k)
      BY <1>2, <2>1, <2>2, <2>4
    <3>3. QED
      BY <3>1, <3>2 DEF Held
  <2>5. CASE t = tag[j] /\ p = op.path /\ k = op.key
    <3>1. (HasRow(t, p, k))' <=> Adds(op)
      BY <1>1, <2>5, MarkedItems
    <3>2. \A o \in stored[j] : (o.path = p /\ o.key = k) => o = op
      BY <1>1, <1>3, <2>5, LeftToDo DEF SameItem, StoredFits
    <3>3. ~(Storing(t, p, k))' /\ ~(Dropping(t, p, k))'
      BY <1>2, <2>2, <3>2
    <3>4. /\ Storing(t, p, k) <=> Adds(op)
          /\ Dropping(t, p, k) <=> ~Adds(op)
      BY <1>1, <2>1, <2>5, <3>2
    <3>5. QED
      BY <3>1, <3>3, <3>4 DEF Held
  <2>6. QED
    BY <2>3, <2>4, <2>5
<1>9. QED
  BY <1>1, <1>5, <1>7, <1>8, StoresKeep

-----------------------------------------------------------------------------
(***************************************************************************)
(* The statements                                                          *)
(***************************************************************************)
Of(op, p, k) == op.path = p /\ op.key = k

\* The versions the storage stands for, before and after operations are stored.
LEMMA StoredHeld ==
  ASSUME TypeOK, Tables, StorageTypeOK, Stores, NEW j \in Jobs, pc[j] = "update",
         stored[j] = {}, victim[j] = {}, UNCHANGED <<vars, victim>>,
         NEW Ops \in SUBSET todo[j], stored' = [stored EXCEPT ![j] = Ops]
  PROVE  /\ \A t, p, k : Held(t, p, k) <=> HasRow(t, p, k)
         /\ \A t, p, k : (Held(t, p, k))' <=>
              \/ /\ HasRow(t, p, k)
                 /\ ~(tag[j] = t /\ \E op \in Ops : ~Adds(op) /\ Of(op, p, k))
              \/ tag[j] = t /\ \E op \in Ops : Adds(op) /\ Of(op, p, k)
         /\ StoredFits' /\ HashIsDisk' /\ ListsFit'
<1> USE DEF vars, world, tables, locals, lists, history
<1>1. Active(j) /\ StoredFits
  BY DEF Active, Running, Stores
<1>2. \A k \in Jobs : stored[k] = {} /\ victim[k] = {}
  BY <1>1, OneStores
<1>3. stored'[j] = Ops /\ \A k \in Jobs \ {j} : stored'[k] = {}
  BY <1>2 DEF StorageTypeOK
<1>4. \A t, p, k : Held(t, p, k) <=> HasRow(t, p, k)
  BY <1>2 DEF Held, Storing, Dropping
<1>5. \A t, p, k : /\ (Storing(t, p, k))' <=>
                        tag[j] = t /\ \E op \in Ops : Adds(op) /\ Of(op, p, k)
                   /\ (Dropping(t, p, k))' <=>
                        tag[j] = t /\ \E op \in Ops : ~Adds(op) /\ Of(op, p, k)
                   /\ (HasRow(t, p, k))' <=> HasRow(t, p, k)
  BY <1>2, <1>3 DEF Storing, Dropping, Of, Adds, HasRow
<1>6. StoredFits'
  BY <1>2, <1>3 DEF StoredFits
<1>7. HashIsDisk'
  BY DEF Stores, HashIsDisk, Active, Nothing
<1>8. ListsFit'
  BY DEF Stores, ListsFit, SharesKey, Cataloged
<1>9. QED
  BY <1>4, <1>5, <1>6, <1>7, <1>8 DEF Held

\* The same for one operation.
LEMMA StoredOne ==
  ASSUME TypeOK, Tables, StorageTypeOK, Stores, NEW j \in Jobs, pc[j] = "update",
         stored[j] = {}, victim[j] = {}, UNCHANGED <<vars, victim>>,
         NEW op \in todo[j], stored' = [stored EXCEPT ![j] = {op}]
  PROVE  /\ \A t, p, k : Held(t, p, k) <=> HasRow(t, p, k)
         /\ Adds(op) => \A t, p, k :
              (Held(t, p, k))' <=> HasRow(t, p, k) \/ (tag[j] = t /\ Of(op, p, k))
         /\ ~Adds(op) => \A t, p, k :
              (Held(t, p, k))' <=> HasRow(t, p, k) /\ ~(tag[j] = t /\ Of(op, p, k))
         /\ StoredFits' /\ HashIsDisk' /\ ListsFit'
<1> DEFINE Ops == {op}
<1>1. /\ Ops \in SUBSET todo[j] /\ stored' = [stored EXCEPT ![j] = Ops]
      /\ \A o : o \in Ops <=> o = op
  OBVIOUS
<1> HIDE DEF Ops
<1>2. /\ \A t, p, k : Held(t, p, k) <=> HasRow(t, p, k)
      /\ \A t, p, k : (Held(t, p, k))' <=>
           \/ /\ HasRow(t, p, k)
              /\ ~(tag[j] = t /\ \E o \in Ops : ~Adds(o) /\ Of(o, p, k))
           \/ tag[j] = t /\ \E o \in Ops : Adds(o) /\ Of(o, p, k)
      /\ StoredFits' /\ HashIsDisk' /\ ListsFit'
  BY <1>1, StoredHeld
<1>3. ASSUME NEW t, NEW p, NEW k
      PROVE  /\ (\E o \in Ops : ~Adds(o) /\ Of(o, p, k)) <=> ~Adds(op) /\ Of(op, p, k)
             /\ (\E o \in Ops : Adds(o) /\ Of(o, p, k)) <=> Adds(op) /\ Of(op, p, k)
  BY <1>1
<1>4. ASSUME NEW t, NEW p, NEW k
      PROVE  /\ Adds(op) =>
                  ((Held(t, p, k))' <=> HasRow(t, p, k) \/ (tag[j] = t /\ Of(op, p, k)))
             /\ ~Adds(op) =>
                  ((Held(t, p, k))' <=> HasRow(t, p, k) /\ ~(tag[j] = t /\ Of(op, p, k)))
  <2>1. (Held(t, p, k))' <=>
           \/ /\ HasRow(t, p, k)
              /\ ~(tag[j] = t /\ \E o \in Ops : ~Adds(o) /\ Of(o, p, k))
           \/ tag[j] = t /\ \E o \in Ops : Adds(o) /\ Of(o, p, k)
    BY <1>2
  <2>2. QED
    BY <1>3, <2>1
<1>5. QED
  BY <1>2, <1>4

\* What is known of the next operation of a run.
LEMMA NextOp ==
  ASSUME Apart, TypeOK, Tables, KeysAreOwn, Stores, NEW j \in Jobs, pc[j] = "update",
         NEW op \in todo[j]
  PROVE  /\ op \in Op /\ op.path \in Paths /\ op.key \in Contents
         /\ op.key \in MayHold[op.path]
         /\ HasRow(tag[j], op.path, op.key) <=> ~Adds(op)
         /\ \A t, p : HasRow(t, p, op.key) => p = op.path
         /\ \A c \in chunks : c.key = op.key /\ c.path \in Paths => c.path = op.path
<1>1. op \in Op /\ op.path \in Paths /\ op.key \in Contents
  BY DEF TypeOK, Op
<1>2. op.key \in MayHold[op.path]
  BY DEF KeysAreOwn
<1>3. ASSUME NEW r \in catalog, r.key = op.key PROVE r.path = op.path
  <2>1. r.path \in Paths /\ r.key \in MayHold[r.path]
    BY DEF TypeOK, Row, KeysAreOwn
  <2>2. QED
    BY <1>1, <1>2, <1>3, <2>1 DEF Apart
<1>4. \A t, p : HasRow(t, p, op.key) => p = op.path
  BY <1>3 DEF HasRow
<1>5. \A c \in chunks : c.key = op.key /\ c.path \in Paths => c.path = op.path
  BY <1>1, <1>2 DEF Stores, ChunkKeysOwn, Apart
<1>6. HasRow(tag[j], op.path, op.key) <=> ~Adds(op)
  BY <1>1, LeftToDo
<1>7. QED
  BY <1>1, <1>2, <1>4, <1>5, <1>6

\* Without a version of the content on this branch or another one, it has no
\* chunk.
LEMMA NoChunkOfNew ==
  ASSUME StorageTypeOK, OnlyHeld, NEW k, Single(k), NEW t, ~SharesKey(t, k),
         \A s, p : Held(s, p, k) <=> HasRow(s, p, k),
         \A p : ~HasRow(t, p, k)
  PROVE  \A c \in chunks : c.key # k
<1> SUFFICES ASSUME NEW c \in chunks, c.key = k PROVE FALSE
  OBVIOUS
<1>1. PICK s \in Branches : [chunk |-> c, tag |-> s] \in chunkTags
  BY DEF OnlyHeld
<1>2. Held(s, c.path, c.key)
  <2> DEFINE r == [chunk |-> c, tag |-> s]
  <2>1. r.chunk = c /\ r.tag = s /\ r \in chunkTags
    BY <1>1
  <2> HIDE DEF r
  <2>2. QED
    BY <2>1 DEF OnlyHeld
<1>3. HasRow(s, c.path, k)
  BY <1>2
<1>4. Cataloged(s, k) /\ s # t
  BY <1>3 DEF HasRow, Cataloged
<1>5. QED
  BY <1>4 DEF SharesKey

\* A version that is held has each of its chunks.
LEMMA CoveredHas ==
  ASSUME Covered, NEW t \in Branches, NEW p \in Paths, NEW k \in Contents,
         Whole(k), Held(t, p, k), NEW i \in 1..ChunksOf[k]
  PROVE  \E c \in chunks : /\ c.path = p /\ c.key = k /\ c.idx = i
                          /\ [chunk |-> c, tag |-> t] \in chunkTags
BY DEF Covered

\* Between the statements of other operations than del, every tag has its chunk.
LEMMA NoOrphan ==
  ASSUME StorageTypeOK, Tables, Stores, Sound, TagsFit,
         NEW j \in Jobs, pc[j] = "update", victim[j] = {}
  PROVE  \A r \in chunkTags : r.chunk \in chunks /\ r.tag \in Branches
                              /\ r = [chunk |-> r.chunk, tag |-> r.tag]
<1>1. Active(j) /\ StoredFits
  BY DEF Active, Running, Stores
<1>2. \A k \in Jobs : victim[k] = {}
  BY <1>1, OneStores
<1>3. \A r \in chunkTags : r.chunk \in chunks
  BY <1>2 DEF TagsFit, TagsHaveChunks, Sound
<1>4. QED
  BY <1>3 DEF StorageTypeOK

LEMMA StoreTagStep ==
  ASSUME Apart, TypeOK, Tables, KeysAreOwn, StorageTypeOK, Stores, Sound, TagsFit,
         NEW j \in Jobs, NEW op \in todo[j], StoreTag(j, op)
  PROVE  Stores'
<1>1. /\ pc[j] = "update" /\ stored[j] = {} /\ op.list = "addTag" /\ Adds(op)
      /\ victim[j] = {} /\ UNCHANGED <<vars, victim>> /\ chunks' = chunks
      /\ chunkTags' = chunkTags \cup NewTags(j, op)
      /\ stored' = [stored EXCEPT ![j] = {op}]
  BY DEF StoreTag, IsNext, Adds
<1>2. /\ op \in Op /\ op.path \in Paths /\ op.key \in Contents
      /\ ~HasRow(tag[j], op.path, op.key)
      /\ \A t, p : HasRow(t, p, op.key) => p = op.path
      /\ \A c \in chunks : c.key = op.key /\ c.path \in Paths => c.path = op.path
  BY <1>1, NextOp
<1>3. /\ \A t, p, k : Held(t, p, k) <=> HasRow(t, p, k)
      /\ StoredFits' /\ HashIsDisk' /\ ListsFit'
      /\ \A t, p, k : (Held(t, p, k))' <=> HasRow(t, p, k) \/ (tag[j] = t /\ Of(op, p, k))
  BY <1>1, StoredOne
<1>4. /\ Covered /\ ListsFit /\ ChunkKeysOwn /\ OnlyHeld
      /\ chunks \subseteq ChunkRow /\ tag[j] \in Branches
  BY DEF Stores, StorageTypeOK, TypeOK
\* Another branch has the content.
<1>5. PICK b \in Branches : b # tag[j] /\ HasRow(b, op.path, op.key)
  <2>1. SharesKey(tag[j], op.key)
    BY <1>1, <1>4 DEF ListsFit
  <2>2. PICK b \in Branches : b # tag[j] /\ Cataloged(b, op.key)
    BY <2>1 DEF SharesKey
  <2>3. PICK r \in catalog : r.tag = b /\ r.key = op.key
    BY <2>2 DEF Cataloged
  <2>4. HasRow(b, r.path, op.key)
    BY <2>3 DEF HasRow
  <2>5. QED
    BY <1>2, <2>2, <2>4
<1>6. Whole(op.key) => Single(op.key)
  BY <1>4, <1>5 DEF Whole, OneBranch
\* If it is one chunk, no row of the tag is in the way.
<1>7. Single(op.key) =>
        \A r \in chunkTags : ~(r.tag = tag[j] /\ r.chunk.key = op.key)
  <2>1. \A r \in chunkTags : r.chunk \in chunks
    BY <1>1, NoOrphan
  <2>2. QED
    BY <1>2, <1>3, <1>4, <2>1 DEF OnlyHeld
<1>8. Single(op.key) => NewTags(j, op) = Under(tag[j], OfKey(op.key))
  <2>1. Single(op.key) => Under(tag[j], OfKey(op.key)) \cap chunkTags = {}
    BY <1>7 DEF Under, OfKey
  <2>2. QED
    BY <2>1 DEF NewTags
<1>9. Single(op.key) =>
        \A c \in chunks : c.key = op.key => [chunk |-> c, tag |-> tag[j]] \in chunkTags'
  BY <1>1, <1>8 DEF Under, OfKey
<1>c. chunks' = chunks
  BY <1>1
<1>10. Covered'
  <2> SUFFICES ASSUME NEW t \in Branches, NEW p \in Paths, NEW k \in Contents, Whole(k),
                      (Held(t, p, k))', NEW i \in 1..ChunksOf[k]
               PROVE  \E c \in chunks : /\ c.path = p /\ c.key = k /\ c.idx = i
                                        /\ [chunk |-> c, tag |-> t] \in chunkTags'
    BY <1>c DEF Covered, Whole, Single, OneBranch
  <2>1. CASE HasRow(t, p, k)
    <3>1. Held(t, p, k)
      BY <1>3, <2>1
    <3>2. PICK c \in chunks : /\ c.path = p /\ c.key = k /\ c.idx = i
                              /\ [chunk |-> c, tag |-> t] \in chunkTags
      BY <1>4, <3>1, CoveredHas
    <3>3. QED
      BY <1>1, <3>2
  <2>2. CASE ~HasRow(t, p, k)
    <3>1. t = tag[j] /\ p = op.path /\ k = op.key
      BY <1>3, <2>2 DEF Of
    <3>2. Held(b, p, k)
      BY <1>3, <1>5, <3>1
    <3>3. PICK c \in chunks : /\ c.path = p /\ c.key = k /\ c.idx = i
                              /\ [chunk |-> c, tag |-> b] \in chunkTags
      BY <1>4, <1>5, <3>2, CoveredHas
    <3>4. QED
      BY <1>6, <1>9, <3>1, <3>3
  <2>3. QED
    BY <2>1, <2>2
<1>11. OnlyHeld'
  <2>0. \A r \in NewTags(j, op) : r \in Under(tag[j], OfKey(op.key))
    BY DEF NewTags
  <2>1. ASSUME NEW r \in chunkTags', r.chunk \in chunks, Single(r.chunk.key)
        PROVE  (Held(r.tag, r.chunk.path, r.chunk.key))'
    <3>1. CASE r \in chunkTags
      BY <1>3, <1>4, <2>1, <3>1 DEF OnlyHeld
    <3>2. CASE r \in Under(tag[j], OfKey(op.key))
      <4>1. PICK c \in chunks : c.key = op.key /\ r = [chunk |-> c, tag |-> tag[j]]
        BY <3>2 DEF Under, OfKey
      <4>2. r.tag = tag[j] /\ r.chunk = c /\ c.path = op.path
        BY <1>2, <1>4, <4>1 DEF ChunkRow
      <4>3. QED
        BY <1>3, <4>1, <4>2 DEF Of
    <3>3. QED
      BY <1>1, <2>0, <2>1, <3>1, <3>2
  <2>2. \A c \in chunks : Single(c.key) =>
          \E t \in Branches : [chunk |-> c, tag |-> t] \in chunkTags'
    BY <1>1, <1>4 DEF OnlyHeld
  <2>3. QED
    BY <1>1, <1>4, <2>1, <2>2 DEF OnlyHeld, Single
<1>12. ChunkKeysOwn'
  BY <1>1, <1>4 DEF ChunkKeysOwn
<1>13. QED
  BY <1>3, <1>10, <1>11, <1>12 DEF Stores

LEMMA DropTagStep ==
  ASSUME Apart, TypeOK, Tables, KeysAreOwn, StorageTypeOK, Stores,
         NEW j \in Jobs, NEW op \in todo[j], DropTag(j, op)
  PROVE  Stores'
<1>1. /\ pc[j] = "update" /\ stored[j] = {} /\ op.list = "removeTag" /\ ~Adds(op)
      /\ victim[j] = {} /\ UNCHANGED <<vars, victim>> /\ chunks' = chunks
      /\ chunkTags' = chunkTags \ OldTags(j, op)
      /\ stored' = [stored EXCEPT ![j] = {op}]
  BY DEF DropTag, IsNext, Adds
<1>2. /\ op \in Op /\ op.path \in Paths /\ op.key \in Contents
      /\ \A t, p : HasRow(t, p, op.key) => p = op.path
      /\ \A c \in chunks : c.key = op.key /\ c.path \in Paths => c.path = op.path
  BY <1>1, NextOp
<1>3. /\ \A t, p, k : Held(t, p, k) <=> HasRow(t, p, k)
      /\ StoredFits' /\ HashIsDisk' /\ ListsFit'
      /\ \A t, p, k : (Held(t, p, k))' <=> HasRow(t, p, k) /\ ~(tag[j] = t /\ Of(op, p, k))
  BY <1>1, StoredOne
<1>4. /\ Covered /\ ListsFit /\ ChunkKeysOwn /\ OnlyHeld
      /\ chunks \subseteq ChunkRow /\ tag[j] \in Branches
      /\ chunkTags \subseteq [chunk : ChunkRow, tag : Branches]
  BY DEF Stores, StorageTypeOK, TypeOK
<1>5. \A c \in chunks, t \in Branches : [chunk |-> c, tag |-> t] \in OldTags(j, op)
        <=> t = tag[j] /\ c.key = op.key
  <2>1. \A c \in chunks : c.key = op.key => c.path = op.path
    BY <1>2, <1>4 DEF ChunkRow
  <2>2. \A c, t : [chunk |-> c, tag |-> t] \in OldTags(j, op)
          <=> t = tag[j] /\ c \in chunks /\ c.key = op.key /\ c.path = op.path
    BY DEF OldTags, Under, OfKey
  <2>3. QED
    BY <2>1, <2>2
<1>c. chunks' = chunks
  BY <1>1
<1>6. Covered'
  <2> SUFFICES ASSUME NEW t \in Branches, NEW p \in Paths, NEW k \in Contents, Whole(k),
                      (Held(t, p, k))', NEW i \in 1..ChunksOf[k]
               PROVE  \E c \in chunks : /\ c.path = p /\ c.key = k /\ c.idx = i
                                        /\ [chunk |-> c, tag |-> t] \in chunkTags'
    BY <1>c DEF Covered, Whole, Single, OneBranch
  <2>1. Held(t, p, k) /\ ~(tag[j] = t /\ Of(op, p, k)) /\ HasRow(t, p, k)
    BY <1>3
  <2>2. ~(tag[j] = t /\ k = op.key)
    BY <1>2, <2>1 DEF Of
  <2>3. PICK c \in chunks : /\ c.path = p /\ c.key = k /\ c.idx = i
                            /\ [chunk |-> c, tag |-> t] \in chunkTags
    BY <1>4, <2>1, CoveredHas
  <2>4. QED
    BY <1>1, <1>5, <2>2, <2>3
<1>7. OnlyHeld'
  <2>1. ASSUME NEW r \in chunkTags', r.chunk \in chunks, Single(r.chunk.key)
        PROVE  (Held(r.tag, r.chunk.path, r.chunk.key))'
    <3>1. /\ r.tag \in Branches /\ r = [chunk |-> r.chunk, tag |-> r.tag]
          /\ r \in chunkTags /\ r \notin OldTags(j, op)
      BY <1>1, <1>4
    <3>2. ~(r.tag = tag[j] /\ r.chunk.key = op.key)
      BY <1>5, <2>1, <3>1
    <3>3. HasRow(r.tag, r.chunk.path, r.chunk.key)
      BY <1>3, <1>4, <2>1, <3>1 DEF OnlyHeld
    <3>4. QED
      BY <1>3, <3>2, <3>3 DEF Of
\* Another branch has the content, and its only chunk.
  <2>2. ASSUME NEW c \in chunks, Single(c.key)
        PROVE  \E t \in Branches : [chunk |-> c, tag |-> t] \in chunkTags'
    <3>1. PICK t \in Branches : [chunk |-> c, tag |-> t] \in chunkTags
      BY <1>4, <2>2 DEF OnlyHeld
    <3>2. CASE ~(t = tag[j] /\ c.key = op.key)
      BY <1>1, <1>5, <3>1, <3>2
    <3>3. CASE t = tag[j] /\ c.key = op.key
      <4>1. SharesKey(tag[j], op.key)
        BY <1>1, <1>4 DEF ListsFit
      <4>2. PICK b \in Branches : b # tag[j] /\ Cataloged(b, op.key)
        BY <4>1 DEF SharesKey
      <4>3. PICK r \in catalog : r.tag = b /\ r.key = op.key
        BY <4>2 DEF Cataloged
      <4>4. HasRow(b, r.path, op.key) /\ r.path \in Paths
        BY <4>3 DEF HasRow, TypeOK, Row
      <4>5. c.idx \in 1..ChunksOf[op.key] /\ Whole(op.key)
        BY <1>4, <2>2, <3>3 DEF OnlyHeld, Whole
      <4>6. PICK d \in chunks : d.key = op.key /\ [chunk |-> d, tag |-> b] \in chunkTags
        BY <1>2, <1>3, <1>4, <4>4, <4>5 DEF Covered
      <4>7. d = c
        BY <1>4, <2>2, <3>3, <4>6 DEF OnlyHeld
      <4>8. QED
        BY <1>1, <1>5, <4>2, <4>6, <4>7
    <3>4. QED
      BY <3>2, <3>3
  <2>3. QED
    BY <1>1, <1>4, <2>1, <2>2 DEF OnlyHeld, Single
<1>8. ChunkKeysOwn'
  BY <1>1, <1>4 DEF ChunkKeysOwn
<1>9. QED
  BY <1>3, <1>6, <1>7, <1>8 DEF Stores

\* Rows of the chunks that an operation del is for go, if there are any.
LEMMA ChunksGo ==
  ASSUME Apart, TypeOK, Tables, KeysAreOwn, StorageTypeOK, Stores,
         NEW j \in Jobs, pc[j] = "update", NEW op \in todo[j], op.list = "del",
         NEW Gone, Gone \subseteq OfKey(op.key), OfKey(op.key) # {} => Gone # {},
         chunks' = chunks \ Gone, chunkTags' = chunkTags,
         \A t, p, k : Held(t, p, k) <=> HasRow(t, p, k),
         \A t, p, k : (Held(t, p, k))' <=> HasRow(t, p, k) /\ ~(tag[j] = t /\ Of(op, p, k)),
         StoredFits', HashIsDisk', ListsFit'
  PROVE  Stores'
<1>3. /\ Gone \subseteq chunks
      /\ \A c \in Gone : c.key = op.key
      /\ (\E c \in chunks : c.key = op.key) => Gone # {}
  BY DEF OfKey
<1>5. /\ op \in Op /\ op.path \in Paths /\ op.key \in Contents
      /\ \A t, p : HasRow(t, p, op.key) => p = op.path
  BY NextOp
<1>7. /\ Covered /\ ListsFit /\ ChunkKeysOwn /\ OnlyHeld
      /\ chunks \subseteq ChunkRow
  BY DEF Stores, StorageTypeOK
\* No other branch has the content.
<1>8. ASSUME NEW t \in Branches, NEW p, HasRow(t, p, op.key) PROVE t = tag[j]
  <2>1. Cataloged(t, op.key)
    BY <1>8 DEF HasRow, Cataloged
  <2>2. ~SharesKey(tag[j], op.key)
    BY <1>7 DEF ListsFit
  <2>3. QED
    BY <2>1, <2>2 DEF SharesKey
<1>9. Covered'
  <2> SUFFICES ASSUME NEW t \in Branches, NEW p \in Paths, NEW k \in Contents, Whole(k),
                      (Held(t, p, k))', NEW i \in 1..ChunksOf[k]
               PROVE  \E c \in chunks' : /\ c.path = p /\ c.key = k /\ c.idx = i
                                         /\ [chunk |-> c, tag |-> t] \in chunkTags
    BY DEF Covered, Whole, Single, OneBranch
  <2>1. Held(t, p, k) /\ ~(tag[j] = t /\ Of(op, p, k)) /\ HasRow(t, p, k)
    OBVIOUS
  <2>2. k # op.key
    BY <1>5, <1>8, <2>1 DEF Of
  <2>3. PICK c \in chunks : /\ c.path = p /\ c.key = k /\ c.idx = i
                            /\ [chunk |-> c, tag |-> t] \in chunkTags
    BY <1>7, <2>1, CoveredHas
  <2>4. c \notin Gone
    BY <1>3, <2>2, <2>3
  <2>5. QED
    BY <2>3, <2>4
<1>10. OnlyHeld'
  <2>1. ASSUME NEW r \in chunkTags, r.chunk \in chunks', Single(r.chunk.key)
        PROVE  (Held(r.tag, r.chunk.path, r.chunk.key))'
    <3>1. r.chunk \in chunks /\ r.chunk \notin Gone
      BY <2>1
    <3>2. HasRow(r.tag, r.chunk.path, r.chunk.key)
      BY <1>7, <2>1, <3>1 DEF OnlyHeld
    <3>3. r.chunk.key # op.key
      <4> SUFFICES ASSUME r.chunk.key = op.key PROVE FALSE
        OBVIOUS
      <4>1. PICK c \in Gone : TRUE
        BY <1>3, <3>1
      <4>2. c = r.chunk
        BY <1>3, <1>7, <2>1, <3>1, <4>1 DEF OnlyHeld
      <4>3. QED
        BY <3>1, <4>1, <4>2
    <3>4. QED
      BY <3>2, <3>3 DEF Of
  <2>2. ASSUME NEW c \in chunks', Single(c.key)
        PROVE  \E t \in Branches : [chunk |-> c, tag |-> t] \in chunkTags
    BY <1>7, <2>2 DEF OnlyHeld
  <2>3. /\ \A c \in chunks' : Single(c.key) => c.idx \in 1..ChunksOf[c.key]
        /\ \A c, d \in chunks' : (Single(c.key) /\ c.key = d.key) => c = d
    BY <1>7 DEF OnlyHeld
  <2>4. QED
    BY <2>1, <2>2, <2>3 DEF OnlyHeld, Single
<1>11. ChunkKeysOwn'
  BY <1>7 DEF ChunkKeysOwn
<1>12. QED
  BY <1>9, <1>10, <1>11 DEF Stores

\* SELECT finds a chunk of the version, or the version has none left.
LEMMA FindChunkStep ==
  ASSUME Apart, TypeOK, Tables, KeysAreOwn, StorageTypeOK, Stores,
         NEW j \in Jobs, NEW op \in todo[j], FindChunk(j, op)
  PROVE  Stores'
<1> USE DEF vars, world, tables, locals, lists, history
<1>1. /\ pc[j] = "update" /\ stored[j] = {} /\ victim[j] = {} /\ op.list = "del"
      /\ ~Adds(op) /\ UNCHANGED <<vars, chunks, chunkTags>>
  BY DEF FindChunk, IsNext, Adds
<1>2. CASE ChunksToDelete(op) = {} /\ stored' = [stored EXCEPT ![j] = {op}] /\ victim' = victim
  <2>1. /\ \A t, p, k : Held(t, p, k) <=> HasRow(t, p, k)
        /\ StoredFits' /\ HashIsDisk' /\ ListsFit'
        /\ \A t, p, k : (Held(t, p, k))' <=> HasRow(t, p, k) /\ ~(tag[j] = t /\ Of(op, p, k))
    BY <1>1, <1>2, StoredOne
  <2> DEFINE Gone == {}
  <2>2. /\ Gone \subseteq OfKey(op.key) /\ (OfKey(op.key) # {} => Gone # {})
        /\ chunks' = chunks \ Gone /\ chunkTags' = chunkTags
    BY <1>1, <1>2 DEF ChunksToDelete
  <2> HIDE DEF Gone
  <2>3. QED
    BY <1>1, <2>1, <2>2, ChunksGo
<1>3. ASSUME NEW row \in ChunksToDelete(op), stored' = stored,
             victim' = [victim EXCEPT ![j] = {[op |-> op, row |-> row]}]
      PROVE  Stores'
  <2>1. /\ victim'[j] = {[op |-> op, row |-> row]}
        /\ \A k \in Jobs \ {j} : victim'[k] = victim[k]
    BY <1>3 DEF StorageTypeOK
  <2>2. row \in chunks /\ row.key = op.key
    BY <1>3 DEF ChunksToDelete, OfKey
  <2> DEFINE v == [op |-> op, row |-> row]
  <2>3. v.op = op /\ v.row = row /\ victim'[j] = {v}
    BY <2>1
  <2> HIDE DEF v
  <2>4. StoredFits'
    BY <1>1, <1>3, <2>1, <2>2, <2>3 DEF Stores, StoredFits
  <2>5. \A t, p, k : /\ (HasRow(t, p, k))' <=> HasRow(t, p, k)
                     /\ (Storing(t, p, k))' <=> Storing(t, p, k)
    BY <1>1, <1>3 DEF HasRow, Storing, Adds
  <2>6. \A t, p, k : (Dropping(t, p, k))' <=> Dropping(t, p, k)
    BY <1>1, <1>3, <2>1, <2>2, <2>3 DEF Dropping, Adds
  <2>7. HashIsDisk' /\ ListsFit'
    BY <1>1 DEF Stores, HashIsDisk, Active, Nothing, ListsFit, SharesKey, Cataloged
  <2>8. \A t \in Branches, p \in Paths, k \in Contents : (Held(t, p, k))' <=> Held(t, p, k)
    BY <2>5, <2>6 DEF Held
  <2>9. QED
    BY <1>1, <2>4, <2>7, <2>8, StoresKeep
<1>4. QED
  BY <1>2, <1>3 DEF FindChunk

\* The chunk goes, and the version with it.
LEMMA DropChunkStep ==
  ASSUME Apart, TypeOK, Tables, KeysAreOwn, StorageTypeOK, Stores,
         NEW j \in Jobs, DropChunk(j)
  PROVE  Stores'
<1> USE DEF vars, world, tables, locals, lists, history
<1>1. PICK v \in victim[j] : v.row \in chunks /\ chunks' = chunks \ {v.row}
  BY DEF DropChunk
<1>2. UNCHANGED <<vars, chunkTags, stored, victim>>
  BY DEF DropChunk
<1>3. /\ v.op \in todo[j] /\ v.op.list = "del" /\ v.row.key = v.op.key
      /\ stored[j] = {} /\ victim[j] = {v} /\ StoredFits
  BY DEF Stores, StoredFits
<1>4. pc[j] = "update"
  BY <1>3, RestStores
<1>5. \A k \in Jobs : stored[k] = {} /\ (k # j => victim[k] = {})
  BY <1>3, <1>4, OneStores DEF Active, Running
<1>6. \A t, p, k : ~Storing(t, p, k) /\ ~Dropping(t, p, k)
  BY <1>1, <1>3, <1>5 DEF Storing, Dropping
<1>7. \A t, p, k : Held(t, p, k) <=> HasRow(t, p, k)
  BY <1>6 DEF Held
<1>8. \A t, p, k : /\ (HasRow(t, p, k))' <=> HasRow(t, p, k)
                   /\ ~(Storing(t, p, k))'
                   /\ (Dropping(t, p, k))' <=> tag[j] = t /\ Of(v.op, p, k)
  BY <1>1, <1>2, <1>3, <1>5 DEF HasRow, Storing, Dropping, Of
<1>9. \A t, p, k : (Held(t, p, k))' <=> HasRow(t, p, k) /\ ~(tag[j] = t /\ Of(v.op, p, k))
  BY <1>8 DEF Held
<1>10. StoredFits'
  BY <1>2 DEF Stores, StoredFits
<1>11. HashIsDisk' /\ ListsFit'
  BY <1>2 DEF Stores, HashIsDisk, Active, Nothing, ListsFit, SharesKey, Cataloged
<1> DEFINE Gone == {v.row}
           op == v.op
<1>12. /\ Gone \subseteq OfKey(op.key) /\ (OfKey(op.key) # {} => Gone # {})
       /\ chunks' = chunks \ Gone /\ chunkTags' = chunkTags
       /\ op \in todo[j] /\ op.list = "del"
       /\ \A t, p, k : (Held(t, p, k))' <=> HasRow(t, p, k) /\ ~(tag[j] = t /\ Of(op, p, k))
  BY <1>1, <1>2, <1>3, <1>9 DEF OfKey
<1> HIDE DEF Gone, op
<1>13. QED
  BY <1>4, <1>7, <1>10, <1>11, <1>12, ChunksGo

\* Its tags follow; nothing that can be found goes.
LEMMA DropTagsStep ==
  ASSUME TypeOK, Tables, StorageTypeOK, Stores, NEW j \in Jobs, DropTags(j)
  PROVE  Stores'
<1> USE DEF vars, world, tables, locals, lists, history
<1>1. PICK v \in victim[j] : /\ v.row \notin chunks /\ chunkTags' = OtherTags(v.row)
                             /\ stored' = [stored EXCEPT ![j] = {v.op}]
  BY DEF DropTags
<1>2. UNCHANGED <<vars, chunks>> /\ victim' = [victim EXCEPT ![j] = {}]
  BY DEF DropTags
<1>3. /\ v.op \in todo[j] /\ v.op.list = "del" /\ ~Adds(v.op)
      /\ stored[j] = {} /\ victim[j] = {v} /\ StoredFits
  BY DEF Stores, StoredFits, Adds
<1>4. pc[j] = "update"
  BY <1>3, RestStores
<1>5. \A k \in Jobs \ {j} : stored[k] = {} /\ victim[k] = {}
  BY <1>3, <1>4, OneStores DEF Active, Running
<1>6. /\ stored'[j] = {v.op} /\ victim'[j] = {}
      /\ \A k \in Jobs \ {j} : stored'[k] = {} /\ victim'[k] = {}
  BY <1>1, <1>2, <1>5 DEF StorageTypeOK
<1>7. StoredFits'
  BY <1>2, <1>3, <1>6 DEF StoredFits
<1>8. ASSUME NEW t, NEW p, NEW k
      PROVE  /\ (HasRow(t, p, k))' <=> HasRow(t, p, k)
             /\ ~Storing(t, p, k) /\ ~(Storing(t, p, k))'
             /\ Dropping(t, p, k) <=> tag[j] = t /\ Of(v.op, p, k)
             /\ (Dropping(t, p, k))' <=> tag[j] = t /\ Of(v.op, p, k)
  <2>1. (HasRow(t, p, k))' <=> HasRow(t, p, k)
    BY <1>2 DEF HasRow
  <2>2. ~Storing(t, p, k) /\ (Dropping(t, p, k) <=> tag[j] = t /\ Of(v.op, p, k))
    BY <1>1, <1>3, <1>5 DEF Storing, Dropping, Of
  <2>3. ~(Storing(t, p, k))'
    BY <1>3, <1>6 DEF Storing, Adds
  <2>4. (Dropping(t, p, k))' <=> tag[j] = t /\ Of(v.op, p, k)
    BY <1>2, <1>3, <1>6 DEF Dropping, Of, Adds
  <2>5. QED
    BY <2>1, <2>2, <2>3, <2>4
<1>9. \A t \in Branches, p \in Paths, k \in Contents : (Held(t, p, k))' <=> Held(t, p, k)
  BY <1>8 DEF Held
<1>10. HashIsDisk' /\ ListsFit'
  BY <1>2 DEF Stores, HashIsDisk, Active, Nothing, ListsFit, SharesKey, Cataloged
<1>11. /\ chunks' = chunks /\ chunkTags' \subseteq chunkTags
       /\ \A r \in chunkTags : r.chunk \in chunks => r \in chunkTags'
  BY <1>1, <1>2 DEF OtherTags
<1>12. QED
  BY <1>7, <1>9, <1>10, <1>11, StoresKeep

\* What a file is cut into.
LEMMA CutMeans ==
  ASSUME NEW op, NEW content
  PROVE  /\ \A c \in CutInto(op, content) :
              c.path = op.path /\ c.key = op.key /\ c.idx \in 1..ChunksOf[content]
         /\ \A c, d \in CutInto(op, content) : c.idx = d.idx => c = d
         /\ \A i \in 1..ChunksOf[content] : \E c \in CutInto(op, content) :
              c.path = op.path /\ c.key = op.key /\ c.idx = i
<1> DEFINE Nth(i) == [path |-> op.path, key |-> op.key, idx |-> i,
                      copy |-> Max(Copies(op, i) \cup {0}) + 1]
<1>1. \A i : Nth(i).path = op.path /\ Nth(i).key = op.key /\ Nth(i).idx = i
  OBVIOUS
<1>2. CutInto(op, content) = {Nth(i) : i \in 1..ChunksOf[content]}
  BY DEF CutInto
<1> HIDE DEF Nth
<1>3. QED
  BY <1>1, <1>2

\* What is stored for the operations of the list compute.
LEMMA StoreComputedStep ==
  ASSUME Apart, Buffers = {}, TypeOK, Tables, KeysAreOwn,
         StorageTypeOK, Stores, Sound, Sound', TagsFit, NEW j \in Jobs, StoreComputed(j)
  PROVE  Stores'
<1> DEFINE Ops == Computed(j)
<1>1. /\ pc[j] = "update" /\ stored[j] = {} /\ victim[j] = {} /\ UNCHANGED <<vars, victim>>
      /\ stored' = [stored EXCEPT ![j] = Ops]
      /\ Ops \in SUBSET todo[j]
      /\ \A op \in Ops : op.list = "compute" /\ Adds(op)
  BY DEF StoreComputed, IsNext, Computed, Adds
<1>2. PICK text \in [Paths -> Contents \cup {None}] :
        /\ \A p \in Paths : text[p] \in Readable(p)
        /\ chunks' = chunks \cup NewChunks(j, text)
        /\ chunkTags' = chunkTags \cup Under(tag[j], NewChunks(j, text))
  <2>1. PICK text \in [Paths -> Contents \cup {None}] :
          /\ \A p \in Paths : text[p] \in Readable(p)
          /\ AllInserted(j, NewChunks(j, text)) \/ SomeInserted(j, NewChunks(j, text))
    BY DEF StoreComputed, NewChunks
  <2>2. AllInserted(j, NewChunks(j, text))
    BY <2>1 DEF SomeInserted, Sound
  <2>3. QED
    BY <2>1, <2>2 DEF AllInserted
<1>3. \A p \in Paths : disk[p] # None => text[p] = disk[p]
  BY <1>2 DEF Readable
<1>4. ASSUME NEW op \in Ops
      PROVE  /\ op \in Op /\ op.path \in Paths /\ op.key \in Contents
             /\ op.key \in MayHold[op.path]
             /\ text[op.path] = op.key
             /\ \A t, p : HasRow(t, p, op.key) => p = op.path
             /\ ~HasRow(tag[j], op.path, op.key)
             /\ \A o \in Ops : SameItem(o, op) => o = op
             /\ ~SharesKey(tag[j], op.key)
  <2>1. op \in todo[j] /\ Adds(op) /\ op.list = "compute"
    BY <1>1
  <2>2. /\ op \in Op /\ op.path \in Paths /\ op.key \in Contents
        /\ op.key \in MayHold[op.path]
        /\ HasRow(tag[j], op.path, op.key) <=> ~Adds(op)
        /\ \A t, p : HasRow(t, p, op.key) => p = op.path
    BY <1>1, <2>1, NextOp
  <2>3. op.key = hash[j][op.path] /\ \A o \in todo[j] : SameItem(o, op) => o = op
    BY <1>1, <2>1, <2>2, LeftToDo
  <2>4. op.key = disk[op.path] /\ disk[op.path] # None
    BY <2>2, <2>3, DataAssumption DEF Stores, HashIsDisk
  <2>5. ~SharesKey(tag[j], op.key)
    BY <2>1 DEF Stores, ListsFit
  <2>6. QED
    BY <1>1, <1>3, <2>1, <2>2, <2>3, <2>4, <2>5
<1> HIDE DEF Ops
\* The new chunks.
<1>5. ASSUME NEW c \in NewChunks(j, text)
      PROVE  \E op \in Ops : /\ c \in CutInto(op, text[op.path])
                             /\ c.path = op.path /\ c.key = op.key
                             /\ c.idx \in 1..ChunksOf[op.key]
  <2>1. PICK op \in Ops : c \in CutInto(op, text[op.path])
    BY <1>5 DEF NewChunks, Ops
  <2>2. QED
    BY <1>4, <2>1, CutMeans
<1>6. ASSUME NEW op \in Ops, NEW i \in 1..ChunksOf[op.key]
      PROVE  \E c \in NewChunks(j, text) : c.path = op.path /\ c.key = op.key /\ c.idx = i
  <2>1. PICK c \in CutInto(op, text[op.path]) :
          c.path = op.path /\ c.key = op.key /\ c.idx = i
    BY <1>4, <1>6, CutMeans
  <2>2. c \in NewChunks(j, text)
    BY <2>1 DEF NewChunks, Ops
  <2>3. QED
    BY <2>1, <2>2
<1> HIDE DEF NewChunks
<1>7. /\ \A t, p, k : Held(t, p, k) <=> HasRow(t, p, k)
      /\ StoredFits' /\ HashIsDisk' /\ ListsFit'
  BY <1>1, StoredHeld
<1>8. \A t, p, k : (Held(t, p, k))' <=>
         HasRow(t, p, k) \/ (tag[j] = t /\ \E op \in Ops : Of(op, p, k))
  <2>1. \A t, p, k : (Held(t, p, k))' <=>
          \/ /\ HasRow(t, p, k)
             /\ ~(tag[j] = t /\ \E op \in Ops : ~Adds(op) /\ Of(op, p, k))
          \/ tag[j] = t /\ \E op \in Ops : Adds(op) /\ Of(op, p, k)
    BY <1>1, StoredHeld
  <2>2. \A p, k : /\ ~(\E op \in Ops : ~Adds(op) /\ Of(op, p, k))
                  /\ (\E op \in Ops : Adds(op) /\ Of(op, p, k))
                       <=> \E op \in Ops : Of(op, p, k)
    BY <1>1
  <2>3. QED
    BY <2>1, <2>2
<1>9. /\ Covered /\ ChunkKeysOwn /\ OnlyHeld /\ tag[j] \in Branches
      /\ \A r \in chunkTags : r.chunk \in chunks
  BY <1>1, NoOrphan DEF Stores, TypeOK
<1>10. \A c \in NewChunks(j, text) : [chunk |-> c, tag |-> tag[j]] \in chunkTags'
  BY <1>2 DEF Under
<1>11. Covered
  BY <1>9
<1>12. Covered'
  <2> SUFFICES ASSUME NEW t \in Branches, NEW p \in Paths, NEW k \in Contents, Whole(k),
                      (Held(t, p, k))', NEW i \in 1..ChunksOf[k]
               PROVE  \E c \in chunks' : /\ c.path = p /\ c.key = k /\ c.idx = i
                                         /\ [chunk |-> c, tag |-> t] \in chunkTags'
    BY DEF Covered, Whole, Single, OneBranch
  <2>1. CASE HasRow(t, p, k)
    <3>1. Held(t, p, k)
      BY <1>7, <2>1
    <3>2. PICK c \in chunks : /\ c.path = p /\ c.key = k /\ c.idx = i
                              /\ [chunk |-> c, tag |-> t] \in chunkTags
      BY <1>11, <3>1, CoveredHas
    <3>3. QED
      BY <1>2, <3>2
  <2>2. CASE ~HasRow(t, p, k)
    <3>1. t = tag[j] /\ \E op \in Ops : Of(op, p, k)
      BY <1>8, <2>2
    <3>2. PICK op \in Ops : op.path = p /\ op.key = k
      BY <3>1 DEF Of
    <3>3. i \in 1..ChunksOf[op.key]
      BY <3>2
    <3>4. PICK c \in NewChunks(j, text) : c.path = op.path /\ c.key = op.key /\ c.idx = i
      BY <1>6, <3>3
    <3>5. QED
      BY <1>2, <1>10, <3>1, <3>2, <3>4
  <2>3. QED
    BY <2>1, <2>2
<1>13. OnlyHeld'
  <2>0. OnlyHeld
    BY <1>9
  <2>1. ASSUME NEW r \in chunkTags', Single(r.chunk.key) PROVE (Held(r.tag, r.chunk.path, r.chunk.key))'
    <3>1. CASE r \in chunkTags
      BY <1>7, <1>8, <1>9, <2>1, <3>1 DEF OnlyHeld
    <3>2. CASE r \in Under(tag[j], NewChunks(j, text))
      <4>1. PICK c \in NewChunks(j, text) : r = [chunk |-> c, tag |-> tag[j]]
        BY <3>2 DEF Under
      <4>2. r.tag = tag[j] /\ r.chunk = c
        BY <4>1
      <4>3. \E op \in Ops : Of(op, c.path, c.key)
        BY <1>5 DEF Of
      <4>4. QED
        BY <1>8, <4>2, <4>3
    <3>3. QED
      BY <1>2, <3>1, <3>2
  <2>2. ASSUME NEW c \in chunks', Single(c.key)
        PROVE  /\ \E t \in Branches : [chunk |-> c, tag |-> t] \in chunkTags'
               /\ c.idx \in 1..ChunksOf[c.key]
    <3>1. CASE c \in chunks
      BY <1>2, <2>0, <2>2, <3>1 DEF OnlyHeld
    <3>2. CASE c \in NewChunks(j, text)
      BY <1>5, <1>9, <1>10, <3>2
    <3>3. QED
      BY <1>2, <3>1, <3>2
\* No chunk of the content of a new one is there already.
  <2>3. ASSUME NEW c \in NewChunks(j, text), NEW d \in chunks, Single(c.key)
        PROVE  c.key # d.key
    <3>1. PICK op \in Ops : c.key = op.key
      BY <1>5
    <3>2. ~SharesKey(tag[j], op.key) /\ \A p : ~HasRow(tag[j], p, op.key)
      BY <1>4
    <3>3. \A b \in chunks : b.key # op.key
      BY <1>7, <2>0, <2>3, <3>1, <3>2, NoChunkOfNew
    <3>4. QED
      BY <3>1, <3>3
\* And no other new one has it.
  <2>4. ASSUME NEW c \in NewChunks(j, text), NEW d \in NewChunks(j, text), c.key = d.key,
               Single(c.key)
        PROVE  c = d
    <3>1. PICK op \in Ops : /\ c \in CutInto(op, text[op.path]) /\ c.key = op.key
                            /\ c.idx \in 1..ChunksOf[op.key]
      BY <1>5
    <3>2. PICK o \in Ops : /\ d \in CutInto(o, text[o.path]) /\ d.key = o.key
                           /\ d.idx \in 1..ChunksOf[o.key]
      BY <1>5
    <3>3. o = op
      <4>1. o.key = op.key /\ o.path \in Paths /\ op.path \in Paths
            /\ op.key \in MayHold[o.path] /\ op.key \in MayHold[op.path]
        BY <1>4, <2>4, <3>1, <3>2
      <4>2. o.path = op.path
        BY <4>1 DEF Apart
      <4>3. QED
        BY <1>4, <4>1, <4>2 DEF SameItem
    <3>4. ChunksOf[op.key] \in Nat /\ ChunksOf[op.key] <= 1
      BY <1>4, <2>4, <3>1, ChunksAssumption DEF Single
    <3>5. c.idx = d.idx
      BY <3>1, <3>2, <3>3, <3>4
    <3>6. QED
      BY <3>1, <3>2, <3>3, <3>5, CutMeans
  <2>5. \A c, d \in chunks' : (Single(c.key) /\ c.key = d.key) => c = d
    BY <1>2, <2>0, <2>3, <2>4 DEF OnlyHeld
  <2>6. QED
    BY <2>1, <2>2, <2>5 DEF OnlyHeld, Single
<1>14. ChunkKeysOwn'
  <2>1. \A c \in NewChunks(j, text) : c.key \in MayHold[c.path]
    BY <1>4, <1>5
  <2>2. QED
    BY <1>2, <1>9, <2>1 DEF ChunkKeysOwn
<1>15. QED
  BY <1>7, <1>12, <1>13, <1>14 DEF Stores

-----------------------------------------------------------------------------
(***************************************************************************)
(* What can be found                                                       *)
(***************************************************************************)
LEMMA StoresStep ==
  ASSUME Serial, Still, Buffers = {}, Apart,
         IsFiniteSet(Branches), TypeOK, Tables, KeysAreOwn, CacheFits,
         StorageTypeOK, TagsFit, Stores, Sound, Sound', [ChunkNext]_<<vars, storage>>
  PROVE  Stores'
<1>0. faults = 0 /\ faults' = 0 /\ HashIsDisk'
  BY HashStep DEF Stores, Sound
<1>1. ASSUME NEW j \in Jobs, Plain(j) PROVE Stores'
  BY <1>0, <1>1, PlainStep
<1>2. ASSUME NEW j \in Jobs, Store(j) PROVE Stores'
  BY <1>2, StoreComputedStep, StoreTagStep, DropTagStep, FindChunkStep, DropChunkStep,
     DropTagsStep DEF Store
<1>3. ASSUME NEW j \in Jobs, NEW op \in todo[j], MarkStored(j, op) PROVE Stores'
  BY <1>0, <1>3, MarkStoredStep
<1>4. ASSUME UNCHANGED <<catalog, tag, todo, storage>> PROVE Stores'
  <2>1. UNCHANGED <<chunks, chunkTags, stored, victim>>
    BY <1>4 DEF storage
  <2>2. \A t, p, k : /\ (HasRow(t, p, k))' <=> HasRow(t, p, k)
                     /\ (SharesKey(t, k))' <=> SharesKey(t, k)
    BY <1>4 DEF HasRow, SharesKey, Cataloged
  <2>3. \A t \in Branches, p \in Paths, k \in Contents :
          (Held(t, p, k))' <=> Held(t, p, k)
    BY <1>4, <2>1, <2>2, HeldFrame
  <2>4. StoredFits'
    BY <1>4, <2>1 DEF Stores, StoredFits
  <2>5. ListsFit'
    BY <1>4, <2>2 DEF Stores, ListsFit
  <2>6. QED
    BY <1>0, <2>1, <2>3, <2>4, <2>5, StoresKeep
<1>5. CASE Edited
  BY <1>4, <1>5 DEF Edited, ChangeFiles, tables, lists
<1>6. CASE UNCHANGED <<vars, storage>>
  BY <1>4, <1>6 DEF vars, tables, lists
<1>7. ASSUME NEW j \in Jobs, Dropped(j) PROVE FALSE
  BY <1>0, <1>7 DEF Dropped, Fail
<1>8. Closed => FALSE
  BY <1>0 DEF Closed, Crash
<1>9. QED
  BY <1>1, <1>2, <1>3, <1>5, <1>6, <1>7, <1>8 DEF ChunkNext

\* Until the first fault or failed INSERT, the tables hold the chunks of the
\* versions in the catalog, with the operations that are under way.
LEMMA StoresHold ==
  ASSUME Serial, Still, Buffers = {}, Apart, IsFiniteSet(Branches)
  PROVE  ChunkSpec => [](Sound => Stores)
<1> DEFINE Inv == Sound => Stores
           Given == /\ TypeOK /\ StorageTypeOK /\ TagsFit
                    /\ faults = 0 => Tables /\ KeysAreOwn /\ CacheFits
<1>1. ChunkInit => Inv
  <2> SUFFICES ASSUME ChunkInit PROVE Stores
    OBVIOUS
  <2>1. /\ catalog = {} /\ chunks = {} /\ chunkTags = {}
        /\ \A j \in Jobs : stored[j] = {} /\ victim[j] = {} /\ todo[j] = {} /\ hash[j] = Nothing
    BY DEF ChunkInit, Init
  <2>2. \A t, p, k : ~Held(t, p, k)
    BY <2>1 DEF Held, HasRow, Storing
  <2>3. QED
    BY <2>1, <2>2 DEF Stores, StoredFits, HashIsDisk, ListsFit, ChunkKeysOwn, Covered,
                      OnlyHeld, Nothing
<1>2. Given /\ Inv /\ [ChunkNext]_<<vars, storage>> => Inv'
  BY StoresStep, SoundBefore DEF Sound
<1>3. Spec => []TypeOK
  BY TypeCorrect
<1>4. Spec => [](faults = 0 => KeysAreOwn)
  BY KeysAreOwnHolds
<1>5. Spec => [](faults = 0 => Tables /\ CacheFits /\ CacheMatchesCatalog)
  BY CacheMatchesCatalogHolds
<1>6. ChunkSpec => []TagsFit
  BY TagsFitHolds
<1>7. ChunkSpec => []Given
  BY <1>3, <1>4, <1>5, <1>6, ChunkIndexRefines, StorageTypeCorrect, PTL DEF ChunkSpec
<1>8. QED
  BY <1>1, <1>2, <1>7, PTL DEF ChunkSpec

\* After an undisturbed refresh the tables stand for the working tree.
LEMMA TreeHeld ==
  ASSUME TypeOK, Tables, Trees, Stores, NEW j \in Jobs, Undisturbed(j)
  PROVE  \A p \in Paths, k \in Contents : Held(tag[j], p, k) <=> disk[p] = k
<1>1. \A i \in Jobs : ~Active(i)
  BY DEF Trees, OneClean, Undisturbed, Active, Running
<1>2. \A i \in Jobs : stored[i] = {} /\ victim[i] = {}
  BY <1>1 DEF Stores, StoredFits, Tables, AtRest, Active, Running
<1>3. \A t, p, k : Held(t, p, k) <=> HasRow(t, p, k)
  BY <1>2 DEF Held, Storing, Dropping
<1>4. Synced(tag[j])
  BY DEF Trees, CleanFits, Undisturbed
<1> DEFINE Item2(p, k) == [path |-> p, key |-> k]
<1>5. /\ \A p, k : Item2(p, k).path = p /\ Item2(p, k).key = k
      /\ {Item2(r.path, r.key) : r \in {s \in catalog : s.tag = tag[j]}}
           = {Item2(p, disk[p]) : p \in {q \in Paths : disk[q] # None}}
  BY <1>4 DEF Synced
<1> HIDE DEF Item2
<1>6. ASSUME NEW p \in Paths, NEW k \in Contents, HasRow(tag[j], p, k) PROVE disk[p] = k
  <2>1. PICK r \in catalog : r.tag = tag[j] /\ r.path = p /\ r.key = k
    BY <1>6 DEF HasRow
  <2>2. PICK q \in Paths : Item2(p, k) = Item2(q, disk[q])
    BY <1>5, <2>1
  <2>3. QED
    BY <1>5, <2>2
<1>7. ASSUME NEW p \in Paths, NEW k \in Contents, disk[p] = k PROVE HasRow(tag[j], p, k)
  <2>1. disk[p] # None
    BY <1>7, DataAssumption
  <2>2. PICK r \in catalog : r.tag = tag[j] /\ Item2(r.path, r.key) = Item2(p, disk[p])
    BY <1>5, <2>1
  <2>3. QED
    BY <1>5, <1>7, <2>2 DEF HasRow
<1>8. QED
  BY <1>3, <1>6, <1>7

\* What is wanted of a version that is whole is found.
LEMMA WantedIsFound ==
  ASSUME TypeOK, Tables, Trees, Stores, NEW j \in Jobs, Undisturbed(j),
         NEW w \in Wanted, Whole(w.key)
  PROVE  w \in {Place(c) : c \in Found(tag[j])}
<1>1. PICK p \in Paths : /\ disk[p] # None
                         /\ \E i \in 1..ChunksOf[disk[p]] :
                              w = [path |-> p, key |-> disk[p], idx |-> i]
  BY DEF Wanted
<1>2. PICK i \in 1..ChunksOf[disk[p]] : w = [path |-> p, key |-> disk[p], idx |-> i]
  BY <1>1
<1>3. disk[p] \in Contents /\ tag[j] \in Branches /\ Covered
  BY <1>1 DEF TypeOK, Stores
<1>4. Held(tag[j], p, disk[p])
  BY <1>3, TreeHeld
<1>5. Whole(disk[p])
  BY <1>2
<1>6. PICK c \in chunks : /\ c.path = p /\ c.key = disk[p] /\ c.idx = i
                          /\ [chunk |-> c, tag |-> tag[j]] \in chunkTags
  BY <1>2, <1>3, <1>4, <1>5, CoveredHas
<1>7. c \in Found(tag[j]) /\ Place(c) = w
  BY <1>2, <1>6 DEF Found, Place
<1>8. QED
  BY <1>7

\* A refresh that nothing disturbed leaves the chunk of every file that is one
\* chunk under its tag, however many the others have, if files change between
\* refreshes only.
THEOREM FindsSinglesHolds ==
  ASSUME Serial, Still, Buffers = {}, Apart, IsFiniteSet(Branches)
  PROVE  ChunkSpec => []FindsSingles
<1>1. TypeOK /\ (faults = 0 => Tables /\ Trees) /\ (Sound => Stores) => FindsSingles
  BY WantedIsFound DEF FindsSingles, Undisturbed, Whole, Sound
<1>2. Spec => [](faults = 0 => Tables /\ Trees)
  BY TreesHold
<1>3. ChunkSpec => [](Sound => Stores)
  BY StoresHold
<1>4. QED
  BY <1>1, <1>2, <1>3, ChunkIndexRefines, TypeCorrect, PTL

\* If no content has more than one chunk, or there is a single branch, it leaves
\* the chunks of all files under its tag.
THEOREM FindsTreeHolds ==
  ASSUME Serial, Still, Buffers = {}, Apart, IsFiniteSet(Branches),
         \A k \in Contents : Whole(k)
  PROVE  ChunkSpec => []FindsTree
<1>1. TypeOK /\ (faults = 0 => Tables /\ Trees) /\ (Sound => Stores) => FindsTree
  <2> SUFFICES ASSUME TypeOK, Tables, Trees, Stores, NEW j \in Jobs, Undisturbed(j),
                      NEW w \in Wanted
               PROVE  w \in {Place(c) : c \in Found(tag[j])}
    BY DEF FindsTree, Undisturbed, Sound
  <2>1. w.key \in Contents
    BY DEF Wanted, TypeOK
  <2>2. QED
    BY <2>1, WantedIsFound
<1>2. Spec => [](faults = 0 => Tables /\ Trees)
  BY TreesHold
<1>3. ChunkSpec => [](Sound => Stores)
  BY StoresHold
<1>4. QED
  BY <1>1, <1>2, <1>3, ChunkIndexRefines, TypeCorrect, PTL

\* It leaves nothing else of a content of one chunk under the tag, and nothing
\* of it twice, whatever the longer ones leave behind.
THEOREM FindsOnlyTreeHolds ==
  ASSUME Serial, Still, Buffers = {}, Apart, IsFiniteSet(Branches)
  PROVE  ChunkSpec => []FindsOnlyTree
<1>1. TypeOK /\ StorageTypeOK /\ (faults = 0 => Tables /\ Trees) /\ (Sound => Stores)
        => FindsOnlyTree
  <2> SUFFICES ASSUME TypeOK, StorageTypeOK, Tables, Trees, Stores, NEW j \in Jobs,
                      Undisturbed(j), NEW c \in Found(tag[j]), Single(c.key)
               PROVE  /\ Place(c) \in Wanted
                      /\ \A d \in Found(tag[j]) : Place(c) = Place(d) => c = d
    BY DEF FindsOnlyTree, Undisturbed, Sound
  <2>1. OnlyHeld /\ chunks \subseteq ChunkRow
    BY DEF Stores, StorageTypeOK
  <2>2. Place(c) \in Wanted
    <3> DEFINE r == [chunk |-> c, tag |-> tag[j]]
    <3>1. r \in chunkTags /\ r.chunk = c /\ r.tag = tag[j] /\ c \in chunks
      BY DEF Found
    <3> HIDE DEF r
    <3>2. Held(tag[j], c.path, c.key) /\ c.idx \in 1..ChunksOf[c.key]
      BY <2>1, <3>1 DEF OnlyHeld
    <3>3. c.path \in Paths /\ c.key \in Contents
      BY <2>1, <3>1 DEF ChunkRow
    <3>4. disk[c.path] = c.key /\ disk[c.path] # None
      BY <3>2, <3>3, TreeHeld, DataAssumption
    <3>5. QED
      BY <3>2, <3>3, <3>4 DEF Wanted, Place
  <2>3. ASSUME NEW d \in Found(tag[j]), Place(c) = Place(d)
        PROVE  c = d
    <3>1. c \in chunks /\ d \in chunks /\ c.key = d.key
      BY <2>3 DEF Found, Place
    <3>2. QED
      BY <2>1, <3>1 DEF OnlyHeld
  <2>4. QED
    BY <2>2, <2>3
<1>2. Spec => [](faults = 0 => Tables /\ Trees)
  BY TreesHold
<1>3. ChunkSpec => [](Sound => Stores)
  BY StoresHold
<1>4. QED
  BY <1>1, <1>2, <1>3, ChunkIndexRefines, TypeCorrect, StorageTypeCorrect, PTL

\* While no refresh of a branch is under way it loses no chunk of a content of
\* one chunk.
THEOREM OtherBranchesKeepHolds ==
  ASSUME Serial, Still, Buffers = {}, Apart, IsFiniteSet(Branches)
  PROVE  ChunkSpec => OtherBranchesKeep
<1> DEFINE Keep == \A t \in Branches :
                     (faults = 0 /\ ~insertsFailed /\ \A j \in Jobs : Active(j) => tag[j] # t) =>
                       \A c \in Found(t) : Single(c.key) => c \in Found(t)'
           Given == TypeOK /\ StorageTypeOK /\ (faults = 0 => Tables) /\ (Sound => Stores)
<1>1. Given /\ [ChunkNext]_<<vars, storage>> => Keep
  <2> SUFFICES ASSUME TypeOK, StorageTypeOK, Tables, Stores, [ChunkNext]_<<vars, storage>>,
                      NEW t \in Branches, \A j \in Jobs : Active(j) => tag[j] # t,
                      NEW c \in Found(t), Single(c.key)
               PROVE  c \in Found(t)'
    BY DEF Sound
  <2> USE DEF storage
  <2> DEFINE r == [chunk |-> c, tag |-> t]
  <2>0. r \in chunkTags /\ r.chunk = c /\ r.tag = t /\ c \in chunks
    BY DEF Found
  <2>f. r \in chunkTags' /\ c \in chunks' => c \in Found(t)'
    BY DEF Found
  <2> HIDE DEF r
  <2>1. ASSUME chunks \subseteq chunks', chunkTags \subseteq chunkTags' PROVE c \in Found(t)'
    BY <2>0, <2>f, <2>1
  <2>2. ASSUME NEW j \in Jobs, StoreComputed(j) PROVE c \in Found(t)'
    BY <2>1, <2>2 DEF StoreComputed, AllInserted, SomeInserted
  <2>3. ASSUME NEW j \in Jobs, NEW op \in todo[j], StoreTag(j, op) PROVE c \in Found(t)'
    BY <2>1, <2>3 DEF StoreTag
  <2>4. ASSUME NEW j \in Jobs, NEW op \in todo[j], DropTag(j, op) PROVE c \in Found(t)'
    <3>1. \A x \in OldTags(j, op) : x.tag = tag[j]
      BY DEF OldTags, Under
    <3>2. tag[j] # t
      BY <2>4 DEF DropTag, IsNext, Active, Running
    <3>3. QED
      BY <2>0, <2>f, <2>4, <3>1, <3>2 DEF DropTag
  <2>5. ASSUME NEW j \in Jobs, NEW op \in todo[j], FindChunk(j, op) PROVE c \in Found(t)'
    BY <2>1, <2>5 DEF FindChunk
  <2>6. ASSUME NEW j \in Jobs, DropChunk(j) PROVE c \in Found(t)'
    <3>1. PICK v \in victim[j] : v.row \in chunks /\ chunks' = chunks \ {v.row}
      BY <2>6 DEF DropChunk
    <3>2. chunkTags' = chunkTags
      BY <2>6 DEF DropChunk
    <3>3. /\ v.op \in todo[j] /\ v.op.list = "del" /\ v.row.key = v.op.key
          /\ stored[j] = {} /\ victim[j] = {v} /\ StoredFits /\ ListsFit
      BY DEF Stores, StoredFits
    <3>4. Active(j)
      BY <3>3, RestStores DEF Active, Running
    <3>5. tag[j] # t /\ \A k \in Jobs : stored[k] = {}
      BY <3>3, <3>4, OneStores
    <3>6. ~SharesKey(tag[j], v.op.key)
      BY <3>3 DEF ListsFit
    <3>7. HasRow(t, c.path, c.key)
      BY <2>0, <3>5 DEF Stores, OnlyHeld, Held, Storing
    <3>8. Cataloged(t, c.key)
      BY <3>7 DEF HasRow, Cataloged
    <3>9. c # v.row
      BY <3>3, <3>5, <3>6, <3>8 DEF SharesKey
    <3>10. QED
      BY <2>0, <2>f, <3>1, <3>2, <3>9
  <2>7. ASSUME NEW j \in Jobs, DropTags(j) PROVE c \in Found(t)'
    <3>1. PICK v \in victim[j] : v.row \notin chunks /\ chunkTags' = OtherTags(v.row)
      BY <2>7 DEF DropTags
    <3>2. chunks' = chunks
      BY <2>7 DEF DropTags
    <3>3. QED
      BY <2>0, <2>f, <3>1, <3>2 DEF OtherTags
  <2>8. ASSUME UNCHANGED <<chunks, chunkTags>> PROVE c \in Found(t)'
    BY <2>1, <2>8
  <2>9. QED
    BY <2>2, <2>3, <2>4, <2>5, <2>6, <2>7, <2>8
       DEF ChunkNext, Plain, Store, MarkStored, Dropped, Closed, Edited
<1>2. Spec => [](faults = 0 => Tables)
  BY OneVersionHolds
<1>3. ChunkSpec => [](Sound => Stores)
  BY StoresHold
<1>4. Given /\ [ChunkNext]_<<vars, storage>> => [Keep]_<<vars, storage>>
  BY <1>1
<1>5. ChunkSpec => []Given
  BY <1>2, <1>3, ChunkIndexRefines, TypeCorrect, StorageTypeCorrect, PTL
<1> HIDE DEF Keep, Given
<1>6. ChunkSpec => [][Keep]_<<vars, storage>>
  BY <1>4, <1>5, PTL DEF ChunkSpec
<1>7. QED
  BY <1>6 DEF Keep, OtherBranchesKeep
=============================================================================
