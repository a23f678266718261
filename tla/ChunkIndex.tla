------------------------------ MODULE ChunkIndex ------------------------------
(***************************************************************************)
(* The chunk index (core/indexing/chunk/ChunkCodebaseIndex.ts) processing  *)
(* the lists that RefreshIndex draws up: what the tables chunks and        *)
(* chunk_tags hold before each operation is marked in the catalog.         *)
(*                                                                         *)
(* A chunk is identified by its file, cache key, index and by the order in *)
(* which equal ones were inserted (they have different row ids).  Its text *)
(* is left out, but how many chunks are inserted depends on the content    *)
(* that is read again at that time.  No remote cache is connected, and     *)
(* SQLite does not enforce the foreign key of chunk_tags (its default).    *)
(***************************************************************************)
EXTENDS RefreshIndex, FiniteSetsExt

CONSTANTS ChunksOf,   \* number of chunks a content is cut into
          Still       \* whether files change only between refreshes

ASSUME ChunksAssumption ==
  /\ ChunksOf \in [Contents \cup {None} -> Nat] /\ ChunksOf[None] = 0
  /\ Still \in BOOLEAN

VARIABLES
  chunks,       \* rows of the table chunks
  chunkTags,    \* rows of chunk_tags: chunks and the tags they are under
  stored,       \* operations stored by each run and not yet marked
  victim,       \* the operation del of each run that has found a chunk to delete
  insertsFailed \* whether an INSERT of chunks has failed, and nobody noticed

storage == <<chunks, chunkTags, stored, victim, insertsFailed>>

ChunkRow == [path : Paths, key : Contents, idx : Nat, copy : Nat]

StorageTypeOK ==
  /\ chunks \subseteq ChunkRow
  /\ chunkTags \subseteq [chunk : ChunkRow, tag : Branches]
  /\ stored \in [Jobs -> SUBSET Op]
  /\ victim \in [Jobs -> SUBSET [op : Op, row : ChunkRow]]
  /\ insertsFailed \in BOOLEAN

ChunkInit ==
  /\ Init
  /\ chunks = {} /\ chunkTags = {}
  /\ stored = [j \in Jobs |-> {}]
  /\ victim = [j \in Jobs |-> {}]
  /\ insertsFailed = FALSE

-----------------------------------------------------------------------------
(***************************************************************************)
(* The statements of update                                                *)
(***************************************************************************)
OfKey(key) == {c \in chunks : c.key = key}
UnderSwapped(t, Rows) == {[chunk |-> t, tag |-> c] : c \in Rows}
Under(t, Rows) == {[chunk |-> c, tag |-> t] : c \in Rows}

\* The next row for a chunk: the table has no unique index, and the number of a
\* row that is gone is not given again (AUTOINCREMENT).
UsedRows == chunks \cup {r.chunk : r \in chunkTags}
                   \cup UNION {{v.row : v \in victim[j]} : j \in Jobs}
Copies(op, i) ==
  {c.copy : c \in {d \in UsedRows : d.path = op.path /\ d.key = op.key /\ d.idx = i}}

CutInto(op, content) ==
  {[path |-> op.path, key |-> op.key, idx |-> i, copy |-> Max(Copies(op, i) \cup {0}) + 1] :
     i \in 1..ChunksOf[content]}

\* Chunks an operation addTag puts under the tag of run j: INSERT ... SELECT
\* does nothing if one of them is there, and the error is swallowed.
NoNewTags(j, op) == {}
NewTags(j, op) ==
  LET new == Under(tag[j], OfKey(op.key))
  IN  IF new \cap chunkTags = {} THEN new ELSE {}

\* Chunks an operation removeTag takes from the tag.
OldTagsOfKey(j, op) == {r \in chunkTags : r.chunk.key = op.key}
OldTags(j, op) ==
  Under(tag[j], {c \in OfKey(op.key) : c.path = op.path})

\* The chunk an operation del deletes is the first row with that key.
NoChunk(op) == {}
ChunksToDelete(op) == OfKey(op.key)

\* The rows of chunk_tags that stay when it goes.
AllTags(row) == chunkTags
OtherTags(row) == {r \in chunkTags : r.chunk # row}

-----------------------------------------------------------------------------
IsNext(j, op) ==
  /\ pc[j] = "update"
  /\ op \in todo[j] \ stored[j]
  /\ uncached[j] = {} /\ stored[j] = {} /\ victim[j] = {}
  /\ \A o \in todo[j] : Order[op.list] <= Order[o.list]

Computed(j) == {op \in todo[j] : op.list = "compute"}

\* MaxFaults bounds the failed INSERTs too.
MayFail == faults + (IF insertsFailed THEN 1 ELSE 0) < MaxFaults

\* Every statement of insertChunks comes through.
AllInserted(j, new) ==
  /\ chunks' = chunks \cup new
  /\ chunkTags' = chunkTags \cup Under(tag[j], new)
  /\ UNCHANGED insertsFailed

\* Some INSERTs fail: their callbacks take the error for the result, and the rest
\* is committed.  The tag of a chunk that was not inserted goes to the row that
\* last_insert_rowid() names, which may be that of any chunk or of none.
SomeInserted(j, new) ==
  /\ MayFail
  /\ \E kept \in SUBSET new : \E tagged \in SUBSET (chunks \cup kept) :
       /\ Cardinality(tagged \ kept) <= Cardinality(new \ kept)
       /\ kept # new \/ tagged # new
       /\ chunks' = chunks \cup kept
       /\ chunkTags' = chunkTags \cup Under(tag[j], tagged)
  /\ insertsFailed' = TRUE

\* computeChunks reads all the files again, insertChunks is one transaction.
StoreComputed(j) ==
  /\ \E op \in todo[j] : op.list = "compute" /\ IsNext(j, op)
  /\ \E text \in [Paths -> Contents \cup {None}] :
       /\ \A p \in Paths : text[p] \in Readable(p)
       /\ LET new == UNION {CutInto(op, text[op.path]) : op \in Computed(j)}
          IN  AllInserted(j, new) \/ SomeInserted(j, new)
  /\ stored' = [stored EXCEPT ![j] = Computed(j)]
  /\ UNCHANGED <<vars, victim>>

StoreTag(j, op) ==
  /\ op.list = "addTag" /\ IsNext(j, op)
  /\ chunkTags' = chunkTags \cup NewTags(j, op)
  /\ stored' = [stored EXCEPT ![j] = {op}]
  /\ UNCHANGED <<vars, chunks, victim, insertsFailed>>

DropTag(j, op) ==
  /\ op.list = "removeTag" /\ IsNext(j, op)
  /\ chunkTags' = chunkTags \ OldTags(j, op)
  /\ stored' = [stored EXCEPT ![j] = {op}]
  /\ UNCHANGED <<vars, chunks, victim, insertsFailed>>

\* SELECT id FROM chunks WHERE cacheKey = ?
FindChunk(j, op) ==
  /\ op.list = "del" /\ IsNext(j, op)
  /\ \/ /\ ChunksToDelete(op) = {}
        /\ stored' = [stored EXCEPT ![j] = {op}]
        /\ UNCHANGED victim
     \/ /\ \E row \in ChunksToDelete(op) :
             victim' = [victim EXCEPT ![j] = {[op |-> op, row |-> row]}]
        /\ UNCHANGED stored
  /\ UNCHANGED <<vars, chunks, chunkTags, insertsFailed>>

\* DELETE FROM chunks WHERE id = ?
DropChunk(j) ==
  /\ \E v \in victim[j] : v.row \in chunks /\ chunks' = chunks \ {v.row}
  /\ UNCHANGED <<vars, chunkTags, stored, victim, insertsFailed>>

\* DELETE FROM chunk_tags WHERE chunkId = ?
DropTags(j) ==
  /\ \E v \in victim[j] :
       /\ v.row \notin chunks
       /\ chunkTags' = OtherTags(v.row)
       /\ stored' = [stored EXCEPT ![j] = {v.op}]
  /\ victim' = [victim EXCEPT ![j] = {}]
  /\ UNCHANGED <<vars, chunks, insertsFailed>>

Store(j) ==
  \/ StoreComputed(j)
  \/ \E op \in todo[j] : StoreTag(j, op) \/ DropTag(j, op) \/ FindChunk(j, op)
  \/ DropChunk(j) \/ DropTags(j)

\* markComplete comes after the statements of the operation.
MarkStored(j, op) ==
  /\ op \in stored[j]
  /\ Mark(j, op)
  /\ stored' = [stored EXCEPT ![j] = @ \ {op}]
  /\ UNCHANGED <<chunks, chunkTags, victim, insertsFailed>>

\* The steps of a run that touch no chunk.
Plain(j) ==
  /\ \/ Start(j) \/ Stat(j) \/ Stamp(j) \/ ReadSaved(j)
     \/ \E p \in Paths : ReadFile(j, p)
     \/ Plan(j) \/ UpdateCache(j) \/ Touch(j) \/ Finish(j)
  /\ UNCHANGED storage

Dropped(j) ==
  /\ MayFail /\ Fail(j)
  /\ stored' = [stored EXCEPT ![j] = {}]
  /\ victim' = [victim EXCEPT ![j] = {}]
  /\ UNCHANGED <<chunks, chunkTags, insertsFailed>>

Closed ==
  /\ MayFail /\ Crash
  /\ stored' = [j \in Jobs |-> {}]
  /\ victim' = [j \in Jobs |-> {}]
  /\ UNCHANGED <<chunks, chunkTags, insertsFailed>>

Edited ==
  /\ Still => Quiet
  /\ \E b \in Branches, new \in [Paths -> Contents \cup {None}],
       written \in SUBSET Paths : ChangeFiles(b, new, written)
  /\ UNCHANGED storage

ChunkNext ==
  \/ \E j \in Jobs :
       \/ Plain(j) \/ Store(j) \/ Dropped(j)
       \/ \E op \in todo[j] : MarkStored(j, op)
  \/ Closed \/ Edited

ChunkSpec == ChunkInit /\ [][ChunkNext]_<<vars, storage>>

-----------------------------------------------------------------------------
(***************************************************************************)
(* Properties                                                              *)
(***************************************************************************)
\* What a query on tag t finds.
Found(t) == {c \in chunks : [chunk |-> c, tag |-> t] \in chunkTags}

Place(c) == [path |-> c.path, key |-> c.key, idx |-> c.idx]

\* The chunks of the working tree.
Wanted ==
  UNION {{[path |-> p, key |-> disk[p], idx |-> i] : i \in 1..ChunksOf[disk[p]]} :
           p \in {q \in Paths : disk[q] # None}}

Undisturbed(j) ==
  pc[j] = "done" /\ clean[j] /\ Scope[j] = None /\ faults = 0 /\ ~insertsFailed

\* A refresh that nothing disturbed leaves every chunk of the working tree
\* under its tag: what the catalog calls indexed can be found.
FindsTree ==
  \A j \in Jobs : Undisturbed(j) => Wanted \subseteq {Place(c) : c \in Found(tag[j])}

\* del deletes one chunk of a key, which is all of it for these contents only.
Single(key) == ChunksOf[key] <= 1

\* The same of files that are one chunk, whatever the longer ones leave behind.
FindsSingles ==
  \A j \in Jobs : Undisturbed(j) =>
    {w \in Wanted : Single(w.key)} \subseteq {Place(c) : c \in Found(tag[j])}

\* It also leaves nothing else of such contents under the tag, and nothing
\* twice.  Of a longer content it may leave all chunks but one.
FindsOnlyTree ==
  \A j \in Jobs : Undisturbed(j) =>
    \A c \in Found(tag[j]) : Single(c.key) =>
      /\ Place(c) \in Wanted
      /\ \A d \in Found(tag[j]) : Place(c) = Place(d) => c = d

\* While no refresh of a branch is under way it loses no such chunk, whatever
\* the refreshes of the other branches compute, tag, untag and delete.
OtherBranchesKeep ==
  [][\A t \in Branches :
       (faults = 0 /\ ~insertsFailed /\ \A j \in Jobs : Active(j) => tag[j] # t) =>
         \A c \in Found(t) : Single(c.key) => c \in Found(t)']_<<vars, storage>>

\* A row of chunk_tags outlives its chunk only until the operation del that is
\* under way deletes it too; only a fault or a failed INSERT leaves one behind.
TagsHaveChunks ==
  (faults = 0 /\ ~insertsFailed) =>
    \A r \in chunkTags :
      r.chunk \in chunks \/ \E j \in Jobs : \E v \in victim[j] : v.row = r.chunk
=============================================================================
