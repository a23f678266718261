# TLA+ models of second-ev-plug

`second-ev-plug` is a fork of the Continue coding assistant that is locked to an
internal LLM endpoint.  Nearly all of its own logic is the TypeScript core in
`src/continue/core`, a process that runs once per editor window and is driven
by messages from the editor and from a web view, and the redux store of that
view in `src/continue/gui`.  This directory holds TLA+ specifications of the parts
of both where many things happen at once, the TLC configurations that check them
on small instances, and TLAPS proofs of the theorems that matter most.

Paths below are relative to `src/continue/core` unless they start with `src/`.

## The system

### Codebase indexing

The largest stateful part of the core.  One refresh goes through these layers:

    core.ts                    startup, config changes, saved and deleted files, pause
      -> CodebaseIndexer.ts    one refresh at a time per window: abort controllers,
                               pause token, progress status
        -> IndexLock           one refresh at a time per machine: a row of a SQLite table
        -> refreshIndex.ts     what to do with each file: the tag catalog, the global
                               cache, and the lists compute / addTag / removeTag / del
          -> the indexes       chunks, full-text search, LanceDB, code snippets: each
                               processes the lists and marks every operation complete

| component | state | operations | what is hard | what makes it correct |
|---|---|---|---|---|
| Refresh coordination (`indexing/CodebaseIndexer.ts`) | `indexingCancellationController`, `pauseToken`, `codebaseIndexingState` | `refreshCodebaseIndex`, `refreshCodebaseIndexFiles`, `refreshDirs`, `refreshFiles`, `clearIndexes` | calls overlap at every `await`, abort signals are polled, the window may close | only one refresh is current; the ones it replaces stop; a window where nothing runs says so and accepts work |
| Index lock (`IndexLock`, `waitForDBIndex`) | table `indexing_lock` | poll, lock, renew every 5 s, unlock, take over after 10 s | read and insert are separate awaits; nobody waits for a renewal, which may be late, overtaken or lost; a closed window leaves its row | an owner that has renewed the row in the last seconds is never declared dead; nobody waits for ever |
| Refresh planning (`indexing/refreshIndex.ts`) | tables `tag_catalog`, `global_cache` | `getComputeDeleteAddRemove`, `markComplete`, `GlobalCacheCodeBaseIndex.update` | files change while they are read; two refreshes of one tag; crashes between lists | the catalog never claims a version a file does not have; what is shared is not deleted |
| Chunk index (`indexing/chunk/ChunkCodebaseIndex.ts`) | tables `chunks`, `chunk_tags` | `update`: insert, tag, untag, delete | chunks are shared by branches; statements fail as a whole, or in part and unnoticed; rows are deleted one at a time | what the catalog calls indexed can be found, under the right branch |
| Full-text, LanceDB, snippets (`FullTextSearchCodebaseIndex.ts`, `LanceDbIndex.ts`, `CodeSnippetsIndex.ts`) | one table or vector store each | `update`, `retrieve` | each reads what another wrote, in a different order of lists | as for chunks |
| Walk and ignore rules (`walkDir.ts`, `ignore.ts`) | a cache of ignore files with a time limit | `walkDirAsync`, `shouldIgnore` | nested ignore files, a stale cache | a file is indexed if and only if no rule excludes it |
| Documentation (`docs/DocsService.ts`) | tables of pages, a map of statuses, a queue | add, reindex, delete, sync with the config | overlapping jobs for one site | a finished site is searchable, a deleted one is not |

### Autocomplete and next edit

| component | state | operations | what is hard | what makes it correct |
|---|---|---|---|---|
| Completion provider (`autocomplete/CompletionProvider.ts`, `util/AutocompleteDebouncer.ts`) | timer and id of the debouncer, abort controllers | `provideInlineCompletionItems`, `cancel` | requests overlap at every keystroke | the request that is not replaced is answered |
| Streaming and reuse (`generation/*.ts`, `filtering/streamTransforms`) | current generator, its prefix and what it has produced; listeners | `getGenerator`, `tee`, `cancel`, full stop | one LLM stream feeds several requests | a suggestion continues what the user has typed; streams end |
| Cache (`util/AutocompleteLruCache.ts`) | map, dirty keys, SQLite table | `get`, `put`, `flush`, `close` | flush in the middle of other calls, eviction | bounded, and what is clean is on disk |
| Outcome log (`util/AutocompleteLoggingService.ts`) | outcomes, rejection timers | `markDisplayed`, `accept`, `cancel` | accepting races the timer | one outcome per suggestion |
| Next edit (`nextEdit/*`) | chain of edits, prefetch queue, timers | start, accept, reject, prefetch | the document changes under the chain | an edit offered applies to the text it was made for |

### Chat and configuration

| component | state | operations | what is hard | what makes it correct |
|---|---|---|---|---|
| Conversation (`src/continue/gui/src/redux`) | `history`, `isStreaming`, `streamAborter`, the status of each tool call | `streamNormalInput`, `callToolById`, `streamResponseAfterToolCall`, `cancelStream`, `cancelToolCallThunk`, the apply state of edits | a thunk awaits at every stage while the user approves, rejects, stops and types; several calls end in any order | a tool runs once and only as allowed; its result reaches the model exactly once; the view never streams for ever |
| Configuration (`config/ConfigHandler.ts`, `ProfileLifecycleManager.ts`) | organisations with their profiles and the text read of each, the current ones, `savedConfigResult` of each, `cascadeAbortController`; selections in the global context | `cascadeInit`, `setSelectedOrgId`, `setSelectedProfileId`, `reloadConfig`, `updateIdeSettings`, `updateControlPlaneSessionInfo` | cascades, selections and reloads overlap at every request | the organisations and the configuration in use are those of the last session, selection and edit; waiting for the first configuration ends |

### The rest

Protocol messengers (`protocol/`, `src/continue/binary`), MCP connections
(`context/mcp`), LLM clients (`llm/`), edits and diffs (`edit/`, `diff/`), tools
(`tools/`), files under `~/.continue` (`util/`), the VS Code extension and the IntelliJ plugin
(`src/continue/extensions`), packages (`src/continue/packages`), deployment
(`src/gateway`, `src/docker-compose.yml`).  `PROJECT.json` lists each with its
status and the reason.

## The modules

| module | models | what it is |
|---|---|---|
| `CodebaseIndexer` | `CodebaseIndexer.ts`, `IndexLock` in `refreshIndex.ts` | refreshes that replace each other in a window, and the lock between windows |
| `RefreshIndex` | `refreshIndex.ts`, and its callers in `CodebaseIndexer.ts` | planning and marking, for one artifact and one directory |
| `ChunkIndex` | `chunk/ChunkCodebaseIndex.ts` | the storage of one artifact; extends `RefreshIndex` and refines its steps |
| `CompletionProvider` | `CompletionProvider.ts`, `AutocompleteDebouncer.ts`, `CompletionStreamer.ts`, `GeneratorReuseManager.ts`, `ListenableGenerator.ts`, `AutocompleteLoggingService.ts` | autocomplete requests that overlap and share one stream |
| `DurableMap` | the comments of `AutocompleteLruCache.ts` | abstract: clients that share a map in memory-first fashion, what they save and what they may lose |
| `AutocompleteLruCache` | `AutocompleteLruCache.ts` | the cache of completions of every window over one SQLite file; implements `DurableMap` |
| `ToolCalls` | `streamNormalInput.ts`, `streamResponse.ts`, `callToolById.ts`, `streamResponseAfterToolCall.ts`, `sessionSlice.ts` and their callers in the view | the streams of a conversation and the life of its tool calls |
| `ConfigHandler` | `ConfigHandler.ts`, `ProfileLifecycleManager.ts` | organisations, profiles and reloads |
| `MCServices` | | the last three as one instance: each behaviour is about one of them |
| `MC*` | | values of the constants for TLC |
| `*_proofs` | | theorems and their proofs, one module per component; `RefreshIndexSerial_proofs` extends `RefreshIndex_proofs` for refreshes in sequence, and `ChunkIndex_proofs` extends it in turn |

`PROJECT.json` names, for every definition, the lines it was translated from.

### What an action is

The core and the web view are single-threaded event loops: between two `await`s nothing else of
the same window runs.  An action is therefore the code from one `await` to the
next, with everything it assigns on the way.  Different windows are different
processes; they meet only in the SQLite files, where one statement is atomic, and
the modules have an action boundary at every statement on a shared table.

### CodebaseIndexer

A *call* is one invocation of `refreshCodebaseIndex` (`DirCalls`) or
`refreshCodebaseIndexFiles` (`FileCalls`), in the window `WindowOf` gives.

| state | in the code |
|---|---|
| `lockRows` | the rows of `indexing_lock`, each as the age of its timestamp |
| `renewals` | the `UPDATE`s of the `setInterval` of a call that have not ended, each as the age of the time it writes |
| `lastStamp` | the age of the last time that a call has put, or is putting, into a row; read by the properties only |
| `controller`, `aborted` | `indexingCancellationController` of each window, and whether the controller a call created is aborted |
| `paused`, `shown` | `pauseToken.paused` and `codebaseIndexingState.status` |
| `silent` | nothing: whether the last refresh that left off in a window gave no update when it did, for `QuietShowsResult` |
| `lateWrites`, `neverBegan` | nothing: what a call did after it was aborted, for `SupersededStops` |

`StartDir` aborts the controller of the window and installs a new one; `Poll`,
`StaleUnlock` and `Lock` are the turns of `waitForDBIndex` and the row that `lock`
inserts; `Begin` to `Write` are the loops of `refreshDirs` with its early returns,
its checks of the abort signal and its pauses; `Fail` is its `catch`; `Unlock` is the
end of `refreshCodebaseIndex`.  `DbError` is an error of a statement outside that
`try`, after which nothing is cleaned up.  `Crash` is a window that closes.  What is
written to the indexes is abstracted to the fact that something is.

The interval of a refresh calls `updateTimestamp` and waits for nothing, so
`Heartbeat`, which takes the time, is one action and the `UPDATE` another: `Renew`, which
gives every row that time, also when the refresh has ended meanwhile or a later time
has been written, or `RenewalFails`, whose error is lost.  An interval fires when it fires:
`Tick` lets time pass whether or not one is due.  It only stops for a statement on the
lock that has been under way for `MaxDelay`, the busy timeout of SQLite (3 s), after which
such a statement ends or fails.  A window that is alive and slow can therefore lose the lock, as in
the code.  What `StaleVerdictIsSound` says of the 10 s rule is that it cannot lose it
as long as one of its times has reached the table in the last `StaleAfter - MaxDelay`, which
is 7 s.

A refresh can end without a last update: with no configuration (`CodebaseIndexer.ts:352-354`),
or by an error outside the `try`.  The window then goes on showing that it waits or
loads, and `QuietShowsResult` says that this is the only case.

### RefreshIndex

A *run* is one pass of the planner over a directory, or over one file (`Scope`).
There is one artifact and one directory, so a tag is a branch.  The content of
a file is the text that `readFile` gives for it, and stands for its hash: for a file over
1 MB that is the empty text, and otherwise at most the first 100 KB (`VsCodeIde.ts:393-403`).

| state | in the code |
|---|---|
| `disk`, `mtime`, `head`, `now` | the working tree, the modification times, the branch, the clock |
| `catalog`, `cache` | the tables `tag_catalog` and `global_cache` |
| `stats`, `stamp`, `saved`, `hash` | what a run has read so far, in this order, each read at a different moment |
| `todo`, `uncached`, `touched` | the four lists and `lastUpdated`; what is marked in the catalog and not yet in the cache |
| `faults`, `clean` | nothing: the count of faults, and whether anything disturbed a run |

`Start` to `ReadFile` are the awaits of `getAddRemoveForTag` and its callers, `Plan`
is the rest of it and the classification by the global cache, `Mark`,
`UpdateCache` and `Touch` are `markComplete`.  `ChangeFiles` edits, creates and
deletes any number of files, or checks out a branch; `Fail` is an index that throws;
`Crash` ends every run and keeps the tables.  A file that is written (`written`) gets a
new modification time, also when the text that is read of it stays the same.

Which content a run sees is `Readable`: the file, what the editor holds for a
file in `Buffers` (`readFile` of the VS Code extension prefers the text of an
open document), or `Missing` for a file that has gone.  In both editors `Missing` is the
empty text; with the file system of `core` itself, which throws, it is `None`.  The instances
of the passing runs take for it the one text of the second file.  Reading a file that has gone
counts as a fault, since the run goes on with a text that nobody wrote.  For a file with
unsaved changes the catalog may record a content under a time that belongs to
the file: when the changes are discarded it claims a version the file does not
have.  `NoFalseProgress` is therefore stated for the other files only; the hazard
is listed in `PROJECT.json`.

### ChunkIndex

It extends `RefreshIndex` with the tables `chunks` and `chunk_tags` and what each run
has stored but not marked (`stored`).  A step of the planner that touches no chunk
is `Plain`; an operation is split into the statements of `update` and the `markComplete` that
follows (`MarkStored`).  A `compute` is one transaction (`StoreComputed`), `addTag` and
`removeTag` are one statement each (`StoreTag`, `DropTag`), and a `del` is three with awaits
between them: `FindChunk` selects a row by its key and remembers it (`victim`), `DropChunk`
deletes it from `chunks` and `DropTags` from `chunk_tags`.  A chunk is its file, cache key and
index, and the number of its copy, because the table has no unique index.  Four
things of the code decide what the runs show:

- A `del` deletes the *one* chunk that the `SELECT` happens to return.  Of a file of several
  chunks the others stay, under the tag and found by every query, which is why no property
  says that such a file leaves nothing behind.  `FindsOnlyTree` and `OtherBranchesKeep` speak
  of the contents of one chunk (`Single`), in the company of longer ones.
- An `addTag` that meets a row it would duplicate inserts nothing at all.  After a `del`
  that left something, the rest is never tagged again: that is `ChunkIndex_tags`.
- The callbacks of `insertChunks` (`ChunkCodebaseIndex.ts:219-242`) take the error for the
  result.  When an `INSERT` fails the others are committed and the operation is marked
  (`SomeInserted`), and nothing but `insertsFailed` remembers it.  The properties are about what
  happens before that.
- SQLite does not enforce the foreign key of `chunk_tags`.  A fault between the two `DELETE`s
  of a `del` leaves a row without a chunk; `TagsHaveChunks` says that nothing else does.

### CompletionProvider

A *request* is one call of `provideInlineCompletionItems`.  The generator a request
creates has the name of the request.

| state | in the code |
|---|---|
| `latest`, `timer` | `currentRequestId` and `debounceTimeout` of the debouncer |
| `controllers`, `aborted` | the abort controllers in the logging service, and aborted signals |
| `current`, `pending` | `currentGenerator` and `pendingCompletion` of the reuse manager (`pendingGeneratorPrefix` is the prefix of the request that created it) |
| `buffer`, `isEnded`, `settled` | `_buffer` and `_isEnded` of each generator, and whether its `_start` has returned |
| `source`, `taken`, `typed`, `received` | per request: the generator it reads, its position in `tee`, `typedSinceLastGenerator`, and what has gone into the filters |

`Debounce` and `TimerFires` are the debouncer, with the promise it leaves unsettled
when a timer is cleared; `Begin` decides on reuse and replaces or keeps the
generator; `Abort` is the editor cancelling a request it has given a token
(`WithToken`), for which no controller is created; `Wait`, `DropTyped`, `Deliver` and `StopReading` are one turn of `tee` and of
the loop of `getGenerator`; `Push` and `Settle` are `_start`.  The filters are data, so
`Filter`, `Complete` and `FullStop` let them pass, end or stop a stream whenever the
code hands them something to decide on.

### AutocompleteLruCache and DurableMap

A *window* has its own map and the table is shared.

| state | in the code |
|---|---|
| `mem`, `dirty` | `cache` and `dirty` of each window |
| `table`, `draft` | the SQLite table, and the table as the open transaction of a window sees it |
| `flusher`, `calls`, `batch`, `written` | who flushes (the mutex), who waits for it, `dirtyKeys`, and those of them already written |
| `dbLock` | the window whose transaction has the write lock of the file |
| `life`, `timer` | whether the window has opened, is closing or has gone, and its flush timer |
| `stray` | nothing: keys whose change a rollback has dropped, or that another window has saved since |

`Lookup` and `Put` are `get` and `put`; `FlushStart`, `WriteRow`, `Commit` and `RollBack`
are the statements of a flush with the awaits between them; `BusyTimeout` is the
error SQLite answers after three seconds when another window holds the write lock;
`CloseCalled`, `Gone` and `CloseDatabase` are `close`.  `DurableMap` has only what each
client would read, what is stored, and what it has changed since: a client joins with
what is stored, changes its own view, saves all it has changed so far at once, may
lose what it was saving, and leaves.

### ToolCalls

A *stream* is one call of `streamNormalInput` (with the `streamResponse` around it,
if a message of the user starts it), a *call* one tool call of the model.

| state | in the code |
|---|---|
| `history`, `isStreaming`, `status` | the same in the session slice: a message keeps its role, whether it has text, and its calls |
| `epoch`, `signal` | how often `streamAborter` has been replaced; the one a stream has captured |
| `original`, `asked` | `originalToolCalls`; the calls that a stream awaits or has still to go through |
| `thread`, `kid`, `heir` | a running `callToolById`, the stream that it awaits, and the stream that the loop at the end of `streamNormalInput` awaits |
| `applying` | edits whose diff is open in the editor |
| `kind`, `verdict` | the tool of a call (edit, read-only, other) and the policy evaluated for it |
| `runs`, `autoRan`, `mishap` | nothing: how often a call has run, which ran without the user, whether anything was stopped or failed |

Each action is the code between two awaits: `AfterStream`, `Preprocessed` and
`PoliciesEvaluated` are steps 1 to 3 of the comments in `streamNormalInput`, `Execute` and
`RunCalls` step 4, `LoopStep` its last loop, `Throw` the handler of
`streamThunkWrapper`.  `Cleared` is `clearDanglingMessages` with its search for the last
answer that is worth keeping.

The user can do four things that the thunks do not guard against; each is a habit
in `setup`, and a behaviour has one or none:

- `keys`: the shortcuts of `LumpToolbar.tsx` approve or reject a pending call even
  while its stream is still evaluating the policy.  `RunsOnce` holds; a call that
  is rejected so never continues, and `RunsAsAllowed`, `OneLiveStream`, `NothingHangs`
  and `StreamSettles` fail.
- `early`: a stream is stopped while context is gathered for it.  It starts
  nonetheless (`streamResponse.ts:99` does not look at the signal).
- `hasty`: a message is sent while a stream that was stopped has not returned, or while
  an edit that the user has accepted is being applied.  The `setInactive` of the old thunk
  (`streamNormalInput.ts:371`, `callToolById.ts:168`), or the `cancelStream` after its
  error, stops the new one.  With either of the last two `RunsAsAllowed`, `OneLiveStream`
  and `StreamSettles` fail.
- `goOn` is the setting `continueAfterToolRejection`, under which everything holds.

`Services_apart` has behaviours without a habit, with `keys` and with `goOn`, so the
properties that a habit breaks say in their premise that there is none; the
others are checked with `keys` as well.

`RunsAsAllowed` and `OneLiveStream` also suppose that the user has not pressed Stop
(`stops = 0`).  Stop cuts off the tool calls and leaves the thunks that await them:
with three calls, the thunk of a stopped stream outlives the calls it has begun, finds a
newer stream at work and sets it inactive, or reads the pending calls of a later
message and runs them.  The instances of `Services_apart` are too small for it; the
attempt to prove the properties without the premise showed it, and TLC confirms it on larger
instances.  `NothingHangs` has excluded Stop from the beginning.

### ConfigHandler

A *cascade* is one call of `cascadeInit`.  It makes new objects for its organisations
and profiles: `<<c, o>>` is organisation `o` of cascade `c`, and `<<c, o, p>>` the
`ProfileLifecycleManager` of its profile `p`.

| state | in the code |
|---|---|
| `fetching`, `fetches`, `fromHub` | cascades that have not ended, the organisations each fetches, and whether from the Hub |
| `todo`, `text`, `rectified`, `late` | the organisations whose profiles are still awaited, the version of the assistant files read for each, the profile chosen in each, and rectifications that go on after the fetch has failed |
| `controller`, `cascadeSignal`, `signedIn` | how often `cascadeAbortController` has been replaced, the one a cascade has captured; the session |
| `organizations`, `currentOrg`, `currentProfile` | the same: which cascade made the organisations, and the current ones |
| `savedOrg`, `savedProfile` | the selections in the global context |
| `selecting` | a selection that awaits the workspace directories, of an organisation or (its second stage) of a profile |
| `saved`, `reloadAt`, `reloaded`, `loaded` | `savedConfigResult` of every profile manager, and the loads under way with what they have read |
| `version`, `unnoticed`, `told`, `initialized` | the sources of the configuration, whether the core has been told of their last change, what listeners were told last, and `isInitialized` |

A configuration is a pair: the version of the profile's own text, and that of everything
else a load reads.  The two differ for an assistant file of the workspace, which a load takes from
the content that the cascade has read (`LocalProfileLoader.ts:57-59`): after the file
is saved the core only reloads, and the reload installs the old text until the next cascade.
`TextFor` says so, and `QuietConfigIsCurrent` claims no more: the current configuration has
the newest local config, rules and the like, and the text of an assistant file as its cascade has read it.

An organisation need not have a profile.  `Install` then makes none current, `reloadConfig`
returns before `isInitialized` resolves, and every message of the core waits for good, even when another
organisation has profiles.  `QuietIsInitialized` says that this is the only way init does not
come.  `LocalFails` (local profiles that cannot be listed) ends there too.

Six cases in `case` say what a behaviour is about, or what the code does not guard against:

- `bare`: no assistant files in the workspace, so an organisation without assistants on the
  Hub has no profile.
- `onPrem`: local profiles are disabled.
- `strict`: the policy `allowOtherOrgs` is false, and the Hub lists one organisation or none.
- `eager`: a selection overlaps a cascade.  The current profile may then belong to an
  organisation that is no longer there, so `SelectionIsConsistent` is not stated.
- `both`: an organisation is selected together with a profile (`setSelectedOrgId` with a
  `profileId`).  If its id is that of the current profile, as the local profiles have in every
  organisation, or one the organisation does not have, `setSelectedProfileId` returns or
  throws and the profile of the old organisation stays current; even otherwise the two disagree
  during an await.  `SelectionIsConsistent` then speaks of the organisation only.
- `overtake`: loads end in another order than they began.  The older result is saved last, so
  `QuietConfigIsCurrent` is not stated.

`QuietIsInitialized` and `OrgsNeverGoBack` are stated in all cases.

## The runs

There are seven passing runs and five runs that end in a counterexample to a
sentence of the repository.

| run | instance | what it shows |
|---|---|---|
| `CodebaseIndexer_window` | 1 window, 2 directory refreshes, 1 file refresh, 1 update each; stale after 1, no delay | one refresh is current, those it replaces make at most one more write, a quiet window shows how its last refresh came out and accepts file refreshes |
| `CodebaseIndexer_ends` | 2 windows, a directory refresh in each, stale after 1, delay 1, the lock statements of one may fail, fair | the lock is never taken from a refresh whose renewals reach the table (`StaleVerdictIsSound`); waiting ends, unless somebody has paused |
| `RefreshIndex_serial` | 2 files, 2 branches, 3 runs one after the other, 5 ticks of the clock | an undisturbed refresh leaves exactly the working tree; the cache is the projection of the catalog; the lists are sound |
| `RefreshIndex_race` | 2 files, one of them open, 1 branch, a directory and a file run at once, 4 ticks, 2 faults | no false progress |
| `ChunkIndex_serial` | as `RefreshIndex_serial`, but the second file has 2 chunks, and 1 fault or failed `INSERT` | an undisturbed refresh finds the chunk of a file that has one, and nothing else of such contents; branches do not disturb each other; tags do not outlive their chunks |
| `CompletionProvider_streams` | 2 requests, 2 characters one of which ends a line, output of 2, fair | what is received continues what was typed; reuse looks at the current output; requests end |
| `Services_apart` | one of seven small instances: the cache (one window with two keys, or with the empty key, or two windows with one), a conversation (one message and two calls, two messages and one call, or the shortcuts), or the configuration (2 cascades, an edit, a selection, 2 organisations that have an assistant file in common and one profile each of their own or none); fair | the cache implements the durable map, saves what is not dirty and flushes what is; tools run once and as allowed, one stream is live, results are not forgotten, streams settle; organisations and configuration are the newest |

**Bounds.**  In one window a refresh is superseded by another while a file refresh comes
and goes, which takes three calls; that one that supersedes can itself be superseded is left to the theorems,
which hold for any number.  The two directory refreshes are alike, so TLC takes them up to a
permutation.  In `CodebaseIndexer_ends` a delay of 1 against a period of 1 is the least in which a
renewal is under way while time passes, so that it can be late, come after the refresh has
ended, or write an older time over a newer one; `StaleVerdictSound` covers all other times and
any number of windows.  `CodebaseIndexer_window` has the clock and the renewals as well,
but no property about them.  One update per refresh lets it write before
and after it is aborted.  Planning needs two versions of a file and a second
file; a version can be added, replaced and restored within three runs on either of two
branches.  `MaxTime` bounds the changes of files and the time stamps that runs take together, so
the five ticks of `RefreshIndex_serial` are three runs with two changes or fewer runs
with more, and the four of the race two runs with two changes.  `RefreshIndex_serial` keeps the contents
of the files apart, since with shared ones `DeletesOnlyUnneeded` fails
(`RefreshIndex_shared`), and has no fault: with one, `SyncedWhenClean` fails, since
a window that closes after the new version has been marked leaves the old one, and
the next refresh finds nothing to do.  In both serial runs the contents of the first file
are alike, as are runs and branches (`DistinctSymmetry`).  `ChunkIndex_serial` has a file of one
chunk beside one of two: of the longer one `FindsTree` fails (`ChunkIndex_tags`).  With the
same fault that breaks `RefreshIndex` it asks only for undisturbed refreshes before the fault
(`Undisturbed`), and keeps its types throughout.  Its bound on faults, `MayFail`, counts a
transaction with failed `INSERT`s as one.  The race has one branch, since
runs of different tags share only rows of the cache, which `NoFalseProgress` does
not read.  Two requests suffice to reuse, replace, and be replaced; the second text
is the first with one character more, so that there is something to skip.
`Services_apart` puts three parts that share nothing into one state space as
a choice between them (`focus`), not as a product, and gives each the instance it needs:
two keys and a capacity of one, so that a `put` evicts; two windows, so that one
waits for the lock of the other; two calls, so that they end in either order, and
a second message, so that a stream is stopped and another follows; two cascades, one
of which overtakes or is aborted by the other, with an edit and a selection between
them.  For the configuration the local config is a profile of the personal organisation, one
assistant file of both, and the Hub has one assistant for the personal organisation, so
that with `bare` or `onPrem` the other has none.  Which cases are combined with edits is bounded by
`ConfigMoves`: no edit without a case or with `onPrem`, one cascade with `both`; `overtake` is
not in the run.  `MaxStreams` and `MaxReloads` are never reached: five streams and four reloads
are more than two messages and two calls, or two cascades, an edit and a selection,
can start.  `MaxSilent` bounds how often the model answers nothing: each such answer
repeats the loop over the calls before it.
The deadlock check is off in `RefreshIndex`, `ChunkIndex`, `CompletionProvider` and
`MCServices`, where the runs, changes, requests and messages of an instance are finite
and it does stop; in `CodebaseIndexer` the clock never stops.

**Fairness.**  `CodebaseIndexer`: the promises of an open window are settled, statements
end or fail, and time passes; that a refresh is started or resumed is the user's
choice, and that an interval fires is not needed.  That a refresh ends also rests on
the bound on its updates, that is, on a finite number of files.  `CompletionProvider`: promises are settled, the
debounce timer fires, and a stream of the model ends; calling and cancelling are not
fair.  The wait of a request is woken by the generator only, so `RequestsEnd` checks
that no notification is missed.  `AutocompleteLruCache`: the timer of a window fires
and a statement of a flush is answered; nothing is assumed of lookups, puts and
closing.  `ToolCalls`: as long as requests of streams or of tools are under way one of
them is answered (one weak fairness of their disjunction), and a model stops
talking; the user need not do anything.  `ConfigHandler` has no fairness: its
properties speak of the moments when nothing is under way.

### Counterexamples

| run | sentence | what happens |
|---|---|---|
| `CodebaseIndexer_exclusion` | the lock prevents "multiple windows to begin indexing" | two windows read the empty table before either inserts its row |
| `RefreshIndex_shared` | no branch needs the artifact when it is deleted | another file of the same branch has the same content |
| `ChunkIndex_tags` | a duplicate means that the changes are already there | `del` left one chunk of two under the tag; `addTag` meets it and tags neither |
| `CompletionProvider_fullstop` | full stop stops the generation | it stops the generation of a newer request |
| `AutocompleteLruCache_close` | close "persists pending changes" | a flush of the timer has emptied the set of dirty keys: `close` finds it empty, does not wait, and closes the database in the middle of the transaction |

## The proofs

`tlapm` proves the following for all values of the constants, from the assumptions
named in the modules (`CallsAssumption`, `TimesAssumption`, ...).

| theorem | property | argument |
|---|---|---|
| `CodebaseIndexer_proofs!TypeCorrect` | `TypeOK` | inductive as it stands |
| `StaleVerdictSound` | `StaleVerdictIsSound` | from `RowsAreYoung`: no row is older, by more than `MaxDelay`, than the last time that a live refresh has put into the table. Whatever is written after it was taken at most `MaxDelay` earlier, since a statement ends by then, well or not. `MaxDelay <= StaleAfter` is what is needed of the times |
| `OneCurrent` | `OneCurrentRefresh` | inductive with types: whoever replaces the controller aborts it, or has seen it aborted |
| `SupersededStop` | `SupersededStops` | from `LateWritesBounded`: a call about to write has not written since it was aborted |
| `QuietShowsResultHolds` | `QuietShowsResult` | from `ShownIsWorking`: while a window shows no result and is not silent, one of its calls is at work and has an update still to give |
| `QuietAcceptsFilesHolds` | `QuietAcceptsFiles` | from `ControllerIsOwned`: a controller that can still be aborted is of a call that runs, or that an error on the lock table has ended |
| `RefreshIndex_proofs!TypeCorrect` | `TypeOK` | inductive as it stands |
| `NoFalseProgressHolds` | `NoFalseProgress` | from `ClaimsBelievable`: everything a run may still mark (hashes, lists, files that changed in time only) was read after its timestamp, so it is right at that time or the file has been written later. This holds for any number of runs at once, crashes and failures |
| `RefreshIndexSerial_proofs!OneVersionHolds` | | `Tables`: until the first fault the catalog has one version of each file, except for those the plan in progress replaces, and says row by row how far that plan has come |
| `SyncedWhenCleanHolds` | `SyncedWhenClean` | from `Tables` and `Trees`: a run that nothing disturbs has read times and contents that are still those of the disk, and a row as late as its file has its content |
| `KeysAreOwnHolds` | | a key that is recorded is one its file may have; needed to tell files by their keys |
| `CacheMatchesCatalogHolds` | `CacheMatchesCatalog` | from `CacheFits`: the cache is the projection of the catalog but for the operation between its two statements |
| `RemoveFindsTagHolds`, `TagsOnlyComputedHolds`, `DeletesOnlyUnneededHolds` | the same without `Holds` | the plan of a run, from `Tables` and `CacheFits`: the tags that it counts in the cache are those of the catalog |
| `ChunkIndex_proofs!ChunkIndexRefines` | | the chunk index implements `RefreshIndex`: a statement on the chunks leaves the planner alone, every other step is one of the planner.  What is proved of the planner is used below through it |
| `StorageTypeCorrect` | `StorageTypeOK` | with `Countable`: the copies of a chunk are numbered up to some bound, so a new one has a number, also beside rows that are gone and tagged |
| `TagsHaveChunksHolds` | `TagsHaveChunks` | with `OneVictim` (together `TagsFit`): a run deletes one row at a time and comes back for its tags, and only rows that are there are tagged |
| `FindsSinglesHolds`, `FindsTreeHolds` | `FindsSingles`, `FindsTree` | from `Stores`: a version in the catalog, less those whose deletion and more those whose insertion has been executed and not yet marked (`Held`), has every chunk there (`Covered`), if it has only one or there is one branch. Longer contents may be about and leave chunks, which no statement on another key touches |
| `FindsOnlyTreeHolds` | `FindsOnlyTree` | also from `OnlyHeld`: nothing else of a content of one chunk is there, and nothing of it twice |
| `OtherBranchesKeepHolds` | `OtherBranchesKeep` | what an operation deletes of such a content is not held by another branch |
| `CompletionProvider_proofs!TypeCorrect` | `TypeOK` | needs `Shape`: a chunk is read only from a generator that exists |
| `PendingIsCurrentHolds` | `PendingIsCurrent` | part of `Shape`: a generator that has been replaced has been cancelled, and its loop breaks before it calls its listeners |
| `ContinuesTypedHolds` | `ContinuesTyped` | from `ReadersFit`: what is still to be skipped is a part of what the generator had written when it was taken over, so that the first chunk that differs comes after all of it. `PendingIsCurrent` is what makes the decision on reuse right |
| `AutocompleteLruCache_proofs!CacheTypeCorrect` | `CacheTypeOK` | inductive as it stands |
| `SavedUnlessDirtyHolds` | `SavedUnlessDirty` | with `DraftIsCurrent`: what a flush has written so far is in its transaction unless it has become dirty again meanwhile; the mutex keeps `put` out, and a `get` in the middle marks its key |
| `ImplementsDurableMapHolds` | `ImplementsDurableMap` | every action is a step of `DurableMap` or leaves its variables alone: `Commit` is `Save`, the end of a flush that failed is `Drop`; it uses the two invariants, since a flush saves what was written earlier as what is in memory now |
| `PutKeepsSizeHolds` | `PutKeepsSize` | a put adds one key at most and, above the capacity, deletes the oldest one that is not empty; no other step adds a key to a cache that stays open |
| `ToolCalls_proofs!RunsOnceHolds` | `RunsOnce` | from `WaitsUnrun`: a call that is generating or generated has not run, and no step makes one wait again. Every way to run a call (the policies, the button, the shortcut) finds it generated and makes it calling in the same step |
| `ToolsTypeCorrect` | `ToolsTypeOK` | inductive as it stands, with lemmas on what cutting off, finding and replacing messages does to a history |
| `OneLiveStreamHolds` | `OneLiveStream` | from `Conv`, see below |
| `RunsAsAllowedHolds` | `RunsAsAllowed` | from `Conv` |
| `NothingHangsHolds` | `NothingHangs` | from `Conv` and `Attended`, see below |
| `ConfigHandler_proofs!ConfigTypeCorrect` | `ConfigTypeOK` | with `Begun`: what a selection or the list of organisations refers to is a cascade that has begun |
| `SelectionIsConsistentHolds` | `SelectionIsConsistent` | with `ProfilesAreKnown`: a profile chosen in an organisation is one of those listed for it, and none only if there are none; and `SelectsInUse`: without overlap a pending selection is among the organisations in use, and no cascade runs |
| `OrgsNeverGoBackHolds` | `OrgsNeverGoBack` | from `SignalsArePast`: the controller only grows, and only a cascade that holds the current one installs |
| `QuietConfigIsCurrentHolds` | `QuietConfigIsCurrent` | from `LastLoadIsCurrent`: every change of the current profile starts a reload of it, so the last reload is of the current profile, and in order nothing ends after it; the text it uses does not change once the cascade is installed (`TextIsKept`) |
| `QuietIsInitializedHolds` | `QuietIsInitialized` | from `InitIsUnderWay`: until init some reload has not ended, or some running cascade holds the current controller, since whoever aborts a cascade starts one, or organisations are installed without a current profile |

`ContinuesTyped` is not inductive by itself: it must also be known that the text
of the request is a prefix of the prompt and the output together, which is where
reuse is decided; otherwise a chunk could differ in the middle of the text to be
skipped.  The lemmas `FitsNew`, `FitsReuse`, `FitsDrop`, `FitsDeliver` and `FitsGrow` say what
each step does to the sequences, apart from the state machine.

**Refreshes in sequence.**  The theorems of `RefreshIndexSerial_proofs` and
`ChunkIndex_proofs` have hypotheses on the constants, which are those that an instance has to
make, each because the property is false without it:

| hypothesis | what it says | without it |
|---|---|---|
| `Serial` | runs do not overlap | two plans made from the same rows are both carried out |
| `faults = 0` | before the first failure, crash, or file that has gone when it is read | `markComplete` is interrupted between two lists; two files that have gone share the empty content |
| `Buffers = {}` | no unsaved document | a content is recorded under the time of another |
| `Apart` | no two files have the same content | `RefreshIndex_shared` |
| `Still` | files change between refreshes, not during one | a file is cut into chunks after its hash was taken |
| contents of one chunk (`Single`), or `OneBranch` for `FindsTree` | `del` deletes all of them, or nothing is left for another branch to tag | `ChunkIndex_tags` |
| `~insertsFailed` | no `INSERT` of a chunk has failed unnoticed | it is marked all the same |

Branches are a finite set, since the code counts tags with a `SELECT`.  There is no
bound on files, contents, branches, refreshes, their scopes, or the order of the
lists.  The properties of the plan speak of steps: `Spec /\ [](faults = 0)` implies them.
`StorageTypeCorrect`, `ChunkIndexRefines`, `NoFalseProgressHolds` and the types need none of
these, `TagsHaveChunksHolds` only that nothing has failed, and `KeysAreOwnHolds` only `faults = 0`.

**A conversation.**  `OneLiveStream` is far from inductive: that no second stream starts
depends on what each stream and tool under way can still do.  `Conv` says it in twelve
parts.  A stream that works is the last one started, and while it works no tool runs, no
current call is left to a diff and no other stream awaits some of its calls (`InOrder`,
`WorksAlone`).  A call that runs is one of the last message; one that a stream awaits no
longer waits to be run; calls run without the user beside others that wait for the user in
one stream only (`RunsCurrent`, `AwaitedRun`, `SomeWait`).  Of the loops over the same calls each
awaits the next one, and only the last can go on (`LoopsGive`, `BehindSettled`,
`ChainOfLoops`).  The rest says what belongs to which message: the policies are asked for
the pending calls of the current one, and a call that ran by itself had been allowed to
(`Reviewed`, `CallsMade`, `MessageThere`, `AutoAllowed`).  `Conv` is supposed only while
nobody has pressed Stop.  `NothingHangs` needs `Attended` in addition: without Stop and
failures a generating call has a stream that reads it, a calling one a tool that runs
or a diff that is open, and when every call has ended a stream works on the results.  TLC
checked both on small instances before they were proved.

**Only model-checked.**  Liveness under fairness (`WaitingEnds`, `RequestsEnd`,
`FirstDirtyIsFlushed`, `StreamSettles`), which is out of the prover's reach.  Every invariant and
every other action property that a passing run checks is also stated by a theorem.  The
counterexamples are TLC's alone.

## What is not modelled

`PROJECT.json` gives the reason for each component.  Within the parts that are
modelled: `clearIndexes`, several directories and several artifacts in one refresh,
batches within a plan, the remote cache of chunks, the context of the prompt, the
outcomes that are logged; edit mode, saving and loading sessions, editing an
earlier message and killing a terminal command in the conversation; which
assistant files and profiles of the Hub there are (their list is constant, the text of the files is not), policies
other than `allowOtherOrgs`, the lists of local profiles that cascades share; the search for the
branch and the walk of the directory are reads at one moment.  Clocks of
different windows are the same clock, and a modification time is always later
than what was read before it.

### Smaller hazards without a property

- Autocomplete requests await the model and the configuration before they reach the
  debouncer (`autocomplete/CompletionProvider.ts:165`), so an older one may replace a
  newer one: both orders are in the model, and nothing says which should win.
- A generator that failed or was cancelled is reused while the prefix fits
  (`GeneratorReuseManager.ts:30`), as in the model.
- The timer that logs a rejection leaves the outcome in its map
  (`AutocompleteLoggingService.ts:60`).
- If the file of the cache cannot be opened once, the rejected promise is kept
  (`AutocompleteLruCache.ts:41`, `OpenFails`).
- A file refresh ignores the abort signal of the directory refresh that follows
  (`CodebaseIndexer.ts:774`), and drops files saved while indexing is paused (`:248`).
- `UPDATE` gives every version of a file the same key, which the unique index may refuse
  (`refreshIndex.ts:311`, `Touch`); a file restored with an old modification time is not
  noticed (`:201`).
- A crash between `insertChunks` and `markComplete` inserts the chunks again
  (`ChunkCodebaseIndex.ts:75`).

## Plan

Done: the coordination of refreshes, planning, the chunk index, the streams and
the cache of autocomplete, the tool calls of a conversation, and the configuration,
with the theorems above.  Next, in this order:

1. **The other indexes.**  `FullTextSearchCodebaseIndex`, `LanceDbIndex` and
   `CodeSnippetsIndex` over the planner, the last with the lists in another order
   (`SnippetOrder`), and the chunk rows the first two read.  An abstract storage,
   `tag -> set of versions`, that `ChunkIndex` and the others implement under the
   conditions in which they do.
2. **Logs of autocomplete and next edit.**  The outcome log, whose timer races with
   accepting a suggestion; the chain of edits, the prefetch queue and its timers.
3. **Messengers and sessions.**  Requests matched with answers over a byte stream that
   is cut anywhere; files under `~/.continue` that two windows read and write back;
   a session saved while its title is awaited.
4. **Pure algorithms.**  `applyAbortManager`, the walk with nested ignore files, line
   diffs, checked against reference definitions.
5. **Documentation indexing.**  Overlapping jobs for one site.
6. **Proofs.**  `FindsTree` for files of several chunks and several branches under a plan
   without `del`; what is left of `SyncedWhenClean` after a crash; `OneLiveStream` after Stop,
   for the streams that were started since.

The instances are kept few: an instance is added for a new question, and takes the
place of one that a theorem has made redundant.
