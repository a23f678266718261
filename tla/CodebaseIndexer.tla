--------------------------- MODULE CodebaseIndexer ---------------------------
(***************************************************************************)
(* Coordination of codebase indexing: the refreshes that run inside one    *)
(* window share an abort controller, and the windows share a lock table in *)
(* the SQLite index file (core/indexing/CodebaseIndexer.ts and the class   *)
(* IndexLock of refreshIndex.ts).                                          *)
(*                                                                         *)
(* A window is one process running the core; a call is one invocation of   *)
(* refreshCodebaseIndex (DirCalls) or refreshCodebaseIndexFiles            *)
(* (FileCalls).  Between two awaits a call runs without interruption, so   *)
(* an action is the code from one await to the next.  What an index writes *)
(* is left to other modules: here a write is only the fact that it occurs. *)
(***************************************************************************)
EXTENDS Naturals, Sequences

CONSTANTS Windows,          \* windows (processes) that share the index file
          DirCalls,         \* invocations of refreshCodebaseIndex
          FileCalls,        \* invocations of refreshCodebaseIndexFiles
          WindowOf,         \* the window each call runs in
          NoCall,           \* the aborted controller of the constructor
          StaleAfter,       \* age at which a lock row counts as abandoned
          MaxDelay,         \* how long a statement may wait for the index file
          DbMayFail,        \* calls whose statements on the lock table may fail
          MaxUpdates        \* bound: updates the generator of a call yields

Calls == DirCalls \cup FileCalls

ASSUME CallsAssumption ==
  /\ DirCalls \cap FileCalls = {}
  /\ WindowOf \in [Calls -> Windows]
  /\ NoCall \notin Calls

\* 10 s against a busy_timeout of 3 s in the code.
ASSUME TimesAssumption ==
  /\ StaleAfter \in Nat
  /\ MaxDelay \in Nat
  /\ MaxDelay <= StaleAfter

ASSUME MaxUpdatesAssumption == MaxUpdates \in Nat

ASSUME DbMayFailAssumption == DbMayFail \subseteq DirCalls

VARIABLES
  lockRows,    \* ages of the rows of indexing_lock, in rowid order
  pc,          \* where each call is
  updates,     \* updates a call may still yield (a bound)
  lastStamp,   \* age of the last time a call put, or is putting, into a row
  renewals,    \* ages of the times in the renewals a call has under way
  controller,  \* indexingCancellationController of each window
  aborted,     \* whether the controller of a call is aborted
  paused,      \* pauseToken of each window
  shown,       \* codebaseIndexingState.status of each window
  silent,      \* whether the last refresh to leave off in a window, if any,
               \* did so without a last update
  lateWrites,  \* index writes a call made after it was aborted
  neverBegan   \* whether a call was aborted before it began to walk

lockVars == <<lockRows, lastStamp, renewals>>
abortVars == <<controller, aborted>>
progress == <<shown, silent>>
history == <<lateWrites, neverBegan>>

\* lastStamp, silent and history are read by the properties only.
vars == <<lockVars, pc, updates, abortVars, paused, progress, history>>

Results == {"done", "disabled", "failed", "cancelled"}

Statuses == {"loading", "waiting", "indexing", "paused"} \cup Results

Outside == {"idle", "ended", "crashed"}

BeforeBegin == {"waiting", "stale", "free", "begin"}

\* The interval that renews the lock runs from lock() to clearInterval().
Beating == {"begin", "walk", "walkPaused", "yielded", "paused", "write"}

\* A statement of the lock table is about to complete.
DbPending == {"stale", "free", "unlocking"}

Locations == Outside \cup BeforeBegin \cup Beating \cup DbPending
               \cup {"files", "filesPaused"}

\* Ages above StaleAfter are all alike.
MaxAge == StaleAfter + 1

TypeOK ==
  /\ lockRows \in Seq(0..MaxAge)
  /\ pc \in [Calls -> Locations]
  /\ updates \in [Calls -> 0..MaxUpdates]
  /\ lastStamp \in [Calls -> 0..MaxAge]
  /\ renewals \in [Calls -> SUBSET (0..MaxDelay)]
  /\ controller \in [Windows -> Calls \cup {NoCall}]
  /\ aborted \in [Calls -> BOOLEAN]
  /\ paused \in [Windows -> BOOLEAN]
  /\ shown \in [Windows -> Statuses]
  /\ silent \in [Windows -> BOOLEAN]
  /\ lateWrites \in [Calls -> Nat]
  /\ neverBegan \in [Calls -> BOOLEAN]

Init ==
  /\ lockRows = <<>>
  /\ pc = [c \in Calls |-> "idle"]
  /\ updates = [c \in Calls |-> MaxUpdates]
  /\ lastStamp = [c \in Calls |-> 0]
  /\ renewals = [c \in Calls |-> {}]
  /\ controller = [w \in Windows |-> NoCall]
  /\ aborted = [c \in Calls |-> FALSE]
  /\ paused \in [Windows -> BOOLEAN]
  /\ shown = [w \in Windows |-> "loading"]
  /\ silent = [w \in Windows |-> TRUE]
  /\ lateWrites = [c \in Calls |-> 0]
  /\ neverBegan = [c \in Calls |-> FALSE]

-----------------------------------------------------------------------------
(***************************************************************************)
(* Helpers                                                                 *)
(***************************************************************************)
Goto(c, place) == pc' = [pc EXCEPT ![c] = place]

\* updateProgress
Show(c, status) ==
  /\ shown' = [shown EXCEPT ![WindowOf[c]] = status]
  /\ silent' = [silent EXCEPT ![WindowOf[c]] = @ /\ status \notin Results]

\* The refresh gives no update any more.
SayNothing(c) ==
  /\ UNCHANGED shown
  /\ silent' = [silent EXCEPT ![WindowOf[c]] = TRUE]

\* waitForDBIndex: the lock row is more than 10 s old.
NeverStale(age) == FALSE
IsStale(age) == age > StaleAfter

\* What updateTimestamp makes of the lock table, with a time it took before.
NotRenewed(rows, age) == rows
Renewed(rows, age) == [i \in DOMAIN rows |-> age]

\* What lock() makes of it: a new row, whatever the table holds.
InsertedAtEpoch(rows, age) == Append(rows, MaxAge + 1)
Inserted(rows, age) == Append(rows, age)

Older(age) == IF age < MaxAge THEN age + 1 ELSE MaxAge

\* The calls a directory refresh that starts in window w aborts.
NoneSuperseded(w) == {}
Superseded(w) == {controller[w]}

\* abortSignal.aborted, in the loops of refreshDirs.
NeverStopped(c) == FALSE
Stopped(c) == aborted[c]

\* The controller of window w can still be aborted.
HasLiveController(w) == controller[w] # NoCall /\ ~aborted[controller[w]]

\* The last lines of both refreshes: abort the controller if it is still ours.
KeepController(c) == UNCHANGED aborted
ReleaseController(c) ==
  aborted' = [aborted EXCEPT
                ![c] = aborted[c] \/ controller[WindowOf[c]] = c]

\* One write to the index files, remembered if the call was aborted before.
IndexWrite(c) ==
  lateWrites' = [lateWrites EXCEPT ![c] = IF aborted[c] THEN @ + 1 ELSE @]

-----------------------------------------------------------------------------
(***************************************************************************)
(* refreshCodebaseIndex: abort the running refresh, wait for the lock,     *)
(* take it, refresh the directories, release it.                           *)
(***************************************************************************)
StartDir(c) ==
  LET w == WindowOf[c] IN
  /\ pc[c] = "idle"
  /\ aborted' = [d \in Calls |-> aborted[d] \/ d \in Superseded(w)]
  /\ neverBegan' = [d \in Calls |->
       neverBegan[d]
         \/ (d \in Superseded(w) /\ ~aborted[d] /\ pc[d] \in BeforeBegin)]
  /\ controller' = [controller EXCEPT ![w] = c]
  /\ Goto(c, "waiting")
  /\ UNCHANGED <<lockVars, updates, paused, progress, lateWrites>>

\* IndexLock.lock sends its INSERT, with the time of now.
SendLock(c) ==
  /\ Goto(c, "free")
  /\ lastStamp' = [lastStamp EXCEPT ![c] = 0]

\* One turn of waitForDBIndex: isLocked returns the first row, if any.
Poll(c) ==
  /\ pc[c] = "waiting"
  /\ \/ lockRows = <<>> /\ SendLock(c) /\ UNCHANGED progress
     \/ /\ lockRows # <<>> /\ IsStale(Head(lockRows))
        /\ Goto(c, "stale") /\ UNCHANGED <<lastStamp, progress>>
     \/ /\ lockRows # <<>> /\ ~IsStale(Head(lockRows))
        /\ Show(c, "waiting") /\ UNCHANGED <<pc, lastStamp>>
  /\ UNCHANGED <<lockRows, renewals, abortVars, history, updates, paused>>

\* The row read was stale: delete every row and leave the loop.
StaleUnlock(c) ==
  /\ pc[c] = "stale"
  /\ lockRows' = <<>>
  /\ SendLock(c)
  /\ UNCHANGED <<abortVars, history, renewals, updates, paused, progress>>

\* The INSERT adds a row whatever the table holds; the interval starts.
Lock(c) ==
  /\ pc[c] = "free"
  /\ lockRows' = Inserted(lockRows, lastStamp[c])
  /\ Goto(c, "begin")
  /\ UNCHANGED <<abortVars, history, lastStamp, renewals, updates, paused, progress>>

\* refreshDirs up to the first directory, with its early returns: nothing to
\* index, no config (no update is sent), indexing disabled.
Begin(c) ==
  /\ pc[c] = "begin"
  /\ \/ Goto(c, "unlocking") /\ (SayNothing(c)
                                   \/ Show(c, "done") \/ Show(c, "disabled"))
     \/ Goto(c, "walk") /\ Show(c, "indexing")
  /\ UNCHANGED <<lockVars, abortVars, history, updates, paused>>

\* One file found by walkDirAsync: stop if aborted, else wait while paused.
WalkFile(c) ==
  /\ pc[c] = "walk"
  /\ \/ Stopped(c) /\ Goto(c, "unlocking") /\ Show(c, "cancelled")
     \/ /\ ~Stopped(c) /\ paused[WindowOf[c]]
        /\ Goto(c, "walkPaused") /\ Show(c, "paused")
  /\ UNCHANGED <<lockVars, abortVars, history, updates, paused>>

\* refreshDirs goes on to its next directory, or to its last update.
NextDirectory(c) ==
  /\ updates[c] > 0 /\ updates' = [updates EXCEPT ![c] = @ - 1]
  /\ Goto(c, "walk") /\ Show(c, "indexing")

LastUpdate(c) ==
  Goto(c, "unlocking") /\ Show(c, "done") /\ UNCHANGED updates

\* The directory is walked; indexFiles yields "Planning changes ...", or
\* returns at once when there is no index to build.
WalkEnds(c) ==
  /\ pc[c] = "walk"
  /\ \/ Goto(c, "yielded") /\ UNCHANGED <<updates, progress>>
     \/ NextDirectory(c)
     \/ LastUpdate(c)
  /\ UNCHANGED <<lockVars, abortVars, history, paused>>

\* The body of the loop over indexFiles, for the update just yielded.
Check(c) ==
  /\ pc[c] = "yielded"
  /\ \/ Stopped(c) /\ Goto(c, "unlocking") /\ Show(c, "cancelled")
     \/ /\ ~Stopped(c) /\ paused[WindowOf[c]]
        /\ Goto(c, "paused") /\ Show(c, "paused")
     \/ /\ ~Stopped(c) /\ ~paused[WindowOf[c]]
        /\ Goto(c, "write") /\ Show(c, "indexing")
  /\ UNCHANGED <<lockVars, abortVars, history, updates, paused>>

\* yieldUpdateAndPause ends.  Nothing looks at the abort signal here.
Resume(c) ==
  /\ ~paused[WindowOf[c]]
  /\ \/ pc[c] = "walkPaused" /\ Goto(c, "walk") /\ UNCHANGED progress
     \/ pc[c] = "paused" /\ Goto(c, "write") /\ Show(c, "indexing")
     \/ pc[c] = "filesPaused" /\ Goto(c, "files") /\ UNCHANGED progress
  /\ UNCHANGED <<lockVars, abortVars, history, updates, paused>>

\* indexFiles runs to its next update, to the next directory, or to the end;
\* an index that throws becomes a warning and the loop goes on the same way.
Write(c) ==
  /\ pc[c] = "write"
  /\ IndexWrite(c)
  /\ \/ /\ updates[c] > 0 /\ updates' = [updates EXCEPT ![c] = @ - 1]
        /\ Goto(c, "yielded") /\ UNCHANGED progress
     \/ NextDirectory(c)
     \/ LastUpdate(c)
  /\ UNCHANGED <<lockVars, abortVars, paused, neverBegan>>

\* Any other error under refreshDirs is caught and reported.
ErrorDropped(c) == UNCHANGED progress
ReportError(c) == Show(c, "failed")

Fail(c) ==
  /\ pc[c] \in {"begin", "walk", "write"}
  /\ Goto(c, "unlocking") /\ ReportError(c)
  /\ UNCHANGED <<lockVars, abortVars, history, updates, paused>>

\* The interval is cleared; unlock deletes the locked rows of every window.  A
\* renewal that is under way stays so.
Unlock(c) ==
  /\ pc[c] = "unlocking"
  /\ lockRows' = <<>>
  /\ lastStamp' = [lastStamp EXCEPT ![c] = 0]
  /\ ReleaseController(c)
  /\ Goto(c, "ended")
  /\ UNCHANGED <<history, renewals, updates, controller, paused, progress>>

\* isLocked, lock and unlock run outside the try block: an error (the file is
\* busy for more than busy_timeout, say) ends the call with no clean-up.
DbError(c) ==
  /\ c \in DbMayFail
  /\ pc[c] \in DbPending \cup {"waiting"}
  /\ Goto(c, "ended")
  /\ lastStamp' = [lastStamp EXCEPT ![c] = 0]
  /\ IF pc[c] = "unlocking" THEN UNCHANGED progress ELSE SayNothing(c)
  /\ UNCHANGED <<lockRows, renewals, abortVars, history, updates, paused>>

-----------------------------------------------------------------------------
(***************************************************************************)
(* refreshCodebaseIndexFiles: no lock, and no use of the abort signal.     *)
(***************************************************************************)
StartFiles(c) ==
  LET w == WindowOf[c] IN
  /\ pc[c] = "idle"
  /\ IF HasLiveController(w)
     THEN Goto(c, "ended") /\ UNCHANGED controller
     ELSE Goto(c, "files") /\ controller' = [controller EXCEPT ![w] = c]
  /\ UNCHANGED <<lockVars, history, updates, aborted, paused, progress>>

\* refreshFile, which returns at once when paused; then the pause of the loop.
RefreshFile(c) ==
  LET isPaused == paused[WindowOf[c]] IN
  /\ pc[c] = "files" /\ updates[c] > 0
  /\ updates' = [updates EXCEPT ![c] = @ - 1]
  /\ IF isPaused THEN UNCHANGED lateWrites ELSE IndexWrite(c)
  /\ IF isPaused THEN Goto(c, "filesPaused") /\ Show(c, "paused")
                 ELSE UNCHANGED pc /\ Show(c, "indexing")
  /\ UNCHANGED <<lockVars, abortVars, paused, neverBegan>>

\* The last file is done, or refreshing one of them failed.
EndFiles(c) ==
  /\ pc[c] = "files"
  /\ Show(c, "done") \/ Show(c, "failed")
  /\ ReleaseController(c)
  /\ Goto(c, "ended")
  /\ UNCHANGED <<lockVars, history, updates, controller, paused>>

-----------------------------------------------------------------------------
(***************************************************************************)
(* Timers, the user, and windows that close                                *)
(***************************************************************************)
\* The interval of a refresh fires, on time or late but never at once, and sends
\* a renewal with the time of now.  Nobody waits for it.
Heartbeat(c) ==
  /\ pc[c] \in Beating /\ lastStamp[c] > 0
  /\ renewals' = [renewals EXCEPT ![c] = @ \cup {0}]
  /\ UNCHANGED <<lockRows, lastStamp, abortVars, history, pc, updates, paused, progress>>

\* The UPDATE of a renewal reaches the table: every row gets its time, also
\* when the refresh has ended or another one has written a later time.
Renew(c) ==
  \E age \in renewals[c] :
    /\ lockRows' = Renewed(lockRows, age)
    /\ lastStamp' = [lastStamp EXCEPT ![c] = IF pc[c] \in Beating THEN age ELSE @]
    /\ renewals' = [renewals EXCEPT ![c] = @ \ {age}]
    /\ UNCHANGED <<abortVars, history, pc, updates, paused, progress>>

\* The file stays busy: the UPDATE fails and its error is lost.
RenewalFails(c) ==
  \E age \in renewals[c] :
    /\ renewals' = [renewals EXCEPT ![c] = @ \ {age}]
    /\ UNCHANGED <<lockRows, lastStamp, abortVars, history, pc, updates, paused, progress>>

\* Time passes, whether or not an interval has fired when it was due.  Only a
\* statement that puts a time into the table ends, well or not, within the
\* busy_timeout of the connection.
Tick ==
  /\ \A c \in Calls : /\ pc[c] = "free" => lastStamp[c] < MaxDelay
                      /\ MaxDelay \notin renewals[c]
  /\ lockRows' = [i \in DOMAIN lockRows |-> Older(lockRows[i])]
  /\ lastStamp' = [c \in Calls |-> IF pc[c] \in Beating \cup {"free"}
                                    THEN Older(lastStamp[c]) ELSE lastStamp[c]]
  /\ renewals' = [c \in Calls |-> {age + 1 : age \in renewals[c]}]
  /\ UNCHANGED <<abortVars, history, pc, updates, paused, progress>>

\* index/setPaused
SetPaused(w) ==
  /\ paused' = [paused EXCEPT ![w] = ~@]
  /\ UNCHANGED <<lockVars, abortVars, history, pc, updates, progress>>

\* The window closes in the middle of a call and is opened again; what it had
\* inserted in the lock table stays there.
Crash(w) ==
  /\ \E c \in Calls : WindowOf[c] = w /\ pc[c] \notin Outside
  /\ pc' = [c \in Calls |-> IF WindowOf[c] = w /\ pc[c] \notin Outside
                            THEN "crashed" ELSE pc[c]]
  /\ controller' = [controller EXCEPT ![w] = NoCall]
  /\ shown' = [shown EXCEPT ![w] = "loading"]
  /\ silent' = [silent EXCEPT ![w] = TRUE]
  /\ lastStamp' = [c \in Calls |-> IF WindowOf[c] = w THEN 0 ELSE lastStamp[c]]
  /\ renewals' = [c \in Calls |-> IF WindowOf[c] = w THEN {} ELSE renewals[c]]
  /\ UNCHANGED <<lockRows, history, updates, aborted, paused>>

-----------------------------------------------------------------------------
DirStep(c) ==
  \/ Poll(c) \/ StaleUnlock(c) \/ Lock(c) \/ Begin(c) \/ WalkFile(c)
  \/ WalkEnds(c) \/ Check(c) \/ Resume(c) \/ Write(c) \/ Fail(c) \/ Unlock(c)
  \/ DbError(c)

RenewalEnds(c) == Renew(c) \/ RenewalFails(c)

FileStep(c) == RefreshFile(c) \/ Resume(c) \/ EndFiles(c)

Next ==
  \/ \E c \in DirCalls : StartDir(c) \/ DirStep(c) \/ Heartbeat(c) \/ RenewalEnds(c)
  \/ \E c \in FileCalls : StartFiles(c) \/ FileStep(c)
  \/ Tick
  \/ \E w \in Windows : SetPaused(w) \/ Crash(w)

Spec == Init /\ [][Next]_vars

(***************************************************************************)
(* Promises are settled as long as a window is open, and a statement ends, *)
(* well or not.  That a refresh starts, that the user resumes it or that   *)
(* its interval fires is not promised.                                     *)
(***************************************************************************)
Fairness ==
  /\ \A c \in DirCalls : WF_vars(DirStep(c)) /\ WF_vars(RenewalEnds(c))
  /\ \A c \in FileCalls : WF_vars(FileStep(c))
  /\ WF_vars(Tick)

FairSpec == Spec /\ Fairness

-----------------------------------------------------------------------------
(***************************************************************************)
(* Properties                                                              *)
(***************************************************************************)
Active(c) == pc[c] \notin Outside

\* A waiting refresh declares the lock abandoned only when no refresh that is
\* still at work has put a time of its own into the table for StaleAfter -
\* MaxDelay: however intervals lag, renewals fail or a late one writes an older
\* time over a later one, the 10 s rule of waitForDBIndex never takes the lock
\* from a window that has renewed it within the last 7 s.
StaleVerdictIsSound ==
  [][\A c \in DirCalls :
       (pc[c] = "waiting" /\ pc'[c] = "stale")
         => \A d \in DirCalls :
              pc[d] \in Beating => lastStamp[d] + MaxDelay > StaleAfter]_vars

\* Why it is sound: a row is hardly older than the last time of any refresh that
\* has inserted or is inserting one.
RowsAreYoung ==
  \A c \in DirCalls : pc[c] \in Beating \cup {"free"} =>
    \A i \in DOMAIN lockRows : lockRows[i] <= lastStamp[c] + MaxDelay

\* Of the calls running in a window only the one that owns the controller of
\* the window can still be aborted; all the others have been.
OneCurrentRefresh ==
  \A c \in Calls :
    (Active(c) /\ ~aborted[c]) => controller[WindowOf[c]] = c

\* A superseded directory refresh makes at most one more write, and none at
\* all when it was superseded before it began to walk.
SupersededStops ==
  \A c \in DirCalls : lateWrites[c] <= (IF neverBegan[c] THEN 0 ELSE 1)

\* Why: a refresh is about to write only if it passed the check unaborted.
LateWritesBounded ==
  \A c \in DirCalls :
    /\ (~aborted[c] \/ pc[c] \in {"write", "paused"})
         => lateWrites[c] = 0 /\ ~neverBegan[c]
    /\ lateWrites[c] <= (IF neverBegan[c] THEN 0 ELSE 1)

\* When nothing runs in a window its progress shows how the last refresh came
\* out.  It never says that work goes on, and shows that the window waits or
\* loads only if the refresh that left off last gave no update: there was no
\* config, a statement on the lock table failed, or there has been none.
QuietShowsResult ==
  \A w \in Windows :
    (\A c \in Calls : WindowOf[c] = w => ~Active(c))
      => shown[w] \in Results \/ (silent[w] /\ shown[w] \in {"waiting", "loading"})

\* When nothing runs in a window the next single-file refresh is accepted,
\* unless a statement on the lock table has failed there.
QuietAcceptsFiles ==
  \A w \in Windows :
    (\A c \in Calls : WindowOf[c] = w => ~Active(c) /\ c \notin DbMayFail)
      => ~HasLiveController(w)

\* A refresh does not wait for the lock for ever unless somebody has paused:
\* the owner ends, or its rows become stale once its window is closed.
WaitingEnds ==
  \A c \in DirCalls :
    pc[c] = "waiting" ~> (pc[c] # "waiting" \/ \E w \in Windows : paused[w])

-----------------------------------------------------------------------------
(***************************************************************************)
(* Claims of the comments that the code does not keep                      *)
(***************************************************************************)
\* "acquire the index lock to prevent multiple windows to begin indexing".
LockExcludesOthers ==
  \A c, d \in DirCalls :
    (pc[c] \in Beating /\ pc[d] \in Beating) => c = d
=============================================================================
