------------------------------ MODULE MCServices ------------------------------
(***************************************************************************)
(* The cache, the conversation and the configuration in one run: each      *)
(* behaviour is about one of them, the others stay as they start.          *)
(***************************************************************************)
EXTENDS AutocompleteLruCache, ToolCalls, ConfigHandler

CONSTANTS w1, w2, k1, k2, v1, a, b, p1, p2, p3

VARIABLE focus    \* the part that moves, and with which bounds
servicesVars == <<cacheVars, toolVars, configVars, focus>>

CacheFocuses == {"oneWindow", "emptyKey", "twoWindows"}
ToolFocuses == {"answer", "chat", "keys"}

ServicesInit ==
  /\ focus \in CacheFocuses \cup ToolFocuses \cup {"config"}
  /\ CacheInit /\ ToolsInit /\ ConfigInit
  /\ CASE focus = "answer" -> setup \in {{}, {"goOn"}}
       [] focus = "chat" -> setup = {}
       [] focus = "keys" -> setup = {"keys"}
       [] OTHER -> setup = {}
  /\ savedOrg = NoOne /\ savedProfile = [o \in Orgs |-> NoOne]
  /\ focus # "config" => case = {}
  /\ signedIn = (focus = "config" /\ "eager" \notin case)

\* The Hub has an assistant for the personal organisation only.
PersonalAssistant == [o \in Orgs |-> IF o = PersonalOrg THEN {p3} ELSE {}]

\* one window with two keys, or one that has the empty prefix as well, or two
\* windows at one time with one key
KeysInUse ==
  CASE focus = "oneWindow" -> {k1, k2}
    [] focus = "emptyKey" -> {EmptyKey, k1}
    [] OTHER -> {k1}

CacheMoves ==
  /\ focus \in CacheFocuses
  /\ CacheNext
  /\ \A w \in CacheWindows : Cached(mem'[w]) \cup dirty'[w] \subseteq KeysInUse
  /\ IF focus = "twoWindows" THEN clock' = 0
     ELSE life'[w2] = "closed" /\ failures' <= IF focus = "oneWindow" THEN 1 ELSE 0
  /\ UNCHANGED <<toolVars, configVars, focus>>

\* one message and two tool calls, or two messages and one tool call, or one of
\* each
ToolsMove ==
  /\ focus \in ToolFocuses
  /\ ToolsNext
  /\ CASE focus = "answer" -> /\ submits' <= 1 /\ silent' = 0
                              /\ IF setup = {} THEN \A c \in ToolCallIds : kind'[c] # "edit"
                                 ELSE stops' = 0
       [] focus = "chat" -> made' <= 1
       [] OTHER -> submits' <= 1 /\ made' <= 1 /\ silent' = 0
  /\ UNCHANGED <<cacheVars, configVars, focus>>

\* all of it, or no edits, or one cascade and its selections
ConfigMoves ==
  /\ focus = "config"
  /\ ConfigNext
  /\ case \in {{}, {"onPrem"}} => version' = 1
  /\ case = {"both"} => cascades' <= 1
  /\ UNCHANGED <<cacheVars, toolVars, focus>>

ServicesNext == CacheMoves \/ ToolsMove \/ ConfigMoves

\* the fairness of the part that moves: no fair step of the others is possible
ServicesFairness ==
  /\ \A w \in CacheWindows :
       /\ WF_cacheVars(focus \in CacheFocuses /\ TimerFlush(w))
       /\ WF_cacheVars(focus \in CacheFocuses /\ FlushStep(w))
  /\ WF_toolVars(focus \in ToolFocuses /\ ToolsProgress)

ServicesSpec ==
  ServicesInit /\ [][ServicesNext]_servicesVars /\ ServicesFairness

\* The windows of the cache are alike: one of them is enough.
FirstDirtyIsFlushed == DirtyIsFlushed(w1)
===============================================================================
