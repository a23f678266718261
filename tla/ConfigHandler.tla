---------------------------- MODULE ConfigHandler ----------------------------
(***************************************************************************)
(* Which organisation, profile and configuration are in use                *)
(* (core/config/ConfigHandler.ts, ProfileLifecycleManager.ts).             *)
(*                                                                         *)
(* A cascade fetches the organisations and their profiles, installs them   *)
(* and reloads the configuration of the current profile.  It makes a new   *)
(* manager for every profile: <<c, o, p>> is the one that cascade c makes  *)
(* for profile p of organisation o, <<c, o>>.  A configuration is a pair:  *)
(* the version of the profile's own text that it was made of, and that of  *)
(* everything else that is read at the load.  The text of a profile other  *)
(* than the local config is what the cascade has read; the local config is *)
(* read at the load too.  Which profiles there are stays the same; what is *)
(* in their files changes.                                                 *)
(***************************************************************************)
EXTENDS Integers

CONSTANTS Orgs,
          PersonalOrg,
          FirstOrg,                    \* the first that is not personal
          LocalConfig,                 \* the profile of the user's own config
          AssistantFiles,              \* profiles in files of the workspace
          HubAssistants,               \* profiles of each organisation of the Hub
          NoOne,                       \* no organisation or profile
          MaxCascades, MaxReloads, MaxEdits, MaxSelections,   \* bounds
          HandlerCases                 \* the values of case, see below

HubProfiles == UNION {HubAssistants[o] : o \in Orgs}
ProfileIds == {LocalConfig} \cup AssistantFiles \cup HubProfiles

ASSUME ConfigAssumption ==
  /\ {MaxCascades, MaxReloads, MaxEdits, MaxSelections} \subseteq Nat
  /\ {PersonalOrg, FirstOrg} \subseteq Orgs
  /\ NoOne \notin Orgs \cup ProfileIds \cup (Nat \X Orgs) \cup (Nat \X Orgs \X ProfileIds)
  /\ HandlerCases \subseteq
       SUBSET {"bare", "onPrem", "strict", "eager", "both", "overtake"}

Cascades == 1..MaxCascades
Reloads == 1..MaxReloads
Managers == Cascades \X Orgs \X ProfileIds
Versions == 0..(MaxEdits + 1)
Configs == Versions \X Versions
NoConfig == <<0, 0>>

VARIABLES
  fetching,       \* cascades that have not ended
  fetches,        \* the organisations that each one fetches
  fromHub,        \* whether it fetches them from the Hub
  todo,           \* those whose profiles it does not have yet
  text,           \* the version of the files it has read for each, or 0
  late,           \* those whose profiles a failed fetch may still list
  cascadeSignal,  \* the abort controller that it has captured
  isLogin,
  rectified,      \* the current profile of each organisation it has fetched
  cascades,       \* cascades started
  controller,     \* the current abort controller
  signedIn,
  organizations,  \* the cascade that made them, or 0
  currentOrg, currentProfile,
  savedOrg, savedProfile,     \* the selections in the global context, by id
  selecting,      \* a selection that awaits the workspace directories
  saved,          \* savedConfigResult of each manager
  reloadAt, reloaded, loaded, \* each reload, its manager and its configuration
  reloads,        \* reloads started
  version,        \* of the sources of the configuration
  unnoticed,      \* they have changed and the handler has not been told
  told,           \* the configuration that listeners were told last
  initialized,    \* isInitialized has resolved
  selections,     \* selections made
  case            \* "bare": the workspace has no assistant files;
                  \* "onPrem": local profiles are disabled;
                  \* "strict": the policy allows no other organisations;
                  \* "eager": the user selects while a cascade runs;
                  \* "both": an organisation is selected with a profile;
                  \* "overtake": loads may end in another order

fetchVars == <<fetches, fromHub, todo, text, late, rectified>>
cascadeVars == <<fetching, fetchVars, cascadeSignal, isLogin, cascades,
                 controller, signedIn>>
selectionVars == <<organizations, currentOrg, currentProfile, savedOrg>>
reloadVars == <<saved, reloadAt, reloaded, loaded, reloads>>
sourceVars == <<version, unnoticed>>
resultVars == <<told, initialized>>
choiceVars == <<selecting, selections>>
configVars == <<cascadeVars, selectionVars, savedProfile, reloadVars, sourceVars,
                resultVars, choiceVars, case>>

Nothing == [stage |-> "none", org |-> NoOne, profile |-> NoOne, by |-> 0]

ConfigTypeOK ==
  /\ fetching \subseteq Cascades
  /\ fetches \in [Cascades -> SUBSET Orgs] /\ fromHub \in [Cascades -> BOOLEAN]
  /\ todo \in [Cascades -> SUBSET Orgs] /\ late \in [Cascades -> SUBSET Orgs]
  /\ text \in [Cascades -> [Orgs -> Versions]]
  /\ cascadeSignal \in [Cascades -> Nat] /\ controller \in Nat
  /\ isLogin \in [Cascades -> BOOLEAN]
  /\ rectified \in [Cascades -> [Orgs -> ProfileIds \cup {NoOne}]]
  /\ cascades \in 0..MaxCascades /\ signedIn \in BOOLEAN
  /\ organizations \in 0..MaxCascades
  /\ currentOrg \in (Cascades \X Orgs) \cup {NoOne}
  /\ currentProfile \in Managers \cup {NoOne}
  /\ savedOrg \in Orgs \cup {NoOne}
  /\ savedProfile \in [Orgs -> ProfileIds \cup {NoOne}]
  /\ selecting \in [stage : {"org", "profile"}, org : Orgs,
                    profile : ProfileIds \cup {NoOne}, by : Cascades] \cup {Nothing}
  /\ saved \in [Managers -> Configs]
  /\ reloadAt \in [Reloads -> {"none", "loading", "read", "over"}]
  /\ reloaded \in [Reloads -> Managers \cup {NoOne}]
  /\ \A r \in Reloads : reloadAt[r] # "none" => reloaded[r] \in Managers
  /\ loaded \in [Reloads -> Configs]
  /\ reloads \in 0..MaxReloads
  /\ version \in Versions \ {0} /\ unnoticed \in BOOLEAN
  /\ told \in Configs /\ initialized \in BOOLEAN
  /\ selections \in 0..MaxSelections
  /\ case \in HandlerCases

ConfigInit ==
  /\ fetching = {} /\ fetches = [c \in Cascades |-> {}]
  /\ fromHub = [c \in Cascades |-> FALSE]
  /\ todo = [c \in Cascades |-> {}] /\ late = [c \in Cascades |-> {}]
  /\ text = [c \in Cascades |-> [o \in Orgs |-> 0]]
  /\ cascadeSignal = [c \in Cascades |-> 0] /\ controller = 0
  /\ isLogin = [c \in Cascades |-> FALSE]
  /\ rectified = [c \in Cascades |-> [o \in Orgs |-> NoOne]]
  /\ cascades = 0 /\ organizations = 0
  /\ signedIn \in BOOLEAN
  /\ currentOrg = NoOne /\ currentProfile = NoOne
  /\ savedOrg \in Orgs \cup {NoOne}
  /\ savedProfile \in [Orgs -> ProfileIds \cup {NoOne}]
  /\ selecting = Nothing /\ selections = 0
  /\ saved = [m \in Managers |-> NoConfig]
  /\ reloadAt = [r \in Reloads |-> "none"]
  /\ reloaded = [r \in Reloads |-> NoOne]
  /\ loaded = [r \in Reloads |-> NoConfig]
  /\ reloads = 0
  /\ version = 1 /\ unnoticed = FALSE
  /\ told = NoConfig /\ initialized = FALSE
  /\ case \in HandlerCases

-----------------------------------------------------------------------------
(***************************************************************************)
(* Reloads                                                                 *)
(***************************************************************************)
\* reloadConfig, up to the await of the load: m, the current profile, forgets
\* its configuration, and so does every profile of the organisations with
\* another name; m starts a load of its own even if one is pending.
Reload(m, orgs) ==
  /\ reloads < MaxReloads
  /\ reloads' = reloads + 1
  /\ reloadAt' = [reloadAt EXCEPT ![reloads + 1] = "loading"]
  /\ reloaded' = [reloaded EXCEPT ![reloads + 1] = m]
  /\ saved' = [n \in Managers |->
                 IF n = m \/ (n[1] = orgs /\ n[3] # m[3]) THEN NoConfig ELSE saved[n]]
  /\ UNCHANGED loaded

\* Without a current profile it only tells the listeners that there is none.
TellNone == told' = NoConfig /\ UNCHANGED <<reloadVars, initialized>>

ReloadIfAny(m, orgs) ==
  IF m = NoOne THEN TellNone ELSE Reload(m, orgs) /\ UNCHANGED resultVars

\* The text of the profile that a load of m uses: of a file of the workspace, or
\* from the Hub, it is the one that the cascade has got.
TextFor(m) == IF m[3] = LocalConfig THEN version ELSE text[m[1]][m[2]]

\* doLoadConfig reads the sources,
ReadSources(r) ==
  /\ reloadAt[r] = "loading"
  /\ reloadAt' = [reloadAt EXCEPT ![r] = "read"]
  /\ loaded' = [loaded EXCEPT ![r] = <<TextFor(reloaded[r]), version>>]
  /\ UNCHANGED <<cascadeVars, selectionVars, savedProfile, saved, reloaded,
                 reloads, sourceVars, resultVars, choiceVars, case>>

\* and its result, a configuration or the error, is saved and told.
ResultUnlessSaved(r) ==
  IF saved[reloaded[r]] # NoConfig THEN saved[reloaded[r]] ELSE loaded[r]
Result(r) == loaded[r]

InOrder(r) == \A q \in 1..(r - 1) : reloadAt[q] = "over"

ReloadEnds(r) ==
  /\ reloadAt[r] = "read"
  /\ "overtake" \in case \/ InOrder(r)
  /\ reloadAt' = [reloadAt EXCEPT ![r] = "over"]
  /\ saved' = [saved EXCEPT ![reloaded[r]] = Result(r)]
  /\ told' = Result(r)
  /\ initialized' = TRUE
  /\ UNCHANGED <<cascadeVars, selectionVars, savedProfile, reloaded, loaded,
                 reloads, sourceVars, choiceVars, case>>

-----------------------------------------------------------------------------
(***************************************************************************)
(* Cascades                                                                *)
(***************************************************************************)
\* The profiles of an organisation that are listed, from the Hub or without it.
LocalProfiles(o) ==
  (IF o = PersonalOrg THEN {LocalConfig} ELSE {})
    \cup (IF "bare" \in case THEN {} ELSE AssistantFiles)
Listed(o, hub) ==
  (IF "onPrem" \in case THEN {} ELSE LocalProfiles(o))
    \cup (IF hub THEN HubAssistants[o] ELSE {})
Profiles(org) == Listed(org[2], fromHub[org[1]])

\* The organisations that the Hub lists.
HubOrgs == IF "strict" \in case THEN {{}, {FirstOrg}} ELSE {Orgs}

SignalBeforeAbort == controller
CapturedSignal == controller'

CascadeBegins(login) ==
  LET c == cascades + 1
  IN /\ cascades < MaxCascades
     /\ "eager" \in case \/ selecting = Nothing
     /\ cascades' = c
     /\ fetching' = fetching \cup {c}
     /\ \E orgs \in IF signedIn' THEN HubOrgs ELSE {{PersonalOrg}} :
          /\ fetches' = [fetches EXCEPT ![c] = orgs]
          /\ todo' = [todo EXCEPT ![c] = orgs]
     /\ fromHub' = [fromHub EXCEPT ![c] = signedIn']
     /\ cascadeSignal' = [cascadeSignal EXCEPT ![c] = CapturedSignal]
     /\ isLogin' = [isLogin EXCEPT ![c] = login]
     /\ UNCHANGED <<text, late, rectified, selectionVars, savedProfile, reloadVars,
                    sourceVars, resultVars, choiceVars, case>>

\* the constructor
Construct ==
  /\ cascades = 0
  /\ UNCHANGED <<controller, signedIn>>
  /\ CascadeBegins(FALSE)

\* refreshAll
RefreshAll ==
  /\ cascades > 0
  /\ UNCHANGED <<controller, signedIn>>
  /\ CascadeBegins(FALSE)

\* updateIdeSettings
UpdateSettings ==
  /\ cascades > 0
  /\ controller' = controller + 1
  /\ UNCHANGED signedIn
  /\ CascadeBegins(FALSE)

\* updateControlPlaneSessionInfo, on a login or a logout
UpdateSession ==
  /\ cascades > 0
  /\ controller' = controller + 1
  /\ signedIn' = ~signedIn
  /\ CascadeBegins(signedIn')

\* getLocalProfiles: the files of the workspace are read.
ReadFiles(c, o) ==
  /\ c \in fetching /\ o \in todo[c] /\ text[c][o] = 0
  /\ text' = [text EXCEPT ![c][o] = version]
  /\ UNCHANGED <<fetching, fetches, fromHub, todo, late, rectified, cascadeSignal,
                 isLogin, cascades, controller, signedIn, selectionVars,
                 savedProfile, reloadVars, sourceVars, resultVars, choiceVars, case>>

\* The current profile of o if it has the profiles ps: the saved one, or else one
\* of the Hub, or else the first.
Rectified(o, ps) ==
  IF savedProfile[o] \in ps THEN {savedProfile[o]}
  ELSE IF ps = {} THEN {NoOne}
  ELSE IF ps \cap HubProfiles # {} THEN ps \cap HubProfiles
  ELSE IF LocalConfig \in ps THEN {LocalConfig} ELSE ps

SaveProfile(o, p) ==
  savedProfile' = IF p = NoOne THEN savedProfile ELSE [savedProfile EXCEPT ![o] = p]

\* rectifyProfilesForOrg, whose await comes before it reads the selection
Rectify(c, o) ==
  /\ c \in fetching /\ o \in todo[c] /\ text[c][o] # 0
  /\ todo' = [todo EXCEPT ![c] = @ \ {o}]
  /\ \E p \in Rectified(o, Listed(o, fromHub[c])) :
       rectified' = [rectified EXCEPT ![c][o] = p] /\ SaveProfile(o, p)
  /\ UNCHANGED <<fetching, fetches, fromHub, text, late, cascadeSignal, isLogin,
                 cascades, controller, signedIn, selectionVars, reloadVars,
                 sourceVars, resultVars, choiceVars, case>>

\* The Hub fails for an organisation: all are forgotten and the local profiles
\* have to do.  What is under way for the others goes on.
HubFails(c) ==
  /\ c \in fetching /\ fromHub[c]
  /\ \E o \in todo[c] : late' = [late EXCEPT ![c] = todo[c] \ {o}]
  /\ fromHub' = [fromHub EXCEPT ![c] = FALSE]
  /\ fetches' = [fetches EXCEPT ![c] = {PersonalOrg}]
  /\ todo' = [todo EXCEPT ![c] = {PersonalOrg}]
  /\ text' = [text EXCEPT ![c] = [o \in Orgs |-> 0]]
  /\ rectified' = [rectified EXCEPT ![c] = [o \in Orgs |-> NoOne]]
  /\ UNCHANGED <<fetching, cascadeSignal, isLogin, cascades, controller, signedIn,
                 selectionVars, savedProfile, reloadVars, sourceVars, resultVars,
                 choiceVars, case>>

RectifyLate(c, o) ==
  /\ o \in late[c]
  /\ late' = [late EXCEPT ![c] = @ \ {o}]
  /\ \E p \in Rectified(o, Listed(o, TRUE)) : SaveProfile(o, p)
  /\ UNCHANGED <<fetching, fetches, fromHub, todo, text, rectified, cascadeSignal,
                 isLogin, cascades, controller, signedIn, selectionVars, reloadVars,
                 sourceVars, resultVars, choiceVars, case>>

\* The local profiles cannot be listed: there is no organisation.
LocalFails(c) ==
  /\ c \in fetching /\ ~fromHub[c] /\ todo[c] # {}
  /\ fetches' = [fetches EXCEPT ![c] = {}]
  /\ todo' = [todo EXCEPT ![c] = {}]
  /\ UNCHANGED <<fetching, fromHub, text, late, rectified, cascadeSignal, isLogin,
                 cascades, controller, signedIn, selectionVars, savedProfile,
                 reloadVars, sourceVars, resultVars, choiceVars, case>>

NeverAborted(c) == FALSE
Aborted(c) == cascadeSignal[c] # controller

CascadeLeaves(c) ==
  /\ c \in fetching
  /\ fetching' = fetching \ {c}
  /\ UNCHANGED <<fetchVars, cascadeSignal, isLogin, cascades, controller, signedIn,
                 savedProfile, sourceVars, choiceVars, case>>

CascadeAborted(c) ==
  /\ Aborted(c)
  /\ CascadeLeaves(c)
  /\ UNCHANGED <<selectionVars, reloadVars, resultVars>>

Selected(c) ==
  IF savedOrg \in fetches[c] /\ ~(isLogin[c] /\ savedOrg = PersonalOrg) THEN savedOrg
  ELSE IF FirstOrg \in fetches[c] THEN FirstOrg
  ELSE IF PersonalOrg \in fetches[c] THEN PersonalOrg ELSE NoOne

\* An organisation, and the manager of its current profile if it has one.
OrgOf(c, o) == IF o = NoOne THEN NoOne ELSE <<c, o>>
ManagerUnchecked(c, o) == IF o = NoOne THEN NoOne ELSE <<c, o, rectified[c][o]>>
ManagerOf(c, o) ==
  IF o = NoOne \/ rectified[c][o] = NoOne THEN NoOne ELSE <<c, o, rectified[c][o]>>

Install(c) ==
  /\ ~Aborted(c) /\ todo[c] = {}
  /\ CascadeLeaves(c)
  /\ organizations' = c
  /\ savedOrg' = Selected(c)
  /\ currentOrg' = OrgOf(c, Selected(c))
  /\ currentProfile' = ManagerOf(c, Selected(c))
  /\ ReloadIfAny(ManagerOf(c, Selected(c)), c)

\* An error outside the handlers of getOrgs counts as init.
CascadeFails(c) ==
  /\ CascadeLeaves(c)
  /\ initialized' = (initialized \/ ~Aborted(c))
  /\ UNCHANGED <<selectionVars, reloadVars, told>>

-----------------------------------------------------------------------------
(***************************************************************************)
(* The user                                                                *)
(***************************************************************************)
EditSources ==
  /\ version <= MaxEdits
  /\ cascades > 0
  /\ version' = version + 1
  /\ unnoticed' = TRUE
  /\ UNCHANGED <<cascadeVars, selectionVars, savedProfile, reloadVars,
                 resultVars, choiceVars, case>>

\* The core hears of the saved file and reloads the current profile.
NoticeEdit ==
  /\ unnoticed /\ unnoticed' = FALSE
  /\ ReloadIfAny(currentProfile, organizations)
  /\ UNCHANGED <<cascadeVars, selectionVars, savedProfile, version, choiceVars, case>>

\* setSelectedOrgId up to the await of the workspace directories, with a profile
\* or without one
SelectOrg(o, p) ==
  /\ organizations # 0 /\ o \in fetches[organizations]
  /\ "eager" \in case \/ fetching = {}
  /\ "both" \in case \/ p = NoOne
  /\ selecting = Nothing /\ selections < MaxSelections
  /\ currentOrg # NoOne => currentOrg[2] # o
  /\ selections' = selections + 1
  /\ selecting' = [stage |-> "org", org |-> o, profile |-> p, by |-> organizations]
  /\ UNCHANGED <<cascadeVars, selectionVars, savedProfile, reloadVars, sourceVars,
                 resultVars, case>>

\* setSelectedProfileId returns at once if the profile is current and throws if
\* the organisation does not have it.
IsCurrent(p) == currentProfile # NoOne /\ currentProfile[3] = p

SelectProfile(p) ==
  /\ currentOrg # NoOne /\ p \in Profiles(currentOrg) /\ ~IsCurrent(p)
  /\ "eager" \in case \/ fetching = {}
  /\ selecting = Nothing /\ selections < MaxSelections
  /\ selections' = selections + 1
  /\ selecting' = [stage |-> "profile", org |-> currentOrg[2], profile |-> p,
                   by |-> currentOrg[1]]
  /\ UNCHANGED <<cascadeVars, selectionVars, savedProfile, reloadVars, sourceVars,
                 resultVars, case>>

\* and after it
KeepSelection(o) == savedOrg
SaveSelection(o) == o

OrgSelected ==
  LET o == selecting.org
      c == selecting.by
      p == selecting.profile
  IN /\ selecting.stage = "org"
     /\ savedOrg' = SaveSelection(o)
     /\ currentOrg' = <<c, o>>
     /\ IF p = NoOne
        THEN /\ selecting' = Nothing
             /\ currentProfile' = ManagerOf(c, o)
             /\ ReloadIfAny(ManagerOf(c, o), organizations)
        ELSE /\ selecting' = IF IsCurrent(p) \/ p \notin Profiles(<<c, o>>)
                             THEN Nothing
                             ELSE [selecting EXCEPT !.stage = "profile"]
             /\ UNCHANGED <<currentProfile, reloadVars, resultVars>>
     /\ UNCHANGED <<cascadeVars, organizations, savedProfile, sourceVars,
                    selections, case>>

ProfileSelected ==
  LET m == <<selecting.by, selecting.org, selecting.profile>>
  IN /\ selecting.stage = "profile"
     /\ selecting' = Nothing
     /\ SaveProfile(selecting.org, selecting.profile)
     /\ currentProfile' = m
     /\ Reload(m, organizations)
     /\ UNCHANGED <<cascadeVars, organizations, currentOrg, savedOrg, sourceVars,
                    resultVars, selections, case>>

-----------------------------------------------------------------------------
CascadeStep(c) ==
  \/ \E o \in Orgs : ReadFiles(c, o) \/ Rectify(c, o) \/ RectifyLate(c, o)
  \/ HubFails(c) \/ LocalFails(c)
  \/ CascadeAborted(c) \/ Install(c) \/ CascadeFails(c)

Selects ==
  \/ \E o \in Orgs, p \in ProfileIds \cup {NoOne} : SelectOrg(o, p)
  \/ \E p \in ProfileIds : SelectProfile(p)

ConfigNext ==
  \/ Construct \/ RefreshAll \/ UpdateSettings \/ UpdateSession
  \/ \E c \in Cascades : CascadeStep(c)
  \/ \E r \in Reloads : ReadSources(r) \/ ReloadEnds(r)
  \/ EditSources \/ NoticeEdit
  \/ Selects \/ OrgSelected \/ ProfileSelected

ConfigSpec == ConfigInit /\ [][ConfigNext]_configVars

-----------------------------------------------------------------------------
(***************************************************************************)
(* Properties                                                              *)
(***************************************************************************)
\* Unless selections and cascades overlap, what is current was made by the
\* cascade that made the organisations, and the organisation is the one that the
\* next start of the editor will select.  The current profile is one of those
\* that the current organisation has, and there is none only if it has none:
\* this may fail after an organisation was selected together with a profile.
SelectionIsConsistent ==
  ("eager" \notin case /\ organizations # 0) =>
    /\ savedOrg = IF currentOrg = NoOne THEN NoOne ELSE currentOrg[2]
    /\ currentOrg # NoOne => currentOrg[1] = organizations
    /\ currentProfile # NoOne => currentProfile[1] = organizations
    /\ "both" \notin case =>
         IF currentProfile = NoOne
         THEN currentOrg = NoOne \/ Profiles(currentOrg) = {}
         ELSE /\ currentOrg = <<currentProfile[1], currentProfile[2]>>
              /\ currentProfile[3] \in Profiles(currentOrg)

AllOver == InOrder(reloads + 1) /\ fetching = {} /\ selecting = Nothing /\ ~unnoticed

\* When nothing is under way and loads have ended in the order in which they
\* began, the current profile and the listeners have the configuration that the
\* sources have now, however selections, cascades and edits overlapped.  The
\* text of an assistant file is that of the cascade that has found it, though:
\* a reload does not read it again.
QuietConfigIsCurrent ==
  (AllOver /\ "overtake" \notin case /\ currentProfile # NoOne) =>
    /\ saved[currentProfile] = <<TextFor(currentProfile), version>>
    /\ told = saved[currentProfile]

\* The organisations of a session are never replaced by what a cascade of an
\* earlier session fetched: those cascades are aborted.
OrgsNeverGoBack ==
  [][(organizations # 0 /\ organizations' # 0) =>
       cascadeSignal[organizations'] >= cascadeSignal[organizations]]_configVars

\* When nothing is under way, isInitialized has resolved, whatever failed or was
\* aborted: every message of the core waits for it.  It has not, only if
\* organisations are installed of which the current one has no profile, or none
\* at all.
QuietIsInitialized ==
  (AllOver /\ cascades > 0 /\ ~initialized) =>
    organizations # 0 /\ currentProfile = NoOne
=============================================================================
