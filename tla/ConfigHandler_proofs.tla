------------------------- MODULE ConfigHandler_proofs -------------------------
(***************************************************************************)
(* Theorems about ConfigHandler: its types, that the selection is          *)
(* consistent, that the organisations of an earlier session never come     *)
(* back, and what holds when nothing is under way.  ConfigInv is inductive.*)
(***************************************************************************)
EXTENDS ConfigHandler, TLAPS

-----------------------------------------------------------------------------
\* What is under way, installed or selected from belongs to a cascade that has
\* begun; what is installed or selected from, to one that has ended.
Begun ==
  /\ fetching \subseteq 1..cascades
  /\ organizations \in (0..cascades) \ fetching
  /\ currentOrg # NoOne =>
       organizations # 0 /\ currentOrg[1] \in (1..cascades) \ fetching
  /\ currentProfile # NoOne => currentProfile[1] \in (1..cascades) \ fetching
  /\ selecting # Nothing =>
       organizations # 0 /\ selecting.by \in (1..cascades) \ fetching

\* The controller only grows: a cascade holds it or one of its past values.
SignalsArePast == \A c \in Cascades : cascadeSignal[c] <= controller

\* The current profile of an organisation is one of those it lists, and once it
\* has been fetched there is one unless it lists none.
Known(c, o) ==
  /\ rectified[c][o] # NoOne => rectified[c][o] \in Listed(o, fromHub[c])
  /\ (o \in fetches[c] \ todo[c] /\ rectified[c][o] = NoOne) =>
       Listed(o, fromHub[c]) = {}
  /\ c > cascades => rectified[c][o] = NoOne

\* What can be selected has been fetched.
Fetched ==
  /\ organizations # 0 => todo[organizations] = {}
  /\ currentOrg # NoOne => todo[currentOrg[1]] = {}
  /\ selecting # Nothing =>
       /\ todo[selecting.by] = {}
       /\ selecting.stage = "org" => selecting.org \in fetches[selecting.by]
       /\ selecting.stage = "profile" =>
            selecting.profile \in Listed(selecting.org, fromHub[selecting.by])

ProfilesAreKnown == (\A c \in Cascades, o \in Orgs : Known(c, o)) /\ Fetched

\* Without overlap a selection is among the organisations in use, and a profile
\* is selected in the current one.
SelectsInUse ==
  /\ (selecting.stage = "org" /\ "both" \notin case) => selecting.profile = NoOne
  /\ ("eager" \notin case /\ selecting # Nothing) =>
       /\ fetching = {} /\ selecting.by = organizations
       /\ selecting.stage = "profile" =>
            currentOrg = <<selecting.by, selecting.org>>

ConfigInv ==
  /\ ConfigTypeOK /\ Begun /\ SignalsArePast
  /\ ProfilesAreKnown /\ SelectsInUse /\ SelectionIsConsistent

-----------------------------------------------------------------------------
LEMMA InitInv == ConfigInit => ConfigInv
<1> SUFFICES ASSUME ConfigInit PROVE ConfigInv
  OBVIOUS
<1>1. ConfigTypeOK
  <2>1. /\ fetching \subseteq Cascades /\ fetches \in [Cascades -> SUBSET Orgs]
        /\ fromHub \in [Cascades -> BOOLEAN]
        /\ todo \in [Cascades -> SUBSET Orgs] /\ late \in [Cascades -> SUBSET Orgs]
        /\ cascadeSignal \in [Cascades -> Nat] /\ controller \in Nat
        /\ isLogin \in [Cascades -> BOOLEAN]
        /\ rectified \in [Cascades -> [Orgs -> ProfileIds \cup {NoOne}]]
    BY DEF ConfigInit
  <2>2. 0 \in Versions /\ 1 \in Versions /\ NoConfig \in Configs
    BY ConfigAssumption DEF Versions, Configs, NoConfig
  <2>3. /\ cascades \in 0..MaxCascades /\ organizations \in 0..MaxCascades
        /\ reloads \in 0..MaxReloads /\ selections \in 0..MaxSelections
        /\ version \in Versions \ {0} /\ told \in Configs
        /\ text \in [Cascades -> [Orgs -> Versions]]
    BY <2>2, ConfigAssumption DEF ConfigInit
  <2>4. /\ saved \in [Managers -> Configs]
        /\ reloadAt \in [Reloads -> {"none", "loading", "read", "over"}]
        /\ reloaded \in [Reloads -> Managers \cup {NoOne}]
        /\ loaded \in [Reloads -> Configs]
    BY <2>2 DEF ConfigInit
  <2>5. QED
    BY <2>1, <2>3, <2>4 DEF ConfigInit, ConfigTypeOK
<1>2. \A c \in Cascades, o \in Orgs : Known(c, o)
  BY DEF ConfigInit, Known
<1>3. Begun /\ SignalsArePast /\ Fetched /\ SelectsInUse /\ SelectionIsConsistent
  BY DEF ConfigInit, Begun, SignalsArePast, Fetched, SelectsInUse,
         SelectionIsConsistent, Nothing
<1>4. QED
  BY <1>1, <1>2, <1>3 DEF ConfigInv, ProfilesAreKnown

\* A selection is not Nothing, whose stage is none.
LEMMA SelectionIsSomething ==
  ASSUME ConfigTypeOK
  PROVE  /\ selecting # Nothing =>
              /\ selecting.stage \in {"org", "profile"} /\ selecting.org \in Orgs
              /\ selecting.profile \in ProfileIds \cup {NoOne}
              /\ selecting.by \in Cascades
         /\ selecting.stage # "none" => selecting # Nothing
<1>1. Nothing.stage = "none"
  BY DEF Nothing
<1>2. QED
  BY <1>1 DEF ConfigTypeOK

LEMMA ListedType ==
  ASSUME NEW o \in Orgs, NEW hub
  PROVE  Listed(o, hub) \subseteq ProfileIds
BY DEF Listed, LocalProfiles, ProfileIds, HubProfiles

\* What rectifyProfilesForOrg may choose.
LEMMA RectifiedIsListed ==
  ASSUME NEW o \in Orgs, NEW ps \in SUBSET ProfileIds, NEW p \in Rectified(o, ps)
  PROVE  IF p = NoOne THEN ps = {} ELSE p \in ps
<1>1. NoOne \notin ps
  BY ConfigAssumption
<1>2. QED
  BY <1>1 DEF Rectified

LEMMA SaveType ==
  ASSUME ConfigTypeOK, NEW o \in Orgs, NEW p \in ProfileIds \cup {NoOne},
         SaveProfile(o, p)
  PROVE  savedProfile' \in [Orgs -> ProfileIds \cup {NoOne}]
BY DEF ConfigTypeOK, SaveProfile

\* A step that leaves alone what a cascade has fetched, the selection and the
\* case leaves every part of ConfigInv alone but the types.
LEMMA OnlyTypes ==
  ASSUME ConfigInv, ConfigTypeOK',
         UNCHANGED <<fetching, fetches, fromHub, todo, rectified, cascadeSignal,
                     cascades, controller, selectionVars, selecting, case>>
  PROVE  ConfigInv'
<1>1. \A c \in Cascades, o \in Orgs : Known(c, o)'
  BY DEF ConfigInv, ProfilesAreKnown, Known, Listed, LocalProfiles
<1>2. Fetched'
  BY DEF selectionVars, ConfigInv, ProfilesAreKnown, Fetched, Listed, LocalProfiles
<1>3. Begun' /\ SignalsArePast' /\ SelectsInUse'
  BY DEF selectionVars, ConfigInv, Begun, SignalsArePast, SelectsInUse
<1>4. SelectionIsConsistent'
  BY DEF selectionVars, ConfigInv, SelectionIsConsistent, Profiles, Listed,
         LocalProfiles
<1>5. QED
  BY <1>1, <1>2, <1>3, <1>4 DEF ConfigInv, ProfilesAreKnown

\* A new cascade takes a number that nothing uses.
LEMMA CascadeBeginsInv ==
  ASSUME ConfigInv, NEW login \in BOOLEAN, CascadeBegins(login),
         controller' \in Nat, controller' >= controller, signedIn' \in BOOLEAN
  PROVE  ConfigInv'
<1> DEFINE c == cascades + 1
<1>a. ConfigTypeOK /\ Begun /\ SignalsArePast
  BY DEF ConfigInv
<1>o. PICK orgs \in IF signedIn' THEN HubOrgs ELSE {{PersonalOrg}} :
         /\ fetches' = [fetches EXCEPT ![c] = orgs]
         /\ todo' = [todo EXCEPT ![c] = orgs]
  BY DEF CascadeBegins
<1>b. /\ c \in Cascades /\ cascades' = c /\ fetching' = fetching \cup {c}
      /\ fromHub' = [fromHub EXCEPT ![c] = signedIn']
      /\ cascadeSignal' = [cascadeSignal EXCEPT ![c] = controller']
      /\ isLogin' = [isLogin EXCEPT ![c] = login]
      /\ "eager" \in case \/ selecting = Nothing
      /\ orgs \subseteq Orgs
  BY <1>a, ConfigAssumption
     DEF CascadeBegins, CapturedSignal, ConfigTypeOK, Cascades, HubOrgs
<1>c. UNCHANGED <<text, late, rectified, selectionVars, savedProfile, reloadVars,
                  sourceVars, resultVars, choiceVars, case>>
  BY DEF CascadeBegins
<1> USE DEF selectionVars, reloadVars, sourceVars, resultVars, choiceVars
<1>1. ConfigTypeOK'
  <2>1. fetching' \subseteq Cascades /\ cascades' \in 0..MaxCascades
    BY <1>a, <1>b, ConfigAssumption DEF ConfigTypeOK, Cascades
  <2>2. /\ fetches' \in [Cascades -> SUBSET Orgs]
        /\ todo' \in [Cascades -> SUBSET Orgs]
    BY <1>a, <1>b, <1>o DEF ConfigTypeOK
  <2>3. /\ cascadeSignal' \in [Cascades -> Nat] /\ isLogin' \in [Cascades -> BOOLEAN]
        /\ fromHub' \in [Cascades -> BOOLEAN]
    BY <1>a, <1>b DEF ConfigTypeOK
  <2>4. organizations' \in 0..MaxCascades
    BY <1>a, <1>c DEF ConfigTypeOK
  <2>5. QED
    BY <1>a, <1>c, <2>1, <2>2, <2>3, <2>4 DEF ConfigTypeOK
<1>2. Begun'
  <2>1. (1..cascades) \ fetching \subseteq (1..cascades') \ fetching'
    BY <1>a, <1>b DEF ConfigTypeOK
  <2>2. fetching' \subseteq 1..cascades'
    BY <1>a, <1>b DEF Begun, ConfigTypeOK
  <2>3. (0..cascades) \ fetching \subseteq (0..cascades') \ fetching'
    BY <1>a, <1>b DEF ConfigTypeOK
  <2>4. organizations' \in (0..cascades') \ fetching'
    BY <1>a, <1>c, <2>3 DEF Begun
  <2>5. selecting' # Nothing =>
          organizations' # 0 /\ selecting'.by \in (1..cascades') \ fetching'
    BY <1>a, <1>c, <2>1 DEF Begun
  <2>6. /\ currentOrg' # NoOne =>
             organizations' # 0 /\ currentOrg'[1] \in (1..cascades') \ fetching'
        /\ currentProfile' # NoOne => currentProfile'[1] \in (1..cascades') \ fetching'
    BY <1>a, <1>c, <2>1 DEF Begun
  <2>7. QED
    BY <2>2, <2>4, <2>5, <2>6 DEF Begun
<1>3. SignalsArePast'
  BY <1>a, <1>b DEF SignalsArePast, ConfigTypeOK
<1>d. \A d \in Cascades : d # c => /\ fetches'[d] = fetches[d]
                                   /\ todo'[d] = todo[d] /\ fromHub'[d] = fromHub[d]
  BY <1>a, <1>b, <1>o DEF ConfigTypeOK
<1>e. /\ organizations # c /\ (selecting # Nothing => selecting.by # c)
      /\ organizations # 0 => organizations \in Cascades
      /\ currentOrg # NoOne => currentOrg[1] \in Cascades /\ currentOrg[1] # c
  BY <1>a, ConfigAssumption DEF Begun, ConfigTypeOK, Cascades
<1>4. ASSUME NEW d \in Cascades, NEW o \in Orgs PROVE Known(d, o)'
  <2>1. Known(d, o) /\ Known(c, o)
    BY <1>b DEF ConfigInv, ProfilesAreKnown
  <2>2. CASE d # c
    BY <1>a, <1>b, <1>c, <1>d, <2>1, <2>2
       DEF Known, Listed, LocalProfiles, ConfigTypeOK, Cascades
  <2>3. CASE d = c
    <3>1. c > cascades /\ ~(c > cascades')
      BY <1>a, <1>b DEF ConfigTypeOK
    <3>2. rectified'[c][o] = NoOne
      BY <1>c, <2>1, <3>1 DEF Known
    <3>3. fetches'[c] = orgs /\ todo'[c] = orgs
      BY <1>a, <1>b, <1>o DEF ConfigTypeOK
    <3>4. QED
      BY <2>3, <3>1, <3>2, <3>3 DEF Known
  <2>4. QED
    BY <2>2, <2>3
<1>5. Fetched'
  BY <1>a, <1>c, <1>d, <1>e, SelectionIsSomething
     DEF ConfigInv, ProfilesAreKnown, Fetched, Listed, LocalProfiles
<1>6. SelectsInUse'
  <2>1. selecting = Nothing => selecting.stage = "none"
    BY DEF Nothing
  <2>2. QED
    BY <1>b, <1>c, <2>1 DEF ConfigInv, SelectsInUse
<1>7. SelectionIsConsistent'
  BY <1>c, <1>d, <1>e
     DEF ConfigInv, SelectionIsConsistent, Profiles, Listed, LocalProfiles
<1>8. QED
  BY <1>1, <1>2, <1>3, <1>4, <1>5, <1>6, <1>7 DEF ConfigInv, ProfilesAreKnown

\* A reload forgets configurations and adds an entry.
LEMMA ReloadType ==
  ASSUME ConfigTypeOK, NEW m \in Managers, NEW orgs, Reload(m, orgs)
  PROVE  /\ saved' \in [Managers -> Configs]
         /\ reloadAt' \in [Reloads -> {"none", "loading", "read", "over"}]
         /\ reloaded' \in [Reloads -> Managers \cup {NoOne}]
         /\ loaded' \in [Reloads -> Configs]
         /\ reloads' \in 0..MaxReloads
         /\ \A r \in Reloads : reloadAt'[r] # "none" => reloaded'[r] \in Managers
<1>1. reloads + 1 \in Reloads
  BY ConfigAssumption DEF Reload, ConfigTypeOK, Reloads
<1>2. NoConfig \in Configs
  BY ConfigAssumption DEF Versions, Configs, NoConfig
<1>3. saved' \in [Managers -> Configs]
  BY <1>2 DEF Reload, ConfigTypeOK
<1>4. reloads' \in 0..MaxReloads
  BY <1>1 DEF Reload, ConfigTypeOK, Reloads
<1>5. /\ reloadAt' = [reloadAt EXCEPT ![reloads + 1] = "loading"]
      /\ reloaded' = [reloaded EXCEPT ![reloads + 1] = m]
      /\ loaded' = loaded
  BY DEF Reload
<1>6. /\ reloadAt' \in [Reloads -> {"none", "loading", "read", "over"}]
      /\ reloaded' \in [Reloads -> Managers \cup {NoOne}]
      /\ loaded' \in [Reloads -> Configs]
  BY <1>1, <1>5 DEF ConfigTypeOK
<1>7. ASSUME NEW r \in Reloads, reloadAt'[r] # "none" PROVE reloaded'[r] \in Managers
  BY <1>1, <1>5, <1>7 DEF ConfigTypeOK
<1>8. QED
  BY <1>3, <1>4, <1>6, <1>7

\* Without a current profile, a reload only tells.
LEMMA ReloadIfAnyType ==
  ASSUME ConfigTypeOK, NEW m \in Managers \cup {NoOne}, NEW orgs, ReloadIfAny(m, orgs)
  PROVE  /\ saved' \in [Managers -> Configs]
         /\ reloadAt' \in [Reloads -> {"none", "loading", "read", "over"}]
         /\ reloaded' \in [Reloads -> Managers \cup {NoOne}]
         /\ loaded' \in [Reloads -> Configs]
         /\ reloads' \in 0..MaxReloads
         /\ told' \in Configs /\ initialized' = initialized
         /\ \A r \in Reloads : reloadAt'[r] # "none" => reloaded'[r] \in Managers
<1>1. CASE m = NoOne
  <2>1. NoConfig \in Configs
    BY ConfigAssumption DEF Versions, Configs, NoConfig
  <2>2. QED
    BY <1>1, <2>1 DEF ReloadIfAny, TellNone, reloadVars, ConfigTypeOK
<1>2. CASE m # NoOne
  <2>1. Reload(m, orgs) /\ UNCHANGED resultVars /\ m \in Managers
    BY <1>2 DEF ReloadIfAny
  <2>2. QED
    BY <2>1, ReloadType DEF resultVars, ConfigTypeOK
<1>3. QED
  BY <1>1, <1>2

-----------------------------------------------------------------------------
(***************************************************************************)
(* Cascades                                                                *)
(***************************************************************************)
\* What a running cascade fetches is its own: nothing is selected from it yet.
LEMMA FetchInv ==
  ASSUME ConfigInv, NEW c \in Cascades, c \in fetching, ConfigTypeOK',
         \A o \in Orgs : Known(c, o)',
         \A d \in Cascades : d # c =>
            /\ fetches'[d] = fetches[d] /\ todo'[d] = todo[d]
            /\ fromHub'[d] = fromHub[d] /\ rectified'[d] = rectified[d],
         UNCHANGED <<fetching, cascadeSignal, cascades, controller, selectionVars,
                     selecting, case>>
  PROVE  ConfigInv'
<1> USE DEF selectionVars
<1>a. ConfigTypeOK /\ Begun
  BY DEF ConfigInv
<1>b. /\ organizations # c /\ (selecting # Nothing => selecting.by # c)
      /\ organizations # 0 => organizations \in Cascades
      /\ currentOrg # NoOne => currentOrg[1] \in Cascades /\ currentOrg[1] # c
  BY <1>a, ConfigAssumption DEF Begun, ConfigTypeOK, Cascades
<1>1. ASSUME NEW d \in Cascades, NEW o \in Orgs PROVE Known(d, o)'
  <2>1. Known(d, o)
    BY DEF ConfigInv, ProfilesAreKnown
  <2>2. CASE d = c
    BY <2>2
  <2>3. CASE d # c
    BY <2>1, <2>3 DEF Known, Listed, LocalProfiles
  <2>4. QED
    BY <2>2, <2>3
<1>2. Fetched'
  BY <1>a, <1>b, SelectionIsSomething
     DEF ConfigInv, ProfilesAreKnown, Fetched, Listed, LocalProfiles
<1>3. Begun' /\ SignalsArePast' /\ SelectsInUse'
  BY DEF ConfigInv, Begun, SignalsArePast, SelectsInUse
<1>4. SelectionIsConsistent'
  BY <1>b DEF ConfigInv, SelectionIsConsistent, Profiles, Listed, LocalProfiles
<1>5. QED
  BY <1>1, <1>2, <1>3, <1>4 DEF ConfigInv, ProfilesAreKnown

LEMMA ReadFilesInv ==
  ASSUME ConfigInv, NEW c \in Cascades, NEW o \in Orgs, ReadFiles(c, o)
  PROVE  ConfigInv'
<1>1. text' \in [Cascades -> [Orgs -> Versions]]
  BY DEF ReadFiles, ConfigInv, ConfigTypeOK
<1>2. ConfigTypeOK'
  BY <1>1 DEF ReadFiles, selectionVars, reloadVars, sourceVars, resultVars,
              choiceVars, ConfigInv, ConfigTypeOK
<1>3. QED
  BY <1>2, OnlyTypes DEF ReadFiles, choiceVars

LEMMA RectifyLateInv ==
  ASSUME ConfigInv, NEW c \in Cascades, NEW o \in Orgs, RectifyLate(c, o)
  PROVE  ConfigInv'
<1>1. PICK p \in Rectified(o, Listed(o, TRUE)) : SaveProfile(o, p)
  BY DEF RectifyLate
<1>2. p \in ProfileIds \cup {NoOne}
  BY ListedType, RectifiedIsListed
<1>3. savedProfile' \in [Orgs -> ProfileIds \cup {NoOne}]
  BY <1>1, <1>2, SaveType DEF ConfigInv
<1>4. late' \in [Cascades -> SUBSET Orgs]
  BY DEF RectifyLate, ConfigInv, ConfigTypeOK
<1>5. ConfigTypeOK'
  BY <1>3, <1>4 DEF RectifyLate, selectionVars, reloadVars, sourceVars, resultVars,
                    choiceVars, ConfigInv, ConfigTypeOK
<1>6. QED
  BY <1>5, OnlyTypes DEF RectifyLate, choiceVars

LEMMA RectifyInv ==
  ASSUME ConfigInv, NEW c \in Cascades, NEW o \in Orgs, Rectify(c, o)
  PROVE  ConfigInv'
<1>1. PICK p \in Rectified(o, Listed(o, fromHub[c])) :
        rectified' = [rectified EXCEPT ![c][o] = p] /\ SaveProfile(o, p)
  BY DEF Rectify
<1>2. /\ p \in ProfileIds \cup {NoOne}
      /\ IF p = NoOne THEN Listed(o, fromHub[c]) = {} ELSE p \in Listed(o, fromHub[c])
  BY ListedType, RectifiedIsListed
<1>3. savedProfile' \in [Orgs -> ProfileIds \cup {NoOne}]
  BY <1>1, <1>2, SaveType DEF ConfigInv
<1>4. /\ c \in fetching /\ todo' = [todo EXCEPT ![c] = @ \ {o}]
      /\ UNCHANGED <<fetching, fetches, fromHub, text, late, cascadeSignal, isLogin,
                     cascades, controller, signedIn, selectionVars, reloadVars,
                     sourceVars, resultVars, choiceVars, case>>
  BY DEF Rectify
<1>5. /\ rectified' \in [Cascades -> [Orgs -> ProfileIds \cup {NoOne}]]
      /\ todo' \in [Cascades -> SUBSET Orgs]
  BY <1>1, <1>2, <1>4 DEF ConfigInv, ConfigTypeOK
<1>6. ConfigTypeOK'
  BY <1>3, <1>4, <1>5 DEF selectionVars, reloadVars, sourceVars, resultVars,
                          choiceVars, ConfigInv, ConfigTypeOK
<1>7. ASSUME NEW n \in Orgs PROVE Known(c, n)'
  <2>1. Known(c, n) /\ ConfigTypeOK /\ c \in 1..cascades
    BY <1>4 DEF ConfigInv, ProfilesAreKnown, Begun
  <2>2. /\ rectified'[c][n] = IF n = o THEN p ELSE rectified[c][n]
        /\ todo'[c] = todo[c] \ {o}
    BY <1>1, <1>4, <2>1 DEF ConfigTypeOK
  <2>3. ~(c > cascades') /\ cascades' = cascades
    BY <1>4, <2>1 DEF ConfigTypeOK
  <2>4. QED
    BY <1>2, <1>4, <2>1, <2>2, <2>3 DEF Known, Listed, LocalProfiles
<1>8. \A d \in Cascades : d # c =>
        /\ fetches'[d] = fetches[d] /\ todo'[d] = todo[d]
        /\ fromHub'[d] = fromHub[d] /\ rectified'[d] = rectified[d]
  BY <1>1, <1>4 DEF ConfigInv, ConfigTypeOK
<1>9. QED
  BY <1>4, <1>6, <1>7, <1>8, FetchInv DEF choiceVars

LEMMA HubFailsInv ==
  ASSUME ConfigInv, NEW c \in Cascades, HubFails(c)
  PROVE  ConfigInv'
<1>1. /\ c \in fetching
      /\ late' \in [Cascades -> SUBSET Orgs]
      /\ fromHub' = [fromHub EXCEPT ![c] = FALSE]
      /\ fetches' = [fetches EXCEPT ![c] = {PersonalOrg}]
      /\ todo' = [todo EXCEPT ![c] = {PersonalOrg}]
      /\ text' = [text EXCEPT ![c] = [o \in Orgs |-> 0]]
      /\ rectified' = [rectified EXCEPT ![c] = [o \in Orgs |-> NoOne]]
      /\ UNCHANGED <<fetching, cascadeSignal, isLogin, cascades, controller, signedIn,
                     selectionVars, savedProfile, reloadVars, sourceVars, resultVars,
                     choiceVars, case>>
  BY DEF HubFails, ConfigInv, ConfigTypeOK
<1>a. ConfigTypeOK /\ Begun
  BY DEF ConfigInv
<1>2. 0 \in Versions
  BY ConfigAssumption DEF Versions
<1>3. /\ rectified' \in [Cascades -> [Orgs -> ProfileIds \cup {NoOne}]]
      /\ fetches' \in [Cascades -> SUBSET Orgs] /\ todo' \in [Cascades -> SUBSET Orgs]
      /\ fromHub' \in [Cascades -> BOOLEAN]
      /\ text' \in [Cascades -> [Orgs -> Versions]]
  BY <1>1, <1>2, <1>a, ConfigAssumption DEF ConfigTypeOK
<1>4. ConfigTypeOK'
  BY <1>1, <1>3, <1>a DEF selectionVars, reloadVars, sourceVars, resultVars,
                          choiceVars, ConfigTypeOK
<1>5. ASSUME NEW n \in Orgs PROVE Known(c, n)'
  <2>1. /\ rectified'[c][n] = NoOne /\ fetches'[c] = {PersonalOrg}
        /\ todo'[c] = {PersonalOrg}
    BY <1>1, <1>a DEF ConfigTypeOK
  <2>2. QED
    BY <2>1 DEF Known
<1>6. \A d \in Cascades : d # c =>
        /\ fetches'[d] = fetches[d] /\ todo'[d] = todo[d]
        /\ fromHub'[d] = fromHub[d] /\ rectified'[d] = rectified[d]
  BY <1>1, <1>a DEF ConfigTypeOK
<1>7. QED
  BY <1>1, <1>4, <1>5, <1>6, FetchInv DEF choiceVars

LEMMA LocalFailsInv ==
  ASSUME ConfigInv, NEW c \in Cascades, LocalFails(c)
  PROVE  ConfigInv'
<1>1. /\ c \in fetching
      /\ fetches' = [fetches EXCEPT ![c] = {}] /\ todo' = [todo EXCEPT ![c] = {}]
      /\ UNCHANGED <<fetching, fromHub, text, late, rectified, cascadeSignal, isLogin,
                     cascades, controller, signedIn, selectionVars, savedProfile,
                     reloadVars, sourceVars, resultVars, choiceVars, case>>
  BY DEF LocalFails
<1>a. ConfigTypeOK /\ Begun
  BY DEF ConfigInv
<1>2. fetches' \in [Cascades -> SUBSET Orgs] /\ todo' \in [Cascades -> SUBSET Orgs]
  BY <1>1, <1>a DEF ConfigTypeOK
<1>3. ConfigTypeOK'
  BY <1>1, <1>2, <1>a DEF selectionVars, reloadVars, sourceVars, resultVars,
                          choiceVars, ConfigTypeOK
<1>4. ASSUME NEW n \in Orgs PROVE Known(c, n)'
  <2>1. Known(c, n)
    BY DEF ConfigInv, ProfilesAreKnown
  <2>2. fetches'[c] = {}
    BY <1>1, <1>a DEF ConfigTypeOK
  <2>3. QED
    BY <1>1, <2>1, <2>2 DEF Known, Listed, LocalProfiles
<1>5. \A d \in Cascades : d # c =>
        /\ fetches'[d] = fetches[d] /\ todo'[d] = todo[d]
        /\ fromHub'[d] = fromHub[d] /\ rectified'[d] = rectified[d]
  BY <1>1, <1>a DEF ConfigTypeOK
<1>6. QED
  BY <1>1, <1>3, <1>4, <1>5, FetchInv DEF choiceVars

\* What every end of a cascade leaves alone.
LEMMA LeavesKeeps ==
  ASSUME ConfigInv, NEW c \in Cascades, CascadeLeaves(c)
  PROVE  /\ c \in (1..cascades) \ fetching' /\ c \in fetching
         /\ fetching' = fetching \ {c} /\ SignalsArePast'
         /\ \A d \in Cascades, o \in Orgs : Known(d, o)'
         /\ UNCHANGED <<fetches, fromHub, todo, text, late, rectified, cascadeSignal,
                        isLogin, cascades, controller, signedIn, savedProfile,
                        version, unnoticed, selecting, selections, case>>
<1>1. UNCHANGED <<fetches, fromHub, todo, text, late, rectified, cascadeSignal,
                  isLogin, cascades, controller, signedIn, savedProfile,
                  version, unnoticed, selecting, selections, case>>
  BY DEF CascadeLeaves, fetchVars, sourceVars, choiceVars
<1>2. /\ c \in (1..cascades) \ fetching' /\ c \in fetching
      /\ fetching' = fetching \ {c} /\ SignalsArePast'
  BY <1>1 DEF CascadeLeaves, ConfigInv, Begun, SignalsArePast
<1>3. \A d \in Cascades, o \in Orgs : Known(d, o)'
  BY <1>1 DEF ConfigInv, ProfilesAreKnown, Known, Listed, LocalProfiles
<1>4. QED
  BY <1>1, <1>2, <1>3

\* One that is aborted or fails installs nothing.
LEMMA CascadeDropsInv ==
  ASSUME ConfigInv, NEW c \in Cascades, CascadeAborted(c) \/ CascadeFails(c)
  PROVE  ConfigInv'
<1> USE DEF selectionVars, reloadVars
<1>1. /\ CascadeLeaves(c) /\ initialized' \in BOOLEAN
      /\ UNCHANGED <<selectionVars, reloadVars, told>>
  BY DEF CascadeAborted, CascadeFails, resultVars, ConfigInv, ConfigTypeOK
<1>2. ConfigTypeOK'
  BY <1>1, LeavesKeeps DEF ConfigInv, ConfigTypeOK
<1>3. Begun' /\ Fetched'
  BY <1>1, LeavesKeeps
     DEF ConfigInv, Begun, ProfilesAreKnown, Fetched, Listed, LocalProfiles
<1>4. SelectsInUse'
  BY <1>1, LeavesKeeps DEF ConfigInv, SelectsInUse
<1>5. SelectionIsConsistent'
  BY <1>1, LeavesKeeps
     DEF ConfigInv, SelectionIsConsistent, Profiles, Listed, LocalProfiles
<1>6. QED
  BY <1>1, <1>2, <1>3, <1>4, <1>5, LeavesKeeps DEF ConfigInv, ProfilesAreKnown

\* The manager of what an organisation of c has as its current profile.
LEMMA ManagerIsListed ==
  ASSUME ConfigInv, NEW c \in Cascades, NEW o \in Orgs, o \in fetches[c],
         todo[c] = {}
  PROVE  /\ ManagerOf(c, o) \in Managers \cup {NoOne}
         /\ ManagerOf(c, o) = NoOne => Listed(o, fromHub[c]) = {}
         /\ ManagerOf(c, o) # NoOne =>
              /\ ManagerOf(c, o)[1] = c /\ ManagerOf(c, o)[2] = o
              /\ ManagerOf(c, o)[3] \in Listed(o, fromHub[c])
<1>1. Known(c, o) /\ rectified[c][o] \in ProfileIds \cup {NoOne} /\ o # NoOne
  BY ConfigAssumption DEF ConfigInv, ProfilesAreKnown, ConfigTypeOK
<1>2. CASE rectified[c][o] = NoOne
  BY <1>1, <1>2 DEF ManagerOf, Known
<1>3. CASE rectified[c][o] # NoOne
  <2>1. ManagerOf(c, o) = <<c, o, rectified[c][o]>>
    BY <1>1, <1>3 DEF ManagerOf
  <2>2. <<c, o, rectified[c][o]>> \in Managers
    BY <1>1, <1>3 DEF Managers
  <2>3. <<c, o, rectified[c][o]>> # NoOne
    BY <2>2, ConfigAssumption DEF Managers, Cascades
  <2>4. QED
    BY <1>1, <1>3, <2>1, <2>2, <2>3 DEF Known
<1>4. QED
  BY <1>2, <1>3

LEMMA SelectedIsFetched ==
  ASSUME ConfigInv, NEW c \in Cascades, Selected(c) # NoOne
  PROVE  Selected(c) \in fetches[c] /\ Selected(c) \in Orgs
BY DEF Selected, ConfigInv, ConfigTypeOK

LEMMA PairIsSomething ==
  ASSUME NEW c \in Cascades, NEW o \in Orgs
  PROVE  <<c, o>> # NoOne
BY ConfigAssumption DEF Cascades

LEMMA InstallInv ==
  ASSUME ConfigInv, NEW c \in Cascades, Install(c)
  PROVE  ConfigInv'
<1> DEFINE o == Selected(c)
           m == ManagerOf(c, o)
<1>1. /\ CascadeLeaves(c) /\ todo[c] = {} /\ c \in fetching
      /\ organizations' = c /\ currentOrg' = OrgOf(c, o) /\ savedOrg' = o
      /\ currentProfile' = m
      /\ ReloadIfAny(m, c)
  BY DEF Install, CascadeLeaves
<1>2. o # NoOne =>
        /\ o \in Orgs /\ o \in fetches[c] /\ m \in Managers \cup {NoOne}
        /\ m = NoOne => Listed(o, fromHub[c]) = {}
        /\ m # NoOne => m[1] = c /\ m[2] = o /\ m[3] \in Listed(o, fromHub[c])
        /\ OrgOf(c, o) = <<c, o>> /\ <<c, o>> # NoOne
  BY <1>1, SelectedIsFetched, ManagerIsListed, PairIsSomething DEF OrgOf
<1>3. o = NoOne => m = NoOne /\ OrgOf(c, o) = NoOne
  BY DEF ManagerOf, OrgOf
<1>4. ConfigTypeOK'
  <2>1. c \in 0..MaxCascades
    BY ConfigAssumption DEF Cascades
  <2>2. m \in Managers \cup {NoOne}
    BY <1>2, <1>3
  <2>3. /\ saved' \in [Managers -> Configs]
        /\ reloadAt' \in [Reloads -> {"none", "loading", "read", "over"}]
        /\ reloaded' \in [Reloads -> Managers \cup {NoOne}]
        /\ loaded' \in [Reloads -> Configs]
        /\ reloads' \in 0..MaxReloads
        /\ told' \in Configs /\ initialized' \in BOOLEAN
        /\ \A r \in Reloads : reloadAt'[r] # "none" => reloaded'[r] \in Managers
    BY <1>1, <2>2, ReloadIfAnyType DEF ConfigInv, ConfigTypeOK
  <2>4. /\ organizations' \in 0..MaxCascades
        /\ currentOrg' \in (Cascades \X Orgs) \cup {NoOne}
        /\ savedOrg' \in Orgs \cup {NoOne}
        /\ currentProfile' \in Managers \cup {NoOne}
    BY <1>1, <1>2, <1>3, <2>1, <2>2
  <2>5. QED
    BY <1>1, <2>3, <2>4, LeavesKeeps DEF ConfigInv, ConfigTypeOK
<1>5. Begun'
  <2>1. cascades \in Nat /\ fetching \subseteq 1..cascades /\ c # 0
    BY ConfigAssumption DEF ConfigInv, ConfigTypeOK, Begun, Cascades
  <2>2. organizations' \in (0..cascades') \ fetching'
    BY <1>1, <2>1, LeavesKeeps
  <2>3. currentOrg' # NoOne => currentOrg'[1] \in (1..cascades') \ fetching'
    BY <1>1, <1>2, <1>3, LeavesKeeps
  <2>4. currentProfile' # NoOne => currentProfile'[1] \in (1..cascades') \ fetching'
    BY <1>1, <1>2, <1>3, LeavesKeeps
  <2>5. QED
    BY <1>1, <2>1, <2>2, <2>3, <2>4, LeavesKeeps DEF ConfigInv, Begun
<1>6. Fetched'
  <2>1. /\ organizations' # 0 => todo'[organizations'] = {}
        /\ currentOrg' # NoOne => todo'[currentOrg'[1]] = {}
    BY <1>1, <1>2, <1>3, LeavesKeeps
  <2>2. QED
    BY <1>1, <2>1, LeavesKeeps
       DEF ConfigInv, ProfilesAreKnown, Fetched, Listed, LocalProfiles
\* Without overlap nothing is being selected while a cascade runs.
<1>7. SelectsInUse'
  BY <1>1, LeavesKeeps DEF ConfigInv, SelectsInUse
<1>8. SelectionIsConsistent'
  <2>1. CASE o = NoOne
    BY <1>1, <1>3, <2>1 DEF SelectionIsConsistent
  <2>2. CASE o # NoOne
    <3>1. currentOrg' = <<c, o>> /\ currentOrg' # NoOne
      BY <1>1, <1>2, <2>2
    <3>2. Profiles(currentOrg)' = Listed(o, fromHub[c])
      BY <1>1, <3>1, LeavesKeeps DEF Profiles, Listed, LocalProfiles
    <3>3. QED
      BY <1>1, <1>2, <2>2, <3>1, <3>2 DEF SelectionIsConsistent
  <2>3. QED
    BY <2>1, <2>2
<1>9. QED
  BY <1>1, <1>4, <1>5, <1>6, <1>7, <1>8, LeavesKeeps DEF ConfigInv, ProfilesAreKnown

-----------------------------------------------------------------------------
(***************************************************************************)
(* Reloads, edits and selections                                           *)
(***************************************************************************)
LEMMA TextType ==
  ASSUME ConfigTypeOK, NEW m \in Managers
  PROVE  <<TextFor(m), version>> \in Configs
BY DEF ConfigTypeOK, TextFor, Managers, Configs

LEMMA ReloadStepInv ==
  ASSUME ConfigInv, NEW r \in Reloads, ReadSources(r) \/ ReloadEnds(r)
  PROVE  ConfigInv'
<1> USE DEF cascadeVars, fetchVars, selectionVars, sourceVars, resultVars, choiceVars
<1>1. CASE ReadSources(r)
  <2>1. <<TextFor(reloaded[r]), version>> \in Configs
    BY <1>1, TextType DEF ReadSources, ConfigInv, ConfigTypeOK
  <2>2. /\ reloadAt' \in [Reloads -> {"none", "loading", "read", "over"}]
        /\ loaded' \in [Reloads -> Configs]
    BY <1>1, <2>1 DEF ReadSources, ConfigInv, ConfigTypeOK
  <2>3. ConfigTypeOK'
    BY <1>1, <2>2 DEF ReadSources, ConfigInv, ConfigTypeOK
  <2>4. QED
    BY <1>1, <2>3, OnlyTypes DEF ReadSources
<1>2. CASE ReloadEnds(r)
  <2>1. loaded[r] \in Configs
    BY DEF ConfigInv, ConfigTypeOK
  <2>2. /\ reloadAt' \in [Reloads -> {"none", "loading", "read", "over"}]
        /\ saved' \in [Managers -> Configs] /\ told' \in Configs
    BY <1>2, <2>1 DEF ReloadEnds, Result, ConfigInv, ConfigTypeOK
  <2>3. ConfigTypeOK'
    BY <1>2, <2>2 DEF ReloadEnds, ConfigInv, ConfigTypeOK
  <2>4. QED
    BY <1>2, <2>3, OnlyTypes DEF ReloadEnds
<1>3. QED
  BY <1>1, <1>2

LEMMA EditSourcesInv ==
  ASSUME ConfigInv, EditSources
  PROVE  ConfigInv'
<1>1. version' \in Versions \ {0}
  BY ConfigAssumption DEF EditSources, ConfigInv, ConfigTypeOK, Versions
<1>2. ConfigTypeOK'
  BY <1>1 DEF EditSources, cascadeVars, fetchVars, selectionVars, reloadVars,
              resultVars, choiceVars, ConfigInv, ConfigTypeOK
<1>3. QED
  BY <1>2, OnlyTypes DEF EditSources, cascadeVars, fetchVars, choiceVars

LEMMA NoticeEditInv ==
  ASSUME ConfigInv, NoticeEdit
  PROVE  ConfigInv'
<1>1. /\ unnoticed' = FALSE /\ ReloadIfAny(currentProfile, organizations)
      /\ UNCHANGED <<cascadeVars, selectionVars, savedProfile, version, choiceVars,
                     case>>
  BY DEF NoticeEdit
<1>2. ConfigTypeOK /\ currentProfile \in Managers \cup {NoOne}
  BY DEF ConfigInv, ConfigTypeOK
<1>3. ConfigTypeOK'
  BY <1>1, <1>2, ReloadIfAnyType
     DEF cascadeVars, fetchVars, selectionVars, choiceVars, ConfigTypeOK
<1>4. QED
  BY <1>1, <1>3, OnlyTypes DEF cascadeVars, fetchVars, choiceVars

LEMMA SelectOrgInv ==
  ASSUME ConfigInv, NEW o \in Orgs, NEW p \in ProfileIds \cup {NoOne},
         SelectOrg(o, p)
  PROVE  ConfigInv'
<1>a. /\ organizations # 0 /\ o \in fetches[organizations]
      /\ "eager" \in case \/ fetching = {}
      /\ "both" \in case \/ p = NoOne
      /\ selections < MaxSelections /\ selections' = selections + 1
      /\ selecting' = [stage |-> "org", org |-> o, profile |-> p,
                       by |-> organizations]
      /\ UNCHANGED <<cascadeVars, selectionVars, savedProfile, reloadVars, sourceVars,
                     resultVars, case>>
  BY DEF SelectOrg
<1> USE DEF cascadeVars, fetchVars, selectionVars, reloadVars, sourceVars, resultVars
<1>1. organizations \in Cascades /\ organizations \in (1..cascades) \ fetching
  BY <1>a, ConfigAssumption DEF ConfigInv, ConfigTypeOK, Begun, Cascades
<1>2. /\ selecting' \in [stage : {"org", "profile"}, org : Orgs,
                         profile : ProfileIds \cup {NoOne}, by : Cascades]
      /\ selections' \in 0..MaxSelections
  BY <1>a, <1>1, ConfigAssumption DEF ConfigInv, ConfigTypeOK
<1>3. ConfigTypeOK'
  BY <1>a, <1>2 DEF ConfigInv, ConfigTypeOK
<1>4. /\ selecting'.stage = "org" /\ selecting'.org = o /\ selecting'.profile = p
      /\ selecting'.by = organizations
  BY <1>a
<1>5. Begun' /\ SignalsArePast'
  BY <1>a, <1>1, <1>4 DEF ConfigInv, Begun, SignalsArePast
<1>6. Fetched'
  BY <1>a, <1>4 DEF ConfigInv, ProfilesAreKnown, Fetched
<1>7. \A d \in Cascades, n \in Orgs : Known(d, n)'
  BY <1>a DEF ConfigInv, ProfilesAreKnown, Known, Listed, LocalProfiles
<1>8. SelectsInUse'
  BY <1>a, <1>4 DEF ConfigInv, SelectsInUse
<1>9. SelectionIsConsistent'
  BY <1>a DEF ConfigInv, SelectionIsConsistent, Profiles, Listed, LocalProfiles
<1>10. QED
  BY <1>3, <1>5, <1>6, <1>7, <1>8, <1>9 DEF ConfigInv, ProfilesAreKnown

LEMMA SelectProfileInv ==
  ASSUME ConfigInv, NEW p \in ProfileIds, SelectProfile(p)
  PROVE  ConfigInv'
<1>a. /\ currentOrg # NoOne /\ p \in Profiles(currentOrg)
      /\ "eager" \in case \/ fetching = {}
      /\ selections < MaxSelections /\ selections' = selections + 1
      /\ selecting' = [stage |-> "profile", org |-> currentOrg[2], profile |-> p,
                       by |-> currentOrg[1]]
      /\ UNCHANGED <<cascadeVars, selectionVars, savedProfile, reloadVars, sourceVars,
                     resultVars, case>>
  BY DEF SelectProfile
<1> USE DEF cascadeVars, fetchVars, selectionVars, reloadVars, sourceVars, resultVars
<1>1. /\ currentOrg \in Cascades \X Orgs
      /\ currentOrg[1] \in (1..cascades) \ fetching /\ organizations # 0
      /\ todo[currentOrg[1]] = {}
  BY <1>a DEF ConfigInv, ConfigTypeOK, Begun, ProfilesAreKnown, Fetched
<1>2. /\ selecting' \in [stage : {"org", "profile"}, org : Orgs,
                         profile : ProfileIds \cup {NoOne}, by : Cascades]
      /\ selections' \in 0..MaxSelections
  BY <1>a, <1>1, ConfigAssumption DEF ConfigInv, ConfigTypeOK
<1>3. ConfigTypeOK'
  BY <1>a, <1>2 DEF ConfigInv, ConfigTypeOK
<1>4. /\ selecting'.stage = "profile" /\ selecting'.org = currentOrg[2]
      /\ selecting'.profile = p /\ selecting'.by = currentOrg[1]
  BY <1>a
<1>5. Begun' /\ SignalsArePast'
  BY <1>a, <1>1, <1>4 DEF ConfigInv, Begun, SignalsArePast
<1>6. Fetched'
  BY <1>a, <1>1, <1>4
     DEF ConfigInv, ProfilesAreKnown, Fetched, Profiles, Listed, LocalProfiles
<1>7. \A d \in Cascades, n \in Orgs : Known(d, n)'
  BY <1>a DEF ConfigInv, ProfilesAreKnown, Known, Listed, LocalProfiles
<1>8. SelectsInUse'
  BY <1>a, <1>1, <1>4 DEF ConfigInv, SelectsInUse, SelectionIsConsistent
<1>9. SelectionIsConsistent'
  BY <1>a DEF ConfigInv, SelectionIsConsistent, Profiles, Listed, LocalProfiles
<1>10. QED
  BY <1>3, <1>5, <1>6, <1>7, <1>8, <1>9 DEF ConfigInv, ProfilesAreKnown

\* Nothing is selected any more, and what is current is known.
LEMMA SelectionEnds ==
  ASSUME ConfigInv, ConfigTypeOK', selecting' = Nothing,
         currentOrg' # NoOne => currentOrg'[1] \in (1..cascades) \ fetching,
         currentProfile' # NoOne => currentProfile'[1] \in (1..cascades) \ fetching,
         currentOrg' # NoOne => todo[currentOrg'[1]] = {} /\ organizations # 0,
         SelectionIsConsistent',
         UNCHANGED <<fetching, fetches, fromHub, todo, rectified, cascadeSignal,
                     cascades, controller, organizations, case>>
  PROVE  ConfigInv'
<1>1. Nothing.stage = "none"
  BY DEF Nothing
<1>2. \A d \in Cascades, n \in Orgs : Known(d, n)'
  BY DEF ConfigInv, ProfilesAreKnown, Known, Listed, LocalProfiles
<1>3. Begun' /\ SignalsArePast' /\ SelectsInUse'
  BY <1>1 DEF ConfigInv, Begun, SignalsArePast, SelectsInUse
<1>4. Fetched'
  BY DEF ConfigInv, ProfilesAreKnown, Fetched
<1>5. QED
  BY <1>2, <1>3, <1>4 DEF ConfigInv, ProfilesAreKnown

\* An organisation is selected from the cascade that has listed it.
LEMMA OrgSelectedFacts ==
  ASSUME ConfigInv, selecting.stage = "org"
  PROVE  /\ selecting.org \in Orgs /\ selecting.by \in Cascades
         /\ selecting.profile \in ProfileIds \cup {NoOne}
         /\ selecting # Nothing /\ organizations # 0
         /\ selecting.by \in (1..cascades) \ fetching
         /\ todo[selecting.by] = {} /\ selecting.org \in fetches[selecting.by]
         /\ <<selecting.by, selecting.org>> # NoOne
         /\ "both" \notin case => selecting.profile = NoOne
         /\ "eager" \notin case => fetching = {} /\ selecting.by = organizations
<1>1. selecting # Nothing
  BY SelectionIsSomething DEF ConfigInv
<1>2. QED
  BY <1>1, SelectionIsSomething, PairIsSomething
     DEF ConfigInv, Begun, ProfilesAreKnown, Fetched, SelectsInUse

LEMMA OrgSelectedInv ==
  ASSUME ConfigInv, OrgSelected
  PROVE  ConfigInv'
<1> DEFINE o == selecting.org
           c == selecting.by
           p == selecting.profile
           m == ManagerOf(c, o)
<1>a. /\ selecting.stage = "org"
      /\ savedOrg' = o /\ currentOrg' = <<c, o>>
      /\ IF p = NoOne
         THEN /\ selecting' = Nothing /\ currentProfile' = m
              /\ ReloadIfAny(m, organizations)
         ELSE /\ selecting' = IF IsCurrent(p) \/ p \notin Profiles(<<c, o>>)
                              THEN Nothing
                              ELSE [selecting EXCEPT !.stage = "profile"]
              /\ UNCHANGED <<currentProfile, reloadVars, resultVars>>
      /\ UNCHANGED <<cascadeVars, organizations, savedProfile, sourceVars, selections,
                     case>>
  BY DEF OrgSelected, SaveSelection
<1>b. /\ o \in Orgs /\ c \in Cascades /\ p \in ProfileIds \cup {NoOne}
      /\ selecting # Nothing /\ organizations # 0
      /\ c \in (1..cascades) \ fetching /\ todo[c] = {} /\ o \in fetches[c]
      /\ <<c, o>> # NoOne
      /\ "both" \notin case => p = NoOne
      /\ "eager" \notin case => fetching = {} /\ c = organizations
  BY <1>a, OrgSelectedFacts
<1>c. /\ m \in Managers \cup {NoOne}
      /\ m = NoOne => Listed(o, fromHub[c]) = {}
      /\ m # NoOne => m[1] = c /\ m[2] = o /\ m[3] \in Listed(o, fromHub[c])
  BY <1>b, ManagerIsListed
<1> USE DEF cascadeVars, fetchVars, sourceVars, resultVars
<1>1. CASE p = NoOne
  <2>1. /\ selecting' = Nothing /\ currentProfile' = m
        /\ ReloadIfAny(m, organizations)
    BY <1>a, <1>1
  <2>2. ConfigTypeOK'
    BY <1>a, <1>b, <1>c, <2>1, ReloadIfAnyType DEF ConfigInv, ConfigTypeOK
  <2>3. Profiles(currentOrg)' = Listed(o, fromHub[c])
    BY <1>a DEF Profiles, Listed, LocalProfiles
  <2>4. SelectionIsConsistent'
    BY <1>a, <1>b, <1>c, <2>1, <2>3 DEF SelectionIsConsistent
  <2>5. QED
    BY <1>a, <1>b, <1>c, <2>1, <2>2, <2>4, SelectionEnds
\* With a profile, the one of the organisation before stays current for now.
<1>2. CASE p # NoOne
  <2>1. /\ selecting' \in {Nothing, [selecting EXCEPT !.stage = "profile"]}
        /\ selecting' # Nothing => p \in Listed(o, fromHub[c])
        /\ UNCHANGED <<currentProfile, reloadVars, resultVars>>
    BY <1>a, <1>2 DEF Profiles
  <2>2. [selecting EXCEPT !.stage = "profile"] \in
          [stage : {"org", "profile"}, org : Orgs,
           profile : ProfileIds \cup {NoOne}, by : Cascades]
    BY <1>b DEF ConfigInv, ConfigTypeOK
  <2>3. ConfigTypeOK'
    BY <1>a, <1>b, <2>1, <2>2 DEF reloadVars, ConfigInv, ConfigTypeOK
  <2>4. SelectionIsConsistent'
    BY <1>a, <1>b, <1>2, <2>1 DEF ConfigInv, SelectionIsConsistent
  <2>5. CASE selecting' = Nothing
    BY <1>a, <1>b, <2>1, <2>3, <2>4, <2>5, SelectionEnds DEF ConfigInv, Begun
  <2>6. CASE selecting' # Nothing
    <3>1. /\ selecting'.stage = "profile" /\ selecting'.org = o
          /\ selecting'.by = c /\ selecting'.profile = p
      BY <1>b, <2>1, <2>6 DEF ConfigInv, ConfigTypeOK
    <3>2. \A d \in Cascades, n \in Orgs : Known(d, n)'
      BY <1>a DEF ConfigInv, ProfilesAreKnown, Known, Listed, LocalProfiles
    <3>3. Begun' /\ SignalsArePast'
      BY <1>a, <1>b, <2>1, <3>1 DEF ConfigInv, Begun, SignalsArePast
    <3>4. Fetched'
      BY <1>a, <1>b, <2>1, <2>6, <3>1
         DEF ConfigInv, ProfilesAreKnown, Fetched, Listed, LocalProfiles
    <3>5. SelectsInUse'
      BY <1>a, <1>b, <3>1 DEF ConfigInv, SelectsInUse
    <3>6. QED
      BY <2>3, <2>4, <3>2, <3>3, <3>4, <3>5 DEF ConfigInv, ProfilesAreKnown
  <2>7. QED
    BY <2>5, <2>6
<1>3. QED
  BY <1>1, <1>2

LEMMA ProfileSelectedInv ==
  ASSUME ConfigInv, ProfileSelected
  PROVE  ConfigInv'
<1> DEFINE o == selecting.org
           c == selecting.by
           p == selecting.profile
           m == <<c, o, p>>
<1>a. /\ selecting.stage = "profile" /\ selecting' = Nothing
      /\ SaveProfile(o, p) /\ currentProfile' = m
      /\ Reload(m, organizations)
      /\ UNCHANGED <<cascadeVars, organizations, currentOrg, savedOrg, sourceVars,
                     resultVars, selections, case>>
  BY DEF ProfileSelected
<1>b. /\ o \in Orgs /\ c \in Cascades /\ selecting # Nothing
      /\ p \in Listed(o, fromHub[c])
  BY <1>a, SelectionIsSomething DEF ConfigInv, ProfilesAreKnown, Fetched
<1>c. p \in ProfileIds /\ m \in Managers
  BY <1>b, ListedType DEF Managers
<1>d. savedProfile' \in [Orgs -> ProfileIds \cup {NoOne}]
  BY <1>a, <1>b, <1>c, SaveType DEF ConfigInv
<1> USE DEF cascadeVars, fetchVars, sourceVars, resultVars
<1>1. ConfigTypeOK'
  BY <1>a, <1>c, <1>d, ReloadType DEF ConfigInv, ConfigTypeOK
<1>2. "eager" \notin case => c = organizations /\ currentOrg = <<c, o>>
  BY <1>a, <1>b DEF ConfigInv, SelectsInUse
<1>3. SelectionIsConsistent'
  <2>1. SUFFICES ASSUME "eager" \notin case, organizations # 0
                 PROVE  SelectionIsConsistent'
    BY <1>a DEF SelectionIsConsistent
  <2>2. /\ currentOrg = <<c, o>> /\ c = organizations /\ <<c, o>> # NoOne
        /\ currentOrg' = currentOrg /\ savedOrg' = savedOrg
        /\ organizations' = organizations
    BY <1>a, <1>b, <1>2, <2>1, PairIsSomething
  <2>3. savedOrg = o
    BY <2>1, <2>2 DEF ConfigInv, SelectionIsConsistent
  <2>4. m # NoOne /\ m[1] = c /\ m[2] = o /\ m[3] = p
    BY <1>c, ConfigAssumption DEF Managers, Cascades
  <2>5. Profiles(currentOrg)' = Listed(o, fromHub[c])
    BY <1>a, <2>2 DEF Profiles, Listed, LocalProfiles
  <2>6. QED
    BY <1>a, <1>b, <2>2, <2>3, <2>4, <2>5 DEF SelectionIsConsistent
<1>4. c \in (1..cascades) \ fetching /\ m[1] = c
  BY <1>b DEF ConfigInv, Begun
<1>5. QED
  BY <1>a, <1>1, <1>3, <1>4, SelectionEnds
     DEF ConfigInv, Begun, ProfilesAreKnown, Fetched
-----------------------------------------------------------------------------
(***************************************************************************)
(* The theorems                                                            *)
(***************************************************************************)
LEMMA CascadeStepInv ==
  ASSUME ConfigInv, NEW c \in Cascades, CascadeStep(c)
  PROVE  ConfigInv'
BY ReadFilesInv, RectifyInv, RectifyLateInv, HubFailsInv, LocalFailsInv,
   CascadeDropsInv, InstallInv
   DEF CascadeStep

\* What begins a cascade captures the controller or its successor.
LEMMA BeginInv ==
  ASSUME ConfigInv, Construct \/ RefreshAll \/ UpdateSettings \/ UpdateSession
  PROVE  ConfigInv'
<1>1. controller \in Nat /\ signedIn \in BOOLEAN
  BY DEF ConfigInv, ConfigTypeOK
<1>2. /\ controller' \in Nat /\ controller' >= controller
      /\ signedIn' \in BOOLEAN
      /\ \E login \in BOOLEAN : CascadeBegins(login)
  <2>1. CASE Construct \/ RefreshAll \/ UpdateSettings
    <3>1. /\ CascadeBegins(FALSE) /\ signedIn' = signedIn
          /\ controller' = controller \/ controller' = controller + 1
      BY <2>1, Zenon DEF Construct, RefreshAll, UpdateSettings
    <3>2. \E login \in BOOLEAN : CascadeBegins(login)
      BY <3>1, Zenon
    <3>3. QED
      BY <1>1, <3>1, <3>2
  <2>2. CASE UpdateSession
    <3>1. signedIn' \in BOOLEAN
      BY <1>1, <2>2 DEF UpdateSession
    <3>2. CascadeBegins(signedIn') /\ controller' = controller + 1
      BY <2>2 DEF UpdateSession
    <3>3. QED
      BY <1>1, <3>1, <3>2
  <2>3. QED
    BY <2>1, <2>2
<1>3. QED
  BY <1>2, CascadeBeginsInv

LEMMA NextInv ==
  ASSUME ConfigInv, [ConfigNext]_configVars
  PROVE  ConfigInv'
<1>1. CASE ConfigNext
  BY <1>1, BeginInv, CascadeStepInv, ReloadStepInv, EditSourcesInv,
     NoticeEditInv, SelectOrgInv, SelectProfileInv, OrgSelectedInv, ProfileSelectedInv
     DEF ConfigNext, Selects
<1>2. CASE UNCHANGED configVars
  <2>1. ConfigTypeOK'
    BY <1>2 DEF configVars, cascadeVars, fetchVars, selectionVars, reloadVars,
                sourceVars, resultVars, choiceVars, ConfigInv, ConfigTypeOK
  <2>2. QED
    BY <1>2, <2>1, OnlyTypes DEF configVars, cascadeVars, fetchVars, choiceVars
<1>3. QED
  BY <1>1, <1>2

LEMMA Inductive == ConfigSpec => []ConfigInv
BY InitInv, NextInv, PTL DEF ConfigSpec

\* For any organisations, profiles and bounds, every variable keeps its type: a
\* profile that becomes current, or whose load begins, is one that a cascade has
\* made, never the manager of an organisation that has no profile.
THEOREM ConfigTypeCorrect == ConfigSpec => []ConfigTypeOK
<1>1. ConfigInv => ConfigTypeOK
  BY DEF ConfigInv
<1>2. QED
  BY <1>1, Inductive, PTL

\* Unless selections and cascades overlap, whatever is aborted, fails or is
\* edited, what is current is of the last cascade and the current organisation is
\* the saved one; the current profile is among its profiles and missing only if
\* it has none, unless an organisation was selected together with a profile.
THEOREM SelectionIsConsistentHolds == ConfigSpec => []SelectionIsConsistent
<1>1. ConfigInv => SelectionIsConsistent
  BY DEF ConfigInv
<1>2. QED
  BY <1>1, Inductive, PTL

\* The organisations of a session are never replaced by those of an earlier one,
\* however many cascades run and in whatever order they end.
THEOREM OrgsNeverGoBackHolds == ConfigSpec => OrgsNeverGoBack
<1> DEFINE Forward ==
      (organizations # 0 /\ organizations' # 0) =>
        cascadeSignal[organizations'] >= cascadeSignal[organizations]
<1>1. ASSUME ConfigInv, ConfigNext PROVE Forward
  <2>1. /\ organizations # 0 => organizations \in Cascades
        /\ \A c \in Cascades : cascadeSignal[c] \in Nat
    BY <1>1 DEF ConfigInv, ConfigTypeOK, Cascades
  <2>2. CASE UNCHANGED <<organizations, cascadeSignal>>
    BY <2>1, <2>2
  <2>3. CASE Construct \/ RefreshAll \/ UpdateSettings \/ UpdateSession
    <3>1. /\ organizations' = organizations
          /\ cascadeSignal' = [cascadeSignal EXCEPT ![cascades + 1] = controller']
      BY <2>3 DEF Construct, RefreshAll, UpdateSettings, UpdateSession,
                  CascadeBegins, CapturedSignal, selectionVars
    <3>2. organizations # cascades + 1
      BY <1>1, ConfigAssumption DEF ConfigInv, ConfigTypeOK, Begun
    <3>3. organizations # 0 =>
            cascadeSignal'[organizations] = cascadeSignal[organizations]
      BY <1>1, <2>1, <3>1, <3>2 DEF ConfigInv, ConfigTypeOK
    <3>4. QED
      BY <2>1, <3>1, <3>3
  <2>4. ASSUME NEW c \in Cascades, CascadeStep(c) PROVE Forward
    <3>1. CASE Install(c)
      <4>1. /\ organizations' = c /\ cascadeSignal' = cascadeSignal
            /\ cascadeSignal[c] = controller
        BY <3>1 DEF Install, CascadeLeaves, Aborted
      <4>2. QED
        BY <1>1, <2>1, <4>1 DEF ConfigInv, SignalsArePast
    <3>2. CASE \E o \in Orgs : ReadFiles(c, o) \/ Rectify(c, o) \/ RectifyLate(c, o)
      BY <3>2, <2>2 DEF ReadFiles, Rectify, RectifyLate, selectionVars
    <3>3. CASE HubFails(c) \/ LocalFails(c)
      BY <3>3, <2>2 DEF HubFails, LocalFails, selectionVars
    <3>4. CASE CascadeAborted(c) \/ CascadeFails(c)
      BY <3>4, <2>2 DEF CascadeAborted, CascadeFails, CascadeLeaves, selectionVars
    <3>5. QED
      BY <2>4, <3>1, <3>2, <3>3, <3>4 DEF CascadeStep
  <2>5. CASE \E r \in Reloads : ReadSources(r) \/ ReloadEnds(r)
    BY <2>5, <2>2 DEF ReadSources, ReloadEnds, cascadeVars, selectionVars
  <2>6. CASE EditSources \/ NoticeEdit
    BY <2>6, <2>2 DEF EditSources, NoticeEdit, cascadeVars, selectionVars
  <2>7. CASE Selects \/ OrgSelected \/ ProfileSelected
    BY <2>7, <2>2 DEF Selects, SelectOrg, SelectProfile, OrgSelected,
                      ProfileSelected, cascadeVars, selectionVars
  <2>8. QED
    BY <1>1, <2>3, <2>4, <2>5, <2>6, <2>7 DEF ConfigNext
<1>2. ASSUME ConfigInv, UNCHANGED configVars PROVE Forward
  <2>1. UNCHANGED <<organizations, cascadeSignal>>
    BY <1>2 DEF configVars, cascadeVars, selectionVars
  <2>2. organizations # 0 => cascadeSignal[organizations] \in Nat
    BY <1>2 DEF ConfigInv, ConfigTypeOK, Cascades
  <2>3. QED
    BY <2>1, <2>2
<1>3. ConfigInv /\ [ConfigNext]_configVars => [Forward]_configVars
  BY <1>1, <1>2
<1>4. QED
  BY <1>3, Inductive, PTL DEF ConfigSpec, OrgsNeverGoBack

-----------------------------------------------------------------------------
(***************************************************************************)
(* When nothing is under way                                               *)
(***************************************************************************)
TextIsKept == currentProfile # NoOne => TextFor(currentProfile)' = TextFor(currentProfile)

Kinds ==
  \/ UNCHANGED <<reloadVars, currentProfile, told, sourceVars, case>> /\ TextIsKept
  \/ (\E orgs : Reload(currentProfile', orgs)) /\ UNCHANGED <<version, case>>
  \/ \E r \in Reloads : ReadSources(r) \/ ReloadEnds(r)
  \/ EditSources
  \/ currentProfile' = NoOne /\ UNCHANGED <<reloadVars, version, case>>

\* The text of the current profile was read by a cascade that has ended.
LEMMA TextStays ==
  ASSUME ConfigInv, NEW c \in fetching, version' = version,
         \A d \in Cascades : d # c => text'[d] = text[d],
         currentProfile' = currentProfile
  PROVE  TextIsKept
BY DEF ConfigInv, ConfigTypeOK, Begun, TextIsKept, TextFor, Managers

\* What follows a change of the current profile.
LEMMA ReloadKinds ==
  ASSUME ReloadIfAny(currentProfile', organizations'), UNCHANGED <<version, case>>
  PROVE  Kinds
BY DEF ReloadIfAny, TellNone, Kinds

\* Every step but those on one reload or on the sources starts a reload of what
\* it makes current, or leaves the reloads and what is current alone, unless
\* nothing is current after it.
LEMMA StepKinds ==
  ASSUME ConfigInv, ConfigNext
  PROVE  Kinds
<1> DEFINE Quiet ==
      UNCHANGED <<text, currentProfile, reloadVars, told, sourceVars, case>>
<1>a. ASSUME Quiet PROVE Kinds
  BY <1>a DEF Kinds, TextIsKept, TextFor, sourceVars
<1> HIDE DEF Quiet
<1>1. CASE Construct \/ RefreshAll \/ UpdateSettings \/ UpdateSession
  BY <1>a, <1>1 DEF Quiet, Construct, RefreshAll, UpdateSettings, UpdateSession,
                    CascadeBegins, selectionVars, resultVars
<1>2. ASSUME NEW c \in Cascades, CascadeStep(c) PROVE Kinds
  <2>1. CASE (\E o \in Orgs : ReadFiles(c, o)) \/ HubFails(c)
    <3>1. /\ c \in fetching
          /\ \A d \in Cascades : d # c => text'[d] = text[d]
          /\ UNCHANGED <<currentProfile, reloadVars, told, sourceVars, case>>
      BY <2>1 DEF ReadFiles, HubFails, selectionVars, resultVars, ConfigInv,
                  ConfigTypeOK
    <3>2. TextIsKept
      BY <3>1, TextStays DEF sourceVars
    <3>3. QED
      BY <3>1, <3>2 DEF Kinds
  <2>2. CASE (\E o \in Orgs : Rectify(c, o) \/ RectifyLate(c, o)) \/ LocalFails(c)
    BY <1>a, <2>2 DEF Quiet, Rectify, RectifyLate, LocalFails, selectionVars,
                      resultVars
  <2>3. CASE CascadeAborted(c) \/ CascadeFails(c)
    BY <1>a, <2>3 DEF Quiet, CascadeAborted, CascadeFails, CascadeLeaves, fetchVars,
                      selectionVars, resultVars
  <2>4. CASE Install(c)
    <3>1. /\ ReloadIfAny(currentProfile', organizations')
          /\ UNCHANGED <<version, case>>
      BY <2>4 DEF Install, CascadeLeaves, sourceVars
    <3>2. QED
      BY <3>1, ReloadKinds
  <2>5. QED
    BY <1>2, <2>1, <2>2, <2>3, <2>4 DEF CascadeStep
<1>3. CASE NoticeEdit
  <2>1. /\ ReloadIfAny(currentProfile', organizations')
        /\ UNCHANGED <<version, case>>
    BY <1>3 DEF NoticeEdit, selectionVars
  <2>2. QED
    BY <2>1, ReloadKinds
<1>4. CASE OrgSelected
  <2>1. CASE selecting.profile = NoOne
    <3>1. /\ ReloadIfAny(currentProfile', organizations')
          /\ UNCHANGED <<version, case>>
      BY <1>4, <2>1 DEF OrgSelected, sourceVars
    <3>2. QED
      BY <3>1, ReloadKinds
  <2>2. CASE selecting.profile # NoOne
    BY <1>a, <1>4, <2>2 DEF Quiet, OrgSelected, resultVars, cascadeVars, fetchVars
  <2>3. QED
    BY <2>1, <2>2
<1>5. CASE ProfileSelected
  BY <1>5 DEF ProfileSelected, sourceVars, Kinds
<1>6. CASE Selects
  BY <1>a, <1>6 DEF Quiet, Selects, SelectOrg, SelectProfile, selectionVars,
                    resultVars, cascadeVars, fetchVars
<1>7. CASE EditSources \/ \E r \in Reloads : ReadSources(r) \/ ReloadEnds(r)
  BY <1>7 DEF Kinds
<1>8. QED
  BY <1>1, <1>2, <1>3, <1>4, <1>5, <1>6, <1>7 DEF ConfigNext

\* Reloads are numbered in the order in which they begin and, without overtaking,
\* end in that order.
LoadsEndInOrder ==
  /\ \A r \in Reloads : r > reloads => reloadAt[r] = "none"
  /\ "overtake" \notin case => \A r \in Reloads : reloadAt[r] = "over" => InOrder(r)

\* The last reload is of the current profile; what it has loaded is current until
\* the sources change, and when it is over that is what is saved and told.
LastLoadIsCurrent ==
  ("overtake" \notin case /\ currentProfile # NoOne) =>
    /\ reloads > 0 /\ reloaded[reloads] = currentProfile
    /\ reloadAt[reloads] \in {"loading", "read", "over"}
    /\ (~unnoticed /\ reloadAt[reloads] # "loading") =>
          loaded[reloads] = <<TextFor(currentProfile), version>>
    /\ reloadAt[reloads] = "over" =>
          /\ saved[currentProfile] = loaded[reloads] /\ told = loaded[reloads]

LoadInv == ConfigInv /\ LoadsEndInOrder /\ LastLoadIsCurrent

LEMMA LoadInit == ConfigInit => LoadInv
BY InitInv DEF ConfigInit, LoadInv, LoadsEndInOrder, LastLoadIsCurrent

\* A reload that begins is the last one.
LEMMA ReloadBegins ==
  ASSUME LoadInv, NEW orgs, Reload(currentProfile', orgs), case' = case
  PROVE  LoadsEndInOrder' /\ LastLoadIsCurrent'
<1>1. /\ reloads \in Nat /\ reloads + 1 \in Reloads /\ reloads' = reloads + 1
      /\ reloadAt' = [reloadAt EXCEPT ![reloads + 1] = "loading"]
      /\ reloaded' = [reloaded EXCEPT ![reloads + 1] = currentProfile']
  BY ConfigAssumption DEF Reload, LoadInv, ConfigInv, ConfigTypeOK, Reloads
<1>2. /\ reloadAt'[reloads + 1] = "loading"
      /\ reloaded'[reloads + 1] = currentProfile'
      /\ \A r \in Reloads : r # reloads + 1 => reloadAt'[r] = reloadAt[r]
  BY <1>1 DEF LoadInv, ConfigInv, ConfigTypeOK
<1>3. LoadsEndInOrder'
  <2>1. \A r \in Reloads : r > reloads' => reloadAt'[r] = "none"
    BY <1>1, <1>2 DEF LoadInv, LoadsEndInOrder, Reloads
  <2>2. ASSUME "overtake" \notin case, NEW r \in Reloads, reloadAt'[r] = "over",
               NEW q \in 1..(r - 1)
        PROVE  reloadAt'[q] = "over"
    <3>1. reloadAt[r] = "over" /\ r <= reloads
      BY <1>1, <1>2, <2>2 DEF LoadInv, LoadsEndInOrder, Reloads
    <3>2. q \in Reloads /\ q # reloads + 1
      BY <1>1, <3>1, ConfigAssumption DEF Reloads
    <3>3. QED
      BY <1>2, <2>2, <3>1, <3>2 DEF LoadInv, LoadsEndInOrder, InOrder
  <2>3. QED
    BY <2>1, <2>2 DEF LoadsEndInOrder, InOrder
<1>4. LastLoadIsCurrent'
  BY <1>1, <1>2 DEF LastLoadIsCurrent
<1>5. QED
  BY <1>3, <1>4

LEMMA ReadSourcesLoads ==
  ASSUME LoadInv, NEW r \in Reloads, ReadSources(r)
  PROVE  LoadsEndInOrder' /\ LastLoadIsCurrent'
<1>1. /\ reloadAt[r] = "loading" /\ reloads \in Nat
      /\ reloadAt' = [reloadAt EXCEPT ![r] = "read"]
      /\ loaded' = [loaded EXCEPT ![r] = <<TextFor(reloaded[r]), version>>]
      /\ UNCHANGED <<currentProfile, text, saved, reloaded, reloads, version,
                     unnoticed, told, case>>
  BY ConfigAssumption
     DEF ReadSources, cascadeVars, fetchVars, selectionVars, sourceVars, resultVars,
         LoadInv, ConfigInv, ConfigTypeOK
<1>2. /\ reloadAt'[r] = "read" /\ loaded'[r] = <<TextFor(reloaded[r]), version>>
      /\ \A q \in Reloads : q # r =>
            reloadAt'[q] = reloadAt[q] /\ loaded'[q] = loaded[q]
      /\ TextFor(currentProfile)' = TextFor(currentProfile)
  BY <1>1 DEF LoadInv, ConfigInv, ConfigTypeOK, TextFor
<1>3. LoadsEndInOrder'
  <2>1. \A q \in Reloads : q > reloads' => reloadAt'[q] = "none"
    BY <1>1, <1>2 DEF LoadInv, LoadsEndInOrder
  <2>2. ASSUME "overtake" \notin case, NEW q \in Reloads, reloadAt'[q] = "over",
               NEW n \in 1..(q - 1)
        PROVE  reloadAt'[n] = "over"
    <3>1. reloadAt[q] = "over" /\ n \in Reloads
      BY <1>2, <2>2, ConfigAssumption DEF Reloads
    <3>2. reloadAt[n] = "over"
      BY <2>2, <3>1 DEF LoadInv, LoadsEndInOrder, InOrder
    <3>3. QED
      BY <1>1, <1>2, <3>1, <3>2
  <2>3. QED
    BY <1>1, <2>1, <2>2 DEF LoadsEndInOrder, InOrder
<1>4. LastLoadIsCurrent'
  <2>1. SUFFICES ASSUME "overtake" \notin case, currentProfile # NoOne
                 PROVE  LastLoadIsCurrent'
    BY <1>1 DEF LastLoadIsCurrent
  <2>2. reloads \in Reloads
    BY <1>1, <2>1 DEF LoadInv, LastLoadIsCurrent, ConfigInv, ConfigTypeOK, Reloads
  <2>3. QED
    BY <1>1, <1>2, <2>1, <2>2 DEF LoadInv, LastLoadIsCurrent
<1>5. QED
  BY <1>3, <1>4

\* In order, no reload ends after the last one.
LEMMA ReloadEndsLoads ==
  ASSUME LoadInv, NEW r \in Reloads, ReloadEnds(r)
  PROVE  LoadsEndInOrder' /\ LastLoadIsCurrent'
<1>1. /\ reloadAt[r] = "read" /\ reloads \in Nat
      /\ "overtake" \in case \/ InOrder(r)
      /\ reloadAt' = [reloadAt EXCEPT ![r] = "over"]
      /\ saved' = [saved EXCEPT ![reloaded[r]] = loaded[r]]
      /\ told' = loaded[r]
      /\ UNCHANGED <<currentProfile, text, loaded, reloaded, reloads, version,
                     unnoticed, case>>
  BY ConfigAssumption
     DEF ReloadEnds, Result, cascadeVars, fetchVars, selectionVars, sourceVars,
         LoadInv, ConfigInv, ConfigTypeOK
<1>2. /\ reloadAt'[r] = "over"
      /\ \A q \in Reloads : q # r => reloadAt'[q] = reloadAt[q]
      /\ TextFor(currentProfile)' = TextFor(currentProfile)
  BY <1>1 DEF LoadInv, ConfigInv, ConfigTypeOK, TextFor
<1>3. LoadsEndInOrder'
  <2>1. \A q \in Reloads : q > reloads' => reloadAt'[q] = "none"
    BY <1>1, <1>2 DEF LoadInv, LoadsEndInOrder
  <2>2. ASSUME "overtake" \notin case, NEW q \in Reloads, reloadAt'[q] = "over",
               NEW n \in 1..(q - 1)
        PROVE  reloadAt'[n] = "over"
    <3>1. n \in Reloads
      BY <2>2, ConfigAssumption DEF Reloads
    <3>2. reloadAt[n] = "over"
      BY <1>1, <1>2, <2>2 DEF LoadInv, LoadsEndInOrder, InOrder
    <3>3. QED
      BY <1>2, <3>1, <3>2
  <2>3. QED
    BY <1>1, <2>1, <2>2 DEF LoadsEndInOrder, InOrder
<1>4. LastLoadIsCurrent'
  <2>1. SUFFICES ASSUME "overtake" \notin case, currentProfile # NoOne
                 PROVE  LastLoadIsCurrent'
    BY <1>1 DEF LastLoadIsCurrent
  <2>2. /\ reloads \in Reloads /\ currentProfile \in Managers
        /\ reloaded[reloads] = currentProfile
    BY <1>1, <2>1 DEF LoadInv, LastLoadIsCurrent, ConfigInv, ConfigTypeOK, Reloads
  <2>3. CASE r = reloads
    <3>1. saved'[currentProfile] = loaded[r]
      BY <1>1, <2>2, <2>3 DEF LoadInv, ConfigInv, ConfigTypeOK
    <3>2. QED
      BY <1>1, <1>2, <2>1, <2>2, <2>3, <3>1 DEF LoadInv, LastLoadIsCurrent
  <2>4. CASE r # reloads
    <3>1. reloadAt[reloads] # "over"
      <4>1. r < reloads
        BY <1>1, <2>4 DEF LoadInv, LoadsEndInOrder, Reloads
      <4>2. QED
        BY <1>1, <2>1, <2>2, <4>1 DEF LoadInv, LoadsEndInOrder, InOrder, Reloads
    <3>2. QED
      BY <1>1, <1>2, <2>1, <2>2, <2>4, <3>1 DEF LoadInv, LastLoadIsCurrent
  <2>5. QED
    BY <2>3, <2>4
<1>5. QED
  BY <1>3, <1>4

LEMMA LoadStep ==
  ASSUME LoadInv, [ConfigNext]_configVars
  PROVE  LoadInv'
<1>1. ConfigInv'
  BY NextInv DEF LoadInv
<1>2. LoadsEndInOrder' /\ LastLoadIsCurrent'
  <2>1. CASE UNCHANGED <<reloadVars, currentProfile, told, sourceVars, case>>
             /\ TextIsKept
    BY <2>1 DEF reloadVars, sourceVars, LoadInv, LoadsEndInOrder, InOrder,
                LastLoadIsCurrent, TextIsKept
  <2>2. CASE (\E orgs : Reload(currentProfile', orgs)) /\ UNCHANGED <<version, case>>
    BY <2>2, ReloadBegins
  <2>3. CASE \E r \in Reloads : ReadSources(r) \/ ReloadEnds(r)
    BY <2>3, ReadSourcesLoads, ReloadEndsLoads
  <2>4. CASE EditSources
    BY <2>4 DEF EditSources, selectionVars, reloadVars, resultVars, LoadInv,
                LoadsEndInOrder, InOrder, LastLoadIsCurrent
  <2>5. CASE currentProfile' = NoOne /\ UNCHANGED <<reloadVars, version, case>>
    BY <2>5 DEF reloadVars, LoadInv, LoadsEndInOrder, InOrder, LastLoadIsCurrent
  <2>6. CASE UNCHANGED configVars
    BY <2>1, <2>6 DEF configVars, cascadeVars, fetchVars, selectionVars, sourceVars,
                      resultVars, TextIsKept, TextFor
  <2>7. QED
    BY <2>1, <2>2, <2>3, <2>4, <2>5, <2>6, StepKinds DEF Kinds, LoadInv
<1>3. QED
  BY <1>1, <1>2 DEF LoadInv

\* When nothing is under way, the current profile and the listeners have the
\* configuration of its text, as its cascade has read it, and of the other
\* sources as they are now, for any number of cascades, reloads, edits and
\* selections, if loads end in the order in which they began.
THEOREM QuietConfigIsCurrentHolds == ConfigSpec => []QuietConfigIsCurrent
<1>1. LoadInv => QuietConfigIsCurrent
  <2>1. SUFFICES ASSUME LoadInv, AllOver, "overtake" \notin case,
                        currentProfile # NoOne
                 PROVE  /\ saved[currentProfile] = <<TextFor(currentProfile), version>>
                        /\ told = saved[currentProfile]
    BY DEF QuietConfigIsCurrent
  <2>2. reloads \in 1..((reloads + 1) - 1)
    BY <2>1, ConfigAssumption DEF LoadInv, LastLoadIsCurrent, ConfigInv,
                                  ConfigTypeOK
  <2>3. reloadAt[reloads] = "over" /\ ~unnoticed
    BY <2>1, <2>2 DEF AllOver, InOrder
  <2>4. QED
    BY <2>1, <2>3 DEF LoadInv, LastLoadIsCurrent
<1>2. QED
  BY <1>1, LoadInit, LoadStep, PTL DEF ConfigSpec

-----------------------------------------------------------------------------
\* Until init there is a reload that has not ended, or a cascade that holds the
\* current controller, since what replaces the controller begins a cascade; or
\* no profile is there to load.
InitIsUnderWay ==
  (cascades > 0 /\ ~initialized) =>
    \/ \E r \in 1..reloads : reloadAt[r] # "over"
    \/ \E c \in fetching : ~Aborted(c)
    \/ organizations # 0 /\ currentProfile = NoOne

UnderWayInv == ConfigInv /\ InitIsUnderWay

LEMMA UnderWayInit == ConfigInit => UnderWayInv
BY InitInv DEF ConfigInit, UnderWayInv, InitIsUnderWay

LEMMA ReloadIsUnderWay ==
  ASSUME ConfigInv, NEW m, NEW orgs, Reload(m, orgs)
  PROVE  InitIsUnderWay'
<1>1. /\ reloads \in Nat /\ reloads + 1 \in Reloads /\ reloads' = reloads + 1
      /\ reloadAt'[reloads + 1] = "loading"
  BY ConfigAssumption DEF Reload, ConfigInv, ConfigTypeOK, Reloads
<1>2. QED
  BY <1>1 DEF InitIsUnderWay

\* A step that keeps the cascades that run, their signals and the reloads
\* keeps InitIsUnderWay.
LEMMA StillUnderWay ==
  ASSUME UnderWayInv,
         UNCHANGED <<fetching, cascadeSignal, controller, cascades, reloads,
                     reloadAt, initialized, organizations, currentProfile>>
  PROVE  InitIsUnderWay'
BY DEF UnderWayInv, InitIsUnderWay, Aborted

LEMMA BeginIsUnderWay ==
  ASSUME ConfigInv, NEW login, CascadeBegins(login)
  PROVE  InitIsUnderWay'
<1>1. cascades + 1 \in Cascades
  BY ConfigAssumption DEF CascadeBegins, ConfigInv, ConfigTypeOK, Cascades
<1>2. /\ cascades + 1 \in fetching'
      /\ cascadeSignal' = [cascadeSignal EXCEPT ![cascades + 1] = controller']
  BY DEF CascadeBegins, CapturedSignal
<1>3. cascadeSignal'[cascades + 1] = controller'
  BY <1>1, <1>2 DEF ConfigInv, ConfigTypeOK
<1>4. QED
  BY <1>2, <1>3 DEF InitIsUnderWay, Aborted

\* What makes a profile current loads it.
LEMMA ReloadIfAnyIsUnderWay ==
  ASSUME ConfigInv, ReloadIfAny(currentProfile', organizations'),
         organizations' # 0
  PROVE  InitIsUnderWay'
BY ReloadIsUnderWay DEF ReloadIfAny, InitIsUnderWay

LEMMA CascadeIsUnderWay ==
  ASSUME UnderWayInv, NEW c \in Cascades, CascadeStep(c)
  PROVE  InitIsUnderWay'
<1>1. CASE \/ \E o \in Orgs : ReadFiles(c, o) \/ Rectify(c, o) \/ RectifyLate(c, o)
           \/ HubFails(c) \/ LocalFails(c)
  <2>1. UNCHANGED <<fetching, cascadeSignal, controller, cascades, reloads, reloadAt,
                    initialized, organizations, currentProfile>>
    BY <1>1 DEF ReadFiles, Rectify, RectifyLate, HubFails, LocalFails, reloadVars,
                resultVars, selectionVars
  <2>2. QED
    BY <2>1, StillUnderWay
<1>2. CASE Install(c)
  <2>1. ReloadIfAny(currentProfile', organizations') /\ organizations' # 0
    BY <1>2 DEF Install, Cascades
  <2>2. QED
    BY <2>1, ReloadIfAnyIsUnderWay DEF UnderWayInv
<1>3. CASE CascadeFails(c) /\ ~Aborted(c)
  BY <1>3 DEF CascadeFails, InitIsUnderWay
<1>4. CASE (CascadeAborted(c) \/ CascadeFails(c)) /\ Aborted(c)
  <2>1. /\ fetching' = fetching \ {c} /\ initialized' = initialized
        /\ UNCHANGED <<cascadeSignal, controller, cascades, reloads, reloadAt,
                       organizations, currentProfile>>
    <3>1. CascadeLeaves(c) /\ UNCHANGED <<reloadVars, initialized, selectionVars>>
      BY <1>4 DEF CascadeAborted, CascadeFails, resultVars, UnderWayInv, ConfigInv,
                  ConfigTypeOK
    <3>2. QED
      BY <3>1 DEF CascadeLeaves, reloadVars, selectionVars
  <2>2. QED
    BY <1>4, <2>1 DEF UnderWayInv, InitIsUnderWay, Aborted
<1>5. QED
  BY <1>1, <1>2, <1>3, <1>4 DEF CascadeStep, CascadeAborted

LEMMA UnderWayStep ==
  ASSUME UnderWayInv, [ConfigNext]_configVars
  PROVE  UnderWayInv'
<1>1. ConfigInv'
  BY NextInv DEF UnderWayInv
<1>2. InitIsUnderWay'
  <2>1. CASE Construct \/ RefreshAll \/ UpdateSettings \/ UpdateSession
    <3>1. \E login : CascadeBegins(login)
      BY <2>1, Zenon DEF Construct, RefreshAll, UpdateSettings, UpdateSession
    <3>2. QED
      BY <3>1, BeginIsUnderWay DEF UnderWayInv
  <2>2. CASE \E c \in Cascades : CascadeStep(c)
    BY <2>2, CascadeIsUnderWay
  <2>3. ASSUME NEW r \in Reloads, ReadSources(r) PROVE InitIsUnderWay'
    <3>1. /\ reloadAt[r] = "loading"
          /\ reloadAt' = [reloadAt EXCEPT ![r] = "read"]
          /\ UNCHANGED <<fetching, cascadeSignal, controller, cascades, reloads,
                         initialized, organizations, currentProfile>>
      BY <2>3 DEF ReadSources, cascadeVars, resultVars, selectionVars
    <3>2. \A q \in 1..reloads : reloadAt[q] # "over" => reloadAt'[q] # "over"
      BY <3>1 DEF UnderWayInv, ConfigInv, ConfigTypeOK, Reloads
    <3>3. QED
      BY <3>1, <3>2 DEF UnderWayInv, InitIsUnderWay, Aborted
  <2>4. ASSUME NEW r \in Reloads, ReloadEnds(r) PROVE InitIsUnderWay'
    BY <2>4 DEF ReloadEnds, InitIsUnderWay
  <2>5. CASE EditSources \/ Selects
    <3>1. UNCHANGED <<cascadeVars, reloadVars, resultVars, selectionVars>>
      BY <2>5 DEF EditSources, Selects, SelectOrg, SelectProfile
    <3>2. QED
      BY <3>1, StillUnderWay DEF cascadeVars, reloadVars, resultVars, selectionVars
  <2>6. CASE NoticeEdit
    <3>1. CASE currentProfile # NoOne
      BY <2>6, <3>1, ReloadIsUnderWay DEF NoticeEdit, ReloadIfAny, UnderWayInv
    <3>2. CASE currentProfile = NoOne
      BY <2>6, <3>2, StillUnderWay
         DEF NoticeEdit, ReloadIfAny, TellNone, cascadeVars, reloadVars, selectionVars
    <3>3. QED
      BY <3>1, <3>2
  <2>7. CASE OrgSelected \/ ProfileSelected
    <3>1. CASE OrgSelected /\ selecting.profile = NoOne
      <4>1. /\ ReloadIfAny(currentProfile', organizations')
            /\ selecting.stage = "org" /\ organizations' = organizations
        BY <3>1 DEF OrgSelected
      <4>2. organizations # 0
        BY <4>1, OrgSelectedFacts DEF UnderWayInv
      <4>3. QED
        BY <4>1, <4>2, ReloadIfAnyIsUnderWay DEF UnderWayInv
    <3>2. CASE OrgSelected /\ selecting.profile # NoOne
      BY <3>2, StillUnderWay DEF OrgSelected, cascadeVars, reloadVars, resultVars
    <3>3. CASE ProfileSelected
      BY <3>3, ReloadIsUnderWay DEF ProfileSelected, UnderWayInv
    <3>4. QED
      BY <2>7, <3>1, <3>2, <3>3
  <2>8. CASE UNCHANGED configVars
    BY <2>8, StillUnderWay DEF configVars, cascadeVars, reloadVars, resultVars,
                               selectionVars
  <2>9. QED
    BY <2>1, <2>2, <2>3, <2>4, <2>5, <2>6, <2>7, <2>8 DEF ConfigNext
<1>3. QED
  BY <1>1, <1>2 DEF UnderWayInv

\* When nothing is under way init has come, for any number of cascades that are
\* aborted or fail, unless what is installed has no current profile.
THEOREM QuietIsInitializedHolds == ConfigSpec => []QuietIsInitialized
<1>1. UnderWayInv => QuietIsInitialized
  <2>1. SUFFICES ASSUME UnderWayInv, AllOver, cascades > 0, ~initialized
                 PROVE  organizations # 0 /\ currentProfile = NoOne
    BY DEF QuietIsInitialized, UnderWayInv, ConfigInv, ConfigTypeOK
  <2>2. \A r \in 1..reloads : reloadAt[r] = "over"
    BY <2>1, ConfigAssumption DEF AllOver, InOrder, UnderWayInv, ConfigInv,
                                  ConfigTypeOK
  <2>3. fetching = {}
    BY <2>1 DEF AllOver
  <2>4. QED
    BY <2>1, <2>2, <2>3 DEF UnderWayInv, InitIsUnderWay
<1>2. QED
  BY <1>1, UnderWayInit, UnderWayStep, PTL DEF ConfigSpec
=============================================================================
