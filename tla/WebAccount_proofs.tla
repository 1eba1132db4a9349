-------------------------- MODULE WebAccount_proofs --------------------------
(* Theorems about the parts of MCWebAccount: the SSO flows of WebOAuth, for  *)
(* any number of flows and users and any expiry; the preferences of          *)
(* WebPreferences, for any themes and languages and any number of choices;   *)
(* the session of WebSession, for any number of tabs, tasks and tokens; the  *)
(* filters of WebFilters, for any filters and number of actions; the dialogs *)
(* of WebDialogs, for any number of targets, openings and requests; and the  *)
(* settings of WebSettings, for any values, pages and saves.                 *)
EXTENDS MCWebAccount, Orders_proofs

Owners == Users \cup {Nobody}
Ages == 0..StateExpiry + 1

OAuthTypes ==
    /\ browserUser \in Owners /\ docUser \in Owners
    /\ docAt \in {"app", "provider", "callback", "exchange"}
    /\ callback \in Flows \cup {Nobody}
    /\ docAt \in {"callback", "exchange"} => callback # Nobody
    /\ oauthSlot \in [state : Flows \cup {Nobody}, flowMode : Modes \cup {"none"},
                      linkingUserName : Owners, age : Ages]
    /\ exchange.flow \in Flows \cup {Nobody}
    /\ started \in [Flows -> [mode : Modes \cup {"none"}, user : Owners, age : Ages]]
    /\ completed \in [Flows -> [mode : Modes \cup {"none"}, user : Owners, late : BOOLEAN, times : Nat]]

\* A flow that was started has a mode; one that was not has not been completed.
FlowHistory ==
    \A f \in Flows :
        /\ started[f].mode = "none" => started[f] = Unstarted /\ completed[f].times = 0
        /\ started[f].mode = "link" => started[f].user # Nobody
        /\ started[f].mode = "signin" => started[f].user = Nobody

\* The slot is that of a flow that is still to be completed.
SlotIsOpen ==
    oauthSlot # EmptySlot =>
        /\ oauthSlot.state \in Flows
        /\ LET f == oauthSlot.state
           IN  /\ started[f].mode # "none" /\ completed[f].times = 0
               /\ oauthSlot.flowMode = started[f].mode
               /\ oauthSlot.linkingUserName = started[f].user
               /\ oauthSlot.age = started[f].age

OAuthInv == OAuthTypes /\ FlowHistory /\ SlotIsOpen /\ OAuthCompletesWhatWasStarted

-----------------------------------------------------------------------------
USE DEF Owners, Ages, Modes

\* What the records are, without the operators that make them
LEMMA SlotFacts ==
    /\ EmptySlot = [state |-> Nobody, flowMode |-> "none", linkingUserName |-> Nobody, age |-> 0]
    /\ Unstarted = [mode |-> "none", user |-> Nobody, age |-> 0]
    /\ Nobody \notin Users /\ Nobody \notin Flows
    /\ 0 \in Ages /\ StateExpiry \in Nat
PROOF
  BY WebOAuthAssumption DEF EmptySlot, Entry, Unstarted

LEMMA OAuthInitially == OAuthInit => OAuthInv
PROOF
<1> SUFFICES ASSUME OAuthInit PROVE OAuthInv
  OBVIOUS
<1>1. OAuthTypes
  BY SlotFacts DEF OAuthInit, OAuthTypes, NoExchange
<1>2. FlowHistory /\ SlotIsOpen /\ OAuthCompletesWhatWasStarted
  BY SlotFacts DEF OAuthInit, FlowHistory, SlotIsOpen, OAuthCompletesWhatWasStarted
<1>3. QED
  BY <1>1, <1>2 DEF OAuthInv

\* A flow is started, once.
LEMMA LeaveStep ==
    ASSUME OAuthInv, NEW f \in Flows, SignInWithProvider(f) \/ LinkProvider(f)
    PROVE  OAuthInv'
PROOF
<1>1. PICK mode \in Modes, user \in Owners :
          /\ Leave(f, mode, user)
          /\ mode = "link" => user # Nobody
          /\ mode = "signin" => user = Nobody
  BY SlotFacts DEF SignInWithProvider, LinkProvider, OAuthInv, OAuthTypes
<1>2. /\ started[f] = Unstarted
      /\ oauthSlot' = [state |-> f, flowMode |-> mode, linkingUserName |-> user, age |-> 0]
      /\ started' = [started EXCEPT ![f] = [mode |-> mode, user |-> user, age |-> 0]]
      /\ docAt' = "provider"
      /\ UNCHANGED <<browserUser, docUser, callback, exchange, completed>>
  BY <1>1 DEF Leave, StoreOAuthState, Entry
<1>3. completed[f].times = 0
  BY <1>2, SlotFacts DEF OAuthInv, FlowHistory
<1>4. OAuthTypes'
  BY <1>2, SlotFacts DEF OAuthInv, OAuthTypes
<1>5. started' = [g \in Flows |-> IF g = f THEN [mode |-> mode, user |-> user, age |-> 0] ELSE started[g]]
  BY <1>2 DEF OAuthInv, OAuthTypes
<1>6. FlowHistory' /\ SlotIsOpen'
  BY <1>1, <1>2, <1>3, <1>5, SlotFacts DEF OAuthInv, FlowHistory, SlotIsOpen
<1>7. OAuthCompletesWhatWasStarted'
  BY <1>2, <1>3, <1>5 DEF OAuthInv, OAuthCompletesWhatWasStarted
<1>8. QED
  BY <1>4, <1>6, <1>7 DEF OAuthInv

\* A document is loaded.
LEMMA LoadStep ==
    ASSUME OAuthInv, OpenApp \/ \E f \in Flows : OpenCallback(f)
    PROVE  OAuthInv'
PROOF
<1>1. /\ oauthSlot' \in {oauthSlot, EmptySlot}
      /\ exchange' = NoExchange
      /\ docUser' = browserUser
      /\ UNCHANGED <<browserUser, started, completed>>
  BY DEF OpenApp, OpenCallback, Load
<1>2. (docAt' = "app" /\ callback' = Nobody) \/ (docAt' = "callback" /\ callback' \in Flows)
  BY DEF OpenApp, OpenCallback, Load
<1>3. OAuthTypes'
  BY <1>1, <1>2, SlotFacts DEF OAuthInv, OAuthTypes, NoExchange
<1>4. FlowHistory' /\ SlotIsOpen' /\ OAuthCompletesWhatWasStarted'
  BY <1>1 DEF OAuthInv, FlowHistory, SlotIsOpen, OAuthCompletesWhatWasStarted
<1>5. QED
  BY <1>3, <1>4 DEF OAuthInv

\* The slot is used up by the callback of its flow.
LEMMA AcceptedStep == OAuthInv /\ CallbackAccepted => OAuthInv'
PROOF
<1> SUFFICES ASSUME OAuthInv, CallbackAccepted PROVE OAuthInv'
  OBVIOUS
<1> DEFINE mode == oauthSlot.flowMode
           user == IF oauthSlot.flowMode = "link" THEN docUser ELSE Nobody
           entry == [mode |-> mode, user |-> user, late |-> Expired(started[callback]),
                     times |-> completed[callback].times + 1]
<1>1. /\ callback \in Flows /\ oauthSlot # EmptySlot /\ oauthSlot.state = callback
      /\ ~Expired(oauthSlot)
      /\ mode = "link" => LinkAllowed(oauthSlot)
  BY DEF CallbackAccepted, ValidateOAuthState, OAuthInv, SlotIsOpen
<1>2. /\ started[callback].mode = mode /\ mode \in Modes
      /\ oauthSlot.linkingUserName = started[callback].user
      /\ oauthSlot.age = started[callback].age
      /\ completed[callback].times = 0
  BY <1>1 DEF OAuthInv, SlotIsOpen, OAuthTypes
<1>3. user = started[callback].user
  BY <1>1, <1>2 DEF LinkAllowed, OAuthInv, FlowHistory
<1>4. Expired(started[callback]) = FALSE
  BY <1>1, <1>2 DEF Expired
<1>5. completed' = [completed EXCEPT ![callback] = entry]
  BY DEF CallbackAccepted
<1>6. entry = [mode |-> mode, user |-> user, late |-> FALSE, times |-> 1]
  <2>1. completed[callback].times + 1 = 1
    BY <1>2
  <2>2. QED
    BY <1>4, <2>1, Zenon
<1>7. entry.mode = mode /\ entry.user = user /\ ~entry.late /\ entry.times = 1
  BY <1>6
<1>8. entry \in [mode : Modes \cup {"none"}, user : Owners, late : BOOLEAN, times : Nat]
  <2>1. mode \in Modes \cup {"none"} /\ user \in Owners /\ 1 \in Nat
    BY <1>1, <1>2, <1>3 DEF OAuthInv, OAuthTypes
  <2>2. FALSE \in BOOLEAN
    OBVIOUS
  <2> HIDE DEF mode, user, entry
  <2>3. QED
    BY <1>6, <2>1, <2>2, Zenon
<1> HIDE DEF entry, mode, user
<1>9. completed' = [f \in Flows |-> IF f = callback THEN entry ELSE completed[f]]
  BY <1>5 DEF OAuthInv, OAuthTypes
<1>10. /\ docAt' = "exchange" /\ oauthSlot' = EmptySlot /\ exchange'.flow = callback
       /\ UNCHANGED <<browserUser, docUser, callback, started>>
  BY DEF CallbackAccepted
<1>11. OAuthTypes'
  BY <1>1, <1>8, <1>9, <1>10, SlotFacts DEF OAuthInv, OAuthTypes
<1>12. FlowHistory' /\ SlotIsOpen'
  BY <1>1, <1>2, <1>9, <1>10 DEF OAuthInv, FlowHistory, SlotIsOpen
<1>13. OAuthCompletesWhatWasStarted'
  BY <1>2, <1>3, <1>7, <1>9, <1>10 DEF OAuthInv, OAuthCompletesWhatWasStarted
<1>14. QED
  BY <1>11, <1>12, <1>13 DEF OAuthInv

\* The other ends of a callback, and another tab
LEMMA OtherStep ==
    ASSUME OAuthInv, CallbackRefused \/ ExchangeDone \/ ExchangeFailed \/ OtherTab
    PROVE  OAuthInv'
PROOF
<1>1. oauthSlot' \in {oauthSlot, EmptySlot} /\ UNCHANGED <<started, completed>>
  BY DEF CallbackRefused, ExchangeDone, ExchangeFailed, OtherTab
<1>2. /\ browserUser' \in Owners /\ docUser' \in Owners
      /\ exchange' \in {exchange, NoExchange}
      /\ (docAt' = "app" /\ callback' = Nobody) \/ (docAt' = docAt /\ callback' = callback)
  BY DEF CallbackRefused, ExchangeDone, ExchangeFailed, OtherTab, OAuthInv, OAuthTypes
<1>3. OAuthTypes'
  BY <1>1, <1>2, SlotFacts DEF OAuthInv, OAuthTypes, NoExchange
<1>4. FlowHistory' /\ SlotIsOpen' /\ OAuthCompletesWhatWasStarted'
  BY <1>1 DEF OAuthInv, FlowHistory, SlotIsOpen, OAuthCompletesWhatWasStarted
<1>5. QED
  BY <1>3, <1>4 DEF OAuthInv

\* Flow and slot grow old together.
LEMMA AgeStep == OAuthInv /\ Age => OAuthInv'
PROOF
<1> SUFFICES ASSUME OAuthInv, Age PROVE OAuthInv'
  OBVIOUS
<1> DEFINE Next(age) == IF age > StateExpiry THEN age ELSE age + 1
<1>1. \A age \in Ages : Next(age) \in Ages
  BY SlotFacts
<1>2. UNCHANGED <<browserUser, docAt, docUser, callback, exchange, completed>>
  BY DEF Age
<1>3. oauthSlot # EmptySlot =>
          oauthSlot' = [state |-> oauthSlot.state, flowMode |-> oauthSlot.flowMode,
                        linkingUserName |-> oauthSlot.linkingUserName, age |-> Next(oauthSlot.age)]
  BY DEF Age, Older, OAuthInv, OAuthTypes
<1>4. oauthSlot = EmptySlot => oauthSlot' = EmptySlot
  BY DEF Age
<1>5. \A f \in Flows :
          started'[f] = IF started[f] = Unstarted THEN Unstarted
                        ELSE [mode |-> started[f].mode, user |-> started[f].user, age |-> Next(started[f].age)]
  BY DEF Age, Older, OAuthInv, OAuthTypes
<1>6. started' = [f \in Flows |-> started'[f]]
  BY DEF Age
<1> HIDE DEF Next
<1>7. \A f \in Flows :
          /\ started'[f] \in [mode : Modes \cup {"none"}, user : Owners, age : Ages]
          /\ started'[f].mode = started[f].mode /\ started'[f].user = started[f].user
          /\ started[f].mode # "none" => started'[f].age = Next(started[f].age)
          /\ started[f].mode = "none" => started'[f] = Unstarted
  <2> TAKE f \in Flows
  <2>1. started[f] \in [mode : Modes \cup {"none"}, user : Owners, age : Ages]
    BY DEF OAuthInv, OAuthTypes
  <2>2. CASE started[f] = Unstarted
    <3>1. started'[f] = started[f]
      BY <1>5, <2>2
    <3>2. started[f].mode = "none"
      BY <2>2, SlotFacts
    <3>3. QED
      BY <2>1, <2>2, <3>1, <3>2
  <2>3. CASE started[f] # Unstarted
    <3>1. started'[f] = [mode |-> started[f].mode, user |-> started[f].user, age |-> Next(started[f].age)]
      BY <1>5, <2>3
    <3>2. started[f].mode # "none"
      BY <2>3 DEF OAuthInv, FlowHistory
    <3>3. Next(started[f].age) \in Ages
      BY <1>1, <2>1
    <3>4. QED
      BY <2>1, <3>1, <3>2, <3>3
  <2>4. QED
    BY <2>2, <2>3
<1>8. OAuthTypes'
  BY <1>1, <1>2, <1>3, <1>4, <1>6, <1>7, SlotFacts DEF OAuthInv, OAuthTypes
<1>9. FlowHistory'
  BY <1>2, <1>7 DEF OAuthInv, FlowHistory
<1>10. SlotIsOpen'
  BY <1>2, <1>3, <1>4, <1>7 DEF OAuthInv, SlotIsOpen
<1>11. OAuthCompletesWhatWasStarted'
  BY <1>2, <1>7 DEF OAuthInv, OAuthCompletesWhatWasStarted
<1>12. QED
  BY <1>8, <1>9, <1>10, <1>11 DEF OAuthInv

LEMMA OAuthInvariant == OAuthSpec => []OAuthInv
PROOF
<1>1. OAuthInv /\ [OAuthNext]_oauthVars => OAuthInv'
  <2> SUFFICES ASSUME OAuthInv, [OAuthNext]_oauthVars PROVE OAuthInv'
    OBVIOUS
  <2>1. CASE OAuthNext
    BY <2>1, LeaveStep, LoadStep, AcceptedStep, OtherStep, AgeStep DEF OAuthNext
  <2>2. CASE UNCHANGED oauthVars
    BY <2>2 DEF oauthVars, OAuthInv, OAuthTypes, FlowHistory, SlotIsOpen, OAuthCompletesWhatWasStarted
  <2>3. QED
    BY <2>1, <2>2
<1>2. QED
  BY <1>1, OAuthInitially, PTL DEF OAuthSpec

\* The types of the slot, the callback page and the flows
THEOREM OAuthTypesCorrect == OAuthSpec => []OAuthTypeOK
PROOF
<1>1. OAuthInv => OAuthTypeOK
  BY DEF OAuthInv, OAuthTypes, OAuthTypeOK
<1>2. QED
  BY <1>1, OAuthInvariant, PTL

\* validateOAuthState and its one slot: for any number of flows, callbacks in any
\* order and any change of user, a flow is completed at most once, in time, as it
\* was started and for who started it.
THEOREM FlowsCompleteAsStarted == OAuthSpec => []OAuthCompletesWhatWasStarted
PROOF
<1>1. OAuthInv => OAuthCompletesWhatWasStarted
  BY DEF OAuthInv
<1>2. QED
  BY <1>1, OAuthInvariant, PTL

-----------------------------------------------------------------------------
UpdateType == [number : Nat, menu : Menus \cup {"none"}, field : Fields, value : Themes \cup Locales \cup Visibilities,
               read : General \cup {NoRow}, state : {"sent", "read", "written"}]
RefetchType == [number : Nat, copy : General \cup {NoRow}]

PreferencesTypes ==
    /\ PreferencesTypeOK
    /\ updates \subseteq UpdateType /\ refetches \subseteq RefetchType
    /\ \A u \in updates : u.state # "sent" => u.read # NoRow
    /\ latest \in [Menus -> Nat] /\ choices \in Nat /\ events \in Nat

\* One thing at a time, unless it is recorded in `crossed`: an update that the
\* page still listens to, or the settings it fetches afterwards, as they are.
OneChoice ==
    /\ screen # "user" => userGeneralSetting = NoRow
    /\ ~crossed =>
           /\ \A u, w \in updates : u = w
           /\ \A q, r \in refetches : q = r
           /\ updates # {} => screen = "user" /\ refetches = {}
           /\ \A u \in updates : u.menu \in Menus /\ latest[u.menu] = u.number
           /\ screen = "user" => \A r \in refetches : r.copy # NoRow => r.copy = Listed

\* The row has what was chosen, but for the field that an update is bringing.
RowIsChosen ==
    ~crossed =>
        /\ \A u \in updates :
               /\ chosen[u.field] = u.value
               /\ u.state = "read" => u.read = Stored
        /\ \A f \in Fields :
               \/ chosen[f] # Unset => Stored[f] = chosen[f]
               \/ \E u \in updates : u.field = f /\ u.state # "written"

\* The page is in step with its copy of a field, and follows the device if the
\* theme says so.
InStep(f) ==
    /\ userGeneralSetting[f] # Unset => applied[f] = userGeneralSetting[f]
    /\ f = "theme" => shown = resolveTheme(applied.theme) /\ (listening <=> applied.theme = "system")

\* Where it is not, the settings to come differ from the copy: taking them over
\* will make a change, which sets everything right.
PageFollows ==
    screen = "user" /\ ~crossed =>
        /\ userGeneralSetting # NoRow
        /\ \A f \in Local :
               \/ InStep(f)
               \/ /\ updates # {} \/ refetches # {}
                  /\ chosen[f] # Unset /\ chosen[f] # userGeneralSetting[f]

PreferencesInv == PreferencesTypes /\ OneChoice /\ RowIsChosen /\ PageFollows

-----------------------------------------------------------------------------
LEMMA GeneralFacts ==
    /\ EmptyGeneral \in General /\ getDefaultUserGeneralSetting \in General
    /\ Fields = {"theme", "locale", "memoVisibility"} /\ Local \subseteq Fields
    /\ \A f \in Fields : Values(f) \subseteq Themes \cup Locales \cup Visibilities /\ Unset \notin Values(f)
    /\ \A f \in Fields : \A v \in Values(f), g \in General :
           /\ [g EXCEPT ![f] = v] \in General /\ [g EXCEPT ![f] = v][f] = v
           /\ \A h \in Fields : h # f => [g EXCEPT ![f] = v][h] = g[h]
    /\ \A f \in Fields, g, k \in General : [g EXCEPT ![f] = k[f]] \in General
    /\ \A g \in General, f \in Local : g[f] # Unset => g[f] \in Values(f)
PROOF
<1>1. Fields = {"theme", "locale", "memoVisibility"}
  BY DEF Fields, EmptyGeneral
<1>2. QED
  BY <1>1, PreferencesAssumption DEF General, EmptyGeneral, getDefaultUserGeneralSetting, Local, Values

\* What UpdateUserSetting and ListUserSettings see are rows.
LEMMA StoredFacts ==
  ASSUME PreferencesTypes
  PROVE  /\ Stored \in General /\ Listed \in General /\ NoRow \notin General
         /\ general # NoRow => Listed = Stored
         /\ \A f \in Fields : Stored[f] # Unset => Listed = Stored
PROOF
<1>1. \A f \in Fields : EmptyGeneral[f] = Unset
  BY GeneralFacts DEF EmptyGeneral
<1>2. QED
  BY <1>1, GeneralFacts, RowAssumption DEF PreferencesTypes, PreferencesTypeOK, Stored, Listed

LEMMA PreferencesInitially == PreferencesInit => PreferencesInv
PROOF
<1> SUFFICES ASSUME PreferencesInit PROVE PreferencesInv
  OBVIOUS
<1>1. \A f \in Fields : EmptyGeneral[f] = Unset
  BY GeneralFacts DEF EmptyGeneral
<1>2. chosen = EmptyGeneral /\ updates = {} /\ refetches = {} /\ screen = "loading" /\ userGeneralSetting = NoRow
  BY DEF PreferencesInit
<1>3. PreferencesTypes
  <2>1. applied \in [theme : Themes, locale : Locales]
    BY PreferencesAssumption DEF PreferencesInit
  <2>2. latest \in [Menus -> Nat] /\ choices \in Nat /\ events \in Nat
    BY DEF PreferencesInit
  <2>3. QED
    BY <1>2, <2>1, <2>2, GeneralFacts DEF PreferencesInit, PreferencesTypes, PreferencesTypeOK
<1>4. OneChoice /\ RowIsChosen /\ PageFollows
  BY <1>1, <1>2 DEF OneChoice, RowIsChosen, PageFollows
<1>5. QED
  BY <1>3, <1>4 DEF PreferencesInv

\* The types of a step of an update or of a fetch
LEMMA PreferencesTypesStep == PreferencesTypes /\ [PreferencesNext]_preferenceVars => PreferencesTypes'
PROOF
<1> SUFFICES ASSUME PreferencesTypes, [PreferencesNext]_preferenceVars PROVE PreferencesTypes'
  OBVIOUS
<1> USE DEF PreferencesTypes, PreferencesTypeOK
<1>1. CASE LoadPage
  <2>1. updates' \subseteq UpdateType /\ \A u \in updates' : \E w \in updates : u = [w EXCEPT !.menu = "none"]
    BY <1>1 DEF LoadPage, UpdateType
  <2>2. \A u \in updates' : /\ u.state # "sent" => u.read # NoRow
                            /\ u.read \in General \cup {NoRow} /\ u.value \in Values(u.field)
    BY <2>1 DEF UpdateType
  <2>3. latest' \in [Menus -> Nat] /\ events' \in Nat /\ refetches' = {} /\ chosen' \in General /\ crossed' \in BOOLEAN
    BY <1>1, StoredFacts DEF LoadPage
  <2>4. /\ screen' = "loading" /\ userGeneralSetting' = NoRow /\ listening' = FALSE
        /\ UNCHANGED <<general, applied, dark, choices>>
    BY <1>1 DEF LoadPage
  <2>5. QED
    BY <2>1, <2>2, <2>3, <2>4
<1>2. CASE ShowGuest
  BY <1>2 DEF ShowGuest
<1>3. CASE Initialize
  <2>1. refetches' = {[number |-> 0, copy |-> NoRow]}
    BY <1>3 DEF Initialize
  <2>2. refetches' \subseteq RefetchType /\ \A r \in refetches' : r.copy \in General \cup {NoRow}
    BY <2>1 DEF RefetchType
  <2>3. QED
    BY <1>3, <2>2 DEF Initialize
<1>4. CASE LeaveSettings
  BY <1>4 DEF LeaveSettings, Menus
<1>5. CASE TurnDarkOrLight
  <2>1. applied' \in [theme : Themes, locale : Locales]
    BY <1>5, PreferencesAssumption DEF TurnDarkOrLight
  <2>2. QED
    BY <1>5, <2>1 DEF TurnDarkOrLight
<1>6. ASSUME NEW f \in Local, NEW v \in Values(f), ChooseAsGuest(f, v) PROVE PreferencesTypes'
  <2>1. applied' \in [theme : Themes, locale : Locales]
    BY <1>6 DEF ChooseAsGuest, LoadPreference, Local, Values
  <2>2. QED
    BY <1>6, <2>1 DEF ChooseAsGuest
<1>7. ASSUME NEW m \in Menus, NEW f \in Fields, NEW v \in Values(f), ChoosePreference(m, f, v) PROVE PreferencesTypes'
  <2>1. applied' \in [theme : Themes, locale : Locales]
    BY <1>7 DEF ChoosePreference, LoadPreference, Local, Values
  <2> DEFINE n == [number |-> choices', menu |-> m, field |-> f, value |-> v, read |-> NoRow, state |-> "sent"]
  <2>2. choices' \in Nat /\ updates' = updates \cup {n} /\ latest' \in [Menus -> Nat] /\ crossed' \in BOOLEAN
    BY <1>7 DEF ChoosePreference
  <2>3. n \in UpdateType /\ n.state = "sent" /\ n.read = NoRow /\ n.value \in Values(n.field)
    BY <2>2, GeneralFacts DEF UpdateType
  <2>4. chosen' \in General
    BY <1>7, GeneralFacts DEF ChoosePreference
  <2>5. UNCHANGED <<general, screen, userGeneralSetting, dark, listening, refetches, events>>
    BY <1>7 DEF ChoosePreference
  <2> HIDE DEF n
  <2>6. QED
    BY <2>1, <2>2, <2>3, <2>4, <2>5
<1>8. ASSUME NEW f \in Fields, NEW v \in Values(f), ChooseElsewhere(f, v) PROVE PreferencesTypes'
  <2>1. general' \in General /\ chosen' \in General
    BY <1>8, GeneralFacts, StoredFacts DEF ChooseElsewhere
  <2>2. QED
    BY <1>8, <2>1 DEF ChooseElsewhere
<1>9. ASSUME NEW u \in updates, ReadRow(u) \/ ReadRowFails(u) \/ WriteRow(u) PROVE PreferencesTypes'
  <2>1. PICK w : /\ updates' = (updates \ {u}) \cup {w}
                 /\ \/ \E g \in {Stored, EmptyGeneral} : w = [u EXCEPT !.state = "read", !.read = g]
                    \/ u.state = "read" /\ w = [u EXCEPT !.state = "written"]
    BY <1>9 DEF ReadRow, ReadRowFails, WriteRow
  <2>2. w \in UpdateType /\ (w.state # "sent" => w.read # NoRow) /\ w.value \in Values(w.field)
        /\ w.read \in General \cup {NoRow}
    <3>1. CASE \E g \in {Stored, EmptyGeneral} : w = [u EXCEPT !.state = "read", !.read = g]
      <4>1. PICK g \in General : g # NoRow /\ w = [u EXCEPT !.state = "read", !.read = g]
        BY <3>1, StoredFacts, GeneralFacts
      <4>2. QED
        BY <4>1 DEF UpdateType
    <3>2. CASE u.state = "read" /\ w = [u EXCEPT !.state = "written"]
      BY <3>2 DEF UpdateType
    <3>3. QED
      BY <2>1, <3>1, <3>2
  <2>3. general' \in General \cup {NoRow} /\ crossed' \in BOOLEAN
    <3>1. CASE WriteRow(u)
      <4>1. u \in UpdateType /\ u.read \in General /\ u.field \in Fields /\ u.value \in Values(u.field)
        BY <3>1 DEF WriteRow, UpdateType
      <4>2. Merge(u) \in General
        BY <4>1, GeneralFacts DEF Merge
      <4>3. QED
        BY <3>1, <4>2 DEF WriteRow
    <3>2. CASE ReadRow(u) \/ ReadRowFails(u)
      BY <3>2 DEF ReadRow, ReadRowFails
    <3>3. QED
      BY <1>9, <3>1, <3>2
  <2>4. UNCHANGED <<screen, userGeneralSetting, applied, dark, listening, refetches, latest, chosen, choices, events>>
    BY <1>9 DEF ReadRow, ReadRowFails, WriteRow
  <2>5. QED
    BY <2>1, <2>2, <2>3, <2>4
<1>10. ASSUME NEW u \in updates, UpdateAnswered(u) PROVE PreferencesTypes'
  <2>1. /\ updates' = updates \ {u}
        /\ refetches' \in {refetches, refetches \cup {[number |-> u.number, copy |-> NoRow]}}
        /\ UNCHANGED <<general, screen, userGeneralSetting, applied, dark, listening, latest, chosen, crossed, choices, events>>
    BY <1>10 DEF UpdateAnswered
  <2>2. refetches' \subseteq RefetchType /\ \A r \in refetches' : r.copy \in General \cup {NoRow}
    BY <2>1 DEF RefetchType, UpdateType
  <2>3. QED
    BY <2>1, <2>2
<1>11. ASSUME NEW u \in updates, UpdateFails(u) PROVE PreferencesTypes'
  <2>1. chosen' \in General
    BY <1>11, StoredFacts, GeneralFacts DEF UpdateFails, UpdateType
  <2>2. QED
    BY <1>11, <2>1 DEF UpdateFails
<1>12. ASSUME NEW r \in refetches, ReadForPage(r) \/ RefetchFails(r) PROVE PreferencesTypes'
  <2>1. refetches' \subseteq RefetchType /\ \A q \in refetches' : q.copy \in General \cup {NoRow}
    BY <1>12, StoredFacts DEF ReadForPage, RefetchFails, RefetchType
  <2>2. QED
    BY <1>12, <2>1 DEF ReadForPage, RefetchFails
<1>13. ASSUME NEW r \in refetches, SettingsArrive(r) PROVE PreferencesTypes'
  <2>1. r.copy \in General
    BY <1>13 DEF SettingsArrive
  <2>2. \A f \in Local : WithFallback(r.copy, f) \in Values(f) /\ applied[f] \in Values(f)
    BY <2>1, GeneralFacts DEF WithFallback, Local, Values
  <2>3. applied' \in [Local -> Themes \cup Locales] /\ \A f \in Local : applied'[f] \in Values(f)
    BY <1>13, <2>2, GeneralFacts DEF SettingsArrive, Adopted, Local, Values
  <2>4. applied' \in [theme : Themes, locale : Locales]
    BY <2>3 DEF Local, Values
  <2>5. userGeneralSetting' = r.copy /\ listening' \in BOOLEAN
    BY <1>13 DEF SettingsArrive, Adopted, ListenerFor
  <2>6. QED
    BY <1>13, <2>1, <2>4, <2>5 DEF SettingsArrive
<1>14. CASE UNCHANGED preferenceVars
  BY <1>14 DEF preferenceVars
<1>15. QED
  BY <1>1, <1>2, <1>3, <1>4, <1>5, <1>6, <1>7, <1>8, <1>9, <1>10, <1>11, <1>12, <1>13, <1>14 DEF PreferencesNext

\* A step in which something else overlaps, fails or is left says so: nothing is
\* claimed until the page is loaded again.
LEMMA CrossedStep ==
  ASSUME PreferencesInv, PreferencesTypes', crossed', screen' # "user" => userGeneralSetting' = NoRow
  PROVE  PreferencesInv'
PROOF
BY DEF PreferencesInv, OneChoice, RowIsChosen, PageFollows

\* A choice on the page, when nothing is under way
LEMMA ChoiceStep ==
  ASSUME PreferencesInv, PreferencesTypes', NEW m \in Menus, NEW f \in Fields, NEW v \in Values(f),
         ChoosePreference(m, f, v), ~crossed'
  PROVE  PreferencesInv'
PROOF
<1> DEFINE n == [number |-> choices', menu |-> m, field |-> f, value |-> v, read |-> NoRow, state |-> "sent"]
<1>1. /\ screen = "user" /\ ~crossed /\ updates = {} /\ refetches = {} /\ updates' = {n}
      /\ latest' = [latest EXCEPT ![m] = choices'] /\ chosen' = [chosen EXCEPT ![f] = v]
      /\ UNCHANGED <<general, screen, userGeneralSetting, dark, listening, refetches>>
  BY DEF ChoosePreference
<1>2. /\ chosen'[f] = v /\ v # Unset /\ \A h \in Fields : h # f => chosen'[h] = chosen[h]
  BY <1>1, GeneralFacts DEF PreferencesInv, PreferencesTypes, PreferencesTypeOK
<1>3. n.menu = m /\ n.number = choices' /\ n.field = f /\ n.value = v /\ n.state = "sent"
  OBVIOUS
<1> HIDE DEF n
<1>4. OneChoice'
  BY <1>1, <1>3 DEF PreferencesInv, PreferencesTypes, OneChoice
<1>5. RowIsChosen'
  BY <1>1, <1>2, <1>3 DEF PreferencesInv, RowIsChosen, Stored
<1>6. PageFollows'
  <2>1. \A h \in Local : InStep(h)
    BY <1>1 DEF PreferencesInv, PageFollows
  <2>2. ASSUME NEW h \in Local, h # f PROVE InStep(h)'
    <3>1. applied'[h] = applied[h] /\ (h = "theme" => shown' = shown)
      BY <2>2 DEF ChoosePreference, LoadPreference, PreferencesInv, PreferencesTypes, PreferencesTypeOK, Local
    <3>2. QED
      BY <1>1, <2>1, <3>1 DEF InStep, resolveTheme
  <2>3. ASSUME f \in Local, v = userGeneralSetting[f] PROVE InStep(f)'
    <3>1. applied[f] = v
      BY <1>2, <2>1, <2>3 DEF InStep
    <3>2. applied'[f] = v /\ (f = "theme" => shown' = resolveTheme(v))
      BY <2>3 DEF ChoosePreference, LoadPreference, PreferencesInv, PreferencesTypes, PreferencesTypeOK, Local
    <3>3. QED
      BY <1>1, <2>1, <2>3, <3>1, <3>2 DEF InStep, resolveTheme
  <2>4. userGeneralSetting' # NoRow
    BY <1>1 DEF PreferencesInv, PageFollows
  <2>5. QED
    BY <1>1, <1>2, <2>2, <2>3, <2>4 DEF PageFollows
<1>7. QED
  BY <1>4, <1>5, <1>6 DEF PreferencesInv

\* The steps of an update on the server, and its answer
LEMMA UpdateStep ==
  ASSUME PreferencesInv, PreferencesTypes', NEW u \in updates,
         ReadRow(u) \/ WriteRow(u) \/ UpdateAnswered(u), ~crossed
  PROVE  PreferencesInv'
PROOF
<1>1. updates = {u} /\ screen = "user" /\ refetches = {} /\ u \in UpdateType
  BY DEF PreferencesInv, OneChoice, PreferencesTypes
<1>2. CASE ReadRow(u)
  <2> DEFINE w == [u EXCEPT !.state = "read", !.read = Stored]
  <2>1. /\ updates' = {w}
        /\ UNCHANGED <<general, screen, userGeneralSetting, applied, dark, shown, listening, refetches, latest, chosen, crossed>>
        /\ u.state = "sent"
    BY <1>1, <1>2 DEF ReadRow
  <2>2. w.menu = u.menu /\ w.number = u.number /\ w.field = u.field /\ w.value = u.value /\ w.read = Stored /\ w.state = "read"
    BY <1>1 DEF UpdateType
  <2> HIDE DEF w
  <2>3. OneChoice'
    BY <1>1, <2>1, <2>2 DEF PreferencesInv, OneChoice
  <2>4. RowIsChosen'
    BY <1>1, <2>1, <2>2 DEF PreferencesInv, RowIsChosen, Stored
  <2>5. PageFollows'
    BY <1>1, <2>1 DEF PreferencesInv, PageFollows, InStep, resolveTheme
  <2>6. QED
    BY <2>3, <2>4, <2>5 DEF PreferencesInv
<1>3. CASE WriteRow(u)
  <2> DEFINE w == [u EXCEPT !.state = "written"]
  <2>1. /\ updates' = {w} /\ general' = Merge(u) /\ u.state = "read"
        /\ UNCHANGED <<screen, userGeneralSetting, applied, dark, shown, listening, refetches, latest, chosen, crossed>>
    BY <1>1, <1>3 DEF WriteRow
  <2>2. w.menu = u.menu /\ w.number = u.number /\ w.field = u.field /\ w.value = u.value /\ w.state = "written"
    BY <1>1 DEF UpdateType
  <2> HIDE DEF w
  <2>3. OneChoice'
    BY <1>1, <2>1, <2>2 DEF PreferencesInv, OneChoice
  <2>4. u.field \in Fields /\ u.value \in Values(u.field) /\ u.read \in General /\ u.read = Stored
    BY <1>1, <2>1, StoredFacts DEF UpdateType, PreferencesInv, PreferencesTypes, PreferencesTypeOK, RowIsChosen
  <2>5. /\ general' \in General /\ general'[u.field] = u.value
        /\ \A h \in Fields : h # u.field => general'[h] = Stored[h]
    <3> DEFINE g == u.read
               f == u.field
               v == u.value
    <3>1. general' = [g EXCEPT ![f] = v] /\ f \in Fields /\ v \in Values(f) /\ g \in General /\ g = Stored
      BY <2>1, <2>4 DEF Merge
    <3> HIDE DEF g, f, v
    <3>2. /\ [g EXCEPT ![f] = v] \in General /\ [g EXCEPT ![f] = v][f] = v
          /\ \A h \in Fields : h # f => [g EXCEPT ![f] = v][h] = g[h]
      <4>1. Fields = {"theme", "locale", "memoVisibility"}
        BY GeneralFacts
      <4>2. QED
        BY <3>1, <4>1, PreferencesAssumption DEF General, Values
    <3>3. QED
      BY <3>1, <3>2 DEF f, v
  <2>6. Stored' = general'
    BY <2>5, RowAssumption DEF Stored
  <2>7. RowIsChosen'
    <3>1. /\ chosen' = chosen /\ ~crossed' /\ chosen[u.field] = u.value
          /\ \A h \in Fields : h # u.field => (chosen[h] # Unset => Stored[h] = chosen[h])
      BY <1>1, <2>1 DEF PreferencesInv, RowIsChosen
    <3>2. \A h \in Fields : chosen'[h] # Unset => Stored'[h] = chosen'[h]
      BY <2>5, <2>6, <3>1
    <3>3. QED
      BY <2>1, <2>2, <3>1, <3>2 DEF RowIsChosen
  <2>8. PageFollows'
    BY <1>1, <2>1 DEF PreferencesInv, PageFollows, InStep, resolveTheme
  <2>9. QED
    BY <2>3, <2>7, <2>8 DEF PreferencesInv
<1>4. CASE UpdateAnswered(u)
  <2> DEFINE r == [number |-> u.number, copy |-> NoRow]
  <2>1. /\ updates' = {} /\ refetches' = {r} /\ r.copy = NoRow /\ u.state = "written"
        /\ UNCHANGED <<general, screen, userGeneralSetting, applied, dark, shown, listening, latest, chosen, crossed>>
    BY <1>1, <1>4 DEF UpdateAnswered, PreferencesInv, OneChoice
  <2> HIDE DEF r
  <2>2. OneChoice'
    BY <1>1, <2>1 DEF PreferencesInv, OneChoice
  <2>3. RowIsChosen'
    BY <1>1, <2>1 DEF PreferencesInv, RowIsChosen, Stored
  <2>4. PageFollows'
    BY <1>1, <2>1 DEF PreferencesInv, PageFollows, InStep, resolveTheme
  <2>5. QED
    BY <2>2, <2>3, <2>4 DEF PreferencesInv
<1>5. QED
  BY <1>2, <1>3, <1>4

\* The settings that were fetched: the row as it is, and if the page was out of
\* step with a field, one that differs from its copy.
LEMMA ArrivalStep ==
  ASSUME PreferencesInv, PreferencesTypes', NEW r \in refetches, SettingsArrive(r), ~crossed
  PROVE  PreferencesInv'
PROOF
<1>1. /\ refetches = {r} /\ refetches' = {} /\ updates = {} /\ r.copy # NoRow /\ screen' = "user" /\ Adopted(r.copy)
      /\ UNCHANGED <<general, dark, updates, latest, chosen, crossed>>
  BY DEF SettingsArrive, PreferencesInv, OneChoice
<1>2. OneChoice' /\ RowIsChosen'
  BY <1>1 DEF PreferencesInv, OneChoice, RowIsChosen, Stored
<1> DEFINE v == r.copy
           Changed(f) == userGeneralSetting = NoRow \/ userGeneralSetting[f] # v[f]
<1>3. /\ userGeneralSetting' = v
      /\ \A f \in Local : applied'[f] = IF Changed(f) THEN WithFallback(v, f) ELSE applied[f]
      /\ shown' = IF Changed("theme") THEN resolveTheme(WithFallback(v, "theme")) ELSE shown
      /\ listening' = IF Changed("theme") THEN WithFallback(v, "theme") = "system" ELSE listening
  BY <1>1 DEF Adopted, ListenerFor
<1>4. ASSUME NEW f \in Local, Changed(f) PROVE InStep(f)'
  <2>1. applied'[f] = WithFallback(v, f)
    BY <1>3, <1>4
  <2>2. v[f] # Unset => applied'[f] = v[f]
    BY <2>1 DEF WithFallback
  <2>3. ASSUME f = "theme"
        PROVE  shown' = resolveTheme(applied.theme)' /\ (listening' <=> applied.theme' = "system")
    <3>1. shown' = resolveTheme(applied'["theme"]) /\ (listening' <=> applied'["theme"] = "system")
      BY <1>3, <1>4, <2>1, <2>3
    <3>2. QED
      BY <1>1, <3>1 DEF resolveTheme
  <2>4. QED
    BY <1>3, <2>2, <2>3 DEF InStep
<1>5. ASSUME NEW f \in Local, ~Changed(f) PROVE InStep(f)'
  <2>1. userGeneralSetting # NoRow /\ userGeneralSetting[f] = v[f] /\ screen = "user" /\ v = Listed
    BY <1>1, <1>5 DEF PreferencesInv, OneChoice
  <2>2. chosen[f] # Unset => v[f] = chosen[f]
    BY <1>1, <2>1, StoredFacts, GeneralFacts DEF PreferencesInv, RowIsChosen
  <2>3. InStep(f)
    BY <2>1, <2>2 DEF PreferencesInv, PageFollows
  <2>4. applied'[f] = applied[f] /\ (f = "theme" => shown' = shown /\ (listening' <=> listening))
    BY <1>3, <1>5
  <2>5. QED
    BY <1>1, <1>3, <2>1, <2>3, <2>4 DEF InStep, resolveTheme
<1>6. PageFollows'
  BY <1>1, <1>3, <1>4, <1>5 DEF PageFollows
<1>7. QED
  BY <1>2, <1>6 DEF PreferencesInv

\* What happens outside: another device, the colours of this one
LEMMA OutsideStep ==
  ASSUME PreferencesInv, PreferencesTypes', ~crossed',
         \/ TurnDarkOrLight
         \/ \E f \in Fields : \E v \in Values(f) : ChooseElsewhere(f, v)
  PROVE  PreferencesInv'
PROOF
<1>1. CASE TurnDarkOrLight
  <2>1. /\ UNCHANGED <<general, screen, userGeneralSetting, listening, updates, refetches, latest, chosen, crossed>>
        /\ dark' = ~dark
        /\ applied' = IF listening THEN [applied EXCEPT !.theme = "system"] ELSE applied
        /\ shown' = IF listening THEN [follows |-> TRUE, dark |-> dark'] ELSE shown
    BY <1>1 DEF TurnDarkOrLight
  <2>2. OneChoice' /\ RowIsChosen'
    BY <2>1 DEF PreferencesInv, OneChoice, RowIsChosen, Stored, Listed
  <2>3. ASSUME NEW f \in Local, InStep(f) PROVE InStep(f)'
    <3>1. CASE f = "theme"
      <4>1. CASE listening
        <5>1. applied.theme = "system" /\ applied'.theme = "system"
          BY <2>1, <2>3, <3>1, <4>1 DEF InStep, PreferencesInv, PreferencesTypes, PreferencesTypeOK
        <5>2. resolveTheme("system")' = [follows |-> TRUE, dark |-> dark']
          BY DEF resolveTheme
        <5>3. QED
          BY <2>1, <2>3, <3>1, <4>1, <5>1, <5>2 DEF InStep, resolveTheme
      <4>2. CASE ~listening
        BY <2>1, <2>3, <3>1, <4>2 DEF InStep, resolveTheme
      <4>3. QED
        BY <4>1, <4>2
    <3>2. CASE f = "locale"
      BY <2>1, <2>3, <3>2 DEF InStep, PreferencesInv, PreferencesTypes, PreferencesTypeOK
    <3>3. QED
      BY <3>1, <3>2 DEF Local
  <2>4. PageFollows'
    BY <2>1, <2>3 DEF PreferencesInv, PageFollows
  <2>5. QED
    BY <2>2, <2>4 DEF PreferencesInv
<1>2. ASSUME NEW f \in Fields, NEW v \in Values(f), ChooseElsewhere(f, v) PROVE PreferencesInv'
  <2>1. /\ general' = [Stored EXCEPT ![f] = v] /\ chosen' = [chosen EXCEPT ![f] = v] /\ updates = {} /\ ~crossed
        /\ screen = "user" => refetches = {}
        /\ UNCHANGED <<screen, userGeneralSetting, applied, dark, shown, listening, updates, refetches, latest>>
    BY <1>2 DEF ChooseElsewhere
  <2>2. OneChoice'
    BY <2>1 DEF PreferencesInv, OneChoice
  <2>3. Stored' = general'
    BY <2>1, GeneralFacts, StoredFacts DEF PreferencesInv, Stored
  <2>4. \A h \in Fields : chosen[h] # Unset => Stored[h] = chosen[h]
    BY <2>1 DEF PreferencesInv, RowIsChosen
  <2>5. \A h \in Fields : chosen'[h] # Unset => general'[h] = chosen'[h]
    BY <2>1, <2>4, GeneralFacts, StoredFacts DEF PreferencesInv, PreferencesTypes, PreferencesTypeOK
  <2>6. RowIsChosen'
    BY <2>1, <2>3, <2>5 DEF RowIsChosen
  <2>7. PageFollows'
    BY <2>1 DEF PreferencesInv, PageFollows, InStep, resolveTheme
  <2>8. QED
    BY <2>2, <2>6, <2>7 DEF PreferencesInv
<1>3. QED
  BY <1>1, <1>2

LEMMA PreferencesInvariant == PreferencesSpec => []PreferencesInv
PROOF
<1>1. PreferencesInv /\ [PreferencesNext]_preferenceVars => PreferencesInv'
  <2> SUFFICES ASSUME PreferencesInv, [PreferencesNext]_preferenceVars PROVE PreferencesInv'
    OBVIOUS
  <2>1. PreferencesTypes'
    BY PreferencesTypesStep DEF PreferencesInv
  <2>2. screen' # "user" => userGeneralSetting' = NoRow
    BY DEF PreferencesNext, preferenceVars, PreferencesInv, OneChoice, LoadPage, ShowGuest, Initialize, LeaveSettings,
       TurnDarkOrLight, ChooseAsGuest, ChoosePreference, ChooseElsewhere, ReadRow, ReadRowFails, WriteRow,
       UpdateAnswered, UpdateFails, ReadForPage, SettingsArrive, RefetchFails
  <2>3. CASE crossed'
    BY <2>1, <2>2, <2>3, CrossedStep
  <2>4. CASE ~crossed'
    <3>1. CASE LoadPage
      <4>1. updates = {} /\ updates' = {} /\ chosen' = Stored /\ screen' = "loading" /\ refetches' = {} /\ general' = general
        BY <2>4, <3>1 DEF LoadPage
      <4>2. OneChoice' /\ RowIsChosen' /\ PageFollows'
        BY <2>2, <4>1 DEF OneChoice, RowIsChosen, PageFollows, Stored
      <4>3. QED
        BY <2>1, <4>2 DEF PreferencesInv
    <3>2. CASE ShowGuest
      BY <2>1, <2>2, <3>2 DEF ShowGuest, PreferencesInv, OneChoice, RowIsChosen, PageFollows, Stored
    <3>3. CASE Initialize
      BY <2>1, <2>2, <2>4, <3>3 DEF Initialize, PreferencesInv, OneChoice, RowIsChosen, PageFollows, Stored
    <3>4. CASE LeaveSettings
      <4>1. /\ latest' = [latest EXCEPT !["PreferencesSection"] = 0] /\ ~crossed
            /\ \A u \in updates : u.menu # "PreferencesSection"
            /\ UNCHANGED <<general, screen, userGeneralSetting, applied, dark, shown, listening, updates, refetches, chosen>>
        BY <2>4, <3>4 DEF LeaveSettings
      <4>2. OneChoice'
        BY <4>1 DEF PreferencesInv, PreferencesTypes, OneChoice, Listed
      <4>3. RowIsChosen' /\ PageFollows'
        BY <4>1 DEF PreferencesInv, RowIsChosen, PageFollows, InStep, Stored, resolveTheme
      <4>4. QED
        BY <2>1, <4>2, <4>3 DEF PreferencesInv
    <3>5. ASSUME NEW f \in Local, NEW v \in Values(f), ChooseAsGuest(f, v) PROVE PreferencesInv'
      BY <2>1, <2>4, <3>5 DEF ChooseAsGuest, PreferencesInv, OneChoice, RowIsChosen, PageFollows, Stored
    <3>6. ASSUME NEW m \in Menus, NEW f \in Fields, NEW v \in Values(f), ChoosePreference(m, f, v) PROVE PreferencesInv'
      BY <2>1, <2>4, <3>6, ChoiceStep
    <3>7. CASE TurnDarkOrLight \/ \E f \in Fields : \E v \in Values(f) : ChooseElsewhere(f, v)
      BY <2>1, <2>4, <3>7, OutsideStep
    <3>8. ASSUME NEW u \in updates, ReadRow(u) \/ ReadRowFails(u) \/ WriteRow(u) \/ UpdateAnswered(u) \/ UpdateFails(u)
          PROVE  PreferencesInv'
      <4>1. ~crossed /\ (ReadRow(u) \/ WriteRow(u) \/ UpdateAnswered(u))
        BY <2>4, <3>8 DEF ReadRow, ReadRowFails, WriteRow, UpdateAnswered, UpdateFails
      <4>2. QED
        BY <2>1, <4>1, UpdateStep
    <3>9. ASSUME NEW r \in refetches, ReadForPage(r) \/ RefetchFails(r) PROVE PreferencesInv'
      <4>1. /\ ~crossed /\ refetches = {r} /\ updates = {}
            /\ \A q \in refetches' : q.copy = Listed
            /\ \A p, q \in refetches' : p = q
            /\ screen = "user" => refetches' # {}
            /\ UNCHANGED <<general, screen, userGeneralSetting, applied, dark, shown, listening, updates, latest, chosen>>
        <5>1. /\ ~crossed /\ refetches = {r} /\ updates = {}
              /\ UNCHANGED <<general, screen, userGeneralSetting, applied, dark, shown, listening, updates, latest, chosen>>
          <6>1. UNCHANGED <<general, screen, userGeneralSetting, applied, dark, shown, listening, updates, latest, chosen>>
            BY <3>9 DEF ReadForPage, RefetchFails
          <6>2. ~crossed
            BY <2>4, <3>9 DEF ReadForPage, RefetchFails
          <6>3. refetches = {r} /\ updates = {}
            BY <6>2, <3>9 DEF PreferencesInv, OneChoice
          <6>4. QED
            BY <6>1, <6>2, <6>3
        <5>2. CASE ReadForPage(r)
          <6>1. refetches' = {[r EXCEPT !.copy = Listed]} /\ [r EXCEPT !.copy = Listed].copy = Listed
            BY <5>1, <5>2 DEF ReadForPage, PreferencesInv, PreferencesTypes, RefetchType
          <6>2. QED
            BY <5>1, <6>1
        <5>3. CASE RefetchFails(r)
          BY <2>4, <5>1, <5>3 DEF RefetchFails
        <5>4. QED
          BY <3>9, <5>1, <5>2, <5>3
      <4>2. OneChoice' /\ RowIsChosen' /\ PageFollows'
        BY <4>1 DEF PreferencesInv, OneChoice, RowIsChosen, PageFollows, InStep, Stored, Listed, resolveTheme
      <4>3. QED
        BY <2>1, <4>2 DEF PreferencesInv
    <3>10. ASSUME NEW r \in refetches, SettingsArrive(r) PROVE PreferencesInv'
      <4>1. ~crossed
        BY <2>4, <3>10 DEF SettingsArrive
      <4>2. QED
        BY <2>1, <3>10, <4>1, ArrivalStep
    <3>11. CASE UNCHANGED preferenceVars
      BY <2>1, <3>11 DEF preferenceVars, PreferencesInv, OneChoice, RowIsChosen, PageFollows, InStep, Stored, Listed, resolveTheme
    <3>12. QED
      BY <3>1, <3>2, <3>3, <3>4, <3>5, <3>6, <3>7, <3>8, <3>9, <3>10, <3>11 DEF PreferencesNext
  <2>5. QED
    BY <2>3, <2>4
<1>2. QED
  BY <1>1, PreferencesInitially, PTL DEF PreferencesSpec

\* Once nothing is under way, and nothing overlapped or failed since the page was
\* loaded, the server holds every choice, the page is in the theme and language
\* of its copy, and its colours are those of its theme, for any number of
\* choices, other devices and changes of the light.
THEOREM PreferencesComeToAgree == PreferencesSpec => []PreferencesAgree
PROOF
<1>1. PreferencesInv => PreferencesAgree
  BY DEF PreferencesInv, RowIsChosen, PageFollows, InStep, PreferencesAgree, Local
<1>2. QED
  BY <1>1, PreferencesInvariant, PTL

\* The variables of the preferences have their types.
THEOREM PreferenceTypesCorrect == PreferencesSpec => []PreferencesTypeOK
PROOF
<1>1. PreferencesInv => PreferencesTypeOK
  BY DEF PreferencesInv, PreferencesTypes
<1>2. QED
  BY <1>1, PreferencesInvariant, PTL

-----------------------------------------------------------------------------
\* A task that was resumed waits for nothing but its turn; one that waits has a
\* refresh to wait for.
TaskShape(this, pending) ==
    /\ this.woken # "no" => this.at \in Waits
    /\ this.at \in Waits => this.woken # "no" \/ pending

TasksTyped ==
    /\ task = [t \in Tabs |-> task[t]]
    /\ \E slots \in Layouts : \A t \in Tabs : task[t] \in [slots[t] -> TaskType]
    /\ \A t \in Tabs : \A i \in DOMAIN task[t] : TaskShape(task[t][i], refresh[t].busy)

FlowTypes ==
    /\ left \in [Tokens -> 0..Life] /\ alive \subseteq Tokens
    /\ TasksTyped
    /\ refresh \in [Tabs -> [busy : BOOLEAN, token : MaybeToken]]
    /\ \A t \in Tabs : ~refresh[t].busy => refresh[t].token = NoToken
    /\ disturbed \in BOOLEAN /\ signedOut \in BOOLEAN

BrowserTypes ==
    /\ {cookie, stored} \subseteq MaybeToken
    /\ mem \in [Tabs -> MaybeToken] /\ bus \in [Tabs -> MaybeToken]
    /\ page \in [Tabs -> Pages] /\ account \in [Tabs -> {"closed", "loading", "guest", "member"}]

\* SignOutSticks is not inductive: the answer to a refresh that was sent before
\* the sign-out would bring the session back.
NothingReturns ==
    signedOut /\ ~disturbed =>
        cookie \notin alive /\ stored = NoToken /\ \A t \in Tabs : refresh[t].token = NoToken

SignOutInv == FlowTypes /\ BrowserTypes /\ NothingReturns

LEMMA TaskFacts ==
    /\ IdleTask \in TaskType /\ \A pending : TaskShape(IdleTask, pending)
    /\ \A kind \in Kinds : [IdleTask EXCEPT !.kind = kind] \in TaskType
    /\ NoToken \in MaybeToken /\ Tokens \subseteq MaybeToken
PROOF
BY DEF IdleTask, TaskType, Kinds, Waits, Answers, MaybeToken, TaskShape

\* One task of t goes on, and no refresh that others wait for is over.
LEMMA TaskSet ==
  ASSUME FlowTypes, NEW t \in Tabs, NEW i \in DOMAIN task[t], NEW new \in TaskType, SetTask(t, i, new),
         TaskShape(new, refresh'[t].busy),
         \A s \in Tabs : refresh[s].busy => refresh'[s].busy
  PROVE  TasksTyped'
PROOF
<1>1. PICK slots \in Layouts : \A s \in Tabs : task[s] \in [slots[s] -> TaskType]
  BY DEF FlowTypes, TasksTyped
<1>2. task' = [s \in Tabs |-> IF s = t THEN [task[t] EXCEPT ![i] = new] ELSE task[s]]
  BY DEF SetTask, FlowTypes, TasksTyped
<1>3. \A s \in Tabs : task'[s] = IF s = t THEN [task[t] EXCEPT ![i] = new] ELSE task[s]
  BY <1>2
<1>4. \A s \in Tabs : task'[s] \in [slots[s] -> TaskType]
  BY <1>1, <1>3
<1>5. \A s \in Tabs : \A j \in DOMAIN task'[s] :
          \/ task'[s][j] = task[s][j] /\ j \in DOMAIN task[s]
          \/ s = t /\ task'[s][j] = new
  BY <1>1, <1>3
<1>6. \A s \in Tabs : \A j \in DOMAIN task'[s] : TaskShape(task'[s][j], refresh'[s].busy)
  BY <1>5 DEF FlowTypes, TasksTyped, TaskShape
<1>7. task' = [s \in Tabs |-> task'[s]]
  BY <1>2
<1>8. QED
  BY <1>4, <1>6, <1>7 DEF TasksTyped

\* All tasks of t are set anew.
LEMMA TasksSet ==
  ASSUME FlowTypes, NEW t \in Tabs, NEW new,
         task' = [task EXCEPT ![t] = new], new \in [DOMAIN task[t] -> TaskType],
         \A i \in DOMAIN task[t] : TaskShape(new[i], refresh'[t].busy),
         \A s \in Tabs : s # t => refresh'[s] = refresh[s]
  PROVE  TasksTyped'
PROOF
<1>1. PICK slots \in Layouts : \A s \in Tabs : task[s] \in [slots[s] -> TaskType]
  BY DEF FlowTypes, TasksTyped
<1>2. task' = [s \in Tabs |-> IF s = t THEN new ELSE task[s]]
  BY DEF FlowTypes, TasksTyped
<1>3. \A s \in Tabs : task'[s] = IF s = t THEN new ELSE task[s]
  BY <1>2
<1>4. \A s \in Tabs : task'[s] \in [slots[s] -> TaskType]
  BY <1>1, <1>3
<1>5. \A s \in Tabs : \A j \in DOMAIN task'[s] : TaskShape(task'[s][j], refresh'[s].busy)
  BY <1>3 DEF FlowTypes, TasksTyped
<1>6. task' = [s \in Tabs |-> task'[s]]
  BY <1>2
<1>7. QED
  BY <1>4, <1>5, <1>6 DEF TasksTyped

\* A token that is issued is valid for its whole life.
LEMMA IssueTypes ==
  ASSUME FlowTypes, NEW new \in Tokens, NEW old, Issue(new, old)
  PROVE  left' \in [Tokens -> 0..Life] /\ alive' \subseteq Tokens
PROOF
BY WebSessionAssumption DEF Issue, FlowTypes

\* A refresh with a token that the server does not know brings none.
LEMMA RefreshSent ==
  ASSUME FlowTypes, NEW t \in Tabs, NEW token, SendRefresh(t, token)
  PROVE  /\ left' \in [Tokens -> 0..Life] /\ alive' \subseteq Tokens
         /\ refresh'[t].busy
         /\ refresh' \in [Tabs -> [busy : BOOLEAN, token : MaybeToken]]
         /\ \A s \in Tabs : ~refresh'[s].busy => refresh'[s].token = NoToken
         /\ \A s \in Tabs : s # t => refresh'[s] = refresh[s]
         /\ token \notin alive => alive' = alive /\ refresh'[t].token = NoToken
PROOF
<1>1. CASE token \notin alive
  <2>1. refresh' = [refresh EXCEPT ![t] = [busy |-> TRUE, token |-> NoToken]] /\ alive' = alive /\ left' = left
    BY <1>1 DEF SendRefresh, serverVars
  <2>2. QED
    BY <1>1, <2>1 DEF FlowTypes, MaybeToken
<1>2. ASSUME token \in alive, NEW new \in Tokens, Issue(new, token),
             refresh' = [refresh EXCEPT ![t] = [busy |-> TRUE, token |-> new]]
      PROVE  /\ left' \in [Tokens -> 0..Life] /\ alive' \subseteq Tokens
             /\ refresh'[t].busy
             /\ refresh' \in [Tabs -> [busy : BOOLEAN, token : MaybeToken]]
             /\ \A s \in Tabs : ~refresh'[s].busy => refresh'[s].token = NoToken
             /\ \A s \in Tabs : s # t => refresh'[s] = refresh[s]
  <2>1. left' \in [Tokens -> 0..Life] /\ alive' \subseteq Tokens
    BY <1>2, IssueTypes
  <2>2. QED
    BY <1>2, <2>1 DEF FlowTypes, MaybeToken
<1>3. QED
  BY <1>1, <1>2 DEF SendRefresh

\* What a step in tab t may do, so that the sign-out sticks: the server learns no
\* token that the browser's cookie holds, and where it holds a dead one no
\* refresh brings another.
Harmless(t) ==
    /\ FlowTypes'
    /\ cookie' = cookie /\ signedOut' = signedOut
    /\ stored' \in {stored, NoToken}
    /\ disturbed => disturbed'
    /\ cookie \notin alive => cookie \notin alive'
    /\ cookie \notin alive /\ stored = NoToken => \A s \in Tabs : refresh'[s].token \in {NoToken, refresh[s].token}

LEMMA HarmlessStep ==
  ASSUME SignOutInv, BrowserTypes', NEW t \in Tabs, Harmless(t)
  PROVE  SignOutInv'
PROOF
<1>1. ASSUME signedOut', ~disturbed'
      PROVE  cookie' \notin alive' /\ stored' = NoToken /\ \A s \in Tabs : refresh'[s].token = NoToken
  <2>1. signedOut /\ ~disturbed
    BY <1>1 DEF Harmless
  <2>2. cookie \notin alive /\ stored = NoToken /\ \A s \in Tabs : refresh[s].token = NoToken
    BY <2>1 DEF SignOutInv, NothingReturns
  <2>3. QED
    BY <2>2 DEF Harmless
<1>2. QED
  BY <1>1 DEF SignOutInv, NothingReturns, Harmless

\* A refresh is sent, or joined.
LEMMA AwaitIsHarmless ==
  ASSUME FlowTypes, NEW t \in Tabs, NEW i \in DOMAIN task[t], NEW new \in TaskType, NEW why \in Waits,
         AwaitRefresh(t, i, new, why), UNCHANGED <<cookie, stored, signedOut>>
  PROVE  Harmless(t)
PROOF
<1> DEFINE waiting == [new EXCEPT !.at = why, !.woken = "no"]
<1>1. SetTask(t, i, waiting) /\ waiting \in TaskType /\ TaskShape(waiting, TRUE)
  BY DEF AwaitRefresh, TaskType, TaskShape
<1> HIDE DEF waiting
<1>2. CASE refresh[t].busy
  <2>1. UNCHANGED <<left, alive, refresh, disturbed>>
    BY <1>2 DEF AwaitRefresh, serverVars
  <2>2. refresh'[t].busy = TRUE
    BY <1>2, <2>1 DEF FlowTypes
  <2>3. TasksTyped'
    BY <1>1, <2>1, <2>2, TaskSet
  <2>4. QED
    BY <2>1, <2>3 DEF Harmless, FlowTypes
<1>3. CASE ~refresh[t].busy
  <2>1. SendRefresh(t, cookie) /\ disturbed' = (disturbed \/ Collision(t))
    BY <1>3 DEF AwaitRefresh
  <2>2. disturbed' \in BOOLEAN /\ (disturbed => disturbed')
    BY <2>1
  <2>3. refresh'[t].busy = TRUE /\ \A s \in Tabs : refresh[s].busy => refresh'[s].busy
    BY <2>1, RefreshSent DEF FlowTypes
  <2>4. TasksTyped'
    BY <1>1, <2>3, TaskSet
  <2>5. QED
    BY <2>1, <2>2, <2>4, RefreshSent DEF Harmless, FlowTypes
<1>4. QED
  BY <1>2, <1>3

\* A request is sent: a sign-in gets a new token, whose name nobody has.
LEMMA SendIsHarmless ==
  ASSUME FlowTypes, NEW t \in Tabs, NEW i \in DOMAIN task[t], NEW new \in TaskType, NEW token,
         Send(t, i, new, token),
         UNCHANGED <<cookie, stored, signedOut>>
  PROVE  Harmless(t)
PROOF
<1>1. refresh' = refresh /\ disturbed' \in BOOLEAN /\ (disturbed => disturbed')
  BY DEF Send, FlowTypes
<1>2. /\ left' \in [Tokens -> 0..Life] /\ alive' \subseteq Tokens
      /\ cookie \notin alive => cookie \notin alive'
  <2>1. CASE new.kind = "signIn"
    <3>1. PICK granted \in Tokens : Issue(granted, NoToken)
      BY <2>1 DEF Send
    <3>2. granted # cookie
      BY <3>1 DEF Issue, Unused
    <3>3. QED
      BY <3>1, <3>2, IssueTypes DEF Issue
  <2>2. CASE new.kind # "signIn"
    <3>1. (alive' = alive \/ alive' = alive \ {cookie}) /\ left' = left
      BY <2>2 DEF Send
    <3>2. QED
      BY <3>1 DEF FlowTypes
  <2>3. QED
    BY <2>1, <2>2
<1>3. TasksTyped'
  <2>1. PICK answer \in Answers, granted \in MaybeToken :
            \/ SetTask(t, i, IdleTask)
            \/ SetTask(t, i, [[new EXCEPT !.at = "sent", !.woken = "no", !.answer = answer, !.token = NoToken]
                                EXCEPT !.token = granted])
            \/ SetTask(t, i, [new EXCEPT !.at = "sent", !.woken = "no", !.answer = answer, !.token = NoToken])
    BY TaskFacts DEF Send, Answers
  <2> DEFINE sent == [new EXCEPT !.at = "sent", !.woken = "no", !.answer = answer, !.token = NoToken]
  <2>2. /\ sent \in TaskType /\ [sent EXCEPT !.token = granted] \in TaskType
        /\ TaskShape(sent, refresh'[t].busy) /\ TaskShape([sent EXCEPT !.token = granted], refresh'[t].busy)
    BY TaskFacts DEF TaskType, TaskShape, Waits
  <2>3. IdleTask \in TaskType /\ TaskShape(IdleTask, refresh'[t].busy)
    BY TaskFacts
  <2> HIDE DEF sent
  <2>4. \/ SetTask(t, i, IdleTask) \/ SetTask(t, i, sent) \/ SetTask(t, i, [sent EXCEPT !.token = granted])
    BY <2>1 DEF sent
  <2>5. QED
    BY <1>1, <2>2, <2>3, <2>4, TaskSet
<1>4. QED
  BY <1>1, <1>2, <1>3 DEF Harmless, FlowTypes

LEMMA TokenOfTab ==
  ASSUME BrowserTypes, NEW t \in Tabs
  PROVE  GetAccessToken(t) \in MaybeToken
PROOF
BY DEF GetAccessToken, BrowserTypes, MaybeToken

LEMMA RequestIsHarmless ==
  ASSUME FlowTypes, BrowserTypes, NEW t \in Tabs, NEW i \in DOMAIN task[t], NEW new \in TaskType, GetRequestToken(t, i, new),
         UNCHANGED <<cookie, stored, signedOut>>
  PROVE  Harmless(t)
PROOF
<1> DEFINE token == GetAccessToken(t)
<1>1. CASE token = NoToken /\ stored # NoToken
  BY <1>1, AwaitIsHarmless DEF GetRequestToken, Waits
<1>2. CASE ~(token = NoToken /\ stored # NoToken) /\ token # NoToken /\ IsTokenExpired(token, RequestBuffer)
  <2>1. AwaitRefresh(t, i, [new EXCEPT !.token = token], "preflight")
    BY <1>2 DEF GetRequestToken
  <2>2. [new EXCEPT !.token = token] \in TaskType
    BY TokenOfTab DEF TaskType
  <2>3. "preflight" \in Waits
    BY DEF Waits
  <2>4. QED
    BY <2>1, <2>2, <2>3, AwaitIsHarmless
<1>3. CASE /\ ~(token = NoToken /\ stored # NoToken)
           /\ ~(token # NoToken /\ IsTokenExpired(token, RequestBuffer))
  BY <1>3, SendIsHarmless DEF GetRequestToken
<1>4. QED
  BY <1>1, <1>2, <1>3

\* A document is loaded, with the token that is stored or with none: its tasks
\* are new, and the first of them waits if there is a refresh to wait for.
LEMMA StartTypes ==
  ASSUME FlowTypes, BrowserTypes, NEW t \in Tabs, NEW token \in MaybeToken, NEW sent,
         StartUp(t, token, sent), signedOut' \in BOOLEAN
  PROVE  /\ FlowTypes'
         /\ mem' \in [Tabs -> MaybeToken] /\ bus' \in [Tabs -> MaybeToken]
         /\ account' \in [Tabs -> {"closed", "loading", "guest", "member"}] /\ stored' = token
         /\ disturbed => disturbed'
         /\ \A s \in Tabs : s # t => refresh'[s] = refresh[s]
         /\ sent \notin alive => alive' = alive /\ refresh'[t].token = NoToken
PROOF
<1> DEFINE first == CHOOSE i \in DOMAIN task[t] : TRUE
           usable == token # NoToken /\ left[token] > 0
           begun == [IdleTask EXCEPT !.kind = "getCurrentUser", !.at = "atStart",
                                     !.woken = IF usable THEN "refreshed" ELSE "no"]
           anew == [i \in DOMAIN task[t] |-> IF i = first THEN begun ELSE IdleTask]
<1>1. /\ stored' = token /\ disturbed' \in BOOLEAN /\ (disturbed => disturbed')
      /\ mem' \in [Tabs -> MaybeToken] /\ bus' \in [Tabs -> MaybeToken]
      /\ account' \in [Tabs -> {"closed", "loading", "guest", "member"}]
  BY TaskFacts DEF StartUp, BrowserTypes
<1>2. task' = [task EXCEPT ![t] = anew]
  BY DEF StartUp
<1>3. begun \in TaskType /\ TaskShape(begun, ~usable)
  BY DEF IdleTask, TaskType, Kinds, Waits, Answers, MaybeToken, TaskShape
<1>4. IdleTask \in TaskType /\ \A pending : TaskShape(IdleTask, pending)
  BY TaskFacts
<1> HIDE DEF begun
<1>5. anew \in [DOMAIN task[t] -> TaskType] /\ \A i \in DOMAIN task[t] : TaskShape(anew[i], ~usable)
  BY <1>3, <1>4
<1> HIDE DEF anew
<1>6. CASE usable
  <2>1. refresh' = [refresh EXCEPT ![t] = NoRefresh] /\ alive' = alive /\ left' = left
    BY <1>6 DEF StartUp, serverVars
  <2>2. /\ refresh' \in [Tabs -> [busy : BOOLEAN, token : MaybeToken]]
        /\ \A s \in Tabs : refresh'[s] = IF s = t THEN NoRefresh ELSE refresh[s]
    BY <2>1 DEF FlowTypes, NoRefresh, MaybeToken
  <2>3. refresh'[t].busy = ~usable
    BY <1>6, <2>2 DEF NoRefresh
  <2>4. TasksTyped'
    BY <1>2, <1>5, <2>2, <2>3, TasksSet
  <2>5. QED
    BY <1>1, <2>1, <2>2, <2>4 DEF FlowTypes, NoRefresh
<1>7. CASE ~usable
  <2>1. SendRefresh(t, sent)
    BY <1>7 DEF StartUp
  <2>2. refresh'[t].busy = ~usable
    BY <1>7, <2>1, RefreshSent
  <2>3. TasksTyped'
    BY <1>2, <1>5, <2>1, <2>2, TasksSet, RefreshSent
  <2>4. QED
    BY <1>1, <2>1, <2>3, RefreshSent DEF FlowTypes
<1>8. QED
  BY <1>6, <1>7

LEMMA StartIsHarmless ==
  ASSUME FlowTypes, BrowserTypes, NEW t \in Tabs, NEW token \in {stored, NoToken},
         StartUp(t, token, cookie), UNCHANGED <<cookie, signedOut>>, page' \in [Tabs -> Pages]
  PROVE  Harmless(t) /\ BrowserTypes'
PROOF
<1>1. token \in MaybeToken /\ signedOut' \in BOOLEAN
  BY TaskFacts DEF BrowserTypes, FlowTypes
<1>2. /\ FlowTypes'
      /\ mem' \in [Tabs -> MaybeToken] /\ bus' \in [Tabs -> MaybeToken]
      /\ account' \in [Tabs -> {"closed", "loading", "guest", "member"}] /\ stored' = token
      /\ disturbed => disturbed'
      /\ \A s \in Tabs : s # t => refresh'[s] = refresh[s]
      /\ cookie \notin alive => alive' = alive /\ refresh'[t].token = NoToken
  BY <1>1, StartTypes
<1>3. BrowserTypes'
  BY <1>1, <1>2 DEF BrowserTypes
<1>4. Harmless(t)
  BY <1>2 DEF Harmless
<1>5. QED
  BY <1>3, <1>4

\* The user becomes a guest.
LEMMA GuestIsHarmless ==
  ASSUME FlowTypes, BrowserTypes, NEW t \in Tabs, NEW i \in DOMAIN task[t],
         BecomeGuest(t, i) \/ StartAsGuest(t, i), UNCHANGED <<cookie, signedOut>>
  PROVE  Harmless(t) /\ BrowserTypes'
PROOF
<1>1. UNCHANGED <<left, alive, refresh, disturbed, bus>> /\ SetTask(t, i, IdleTask) /\ stored' \in {NoToken, stored}
  BY DEF BecomeGuest, StartAsGuest, serverVars
<1>2. TasksTyped'
  BY <1>1, TaskFacts, TaskSet
<1>3. /\ mem' \in [Tabs -> MaybeToken] /\ page' \in [Tabs -> Pages]
      /\ account' \in [Tabs -> {"closed", "loading", "guest", "member"}]
  BY TaskFacts DEF BecomeGuest, StartAsGuest, Know, GuardRoutes, BrowserTypes
<1>4. Harmless(t)
  BY <1>1, <1>2 DEF Harmless, FlowTypes
<1>5. BrowserTypes'
  BY <1>1, <1>3, TaskFacts DEF BrowserTypes
<1>6. QED
  BY <1>4, <1>5

LEMMA FailureIsHarmless ==
  ASSUME FlowTypes, BrowserTypes, NEW t \in Tabs, NEW i \in DOMAIN task[t], Thrown(t, i) \/ AuthFailure(t, i),
         UNCHANGED <<cookie, signedOut>>
  PROVE  Harmless(t) /\ BrowserTypes'
PROOF
<1>1. CASE LeaveSignedOut(t)
  <2>1. page' \in [Tabs -> Pages]
    BY <1>1 DEF LeaveSignedOut, BrowserTypes, Pages
  <2>2. QED
    BY <1>1, <2>1, StartIsHarmless DEF LeaveSignedOut
<1>2. CASE BecomeGuest(t, i)
  BY <1>2, GuestIsHarmless
<1>3. CASE SetTask(t, i, IdleTask) /\ UNCHANGED <<serverVars, stored, mem, bus, page, account, refresh, disturbed>>
  <2>1. TasksTyped'
    BY <1>3, TaskFacts, TaskSet DEF serverVars
  <2>2. QED
    BY <1>3, <2>1 DEF serverVars, Harmless, FlowTypes, BrowserTypes
<1>4. Thrown(t, i) => \/ LeaveSignedOut(t) \/ BecomeGuest(t, i)
                      \/ /\ SetTask(t, i, IdleTask)
                         /\ UNCHANGED <<serverVars, stored, mem, bus, page, account, refresh, disturbed>>
  BY DEF Thrown
<1>5. QED
  BY <1>1, <1>2, <1>3, <1>4 DEF AuthFailure

\* What a tab is told of its own memory keeps its type.
LEMMA RequestKeepsBrowser ==
  ASSUME BrowserTypes, NEW t \in Tabs, mem' = [mem EXCEPT ![t] = GetAccessToken(t)],
         UNCHANGED <<cookie, stored, bus, page, account>>
  PROVE  BrowserTypes'
PROOF
<1>1. GetAccessToken(t) \in MaybeToken
  BY TokenOfTab
<1>2. QED
  BY <1>1 DEF BrowserTypes

\* An async function goes on, with the token of its tab.
LEMMA ResumeIsHarmless ==
  ASSUME FlowTypes, BrowserTypes, NEW t \in Tabs, NEW i \in DOMAIN task[t], Resume(t, i)
  PROVE  Harmless(t) /\ BrowserTypes'
PROOF
<1> DEFINE this == task[t][i]
           token == GetAccessToken(t)
           usable == this.woken = "refreshed" /\ token # NoToken
           MemKept == mem' = [mem EXCEPT ![t] = token] /\ UNCHANGED <<stored, bus, page, account>>
<1>1. UNCHANGED <<cookie, signedOut>>
  BY DEF Resume
<1>2. this \in TaskType /\ this.at \in Waits
  BY DEF FlowTypes, TasksTyped, TaskShape, Resume
<1>3. CASE this.at = "onFocus"
  <2>1. SetTask(t, i, IdleTask) /\ UNCHANGED <<serverVars, stored, mem, bus, page, account, refresh, disturbed>>
    BY <1>3 DEF Resume
  <2>2. TasksTyped'
    BY <2>1, TaskFacts, TaskSet DEF serverVars
  <2>3. QED
    BY <1>1, <2>1, <2>2 DEF serverVars, Harmless, FlowTypes, BrowserTypes
<1>4. CASE this.at = "atStart" /\ token = NoToken
  BY <1>1, <1>4, GuestIsHarmless DEF Resume
<1>5. CASE this.at = "atStart" /\ token # NoToken
  <2>1. GetRequestToken(t, i, this) /\ MemKept
    BY <1>5 DEF Resume, GetRequestToken
  <2>2. QED
    BY <1>1, <1>2, <2>1, RequestIsHarmless, RequestKeepsBrowser
<1>6. CASE this.at \in {"missing", "preflight"}
  <2>1. Send(t, i, this, IF usable THEN token ELSE this.token) /\ MemKept
    BY <1>6 DEF Resume
  <2>2. QED
    BY <1>1, <1>2, <2>1, SendIsHarmless, RequestKeepsBrowser
<1>7. CASE this.at = "refused" /\ usable
  <2>1. Send(t, i, [this EXCEPT !.retried = TRUE], token) /\ MemKept
    BY <1>7 DEF Resume
  <2>2. [this EXCEPT !.retried = TRUE] \in TaskType
    BY <1>2 DEF TaskType
  <2> HIDE DEF this
  <2>3. QED
    BY <1>1, <2>1, <2>2, SendIsHarmless, RequestKeepsBrowser
<1>8. CASE this.at = "refused" /\ ~usable
  <2>1. AuthFailure(t, i)
    BY <1>8 DEF Resume
  <2>2. QED
    BY <1>1, <2>1, FailureIsHarmless
<1>9. QED
  BY <1>2, <1>3, <1>4, <1>5, <1>6, <1>7, <1>8 DEF Waits

\* The other steps of an async function that leave the cookie alone
LEMMA TaskIsHarmless ==
  ASSUME FlowTypes, BrowserTypes, NEW t \in Tabs, NEW i \in DOMAIN task[t],
         \/ Focus(t, i) \/ Refused(t, i) \/ RequestLost(t, i) \/ Failed(t, i) \/ UserAnswered(t, i) \/ CallAnswered(t, i)
         \/ \E kind \in Kinds : Begin(t, i, kind)
  PROVE  Harmless(t) /\ BrowserTypes'
PROOF
<1> DEFINE this == task[t][i]
<1>1. this \in TaskType
  BY DEF FlowTypes, TasksTyped
<1>2. CASE Focus(t, i)
  <2>1. /\ AwaitRefresh(t, i, [IdleTask EXCEPT !.kind = "focus"], "onFocus")
        /\ UNCHANGED <<cookie, stored, mem, bus, page, account, signedOut>>
    BY <1>2 DEF Focus, tokenVars
  <2>2. [IdleTask EXCEPT !.kind = "focus"] \in TaskType /\ "onFocus" \in Waits
    BY TaskFacts DEF Kinds, Waits
  <2>3. QED
    BY <2>1, <2>2, AwaitIsHarmless DEF BrowserTypes
<1>3. CASE Refused(t, i)
  <2>1. UNCHANGED <<cookie, signedOut>>
    BY <1>3 DEF Refused
  <2>2. CASE AuthFailure(t, i)
    BY <2>1, <2>2, FailureIsHarmless
  <2>3. CASE /\ AwaitRefresh(t, i, [this EXCEPT !.answer = "none"], "refused")
             /\ UNCHANGED <<stored, mem, bus, page, account>>
    <3>1. [this EXCEPT !.answer = "none"] \in TaskType /\ "refused" \in Waits
      BY <1>1 DEF TaskType, Answers, Waits
    <3> HIDE DEF this
    <3>2. QED
      BY <2>1, <2>3, <3>1, AwaitIsHarmless DEF BrowserTypes
  <2>4. QED
    BY <1>3, <2>2, <2>3 DEF Refused
<1>4. CASE Failed(t, i)
  BY <1>4, FailureIsHarmless DEF Failed
<1>5. CASE RequestLost(t, i)
  <2>1. /\ SetTask(t, i, [this EXCEPT !.answer = "lost", !.token = NoToken]) /\ this.at = "sent" /\ disturbed' = TRUE
        /\ UNCHANGED <<left, alive, refresh, cookie, stored, mem, bus, page, account, signedOut>>
    BY <1>5 DEF RequestLost, serverVars, tokenVars
  <2>2. /\ [this EXCEPT !.answer = "lost", !.token = NoToken] \in TaskType
        /\ TaskShape([this EXCEPT !.answer = "lost", !.token = NoToken], refresh'[t].busy)
    BY <1>1, <2>1, TaskFacts DEF TaskType, Answers, TaskShape, Waits, FlowTypes, TasksTyped
  <2> HIDE DEF this
  <2>3. TasksTyped'
    BY <2>1, <2>2, TaskSet
  <2>4. QED
    BY <2>1, <2>3 DEF Harmless, FlowTypes, BrowserTypes
<1>6. CASE UserAnswered(t, i) \/ CallAnswered(t, i)
  <2>1. /\ SetTask(t, i, IdleTask)
        /\ UNCHANGED <<left, alive, refresh, cookie, stored, mem, bus, signedOut, disturbed>>
    BY <1>6 DEF UserAnswered, CallAnswered, serverVars, tokenVars
  <2>2. TasksTyped'
    BY <2>1, TaskFacts, TaskSet
  <2>3. page' \in [Tabs -> Pages] /\ account' \in [Tabs -> {"closed", "loading", "guest", "member"}]
    BY <1>6 DEF UserAnswered, CallAnswered, Know, GuardRoutes, BrowserTypes
  <2>4. QED
    BY <2>1, <2>2, <2>3 DEF Harmless, FlowTypes, BrowserTypes
<1>7. ASSUME NEW kind \in Kinds, Begin(t, i, kind) PROVE Harmless(t) /\ BrowserTypes'
  <2>1. /\ GetRequestToken(t, i, [IdleTask EXCEPT !.kind = kind]) /\ mem' = [mem EXCEPT ![t] = GetAccessToken(t)]
        /\ UNCHANGED <<cookie, stored, bus, page, account, signedOut>>
    BY <1>7 DEF Begin, GetRequestToken
  <2>2. [IdleTask EXCEPT !.kind = kind] \in TaskType
    BY TaskFacts
  <2>3. QED
    BY <2>1, <2>2, RequestIsHarmless, RequestKeepsBrowser
<1>8. QED
  BY <1>2, <1>3, <1>4, <1>5, <1>6, <1>7

\* The token of an answer is kept in the tab and in the browser.
LEMMA TokenKept ==
  ASSUME BrowserTypes, NEW t \in Tabs, NEW token \in MaybeToken, SetAccessToken(t, token), cookie' = token,
         UNCHANGED <<page, account>>
  PROVE  BrowserTypes'
PROOF
BY DEF SetAccessToken, BrowserTypes

\* The answer to a refresh, which resumes those that wait for it: after a sign-out
\* that nothing ran beside it brings no token.
LEMMA RefreshAnswerStep ==
  ASSUME SignOutInv, NEW t \in Tabs, RefreshAnswered(t) \/ RefreshLost(t)
  PROVE  SignOutInv'
PROOF
<1>1. PICK ok \in BOOLEAN : Settle(t, ok)
  BY DEF RefreshAnswered, RefreshLost
<1>2. UNCHANGED <<left, alive, signedOut, page, account>>
  BY DEF RefreshAnswered, RefreshLost, serverVars
<1>3. refresh' = [refresh EXCEPT ![t] = NoRefresh]
  BY <1>1 DEF Settle
<1>4. /\ refresh' \in [Tabs -> [busy : BOOLEAN, token : MaybeToken]]
      /\ \A s \in Tabs : refresh'[s] = IF s = t THEN NoRefresh ELSE refresh[s]
  BY <1>3 DEF SignOutInv, FlowTypes, NoRefresh, MaybeToken
<1>5. disturbed' \in BOOLEAN /\ (disturbed => disturbed')
  BY DEF RefreshAnswered, RefreshLost, SignOutInv, FlowTypes
<1>6. TasksTyped'
  <2> DEFINE anew == [i \in DOMAIN task[t] |->
                         IF task[t][i].at \in Waits
                         THEN [task[t][i] EXCEPT !.woken = IF ok THEN "refreshed" ELSE "rejected"]
                         ELSE task[t][i]]
  <2>1. task' = [task EXCEPT ![t] = anew]
    BY <1>1 DEF Settle
  <2>2. ASSUME NEW i \in DOMAIN task[t] PROVE anew[i] \in TaskType /\ TaskShape(anew[i], FALSE)
    <3>1. task[t][i] \in TaskType /\ TaskShape(task[t][i], refresh[t].busy)
      BY DEF SignOutInv, FlowTypes, TasksTyped
    <3>2. CASE task[t][i].at \in Waits
      <4>1. anew[i] = [task[t][i] EXCEPT !.woken = IF ok THEN "refreshed" ELSE "rejected"]
        BY <3>2
      <4> HIDE DEF anew
      <4>2. QED
        BY <3>1, <3>2, <4>1 DEF TaskType, TaskShape
    <3>3. CASE task[t][i].at \notin Waits
      BY <3>1, <3>3 DEF TaskShape
    <3>4. QED
      BY <3>2, <3>3
  <2>3. anew = [i \in DOMAIN task[t] |-> anew[i]]
    OBVIOUS
  <2> HIDE DEF anew
  <2>4. anew \in [DOMAIN task[t] -> TaskType]
    BY <2>2, <2>3
  <2>5. refresh'[t].busy = FALSE
    BY <1>4 DEF NoRefresh
  <2>6. QED
    BY <1>4, <2>1, <2>2, <2>4, <2>5, TasksSet DEF SignOutInv
<1>7. FlowTypes'
  BY <1>2, <1>4, <1>5, <1>6 DEF SignOutInv, FlowTypes, NoRefresh
<1>8. refresh[t].token \in MaybeToken
  BY DEF SignOutInv, FlowTypes
<1>9. BrowserTypes'
  <2>1. CASE UNCHANGED tokenVars
    BY <1>2, <2>1 DEF tokenVars, SignOutInv, BrowserTypes
  <2>2. CASE cookie' = refresh[t].token /\ SetAccessToken(t, refresh[t].token)
    BY <1>2, <1>8, <2>2, TokenKept DEF SignOutInv
  <2>3. QED
    BY <2>1, <2>2 DEF RefreshAnswered, RefreshLost
<1>10. ASSUME signedOut', ~disturbed' PROVE UNCHANGED <<cookie, stored>>
  <2>1. refresh[t].token = NoToken
    BY <1>2, <1>5, <1>10 DEF SignOutInv, NothingReturns
  <2>2. QED
    BY <2>1 DEF RefreshAnswered, RefreshLost, tokenVars
<1>11. NothingReturns'
  BY <1>2, <1>4, <1>5, <1>10 DEF SignOutInv, NothingReturns, NoRefresh
<1>12. QED
  BY <1>7, <1>9, <1>11 DEF SignOutInv

\* The sign-out is answered: if nothing ran beside it no other refresh is under
\* way, and the one of the page that is loaded has no token to send.
LEMMA SignOutStep ==
  ASSUME SignOutInv, NEW t \in Tabs, NEW i, SignOutAnswered(t, i)
  PROVE  SignOutInv'
PROOF
<1>1. cookie' = NoToken /\ StartUp(t, NoToken, NoToken) /\ signedOut' = TRUE
  BY DEF SignOutAnswered
<1>2. NoToken \notin alive /\ NoToken \in MaybeToken
  BY WebSessionAssumption, TaskFacts DEF SignOutInv, FlowTypes
<1>3. /\ FlowTypes'
      /\ mem' \in [Tabs -> MaybeToken] /\ bus' \in [Tabs -> MaybeToken]
      /\ account' \in [Tabs -> {"closed", "loading", "guest", "member"}] /\ stored' = NoToken
      /\ \A s \in Tabs : s # t => refresh'[s] = refresh[s]
      /\ alive' = alive /\ refresh'[t].token = NoToken
  BY <1>1, <1>2, StartTypes DEF SignOutInv
<1>4. page' \in [Tabs -> Pages]
  BY DEF SignOutAnswered, SignOutInv, BrowserTypes, Pages
<1>5. BrowserTypes'
  BY <1>1, <1>2, <1>3, <1>4 DEF BrowserTypes
<1>6. ~disturbed' => \A s \in Tabs : refresh'[s].token = NoToken
  <2>1. disturbed' = (disturbed \/ refresh[t].busy \/ Collision(t))
    BY <1>1 DEF StartUp
  <2>2. ~disturbed' => \A s \in Tabs \ {t} : ~refresh[s].busy
    BY <2>1 DEF Collision
  <2>3. QED
    BY <1>3, <2>2 DEF SignOutInv, FlowTypes
<1>7. NothingReturns'
  BY <1>1, <1>2, <1>3, <1>6 DEF NothingReturns
<1>8. QED
  BY <1>3, <1>5, <1>7 DEF SignOutInv

\* A sign-in ends the claim, until the next sign-out.
LEMMA SignInStep ==
  ASSUME SignOutInv, NEW t \in Tabs, NEW i \in DOMAIN task[t], SignedIn(t, i)
  PROVE  SignOutInv'
PROOF
<1> DEFINE begun == [IdleTask EXCEPT !.kind = "getCurrentUser", !.at = "atStart", !.woken = "refreshed"]
<1>1. /\ SetTask(t, i, begun) /\ signedOut' = FALSE /\ disturbed' \in BOOLEAN
      /\ cookie' = task[t][i].token /\ SetAccessToken(t, task[t][i].token)
      /\ UNCHANGED <<left, alive, page, account, refresh>>
  BY DEF SignedIn, serverVars
<1>2. begun \in TaskType /\ \A pending : TaskShape(begun, pending)
  BY DEF IdleTask, TaskType, Kinds, Waits, Answers, MaybeToken, TaskShape
<1> HIDE DEF begun
<1>3. TasksTyped'
  BY <1>1, <1>2, TaskSet DEF SignOutInv
<1>4. task[t][i].token \in MaybeToken
  BY DEF SignOutInv, FlowTypes, TasksTyped, TaskType
<1>5. BrowserTypes'
  BY <1>1, <1>4, TokenKept DEF SignOutInv
<1>6. QED
  BY <1>1, <1>3, <1>5 DEF SignOutInv, FlowTypes, NothingReturns

LEMMA SignOutInitially == SessionInit => SignOutInv
PROOF
<1> SUFFICES ASSUME SessionInit PROVE SignOutInv
  OBVIOUS
<1>1. PICK first \in Tokens, slots \in Layouts :
        /\ left = [k \in Tokens |-> IF k = first THEN Life ELSE 0]
        /\ alive = {first} /\ cookie = first /\ stored = first
        /\ mem = [t \in Tabs |-> IF slots[t] = {} THEN NoToken ELSE first]
        /\ bus = [t \in Tabs |-> NoToken]
        /\ page = [t \in Tabs |-> "private"]
        /\ account = [t \in Tabs |-> IF slots[t] = {} THEN "closed" ELSE "member"]
        /\ refresh = [t \in Tabs |-> NoRefresh]
        /\ task = [t \in Tabs |-> [i \in slots[t] |-> IdleTask]]
        /\ signedOut = FALSE /\ disturbed = FALSE
  BY DEF SessionInit
<1>2. NoRefresh \in [busy : BOOLEAN, token : MaybeToken] /\ NoRefresh.token = NoToken
  BY DEF NoRefresh, MaybeToken
<1>3. TasksTyped
  BY <1>1, TaskFacts DEF TasksTyped
<1>4. left \in [Tokens -> 0..Life] /\ alive \subseteq Tokens
  BY <1>1, WebSessionAssumption
<1>5. BrowserTypes
  BY <1>1, TaskFacts DEF BrowserTypes, Pages
<1>6. QED
  BY <1>1, <1>2, <1>3, <1>4, <1>5 DEF SignOutInv, FlowTypes, NothingReturns

LEMMA SignOutInvariant == SessionSpec => []SignOutInv
PROOF
<1>1. SignOutInv /\ [SessionNext]_sessionVars => SignOutInv'
  <2> SUFFICES ASSUME SignOutInv, [SessionNext]_sessionVars PROVE SignOutInv'
    OBVIOUS
  <2>1. CASE Tick
    <3>1. /\ left' = [k \in Tokens |-> IF left[k] > 0 /\ k \notin Unused THEN left[k] - 1 ELSE 0]
          /\ UNCHANGED <<alive, cookie, stored, mem, bus, page, account, refresh, task, signedOut, disturbed>>
      BY <2>1 DEF Tick, tokenVars
    <3>2. left' \in [Tokens -> 0..Life]
      BY <3>1, WebSessionAssumption DEF SignOutInv, FlowTypes
    <3>3. QED
      BY <3>1, <3>2 DEF SignOutInv, FlowTypes, TasksTyped, BrowserTypes, NothingReturns
  <2>2. CASE CalmAgain
    <3>1. /\ \A t \in Tabs : refresh[t].token = NoToken
          /\ signedOut' = (signedOut /\ cookie \notin alive /\ stored = NoToken) /\ disturbed' = FALSE
          /\ UNCHANGED <<left, alive, cookie, stored, mem, bus, page, account, refresh, task>>
      BY <2>2 DEF CalmAgain, Quiet, serverVars, tokenVars, SignOutInv, FlowTypes
    <3>2. QED
      BY <3>1 DEF SignOutInv, FlowTypes, TasksTyped, BrowserTypes, NothingReturns
  <2>3. ASSUME NEW t \in Tabs, TabNext(t) PROVE SignOutInv'
    <3>1. CASE AdoptBroadcast(t) \/ \E p \in Pages : Visit(t, p)
      <4>1. UNCHANGED <<left, alive, cookie, stored, account, refresh, task, signedOut, disturbed>>
        BY <3>1 DEF AdoptBroadcast, Visit, serverVars, tokenVars
      <4>2. BrowserTypes'
        BY <3>1, TaskFacts DEF AdoptBroadcast, Visit, tokenVars, SignOutInv, BrowserTypes
      <4>3. QED
        BY <4>1, <4>2 DEF SignOutInv, FlowTypes, TasksTyped, NothingReturns
    <3>2. CASE RefreshAnswered(t) \/ RefreshLost(t)
      BY <3>2, RefreshAnswerStep
    <3>3. CASE Reload(t)
      <4>1. StartUp(t, stored, cookie) /\ UNCHANGED <<cookie, page, signedOut>>
        BY <3>3 DEF Reload
      <4>2. page' \in [Tabs -> Pages]
        BY <4>1 DEF SignOutInv, BrowserTypes
      <4>3. Harmless(t) /\ BrowserTypes'
        BY <4>1, <4>2, StartIsHarmless DEF SignOutInv
      <4>4. QED
        BY <4>3, HarmlessStep
    <3>4. ASSUME NEW i \in DOMAIN task[t], TaskNext(t, i) PROVE SignOutInv'
      <4>1. CASE SignOutAnswered(t, i)
        BY <4>1, SignOutStep
      <4>2. CASE SignedIn(t, i)
        BY <4>2, SignInStep
      <4>3. CASE Resume(t, i)
        BY <4>3, ResumeIsHarmless, HarmlessStep DEF SignOutInv
      <4>4. CASE \/ Focus(t, i) \/ Refused(t, i) \/ RequestLost(t, i) \/ Failed(t, i)
                 \/ UserAnswered(t, i) \/ CallAnswered(t, i)
                 \/ \E kind \in Kinds : Begin(t, i, kind)
        BY <4>4, TaskIsHarmless, HarmlessStep DEF SignOutInv
      <4>5. QED
        BY <3>4, <4>1, <4>2, <4>3, <4>4 DEF TaskNext, Kinds
    <3>5. QED
      BY <2>3, <3>1, <3>2, <3>3, <3>4 DEF TabNext
  <2>4. CASE UNCHANGED sessionVars
    BY <2>4 DEF sessionVars, SignOutInv, FlowTypes, TasksTyped, BrowserTypes, NothingReturns
  <2>5. QED
    BY <2>1, <2>2, <2>3, <2>4 DEF SessionNext
<1>2. QED
  BY <1>1, SignOutInitially, PTL DEF SessionSpec

\* The variables of the session keep their types, and no task waits for a
\* refresh that is over, whatever the number of tabs, tasks and tokens.
THEOREM SessionTypesHold == SessionSpec => []SessionTypeOK
PROOF
<1>1. SignOutInv => SessionTypeOK
  BY DEF SignOutInv, FlowTypes, TasksTyped, TaskShape, BrowserTypes, SessionTypeOK
<1>2. QED
  BY <1>1, SignOutInvariant, PTL

\* After a sign-out that no refresh ran beside, the browser holds no token that
\* the server knows, whatever the other tabs do with those they have and however
\* many there are.
THEOREM SignOutsStick == SessionSpec => []SignOutSticks
PROOF
<1>1. SignOutInv => SignOutSticks
  BY DEF SignOutInv, NothingReturns, SignOutSticks
<1>2. QED
  BY <1>1, SignOutInvariant, PTL

-----------------------------------------------------------------------------
(***************************************************************************)
(* Needless sign-ins, and guests' data for a user.  These are about steps; *)
(* what is needed of the state before them is, of each tab: which tokens   *)
(* are there, and which are valid, when the async functions that a refresh *)
(* has resumed go on; that the user is loaded by one of them at a time;    *)
(* and, unless the session is disturbed, that nothing runs beside a        *)
(* refresh that could bring back what the server has refused.              *)
(***************************************************************************)
Running(t, i) == task[t][i].at # "idle"
Loads(t, i) == Running(t, i) /\ task[t][i].kind = "getCurrentUser"
Enters(t, i) == Running(t, i) /\ task[t][i].kind \in {"getCurrentUser", "signIn"}
Served(t, i) == Loads(t, i) /\ task[t][i].at = "sent" /\ task[t][i].answer = "ok"
Valid(token) == token # NoToken /\ left[token] > 0

\* The user is loaded or signed in by one function of a tab at a time.
OneEnters(t) ==
    /\ \A i, j \in DOMAIN task[t] : Enters(t, i) /\ Enters(t, j) => i = j
    /\ \A i \in DOMAIN task[t] : Enters(t, i) /\ task[t][i].kind = "signIn" => account[t] = "guest"

\* What a function knows where it stands
Stands(this) ==
    /\ this.at = "atStart" => this.kind = "getCurrentUser"
    /\ this.at \in Waits => this.answer = "none" /\ ~this.retried
    /\ this.at = "sent" /\ this.answer = "guest" => this.kind = "publicCall"
    /\ this.at = "sent" /\ this.answer = "lost" => disturbed
    /\ this.at = "sent" /\ this.kind = "getCurrentUser" /\ this.retried => this.answer # "unauthenticated"
    /\ this.at = "sent" /\ this.kind = "signIn" /\ this.answer = "ok" => this.token # NoToken

\* A member has a token, and so has a function that has used one.
TokenHeld(t) ==
    /\ account[t] = "member" => mem[t] # NoToken
    /\ \A i \in DOMAIN task[t] :
           Loads(t, i) /\ (task[t][i].token # NoToken \/ task[t][i].woken = "refreshed" \/ Served(t, i)) => mem[t] # NoToken

\* The token of a refresh is valid when it comes, and still is when those go on
\* that it has resumed.
Resumed(t, i) == task[t][i].woken = "refreshed" /\ task[t][i].at # "atStart"
TokenFresh(t) ==
    /\ refresh[t].token # NoToken => Valid(refresh[t].token)
    /\ \A i \in DOMAIN task[t] :
           /\ Resumed(t, i) /\ (account[t] = "member" \/ Loads(t, i) \/ \E j \in DOMAIN task[t] : Served(t, j)) => Valid(mem[t])
           /\ Resumed(t, i) => \A j \in DOMAIN task[t] : task[t][j].woken # "rejected"

\* While undisturbed a refresh runs alone; and if the server refused it, then
\* because the cookie is dead, which it stays until the user has been told.
RefreshAlone ==
    /\ \A s, t \in Tabs : refresh[s].busy /\ refresh[t].busy => s = t
    /\ \A s, t \in Tabs : refresh[t].busy => ~Switching(s, task)
    /\ \A t \in Tabs : refresh[t].busy /\ refresh[t].token = NoToken => cookie \notin alive
    /\ \A t \in Tabs : \A i \in DOMAIN task[t] : Loads(t, i) /\ task[t][i].woken = "rejected" =>
           cookie \notin alive /\ \A s \in Tabs : refresh[s].token = NoToken

TabInv(t) ==
    /\ OneEnters(t) /\ TokenHeld(t) /\ TokenFresh(t)
    /\ \A i \in DOMAIN task[t] : Stands(task[t][i])

TabsInv == (\A t \in Tabs : TabInv(t)) /\ (~disturbed => RefreshAlone)

-----------------------------------------------------------------------------
LEMMA TaskAfter ==
  ASSUME FlowTypes, NEW t \in Tabs, NEW i \in DOMAIN task[t], NEW n, SetTask(t, i, n)
  PROVE  /\ \A s \in Tabs : DOMAIN task'[s] = DOMAIN task[s]
         /\ \A s \in Tabs : s # t => task'[s] = task[s]
         /\ task'[t][i] = n /\ \A j \in DOMAIN task[t] : j # i => task'[t][j] = task[t][j]
PROOF
<1>1. task' = [s \in Tabs |-> IF s = t THEN [task[t] EXCEPT ![i] = n] ELSE task[s]]
  BY DEF SetTask, FlowTypes, TasksTyped
<1>2. PICK slots \in Layouts : \A s \in Tabs : task[s] \in [slots[s] -> TaskType]
  BY DEF FlowTypes, TasksTyped
<1>3. QED
  BY <1>1, <1>2

\* What the server does leaves the tokens that the browser has as they are, and
\* a dead cookie dead.
InHand == ({stored} \cup {mem[s] : s \in Tabs} \cup {refresh[s].token : s \in Tabs}) \ {NoToken}
ServerKeeps ==
    /\ \A k \in InHand : left'[k] = left[k]
    /\ cookie \notin alive => cookie \notin alive'

LEMMA IssueKeeps ==
  ASSUME FlowTypes, BrowserTypes, NEW new \in Tokens, NEW old, Issue(new, old)
  PROVE  /\ ServerKeeps /\ left'[new] > 0 /\ new # NoToken /\ new # cookie
         /\ old \in {cookie, NoToken} => old \notin alive'
PROOF
<1>1. new \notin InHand /\ new # cookie /\ \A k \in InHand : k \notin Unused /\ k \in Tokens
  BY DEF Issue, Unused, InHand, FlowTypes, BrowserTypes, MaybeToken
<1>2. left' = [k \in Tokens |-> IF k = new THEN Life ELSE IF k \in Unused THEN 0 ELSE left[k]]
  BY DEF Issue
<1>3. left'[new] > 0 /\ \A k \in InHand : left'[k] = left[k]
  BY <1>1, <1>2, WebSessionAssumption
<1>4. alive' = {new} \cup (alive \ (Unused \cup {old})) /\ new # NoToken
  BY WebSessionAssumption DEF Issue
<1>5. QED
  BY <1>1, <1>3, <1>4 DEF ServerKeeps

LEMMA RefreshKeeps ==
  ASSUME FlowTypes, BrowserTypes, NEW t \in Tabs, NEW token \in {cookie, NoToken}, SendRefresh(t, token)
  PROVE  /\ ServerKeeps /\ token \notin alive'
         /\ \A s \in Tabs : s # t => refresh'[s] = refresh[s]
         /\ refresh'[t].busy
         /\ refresh'[t].token # NoToken => Valid(refresh[t].token)'
         /\ token \notin alive => refresh'[t].token = NoToken
PROOF
<1>1. CASE token \notin alive
  <2>1. refresh' = [refresh EXCEPT ![t] = [busy |-> TRUE, token |-> NoToken]] /\ alive' = alive /\ left' = left
    BY <1>1 DEF SendRefresh, serverVars
  <2>2. QED
    BY <1>1, <2>1 DEF FlowTypes, ServerKeeps
<1>2. CASE token \in alive
  <2>1. PICK new \in Tokens : Issue(new, token) /\ refresh' = [refresh EXCEPT ![t] = [busy |-> TRUE, token |-> new]]
    BY <1>2 DEF SendRefresh
  <2>2. ServerKeeps /\ left'[new] > 0 /\ new # NoToken /\ token \notin alive'
    BY <2>1, IssueKeeps
  <2>3. QED
    BY <1>2, <2>1, <2>2 DEF FlowTypes, Valid
<1>3. QED
  BY <1>1, <1>2

\* The tabs that a step does not concern
LEMMA TabElsewhere ==
  ASSUME FlowTypes, BrowserTypes, NEW t \in Tabs, TabInv(t), ServerKeeps, disturbed => disturbed',
         task'[t] = task[t], account'[t] = account[t], mem'[t] = mem[t], refresh'[t] = refresh[t]
  PROVE  TabInv(t)'
PROOF
<1>1. \A i \in DOMAIN task[t] : Running(t, i)' = Running(t, i) /\ Loads(t, i)' = Loads(t, i) /\ Enters(t, i)' = Enters(t, i)
             /\ Served(t, i)' = Served(t, i) /\ Resumed(t, i)' = Resumed(t, i)
  BY DEF Running, Loads, Enters, Served, Resumed
<1>2. \A i \in DOMAIN task'[t] : Stands(task[t][i])'
  BY DEF TabInv, Stands
<1>3. (Valid(mem[t]) => Valid(mem[t])') /\ (Valid(refresh[t].token) => Valid(refresh[t].token)')
  BY DEF Valid, ServerKeeps, InHand
<1>4. OneEnters(t)'
  BY <1>1 DEF TabInv, OneEnters
<1>5. TokenHeld(t)'
  BY <1>1 DEF TabInv, TokenHeld
<1>6. TokenFresh(t)'
  BY <1>1, <1>3 DEF TabInv, TokenFresh
<1>7. QED
  BY <1>2, <1>4, <1>5, <1>6 DEF TabInv

MemKept(t) ==
    /\ \A s \in Tabs : s # t => mem'[s] = mem[s]
    /\ mem[t] # NoToken => mem'[t] = mem[t]

\* A function goes on with what it does, or begins with something.
Goes(t, i, kind) ==
    \/ Running(t, i) /\ kind = task[t][i].kind
    \/ kind \notin {"getCurrentUser", "signIn"}
    \/ kind = "signIn" /\ account[t] = "guest" /\ \A j \in DOMAIN task[t] : ~Enters(t, j)

LEMMA OneTask ==
  ASSUME FlowTypes, BrowserTypes, NEW t \in Tabs, TabInv(t), NEW i \in DOMAIN task[t], NEW n \in TaskType, SetTask(t, i, n),
         MemKept(t), account'[t] = account[t], ServerKeeps, disturbed => disturbed',
         refresh'[t] = refresh[t] \/ (refresh'[t].token # NoToken => Valid(refresh[t].token)'),
         n.at = "idle" \/ Goes(t, i, n.kind),
         Stands(n)', n.woken = "no",
         n.at # "idle" /\ n.kind = "getCurrentUser" /\ (n.token # NoToken \/ n.answer = "ok") => mem'[t] # NoToken,
         n.kind = "getCurrentUser" /\ n.at = "sent" /\ n.answer = "ok" =>
             Valid(mem[t])' \/ \A j \in DOMAIN task[t] : j # i => ~Resumed(t, j)
  PROVE  TabInv(t)'
PROOF
<1>1. /\ DOMAIN task'[t] = DOMAIN task[t] /\ task'[t][i] = n
      /\ \A j \in DOMAIN task[t] : j # i => task'[t][j] = task[t][j]
  BY TaskAfter
<1>2. \A j \in DOMAIN task[t] : j # i => Running(t, j)' = Running(t, j) /\ Loads(t, j)' = Loads(t, j)
          /\ Enters(t, j)' = Enters(t, j) /\ Served(t, j)' = Served(t, j) /\ Resumed(t, j)' = Resumed(t, j)
  BY <1>1 DEF Running, Loads, Enters, Served, Resumed
<1>3. ~Resumed(t, i)' /\ (Running(t, i)' <=> n.at # "idle")
  BY <1>1 DEF Resumed, Running
<1>4. (Valid(mem[t]) => Valid(mem[t])') /\ (Valid(refresh[t].token) => refresh'[t] # refresh[t] \/ Valid(refresh[t].token)')
  BY DEF Valid, ServerKeeps, InHand, MemKept
<1>5. OneEnters(t)'
  BY <1>1, <1>2, <1>3 DEF TabInv, OneEnters, Goes, Enters, Running
<1>6. TokenHeld(t)'
  BY <1>1, <1>2, <1>3 DEF TabInv, TokenHeld, MemKept, Loads, Running, Served
<1>7. TokenFresh(t)'
  <2>1. refresh'[t].token # NoToken => Valid(refresh[t].token)'
    BY <1>4 DEF TabInv, TokenFresh
  <2>2. ASSUME NEW j \in DOMAIN task[t], Resumed(t, j)', account'[t] = "member" \/ Loads(t, j)' \/ \E k \in DOMAIN task[t] : Served(t, k)'
        PROVE  Valid(mem[t])'
    <3>1. j # i /\ Resumed(t, j)
      BY <1>2, <1>3, <2>2
    <3>2. CASE Served(t, i)'
      BY <1>1, <3>1, <3>2 DEF Served, Loads
    <3>3. CASE ~Served(t, i)'
      BY <1>2, <1>4, <2>2, <3>1, <3>3 DEF TabInv, TokenFresh
    <3>4. QED
      BY <3>2, <3>3
  <2>3. ASSUME NEW j \in DOMAIN task[t], Resumed(t, j)', NEW k \in DOMAIN task[t] PROVE task'[t][k].woken # "rejected"
    BY <1>1, <1>2, <1>3, <2>3 DEF TabInv, TokenFresh
  <2>4. QED
    BY <1>1, <2>1, <2>2, <2>3 DEF TokenFresh
<1>8. \A j \in DOMAIN task'[t] : Stands(task[t][j])'
  BY <1>1 DEF TabInv, Stands
<1>9. QED
  BY <1>5, <1>6, <1>7, <1>8 DEF TabInv

\* A refresh is sent, or joined.
LEMMA AwaitKeeps ==
  ASSUME FlowTypes, BrowserTypes, TabsInv, NEW t \in Tabs, NEW i \in DOMAIN task[t], NEW new \in TaskType,
         NEW why \in Waits \ {"atStart"}, AwaitRefresh(t, i, new, why),
         UNCHANGED <<cookie, account>>, MemKept(t), Goes(t, i, new.kind),
         new.answer = "none", ~new.retried, new.kind = "getCurrentUser" /\ new.token # NoToken => mem'[t] # NoToken
  PROVE  TabsInv'
PROOF
<1> DEFINE n == [new EXCEPT !.at = why, !.woken = "no"]
<1>1. /\ n \in TaskType /\ n.kind = new.kind /\ n.at = why /\ n.woken = "no" /\ n.token = new.token
      /\ n.answer = "none" /\ ~n.retried /\ SetTask(t, i, n) /\ why \in Waits
  BY DEF AwaitRefresh, TaskType
<1> HIDE DEF n
<1>2. why \notin {"idle", "sent", "atStart"} /\ Stands(n)'
  BY <1>1 DEF Waits, Stands
<1>3. ServerKeeps /\ (disturbed => disturbed') /\ (\A s \in Tabs : s # t => refresh'[s] = refresh[s])
      /\ (refresh'[t] = refresh[t] \/ (refresh'[t].token # NoToken => Valid(refresh[t].token)'))
  <2>1. CASE refresh[t].busy
    BY <2>1 DEF AwaitRefresh, serverVars, ServerKeeps
  <2>2. CASE ~refresh[t].busy
    BY <2>2, RefreshKeeps DEF AwaitRefresh
  <2>3. QED
    BY <2>1, <2>2
<1>4. TabInv(t)'
  BY <1>1, <1>2, <1>3, OneTask DEF TabsInv
<1>5. ASSUME NEW s \in Tabs, s # t PROVE TabInv(s)'
  BY <1>1, <1>3, <1>5, TaskAfter, TabElsewhere DEF TabsInv, MemKept
<1>6. ASSUME ~disturbed' PROVE RefreshAlone'
  <2>1. ~disturbed /\ RefreshAlone
    BY <1>3, <1>6 DEF TabsInv
  <2>2. \A s \in Tabs : Switching(s, task') => Switching(s, task)
    BY <1>1, <1>2, TaskAfter DEF Switching
  <2>3. \A s \in Tabs : \A j \in DOMAIN task'[s] : Loads(s, j)' /\ task'[s][j].woken = "rejected" =>
            Loads(s, j) /\ task[s][j].woken = "rejected" /\ j \in DOMAIN task[s]
    BY <1>1, TaskAfter DEF Loads, Running
  <2>4. CASE refresh[t].busy
    <3>1. UNCHANGED <<alive, refresh>>
      BY <2>4 DEF AwaitRefresh, serverVars
    <3>2. QED
      BY <2>1, <2>2, <2>3, <3>1 DEF RefreshAlone
  <2>5. CASE ~refresh[t].busy
    <3>1. SendRefresh(t, cookie) /\ (\A s \in Tabs : s # t => ~refresh[s].busy) /\ \A s \in Tabs : ~Switching(s, task')
      BY <1>6, <2>5 DEF AwaitRefresh, Collision
    <3>2. cookie \notin alive' /\ (cookie \notin alive => refresh'[t].token = NoToken)
      BY <3>1, RefreshKeeps
    <3>3. QED
      BY <1>3, <2>1, <2>3, <3>1, <3>2 DEF RefreshAlone
  <2>6. QED
    BY <2>4, <2>5
<1>7. QED
  BY <1>4, <1>5, <1>6 DEF TabsInv

\* A request is sent.  If it loads the user, with the token of the tab, or when
\* none waits for its turn who relies on that one.
LEMMA SendKeeps ==
  ASSUME FlowTypes, BrowserTypes, TabsInv, NEW t \in Tabs, NEW i \in DOMAIN task[t], NEW new \in TaskType,
         NEW token \in MaybeToken, Send(t, i, new, token),
         UNCHANGED <<cookie, account>>, MemKept(t), Goes(t, i, new.kind),
         new.kind = "getCurrentUser" /\ Valid(token) =>
             mem'[t] # NoToken /\ (token = mem'[t] \/ \A j \in DOMAIN task[t] : j # i => ~Resumed(t, j)),
         new.kind = "getCurrentUser" /\ new.retried => Valid(token)
  PROVE  TabsInv'
PROOF
<1> DEFINE answer == IF Valid(token) \/ new.kind = "signIn" THEN "ok"
                     ELSE IF new.kind = "publicCall" THEN "guest" ELSE "unauthenticated"
           sent == [new EXCEPT !.at = "sent", !.woken = "no", !.answer = answer, !.token = NoToken]
<1>1. /\ sent \in TaskType /\ sent.kind = new.kind /\ sent.at = "sent" /\ sent.woken = "no"
      /\ sent.token = NoToken /\ sent.answer = answer /\ sent.retried = new.retried
      /\ \A k \in Tokens : /\ [sent EXCEPT !.token = k] \in TaskType
                           /\ [sent EXCEPT !.token = k].kind = new.kind /\ [sent EXCEPT !.token = k].at = "sent"
                           /\ [sent EXCEPT !.token = k].woken = "no" /\ [sent EXCEPT !.token = k].token = k
                           /\ [sent EXCEPT !.token = k].answer = answer
                           /\ [sent EXCEPT !.token = k].retried = new.retried
  BY DEF TaskType, Answers, MaybeToken
<1>2. IdleTask \in TaskType /\ IdleTask.at = "idle" /\ IdleTask.woken = "no"
  BY TaskFacts DEF IdleTask
<1>3. PICK n \in TaskType :
          /\ SetTask(t, i, n) /\ n.woken = "no"
          /\ \/ n.at = "idle"
             \/ /\ n.at = "sent" /\ n.kind = new.kind /\ n.answer = answer /\ n.retried = new.retried
                /\ new.kind = "signIn" => n.token # NoToken
                /\ new.kind = "getCurrentUser" => n.token = NoToken
  <2>1. CASE new.kind = "signIn"
    <3>1. PICK granted \in Tokens : SetTask(t, i, [sent EXCEPT !.token = granted])
      BY <2>1 DEF Send, Valid
    <3>2. granted # NoToken
      BY WebSessionAssumption
    <3> HIDE DEF sent
    <3>3. QED
      BY <1>1, <2>1, <3>1, <3>2
  <2>2. CASE new.kind # "signIn"
    <3>1. SetTask(t, i, sent) \/ SetTask(t, i, IdleTask)
      BY <2>2 DEF Send, Valid
    <3> HIDE DEF sent
    <3>2. QED
      BY <1>1, <1>2, <2>2, <3>1
  <2>3. QED
    BY <2>1, <2>2
<1> HIDE DEF sent
<1>4. /\ refresh' = refresh /\ (disturbed => disturbed') /\ ServerKeeps
      /\ new.kind \in {"signIn", "signOut"} /\ ~disturbed' => \A s \in Tabs : ~refresh[s].busy
      /\ new.kind # "signIn" => left' = left
  <2>1. CASE new.kind = "signIn"
    <3>1. PICK granted \in Tokens : Issue(granted, NoToken)
      BY <2>1 DEF Send
    <3>2. QED
      BY <2>1, <3>1, IssueKeeps DEF Send
  <2>2. CASE new.kind # "signIn"
    BY <2>2 DEF Send, ServerKeeps
  <2>3. QED
    BY <2>1, <2>2
<1>5. Stands(n)'
  BY <1>3 DEF Stands, Waits
<1>6. n.kind = "getCurrentUser" /\ n.at = "sent" /\ n.answer = "ok" => new.kind = "getCurrentUser" /\ Valid(token) /\ left' = left
  BY <1>3, <1>4
<1>7. TabInv(t)'
  <2>1. n.at = "idle" \/ Goes(t, i, n.kind)
    BY <1>3
  <2>2. n.at # "idle" /\ n.kind = "getCurrentUser" /\ (n.token # NoToken \/ n.answer = "ok") => mem'[t] # NoToken
    BY <1>3, <1>6
  <2>3. n.kind = "getCurrentUser" /\ n.at = "sent" /\ n.answer = "ok" =>
             Valid(mem[t])' \/ \A j \in DOMAIN task[t] : j # i => ~Resumed(t, j)
    BY <1>6 DEF Valid
  <2>4. QED
    BY <1>3, <1>4, <1>5, <2>1, <2>2, <2>3, OneTask DEF TabsInv
<1>8. ASSUME NEW s \in Tabs, s # t PROVE TabInv(s)'
  BY <1>3, <1>4, <1>8, TaskAfter, TabElsewhere DEF TabsInv, MemKept
<1>9. ASSUME ~disturbed' PROVE RefreshAlone'
  <2>1. ~disturbed /\ RefreshAlone
    BY <1>4, <1>9 DEF TabsInv
  <2>2. \A s \in Tabs : Switching(s, task') => Switching(s, task) \/ new.kind \in {"signIn", "signOut"}
    BY <1>3, TaskAfter DEF Switching
  <2>3. \A s \in Tabs : \A j \in DOMAIN task'[s] : Loads(s, j)' /\ task'[s][j].woken = "rejected" =>
            Loads(s, j) /\ task[s][j].woken = "rejected" /\ j \in DOMAIN task[s]
    BY <1>3, TaskAfter DEF Loads, Running
  <2>4. QED
    BY <1>4, <1>9, <2>1, <2>2, <2>3 DEF RefreshAlone, ServerKeeps
<1>10. QED
  BY <1>7, <1>8, <1>9 DEF TabsInv

-----------------------------------------------------------------------------
\* What the two properties ask of a step
SignInNeeded ==
    (\/ stored # NoToken /\ stored' = NoToken
     \/ \E t \in Tabs : account[t] # "guest" /\ account'[t] = "guest")
    => disturbed' \/ cookie' \notin alive'
GuestAfterFailure ==
    \A t \in Tabs : \A i \in DOMAIN task[t] :
        /\ account[t] = "member"
        /\ task[t][i].answer # "guest"
        /\ task'[t][i].answer = "guest"
        => task[t][i].woken = "rejected"

StepKept == TabsInv' /\ SignInNeeded /\ GuestAfterFailure

LEMMA OneAnswer ==
  ASSUME FlowTypes, NEW t \in Tabs, NEW i \in DOMAIN task[t], NEW n, SetTask(t, i, n),
         n.answer = "guest" /\ account[t] = "member" => task[t][i].woken = "rejected"
  PROVE  GuestAfterFailure
PROOF
BY TaskAfter DEF GuestAfterFailure

\* A document is loaded.
LEMMA StartKeeps ==
  ASSUME SignOutInv, TabsInv, NEW t \in Tabs, NEW token \in {stored, NoToken}, NEW sent \in {cookie, NoToken},
         StartUp(t, token, sent), cookie' = sent
  PROVE  StepKept
PROOF
<1> DEFINE first == CHOOSE i \in DOMAIN task[t] : TRUE
           usable == token # NoToken /\ left[token] > 0
           begun == [IdleTask EXCEPT !.kind = "getCurrentUser", !.at = "atStart",
                                     !.woken = IF usable THEN "refreshed" ELSE "no"]
           anew == [i \in DOMAIN task[t] |-> IF i = first THEN begun ELSE IdleTask]
<1> USE DEF SignOutInv
<1>1. /\ begun.kind = "getCurrentUser" /\ begun.at = "atStart" /\ begun.woken = (IF usable THEN "refreshed" ELSE "no")
      /\ begun.token = NoToken /\ begun.answer = "none" /\ ~begun.retried
      /\ IdleTask.at = "idle" /\ IdleTask.woken = "no" /\ IdleTask.answer = "none"
  BY DEF IdleTask
<1>2. task' = [s \in Tabs |-> IF s = t THEN anew ELSE task[s]]
  BY DEF StartUp, FlowTypes, TasksTyped
<1> HIDE DEF begun
<1>3. /\ \A s \in Tabs : s # t => task'[s] = task[s]
      /\ DOMAIN task'[t] = DOMAIN task[t]
      /\ \A i \in DOMAIN task[t] : (task'[t][i] = begun /\ i = first) \/ task'[t][i] = IdleTask
  BY <1>2
<1> HIDE DEF anew, first
<1>4. /\ mem'[t] = (IF usable THEN token ELSE NoToken) /\ \A s \in Tabs : s # t => mem'[s] = mem[s]
      /\ account'[t] = "loading" /\ \A s \in Tabs : s # t => account'[s] = account[s]
      /\ stored' = token /\ disturbed' = (disturbed \/ refresh[t].busy \/ (~usable /\ Collision(t)))
  BY DEF StartUp, BrowserTypes
<1>5. /\ ServerKeeps /\ \A s \in Tabs : s # t => refresh'[s] = refresh[s]
      /\ refresh'[t].token # NoToken => Valid(refresh[t].token)'
      /\ ~usable => sent \notin alive'
      /\ usable => refresh'[t] = NoRefresh /\ alive' = alive
      /\ sent \notin alive => refresh'[t].token = NoToken
  <2>1. CASE usable
    <3>1. refresh' = [refresh EXCEPT ![t] = NoRefresh] /\ alive' = alive /\ left' = left
      BY <2>1 DEF StartUp, serverVars
    <3>2. refresh'[t] = NoRefresh /\ \A s \in Tabs : s # t => refresh'[s] = refresh[s]
      BY <3>1 DEF FlowTypes
    <3>3. QED
      BY <2>1, <3>1, <3>2 DEF ServerKeeps, NoRefresh
  <2>2. CASE ~usable
    <3>1. SendRefresh(t, sent)
      BY <2>2 DEF StartUp
    <3>2. QED
      BY <2>2, <3>1, RefreshKeeps
  <2>3. QED
    BY <2>1, <2>2
<1>6. TabInv(t)'
  <2>1. OneEnters(t)'
    BY <1>1, <1>3 DEF OneEnters, Enters, Running
  <2>2. TokenHeld(t)'
    BY <1>1, <1>3, <1>4 DEF TokenHeld, Loads, Running, Served
  <2>3. TokenFresh(t)'
    BY <1>1, <1>3, <1>5 DEF TokenFresh, Resumed
  <2>4. \A i \in DOMAIN task'[t] : Stands(task[t][i])'
    BY <1>1, <1>3 DEF Stands, Waits
  <2>5. QED
    BY <2>1, <2>2, <2>3, <2>4 DEF TabInv
<1>7. ASSUME NEW s \in Tabs, s # t PROVE TabInv(s)'
  BY <1>3, <1>4, <1>5, <1>7, TabElsewhere DEF TabsInv
<1>8. NoToken \notin alive
  BY WebSessionAssumption DEF FlowTypes
<1>9. ASSUME ~disturbed' PROVE RefreshAlone'
  <2>1. ~disturbed /\ RefreshAlone
    BY <1>4, <1>9 DEF TabsInv
  <2>2. \A s \in Tabs : Switching(s, task') => Switching(s, task) /\ s # t
    BY <1>1, <1>3 DEF Switching
  <2>3. \A s \in Tabs : \A j \in DOMAIN task'[s] : Loads(s, j)' /\ task'[s][j].woken = "rejected" =>
            s # t /\ Loads(s, j) /\ task[s][j].woken = "rejected" /\ j \in DOMAIN task[s]
    BY <1>1, <1>3 DEF Loads, Running
  <2>4. sent \in alive' => cookie \in alive
    BY <1>5, <1>8, <2>1 DEF ServerKeeps
  <2>5. CASE usable
    BY <1>5, <2>1, <2>2, <2>3, <2>5, <1>8 DEF RefreshAlone, NoRefresh
  <2>6. CASE ~usable
    <3>1. (\A s \in Tabs : s # t => ~refresh[s].busy) /\ \A s \in Tabs : ~Switching(s, task')
      BY <1>4, <1>9, <2>6 DEF Collision
    <3>2. QED
      BY <1>5, <1>8, <2>1, <2>3, <2>6, <3>1 DEF RefreshAlone
  <2>7. QED
    BY <2>5, <2>6
<1>10. SignInNeeded
  BY <1>4, <1>5 DEF SignInNeeded
<1>11. GuestAfterFailure
  BY <1>1, <1>3 DEF GuestAfterFailure
<1>12. QED
  BY <1>6, <1>7, <1>9, <1>10, <1>11 DEF TabsInv, StepKept

\* The function that loads the user gives up, or has no token to load it with.
LEMMA GuestKeeps ==
  ASSUME SignOutInv, TabsInv, NEW t \in Tabs, NEW i \in DOMAIN task[t],
         BecomeGuest(t, i) \/ (StartAsGuest(t, i) /\ mem[t] = NoToken),
         cookie' = cookie, Loads(t, i), disturbed \/ cookie \notin alive
  PROVE  StepKept
PROOF
<1> USE DEF SignOutInv
<1>1. /\ SetTask(t, i, IdleTask) /\ UNCHANGED <<left, alive, refresh, disturbed>>
      /\ mem'[t] = NoToken /\ \A s \in Tabs : s # t => mem'[s] = mem[s]
      /\ account'[t] = "guest" /\ \A s \in Tabs : s # t => account'[s] = account[s]
  BY DEF BecomeGuest, StartAsGuest, Know, serverVars, BrowserTypes
<1>2. IdleTask.at = "idle" /\ IdleTask.woken = "no" /\ IdleTask.answer = "none"
  BY DEF IdleTask
<1>3. /\ DOMAIN task'[t] = DOMAIN task[t] /\ task'[t][i] = IdleTask
      /\ \A j \in DOMAIN task[t] : j # i => task'[t][j] = task[t][j]
      /\ \A s \in Tabs : s # t => task'[s] = task[s]
  BY <1>1, TaskAfter
<1>4. \A j \in DOMAIN task[t] : ~Enters(t, j)' /\ ~Loads(t, j)' /\ ~Served(t, j)'
  BY <1>2, <1>3 DEF TabsInv, TabInv, OneEnters, Enters, Loads, Running, Served
<1>5. TabInv(t)'
  <2>1. OneEnters(t)' /\ TokenHeld(t)'
    BY <1>1, <1>3, <1>4 DEF OneEnters, TokenHeld
  <2>2. TokenFresh(t)'
    BY <1>1, <1>2, <1>3, <1>4 DEF TabsInv, TabInv, TokenFresh, Resumed, Valid
  <2>3. \A j \in DOMAIN task'[t] : Stands(task[t][j])'
    BY <1>1, <1>2, <1>3 DEF TabsInv, TabInv, Stands, Waits
  <2>4. QED
    BY <2>1, <2>2, <2>3 DEF TabInv
<1>6. ASSUME NEW s \in Tabs, s # t PROVE TabInv(s)'
  BY <1>1, <1>3, <1>6, TabElsewhere DEF TabsInv, ServerKeeps
<1>7. ~disturbed' => RefreshAlone'
  BY <1>1, <1>2, <1>3 DEF TabsInv, RefreshAlone, Switching, Loads, Running
<1>8. SignInNeeded
  BY <1>1 DEF SignInNeeded
<1>9. GuestAfterFailure
  BY <1>1, <1>2, OneAnswer
<1>10. QED
  BY <1>5, <1>6, <1>7, <1>8, <1>9 DEF TabsInv, StepKept

\* A function ends, or its answer is lost.
LEMMA EndKeeps ==
  ASSUME SignOutInv, TabsInv, NEW t \in Tabs, NEW i \in DOMAIN task[t],
         UNCHANGED <<left, alive, cookie, stored, mem, account, refresh>>,
         \/ SetTask(t, i, IdleTask) /\ disturbed' = disturbed
         \/ SetTask(t, i, [task[t][i] EXCEPT !.answer = "lost", !.token = NoToken]) /\ disturbed' = TRUE /\ task[t][i].at = "sent"
  PROVE  StepKept
PROOF
<1> USE DEF SignOutInv
<1> DEFINE lost == [task[t][i] EXCEPT !.answer = "lost", !.token = NoToken]
<1>1. /\ IdleTask.at = "idle" /\ IdleTask.woken = "no" /\ IdleTask.answer = "none" /\ IdleTask \in TaskType
      /\ IdleTask.kind = "call"
  BY TaskFacts DEF IdleTask
<1>2. task[t][i] \in TaskType /\ TaskShape(task[t][i], refresh[t].busy)
  BY DEF FlowTypes, TasksTyped
<1>3. /\ lost \in TaskType /\ lost.kind = task[t][i].kind /\ lost.at = task[t][i].at /\ lost.token = NoToken
      /\ lost.woken = task[t][i].woken /\ lost.answer = "lost"
  BY <1>2 DEF TaskType, Answers, MaybeToken
<1> HIDE DEF lost
<1>4. PICK n \in TaskType :
          /\ SetTask(t, i, n) /\ n.woken = "no" /\ n.answer \in {"none", "lost"}
          /\ \/ n.at = "idle"
             \/ /\ n.at = "sent" /\ n.kind = task[t][i].kind /\ n.answer = "lost" /\ n.token = NoToken
                /\ disturbed' = TRUE /\ task[t][i].at = "sent"
  BY <1>1, <1>2, <1>3 DEF lost, TaskShape, Waits
<1>5. Stands(n)' /\ (disturbed => disturbed') /\ ServerKeeps
  BY <1>4 DEF Stands, Waits, ServerKeeps
<1>6. TabInv(t)'
  <2>1. n.at = "idle" \/ Goes(t, i, n.kind)
    BY <1>4 DEF Goes, Running
  <2>2. MemKept(t) /\ refresh'[t] = refresh[t] /\ account'[t] = account[t]
    BY DEF MemKept
  <2>3. QED
    BY <1>4, <1>5, <2>1, <2>2, OneTask DEF TabsInv
<1>7. /\ task'[t][i] = n /\ \A j \in DOMAIN task[t] : j # i => task'[t][j] = task[t][j]
      /\ \A s \in Tabs : DOMAIN task'[s] = DOMAIN task[s] /\ (s # t => task'[s] = task[s])
  BY <1>4, TaskAfter
<1>8. ASSUME NEW s \in Tabs, s # t PROVE TabInv(s)'
  BY <1>5, <1>7, <1>8, TabElsewhere DEF TabsInv
<1>9. ASSUME ~disturbed' PROVE RefreshAlone'
  <2>1. ~disturbed /\ RefreshAlone
    BY <1>5, <1>9 DEF TabsInv
  <2>2. \A s \in Tabs : Switching(s, task') => Switching(s, task)
    BY <1>4, <1>7 DEF Switching
  <2>3. \A s \in Tabs : \A j \in DOMAIN task'[s] : Loads(s, j)' /\ task'[s][j].woken = "rejected" =>
            Loads(s, j) /\ task[s][j].woken = "rejected" /\ j \in DOMAIN task[s]
    BY <1>4, <1>7 DEF Loads, Running
  <2>4. QED
    BY <2>1, <2>2, <2>3 DEF RefreshAlone
<1>10. SignInNeeded
  BY DEF SignInNeeded
<1>11. GuestAfterFailure
  BY <1>4, OneAnswer
<1>12. QED
  BY <1>6, <1>8, <1>9, <1>10, <1>11 DEF TabsInv, StepKept

\* The user is known.
LEMMA UserKeeps ==
  ASSUME SignOutInv, TabsInv, NEW t \in Tabs, NEW i \in DOMAIN task[t], UserAnswered(t, i)
  PROVE  StepKept
PROOF
<1> USE DEF SignOutInv
<1>1. /\ SetTask(t, i, IdleTask) /\ UNCHANGED <<left, alive, cookie, stored, mem, refresh, disturbed>>
      /\ account'[t] = "member" /\ \A s \in Tabs : s # t => account'[s] = account[s]
  BY DEF UserAnswered, Know, serverVars, tokenVars, BrowserTypes
<1>2. IdleTask.at = "idle" /\ IdleTask.woken = "no" /\ IdleTask.answer = "none"
  BY DEF IdleTask
<1>3. /\ DOMAIN task'[t] = DOMAIN task[t] /\ task'[t][i] = IdleTask
      /\ \A j \in DOMAIN task[t] : j # i => task'[t][j] = task[t][j]
      /\ \A s \in Tabs : s # t => task'[s] = task[s]
  BY <1>1, TaskAfter
<1>4. Served(t, i) /\ Enters(t, i) /\ mem[t] # NoToken
  <2>1. TabInv(t)
    BY DEF TabsInv
  <2>2. Served(t, i) /\ Enters(t, i) /\ Loads(t, i)
    BY <2>1 DEF UserAnswered, Answered, TabInv, Stands, Served, Enters, Loads, Running
  <2>3. QED
    BY <2>1, <2>2 DEF TabInv, TokenHeld
<1>5. \A j \in DOMAIN task[t] : ~Enters(t, j)' /\ ~Loads(t, j)' /\ ~Served(t, j)'
  BY <1>2, <1>3, <1>4 DEF TabsInv, TabInv, OneEnters, Enters, Loads, Running, Served
<1>6. TabInv(t)'
  <2>1. OneEnters(t)' /\ TokenHeld(t)'
    BY <1>1, <1>3, <1>4, <1>5 DEF OneEnters, TokenHeld
  <2>2. TokenFresh(t)'
    BY <1>1, <1>2, <1>3, <1>4 DEF TabsInv, TabInv, TokenFresh, Resumed, Valid
  <2>3. \A j \in DOMAIN task'[t] : Stands(task[t][j])'
    BY <1>1, <1>2, <1>3 DEF TabsInv, TabInv, Stands, Waits
  <2>4. QED
    BY <2>1, <2>2, <2>3 DEF TabInv
<1>7. ASSUME NEW s \in Tabs, s # t PROVE TabInv(s)'
  BY <1>1, <1>3, <1>7, TabElsewhere DEF TabsInv, ServerKeeps
<1>8. ~disturbed' => RefreshAlone'
  BY <1>1, <1>2, <1>3 DEF TabsInv, RefreshAlone, Switching, Loads, Running
<1>9. SignInNeeded
  BY <1>1 DEF SignInNeeded
<1>10. GuestAfterFailure
  BY <1>1, <1>2, OneAnswer
<1>11. QED
  BY <1>6, <1>7, <1>8, <1>9, <1>10 DEF TabsInv, StepKept

\* A refresh is over.
LEMMA SettleKeeps ==
  ASSUME SignOutInv, TabsInv, NEW t \in Tabs, RefreshAnswered(t) \/ RefreshLost(t)
  PROVE  StepKept
PROOF
<1> USE DEF SignOutInv
<1> DEFINE token == refresh[t].token
<1>1. PICK ok \in BOOLEAN :
          /\ refresh[t].busy /\ Settle(t, ok) /\ UNCHANGED <<left, alive, account>> /\ (disturbed => disturbed')
          /\ ok => token # NoToken /\ SetAccessToken(t, token) /\ cookie' = token
          /\ ~ok => UNCHANGED <<cookie, stored, mem>> /\ (disturbed' \/ token = NoToken)
  <2>1. CASE RefreshAnswered(t) /\ token # NoToken
    BY <2>1 DEF RefreshAnswered, serverVars
  <2>2. CASE RefreshAnswered(t) /\ token = NoToken
    BY <2>2 DEF RefreshAnswered, serverVars, tokenVars
  <2>3. CASE RefreshLost(t)
    BY <2>3 DEF RefreshLost, serverVars, tokenVars
  <2>4. QED
    BY <2>1, <2>2, <2>3
<1>2. refresh'[t] = NoRefresh /\ \A s \in Tabs : s # t => refresh'[s] = refresh[s]
  BY <1>1 DEF Settle, FlowTypes
<1>3. /\ \A s \in Tabs : s # t => mem'[s] = mem[s]
      /\ mem'[t] = (IF ok THEN token ELSE mem[t])
      /\ stored' = (IF ok THEN token ELSE stored)
  BY <1>1 DEF SetAccessToken, BrowserTypes
<1> DEFINE anew(i) == IF task[t][i].at \in Waits
                      THEN [task[t][i] EXCEPT !.woken = IF ok THEN "refreshed" ELSE "rejected"]
                      ELSE task[t][i]
<1>4. task' = [s \in Tabs |-> IF s = t THEN [i \in DOMAIN task[t] |-> anew(i)] ELSE task[s]]
  BY <1>1 DEF Settle, FlowTypes, TasksTyped
<1>5. \A i \in DOMAIN task[t] :
          /\ anew(i).kind = task[t][i].kind /\ anew(i).at = task[t][i].at /\ anew(i).token = task[t][i].token
          /\ anew(i).answer = task[t][i].answer /\ anew(i).retried = task[t][i].retried
          /\ anew(i).woken = IF task[t][i].at \in Waits THEN IF ok THEN "refreshed" ELSE "rejected" ELSE "no"
  BY DEF FlowTypes, TasksTyped, TaskShape, TaskType
<1> HIDE DEF anew
<1>6. /\ \A s \in Tabs : s # t => task'[s] = task[s]
      /\ DOMAIN task'[t] = DOMAIN task[t] /\ \A i \in DOMAIN task[t] : task'[t][i] = anew(i)
  BY <1>4
<1>7. \A i \in DOMAIN task[t] : /\ Enters(t, i)' = Enters(t, i) /\ Loads(t, i)' = Loads(t, i) /\ Served(t, i)' = Served(t, i)
                                /\ Resumed(t, i)' => ok
  BY <1>5, <1>6 DEF Enters, Loads, Running, Served, Resumed
<1>8. TabInv(t)'
  <2>1. OneEnters(t)'
    BY <1>1, <1>5, <1>6, <1>7 DEF TabsInv, TabInv, OneEnters
  <2>2. TokenHeld(t)'
    BY <1>1, <1>3, <1>5, <1>6, <1>7 DEF TabsInv, TabInv, TokenHeld
  <2>3. TokenFresh(t)'
    <3>1. ok => Valid(mem[t])'
      BY <1>1, <1>3 DEF TabsInv, TabInv, TokenFresh, Valid
    <3>2. ok => \A j \in DOMAIN task[t] : task'[t][j].woken # "rejected"
      BY <1>5, <1>6
    <3>3. QED
      BY <1>2, <1>6, <1>7, <3>1, <3>2 DEF TokenFresh, NoRefresh
  <2>4. \A i \in DOMAIN task'[t] : Stands(task[t][i])'
    BY <1>1, <1>5, <1>6 DEF TabsInv, TabInv, Stands
  <2>5. QED
    BY <2>1, <2>2, <2>3, <2>4 DEF TabInv
<1>9. ASSUME NEW s \in Tabs, s # t PROVE TabInv(s)'
  BY <1>1, <1>2, <1>3, <1>6, <1>9, TabElsewhere DEF TabsInv, ServerKeeps
<1>10. ASSUME ~disturbed' PROVE RefreshAlone'
  <2>1. ~disturbed /\ RefreshAlone
    BY <1>1, <1>10 DEF TabsInv
  <2>2. \A s \in Tabs : ~refresh'[s].busy /\ refresh'[s].token = NoToken
    BY <1>1, <1>2, <2>1 DEF RefreshAlone, NoRefresh, FlowTypes
  <2>3. \A s \in Tabs : \A j \in DOMAIN task'[s] : Loads(s, j)' /\ task'[s][j].woken = "rejected" => ~ok /\ cookie \notin alive
    <3>1. ASSUME NEW j \in DOMAIN task'[t], task'[t][j].woken = "rejected" PROVE ~ok /\ cookie \notin alive
      BY <1>1, <1>5, <1>6, <1>10, <2>1, <3>1 DEF RefreshAlone
    <3>2. ASSUME NEW s \in Tabs, s # t, NEW j \in DOMAIN task'[s], Loads(s, j)', task'[s][j].woken = "rejected"
          PROVE  ~ok /\ cookie \notin alive
      <4>1. Loads(s, j) /\ task[s][j].woken = "rejected" /\ j \in DOMAIN task[s]
        BY <1>6, <3>2 DEF Loads, Running
      <4>2. QED
        BY <1>1, <2>1, <4>1 DEF RefreshAlone
    <3>3. QED
      BY <3>1, <3>2
  <2>4. QED
    BY <1>1, <2>2, <2>3 DEF RefreshAlone
<1>11. SignInNeeded
  BY <1>1, <1>3 DEF SignInNeeded
<1>12. GuestAfterFailure
  BY <1>5, <1>6 DEF GuestAfterFailure
<1>13. QED
  BY <1>8, <1>9, <1>10, <1>11, <1>12 DEF TabsInv, StepKept

\* A user has signed in: as long as nothing disturbs it, nothing else is under way.
LEMMA SignedInKeeps ==
  ASSUME SignOutInv, TabsInv, NEW t \in Tabs, NEW i \in DOMAIN task[t], SignedIn(t, i)
  PROVE  StepKept
PROOF
<1> USE DEF SignOutInv
<1> DEFINE begun == [IdleTask EXCEPT !.kind = "getCurrentUser", !.at = "atStart", !.woken = "refreshed"]
           token == task[t][i].token
<1>1. /\ begun.kind = "getCurrentUser" /\ begun.at = "atStart" /\ begun.woken = "refreshed"
      /\ begun.token = NoToken /\ begun.answer = "none" /\ ~begun.retried
  BY DEF IdleTask
<1>2. /\ SetTask(t, i, begun) /\ UNCHANGED <<left, alive, refresh, account>>
      /\ mem'[t] = token /\ \A s \in Tabs : s # t => mem'[s] = mem[s]
      /\ stored' = token /\ cookie' = token /\ disturbed' = (disturbed \/ \E s \in Tabs \ {t} : ~Quiet(s))
  BY DEF SignedIn, SetAccessToken, serverVars, BrowserTypes
<1> HIDE DEF begun
<1>3. /\ DOMAIN task'[t] = DOMAIN task[t] /\ task'[t][i] = begun
      /\ \A j \in DOMAIN task[t] : j # i => task'[t][j] = task[t][j]
      /\ \A s \in Tabs : s # t => task'[s] = task[s]
  BY <1>2, TaskAfter
<1>4. TabInv(t)
  BY DEF TabsInv
<1>5. /\ token # NoToken /\ Enters(t, i) /\ task[t][i].kind = "signIn" /\ task[t][i].at = "sent"
      /\ account[t] = "guest"
  <2>1. task[t][i].answer \in {"ok", "guest"} /\ task[t][i].kind = "signIn" /\ task[t][i].at = "sent"
    BY DEF SignedIn, Answered
  <2>2. QED
    BY <1>4, <2>1 DEF TabInv, OneEnters, Stands, Enters, Running
<1>6. \A j \in DOMAIN task[t] : j # i => ~Enters(t, j)' /\ ~Loads(t, j)' /\ ~Served(t, j)' /\ (Resumed(t, j)' => Resumed(t, j))
  BY <1>3, <1>4, <1>5 DEF TabInv, OneEnters, Enters, Loads, Running, Served, Resumed
<1>7. ~Resumed(t, i)' /\ ~Served(t, i)'
  BY <1>1, <1>3 DEF Resumed, Served
<1>8. TabInv(t)'
  <2>1. OneEnters(t)' /\ TokenHeld(t)'
    BY <1>1, <1>2, <1>3, <1>5, <1>6 DEF OneEnters, TokenHeld
  <2>2. TokenFresh(t)'
    BY <1>1, <1>2, <1>3, <1>4, <1>5, <1>6, <1>7 DEF TabInv, TokenFresh, Valid
  <2>3. \A j \in DOMAIN task'[t] : Stands(task[t][j])'
    <3>1. disturbed => disturbed'
      BY <1>2
    <3>2. Stands(begun)'
      BY <1>1 DEF Stands, Waits
    <3>3. QED
      BY <1>3, <1>4, <3>1, <3>2 DEF TabInv, Stands
  <2>4. QED
    BY <2>1, <2>2, <2>3 DEF TabInv
<1>9. ASSUME NEW s \in Tabs, s # t PROVE TabInv(s)'
  BY <1>2, <1>3, <1>9, TabElsewhere DEF TabsInv, ServerKeeps
<1>10. ASSUME ~disturbed' PROVE RefreshAlone'
  <2>1. ~disturbed /\ RefreshAlone /\ \A s \in Tabs : s # t => Quiet(s)
    BY <1>2, <1>10 DEF TabsInv
  <2>2. Switching(t, task)
    BY <1>5 DEF Switching
  <2>3. \A s \in Tabs : ~refresh'[s].busy /\ refresh'[s].token = NoToken
    BY <1>2, <2>1, <2>2 DEF RefreshAlone, FlowTypes
  <2>4. \A s \in Tabs : \A j \in DOMAIN task'[s] : ~(Loads(s, j)' /\ task'[s][j].woken = "rejected")
    BY <1>1, <1>3, <1>6, <2>1 DEF Loads, Running, Quiet
  <2>5. QED
    BY <2>3, <2>4 DEF RefreshAlone
<1>11. SignInNeeded
  BY <1>2, <1>5 DEF SignInNeeded
<1>12. GuestAfterFailure
  BY <1>1, <1>2, OneAnswer
<1>13. QED
  BY <1>8, <1>9, <1>10, <1>11, <1>12 DEF TabsInv, StepKept

\* A step that leaves the tasks, the accounts and the stored token alone
LEMMA QuietKeeps ==
  ASSUME SignOutInv, TabsInv,
         Tick \/ CalmAgain \/ (\E t \in Tabs : AdoptBroadcast(t) \/ \E p \in Pages : Visit(t, p)) \/ UNCHANGED sessionVars
  PROVE  StepKept
PROOF
<1> USE DEF SignOutInv
<1>1. UNCHANGED <<alive, cookie, stored, account, refresh, task>>
  BY DEF Tick, CalmAgain, AdoptBroadcast, Visit, serverVars, tokenVars, sessionVars
<1>2. SignInNeeded /\ GuestAfterFailure
  BY <1>1 DEF SignInNeeded, GuestAfterFailure
<1>3. \A t \in Tabs : \A i \in DOMAIN task[t] :
          /\ Enters(t, i)' = Enters(t, i) /\ Loads(t, i)' = Loads(t, i) /\ Served(t, i)' = Served(t, i)
          /\ Resumed(t, i)' = Resumed(t, i)
  BY <1>1 DEF Enters, Loads, Running, Served, Resumed
<1>4. \A t \in Tabs : OneEnters(t)'
  BY <1>1, <1>3 DEF TabsInv, TabInv, OneEnters
<1>5. CASE Tick
  <2>1. \A t \in Tabs : refresh[t].token = NoToken /\ \A i \in DOMAIN task[t] : ~Resumed(t, i)
    BY <1>5 DEF Tick, FlowTypes, Woken, Resumed
  <2>2. UNCHANGED <<mem, disturbed>>
    BY <1>5 DEF Tick, tokenVars
  <2>3. \A t \in Tabs : TokenFresh(t)'
    BY <1>1, <1>3, <2>1 DEF TokenFresh
  <2>4. \A t \in Tabs : TokenHeld(t)' /\ \A i \in DOMAIN task[t] : Stands(task[t][i])'
    BY <1>1, <1>3, <2>2 DEF TabsInv, TabInv, TokenHeld, Stands
  <2>5. ~disturbed' => RefreshAlone'
    BY <1>1, <1>3, <2>2 DEF TabsInv, RefreshAlone
  <2>6. QED
    BY <1>1, <1>2, <1>4, <2>3, <2>4, <2>5 DEF StepKept, TabsInv, TabInv
<1>6. CASE CalmAgain
  <2>1. \A t \in Tabs : Quiet(t)
    BY <1>6 DEF CalmAgain
  <2>2. UNCHANGED <<left, mem>>
    BY <1>6 DEF CalmAgain, serverVars, tokenVars
  <2>3. \A t \in Tabs : TokenFresh(t)'
    BY <1>1, <1>3, <2>2 DEF TabsInv, TabInv, TokenFresh, Valid
  <2>4. \A t \in Tabs : TokenHeld(t)' /\ \A i \in DOMAIN task[t] : Stands(task[t][i])'
    BY <1>1, <1>3, <2>1, <2>2 DEF TabsInv, TabInv, TokenHeld, Stands, Quiet, Waits
  <2>5. RefreshAlone'
    BY <1>1, <1>3, <2>1 DEF RefreshAlone, Quiet, Loads, Running
  <2>6. QED
    BY <1>1, <1>2, <1>4, <2>3, <2>4, <2>5 DEF StepKept, TabsInv, TabInv
<1>7. ASSUME NEW t \in Tabs, AdoptBroadcast(t) PROVE StepKept
  <2>1. /\ mem'[t] # NoToken /\ \A s \in Tabs : s # t => mem'[s] = mem[s]
        /\ \A i \in DOMAIN task[t] : ~Resumed(t, i)
        /\ UNCHANGED <<left, disturbed>>
    BY <1>7 DEF AdoptBroadcast, serverVars, Woken, Resumed, BrowserTypes
  <2>2. \A s \in Tabs : TokenFresh(s)'
    BY <1>1, <1>3, <2>1 DEF TabsInv, TabInv, TokenFresh, Valid
  <2>3. \A s \in Tabs : TokenHeld(s)' /\ \A i \in DOMAIN task[s] : Stands(task[s][i])'
    BY <1>1, <1>3, <2>1 DEF TabsInv, TabInv, TokenHeld, Stands
  <2>4. ~disturbed' => RefreshAlone'
    BY <1>1, <1>3, <2>1 DEF TabsInv, RefreshAlone
  <2>5. QED
    BY <1>1, <1>2, <1>4, <2>2, <2>3, <2>4 DEF StepKept, TabsInv, TabInv
<1>8. CASE UNCHANGED <<left, mem, disturbed>>
  <2>1. \A s \in Tabs : TokenFresh(s)'
    BY <1>1, <1>3, <1>8 DEF TabsInv, TabInv, TokenFresh, Valid
  <2>2. \A s \in Tabs : TokenHeld(s)' /\ \A i \in DOMAIN task[s] : Stands(task[s][i])'
    BY <1>1, <1>3, <1>8 DEF TabsInv, TabInv, TokenHeld, Stands
  <2>3. ~disturbed' => RefreshAlone'
    BY <1>1, <1>3, <1>8 DEF TabsInv, RefreshAlone
  <2>4. QED
    BY <1>1, <1>2, <1>4, <2>1, <2>2, <2>3 DEF StepKept, TabsInv, TabInv
<1>9. QED
  BY <1>5, <1>6, <1>7, <1>8 DEF Visit, sessionVars, serverVars, tokenVars

LEMMA TabsInitially == SessionInit => TabsInv
PROOF
<1> SUFFICES ASSUME SessionInit PROVE TabsInv
  OBVIOUS
<1>1. PICK first \in Tokens, slots \in Layouts :
        /\ alive = {first} /\ cookie = first
        /\ mem = [t \in Tabs |-> IF slots[t] = {} THEN NoToken ELSE first]
        /\ account = [t \in Tabs |-> IF slots[t] = {} THEN "closed" ELSE "member"]
        /\ refresh = [t \in Tabs |-> NoRefresh]
        /\ task = [t \in Tabs |-> [i \in slots[t] |-> IdleTask]]
  BY DEF SessionInit
<1>2. /\ NoToken # first /\ \A t \in Tabs : ~refresh[t].busy /\ refresh[t].token = NoToken
      /\ \A t \in Tabs : \A i \in DOMAIN task[t] : task[t][i].at = "idle" /\ task[t][i].woken = "no"
  <2>1. NoToken # first
    BY WebSessionAssumption
  <2>2. ~NoRefresh.busy /\ NoRefresh.token = NoToken /\ IdleTask.at = "idle" /\ IdleTask.woken = "no"
    BY DEF NoRefresh, IdleTask
  <2>3. \A t \in Tabs : refresh[t] = NoRefresh /\ \A i \in DOMAIN task[t] : task[t][i] = IdleTask
    BY <1>1
  <2>4. QED
    BY <2>1, <2>2, <2>3, Zenon
<1>3. \A t \in Tabs : OneEnters(t) /\ TokenHeld(t) /\ TokenFresh(t) /\ \A i \in DOMAIN task[t] : Stands(task[t][i])
  <2> TAKE t \in Tabs
  <2>1. mem[t] = NoToken <=> account[t] = "closed"
    BY <1>1, <1>2
  <2>2. \A i \in DOMAIN task[t] : ~Running(t, i) /\ task[t][i].woken = "no" /\ task[t][i].at = "idle"
    BY <1>2 DEF Running
  <2>3. OneEnters(t) /\ TokenHeld(t)
    BY <2>1, <2>2 DEF OneEnters, Enters, TokenHeld, Loads
  <2>4. TokenFresh(t)
    BY <1>2, <2>2 DEF TokenFresh, Resumed
  <2>5. \A i \in DOMAIN task[t] : Stands(task[t][i])
    BY <2>2 DEF Stands, Waits
  <2>6. QED
    BY <2>3, <2>4, <2>5
<1>4. RefreshAlone
  BY <1>2 DEF RefreshAlone, Loads, Running
<1>5. QED
  BY <1>3, <1>4 DEF TabsInv, TabInv

\* What leaves as a guest's request
LEMMA SendAnswers ==
  ASSUME FlowTypes, NEW t \in Tabs, NEW i \in DOMAIN task[t], NEW new \in TaskType, NEW token, Send(t, i, new, token),
         new.kind = "publicCall" /\ account[t] = "member" => Valid(token) \/ task[t][i].woken = "rejected"
  PROVE  GuestAfterFailure
PROOF
<1> DEFINE answer == IF Valid(token) \/ new.kind = "signIn" THEN "ok"
                     ELSE IF new.kind = "publicCall" THEN "guest" ELSE "unauthenticated"
           sent == [new EXCEPT !.at = "sent", !.woken = "no", !.answer = answer, !.token = NoToken]
<1>1. sent.answer = answer /\ IdleTask.answer = "none" /\ \A k : [sent EXCEPT !.token = k].answer = answer
  BY DEF TaskType, IdleTask
<1>2. PICK n : SetTask(t, i, n) /\ n.answer \in {"none", answer}
  <2>1. CASE new.kind = "signIn"
    <3>1. PICK granted \in Tokens : SetTask(t, i, [sent EXCEPT !.token = granted])
      BY <2>1 DEF Send, Valid
    <3> HIDE DEF sent
    <3>2. QED
      BY <1>1, <3>1
  <2>2. CASE new.kind # "signIn"
    <3>1. SetTask(t, i, sent) \/ SetTask(t, i, IdleTask)
      BY <2>2 DEF Send, Valid
    <3> HIDE DEF sent
    <3>2. QED
      BY <1>1, <3>1
  <2>3. QED
    BY <2>1, <2>2
<1>3. QED
  BY <1>2, OneAnswer

LEMMA AwaitAnswers ==
  ASSUME FlowTypes, NEW t \in Tabs, NEW i \in DOMAIN task[t], NEW new \in TaskType, NEW why,
         AwaitRefresh(t, i, new, why), new.answer = "none"
  PROVE  GuestAfterFailure
PROOF
<1> DEFINE n == [new EXCEPT !.at = why, !.woken = "no"]
<1>1. SetTask(t, i, n) /\ n.answer = "none"
  BY DEF AwaitRefresh, TaskType
<1> HIDE DEF n
<1>2. QED
  BY <1>1, OneAnswer

\* A request begins, or goes on: with a token that will do, or after a refresh.
LEMMA RequestKeeps ==
  ASSUME SignOutInv, TabsInv, NEW t \in Tabs, NEW i \in DOMAIN task[t], NEW new \in TaskType, GetRequestToken(t, i, new),
         UNCHANGED <<cookie, stored, account>>, Goes(t, i, new.kind), new.answer = "none", ~new.retried,
         new.kind = "getCurrentUser" /\ new.token # NoToken => mem[t] # NoToken
  PROVE  StepKept
PROOF
<1> USE DEF SignOutInv
<1> DEFINE token == GetAccessToken(t)
<1>1. /\ mem'[t] = token /\ \A s \in Tabs : s # t => mem'[s] = mem[s]
      /\ mem[t] # NoToken => token = mem[t]
  BY DEF GetRequestToken, GetAccessToken, BrowserTypes
<1>2. MemKept(t) /\ token \in MaybeToken
  BY <1>1, TokenOfTab DEF MemKept
<1>3. account[t] = "member" => mem[t] # NoToken
  BY DEF TabsInv, TabInv, TokenHeld
<1>4. SignInNeeded
  BY DEF SignInNeeded
<1> HIDE DEF token
<1>5. CASE token = NoToken /\ stored # NoToken
  <2>1. AwaitRefresh(t, i, new, "missing") /\ "missing" \in Waits \ {"atStart"}
    BY <1>5 DEF GetRequestToken, token, Waits
  <2>2. new.kind = "getCurrentUser" /\ new.token # NoToken => mem'[t] # NoToken
    BY <1>1
  <2>3. TabsInv'
    BY <1>2, <2>1, <2>2, AwaitKeeps
  <2>4. QED
    BY <1>4, <2>1, <2>3, AwaitAnswers DEF StepKept
<1>6. CASE token # NoToken /\ IsTokenExpired(token, RequestBuffer)
  <2> DEFINE with == [new EXCEPT !.token = token]
  <2>1. AwaitRefresh(t, i, with, "preflight") /\ "preflight" \in Waits \ {"atStart"}
    BY <1>6 DEF GetRequestToken, token, Waits
  <2>2. with \in TaskType /\ with.kind = new.kind /\ with.answer = "none" /\ ~with.retried
    BY <1>2 DEF TaskType
  <2>3. mem'[t] # NoToken
    BY <1>1, <1>6
  <2> HIDE DEF with
  <2>4. TabsInv'
    BY <1>2, <2>1, <2>2, <2>3, AwaitKeeps
  <2>5. QED
    BY <1>4, <2>1, <2>2, <2>4, AwaitAnswers DEF StepKept
<1>7. CASE ~(token = NoToken /\ stored # NoToken) /\ ~(token # NoToken /\ IsTokenExpired(token, RequestBuffer))
  <2>1. Send(t, i, new, token)
    BY <1>7 DEF GetRequestToken, token
  <2>2. new.kind = "getCurrentUser" /\ Valid(token) => mem'[t] # NoToken /\ token = mem'[t]
    BY <1>1 DEF Valid
  <2>3. TabsInv'
    BY <1>2, <2>1, <2>2, SendKeeps
  <2>4. account[t] = "member" => Valid(token)
    <3>1. ASSUME account[t] = "member" PROVE Valid(token)
      <4>1. token # NoToken /\ token \in Tokens /\ ~(left[token] <= RequestBuffer)
        BY <1>1, <1>2, <1>3, <1>7, <3>1 DEF IsTokenExpired, MaybeToken
      <4>2. left[token] \in Nat /\ RequestBuffer \in Nat
        BY <4>1, WebSessionAssumption DEF FlowTypes
      <4>3. QED
        BY <4>1, <4>2 DEF Valid
    <3>2. QED
      BY <3>1
  <2>5. QED
    BY <1>4, <2>1, <2>3, <2>4, SendAnswers DEF StepKept
<1>8. QED
  BY <1>5, <1>6, <1>7

\* The user has to sign in again where the function that loads the user fails;
\* for the others the page is loaded, or the error reported.
LEMMA FailureKeeps ==
  ASSUME SignOutInv, TabsInv, NEW t \in Tabs, NEW i \in DOMAIN task[t], Thrown(t, i) \/ AuthFailure(t, i),
         cookie' = cookie, task[t][i].at # "idle",
         task[t][i].kind = "getCurrentUser" => disturbed \/ cookie \notin alive
  PROVE  StepKept
PROOF
<1>1. CASE LeaveSignedOut(t)
  BY <1>1, StartKeeps DEF LeaveSignedOut
<1>2. CASE BecomeGuest(t, i) /\ task[t][i].kind = "getCurrentUser"
  BY <1>2, GuestKeeps DEF Loads, Running
<1>3. CASE SetTask(t, i, IdleTask) /\ UNCHANGED <<serverVars, stored, mem, bus, page, account, refresh, disturbed>>
  BY <1>3, EndKeeps DEF serverVars
<1>4. CASE Thrown(t, i) /\ task[t][i].kind = "getCurrentUser"
  BY <1>2, <1>4 DEF Thrown
<1>5. CASE Thrown(t, i) /\ task[t][i].kind # "getCurrentUser"
  BY <1>1, <1>3, <1>5 DEF Thrown
<1>6. QED
  BY <1>1, <1>4, <1>5 DEF AuthFailure

\* A function goes on after a refresh.
LEMMA ResumeKeeps ==
  ASSUME SignOutInv, TabsInv, NEW t \in Tabs, NEW i \in DOMAIN task[t], Resume(t, i)
  PROVE  StepKept
PROOF
<1> USE DEF SignOutInv
<1> DEFINE this == task[t][i]
           token == GetAccessToken(t)
           usable == this.woken = "refreshed" /\ token # NoToken
           Request(new, with) == /\ Send(t, i, new, with)
                                 /\ mem' = [mem EXCEPT ![t] = token]
                                 /\ UNCHANGED <<stored, bus, page, account>>
<1>1. cookie' = cookie /\ this.woken \in {"refreshed", "rejected"}
  BY DEF Resume, FlowTypes, TasksTyped, TaskType
<1>2. /\ this \in TaskType /\ this.at \in Waits /\ this.at # "idle"
  BY DEF FlowTypes, TasksTyped, TaskShape, Resume, Waits
<1>3. TabInv(t)
  BY DEF TabsInv
<1>4. /\ this.answer = "none" /\ ~this.retried /\ Goes(t, i, this.kind)
      /\ this.at = "atStart" => this.kind = "getCurrentUser"
  BY <1>2, <1>3 DEF TabInv, Stands, Goes, Running
<1>5. (mem[t] # NoToken => token = mem[t]) /\ token \in MaybeToken
  BY TokenOfTab DEF GetAccessToken
<1>6. this.kind = "getCurrentUser" /\ (this.token # NoToken \/ this.woken = "refreshed") => mem[t] # NoToken
  BY <1>2, <1>3 DEF TabInv, TokenHeld, Loads, Running
<1>7. this.kind = "getCurrentUser" /\ ~usable => this.woken = "rejected"
  BY <1>1, <1>5, <1>6
<1>8. this.kind = "getCurrentUser" /\ this.woken = "rejected" => disturbed \/ cookie \notin alive
  BY <1>2 DEF TabsInv, RefreshAlone, Loads, Running
<1>9. this.woken = "refreshed" /\ this.at # "atStart" /\ (account[t] = "member" \/ this.kind = "getCurrentUser") =>
          Valid(mem[t]) /\ token = mem[t] /\ usable
  BY <1>2, <1>3, <1>5 DEF TabInv, TokenFresh, Resumed, Loads, Running, Valid
<1>10. this.woken = "rejected" => \A j \in DOMAIN task[t] : ~Resumed(t, j)
  BY <1>3 DEF TabInv, TokenFresh
<1>11. CASE this.at = "onFocus"
  <2>1. SetTask(t, i, IdleTask) /\ UNCHANGED <<serverVars, stored, mem, bus, page, account, refresh, disturbed>>
    BY <1>11 DEF Resume
  <2>2. QED
    BY <1>1, <2>1, EndKeeps DEF serverVars
<1>12. CASE this.at = "atStart" /\ token = NoToken
  <2>1. StartAsGuest(t, i) /\ mem[t] = NoToken
    BY <1>5, <1>12 DEF Resume
  <2>2. QED
    BY <1>1, <1>2, <1>4, <1>7, <1>8, <1>12, <2>1, GuestKeeps DEF Loads, Running
<1>13. CASE this.at = "atStart" /\ token # NoToken
  <2>1. GetRequestToken(t, i, this) /\ UNCHANGED <<stored, account>>
    BY <1>13 DEF Resume
  <2>2. QED
    BY <1>1, <1>2, <1>4, <1>6, <2>1, RequestKeeps
<1> DEFINE with == IF usable THEN token ELSE this.token
<1>14. ASSUME NEW new \in TaskType, NEW last \in MaybeToken, Request(new, last), new.kind = this.kind, last = with,
              this.at # "atStart", new.kind = "getCurrentUser" /\ new.retried => usable
       PROVE  StepKept
  <2>1. /\ Send(t, i, new, last) /\ UNCHANGED <<stored, account>>
        /\ mem'[t] = token /\ \A s \in Tabs : s # t => mem'[s] = mem[s]
    BY <1>14 DEF BrowserTypes
  <2>2. MemKept(t)
    BY <1>5, <2>1 DEF MemKept
  <2>3. new.kind = "getCurrentUser" /\ Valid(last) =>
            mem'[t] # NoToken /\ (last = mem'[t] \/ \A j \in DOMAIN task[t] : j # i => ~Resumed(t, j))
    <3>1. CASE usable
      BY <1>14, <2>1, <3>1 DEF Valid
    <3>2. CASE ~usable
      BY <1>5, <1>6, <1>7, <1>10, <1>14, <2>1, <3>2 DEF Valid
    <3>3. QED
      BY <3>1, <3>2
  <2>4. new.kind = "getCurrentUser" /\ new.retried => Valid(last)
    BY <1>9, <1>14
  <2>5. Goes(t, i, new.kind)
    BY <1>4, <1>14
  <2>6. TabsInv'
    BY <1>1, <2>1, <2>2, <2>3, <2>4, <2>5, SendKeeps
  <2>7. account[t] = "member" => Valid(last) \/ this.woken = "rejected"
    BY <1>1, <1>9, <1>14
  <2>8. GuestAfterFailure
    BY <2>1, <2>7, SendAnswers
  <2>9. SignInNeeded
    BY <2>1 DEF SignInNeeded
  <2>10. QED
    BY <2>6, <2>8, <2>9 DEF StepKept
<1>15. CASE this.at \in {"missing", "preflight"}
  <2>1. Request(this, with)
    BY <1>15 DEF Resume
  <2>2. with \in MaybeToken
    BY <1>2, <1>5 DEF TaskType
  <2> HIDE DEF with, this, Request
  <2>3. QED
    BY <1>2, <1>4, <1>14, <1>15, <2>1, <2>2
<1>16. CASE this.at = "refused" /\ usable
  <2> DEFINE new == [this EXCEPT !.retried = TRUE]
  <2>1. Request(new, token)
    BY <1>16 DEF Resume
  <2>2. new \in TaskType /\ new.kind = this.kind /\ with = token
    BY <1>2, <1>16 DEF TaskType
  <2> HIDE DEF with, this, Request, new
  <2>3. QED
    BY <1>5, <1>14, <1>16, <2>1, <2>2
<1>17. CASE this.at = "refused" /\ ~usable
  <2>1. AuthFailure(t, i)
    BY <1>17 DEF Resume
  <2>2. QED
    BY <1>1, <1>2, <1>7, <1>8, <1>17, <2>1, FailureKeeps
<1>18. QED
  BY <1>2, <1>11, <1>12, <1>13, <1>15, <1>16, <1>17 DEF Waits

\* The other steps of a function
LEMMA TaskKeeps ==
  ASSUME SignOutInv, TabsInv, NEW t \in Tabs, NEW i \in DOMAIN task[t],
         \/ Focus(t, i) \/ Refused(t, i) \/ RequestLost(t, i) \/ Failed(t, i) \/ CallAnswered(t, i)
         \/ \E kind \in Kinds \ {"getCurrentUser"} : Begin(t, i, kind)
  PROVE  StepKept
PROOF
<1> USE DEF SignOutInv
<1> DEFINE this == task[t][i]
<1>1. this \in TaskType /\ TabInv(t)
  BY DEF FlowTypes, TasksTyped, TabsInv
<1>2. mem' = mem => MemKept(t)
  BY DEF MemKept
<1>3. ASSUME NEW new \in TaskType, NEW why \in Waits \ {"atStart"}, AwaitRefresh(t, i, new, why),
             UNCHANGED <<cookie, stored, mem, account>>, Goes(t, i, new.kind), new.answer = "none", ~new.retried,
             new.kind = "getCurrentUser" /\ new.token # NoToken => mem[t] # NoToken
      PROVE  StepKept
  <2>1. TabsInv'
    BY <1>2, <1>3, AwaitKeeps
  <2>2. SignInNeeded
    BY <1>3 DEF SignInNeeded
  <2>3. QED
    BY <1>3, <2>1, <2>2, AwaitAnswers DEF StepKept
<1>4. \A kind \in Kinds : LET new == [IdleTask EXCEPT !.kind = kind]
                          IN  /\ new \in TaskType /\ new.kind = kind /\ new.answer = "none" /\ ~new.retried /\ new.token = NoToken
  BY DEF IdleTask, TaskType, Waits, Answers, MaybeToken
<1>5. CASE Focus(t, i)
  <2>1. /\ AwaitRefresh(t, i, [IdleTask EXCEPT !.kind = "focus"], "onFocus")
        /\ UNCHANGED <<cookie, stored, mem, account>>
    BY <1>5 DEF Focus, tokenVars
  <2>2. "focus" \in Kinds /\ "onFocus" \in Waits \ {"atStart"} /\ Goes(t, i, "focus")
    BY DEF Kinds, Waits, Goes
  <2>3. QED
    BY <1>3, <1>4, <2>1, <2>2
<1>6. CASE Refused(t, i)
  <2>1. cookie' = cookie /\ this.at = "sent" /\ this.answer = "unauthenticated"
    BY <1>6 DEF Refused
  <2>2. CASE this.retried /\ AuthFailure(t, i)
    <3>1. this.kind # "getCurrentUser"
      BY <1>1, <2>1, <2>2 DEF TabInv, Stands
    <3>2. QED
      BY <2>1, <2>2, <3>1, FailureKeeps
  <2>3. CASE ~this.retried /\ AwaitRefresh(t, i, [this EXCEPT !.answer = "none"], "refused") /\ UNCHANGED <<stored, mem, account>>
    <3> DEFINE new == [this EXCEPT !.answer = "none"]
    <3>1. /\ new \in TaskType /\ new.kind = this.kind /\ new.answer = "none" /\ ~new.retried /\ new.token = this.token
          /\ "refused" \in Waits \ {"atStart"}
      BY <1>1, <2>3 DEF TaskType, Answers, Waits
    <3>2. Goes(t, i, this.kind) /\ (this.kind = "getCurrentUser" /\ this.token # NoToken => mem[t] # NoToken)
      BY <1>1, <2>1 DEF Goes, Running, Loads, TabInv, TokenHeld
    <3> HIDE DEF new, this
    <3>3. AwaitRefresh(t, i, new, "refused")
      BY <2>3 DEF new
    <3>4. QED
      BY <1>3, <2>1, <2>3, <3>1, <3>2, <3>3
  <2>4. QED
    BY <1>6, <2>2, <2>3 DEF Refused
<1>7. CASE RequestLost(t, i) \/ CallAnswered(t, i)
  BY <1>7, EndKeeps DEF RequestLost, CallAnswered, serverVars, tokenVars
<1>8. CASE Failed(t, i)
  <2>1. disturbed /\ this.at = "sent" /\ cookie' = cookie /\ (Thrown(t, i) \/ AuthFailure(t, i))
    BY <1>1, <1>8 DEF Failed, TabInv, Stands
  <2>2. QED
    BY <2>1, FailureKeeps
<1>9. ASSUME NEW kind \in Kinds \ {"getCurrentUser"}, Begin(t, i, kind) PROVE StepKept
  <2>1. GetRequestToken(t, i, [IdleTask EXCEPT !.kind = kind]) /\ UNCHANGED <<cookie, stored, account>>
    BY <1>9 DEF Begin
  <2>2. Goes(t, i, kind)
    BY <1>9 DEF Begin, Goes, Enters, Running
  <2>3. QED
    BY <1>4, <2>1, <2>2, RequestKeeps
<1>10. QED
  BY <1>5, <1>6, <1>7, <1>8, <1>9

LEMMA SessionStepKeeps ==
  ASSUME SignOutInv, TabsInv, [SessionNext]_sessionVars
  PROVE  StepKept
PROOF
<1>1. ASSUME NEW t \in Tabs, TabNext(t) PROVE StepKept
  <2>1. CASE AdoptBroadcast(t) \/ \E p \in Pages : Visit(t, p)
    BY <2>1, QuietKeeps
  <2>2. CASE RefreshAnswered(t) \/ RefreshLost(t)
    BY <2>2, SettleKeeps
  <2>3. CASE Reload(t)
    BY <2>3, StartKeeps DEF Reload
  <2>4. ASSUME NEW i \in DOMAIN task[t], TaskNext(t, i) PROVE StepKept
    <3>1. CASE SignOutAnswered(t, i)
      BY <3>1, StartKeeps DEF SignOutAnswered
    <3>2. CASE SignedIn(t, i)
      BY <3>2, SignedInKeeps
    <3>3. CASE Resume(t, i)
      BY <3>3, ResumeKeeps
    <3>4. CASE UserAnswered(t, i)
      BY <3>4, UserKeeps
    <3>5. CASE \/ Focus(t, i) \/ Refused(t, i) \/ RequestLost(t, i) \/ Failed(t, i) \/ CallAnswered(t, i)
               \/ \E kind \in Kinds \ {"getCurrentUser"} : Begin(t, i, kind)
      BY <3>5, TaskKeeps
    <3>6. QED
      BY <2>4, <3>1, <3>2, <3>3, <3>4, <3>5 DEF TaskNext, Kinds
  <2>5. QED
    BY <1>1, <2>1, <2>2, <2>3, <2>4 DEF TabNext
<1>2. QED
  BY <1>1, QuietKeeps DEF SessionNext

LEMMA TabsInvariant == SessionSpec => [](SignOutInv /\ TabsInv)
PROOF
<1>1. SignOutInv /\ TabsInv /\ [SessionNext]_sessionVars => TabsInv'
  BY SessionStepKeeps DEF StepKept
<1>2. QED
  BY <1>1, TabsInitially, SignOutInvariant, PTL DEF SessionSpec

\* As long as no call fails on the network and no two requests that rotate or
\* end the session overlap, no tab gives up the stored token or turns its user
\* into a guest while the server knows the browser's refresh token - however
\* many tabs, requests and tokens there are, and whatever expires meanwhile.
THEOREM NoSignInIsNeedless == SessionSpec => NoNeedlessSignIn
PROOF
<1>1. SignOutInv /\ TabsInv /\ [SessionNext]_sessionVars
      => [(\/ stored # NoToken /\ stored' = NoToken
           \/ \E t \in Tabs : account[t] # "guest" /\ account'[t] = "guest")
          => disturbed' \/ cookie' \notin alive']_sessionVars
  BY SessionStepKeeps DEF StepKept, SignInNeeded
<1>2. QED
  BY <1>1, TabsInvariant, PTL DEF SessionSpec, NoNeedlessSignIn

\* getRequestToken refreshes before it sends, so the request of a signed-in
\* user is answered as a guest's only if a refresh has just failed for it,
\* however many functions of a tab wait for that refresh.
THEOREM GuestDataNeedsAFailure == SessionSpec => GuestDataOnlyAfterFailure
PROOF
<1>1. SignOutInv /\ TabsInv /\ [SessionNext]_sessionVars
      => [\A t \in Tabs : \A i \in DOMAIN task[t] :
             /\ account[t] = "member"
             /\ task[t][i].answer # "guest"
             /\ task'[t][i].answer = "guest"
             => task[t][i].woken = "rejected"]_sessionVars
  BY SessionStepKeeps DEF StepKept, GuestAfterFailure
<1>2. QED
  BY <1>1, TabsInvariant, PTL DEF SessionSpec, GuestDataOnlyAfterFailure

-----------------------------------------------------------------------------
(***************************************************************************)
(* The filters.  What is rendered is always what the two effects last took *)
(* the state and the URL to be, so a rendering has an effect only if the   *)
(* queue or the location brings something else; how many renderings that   *)
(* can set off is ToCome.                                                  *)
(***************************************************************************)
Synced ==
    /\ parseFilterQuery(lastSyncedUrl) = filters /\ lastSyncedStore = filters
    /\ queued.pending \in BOOLEAN /\ (~queued.pending => queued.value = filters)
    /\ \A loc \in {url, location} : loc = [path |-> loc.path, query |-> loc.query]
    /\ queued = [pending |-> queued.pending, value |-> queued.value]

\* The most renderings there may be before state and location are rendered
ToCome ==
    IF url = location
    THEN IF ~queued.pending THEN 0
         ELSE IF queued.value = filters \/ stringifyFilters(queued.value) = url.query THEN 1 ELSE 2
    ELSE IF url.query \in {lastSyncedUrl, location.query}
         THEN IF queued.pending THEN 3 ELSE IF url.path = location.path THEN 1 ELSE 2
         ELSE IF queued.pending /\ queued.value = filters THEN 5 ELSE 4

\* The URL differs from what was noted of it only until the location is rendered.
UrlFollows ==
    "navigate" \notin hurried => lastSyncedUrl \in {url.query, location.query}

\* What was asked for is in the queue, or in the URL, or everywhere.
WantedComes ==
    hurried = {} =>
        IF queued.pending
        THEN queued.value = wanted /\ url.query = lastSyncedUrl /\ url.path = location.path
        ELSE parseFilterQuery(url.query) = wanted /\ lastSyncedUrl \in {url.query, location.query}

FiltersInv == Synced /\ commits \in Nat /\ commits + ToCome <= 5 /\ UrlFollows /\ WantedComes

LEMMA ToComeType == ToCome \in 0..5
PROOF
BY DEF ToCome

LEMMA FiltersInitially == FiltersInit => FiltersInv
PROOF
<1> SUFFICES ASSUME FiltersInit PROVE FiltersInv
  OBVIOUS
<1>1. PICK p, query : /\ url = [path |-> p, query |-> query] /\ lastSyncedUrl = query
                      /\ filters = parseFilterQuery(query) /\ lastSyncedStore = filters /\ wanted = filters
  BY DEF FiltersInit
<1>2. location = url /\ queued = [pending |-> FALSE, value |-> filters] /\ commits = 0
  BY DEF FiltersInit
<1>3. QED
  BY <1>1, <1>2 DEF FiltersInv, Synced, ToCome, UrlFollows, WantedComes

LEMMA SetFiltersStep ==
  ASSUME FiltersInv, NEW fs, SetFilters(fs)
  PROVE  FiltersInv'
PROOF
<1> USE DEF FiltersInv, Synced
<1>1. /\ UNCHANGED <<url, location, filters, lastSyncedUrl, lastSyncedStore>>
      /\ queued' = [pending |-> TRUE, value |-> fs] /\ wanted' = fs /\ commits' = 0
      /\ hurried \subseteq hurried' /\ (hurried' = {} => Rendered)
  BY DEF SetFilters, Act
<1>2. UrlFollows' /\ WantedComes'
  BY <1>1 DEF Rendered, UrlFollows, WantedComes
<1>3. ToCome' \in 0..5
  BY <1>1 DEF ToCome
<1>4. QED
  BY <1>1, <1>2, <1>3

LEMMA NavigateStep ==
  ASSUME FiltersInv, NEW p, NEW query, Navigate([path |-> p, query |-> query])
  PROVE  FiltersInv'
PROOF
<1> USE DEF FiltersInv, Synced
<1>1. /\ UNCHANGED <<location, filters, queued, lastSyncedUrl, lastSyncedStore>>
      /\ url' = [path |-> p, query |-> query] /\ wanted' = parseFilterQuery(query) /\ commits' = 0
      /\ hurried \subseteq hurried' /\ ("navigate" \notin hurried' => Rendered)
  BY DEF Navigate, Act
<1>2. UrlFollows' /\ WantedComes'
  BY <1>1 DEF Rendered, UrlFollows, WantedComes
<1>3. ToCome' \in 0..5
  BY <1>1 DEF ToCome
<1>4. QED
  BY <1>1, <1>2, <1>3

\* Whatever the user does sets the filters or the location, or selects no shortcut.
LEMMA UserStep ==
  ASSUME FiltersInv,
         \/ \E t \in Tags : ClickTag(t)
         \/ \E w \in Words : AddWord(w)
         \/ \E f \in Filters : RemoveChip(f)
         \/ \E d \in Dates : PickDate(d)
         \/ \E p \in Paths : FollowLink(p) \/ \E query \in Queries(AtMostOne) : VisitUrl(p, query)
         \/ ClearQuery
         \/ \E s \in ShortcutIds \cup {NoShortcut} : SetShortcut(s)
  PROVE  FiltersInv'
PROOF
<1>1. \/ \E fs : SetFilters(fs)
      \/ \E p, query : Navigate([path |-> p, query |-> query])
      \/ UNCHANGED <<url, location, filters, queued, lastSyncedUrl, lastSyncedStore, wanted, hurried, commits, actions>>
  <2>1. CASE \E t \in Tags : ClickTag(t)
    BY <2>1 DEF ClickTag, ToggleTag
  <2>2. CASE \E w \in Words : AddWord(w)
    BY <2>2 DEF AddWord
  <2>3. CASE \E f \in Filters : RemoveChip(f)
    BY <2>3 DEF RemoveChip
  <2>4. CASE \E d \in Dates : PickDate(d)
    BY <2>4 DEF PickDate
  <2>5. CASE \E p \in Paths : FollowLink(p) \/ \E query \in Queries(AtMostOne) : VisitUrl(p, query)
    BY <2>5 DEF FollowLink, VisitUrl
  <2>6. CASE ClearQuery
    <3>1. [url EXCEPT !.query = NoQuery] = [path |-> url.path, query |-> NoQuery]
      BY DEF FiltersInv, Synced
    <3>2. QED
      BY <2>6, <3>1 DEF ClearQuery
  <2>7. CASE \E s \in ShortcutIds \cup {NoShortcut} : SetShortcut(s)
    BY <2>7 DEF SetShortcut
  <2>8. QED
    BY <2>1, <2>2, <2>3, <2>4, <2>5, <2>6, <2>7
<1>2. CASE UNCHANGED <<url, location, filters, queued, lastSyncedUrl, lastSyncedStore, wanted, hurried, commits, actions>>
  BY <1>2 DEF FiltersInv, Synced, ToCome, UrlFollows, WantedComes
<1>3. QED
  BY <1>1, <1>2, SetFiltersStep, NavigateStep

\* A rendering of the state writes it to the URL, if it is another than before.
LEMMA RenderStateStep ==
  ASSUME FiltersInv, RenderState
  PROVE  FiltersInv'
PROOF
<1> USE DEF FiltersInv, Synced
<1>1. /\ queued.pending /\ filters' = queued.value /\ queued' = [pending |-> FALSE, value |-> queued.value]
      /\ lastSyncedUrl' = (IF queued.value = filters THEN lastSyncedUrl ELSE stringifyFilters(queued.value))
      /\ lastSyncedStore' = filters'
      /\ url' = [path |-> url.path, query |-> IF queued.value = filters THEN url.query ELSE stringifyFilters(queued.value)]
      /\ commits' = commits + 1 /\ UNCHANGED <<location, wanted, hurried>>
  <2>1. /\ queued.pending /\ filters' = queued.value /\ commits' = commits + 1
        /\ UNCHANGED <<location, wanted, hurried>>
        /\ Effects(location, queued.value, [queued EXCEPT !.pending = FALSE])
    BY DEF RenderState
  <2>2. [queued EXCEPT !.pending = FALSE] = [pending |-> FALSE, value |-> queued.value]
    <3>1. DOMAIN queued = {"pending", "value"} /\ queued = [x \in {"pending", "value"} |-> queued[x]]
      OBVIOUS
    <3> DEFINE q == [queued EXCEPT !.pending = FALSE]
    <3>2. /\ q = [x \in {"pending", "value"} |-> q[x]]
          /\ q["pending"] = FALSE /\ q["value"] = queued["value"]
      BY <3>1
    <3> HIDE DEF q
    <3>3. QED
      BY <3>2
  <2>3. [pending |-> FALSE, value |-> queued.value] # queued
    BY <2>1
  <2>4. queued' = [pending |-> FALSE, value |-> queued.value]
    BY <2>1, <2>2 DEF Effects
  <2>5. /\ lastSyncedStore' = IF queued.value = filters THEN filters ELSE queued.value
        /\ lastSyncedUrl' = IF queued.value = filters THEN lastSyncedUrl ELSE stringifyFilters(queued.value)
        /\ url' = IF queued.value = filters THEN url ELSE [url EXCEPT !.query = stringifyFilters(queued.value)]
    <3>1. queued.value # filters => stringifyFilters(queued.value) # lastSyncedUrl
      BY DEF stringifyFilters, parseFilterQuery
    <3>2. QED
      BY <2>1, <2>2, <2>3, <3>1 DEF Effects, ToUrl
  <2>6. QED
    BY <2>1, <2>4, <2>5
<1>2. UrlFollows' /\ WantedComes'
  BY <1>1 DEF UrlFollows, WantedComes, NoQuery, stringifyFilters, parseFilterQuery
<1>3. ToCome' \in 0..5 /\ ToCome' < ToCome
  <2>1. url = location <=> url.path = location.path /\ url.query = location.query
    OBVIOUS
  <2>2. url' = location' <=> url'.path = location.path /\ url'.query = location.query
    BY <1>1
  <2>3. ToCome' = IF url' = location' THEN 0
                     ELSE IF url'.query \in {lastSyncedUrl', location.query}
                          THEN IF url'.path = location.path THEN 1 ELSE 2 ELSE 4
    BY <1>1 DEF ToCome
  <2>4. CASE queued.value = filters
    BY <1>1, <2>1, <2>2, <2>3, <2>4 DEF ToCome
  <2>5. CASE queued.value # filters
    BY <1>1, <2>1, <2>2, <2>3, <2>5 DEF ToCome
  <2>6. QED
    BY <2>4, <2>5
<1>4. Synced'
  BY <1>1 DEF stringifyFilters, parseFilterQuery
<1>5. commits' \in Nat /\ commits' + ToCome' <= 5
  BY <1>1, <1>3, ToComeType
<1>6. QED
  BY <1>2, <1>4, <1>5

\* A rendering of the location queues its filters, if they are others than what
\* is shown, and writes what is shown to the URL once more.
LEMMA RenderLocationStep ==
  ASSUME FiltersInv, RenderLocation
  PROVE  FiltersInv'
PROOF
<1> USE DEF FiltersInv, Synced
<1> DEFINE adopts == url.query \notin {lastSyncedUrl, location.query}
           leaves == url.path # location.path /\ url.query = NoQuery
           read == parseFilterQuery(url.query)
           writes == adopts /\ read # filters
<1>1. /\ url # location /\ location' = url /\ commits' = commits + 1
      /\ UNCHANGED <<filters, lastSyncedStore, wanted, hurried>>
      /\ lastSyncedUrl' = (IF ~adopts THEN lastSyncedUrl ELSE IF writes THEN stringifyFilters(filters) ELSE url.query)
      /\ url' = [path |-> url.path, query |-> IF writes THEN stringifyFilters(filters) ELSE url.query]
      /\ queued' = IF adopts THEN [pending |-> TRUE, value |-> read]
                   ELSE IF leaves THEN [pending |-> TRUE, value |-> <<>>] ELSE queued
  <2>1. /\ url # location /\ location' = url /\ commits' = commits + 1 /\ UNCHANGED <<filters, wanted, hurried>>
        /\ Effects(url, filters, queued)
    BY DEF RenderLocation
  <2>2. CASE adopts
    <3>1. FromUrl(url) = [url |-> url.query, store |-> read, adopt |-> TRUE]
      BY <2>2 DEF FromUrl
    <3>2. read # filters => stringifyFilters(filters) # url.query
      BY DEF stringifyFilters, parseFilterQuery
    <3>3. /\ queued' = [pending |-> TRUE, value |-> read]
          /\ lastSyncedStore' = filters
          /\ lastSyncedUrl' = IF read # filters THEN stringifyFilters(filters) ELSE url.query
          /\ url' = IF read # filters THEN [url EXCEPT !.query = stringifyFilters(filters)] ELSE url
      BY <2>1, <2>2, <3>1, <3>2 DEF Effects, ToUrl
    <3>4. QED
      BY <2>1, <2>2, <3>3
  <2>3. CASE ~adopts
    <3>1. url.query = lastSyncedUrl => FromUrl(url) = [url |-> lastSyncedUrl, store |-> filters, adopt |-> FALSE]
      BY DEF FromUrl
    <3>2. /\ queued' = IF leaves THEN [pending |-> TRUE, value |-> <<>>] ELSE queued
          /\ lastSyncedUrl' = lastSyncedUrl /\ lastSyncedStore' = filters /\ url' = url
      BY <2>1, <2>3, <3>1 DEF Effects, ToUrl
    <3>3. QED
      BY <2>1, <2>3, <3>2
  <2>4. QED
    BY <2>2, <2>3
<1>2. UrlFollows' /\ WantedComes'
  BY <1>1 DEF UrlFollows, WantedComes, NoQuery, stringifyFilters, parseFilterQuery
<1>3. ToCome' \in 0..5 /\ ToCome' < ToCome
  <2>1. url = location <=> url.path = location.path /\ url.query = location.query
    OBVIOUS
  <2>2. url' = location' <=> url'.query = url.query
    BY <1>1
  <2>3. CASE adopts
    BY <1>1, <2>1, <2>2, <2>3 DEF ToCome
  <2>4. CASE ~adopts
    BY <1>1, <2>1, <2>2, <2>4 DEF ToCome, NoQuery, stringifyFilters
  <2>5. QED
    BY <2>3, <2>4
<1>4. Synced'
  <2>1. /\ queued'.pending \in BOOLEAN /\ (~queued'.pending => queued'.value = filters)
        /\ queued' = [pending |-> queued'.pending, value |-> queued'.value]
        /\ parseFilterQuery(lastSyncedUrl') = filters'
    BY <1>1 DEF stringifyFilters, parseFilterQuery
  <2>2. url' = [path |-> url'.path, query |-> url'.query]
    BY <1>1
  <2>3. location' = [path |-> location'.path, query |-> location'.query]
    BY <1>1
  <2>4. QED
    BY <1>1, <2>1, <2>2, <2>3
<1>5. commits' \in Nat /\ commits' + ToCome' <= 5
  BY <1>1, <1>3, ToComeType
<1>6. QED
  BY <1>2, <1>4, <1>5

LEMMA FiltersInvariant == FiltersSpec => []FiltersInv
PROOF
<1>1. FiltersInv /\ [FiltersNext]_filterVars => FiltersInv'
  <2> SUFFICES ASSUME FiltersInv, [FiltersNext]_filterVars PROVE FiltersInv'
    OBVIOUS
  <2>1. CASE UNCHANGED filterVars
    BY <2>1 DEF filterVars, FiltersInv, Synced, ToCome, UrlFollows, WantedComes
  <2>2. CASE RenderState \/ RenderLocation
    BY <2>2, RenderStateStep, RenderLocationStep
  <2>3. QED
    BY <2>1, <2>2, UserStep DEF FiltersNext
<1>2. QED
  BY <1>1, FiltersInitially, PTL DEF FiltersSpec

\* The two effects of MemoFilterProvider settle within five renderings, whatever
\* the order of the renderings and however the user hurries; on the same filters
\* unless he navigated in a hurry, and on those he asked for if he waits.
THEOREM UrlComesToSayTheFilters == FiltersSpec => []UrlSaysTheFilters
PROOF
<1>1. FiltersInv => UrlSaysTheFilters
  BY DEF FiltersInv, Synced, ToCome, UrlFollows, WantedComes, Rendered, UrlSaysTheFilters
<1>2. QED
  BY <1>1, FiltersInvariant, PTL

\* Filters of which none is there twice
Clean(fs) == fs \in Seq(Filters) /\ \A i, j \in DOMAIN fs : fs[i] = fs[j] => i = j

IsQuery(query) ==
    /\ query = [spelling |-> query.spelling, filters |-> query.filters]
    /\ query.spelling \in Spellings \cup {"own"} /\ Clean(query.filters)

IsPlace(u) == u = [path |-> u.path, query |-> u.query] /\ u.path \in Paths /\ IsQuery(u.query)

FilterTypes ==
    /\ IsPlace(url) /\ IsPlace(location)
    /\ queued = [pending |-> queued.pending, value |-> queued.value]
    /\ Clean(filters) /\ Clean(queued.value) /\ IsQuery(lastSyncedUrl) /\ Clean(lastSyncedStore) /\ Clean(wanted)
    /\ shortcut \in ShortcutIds \cup {NoShortcut} /\ hurried \subseteq {"set", "navigate"}

LEMMA CleanWithout ==
  ASSUME NEW fs, Clean(fs), NEW S
  PROVE  Clean(Without(fs, S)) /\ \A i \in DOMAIN Without(fs, S) : Without(fs, S)[i] \notin S
PROOF
<1> DEFINE at == {i \in DOMAIN fs : fs[i] \notin S}
           rest == Chosen(fs, at)
<1>1. at \in SUBSET DOMAIN fs /\ \A i \in at : fs[i] \notin S
  OBVIOUS
<1> HIDE DEF at
<1>2. fs \in Seq(Filters)
  BY DEF Clean
<1>3. /\ rest \in Seq(Filters) /\ InOrder(at) \in [DOMAIN rest -> at]
      /\ \A n \in DOMAIN rest : rest[n] = fs[InOrder(at)[n]]
      /\ \A m, n \in DOMAIN rest : InOrder(at)[m] = InOrder(at)[n] => m = n
  BY <1>1, <1>2, ChosenElements
<1>4. Without(fs, S) = rest
  BY DEF Without, at
<1> HIDE DEF rest
<1>5. \A n \in DOMAIN rest : InOrder(at)[n] \in at /\ InOrder(at)[n] \in DOMAIN fs
  BY <1>1, <1>3
<1>6. \A n \in DOMAIN rest : rest[n] \notin S
  BY <1>1, <1>3, <1>5
<1>7. ASSUME NEW m \in DOMAIN rest, NEW n \in DOMAIN rest, rest[m] = rest[n] PROVE m = n
  <2>1. InOrder(at)[m] = InOrder(at)[n]
    BY <1>3, <1>5, <1>7 DEF Clean
  <2>2. QED
    BY <1>3, <2>1
<1>8. QED
  BY <1>3, <1>4, <1>6, <1>7 DEF Clean

LEMMA CleanAppend ==
  ASSUME NEW fs, Clean(fs), NEW f \in Filters, \A i \in DOMAIN fs : fs[i] # f
  PROVE  Clean(Append(fs, f))
PROOF
<1>1. /\ Append(fs, f) \in Seq(Filters)
      /\ \A i \in DOMAIN Append(fs, f) : \/ i \in DOMAIN fs /\ Append(fs, f)[i] = fs[i]
                                         \/ i = Len(fs) + 1 /\ Append(fs, f)[i] = f
  BY DEF Clean
<1>2. QED
  BY <1>1 DEF Clean

LEMMA CleanFew == Clean(<<>>) /\ \A f \in Filters : Clean(<<f>>)
PROOF
BY DEF Clean

\* Queries that are written, and queries that are read
LEMMA QueriesRead ==
    /\ \A fs : Clean(fs) => IsQuery(stringifyFilters(fs))
    /\ \A query : IsQuery(query) => Clean(parseFilterQuery(query))
    /\ IsQuery(NoQuery) /\ \A query \in Queries(AtMostOne) : IsQuery(query)
PROOF
<1>1. \A fs \in AtMostOne : Clean(fs)
  BY CleanFew DEF AtMostOne
<1>2. Clean(<<>>)
  BY CleanFew
<1>3. QED
  BY <1>1, <1>2 DEF IsQuery, stringifyFilters, parseFilterQuery, NoQuery, Queries

LEMMA SetFiltersTypes ==
  ASSUME FilterTypes, NEW fs, Clean(fs), SetFilters(fs), shortcut' \in ShortcutIds \cup {NoShortcut}
  PROVE  FilterTypes'
PROOF
BY DEF FilterTypes, SetFilters, Act, IsPlace, Clean

LEMMA NavigateTypes ==
  ASSUME FilterTypes, NEW p \in Paths, NEW query, IsQuery(query), Navigate([path |-> p, query |-> query])
  PROVE  FilterTypes'
PROOF
<1>1. Clean(wanted')
  BY QueriesRead DEF Navigate, Act
<1>2. IsPlace(url')
  BY DEF Navigate, IsPlace
<1>3. QED
  BY <1>1, <1>2 DEF FilterTypes, Navigate, Act

LEMMA UserTypes ==
  ASSUME FilterTypes,
         \/ \E t \in Tags : ClickTag(t)
         \/ \E w \in Words : AddWord(w)
         \/ \E f \in Filters : RemoveChip(f)
         \/ \E d \in Dates : PickDate(d)
         \/ \E p \in Paths : FollowLink(p) \/ \E query \in Queries(AtMostOne) : VisitUrl(p, query)
         \/ ClearQuery
         \/ \E s \in ShortcutIds \cup {NoShortcut} : SetShortcut(s)
  PROVE  FilterTypes'
PROOF
<1>1. Clean(queued.value) /\ Tags \subseteq Filters /\ Words \subseteq Filters /\ Dates \subseteq Filters /\ Lists \subseteq Paths
  BY DEF FilterTypes, Filters, Paths
<1>2. ASSUME NEW t \in Tags, ClickTag(t) PROVE FilterTypes'
  <2>1. CASE location.path \in Details
    <3>1. PICK p \in Lists : Navigate([path |-> p, query |-> stringifyFilters(<<t>>)])
      BY <1>2, <2>1 DEF ClickTag
    <3>2. IsQuery(stringifyFilters(<<t>>)) /\ p \in Paths
      BY <1>1, CleanFew, QueriesRead
    <3>3. QED
      BY <3>1, <3>2, NavigateTypes
  <2>2. CASE location.path \notin Details
    <3> DEFINE active == Has(filters, t)
               fs == Toggled(queued.value, t, active)
    <3>1. SetFilters(fs) /\ shortcut' = shortcut
      BY <1>2, <2>2 DEF ClickTag, ToggleTag
    <3>2. Clean(fs)
      <4>1. CASE active
        BY <1>1, <4>1, CleanWithout DEF Toggled
      <4>2. CASE ~active
        <5> DEFINE others == Without(queued.value, Tags)
        <5>1. Clean(others) /\ \A i \in DOMAIN others : others[i] \notin Tags
          BY <1>1, CleanWithout
        <5>2. fs = Append(others, t)
          BY <4>2 DEF Toggled
        <5> HIDE DEF others, fs
        <5>3. QED
          BY <1>1, <5>1, <5>2, CleanAppend
      <4>3. QED
        BY <4>1, <4>2
    <3> HIDE DEF fs
    <3>3. QED
      BY <3>1, <3>2, SetFiltersTypes DEF FilterTypes
  <2>3. QED
    BY <2>1, <2>2
<1>3. ASSUME NEW w \in Words, AddWord(w) PROVE FilterTypes'
  <2>1. Clean(With(queued.value, w))
    <3>1. CASE Has(queued.value, w)
      BY <1>1, <3>1 DEF With
    <3>2. CASE ~Has(queued.value, w)
      BY <1>1, <3>2, CleanAppend DEF With, Has
    <3>3. QED
      BY <3>1, <3>2
  <2>2. QED
    BY <1>3, <2>1, SetFiltersTypes DEF AddWord, FilterTypes
<1>4. ASSUME NEW f \in Filters, RemoveChip(f) PROVE FilterTypes'
  <2>1. Clean(Without(queued.value, {f}))
    BY <1>1, CleanWithout
  <2>2. QED
    BY <1>4, <2>1, SetFiltersTypes DEF RemoveChip, FilterTypes
<1>5. ASSUME NEW d \in Dates, PickDate(d) PROVE FilterTypes'
  BY <1>1, <1>5, CleanFew, QueriesRead, NavigateTypes DEF PickDate, FilterTypes, IsPlace
<1>6. ASSUME NEW p \in Paths, FollowLink(p) PROVE FilterTypes'
  BY <1>6, QueriesRead, NavigateTypes DEF FollowLink
<1>7. ASSUME NEW p \in Paths, NEW query \in Queries(AtMostOne), VisitUrl(p, query) PROVE FilterTypes'
  BY <1>7, QueriesRead, NavigateTypes DEF VisitUrl
<1>8. CASE ClearQuery
  <2>1. [url EXCEPT !.query = NoQuery] = [path |-> url.path, query |-> NoQuery] /\ url.path \in Paths
    BY DEF FilterTypes, IsPlace
  <2>2. QED
    BY <1>8, <2>1, QueriesRead, NavigateTypes DEF ClearQuery
<1>9. ASSUME NEW s \in ShortcutIds \cup {NoShortcut}, SetShortcut(s) PROVE FilterTypes'
  <2>1. CASE s = NoShortcut
    BY <1>9, <2>1 DEF SetShortcut, FilterTypes
  <2>2. CASE s # NoShortcut
    <3>1. Clean(Without(queued.value, Words))
      BY <1>1, CleanWithout
    <3>2. QED
      BY <1>9, <2>2, <3>1, SetFiltersTypes DEF SetShortcut
  <2>3. QED
    BY <2>1, <2>2
<1>10. QED
  BY <1>2, <1>3, <1>4, <1>5, <1>6, <1>7, <1>8, <1>9

\* The effects of a rendering put nothing into the state or the URL that was not in one of them.
LEMMA EffectsTypes ==
  ASSUME FilterTypes, NEW loc, IsPlace(loc), NEW fs, Clean(fs),
         NEW q, q = [pending |-> q.pending, value |-> q.value], Clean(q.value), Effects(loc, fs, q)
  PROVE  /\ queued' = [pending |-> (queued').pending, value |-> (queued').value] /\ Clean((queued').value)
         /\ Clean(lastSyncedStore') /\ IsQuery(lastSyncedUrl') /\ IsPlace(url')
PROOF
<1> DEFINE leaves == loc.path # location.path /\ loc.query = NoQuery
           changed == loc.query # location.query
           seen == IF changed THEN FromUrl(loc)
                     ELSE [url |-> lastSyncedUrl, store |-> lastSyncedStore, adopt |-> FALSE]
           writes == (changed \/ q # queued) /\ ToUrl(fs, seen)
<1>1. /\ queued' = IF seen.adopt THEN [pending |-> TRUE, value |-> parseFilterQuery(loc.query)]
                   ELSE IF leaves THEN [pending |-> TRUE, value |-> <<>>] ELSE q
      /\ lastSyncedStore' = IF writes THEN fs ELSE seen.store
      /\ lastSyncedUrl' = IF writes THEN stringifyFilters(fs) ELSE seen.url
      /\ url' = IF writes THEN [url EXCEPT !.query = stringifyFilters(fs)] ELSE url
  BY DEF Effects
<1>2. IsQuery(seen.url) /\ Clean(seen.store)
  BY QueriesRead DEF FromUrl, FilterTypes, IsPlace
<1> HIDE DEF seen, writes, leaves
<1>3. Clean(parseFilterQuery(loc.query)) /\ IsQuery(stringifyFilters(fs))
  BY QueriesRead DEF IsPlace
<1>4. IsPlace(url')
  <2>1. CASE writes
    <3>1. url' = [path |-> url.path, query |-> stringifyFilters(fs)] /\ url.path \in Paths
      BY <1>1, <2>1 DEF FilterTypes, IsPlace
    <3>2. QED
      BY <1>3, <3>1 DEF IsPlace
  <2>2. CASE ~writes
    BY <1>1, <2>2 DEF FilterTypes
  <2>3. QED
    BY <2>1, <2>2
<1>5. queued' = [pending |-> (queued').pending, value |-> (queued').value] /\ Clean((queued').value)
  BY <1>1, <1>3, CleanFew
<1>6. Clean(lastSyncedStore') /\ IsQuery(lastSyncedUrl')
  BY <1>1, <1>2, <1>3
<1>7. QED
  BY <1>4, <1>5, <1>6

LEMMA FilterTypesInvariant == FiltersSpec => []FilterTypes
PROOF
<1>1. FiltersInit => FilterTypes
  <2> SUFFICES ASSUME FiltersInit PROVE FilterTypes
    OBVIOUS
  <2>1. PICK p \in Paths, query \in Queries(AtMostOne) :
           /\ url = [path |-> p, query |-> query] /\ lastSyncedUrl = query
           /\ filters = parseFilterQuery(query) /\ lastSyncedStore = filters /\ wanted = filters
    BY DEF FiltersInit
  <2>2. IsQuery(query) /\ Clean(filters)
    BY <2>1, QueriesRead
  <2>3. QED
    BY <2>1, <2>2 DEF FiltersInit, FilterTypes, IsPlace
<1>2. FilterTypes /\ [FiltersNext]_filterVars => FilterTypes'
  <2> SUFFICES ASSUME FilterTypes, [FiltersNext]_filterVars PROVE FilterTypes'
    OBVIOUS
  <2>1. CASE RenderState
    <3> DEFINE q == [queued EXCEPT !.pending = FALSE]
    <3>1. q = [pending |-> q.pending, value |-> q.value] /\ Clean(q.value) /\ Clean(queued.value) /\ IsPlace(location)
      <4>1. queued = [pending |-> queued.pending, value |-> queued.value]
        BY DEF FilterTypes
      <4>2. q = [pending |-> FALSE, value |-> queued.value]
        <5>1. PICK a, b : queued = [pending |-> a, value |-> b]
          BY <4>1
        <5>2. queued.value = b
          BY <5>1
        <5>3. \A c : [[pending |-> a, value |-> b] EXCEPT !.pending = c] = [pending |-> c, value |-> b]
          OBVIOUS
        <5>4. q = [pending |-> FALSE, value |-> b]
          BY <5>1, <5>3, Zenon
        <5>5. QED
          BY <5>2, <5>4
      <4>3. Clean(queued.value) /\ IsPlace(location)
        BY DEF FilterTypes
      <4> HIDE DEF q
      <4>4. QED
        BY <4>2, <4>3
    <3>2. Effects(location, queued.value, q)
      BY <2>1 DEF RenderState
    <3> HIDE DEF q
    <3>3. /\ queued' = [pending |-> (queued').pending, value |-> (queued').value] /\ Clean((queued').value)
          /\ Clean(lastSyncedStore') /\ IsQuery(lastSyncedUrl') /\ IsPlace(url')
      BY <3>1, <3>2, EffectsTypes
    <3>4. UNCHANGED <<location, shortcut, wanted, hurried>> /\ filters' = queued.value
      BY <2>1 DEF RenderState
    <3>5. QED
      BY <3>1, <3>3, <3>4 DEF FilterTypes, IsPlace, Clean
  <2>2. CASE RenderLocation
    <3>1. Effects(url, filters, queued) /\ location' = url /\ UNCHANGED <<filters, shortcut, wanted, hurried>>
      BY <2>2 DEF RenderLocation
    <3>2. IsPlace(url) /\ Clean(filters) /\ Clean(queued.value) /\ queued = [pending |-> queued.pending, value |-> queued.value]
      BY DEF FilterTypes
    <3>3. /\ queued' = [pending |-> (queued').pending, value |-> (queued').value] /\ Clean((queued').value)
          /\ Clean(lastSyncedStore') /\ IsQuery(lastSyncedUrl') /\ IsPlace(url')
      BY <3>1, <3>2, EffectsTypes
    <3>4. QED
      BY <3>1, <3>2, <3>3 DEF FilterTypes, IsPlace, Clean
  <2>3. CASE UNCHANGED filterVars
    BY <2>3 DEF filterVars, FilterTypes, IsPlace, Clean
  <2>4. QED
    BY <2>1, <2>2, <2>3, UserTypes DEF FiltersNext
<1>3. QED
  BY <1>1, <1>2, PTL DEF FiltersSpec

\* The filters of the state, of the URL and of all that remembers them are filters there are, each once.
THEOREM FilterTypesCorrect == FiltersSpec => []FiltersTypeOK
PROOF
<1>1. FilterTypes => FiltersTypeOK
  <2> SUFFICES ASSUME FilterTypes PROVE FiltersTypeOK
    OBVIOUS
  <2>1. /\ \A fs \in {url.query.filters, location.query.filters, lastSyncedUrl.filters,
                      filters, queued.value, lastSyncedStore, wanted} : Clean(fs)
        /\ {url.query.spelling, location.query.spelling, lastSyncedUrl.spelling} \subseteq Spellings \cup {"own"}
    BY DEF FilterTypes, IsPlace, IsQuery
  <2>2. \A fs : Clean(fs) => \A i \in DOMAIN fs : fs[i] \in Filters /\ \A j \in DOMAIN fs : fs[i] = fs[j] => i = j
    BY DEF Clean
  <2>3. {url.path, location.path} \subseteq Paths /\ shortcut \in ShortcutIds \cup {NoShortcut} /\ hurried \subseteq {"set", "navigate"}
    BY DEF FilterTypes, IsPlace
  <2>4. QED
    BY <2>1, <2>2, <2>3 DEF FiltersTypeOK
<1>2. QED
  BY <1>1, FilterTypesInvariant, PTL

-----------------------------------------------------------------------------
Requests == [number : 0..MaxRequests, target : Targets, typed : SUBSET Targets, state : {"sent", "listing"}]

\* Types of the records, which DialogTypeOK looks into only
Shapes ==
    /\ DialogTypeOK
    /\ requests \subseteq Requests
    /\ view # "closed" => target \in Targets
    /\ dialog = NoDialog => view = "closed" /\ requests = {} /\ typed = {} /\ target = NoTarget

\* The fields hold what was typed for the last target, open or not.
TypedForLast == typed \subseteq {target}

\* A dialog that never sets its fields anew has no second target.
OneTarget == dialog.fresh = "never" => target \in {NoTarget, TheOne}

DialogInv == Shapes /\ TypedForLast /\ OneTarget /\ FieldsGoToTheirTarget

-----------------------------------------------------------------------------
LEMMA DialogFacts ==
    /\ \A d \in Dialogs : d.fresh \in {"opening", "target", "never"}
    /\ Shortcuts.fresh = "opening" /\ NoDialog.fresh = "never" /\ NoDialog \notin Dialogs
    /\ TheOne \in Targets /\ NoTarget \notin Targets
PROOF
<1>1. \A d \in Dialogs : d.fresh \in {"opening", "target", "never"} /\ d.done # "none"
  BY DEF Dialogs, Form, ConfirmDialog, CreateUserDialog, ChangeMemberPasswordDialog, UpdateAccountDialog,
     UpdateCustomizedProfileDialog, CreateWebhookDialog, CreateAccessTokenDialog,
     CreateIdentityProviderDialog, AIProviderDialog, Shortcuts, MemoSharePanel, DeleteAccessToken,
     DeleteWebhook, DeleteShortcut, DeleteAccount, ArchiveMember, DeleteMember,
     DeleteIdentityProvider, DeleteProvider, DeleteOneMemo, DeleteUnusedAttachments
<1>2. Shortcuts.fresh = "opening" /\ NoDialog.fresh = "never" /\ NoDialog.done = "none"
  BY DEF Shortcuts, Form, NoDialog
<1>3. TheOne \in Targets /\ NoTarget \notin Targets
  BY DialogAssumption DEF TheOne
<1>4. QED
  BY <1>1, <1>2, <1>3

LEMMA Initially == DialogInit => DialogInv
PROOF
<1> SUFFICES ASSUME DialogInit PROVE DialogInv
  OBVIOUS
<1>1. 0 \in 0..MaxOpenings /\ 0 \in 0..MaxRequests
  BY DialogAssumption
<1>2. QED
  BY <1>1, DialogFacts DEF DialogInit, DialogInv, Shapes, DialogTypeOK, TypedForLast, OneTarget, FieldsGoToTheirTarget

\* Choosing a dialog and working on its form
LEMMA FormStep ==
    ASSUME DialogInv, Choose \/ Type \/ Cancel \/ \E t \in Targets : Open(t) \/ EditShortcut(t)
    PROVE  DialogInv'
PROOF
<1> USE DialogFacts DEF DialogInv, Shapes, DialogTypeOK, TypedForLast, OneTarget, FieldsGoToTheirTarget
<1>1. CASE Choose
  <2>1. typed = {}
    BY <1>1 DEF Choose
  <2>2. QED
    BY <1>1, <2>1 DEF Choose
<1>2. CASE Type
  BY <1>2 DEF Type
<1>3. CASE Cancel
  BY <1>3 DEF Cancel
<1>4. ASSUME NEW t \in Targets, Open(t) PROVE DialogInv'
  <2>1. dialog # NoDialog /\ dialog \in Dialogs /\ opening + 1 \in 0..MaxOpenings
    BY <1>4, DialogAssumption DEF Open
  <2>2. typed' \subseteq {t}
    <3>1. CASE dialog.fresh = "never"
      <4>1. t = TheOne /\ typed' = typed
        BY <1>4, <3>1 DEF Open
      <4>2. QED
        BY <3>1, <4>1
    <3>2. CASE dialog.fresh # "never"
      <4>1. typed' = {} \/ (typed' = typed /\ t = target)
        BY <1>4, <3>2 DEF Open, FieldsStay
      <4>2. QED
        BY <4>1
    <3>3. QED
      BY <3>1, <3>2
  <2>3. OneTarget'
    BY <1>4 DEF Open
  <2>4. QED
    BY <1>4, <2>1, <2>2, <2>3 DEF Open
<1>5. ASSUME NEW t \in Targets, EditShortcut(t) PROVE DialogInv'
  <2>1. opening + 1 \in 0..MaxOpenings /\ dialog \in Dialogs
    BY <1>5, DialogAssumption DEF EditShortcut, Dialogs
  <2>2. QED
    BY <1>5, <2>1 DEF EditShortcut
<1>6. QED
  BY <1>1, <1>2, <1>3, <1>4, <1>5

\* The request of a form
LEMMA ConfirmStep == DialogInv /\ Confirm => DialogInv'
PROOF
<1> SUFFICES ASSUME DialogInv, Confirm PROVE DialogInv'
  OBVIOUS
<1> USE DialogFacts DEF DialogInv, Shapes, DialogTypeOK, TypedForLast, OneTarget, FieldsGoToTheirTarget
<1> DEFINE sent == [number |-> requested, target |-> target, typed |-> typed, state |-> "sent"]
<1>1. sent \in Requests /\ sent.typed \subseteq {sent.target} /\ sent.number \in 0..MaxRequests /\ sent.target \in Targets
  BY DialogAssumption DEF Confirm, Requests
<1>2. requests' = requests \cup {sent} /\ dialog # NoDialog /\ requested' \in 0..MaxRequests
  BY DialogAssumption DEF Confirm
<1>3. busy' \in BOOLEAN
  BY DEF Confirm
<1> HIDE DEF sent
<1>4. QED
  BY <1>1, <1>2, <1>3 DEF Confirm

\* The answers to it
LEMMA AnswerStep ==
    ASSUME DialogInv, NEW r \in requests, DialogAnswered(r) \/ Relisted(r) \/ Rejected(r)
    PROVE  DialogInv'
PROOF
<1> USE DialogFacts DEF DialogInv, Shapes, DialogTypeOK, TypedForLast, OneTarget, FieldsGoToTheirTarget
<1> DEFINE listing == [r EXCEPT !.state = "listing"]
<1>1. r \in Requests /\ listing \in Requests /\ listing.typed = r.typed /\ listing.target = r.target
      /\ listing.number = r.number
  BY DEF Requests
<1>2. requests' \subseteq (requests \ {r}) \cup {listing}
      /\ UNCHANGED <<dialog, opening, target, requested>>
  BY DEF DialogAnswered, Relisted, Rejected
<1> HIDE DEF listing
<1>3. typed' \in {typed, {}} /\ view' \in {view, "closed", "token"} /\ busy' \in BOOLEAN
      /\ (view' = "token" => view # "closed")
  BY DEF DialogAnswered, Relisted, Rejected, Closed
<1>4. dialog # NoDialog
  OBVIOUS
<1>5. QED
  BY <1>1, <1>2, <1>3, <1>4

LEMMA DialogInvariant == DialogSpec => []DialogInv
PROOF
<1>1. DialogInv /\ [DialogNext]_dialogVars => DialogInv'
  <2> SUFFICES ASSUME DialogInv, [DialogNext]_dialogVars PROVE DialogInv'
    OBVIOUS
  <2>1. CASE DialogNext
    BY <2>1, FormStep, ConfirmStep, AnswerStep DEF DialogNext
  <2>2. CASE UNCHANGED dialogVars
    BY <2>2 DEF dialogVars, DialogInv, Shapes, DialogTypeOK, TypedForLast, OneTarget, FieldsGoToTheirTarget
  <2>3. QED
    BY <2>1, <2>2
<1>2. QED
  BY <1>1, Initially, PTL DEF DialogSpec

\* The dialogs' state keeps its types, whatever is opened and answered.
THEOREM DialogTypesCorrect == DialogSpec => []DialogTypeOK
PROOF
<1>1. DialogInv => DialogTypeOK
  BY DEF DialogInv, Shapes
<1>2. QED
  BY <1>1, DialogInvariant, PTL

\* For any number of targets, openings and requests, and whatever answers close
\* in between: nothing is sent for one target that was typed for another.
THEOREM FieldsKeepToTheirTarget == DialogSpec => []FieldsGoToTheirTarget
PROOF
<1>1. DialogInv => FieldsGoToTheirTarget
  BY DEF DialogInv
<1>2. QED
  BY <1>1, DialogInvariant, PTL

-----------------------------------------------------------------------------
SaveType == [number : Nat, value : Setting, edits : {"own", "other"}, held : BOOLEAN,
             state : {"sent", "written"}]

\* SettingsTypeOK, and the shape of a save
SettingsTypes == SettingsTypeOK /\ saves \subseteq SaveType

\* The form follows a copy only where the transcription itself has changed.
DraftStep ==
    section.sync = "a change" /\ mounted /\ mounted' /\ synced' = synced /\ setting' # setting
        => form'.own.text = form.own.text

-----------------------------------------------------------------------------
LEMMA SettingFacts ==
    /\ Default \in Setting /\ EmptyOwn \in Own /\ NoItem \notin Items
    /\ \A v \in Setting : v = [own |-> v.own, other |-> v.other] /\ v.own \in Own /\ v.other \subseteq Items
    /\ \A w \in Own : w = [ref |-> w.ref, text |-> w.text]
PROOF
<1>1. EmptyOwn \in Own
  BY SettingsAssumption DEF EmptyOwn, Own
<1>2. Default \in Setting
  BY <1>1 DEF Default, Setting
<1>3. \A v \in Setting : v = [own |-> v.own, other |-> v.other] /\ v.own \in Own /\ v.other \subseteq Items
  BY DEF Setting
<1>4. \A w \in Own : w = [ref |-> w.ref, text |-> w.text]
  BY DEF Own
<1>5. QED
  BY <1>1, <1>2, <1>3, <1>4, SettingsAssumption

\* A new copy keeps the types, and a draft whose transcription has not changed.
LEMMA AdoptFacts ==
    ASSUME SettingsTypes, NEW v \in Setting, NEW f \in Setting, Adopt(v, f)
    PROVE  /\ setting' \in Setting /\ arrived' \in BOOLEAN /\ form' \in Setting /\ synced' \in Own
           /\ section.sync = "a change" /\ mounted /\ synced' = synced => form'.own = f.own
PROOF
<1>1. setting' = v /\ arrived' = TRUE
  BY DEF Adopt
<1>2. [own |-> f.own, other |-> v.other] \in Setting /\ [own |-> f.own, other |-> v.other].own = f.own
  BY SettingFacts DEF Setting
<1>3. v.own \in Own
  BY SettingFacts
<1>4. CASE mounted
  <2>1. form' = Sync(v, f) /\ synced' = v.own
    BY <1>4 DEF Adopt
  <2>2. form' = v \/ form' = [own |-> f.own, other |-> v.other]
    BY <2>1 DEF Sync
  <2>3. section.sync = "a change" /\ synced' = synced => form' = [own |-> f.own, other |-> v.other]
    BY <2>1 DEF Sync
  <2>4. QED
    BY <1>1, <1>2, <1>3, <2>1, <2>2, <2>3
<1>5. CASE ~mounted
  BY <1>1, <1>5 DEF Adopt, SettingsTypes, SettingsTypeOK
<1>6. QED
  BY <1>4, <1>5

\* A setting from the server
LEMMA FetchStep ==
    ASSUME SettingsTypes, Fetch \/ FetchLost \/ FetchArrives
    PROVE  SettingsTypes' /\ DraftStep
PROOF
<1>1. CASE Fetch \/ FetchLost
  BY <1>1 DEF Fetch, FetchLost, SettingsTypes, SettingsTypeOK, DraftStep
<1>2. CASE FetchArrives
  <2>1. PICK v \in Setting : Adopt(v, form)
    BY <1>2 DEF FetchArrives, SettingsTypes, SettingsTypeOK
  <2>2. form \in Setting
    BY DEF SettingsTypes, SettingsTypeOK
  <2>3. /\ setting' \in Setting /\ arrived' \in BOOLEAN /\ form' \in Setting /\ synced' \in Own
        /\ section.sync = "a change" /\ mounted /\ synced' = synced => form'.own = form.own
    BY <2>1, <2>2, AdoptFacts
  <2>4. SettingsTypes'
    BY <1>2, <2>3 DEF FetchArrives, SettingsTypes, SettingsTypeOK
  <2>5. QED
    BY <2>3, <2>4 DEF DraftStep
<1>3. QED
  BY <1>1, <1>2

\* The page and its forms
LEMMA PageStep ==
    ASSUME SettingsTypes,
           \/ \E s \in Sections : Enter(s)
           \/ MountSection \/ UnmountSection
           \/ \E own \in Own : Edit(own)
    PROVE  SettingsTypes' /\ DraftStep
PROOF
<1> USE DEF SettingsTypes, SettingsTypeOK, DraftStep
<1>1. ASSUME NEW s \in Sections, Enter(s) PROVE SettingsTypes' /\ DraftStep
  <2>1. PICK v \in Possible(s) : row' = v /\ confirmed' = v /\ owned' = {v.own, EmptyOwn}
    BY <1>1 DEF Enter
  <2>2. v \in Setting /\ v.own \in Own
    BY <2>1, SettingFacts DEF Possible
  <2>3. QED
    BY <1>1, <2>1, <2>2, SettingFacts DEF Enter
<1>2. CASE MountSection
  <2>1. setting.own \in Own
    BY SettingFacts
  <2>2. QED
    BY <1>2, <2>1 DEF MountSection
<1>3. CASE UnmountSection
  BY <1>3, SettingFacts DEF UnmountSection
<1>4. ASSUME NEW own \in Own, Edit(own) PROVE SettingsTypes' /\ DraftStep
  <2>1. form' = [own |-> own, other |-> form.other]
    BY <1>4, SettingFacts DEF Edit
  <2>2. form' \in Setting
    BY <2>1 DEF Setting
  <2>3. QED
    BY <1>4, <2>2 DEF Edit
<1>5. QED
  BY <1>1, <1>2, <1>3, <1>4

\* A save, from the form or from a dialog
LEMMA SaveStep ==
    ASSUME SettingsTypes, SaveForm \/ \E other \in SUBSET Items : SaveOther(other)
    PROVE  SettingsTypes' /\ DraftStep
PROOF
<1>1. PICK v \in Setting, edits \in {"own", "other"} : Save(v, edits)
  <2>1. CASE SaveForm
    BY <2>1 DEF SaveForm, SettingsTypes, SettingsTypeOK
  <2>2. ASSUME NEW other \in SUBSET Items, SaveOther(other)
        PROVE  \E v \in Setting, edits \in {"own", "other"} : Save(v, edits)
    <3>1. Carried(other) \in Own
      BY SettingFacts DEF Carried, SettingsTypes, SettingsTypeOK
    <3>2. [own |-> Carried(other), other |-> other] \in Setting
      BY <3>1 DEF Setting
    <3>3. QED
      BY <2>2, <3>2 DEF SaveOther
  <2>3. QED
    BY <2>1, <2>2
<1> DEFINE new == [number |-> saved, value |-> v, edits |-> edits, held |-> arrived, state |-> "sent"]
<1>2. new \in SaveType
  BY SettingsAssumption DEF SettingsTypes, SettingsTypeOK, SaveType
<1>3. new.value = v
  OBVIOUS
<1>4. saves' = saves \cup {new}
  BY <1>1 DEF Save
<1> HIDE DEF new
<1>5. saved' \in 0..MaxSaves /\ mixed' \in BOOLEAN
  BY <1>1, SettingsAssumption DEF Save, SettingsTypes, SettingsTypeOK
<1>6. QED
  BY <1>1, <1>2, <1>3, <1>4, <1>5 DEF Save, SettingsTypes, SettingsTypeOK, DraftStep

\* The server writes the row, or the answer is lost.
LEMMA WriteStep ==
    ASSUME SettingsTypes, NEW r \in saves, Write(r) \/ SaveLost(r)
    PROVE  SettingsTypes' /\ DraftStep
PROOF
<1> USE DEF SettingsTypes, SettingsTypeOK, DraftStep
<1>1. r \in SaveType /\ r.value \in Setting
  BY DEF SaveType
<1>2. Kept(r) \in Setting
  <2>1. [r.value EXCEPT !.own = row.own] = [own |-> row.own, other |-> r.value.other]
    BY <1>1, SettingFacts
  <2>2. [own |-> row.own, other |-> r.value.other] \in Setting
    BY <1>1, SettingFacts DEF Setting
  <2>3. QED
    BY <1>1, <2>1, <2>2 DEF Kept
<1> DEFINE written == [r EXCEPT !.state = "written", !.value = Kept(r)]
<1>3. written \in SaveType /\ written.value = Kept(r)
  BY <1>1, <1>2 DEF SaveType
<1> HIDE DEF written
<1>4. CASE Write(r)
  <2>1. CASE saves' = saves \ {r} /\ UNCHANGED <<row, confirmed, owned>>
    BY <1>4, <2>1 DEF Write
  <2>2. CASE /\ row' = Kept(r) /\ saves' = (saves \ {r}) \cup {written}
             /\ confirmed' = IF r.edits = "own" THEN [confirmed EXCEPT !.own = r.value.own]
                             ELSE [other |-> r.value.other,
                                   own |-> IF confirmed.own.ref \in r.value.other \cup {NoItem}
                                           THEN confirmed.own ELSE EmptyOwn]
             /\ owned' = IF r.edits = "own" THEN owned \cup {r.value.own} ELSE owned
    <3>1. [confirmed EXCEPT !.own = r.value.own] = [own |-> r.value.own, other |-> confirmed.other]
      BY SettingFacts
    <3>2. r.value.own \in Own /\ confirmed.own \in Own
      BY <1>1, SettingFacts
    <3>3. confirmed' \in Setting
      BY <1>1, <2>2, <3>1, <3>2, SettingFacts DEF Setting
    <3>4. owned' \subseteq Own
      BY <2>2, <3>2
    <3>5. QED
      BY <1>2, <1>3, <1>4, <2>2, <3>3, <3>4 DEF Write
  <2>3. QED
    BY <1>4, <2>1, <2>2 DEF Write, written
<1>5. CASE SaveLost(r)
  BY <1>5 DEF SaveLost
<1>6. QED
  BY <1>4, <1>5

\* The answer to a save becomes the copy.
LEMMA SavedStep ==
    ASSUME SettingsTypes, NEW r \in saves, Saved(r)
    PROVE  SettingsTypes' /\ DraftStep
PROOF
<1> DEFINE draft == IF form.own.ref \in r.value.other \cup {NoItem} \/ r.edits = "own"
                    THEN form ELSE [form EXCEPT !.own.ref = NoItem]
<1>1. form \in Setting /\ r.value \in Setting
  BY DEF SettingsTypes, SettingsTypeOK
<1>2. draft \in Setting /\ draft.own.text = form.own.text
  <2>1. [form EXCEPT !.own.ref = NoItem] = [own |-> [ref |-> NoItem, text |-> form.own.text], other |-> form.other]
    BY <1>1 DEF Setting, Own
  <2>2. [ref |-> NoItem, text |-> form.own.text] \in Own
    BY <1>1 DEF Setting, Own
  <2>3. [own |-> [ref |-> NoItem, text |-> form.own.text], other |-> form.other] \in Setting
    BY <1>1, <2>2 DEF Setting
  <2>4. QED
    BY <1>1, <2>1, <2>3
<1>3. Adopt(r.value, draft)
  BY DEF Saved
<1> HIDE DEF draft
<1>4. /\ setting' \in Setting /\ arrived' \in BOOLEAN /\ form' \in Setting /\ synced' \in Own
      /\ section.sync = "a change" /\ mounted /\ synced' = synced => form'.own = draft.own
  BY <1>1, <1>2, <1>3, AdoptFacts
<1>5. SettingsTypes'
  BY <1>4 DEF Saved, SettingsTypes, SettingsTypeOK
<1>6. QED
  BY <1>2, <1>4, <1>5 DEF DraftStep

LEMMA SettingsInitially == SettingsInit => SettingsTypes
PROOF
<1> SUFFICES ASSUME SettingsInit PROVE SettingsTypes
  OBVIOUS
<1>1. 0 \in 0..MaxSaves
  BY SettingsAssumption
<1>2. QED
  BY <1>1, SettingFacts DEF SettingsInit, SettingsTypes, SettingsTypeOK

LEMMA SettingsStep ==
    SettingsTypes /\ [SettingsNext]_settingsVars => SettingsTypes' /\ (UNCHANGED settingsVars \/ DraftStep)
PROOF
<1> SUFFICES ASSUME SettingsTypes, [SettingsNext]_settingsVars
             PROVE  SettingsTypes' /\ (UNCHANGED settingsVars \/ DraftStep)
  OBVIOUS
<1>1. CASE SettingsNext
  BY <1>1, FetchStep, PageStep, SaveStep, WriteStep, SavedStep DEF SettingsNext
<1>2. CASE UNCHANGED settingsVars
  BY <1>2 DEF settingsVars, SettingsTypes, SettingsTypeOK
<1>3. QED
  BY <1>1, <1>2

\* The setting, its copies and the drafts of it keep their shape.
THEOREM SettingsTypesCorrect == SettingsSpec => []SettingsTypeOK
PROOF
<1>1. SettingsTypes => SettingsTypeOK
  BY DEF SettingsTypes
<1>2. QED
  BY <1>1, SettingsInitially, SettingsStep, PTL DEF SettingsSpec

\* The effect of AISection that follows lastSyncedTranscription: no fetch and no
\* save of the providers takes away the text typed into the transcription.
THEOREM DraftSurvives == SettingsSpec => DraftSurvivesOtherSaves
PROOF
<1>1. SettingsTypes /\ [SettingsNext]_settingsVars => [DraftStep]_settingsVars
  BY SettingsStep
<1>2. [DraftStep]_settingsVars <=>
        [section.sync = "a change" /\ mounted /\ mounted' /\ synced' = synced
           /\ setting' # setting => form'.own.text = form.own.text]_settingsVars
  BY DEF DraftStep
<1>3. QED
  BY <1>1, <1>2, SettingsInitially, SettingsStep, PTL DEF SettingsSpec, DraftSurvivesOtherSaves

-----------------------------------------------------------------------------
(* SettingHoldsWhatWasConfirmed is about the row; what keeps it so is what   *)
(* the page holds: the copy, the answers to come, and what is being sent.    *)

\* Before a section is chosen there is only the default.
NothingYet ==
    section = NoSection =>
        /\ setting = Default /\ fetching = {} /\ saves = {} /\ ~mounted /\ ~fetched

\* No own part is about that no form was saved with.
Confirmable(own) == own \in owned \cup {EmptyOwn}

OwnIsConfirmed ==
    /\ \A v \in {row, setting} \cup fetching : Confirmable(v.own)
    /\ \A r \in saves : r.edits = "other" \/ r.state = "written" => Confirmable(r.value.own)

\* What a save that is under way leaves of the row: the part that it does not edit
OfRow(r, w) ==
    /\ r.state = "written" => r.value = w
    /\ r.state = "sent" /\ r.edits = "own" => r.value.other = w.other
    /\ r.state = "sent" /\ r.edits = "other" =>
           r.held /\ r.value.own = IF w.own.ref \in r.value.other \cup {NoItem} THEN w.own ELSE EmptyOwn

\* While each save waits for an up to date copy, there is one at a time, made of
\* the row as it still is.
OneEditor ==
    /\ mounted => form.other = setting.other
    /\ ~mixed =>
           /\ row = confirmed
           /\ fetching \subseteq {row}
           /\ saves # {} => fetched /\ fetching = {}
           /\ fetching # {} => fetched
           /\ \A q, r \in saves : q = r
           /\ \A r \in saves : OfRow(r, row)
           /\ fetched /\ fetching = {} /\ (\A r \in saves : r.state = "sent") => arrived /\ setting = row

ConfirmedInv == SettingsTypes /\ NothingYet /\ OwnIsConfirmed /\ OneEditor

LEMMA SectionFacts == \A s \in Sections : s # NoSection
PROOF
<1>1. /\ InstanceSection.at = "start" /\ MemoRelatedSettings.at = "start" /\ TagsSection.at = "start"
      /\ StorageSection.at = "page" /\ NotificationSection.at = "page" /\ AISection.at = "page"
  BY DEF Section, InstanceSection, MemoRelatedSettings, TagsSection, StorageSection, NotificationSection, AISection
<1>2. NoSection.at = "none"
  BY DEF NoSection, Section
<1>3. QED
  BY <1>1, <1>2 DEF Sections

\* A copy comes: the part of the draft that others edit follows it.
LEMMA AdoptKeepsOther ==
    ASSUME SettingsTypes, NEW v \in Setting, NEW f \in Setting, Adopt(v, f), mounted => form.other = setting.other
    PROVE  setting' = v /\ arrived' = TRUE /\ (mounted => form'.other = setting'.other)
PROOF
<1>1. setting' = v /\ arrived' = TRUE
  BY DEF Adopt
<1>2. ASSUME mounted PROVE form'.other = v.other
  <2>1. form' = Sync(v, f)
    BY <1>2 DEF Adopt
  <2>2. QED
    BY <2>1 DEF Sync
<1>3. QED
  BY <1>1, <1>2

LEMMA ConfirmedInitially == SettingsInit => ConfirmedInv
PROOF
<1> SUFFICES ASSUME SettingsInit PROVE ConfirmedInv
  OBVIOUS
<1>1. Default.own = EmptyOwn
  BY DEF Default
<1>2. QED
  BY <1>1, SettingsInitially DEF SettingsInit, ConfirmedInv, NothingYet, OwnIsConfirmed, Confirmable, OneEditor

LEMMA FetchConfirmed ==
    ASSUME ConfirmedInv, SettingsTypes', Fetch \/ FetchLost \/ FetchArrives
    PROVE  ConfirmedInv'
PROOF
<1>1. CASE Fetch
  BY <1>1 DEF Fetch, ConfirmedInv, NothingYet, OwnIsConfirmed, Confirmable, OneEditor
<1>2. CASE FetchLost
  BY <1>2 DEF FetchLost, ConfirmedInv, NothingYet, OwnIsConfirmed, Confirmable, OneEditor
<1>3. CASE FetchArrives
  <2>1. PICK v \in fetching : Adopt(v, form)
    BY <1>3 DEF FetchArrives
  <2>2. v \in Setting /\ form \in Setting
    BY DEF ConfirmedInv, SettingsTypes, SettingsTypeOK
  <2>3. setting' = v /\ arrived' = TRUE /\ (mounted => form'.other = setting'.other)
    BY <2>1, <2>2, AdoptKeepsOther DEF ConfirmedInv, OneEditor
  <2>4. fetching' = {} /\ UNCHANGED <<section, row, fetched, mounted, saves, saved, confirmed, owned, mixed>>
    BY <1>3 DEF FetchArrives
  <2>5. NothingYet' /\ OwnIsConfirmed'
    BY <2>1, <2>3, <2>4 DEF ConfirmedInv, NothingYet, OwnIsConfirmed, Confirmable
  <2>6. OneEditor'
    BY <2>1, <2>3, <2>4 DEF ConfirmedInv, OneEditor
  <2>7. QED
    BY <2>5, <2>6 DEF ConfirmedInv
<1>4. QED
  BY <1>1, <1>2, <1>3

LEMMA PageConfirmed ==
    ASSUME ConfirmedInv, SettingsTypes',
           \/ \E s \in Sections : Enter(s)
           \/ MountSection \/ UnmountSection
           \/ \E own \in Own : Edit(own)
    PROVE  ConfirmedInv'
PROOF
<1>1. ASSUME NEW s \in Sections, Enter(s) PROVE ConfirmedInv'
  <2>1. PICK v \in Setting : row' = v /\ confirmed' = v /\ owned' = {v.own, EmptyOwn}
    BY <1>1 DEF Enter, Possible
  <2>2. /\ section = NoSection /\ section' = s /\ s # NoSection
        /\ UNCHANGED <<setting, arrived, fetched, fetching, mounted, form, synced, saves, saved, mixed>>
    BY <1>1, SectionFacts DEF Enter
  <2>3. setting.own = EmptyOwn /\ fetching = {} /\ saves = {} /\ ~mounted /\ ~fetched
    BY <2>2 DEF ConfirmedInv, NothingYet, Default
  <2>4. QED
    BY <2>1, <2>2, <2>3 DEF ConfirmedInv, NothingYet, OwnIsConfirmed, Confirmable, OneEditor
<1>2. CASE MountSection
  BY <1>2 DEF MountSection, ConfirmedInv, NothingYet, OwnIsConfirmed, Confirmable, OneEditor
<1>3. CASE UnmountSection
  BY <1>3 DEF UnmountSection, ConfirmedInv, NothingYet, OwnIsConfirmed, Confirmable, OneEditor
<1>4. ASSUME NEW own \in Own, Edit(own) PROVE ConfirmedInv'
  <2>1. form' = [form EXCEPT !.own = own] /\ form \in Setting
    BY <1>4 DEF Edit, ConfirmedInv, SettingsTypes, SettingsTypeOK
  <2>2. form'.other = form.other
    BY <2>1 DEF Setting
  <2>3. QED
    BY <1>4, <2>2 DEF Edit, ConfirmedInv, NothingYet, OwnIsConfirmed, Confirmable, OneEditor
<1>5. QED
  BY <1>1, <1>2, <1>3, <1>4

\* A save is sent: the part that it does not edit is that of the copy, which is
\* the row if the copy is up to date.
LEMMA SaveConfirmed ==
    ASSUME ConfirmedInv, SettingsTypes', SaveForm \/ \E other \in SUBSET Items : SaveOther(other)
    PROVE  ConfirmedInv'
PROOF
<1>1. PICK v \in Setting, edits \in {"own", "other"} :
          /\ Save(v, edits) /\ mounted
          /\ edits = "own" => v.other = setting.other
          /\ edits = "other" => v.own = Carried(v.other)
  <2>1. CASE SaveForm
    <3>1. Save(form, "own") /\ mounted /\ form.other = setting.other
      BY <2>1 DEF SaveForm, ConfirmedInv, OneEditor
    <3>2. form \in Setting
      BY DEF ConfirmedInv, SettingsTypes, SettingsTypeOK
    <3>3. QED
      BY <3>1, <3>2
  <2>2. ASSUME NEW other \in SUBSET Items, SaveOther(other)
        PROVE  \E v \in Setting, edits \in {"own", "other"} :
                  /\ Save(v, edits) /\ mounted
                  /\ edits = "own" => v.other = setting.other
                  /\ edits = "other" => v.own = Carried(v.other)
    <3> DEFINE w == [own |-> Carried(other), other |-> other]
    <3>1. w.own = Carried(w.other)
      OBVIOUS
    <3>2. Save(w, "other") /\ mounted
      BY <2>2 DEF SaveOther
    <3>3. Carried(other) \in Own
      BY SettingFacts DEF Carried, ConfirmedInv, SettingsTypes, SettingsTypeOK
    <3>4. w \in Setting
      BY <3>3 DEF Setting
    <3> HIDE DEF w
    <3>5. QED
      BY <3>1, <3>2, <3>4
  <2>3. QED
    BY <2>1, <2>2
<1> DEFINE new == [number |-> saved, value |-> v, edits |-> edits, held |-> arrived, state |-> "sent"]
<1>2. new.value = v /\ new.edits = edits /\ new.held = arrived /\ new.state = "sent"
  OBVIOUS
<1>3. /\ saves' = saves \cup {new} /\ mixed' = (mixed \/ saves # {} \/ fetching # {} \/ ~fetched)
      /\ UNCHANGED <<section, row, setting, arrived, fetched, fetching, mounted, form, synced, confirmed, owned>>
  BY <1>1 DEF Save
<1> HIDE DEF new
<1>4. Confirmable(Carried(v.other))
  BY DEF Carried, Confirmable, ConfirmedInv, OwnIsConfirmed
<1>5. NothingYet' /\ OwnIsConfirmed'
  BY <1>1, <1>2, <1>3, <1>4 DEF ConfirmedInv, NothingYet, OwnIsConfirmed, Confirmable
<1>6. ASSUME ~mixed' PROVE OfRow(new, row')
  <2>1. arrived /\ setting = row /\ row' = row
    BY <1>3, <1>6 DEF ConfirmedInv, OneEditor
  <2>2. edits = "own" => new.value.other = row'.other
    BY <1>1, <1>2, <2>1
  <2>3. edits = "other" => new.value.own = IF row'.own.ref \in new.value.other \cup {NoItem} THEN row'.own ELSE EmptyOwn
    BY <1>1, <1>2, <2>1 DEF Carried
  <2>4. QED
    BY <1>2, <2>1, <2>2, <2>3 DEF OfRow
<1>7. OneEditor'
  BY <1>2, <1>3, <1>6 DEF ConfirmedInv, OneEditor
<1>8. QED
  BY <1>5, <1>7 DEF ConfirmedInv

\* The server writes what it was sent: the edited part, over the row as it was
\* when the save was made.
LEMMA WriteConfirmed ==
    ASSUME ConfirmedInv, SettingsTypes', NEW r \in saves, Write(r)
    PROVE  ConfirmedInv'
PROOF
<1>1. r \in SaveType /\ r.value \in Setting /\ r.state = "sent"
  BY DEF ConfirmedInv, SettingsTypes, SettingsTypeOK, Write
<1>2. UNCHANGED <<section, setting, arrived, fetched, fetching, mounted, form, synced, saved, mixed>>
  BY DEF Write
<1>3. CASE saves' = saves \ {r} /\ UNCHANGED <<row, confirmed, owned>>
  BY <1>1, <1>2, <1>3 DEF ConfirmedInv, NothingYet, OwnIsConfirmed, Confirmable, OneEditor
<1> DEFINE written == [r EXCEPT !.state = "written", !.value = Kept(r)]
<1>4. ASSUME row' = Kept(r), saves' = (saves \ {r}) \cup {written},
             confirmed' = IF r.edits = "own" THEN [confirmed EXCEPT !.own = r.value.own]
                          ELSE [other |-> r.value.other,
                                own |-> IF confirmed.own.ref \in r.value.other \cup {NoItem}
                                        THEN confirmed.own ELSE EmptyOwn],
             owned' = IF r.edits = "own" THEN owned \cup {r.value.own} ELSE owned
      PROVE  ConfirmedInv'
  <2>1. written.state = "written" /\ written.value = Kept(r) /\ written.edits = r.edits
    BY <1>1 DEF SaveType
  <2> HIDE DEF written
  <2>2. row'.own \in owned' \cup {EmptyOwn}
    <3>1. CASE Kept(r) = r.value
      BY <1>1, <1>4, <3>1 DEF ConfirmedInv, OwnIsConfirmed, Confirmable, SaveType
    <3>2. CASE Kept(r) = [r.value EXCEPT !.own = row.own]
      <4>1. Kept(r).own = row.own
        BY <1>1, <3>2 DEF Setting
      <4>2. Confirmable(row.own)
        BY DEF ConfirmedInv, OwnIsConfirmed
      <4>3. QED
        BY <1>4, <4>1, <4>2 DEF Confirmable
    <3>3. QED
      BY <3>1, <3>2 DEF Kept
  <2>3. OwnIsConfirmed'
    <3>1. owned \subseteq owned'
      BY <1>4
    <3>2. \A own : Confirmable(own) => Confirmable(own)'
      BY <3>1 DEF Confirmable
    <3>3. Confirmable(row.own)'
      BY <2>2 DEF Confirmable
    <3>4. \A v \in {row', setting'} \cup fetching' : Confirmable(v.own)'
      BY <1>2, <3>2, <3>3 DEF ConfirmedInv, OwnIsConfirmed
    <3>5. \A q \in saves' : q.edits = "other" \/ q.state = "written" => Confirmable(q.value.own)'
      BY <1>4, <2>1, <3>2, <3>3 DEF ConfirmedInv, OwnIsConfirmed
    <3>6. QED
      BY <3>4, <3>5 DEF OwnIsConfirmed
  <2>4. NothingYet'
    BY <1>2 DEF ConfirmedInv, NothingYet
  <2>5. ASSUME ~mixed PROVE row' = confirmed'
    <3>1. row = confirmed /\ OfRow(r, row)
      BY <2>5 DEF ConfirmedInv, OneEditor
    <3>2. Kept(r) = r.value
      BY <1>1, <3>1 DEF OfRow, Kept, SaveType
    <3>3. row \in Setting
      BY DEF ConfirmedInv, SettingsTypes, SettingsTypeOK
    <3>4. CASE r.edits = "own"
      <4>1. confirmed' = [row EXCEPT !.own = r.value.own] /\ r.value.other = row.other
        BY <1>1, <1>4, <3>1, <3>4 DEF OfRow
      <4>2. [row EXCEPT !.own = r.value.own] = [own |-> r.value.own, other |-> row.other]
        BY <3>3, SettingFacts
      <4>3. r.value = [own |-> r.value.own, other |-> r.value.other]
        BY <1>1, SettingFacts
      <4>4. QED
        BY <1>4, <3>2, <4>1, <4>2, <4>3
    <3>5. CASE r.edits = "other"
      <4>1. confirmed' = [own |-> r.value.own, other |-> r.value.other]
        BY <1>1, <1>4, <3>1, <3>5 DEF OfRow
      <4>2. r.value = [own |-> r.value.own, other |-> r.value.other]
        BY <1>1, SettingFacts
      <4>3. QED
        BY <1>4, <3>2, <4>1, <4>2
    <3>6. QED
      BY <1>1, <3>4, <3>5 DEF SaveType
  <2>6. ~mixed => saves = {r} /\ saves' = {written} /\ fetched /\ fetching = {}
    BY <1>4 DEF ConfirmedInv, OneEditor
  <2>7. OfRow(written, row')
    <3>1. written.state = "written" /\ written.value = row'
      BY <1>4, <2>1
    <3>2. QED
      BY <3>1 DEF OfRow
  <2>8. OneEditor'
    BY <1>2, <2>1, <2>5, <2>6, <2>7 DEF ConfirmedInv, OneEditor
  <2>9. QED
    BY <2>3, <2>4, <2>8 DEF ConfirmedInv
<1>5. QED
  BY <1>3, <1>4 DEF Write

LEMMA AnswerConfirmed ==
    ASSUME ConfirmedInv, SettingsTypes', NEW r \in saves, SaveLost(r) \/ Saved(r)
    PROVE  ConfirmedInv'
PROOF
<1>1. CASE SaveLost(r)
  <2>1. /\ saves' = saves \ {r} /\ mixed' = (mixed \/ r.state = "written")
        /\ UNCHANGED <<section, row, setting, arrived, fetched, fetching, mounted, form, synced, saved, confirmed, owned>>
    BY <1>1 DEF SaveLost
  <2>2. NothingYet' /\ OwnIsConfirmed'
    BY <2>1 DEF ConfirmedInv, NothingYet, OwnIsConfirmed, Confirmable
  <2>3. ~mixed' => r.state = "sent" /\ saves = {r} /\ saves' = {}
    BY <2>1 DEF ConfirmedInv, OneEditor, SettingsTypes, SaveType
  <2>4. OneEditor'
    BY <2>1, <2>3 DEF ConfirmedInv, OneEditor
  <2>5. QED
    BY <2>2, <2>4 DEF ConfirmedInv
<1>2. CASE Saved(r)
  <2> DEFINE draft == IF form.own.ref \in r.value.other \cup {NoItem} \/ r.edits = "own"
                      THEN form ELSE [form EXCEPT !.own.ref = NoItem]
  <2>1. form \in Setting /\ r.value \in Setting
    BY DEF ConfirmedInv, SettingsTypes, SettingsTypeOK
  <2>2. Adopt(r.value, draft)
    BY <1>2 DEF Saved
  <2>3. draft \in Setting
    BY <2>1 DEF Setting, Own
  <2>4. setting' = r.value /\ arrived' = TRUE /\ (mounted => form'.other = setting'.other)
    BY <2>1, <2>2, <2>3, AdoptKeepsOther DEF ConfirmedInv, OneEditor
  <2>5. /\ r.state = "written" /\ saves' = saves \ {r}
        /\ UNCHANGED <<section, row, fetched, fetching, mounted, saved, confirmed, owned, mixed>>
    BY <1>2 DEF Saved
  <2>6. NothingYet' /\ OwnIsConfirmed'
    BY <2>4, <2>5 DEF ConfirmedInv, NothingYet, OwnIsConfirmed, Confirmable
  <2>7. ~mixed => r.value = row
    BY <2>5 DEF ConfirmedInv, OneEditor, OfRow
  <2>8. OneEditor'
    BY <2>4, <2>5, <2>7 DEF ConfirmedInv, OneEditor
  <2>9. QED
    BY <2>6, <2>8 DEF ConfirmedInv
<1>3. QED
  BY <1>1, <1>2

LEMMA ConfirmedInvariant == SettingsSpec => []ConfirmedInv
PROOF
<1>1. ConfirmedInv /\ [SettingsNext]_settingsVars => ConfirmedInv'
  <2> SUFFICES ASSUME ConfirmedInv, [SettingsNext]_settingsVars PROVE ConfirmedInv'
    OBVIOUS
  <2>1. SettingsTypes'
    BY SettingsStep DEF ConfirmedInv
  <2>2. CASE UNCHANGED settingsVars
    BY <2>1, <2>2 DEF settingsVars, ConfirmedInv, NothingYet, OwnIsConfirmed, Confirmable, OneEditor
  <2>3. QED
    BY <2>1, <2>2, FetchConfirmed, PageConfirmed, SaveConfirmed, WriteConfirmed, AnswerConfirmed DEF SettingsNext
<1>2. QED
  BY <1>1, ConfirmedInitially, PTL DEF SettingsSpec

\* Whatever the editors of a setting overlap in, its own part is one that its
\* form was saved with; and while each save waited for an up to date copy, the
\* row is what the confirmed edits alone make of it, for any providers and texts
\* and any number of saves.
THEOREM SettingsHoldWhatWasConfirmed == SettingsSpec => []SettingHoldsWhatWasConfirmed
PROOF
<1>1. ConfirmedInv => SettingHoldsWhatWasConfirmed
  BY DEF ConfirmedInv, OwnIsConfirmed, Confirmable, OneEditor, SettingHoldsWhatWasConfirmed
<1>2. QED
  BY <1>1, ConfirmedInvariant, PTL

-----------------------------------------------------------------------------
\* The parts share no state: each behaviour of the whole is one of every part,
\* and the variables of all of them keep their types.
THEOREM AccountTypesCorrect == AccountSpec => []AccountTypeOK
PROOF
<1>1. AccountInit => part \in Parts /\ SessionInit /\ OAuthInit /\ DialogInit /\ SettingsInit /\ PreferencesInit /\ FiltersInit
  BY DEF AccountInit
<1>2. [AccountNext]_accountVars =>
         /\ part' = part
         /\ [SessionNext]_sessionVars /\ [OAuthNext]_oauthVars /\ [DialogNext]_dialogVars
         /\ [SettingsNext]_settingsVars /\ [PreferencesNext]_preferenceVars /\ [FiltersNext]_filterVars
  BY DEF AccountNext, accountVars
<1>3. part \in Parts /\ part' = part => (part \in Parts)'
  OBVIOUS
<1>4. AccountSpec => /\ [](part \in Parts)
                     /\ SessionSpec /\ OAuthSpec /\ DialogSpec /\ SettingsSpec /\ PreferencesSpec /\ FiltersSpec
  BY <1>1, <1>2, <1>3, PTL
     DEF AccountSpec, SessionSpec, OAuthSpec, DialogSpec, SettingsSpec, PreferencesSpec, FiltersSpec
<1>5. (part \in Parts) /\ SessionTypeOK /\ OAuthTypeOK /\ DialogTypeOK /\ SettingsTypeOK /\ PreferencesTypeOK /\ FiltersTypeOK
         => AccountTypeOK
  BY DEF AccountTypeOK
<1>6. QED
  BY <1>4, <1>5, SessionTypesHold, OAuthTypesCorrect, DialogTypesCorrect, SettingsTypesCorrect, PreferenceTypesCorrect,
     FilterTypesCorrect, PTL
=============================================================================
