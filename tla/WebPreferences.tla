--------------------------- MODULE WebPreferences ---------------------------
(***************************************************************************)
(* The preferences of a user: theme, language and the visibility of new    *)
(* memos.  They are fields of one row on the server, copied into           *)
(* AuthContext; theme and language are also applied to the page and kept   *)
(* in its localStorage, where the next page finds them before anything has *)
(* been fetched.  A choice is applied at once and sent alone, with a mask; *)
(* the copy follows only when the settings are fetched again.              *)
(***************************************************************************)
EXTENDS Naturals

CONSTANTS
    Themes, Locales, Visibilities,  \* what may be chosen; "system" is a theme that follows the device
    Unset,                          \* a field without a value
    NoRow,                          \* the row before anything was chosen
    MaxChoices,                     \* bound: choices made on this page
    MaxEvents                       \* bound: what else happens: choices on another device, the
                                    \* device turning dark or light, the page loaded again

ASSUME PreferencesAssumption ==
    /\ "system" \in Themes /\ "en" \in Locales /\ "PRIVATE" \in Visibilities
    /\ Unset \notin Themes \cup Locales \cup Visibilities
    /\ {MaxChoices, MaxEvents} \subseteq Nat

VARIABLES
    general,            \* the GENERAL row of the user on the server
    screen,             \* loading, or shown to a guest or to the user
    userGeneralSetting, \* the copy in AuthContext
    applied,            \* theme and language as applied and kept in localStorage
    dark,               \* prefers-color-scheme
    shown,              \* the colours that loadTheme resolved the theme to
    listening,          \* whether a change of the device's colours is listened to
    updates,            \* updates under way
    refetches,          \* the settings being fetched
    latest,             \* the number of the choice that each menu made last; 0 when it was left since
    chosen,             \* history: what was chosen last, anywhere, since the page was loaded
    crossed,            \* history: choices overlapped, failed, or were left before the answer
    choices, events

preferenceVars == <<general, screen, userGeneralSetting, applied, dark, shown, listening, updates, refetches,
                    latest, chosen, crossed, choices, events>>

\* The user menu is always on the page, the settings page is not.
Menus == {"UserMenu", "PreferencesSection"}

General == [theme : Themes \cup {Unset}, locale : Locales \cup {Unset}, memoVisibility : Visibilities \cup {Unset}]
ASSUME RowAssumption == NoRow \notin General

EmptyGeneral == [theme |-> Unset, locale |-> Unset, memoVisibility |-> Unset]
getDefaultUserGeneralSetting == [EmptyGeneral EXCEPT !.locale = "en", !.memoVisibility = "PRIVATE"]

Fields == DOMAIN EmptyGeneral
Local == {"theme", "locale"}
Values(f) == CASE f = "theme" -> Themes [] f = "locale" -> Locales [] OTHER -> Visibilities

\* The row as UpdateUserSetting and ListUserSettings see it
Stored == IF general = NoRow THEN EmptyGeneral ELSE general
Listed == IF general = NoRow THEN getDefaultUserGeneralSetting ELSE general

resolveTheme(theme) == IF theme = "system" THEN [follows |-> TRUE, dark |-> dark] ELSE [follows |-> FALSE, theme |-> theme]

\* loadTheme and loadLocale
LoadPreference(f, v) ==
    /\ applied' = [applied EXCEPT ![f] = v]
    /\ shown' = IF f = "theme" THEN resolveTheme(v) ELSE shown

\* getThemeWithFallback, getLocaleWithFallback
WithFallback(v, f) == IF v[f] = Unset THEN applied[f] ELSE v[f]

\* Mutation of ListenerFor: the listener is set up on every change and not cleaned up.
ListenerKept(v, changed) == listening \/ (changed /\ WithFallback(v, "theme") = "system")

\* The second effect of useUserTheme, which runs when the copy's theme has changed
ListenerFor(v, changed) == IF changed THEN WithFallback(v, "theme") = "system" ELSE listening

\* useUserTheme and useUserLocale, on a copy that comes
Adopted(v) ==
    LET Changed(f) == userGeneralSetting = NoRow \/ userGeneralSetting[f] # v[f]
        theme == WithFallback(v, "theme")
    IN  /\ userGeneralSetting' = v
        /\ applied' = [f \in Local |-> IF Changed(f) THEN WithFallback(v, f) ELSE applied[f]]
        /\ shown' = IF Changed("theme") THEN resolveTheme(theme) ELSE shown
        /\ listening' = ListenerFor(v, Changed("theme"))

\* applyThemeEarly, applyLocaleEarly
LoadPage ==
    /\ screen # "loading" /\ events < MaxEvents
    /\ events' = events + 1
    /\ screen' = "loading" /\ userGeneralSetting' = NoRow /\ listening' = FALSE
    /\ shown' = resolveTheme(applied.theme)
    /\ updates' = {[u EXCEPT !.menu = "none"] : u \in updates} /\ refetches' = {} /\ latest' = [m \in Menus |-> 0]
    /\ crossed' = (updates # {}) /\ chosen' = IF updates = {} THEN Stored ELSE chosen
    /\ UNCHANGED <<general, applied, dark, choices>>

\* initialize finds no one signed in.
ShowGuest ==
    /\ screen = "loading" /\ refetches = {}
    /\ screen' = "guest"
    /\ listening' = (applied.theme = "system")
    /\ UNCHANGED <<general, userGeneralSetting, applied, dark, shown, updates, refetches, latest, chosen, crossed,
                   choices, events>>

\* initialize, or a sign-in: the settings are fetched.
Initialize ==
    /\ screen # "user" /\ refetches = {}
    /\ refetches' = {[number |-> 0, copy |-> NoRow]}
    /\ UNCHANGED <<general, screen, userGeneralSetting, applied, dark, shown, listening, updates, latest, chosen, crossed,
                   choices, events>>

\* The ThemeSelect and LocaleSelect of AuthFooter
ChooseAsGuest(f, v) ==
    /\ screen = "guest" /\ refetches = {} /\ choices < MaxChoices
    /\ choices' = choices + 1
    /\ LoadPreference(f, v)
    /\ UNCHANGED <<general, screen, userGeneralSetting, dark, listening, updates, refetches, latest, chosen, crossed, events>>

\* handleThemeChange, handleLocaleChange and their like; useUpdateUserGeneralSetting
ChoosePreference(m, f, v) ==
    /\ screen = "user" /\ choices < MaxChoices
    /\ m = "UserMenu" => f \in Local
    /\ choices' = choices + 1
    /\ IF f \in Local THEN LoadPreference(f, v) ELSE UNCHANGED <<applied, shown>>
    /\ updates' = updates \cup {[number |-> choices', menu |-> m, field |-> f, value |-> v, read |-> NoRow, state |-> "sent"]}
    /\ latest' = [latest EXCEPT ![m] = choices']
    /\ chosen' = [chosen EXCEPT ![f] = v]
    /\ crossed' = (crossed \/ updates # {} \/ refetches # {})
    /\ UNCHANGED <<general, screen, userGeneralSetting, dark, listening, refetches, events>>

\* UpdateUserSetting: the fields of the mask, over the row as it was read
Merge(u) == [u.read EXCEPT ![u.field] = u.value]

ReadRow(u) ==
    /\ u.state = "sent"
    /\ updates' = (updates \ {u}) \cup {[u EXCEPT !.state = "read", !.read = Stored]}
    /\ UNCHANGED <<general, screen, userGeneralSetting, applied, dark, shown, listening, refetches, latest, chosen, crossed,
                   choices, events>>

\* The error of GetUserSetting is ignored: a row that could not be read counts as
\* empty, and the fields that the mask does not name are wiped.
ReadRowFails(u) ==
    /\ u.state = "sent"
    /\ updates' = (updates \ {u}) \cup {[u EXCEPT !.state = "read", !.read = EmptyGeneral]}
    /\ crossed' = TRUE
    /\ UNCHANGED <<general, screen, userGeneralSetting, applied, dark, shown, listening, refetches, latest, chosen,
                   choices, events>>

WriteRow(u) ==
    /\ u.state = "read"
    /\ general' = Merge(u)
    /\ updates' = (updates \ {u}) \cup {[u EXCEPT !.state = "written"]}
    /\ UNCHANGED <<screen, userGeneralSetting, applied, dark, shown, listening, refetches, latest, chosen, crossed,
                   choices, events>>

\* The callback of a mutate call runs only for the last call of a menu that is
\* still there; it is what fetches the settings again.
UpdateAnswered(u) ==
    /\ u.state = "written"
    /\ updates' = updates \ {u}
    /\ refetches' = IF u.menu \in Menus /\ latest[u.menu] = u.number
                    THEN refetches \cup {[number |-> u.number, copy |-> NoRow]} ELSE refetches
    /\ UNCHANGED <<general, screen, userGeneralSetting, applied, dark, shown, listening, latest, chosen, crossed,
                   choices, events>>

\* Nothing takes back what was applied.
UpdateFails(u) ==
    /\ updates' = updates \ {u}
    /\ crossed' = TRUE
    /\ chosen' = IF u.state = "written" THEN chosen ELSE [chosen EXCEPT ![u.field] = Stored[u.field]]
    /\ UNCHANGED <<general, screen, userGeneralSetting, applied, dark, shown, listening, refetches, latest,
                   choices, events>>

ReadForPage(r) ==
    /\ r.copy = NoRow
    /\ refetches' = (refetches \ {r}) \cup {[r EXCEPT !.copy = Listed]}
    /\ UNCHANGED <<general, screen, userGeneralSetting, applied, dark, shown, listening, updates, latest, chosen, crossed,
                   choices, events>>

\* fetchUserSettings answers initialize or refetchSettings.
SettingsArrive(r) ==
    /\ r.copy # NoRow
    /\ refetches' = refetches \ {r}
    /\ screen' = "user"
    /\ Adopted(r.copy)
    /\ UNCHANGED <<general, dark, updates, latest, chosen, crossed, choices, events>>

RefetchFails(r) ==
    /\ refetches' = refetches \ {r}
    /\ crossed' = (crossed \/ screen = "user")
    /\ UNCHANGED <<general, screen, userGeneralSetting, applied, dark, shown, listening, updates, latest, chosen,
                   choices, events>>

\* The callbacks of a menu that was left do not run.
LeaveSettings ==
    /\ latest["PreferencesSection"] # 0
    /\ latest' = [latest EXCEPT !["PreferencesSection"] = 0]
    /\ crossed' = (crossed \/ \E u \in updates : u.menu = "PreferencesSection")
    /\ UNCHANGED <<general, screen, userGeneralSetting, applied, dark, shown, listening, updates, refetches, chosen,
                   choices, events>>

ChooseElsewhere(f, v) ==
    /\ events < MaxEvents
    /\ events' = events + 1
    /\ general' = [Stored EXCEPT ![f] = v]
    /\ chosen' = [chosen EXCEPT ![f] = v]
    /\ crossed' = (crossed \/ updates # {} \/ (screen = "user" /\ refetches # {}))
    /\ UNCHANGED <<screen, userGeneralSetting, applied, dark, shown, listening, updates, refetches, latest, choices>>

\* The listener loads the theme that it was set up for, "system".
TurnDarkOrLight ==
    /\ events < MaxEvents
    /\ events' = events + 1
    /\ dark' = ~dark
    /\ applied' = IF listening THEN [applied EXCEPT !.theme = "system"] ELSE applied
    /\ shown' = IF listening THEN [follows |-> TRUE, dark |-> dark'] ELSE shown
    /\ UNCHANGED <<general, screen, userGeneralSetting, listening, updates, refetches, latest, chosen, crossed,
                   choices>>

PreferencesInit ==
    /\ general = NoRow
    /\ screen = "loading" /\ userGeneralSetting = NoRow /\ listening = FALSE
    /\ dark = FALSE /\ applied = [theme |-> "system", locale |-> "en"] /\ shown = resolveTheme("system")
    /\ updates = {} /\ refetches = {} /\ latest = [m \in Menus |-> 0]
    /\ chosen = EmptyGeneral /\ crossed = FALSE
    /\ choices = 0 /\ events = 0

PreferencesNext ==
    \/ LoadPage \/ ShowGuest \/ Initialize \/ LeaveSettings \/ TurnDarkOrLight
    \/ \E f \in Local : \E v \in Values(f) : ChooseAsGuest(f, v)
    \/ \E m \in Menus, f \in Fields : \E v \in Values(f) : ChoosePreference(m, f, v)
    \/ \E f \in Fields : \E v \in Values(f) : ChooseElsewhere(f, v)
    \/ \E u \in updates : ReadRow(u) \/ ReadRowFails(u) \/ WriteRow(u) \/ UpdateAnswered(u) \/ UpdateFails(u)
    \/ \E r \in refetches : ReadForPage(r) \/ SettingsArrive(r) \/ RefetchFails(r)

PreferencesSpec == PreferencesInit /\ [][PreferencesNext]_preferenceVars

-----------------------------------------------------------------------------
PreferencesTypeOK ==
    /\ general \in General \cup {NoRow} /\ userGeneralSetting \in General \cup {NoRow}
    /\ screen \in {"loading", "guest", "user"}
    /\ applied \in [theme : Themes, locale : Locales] /\ chosen \in General
    /\ {dark, listening, crossed} \subseteq BOOLEAN
    /\ \A u \in updates : u.read \in General \cup {NoRow} /\ u.value \in Values(u.field)
    /\ \A r \in refetches : r.copy \in General \cup {NoRow}

\* "Priority: User setting -> localStorage -> system preference": once nothing is
\* under way, and unless choices overlapped or failed since the page was loaded,
\* the server holds what was chosen last for each field, wherever that was; the
\* page is in the theme and the language that its copy says; and the theme that
\* follows the device does.
PreferencesAgree ==
    screen = "user" /\ updates = {} /\ refetches = {} /\ ~crossed =>
        /\ \A f \in Fields : chosen[f] # Unset => Stored[f] = chosen[f]
        /\ \A f \in Local : userGeneralSetting[f] # Unset => applied[f] = userGeneralSetting[f]
        /\ shown = resolveTheme(applied.theme)
=============================================================================
