---------------------------- MODULE MCWebAccount ----------------------------
(* Instances of the modules about the account, the settings and the page.    *)
(* They share no state: a behaviour exercises one of them, and the others    *)
(* stay as they are at first.                                                *)
EXTENDS WebSession, WebOAuth, WebDialogs, WebSettings, WebPreferences, WebFilters, TLC

VARIABLE part   \* which of them

Parts == {"session", "oauth", "dialog", "settings", "preferences", "filters"}

\* Two tabs that do one thing at a time, or one tab that does two
TwoTabsOrTwoTasks == {(1 :> {1}) @@ (2 :> {1}), (1 :> {1, 2}) @@ (2 :> {})}

TokenSymmetry == Permutations(Tokens)

AccountInit ==
    /\ part \in Parts
    /\ SessionInit /\ OAuthInit /\ DialogInit /\ SettingsInit /\ PreferencesInit /\ FiltersInit
    /\ part # "session" => \A t \in Tabs : DOMAIN task[t] = {1}
    /\ part # "filters" => url = [path |-> "home", query |-> NoQuery]

AccountNext ==
    /\ \/ /\ part = "session" /\ SessionNext
          /\ UNCHANGED <<oauthVars, dialogVars, settingsVars, preferenceVars, filterVars>>
       \/ /\ part = "oauth" /\ OAuthNext
          /\ UNCHANGED <<sessionVars, dialogVars, settingsVars, preferenceVars, filterVars>>
       \/ /\ part = "dialog" /\ DialogNext
          /\ UNCHANGED <<sessionVars, oauthVars, settingsVars, preferenceVars, filterVars>>
       \/ /\ part = "settings" /\ SettingsNext
          /\ UNCHANGED <<sessionVars, oauthVars, dialogVars, preferenceVars, filterVars>>
       \/ /\ part = "preferences" /\ PreferencesNext
          /\ UNCHANGED <<sessionVars, oauthVars, dialogVars, settingsVars, filterVars>>
       \/ /\ part = "filters" /\ FiltersNext
          /\ UNCHANGED <<sessionVars, oauthVars, dialogVars, settingsVars, preferenceVars>>
    /\ UNCHANGED part

accountVars == <<part, sessionVars, oauthVars, dialogVars, settingsVars, preferenceVars, filterVars>>

AccountSpec == AccountInit /\ [][AccountNext]_accountVars

\* The variables of each part have their types.
AccountTypeOK ==
    /\ part \in Parts
    /\ SessionTypeOK /\ OAuthTypeOK /\ DialogTypeOK /\ SettingsTypeOK /\ PreferencesTypeOK /\ FiltersTypeOK
=============================================================================
