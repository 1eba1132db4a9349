---------------------------- MODULE WebSettings ----------------------------
(***************************************************************************)
(* The instance settings as the administrator edits them.  A setting is    *)
(* one row on the server, written whole; InstanceContext keeps the copy    *)
(* that was last fetched or answered, and a section keeps a draft of it.   *)
(* Two editors may share a setting: the section's own form edits one part, *)
(* a dialog beside it the other (the instance's profile; the providers of  *)
(* AI), so that each must send the other's part as it stands.              *)
(***************************************************************************)
EXTENDS Naturals, FiniteSets

CONSTANTS
    Items,          \* what the other part may hold: the profile, the providers
    NoItem,         \* reference to none of them
    Texts,          \* what the own part may say; Blank says nothing
    Blank,
    MaxSaves        \* bound: saves sent

ASSUME SettingsAssumption ==
    NoItem \notin Items /\ Blank \in Texts /\ MaxSaves \in Nat

VARIABLES
    section,        \* the section that the behaviour is about
    row,            \* the setting on the server
    setting,        \* its copy in InstanceContext
    arrived,        \* whether that is a copy, and not yet the default
    fetched,        \* fetchedSettingsRef: whether it has been, or is being, asked for
    fetching,       \* the answers to come
    mounted,        \* whether the section is on the screen
    form,           \* the draft of the section
    synced,         \* lastSyncedTranscription
    saves,          \* saves under way
    saved,          \* bound: how many were sent
    confirmed,      \* history: the row as the confirmed edits alone would leave it
    owned,          \* history: the own parts that were confirmed
    mixed           \* history: a save was sent before the copy was up to date

settingsVars == <<section, row, setting, arrived, fetched, fetching, mounted, form, synced, saves, saved,
                  confirmed, owned, mixed>>

Own == [ref : Items \cup {NoItem}, text : Texts]
Setting == [own : Own, other : SUBSET Items]
EmptyOwn == [ref |-> NoItem, text |-> Blank]

\* What create(...Schema, {}) makes before the setting has come
Default == [own |-> EmptyOwn, other |-> {}]

\* at: when the setting is fetched, with the application or by the settings page
\* other: what a dialog edits beside the form
\* sync: when the draft is set anew, with every new copy or with a changed one
\* blank: whether the form may be saved without a text
Section(at, other, sync, blank) == [at |-> at, other |-> other, sync |-> sync, blank |-> blank]

InstanceSection == Section("start", "profile", "every copy", TRUE)
MemoRelatedSettings == Section("start", "none", "every copy", FALSE)
TagsSection == Section("start", "none", "every copy", TRUE)
StorageSection == Section("page", "none", "every copy", FALSE)
NotificationSection == Section("page", "none", "every copy", FALSE)
AISection == Section("page", "providers", "a change", TRUE)

Sections == {InstanceSection, MemoRelatedSettings, TagsSection, StorageSection, NotificationSection, AISection}

NoSection == Section("none", "none", "every copy", TRUE)

\* What the row may be before
Possible(s) == {v \in Setting :
    /\ v.own.ref \in v.other \cup {NoItem}
    /\ s.other # "providers" => v.own.ref = NoItem
    /\ CASE s.other = "none" -> v.other = {}
         [] s.other = "profile" -> Cardinality(v.other) = 1
         [] OTHER -> TRUE}

Enter(s) ==
    /\ section = NoSection
    /\ section' = s
    /\ \E v \in Possible(s) : row' = v /\ confirmed' = v /\ owned' = {v.own, EmptyOwn}
    /\ UNCHANGED <<setting, arrived, fetched, fetching, mounted, form, synced, saves, saved, mixed>>

\* initialize, fetchSettings and fetchSetting ask once; the answer is the row
\* as it is when the server reads it.  What the application has failed to fetch
\* at its start is asked for again after a save only.
Fetch ==
    /\ section # NoSection
    /\ ~fetched
    /\ section.at = "start" /\ mounted => arrived
    /\ fetched' = TRUE
    /\ fetching' = {row}
    /\ UNCHANGED <<section, row, setting, arrived, mounted, form, synced, saves, saved, confirmed, owned, mixed>>

FetchLost ==
    /\ fetching # {}
    /\ fetching' = {}
    /\ fetched' = FALSE
    /\ UNCHANGED <<section, row, setting, arrived, mounted, form, synced, saves, saved, confirmed, owned, mixed>>

\* Mutation of Sync: the transcription follows every copy.
SyncEveryCopy(v, f) == v

\* The effects of a section that run when the copy is replaced by v, on the
\* draft f.  The transcription follows only a change of its own.
Sync(v, f) ==
    IF section.sync = "every copy" \/ synced # v.own THEN v ELSE [own |-> f.own, other |-> v.other]

Adopt(v, f) ==
    /\ setting' = v /\ arrived' = TRUE
    /\ IF mounted THEN form' = Sync(v, f) /\ synced' = v.own ELSE UNCHANGED <<form, synced>>

FetchArrives ==
    /\ \E v \in fetching : Adopt(v, form)
    /\ fetching' = {}
    /\ UNCHANGED <<section, row, fetched, mounted, saves, saved, confirmed, owned, mixed>>

\* The section is chosen in the menu of the page, or left.
MountSection ==
    /\ section # NoSection /\ ~mounted
    /\ section.at = "start" => fetching = {}
    /\ mounted' = TRUE /\ form' = setting /\ synced' = setting.own
    /\ UNCHANGED <<section, row, setting, arrived, fetched, fetching, saves, saved, confirmed, owned, mixed>>

UnmountSection ==
    /\ mounted /\ mounted' = FALSE
    /\ form' = Default /\ synced' = EmptyOwn
    /\ UNCHANGED <<section, row, setting, arrived, fetched, fetching, saves, saved, confirmed, owned, mixed>>

\* What the form of a transcription lets be chosen: its fields are disabled while
\* it has no provider.  Other forms refer to nothing.
Editable(own) ==
    /\ own.ref # form.own.ref => section.other = "providers" /\ own.ref \in form.other \cup {NoItem}
    /\ own.text # form.own.text => section.other # "providers" \/ form.own.ref # NoItem

\* The fields of a section's form
Edit(own) ==
    /\ mounted /\ own # form.own
    /\ Editable(own)
    /\ form' = [form EXCEPT !.own = own]
    /\ UNCHANGED <<section, row, setting, arrived, fetched, fetching, mounted, synced, saves, saved, confirmed, owned, mixed>>

\* useInstanceSettingUpdater, updateSetting: v is sent; what was to be changed
\* is noted.
Save(v, edits) ==
    /\ saved < MaxSaves
    /\ saved' = saved + 1
    /\ saves' = saves \cup {[number |-> saved, value |-> v, edits |-> edits, held |-> arrived, state |-> "sent"]}
    /\ mixed' = (mixed \/ saves # {} \/ fetching # {} \/ ~fetched)
    /\ UNCHANGED <<section, row, setting, arrived, fetched, fetching, mounted, form, synced, confirmed, owned>>

\* Mutation of Carried: what the form says goes along.
CarriedDraft(other) == IF setting.own.ref \in other \cup {NoItem} THEN form.own ELSE EmptyOwn

\* The save button of a section
Saveable ==
    /\ form.own # setting.own
    /\ section.blank \/ form.own.text # Blank
    /\ form.own.ref \in form.other \cup {NoItem}

\* handleSaveGeneralSetting and its like; handleSaveTranscription sends the
\* providers of the section, which follow every copy.
SaveForm ==
    /\ mounted
    /\ Saveable
    /\ Save(form, "own")

\* The own part that goes with a save of the other; deleting the provider of
\* the transcription clears it.
Carried(other) == IF setting.own.ref \in other \cup {NoItem} THEN setting.own ELSE EmptyOwn

\* UpdateCustomizedProfileDialog's save; handleSaveProvider with a provider more,
\* handleDeleteProvider with one less.
SaveOther(other) ==
    /\ mounted
    /\ CASE section.other = "profile" -> Cardinality(other) = 1
         [] section.other = "providers" -> Cardinality(setting.other \ other) + Cardinality(other \ setting.other) = 1
         [] OTHER -> FALSE
    /\ Save([own |-> Carried(other), other |-> other], "other")

\* A transcription that is left out keeps the one there is.
Kept(r) == IF r.edits = "other" /\ section.other = "providers" /\ ~r.held
           THEN [r.value EXCEPT !.own = row.own] ELSE r.value

\* UpdateInstanceSetting on the server refuses a transcription by a provider
\* that is not among those sent.
Write(r) ==
    /\ r.state = "sent"
    /\ IF Kept(r).own.ref \in r.value.other \cup {NoItem}
       THEN /\ row' = Kept(r)
            /\ saves' = (saves \ {r}) \cup {[r EXCEPT !.state = "written", !.value = Kept(r)]}
            /\ confirmed' = IF r.edits = "own" THEN [confirmed EXCEPT !.own = r.value.own]
                            ELSE [other |-> r.value.other,
                                  own |-> IF confirmed.own.ref \in r.value.other \cup {NoItem}
                                          THEN confirmed.own ELSE EmptyOwn]
            /\ owned' = IF r.edits = "own" THEN owned \cup {r.value.own} ELSE owned
       ELSE /\ saves' = saves \ {r}
            /\ UNCHANGED <<row, confirmed, owned>>
    /\ UNCHANGED <<section, setting, arrived, fetched, fetching, mounted, form, synced, saved, mixed>>

SaveLost(r) ==
    /\ saves' = saves \ {r}
    /\ mixed' = (mixed \/ r.state = "written")
    /\ UNCHANGED <<section, row, setting, arrived, fetched, fetching, mounted, form, synced, saved, confirmed, owned>>

\* The answer becomes the copy.  A deletion takes the provider out of the draft
\* of the transcription before the effects run.
Saved(r) ==
    /\ r.state = "written"
    /\ saves' = saves \ {r}
    /\ Adopt(r.value, IF form.own.ref \in r.value.other \cup {NoItem} \/ r.edits = "own"
                      THEN form ELSE [form EXCEPT !.own.ref = NoItem])
    /\ UNCHANGED <<section, row, fetched, fetching, mounted, saved, confirmed, owned, mixed>>

SettingsInit ==
    /\ section = NoSection
    /\ row = Default /\ setting = Default /\ arrived = FALSE /\ confirmed = Default
    /\ fetched = FALSE /\ fetching = {}
    /\ mounted = FALSE /\ form = Default /\ synced = EmptyOwn
    /\ saves = {} /\ saved = 0
    /\ owned = {} /\ mixed = FALSE

SettingsNext ==
    \/ \E s \in Sections : Enter(s)
    \/ Fetch \/ FetchLost \/ FetchArrives
    \/ MountSection \/ UnmountSection
    \/ \E own \in Own : Edit(own)
    \/ SaveForm
    \/ \E other \in SUBSET Items : SaveOther(other)
    \/ \E r \in saves : Write(r) \/ SaveLost(r) \/ Saved(r)

SettingsSpec == SettingsInit /\ [][SettingsNext]_settingsVars

-----------------------------------------------------------------------------
SettingsTypeOK ==
    /\ section \in Sections \cup {NoSection}
    /\ {row, setting, confirmed, form} \subseteq Setting /\ fetching \subseteq Setting
    /\ synced \in Own /\ owned \subseteq Own
    /\ {arrived, fetched, mounted, mixed} \subseteq BOOLEAN
    /\ saved \in 0..MaxSaves /\ \A r \in saves : r.value \in Setting

\* "Provider operations pass originalSetting.transcription so an in-progress
\* transcription draft is never accidentally committed": whatever the editors
\* of a setting overlap in, its own part is one that its form was saved with;
\* and as long as each save waited for an up to date copy, the row is what the
\* confirmed edits alone make of it, so that neither editor undoes the other.
SettingHoldsWhatWasConfirmed ==
    /\ row.own \in owned \cup {EmptyOwn}
    /\ ~mixed => row = confirmed

\* "This prevents provider-side saves ... from wiping an in-progress
\* transcription draft": what was typed into the transcription changes only by
\* typing, or with a transcription that another text has on the server.
DraftSurvivesOtherSaves ==
    [][section.sync = "a change" /\ mounted /\ mounted' /\ synced' = synced
         /\ setting' # setting => form'.own.text = form.own.text]_settingsVars
=============================================================================
