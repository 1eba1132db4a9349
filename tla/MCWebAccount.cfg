SPECIFICATION AccountSpec
CONSTANTS
    Tabs = {1, 2}
    Layouts <- TwoTabsOrTwoTasks
    Life = 2
    RequestBuffer = 1
    FocusBuffer = 1
    Tokens = {k1, k2, k3, k4}
    NoToken = NoToken
    Flows = {f1, f2}
    Users = {a, b}
    Nobody = Nobody
    StateExpiry = 2
    Targets = {t1, t2}
    NoTarget = NoTarget
    MaxOpenings = 3
    MaxRequests = 3
    Items = {p, q}
    NoItem = NoItem
    Texts = {0, 1}
    Blank = 0
    MaxSaves = 2
    Themes = {"system", "paper"}
    Locales = {"en"}
    Visibilities = {"PRIVATE"}
    Unset = Unset
    NoRow = NoRow
    MaxChoices = 2
    MaxEvents = 1
    Lists = {"home", "explore"}
    Details = {"memo"}
    Tags = {"a", "b"}
    Words = {"w"}
    Dates = {"d"}
    Spellings = {"other"}
    ShortcutIds = {"s"}
    NoShortcut = NoShortcut
    MaxActions = 3
SYMMETRY TokenSymmetry
INVARIANTS AccountTypeOK SignOutSticks OAuthCompletesWhatWasStarted 
    SettingHoldsWhatWasConfirmed PreferencesAgree UrlSaysTheFilters
PROPERTIES NoNeedlessSignIn GuestDataOnlyAfterFailure DraftSurvivesOtherSaves
CHECK_DEADLOCK FALSE
