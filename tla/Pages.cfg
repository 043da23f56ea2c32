SPECIFICATION FairSpec
CONSTANTS
    Loaders = {"4u", "3"}
    ads = ads
    track = track
    Cats = {ads}
    Cookies = {track}
    Stuck = {}
    StyleCats = {}
    Slots = {1}
    Ids = {"i1"}
    Tabs = {"t1", "t2"}
    RequireVerification = TRUE
    MaxFills = 2
    MaxEdits = 2
    MaxIds = 2
    MaxSubs = 2
    MaxWaiting = 2
    MaxCards = 2
    MaxEmails = 2
    Timers = {1, 2}
    Requests = {1, 2}
    Boxes = {"service"}
    MaxAnswers = 3
    Langs = {"hi", "mr"}
    MaxChoices = 3
INVARIANTS
    
    ToldIsKept
    OneIdPerForm
    
    AnswersKept
    LatestLanguageShown
PROPERTIES
    DeclinedCookiesGo
    QueueDrains
    CooldownEnds
CHECK_DEADLOCK FALSE
