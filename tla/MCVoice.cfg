CONSTANTS
    host = host
    ann = ann
    bob = bob
    c1 = c1
    c2 = c2
    Members <- MCMembers
    Channels = {c1, c2}
    Pings = {p1}
    RoleSets <- MCRoleSets
    HasStock = {ann}
    InVoiceAtStart <- MCInVoiceAtStart
    Itinerary <- MCItinerary
    Unseen <- MCUnseen
    Hosts = {host}
    Handlers = {h1, h2}
    Cap = 1
    Window = 2
    FastWithin = 0
    MediumWithin = 1
    Interval = 1
    Period = 1
    StayBonus = 2
    MaxTime = 2
    MaxEvents = 4
    MaxFailures = 1
    MaxLives = 1
SYMMETRY MCSymmetry
SPECIFICATION Spec
INVARIANTS TypeOK PlacesFair RewardsAccounted VoiceTimeEarned RaisesEarned SessionsFollowVoice
PROPERTIES RosterKeeps
CHECK_DEADLOCK FALSE
