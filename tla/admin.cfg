SPECIFICATION Spec
CONSTANTS
    d = d
    r1 = r1
    r2 = r2
    t = t
    m = m
    ann = ann
    ben = ben
    photo = photo
    thumb = thumb
    clip = clip
    Dict = {d}
    Role = {r1, r2}
    Thread = {t}
    Message = {m}
    Parent <- MCParent
    Admin = {ann, ben}
    Item = {photo, clip}
    Thumb = {thumb}
    Original <- MCOriginal
    Home <- MCHome
    Grace = 2
    BrakeMin = 3
    HaltAt = 3
    Starts <- MCStarts
INVARIANTS TypeOK AdminsAgree AbsentIsBuried FreshMeansPublished ExpiryHeals
PROPERTIES MissesNothingMore LaterEditWins EditsAreKept HaltsOnAClash EditGoesUp SecureIsWithdrawn SnapshotCatchesUp NoFalseMark LiveMediaKept MediaSettles
CHECK_DEADLOCK FALSE
