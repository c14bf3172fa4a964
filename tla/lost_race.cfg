SPECIFICATION Spec
CONSTANTS
    ana = ana
    ben = ben
    una = una
    word = word
    sense = sense
    photo = photo
    link = link
    relink = relink
    ghost = ghost
    key = key
    Nil = Nil
    Client = {ana, ben}
    Row = {word}
    Parents <- ReadersParents
    KeyOf <- LapsedKeyOf
    Table <- ReadersTable
    Boot <- WorkBoot
    Seed = {word}
    Ghost = {}
    Editors = {ana, ben}
    Mints <- Nothing
    Edits <- SharedEdits
    Drops <- Nothing
    Racing = {}
    Revocable = {}
    Promotable = {}
    MaxStamp = 2
    MaxFaults = 0
    MaxPrunes = 0
INVARIANTS CaughtUpAgrees
