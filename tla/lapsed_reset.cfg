SPECIFICATION Spec
CONSTANTS
    ana = ana
    ben = ben
    una = una
    word = word
    sense = sense
    photo = photo
    link = link
    relink = relink
    ghost = ghost
    key = key
    Nil = Nil
    Client = {ana, una}
    Row = {word, link}
    Parents <- ReadersParents
    KeyOf <- LapsedKeyOf
    Table <- ReadersTable
    Boot <- LapsedBoot
    Seed = {word, link}
    Ghost = {}
    Editors = {ana}
    Mints <- Nothing
    Edits <- Nothing
    Drops <- LapsedResetDrops
    Racing = {}
    Revocable = {}
    Promotable = {}
    MaxStamp = 2
    MaxFaults = 0
    MaxPrunes = 1
PROPERTIES NoWorkLost
