SPECIFICATION Spec
CONSTANTS
    ana = ana
    ben = ben
    una = una
    word = word
    sense = sense
    photo = photo
    link = link
    relink = relink
    ghost = ghost
    key = key
    Nil = Nil
    Client = {ana}
    Row = {word, link}
    Parents <- WorkParents
    KeyOf <- ReadersKeyOf
    Table <- ReadersTable
    Boot <- WorkBoot
    Seed = {}
    Ghost = {}
    Editors = {ana}
    Mints <- HalfReadMints
    Edits <- Nothing
    Drops <- Nothing
    Racing <- HalfReadRacing
    Revocable = {}
    Promotable = {}
    MaxStamp = 2
    MaxFaults = 0
    MaxPrunes = 0
INVARIANTS RefusedWasDeleted
