SPECIFICATION Spec
CONSTANTS
    ana = ana
    ben = ben
    una = una
    word = word
    sense = sense
    photo = photo
    link = link
    relink = relink
    ghost = ghost
    key = key
    Nil = Nil
    Client = {ana, ben}
    Row = {word, sense, photo}
    Parents <- LapsedParents
    KeyOf <- LapsedKeyOf
    Table <- LapsedTable
    Boot <- WorkBoot
    Seed = {word}
    Ghost = {}
    Editors = {ana, ben}
    Mints <- LapsedMints
    Edits <- Nothing
    Drops <- PoisonDrops
    Racing <- WorkRacing
    Revocable = {}
    Promotable = {}
    MaxStamp = 2
    MaxFaults = 0
    MaxPrunes = 0
INVARIANTS NoRepeatFailure
