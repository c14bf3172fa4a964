SPECIFICATION Spec
CONSTANTS
    ana = ana
    ben = ben
    una = una
    word = word
    sense = sense
    photo = photo
    link = link
    relink = relink
    ghost = ghost
    key = key
    Nil = Nil
    Client = {ben, una}
    Row = {word, sense, photo}
    Parents <- LapsedParents
    KeyOf <- LapsedKeyOf
    Table <- LapsedTable
    Boot <- LapsedBoot
    Seed = {word}
    Ghost = {}
    Editors = {ben}
    Mints <- LapsedMints
    Edits <- Nothing
    Drops <- LapsedDrops
    Racing <- WorkRacing
    Revocable = {ben}
    Promotable = {una}
    MaxStamp = 2
    MaxFaults = 1
    MaxPrunes = 0
PROPERTIES NoWorkLost
