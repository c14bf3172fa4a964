SPECIFICATION Spec
CONSTANTS
    ana = ana
    ben = ben
    una = una
    word = word
    sense = sense
    photo = photo
    link = link
    relink = relink
    ghost = ghost
    key = key
    Nil = Nil
    Client = {ana, ben}
    Row = {word, link, relink}
    Parents <- WorkParents
    KeyOf <- ReadersKeyOf
    Table <- ReadersTable
    Boot <- WorkBoot
    Seed = {word}
    Ghost = {}
    Editors = {ana, ben}
    Mints <- WorkMints
    Edits <- WorkEdits
    Drops <- WorkDrops
    Racing <- WorkRacing
    Revocable = {}
    Promotable = {}
    MaxStamp = 2
    MaxFaults = 1
    MaxPrunes = 0
INVARIANTS TypeOK CursorInv NoRepeatFailure RefusedWasDeleted
PROPERTIES NothingBelowCursor NoWorkLost DeletesStick
