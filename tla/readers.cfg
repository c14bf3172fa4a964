SPECIFICATION Spec
CONSTANTS
    ana = ana
    ben = ben
    una = una
    word = word
    sense = sense
    photo = photo
    link = link
    relink = relink
    ghost = ghost
    key = key
    Nil = Nil
    Client = {ana, una}
    Row = {word, link, relink, ghost}
    Parents <- ReadersParents
    KeyOf <- ReadersKeyOf
    Table <- ReadersTable
    Boot <- ReadersBoot
    Seed = {word, link}
    Ghost = {ghost}
    Editors = {ana}
    Mints <- ReadersMints
    Edits <- ReadersEdits
    Drops <- ReadersDrops
    Racing <- ReadersRacing
    Revocable = {}
    Promotable = {}
    MaxStamp = 2
    MaxFaults = 1
    MaxPrunes = 1
PROPERTIES ReadersInstallWholeStates
