CONSTANTS
    Cores = {c0, c1}
    Core0 = c0
    Writers = {c0, c1}
    Callers = {c0}
    HeapSize = 6
    Sizes = {1}
    Page = 4
    Pointer = 1
    Round = 2
    NoCore = NoCore
    Texts <- MCTexts
    CrLf <- MCCrLf
    Names = {n1}
    Addresses = {3, 5, 12}
    Quarter = 4
    NoName = NoName
SPECIFICATION FairSpec
INVARIANTS
    BlocksDisjoint
    LocksGivenBack
    TextsWhole
    SleeperWoken
    OwnAnswer
    
PROPERTY LookupEnds
