SPECIFICATION ModelSpec
CONSTANTS
    Threads = {t1, t2, t3}
    Models = {m1, m2}
    Contexts = {c1}
    Adapters = {a1, a2}
    NoModel = NoModel
    MaxText = 3
    Slack = 1
    Guess = 1
    Room = 3
    Vocab <- SmallVocab
    Header <- SmallHeader
INVARIANTS IInv LoadedWhileUp AdaptersFreedOnce ReadsWhole
PROPERTIES RefusedOnlyIfTaken DropReopens
