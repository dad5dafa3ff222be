CONSTANTS
    Payloads = {text, file, done, end}
    Texts = {text, file}
    Files = {file}
    Completing = {done}
    Ending = {end}
    Streams = {s1, s2}
    BackMaxsize = 1
    BufferSize = 2
    MaxDeletes = 2
SPECIFICATION RunFairSpec
INVARIANTS
    Gapless
    AccountedFor
PROPERTY EverybodyIsFreed
CHECK_DEADLOCK FALSE
