\* the default number of buffers is four; two are as many as one encoder can tell
CONSTANTS
    Settings <- SomeSettings
    Listeners = {l1, l2}
    NumBuffers = 2
    SeqMod = 4
    StampMod = 1024
SPECIFICATION Spec
INVARIANTS
    TypeOK
    PoolIsWhole
    SoundCodecsStream
PROPERTIES Continuous
CHECK_DEADLOCK FALSE
