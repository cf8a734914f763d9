SPECIFICATION EncoderSpec
CONSTANTS
    Modes = {m1, m2}
    FixedSize = TRUE
    Depth = 1
    None = None
INVARIANTS
    PictureKept
    RequestKept
PROPERTIES
    OverwriteNoticed
    NewestSent
    StillAnswered
