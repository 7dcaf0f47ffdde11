\* Panels: an exit and an entrance (the handler for a plate at the exit sets the
\* entrance), three shows of either kind on either, which overlap in every way: one
\* that is over, and two that overlap with each other and with its timer.
\* Pictures: a vehicle and a payment, a camera and a clerk who save while the night's
\* clean-up runs, days enough for a picture to expire, one fault.
SPECIFICATION FairSpec
CONSTANTS
    Exits = {out}
    Entrances = {in1}
    MaxShows = 3
    MaxMishaps = 1
    Passes = {1}
    Vouchers = {2}
    Cameras = {camera}
    Clerks = {clerk}
    Ios = Ios
    Expiry = 1
    Share = 1
    MaxDay = 2
    Copies <- TwoEach
    MaxFaults = 1
INVARIANTS TypeOK TimedTextEnds CalmDueTextStays PicTypeOK InsidePicturesKept FilesAreListed
PROPERTY ExpiredPicturesGo
CHECK_DEADLOCK FALSE
