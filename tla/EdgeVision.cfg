SPECIFICATION VisionSpec
CONSTANTS
    Frames <- MCFrames
    HalfGauge = 2
    MaxRange = 1
    Height = 4
    WarmUp = 1
    MaxMisses = 1
    SustainAfter = 1
    MaxTracks = 3
    MaxFrame = 6
INVARIANTS FrameCarried IntrusionTold
PROPERTIES StoryTrue
CHECK_DEADLOCK FALSE
