SPECIFICATION RecSpec
INVARIANTS OneTrack
CONSTANTS
    Mode = "continuous"
    PreCaps = {0}
    Gop = 2
    Codecs = {h264, h265}
    Geometries = {small}
