\* Three files of up to six lines in an array of six, a song of six units.
CONSTANTS
    OSU_TIMING_MAX = 6
    EntrySize = 2
    Second = 2
    End = 6
    Beatmaps <- Files
SPECIFICATION FairSpec
INVARIANTS
    TypeOK
    KeepsToTheLines
PROPERTIES
    BeatsStruckOnce
    MetronomeRecovers
