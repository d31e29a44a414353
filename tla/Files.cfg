CONSTANTS
    KB = 2
    RepRange = 256
    single_file_size_ = 1
    total_files_sizes_ = 3
    Chunks = {2, 5}
    MaxTime = 2
    MaxWrites = 5
SPECIFICATION Spec
INVARIANTS TotalBounded SizesCompare CastTruncates MembersAgree
PROPERTIES OldestRemoved RollOverInTurn
