CONSTANTS
    Page = 8
    Header = 2
    Default = 12
    Wrap = 32
    Sizes = {1, 6, 7, 15}
    MaxBytes = 40
    Platforms = {"linux", "windows"}
    Faults = {"open", "ftruncate", "mmap"}
    Idle = Idle
SPECIFICATION Spec
INVARIANTS IInv InBounds FileCovers NoFault SizeExact
