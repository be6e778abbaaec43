\* Files up to the double indirect blocks and past the largest; images that are
\* too small, and that end inside or at the end of a block of the free map.
CONSTANTS
    Home = "home"
    Trees <- MCTrees
    Kind <- MCKind
    NameLen <- MCNameLen
    Hidden = {".h"}
    Sizes = {0, 3, 10, 21, 25}
    ImageSizes = {3, 24, 33, 70}
    SFS_BLKSIZE = 2
    SFS_BLKBITS = 8
    SFS_BLK_NENTRY = 4
    SFS_NDIRECT = 1
    SFS_MAX_NBLKS = 64
    SFS_LN_NBLKS = 12
    SFS_MAX_FNAME_LEN = 255
    MaxPath = 11
SPECIFICATION Spec
INVARIANTS ImageMounts 
CHECK_DEADLOCK FALSE
