\* Two files opened one after the other, in blocks of two words, the second
\* block behind an indirect one, on a disk of three blocks: room for one file
\* of two blocks, or for two files of one with a block that is of no use.
CONSTANTS
    Files = {"f", "g"}
    Openings = {"a"}
    DataBlocks = {1, 2, 3}
    SFS_NDIRECT = 1
    SFS_BLK_NENTRY = 2
    SFS_BLKSIZE = 2
    SFS_MAX_FILE_SIZE = 5
    Words = {1}
SPECIFICATION Spec
INVARIANT BlocksOwned
PROPERTY ImplementsStore
CHECK_DEADLOCK FALSE
