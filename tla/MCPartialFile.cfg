\* Every object, range and read of at most four bytes, files of up to two chunks.
CONSTANTS
    MaxSize = 4
    MaxChuncks = 2
    NoStart = NoStart
SPECIFICATION Spec
INVARIANTS
    ReadsAreTrue
    DownloadedIsReadable
    OneChunckReads
