\* NTupleSvc: initialize with one Output and one Input file, then any
\* sequence of connect (NEW, UPDATE, READ or an unknown OPT), disconnect,
\* disconnectAll, book, writeRecord, readRecord, save and finalize, with each
\* created ConversionSvc failing in sysInitialize or setDataProvider or not,
\* and HistogramPersistency ROOT or NONE.  Five services allow the two of
\* initialize and three later connects.
CONSTANTS
    LogNames <- MCLogNames
    Tuples <- MCTuples
    TupleFile <- MCTupleFile
    Output <- MCOutput
    Input <- MCInput
    OptLetters = {"N", "U", "R", "X"}
    PersistencyValues = {"ROOT", "NONE"}
    MaxSvcs = 5
SPECIFICATION Spec
INVARIANTS
    TypeOK
    ConnectionsHeld
    TupleDataOneService
