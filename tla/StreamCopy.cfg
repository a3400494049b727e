CONSTANTS
    NumRows = 4
    Capacity = 2
SPECIFICATION HungSpec
INVARIANTS
    TypeOK
    CommittedIsComplete
    RowsConserved
    CancelComesTooLate
    NoSpuriousError
    IInv
PROPERTIES
    KeepsContract
    Termination
    ProducerStops
    CancelUnblocks
CHECK_DEADLOCK FALSE
