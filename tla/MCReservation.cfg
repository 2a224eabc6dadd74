CONSTANTS
    Width = 2
    MaxLevel = 2
    Word <- Bits
    Op <- MCOp
    NoOp = NoOp
    NoReply = NoReply
    NewValue <- AtomicNewValue
    Reply <- AtomicReply
SPECIFICATION FairSpec
INVARIANTS TypeOK ReservationIsFresh
PROPERTIES ImplementsAtomicWord CasMeetsItsSignature CallsReturn
