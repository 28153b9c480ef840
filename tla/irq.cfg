SPECIFICATION ExcFairSpec
CONSTANTS
  Irqs <- MCIrqs
  Spurious = {7, 15}
  Masked = {4}
  QUEUE = 2
  Exceptions <- MCExceptionNumbers
INVARIANTS TypeOK NoNesting OwnBitsOnly FrameFitsStruct
PROPERTIES ProgramResumes ImplementsInterrupts KeyServed
