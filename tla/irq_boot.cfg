SPECIFICATION FairSpec
CONSTANTS
  Irqs <- MCFewIrqs
  Spurious = {}
  Masked = {}
  QUEUE = 1
PROPERTY KeyAnswered
