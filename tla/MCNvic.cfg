SPECIFICATION FairSpec
CONSTANTS
  Irqs <- TwoIrqs
  InterruptPeriod = 1
  BlockSizes <- Sizes
  Reloads = {1}
  AgeCap = 2
  MaxNesting = 1
  FpInHandler = FALSE
  LrIntact = {TRUE, FALSE}
INVARIANTS ModeTruthful StackBalanced
PROPERTIES DispatchDiscipline HeadServed
