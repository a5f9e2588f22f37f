SPECIFICATION QueueSpec
CONSTANTS
  QueueLength = 10
  Lens <- MCLens
  Junk <- MCJunk
INVARIANT Framed
PROPERTY LossOnlyAtBoundary
