SPECIFICATION Spec
CONSTANTS
  MaxPrograms = 3
  Lines <- Shapes
  MaxLines = 4
  Choices = {0, 1, 2, 3}
  Reached = {2}
INVARIANTS
  TypeOK
  EntriesAreLines
  ThreadsComplete
  TunedToChoice
