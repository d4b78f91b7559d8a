SPECIFICATION Spec
CONSTANTS
  MaxPrograms = 3
  Lines <- Shapes
  MaxLines = 4
  Choices = {0}
  Reached = {2}
INVARIANT CommentsRemoved
