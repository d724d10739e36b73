CONSTANT MaxEdits = 2
SPECIFICATION Spec
INVARIANTS
  NoDeadEnds
  StoriesInOrder
  FiguresMatchRows
