SPECIFICATION Spec
CONSTANTS
  Objs = {a, b, c}
  None = None
  Size = 3
  MaxHeld = 3
SYMMETRY Symmetry
INVARIANTS BooksRight
PROPERTIES ImplementsStore
