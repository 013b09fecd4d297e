SPECIFICATION Spec
CONSTANTS
  Shapes <- SomeShapes
  Heights = {2, 4, 16, 22, 40}
INVARIANTS CursorOnHeading CursorInView
PROPERTIES ImplementsAccordion
