SPECIFICATION Spec
CONSTANT MaxTokens = 4
PROPERTIES
  UntouchedHarmless
  TypedIsShown
  SavesAreCurrent
