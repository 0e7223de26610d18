CONSTANTS
  Letters = {"2"}
  Delimiters = {"'"}
  Puncts = {"."}
  Translate <- MCTranslate
  Schemas <- MCSchemas
  PageSize = 2
SPECIFICATION Spec
INVARIANTS
  TypeOK
  Tiling
  SelectionFits
  CommitFaithful
  UndoRestores
PROPERTIES
  SelectionsKept
  LineSpec
