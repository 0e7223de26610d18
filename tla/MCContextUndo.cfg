CONSTANTS
  Letters = {"2"}
  Delimiters = {"'"}
  Puncts = {"."}
  Translate <- MCTranslate
  Schemas <- MCShort
  PageSize = 2
SPECIFICATION Spec
INVARIANT RecentOperationDecides
