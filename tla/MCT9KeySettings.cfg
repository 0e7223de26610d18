SPECIFICATION Spec
CONSTANTS
  SchemaIds <- MCSchemaIds
  Groups = {1, 7}
  Keys = {"KP_1", "KP_7", "1"}
  DefaultKeys <- MCDefaultKeys
  SchemaBindings <- MCSchemaBindings
  Files <- MCFiles
  MaxPressed = 3
  MaxPrompts = 2
  MaxFaults = 1
INVARIANTS ShownIsSaved OkSavesAll ShownKeyTypes
PROPERTY HandWorkIsAsked
