SPECIFICATION Spec
CONSTANTS
  Translatable <- MCTranslatable
  MaxLen = 3
INVARIANT TypeOK
PROPERTIES TemporaryMode ToggleIsATap CapsLeavesShiftMode PeriodOnlyAfterPeriod KeypadSpells
