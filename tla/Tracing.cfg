SPECIFICATION TracingSpec
CONSTANTS
  Configs <- MCConfigs
  MaxSpans = 2
  MaxChanges = 4
  Texts <- MCTexts
  Others <- MCOthers
  SpanFields <- MCSpanFields
  Events <- MCEvents
  LogRecords <- MCLogRecords
  Words <- MCWords
  Direct <- MCDirect
  Upper <- MCUpper
  FixedCategory = "app"
  CategoryFn <- MCCategoryFn
  None = None
CHECK_DEADLOCK FALSE
INVARIANTS TracingTypeOK SpansCurrent OpeningTextKept SameEitherWay UserFieldsKept ReadAsBuilt ErrorTabForeseen
