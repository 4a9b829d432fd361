SPECIFICATION LiveSpec
CONSTANTS
  Columns <- AddedColumns
  MaxCalls = 2
  MaxQuits = 3
INVARIANTS TypeOK SchemaComplete NoCallCut NoStrayThread
PROPERTIES Ends
