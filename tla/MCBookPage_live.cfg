SPECIFICATION PageLiveSpec
CONSTANTS
  MaxCopies = 2
  BookRows <- FewBooks
  MaxExports = 2
INVARIANTS TypeOK CsvTypeOK ReplaceIsChosen ShowsWhatItSaves MessageHonest
           CreatedOnce FormYields
PROPERTIES PageSettles
