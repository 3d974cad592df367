SPECIFICATION Spec
CONSTANTS
    Revs <- TheRevs
    Contents <- TheContents
    Date <- TheDate
INVARIANTS TypeOK TreeSound WrittenTree TextsWritten DetailsComplete ReverseIsInverse
