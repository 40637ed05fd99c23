SPECIFICATION RangesSpec
CONSTANTS
    Inputs <- ShortLists
    Dashes = Dashes
CHECK_DEADLOCK FALSE
INVARIANTS SortTypeOK SortedAtEnd KeepsElements RoundTrip RangesMaximal
