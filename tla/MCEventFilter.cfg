\* Safety of the filters; the embedding program can always copy the list.
SPECIFICATION SpecFilters
CONSTANTS
    Self = 12
    Filters <- MCFilters
    Events <- MCEvents
    MaxObjects = 5
INVARIANTS
    CountsRight
    NoDangling
    ShownAsListed
