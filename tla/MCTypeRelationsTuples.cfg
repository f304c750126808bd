CONSTANT Universe <- TupleUniverse
SPECIFICATION Travel
INVARIANT TuplesHaveWidth
