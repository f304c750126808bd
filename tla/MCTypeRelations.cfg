CONSTANT Universe <- WholeUniverse
SPECIFICATION Travel
INVARIANT HandingOnSound
INVARIANT HandingOnComplete
