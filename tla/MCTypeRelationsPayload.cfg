CONSTANT Universe <- PayloadUniverse
SPECIFICATION Travel
INVARIANT HandingOnSound
