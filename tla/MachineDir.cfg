CONSTANTS
    Creators = {c1, c2}
    Cloners = {k1}
    Removers = {r1, r2}
    Actors = {a1}
    Dir = {d1, d2, d3}
    None = None
SPECIFICATION Spec
CHECK_DEADLOCK FALSE
INVARIANTS
    TypeOK
    OneChangerUnlessOvertaken
    CreatedStays
    NothingHalfMade
