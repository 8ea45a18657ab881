SPECIFICATION ThreadSpec
CONSTANTS
    Callers = {main}
    Tasks = {k1}
    Quitters = {main}
    Owner = main
    CreateMayFail = FALSE
PROPERTIES DestructorComesBack
CHECK_DEADLOCK FALSE
