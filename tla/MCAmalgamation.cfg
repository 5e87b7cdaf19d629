CONSTANTS
    Projects <- SmallAndReal
    include_paths <- IncludePaths
SPECIFICATION AmalgamationSpec
INVARIANT
    EveryHeaderOnce
PROPERTY
    SameTranslation
