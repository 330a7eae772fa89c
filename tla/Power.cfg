CONSTANTS
  Last <- SmallTables
  TornSaves = TRUE
SPECIFICATION Spec
INVARIANTS ConfigAgrees NeverRefused OnlyOndemandIsLimited TagOfMenu DirtyIsExact ShownIsTrue
