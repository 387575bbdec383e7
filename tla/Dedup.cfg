SPECIFICATION NoticesSpec
CONSTANTS
  NoItem = NoItem
  MaxTime = 4
  Story <- MCStory
  Window = 1
INVARIANTS
  OncePerWindow
  
PROPERTY DropIsExplained
CHECK_DEADLOCK FALSE
