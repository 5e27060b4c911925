SPECIFICATION Spec
CONSTANTS
  None = None
  v1 = v1
  v2 = v2
  s1 = s1
  s2 = s2
  Script = {v1, v2, s1, s2}
  Image = {v1, v2}
  Revision <- Heads
  DropOrder <- TasksFirst
INVARIANTS
  TypeOK
  StampMatches
  DemoWhole
  CodeMeetsSchema
  
PROPERTIES
  ScriptsEnd
