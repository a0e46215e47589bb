CONSTANTS
  None = None
  Worlds <- MCWorlds
SPECIFICATION Spec
INVARIANTS TypeOK MessagesExact NamesExact TopicsExact
