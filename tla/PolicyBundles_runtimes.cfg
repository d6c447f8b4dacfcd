\* Two rules over conditions that use every key, in both runtimes.
SPECIFICATION Spec
CONSTANTS
  NoPrefix = NoPrefix
  NotSent = NotSent
  EmptyObject = EmptyObject
  JsonTrue = JsonTrue
  PyText <- MCPyText
  NodeText <- MCNodeText
  PyStrip <- MCPyStrip
  NodeStrip <- MCNodeStrip
  Bundles <- MCBundles
  Conditions <- MCConditions
  Depth <- MCDepth
  Contexts <- MCContexts
  Starts <- MCStarts
  Inside <- MCInside
  Wildcard <- MCWildcard
CHECK_DEADLOCK FALSE
INVARIANTS
  DecidesAsWritten
  RuntimesAgree
