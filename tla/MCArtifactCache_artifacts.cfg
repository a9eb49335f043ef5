SPECIFICATION FairSpec
CHECK_DEADLOCK FALSE
CONSTANTS
  near = near
  far = far
  script = script
  NULL = NULL
  Node = {near, far}
  Installer = {script}
  Origin = origin
  Parent <- ChainParent
  Line <- ChainLine
  File = {agentBin}
  Optional = {}
  Version = {"old", "new"}
  Installed = "old"
  Target = "new"
  Sources <- Directories
  MaxAsks = 1
  MaxEvents = 2
INVARIANTS OneDownload StagedIsTarget
PROPERTIES StaysClean RequestsEnd
