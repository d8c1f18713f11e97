\* Two descriptors, up to two mounts, names that occur as mount and as entry.
SPECIFICATION Spec
CONSTANTS
  Folders <- MCFolders
  Content <- MCContent
  Roots = {2}
  Names = {"init", "a", "b"}
  BootMounts <- MCBootMounts
  Paths <- MCPaths
  Lens = {0, 2}
  Seeks = {1}
  MaxFd = 2
  MaxMounts = 2
INVARIANTS ListingWhole OpensWhatThePathSays RefusesOnlyBelowMounts
PROPERTIES DescriptorsStable
