SPECIFICATION Spec
CONSTANTS
  PopUpWindows = TRUE
  Buffers <- OneMore
  FileBuffers <- OnlyMain
  EmptyBuffers <- OnlyBottom
  Scenes <- AllScenes
INVARIANTS
  WindowsSound
PROPERTIES
  BottomIsMinibuf
  ReadReturns
  ExcursionRestores
  LayoutRestored
  PlacesKept
