SPECIFICATION SidebarSpec
CONSTANTS
  Paths = {"home", "other", "third"}
  Home = "home"
  MaxSessions = 3
  Gestures <- MCGestures
INVARIANTS QuietMeansSame SelectedIsServed
PROPERTIES GestureMovesOne
CHECK_DEADLOCK FALSE
