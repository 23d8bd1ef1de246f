SPECIFICATION Spec
CONSTANTS
  Points <- MCPoints
  Docs <- MCDocs
  Declared <- MCDeclared
  Base <- MCBase
  EdgeIds = {"a", "b", "c"}
  Ties <- MCTies
  Mappings = {"m1", "m2"}
  MapOf <- MCMapOf
  Sections = {"s1", "s2"}
  Parent <- MCParent
  NoSection = NoSection
  Mistakes = {"e1"}
  MistakeOf <- MCMistakeOf
  Questions = {"q1"}
  AskOf <- MCAskOf
  Bundles <- MCBundles
  MaxVersion = 4
INVARIANT SnapshotsReadable
CHECK_DEADLOCK FALSE
