SPECIFICATION Spec
CONSTANTS
  Letters = {"a", "b"}
  MaxLength = 7
INVARIANTS
  CreatedIsFound
  CanonicalPathsAgree
  RouteKeepsMeaning
  WalkMeetsAncestors
