SPECIFICATION CommandSpec
CONSTANTS
  Namespaces <- MCNamespaces
  LocalOnly = {"sdk"}
  Platforms = {"p"}
  Tags <- MCTags
  TagText <- MCTagText
  CommitOf <- MCCommitOf
  Trees <- MCTrees
  Shells <- MCShells
  Scenes <- MCScenes
  Choices <- MCChoices
  Modules <- MCModules
  LoginProviders = {"beta"}
  Lines <- MCLines
INVARIANTS CatalogCatchesUp ModuleUnderstands OneMeaning
PROPERTIES NeverUnpublishes UpdateNeverGoesBack NothingMovesUnasked
CHECK_DEADLOCK FALSE
