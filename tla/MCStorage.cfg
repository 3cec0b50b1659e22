\* Two handlers and three providers over two edits, and one end of the process
\* anywhere: during the start, during a backfill or while requests run.
SPECIFICATION Spec
CONSTANTS
  Handler = {h1, h2}
  MaxProviders = 3
  Name <- MCName
  Slug <- MCSlug
  NoSlug = ""
  Typed <- MCTyped
  Slugify <- MCSlugify
  Numbered <- MCNumbered
  Valid <- MCValid
  LastNumber = 3
  User = {u1}
  MaxStops = 1
  MaxEdits = 2
INVARIANTS
  TypeOK
  PrefixNamesOne
  SessionsSurvive
PROPERTIES
  SlugsAreStable
  UpgradeLosesNothing
  ServesAgain
