SPECIFICATION MockSpec
CONSTANTS
  t1 = t1
  t2 = t2
  t3 = t3
  maya = maya
  avery = avery
  TaskIds <- ThreeTasks
  Seeded <- TwoSeeds
  Statuses = {"todo", "done"}
  Inputs <- SmallInputs
  Members = {maya, avery}
  Me = maya
  ProjectIds = {"demo", "new"}
  Demo = "demo"
  CommentIds = {"c1", "c2"}
  ReactionTypes = {"like"}
  PageSize = 1
  Kept = 3
  Edited = {t1}
  MaxEdits = 6
  MaxListing = 6
  MaxPosts = 4
INVARIANTS
  RecordsExplain
  WalkIsExact
  CommentsAddUp
CHECK_DEADLOCK FALSE
