SPECIFICATION Spec
CONSTANTS
  Opps = {1, 2, 3}
  Lineages <- MCOneListing
  Lineage <- MCOne3
  Profit <- MCProfit3
  Improvement = 2
  Manual = {}
  Threads = {"main"}
  Main = "main"
  Nobody = Nobody
  Modes = {"live"}
  Statuses = {"watching"}
  PageSize = 2
PROPERTIES
  RepeatAlwaysNeedsImprovement
