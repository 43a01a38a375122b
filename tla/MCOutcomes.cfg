SPECIFICATION Spec
CONSTANTS
  Opps = {1, 2, 3, 4}
  Lineage <- MCLineage
  Costs = {100}
  Plain = {"passed"}
  Notes = {"note"}
INVARIANTS
  TablesAgree
PROPERTIES
  SaleKnowsItsCost
  ChoiceRulesTheListing
