CONSTANTS
  Clients = {c1, c2}
  NoClient = NoClient
  Capacity = 1
  GroupKeys = 2
  player = "player"
  Stories <- MCStories
  Contributions <- MCContributions
  Hashes <- MCHashes
  PlanAnswers <- MCPlanAnswers
  Verdicts <- MCVerdicts
  policy <- MCpolicy
  config <- MCconfig
SPECIFICATION Spec
INVARIANTS KnowledgeAdmitted StagesAgree ChosenDraft WebClientTold
PROPERTY GateOpens
CHECK_DEADLOCK FALSE
