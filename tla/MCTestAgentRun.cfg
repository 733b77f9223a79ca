\* 7 requests, 4 payloads, 4 client plans, 3 configurations.
SPECIFICATION Spec
CONSTANTS
    PlanRequests <- MCPlanRequests
    Payloads <- MCPayloads
    ClientPlans <- MCClientPlans
    Configs <- MCConfigs
    HttpStatuses = {200, 403, 504}
    NoRequirement = NoRequirement
INVARIANTS
    PlanServesRequirements
    ReportTellsRuns
    FailuresNameTheirStage
    EvaluationTellsRuns
