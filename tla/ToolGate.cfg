SPECIFICATION Spec
CONSTANTS
    AutoApprove <- MCAutoApprove
    RiskRules <- MCRiskRules
    RiskThreshold = "medium"
    Servers <- MCServers
    Enabled <- MCEnabled
    Disabled <- MCDisabled
    Failed = Failed
    Calls <- MCCalls
    ConfigRules <- MCRules
    Offers <- MCOffers
    MaxCalls = 2
    MaxChanges = 1
    MaxListings = 1
    MaxSwitches = 1
    SubCalls <- MCSubCalls
    MaxRounds = 1
    MaxDepth = 2
INVARIANTS
    NoToolHidden
    ReadOnlyHeld
PROPERTIES
    ApprovedUnderMode
    AlwaysHeld
CHECK_DEADLOCK FALSE
