CONSTANTS
    Tabs = {tab}
    Agents = {agent}
    Names = {plan}
    MaxRequests <- MCMaxRequests
    MaxSameName = 3
SPECIFICATION Spec
INVARIANTS TypeOK OneWinner
PROPERTIES CardsKept
CHECK_DEADLOCK FALSE
