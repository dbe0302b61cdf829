SPECIFICATION Spec
CONSTANTS Nodes = {n1,n2}
Addresses = {a1}
MaxDuration = 2
MaxOrders = 2
Refreshes = TRUE
MaxFaults = 1
INVARIANTS TypeOK EnforcedAsOrdered PanelTellsTruth
PROPERTIES PropagationSettles
