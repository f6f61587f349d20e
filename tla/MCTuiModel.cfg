SPECIFICATION Spec
CONSTANTS
  Pids <- MCPids
  Snapshots <- MCSnapshots
  Histories <- MCHistories
  Orders <- MCOrders
  SortKeys <- MCSortKeys
  Heights <- MCHeights
INVARIANTS
  MenuInRange
  SelectionShown
  EveryProcessOnce
PROPERTY SelectionStays
