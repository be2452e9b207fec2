SPECIFICATION Spec
CONSTANTS
  MaxToken = 3
  FlowCap = 1
INVARIANTS TypeOK CountedAtMostOnce UnheardNeverCounts NeverOrphaned ParkedStillCounts StashBounded
