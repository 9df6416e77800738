\* The batch sizes and host concurrency for every FD soft limit up to 6000
\* and the common large ones; the scan order of every /24 to /32 block;
\* the classifier over every host evidence of the modelled registry, every
\* small AllOf/AnyOf pattern and every definition; the subnet upsert over
\* two earlier submissions; the layout geometry over every segment pair of a
\* 3 x 3 grid, up to five children of a subnet, up to four barycenter
\* candidates and a row of two subnets.
SPECIFICATION Spec
INVARIANT EveryBatchScans
INVARIANT ScanOrderFollowsTiers
INVARIANT PatternMatchesSpec
INVARIANT GatewayFlagSound
INVARIANT ScanCoversPatterns
INVARIANT ContainerServiceIsFallback
INVARIANT UpsertAnswerSound
INVARIANT SegmentsIntersectExact
INVARIANT EveryChildPlaced
INVARIANT PlannedChildrenApart
INVARIANT WeightedMedianMinimises
INVARIANT RowApart
