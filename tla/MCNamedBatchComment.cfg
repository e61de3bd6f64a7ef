SPECIFICATION NamedSpec
CONSTANT Workloads <- MCBatchCommentWorkloads
CHECK_DEADLOCK FALSE
INVARIANT BatchRowsAreBound
