SPECIFICATION Spec
CONSTANT Workloads <- MCCommentWorkloads
CHECK_DEADLOCK FALSE
INVARIANT OnlyInListsExpand
