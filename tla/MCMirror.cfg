SPECIFICATION Spec
CONSTANT Workload <- Workloads
INVARIANTS ClientsMatch StoredValid AccessAsWritten
CHECK_DEADLOCK FALSE
