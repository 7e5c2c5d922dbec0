CONSTANTS
  HostFamilies = {"mech", "fea", "payload_steps", "vibe", "modal",
                  "circuits", "ngspice", "struct", "network"}
  Limits = {0}
  Truths <- MCTruths
  Solutions <- MCSolutions
  LooseBudget = 9
  MaxAttempts = 4
  NoSolution = NoSolution
SPECIFICATION Spec
CHECK_DEADLOCK FALSE
INVARIANT StoreUnreachable
