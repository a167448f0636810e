\* One session, one operator process, every annotation, two faults.
CONSTANTS
  Sessions = {s1}
  Operators = {o1}
  Concurrency = 2
  AgentStates = {"idle", "busy", "finished", "failed"}
  MaxFaults = 2
SPECIFICATION FairSpec
INVARIANTS TypeOK FinalizerGuardsPod NoOrphan ActiveMeansStarted
PROPERTIES
  TerminalStaysTerminal NoLateCreate
  Released PickedUp StatusConverges LostPodEndsSession TerminalPodRemoved
  ContractSpec
\* A session that was deleted and cleaned up is the end of the story.
CHECK_DEADLOCK FALSE
