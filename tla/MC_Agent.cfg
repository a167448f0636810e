\* Three concurrent requests, one annotation patch refused.
CONSTANTS
  Messages = {m1, m2, m3}
  Programs = {"entrypoint", "adapter"}
  MaxRefused = 1
SPECIFICATION FairSpec
INVARIANTS TypeOK OneAtATime HistoryIsAnswers ExitSaysFinished AdapterTellsState
PROPERTIES FinishedIsLastWord RequestsAnswered BusyEnds
\* A server that has exited is the end of the story.
CHECK_DEADLOCK FALSE
