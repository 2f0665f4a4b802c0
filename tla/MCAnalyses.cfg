CONSTANTS
  Block = {1, 2, 3, 4, 5}
  Root = 5
  Graphs <- ReversedGraphs
  Start = 1
  Entry = 10
  NoBlock = 0
  Created = {1, 2, 3, 4}
  CommonExit = 5
  Functions <- FunctionGraphs
SPECIFICATION SpecAnalyses
CHECK_DEADLOCK FALSE
INVARIANTS GraphKept BackEdgesBreakCycles TreeIsDominance IsFerrante Sound AnalysesOK
PROPERTIES Terminates
