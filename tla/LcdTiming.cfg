SPECIFICATION LcdSpec
CONSTANTS
  VisibleLines = 8
  LastLine = 12
  TicksPerLine = 4
  LagCap = 2
INVARIANTS
  TypeOK
  RenderedOnce
PROPERTIES
  LinesAboveBeamAreCurrent
  WholeFrameAtStart
