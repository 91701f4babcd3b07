SPECIFICATION Spec
CONSTANTS
  Columns = 3
  Rows = 2
  AckCells <- Corner
  Inks = {"white", "black", "print"}
  Blank = "white"
  Fingerprint = "print"
  Layouts <- FewLayouts
  Interval = 4
  LateFailures = FALSE
PROPERTY PanelPromise
