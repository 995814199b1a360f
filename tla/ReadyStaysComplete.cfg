SPECIFICATION DocumentsSpec
CONSTANTS
  Applications = {a1}
  Evidence = {e1}
  Sessions = {s1, s2}
  Texts = {t1}
  MaxVersion = 4
  MaxResumes = 3
  MaxGrounds = 3
  MaxPapers = 2
  NoPack = NoPack
  NoWork = NoWork
SYMMETRY MCSymmetry
INVARIANTS
  ReadyStaysComplete
CHECK_DEADLOCK FALSE
