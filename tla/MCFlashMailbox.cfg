SPECIFICATION Spec
CONSTANTS
  Users = {u1, u2}
  Window = 4
  DATA_SIZE = 2
  SECTOR = 2
  BLOCK = 2
  Ranges <- MCRanges
  MaxCalls = 2
SYMMETRY Symmetry
INVARIANTS
  MailboxStable
  ProgressIsReal
  HandshakeMoves
  ReadsSeeWhole
