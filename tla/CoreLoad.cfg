SPECIFICATION Spec
CONSTANTS
  Nes = Nes
  Gba = Gba
  Pc = Pc
  Cd = Cd
  Monitor = Monitor
  NoCore = NoCore
  None = None
  Systems <- EverySystem
  MaxLate = 2
  MaxJtag = 1
INVARIANTS
  LoaderOnItsCore
  OptionsInForce
  DeafHasCause
  NoBiosHasCause
