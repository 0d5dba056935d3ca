SPECIFICATION Spec
CONSTANTS
  Callers = {p1, p2, p3}
  NoCaller = NoCaller
  Stranger = Stranger
  OldRun = OldRun
  Tasks = {t1, t2}
  Names = {a, b}
INVARIANTS TypeOK UndoesItsOwn RoutedIsServed RegistrationStands NothingLeft ClosedIsQuiet
SYMMETRY Symmetry
