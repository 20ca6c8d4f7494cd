\* Two transfers to one name, and one fault anywhere.
SPECIFICATION Spec
CONSTANTS
  Transfers = {t1, t2}
  Payloads = {kirby, zelda}
  Names = {gb}
  MaxFaults = 1
INVARIANTS TypeOK LibraryIsVerified JournalTellsTheTruth SourceIsReal
PROPERTIES ImplementsMachine NeverOverwrites
CHECK_DEADLOCK FALSE
