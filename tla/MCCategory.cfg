SPECIFICATION CategorySpec
CONSTANTS
  Names = {"a", "b", "c"}
  Threads = {t1, t2}
  Configurers = {t1}
  NoThread = NoThread
  MAX_CATEGORIES = 2
  Texts <- MCTexts
  Lists <- MCLists
  MaxAppends = 1
INVARIANTS
  CategoryTypeOK
  ProxiesReferToTheirEntry
  ReserveSuffices
  OneEntryPerName
  FilterInForce
