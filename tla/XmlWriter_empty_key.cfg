SPECIFICATION Spec
CONSTANTS
  Strings = {s}
  Datas = {}
  Texts = {}
  Booleans = {}
  Uids = {}
  FaultyIO = FALSE
  EmptyKeys = TRUE
  MaxCalls = 4
INVARIANT DictionariesKeyed
