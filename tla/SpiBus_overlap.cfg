\* A release build (configASSERT empty), one task in setFilter beside canService.
CONSTANTS
  Tasks = {canService, user}
  NoTask = NoTask
  Configurers = {user}
  Brackets = 3
  Asserts = FALSE
SPECIFICATION Spec
INVARIANT CsExclusive
