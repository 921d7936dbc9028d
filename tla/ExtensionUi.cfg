CHECK_DEADLOCK FALSE
SPECIFICATION FairSpec
CONSTANTS
  confirm = confirm
  select = select
  input = input
  Dialogs <- ThreeDialogs
  Confirms = {confirm}
  Timed = {input}
  Signalled = {confirm}
  None = None
  MaxChanges = 1
INVARIANTS
  TypeOK
  ScreenIsTrue
  AnswersArrive
  NoGhostDialog
PROPERTY WaitsOnlyForTheUser
