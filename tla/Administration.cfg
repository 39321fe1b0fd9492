SPECIFICATION Spec
CONSTANTS
  g1 = g1
  g2 = g2
  g3 = g3
  d1 = d1
  d2 = d2
  c1 = c1
  c2 = c2
  x1 = x1
  readonly = readonly
  auditor = auditor
  s1 = s1
  s2 = s2
  Group = {g1, g2, g3}
  Device = {d1, d2}
  Credential = {c1, c2}
  Schedule = {x1}
  None = none
  All = all
  Forms <- TheForms
  TargetChoices <- TheTargets
  Selections <- TheSelections
  Files <- TheFiles
  ForeignKey = TRUE
  RoleId = {1, 2, 3, 4, 5, 6}
  Code = {readonly, auditor}
  Readonly = readonly
  User = {"u1", "u2"}
  Channel = {"mail", "robot", "hook"}
  Template = {"plain", "fancy"}
  Policy = {"failures", "changes"}
  NoTemplate = "none"
  Builtin = {"mail", "failures"}
  Session = {s1, s2}
  Loads <- TheLoads
  MaxOld = 1
  Start <- TheStart
  Unlimited = unlimited
  Ungrouped = ungrouped
  AccessLists <- TheAccess
  PageSizes = {1, 2}
  RecentTasks = 1
SYMMETRY Sessions
CHECK_DEADLOCK FALSE
INVARIANTS
  TreeIsSound
  ReferencesHold
  CachesAreCurrent
  ViewsAgree
PROPERTIES
  DeletionNarrows

