SPECIFICATION FairSpec
CONSTANTS
  t1 = t1
  t2 = t2
  w1 = w1
  w2 = w2
  c1 = c1
  c2 = c2
  None = None
  Tasks <- MCTasks
  Workers <- MCWorkers
  Closers <- MCClosers
  QueueCap = 1
CHECK_DEADLOCK FALSE
INVARIANTS
  TypeOK
  ExactlyOneResult
  SentOnceOrAborted
  NoTaskAfterEvent
  AuditFaithful
PROPERTIES
  NoLateAdmission
  WorkersFinishTheirTask
  AdmittedIsResolved
  WorkersStop
  ImplementsContract
