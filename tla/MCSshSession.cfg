SPECIFICATION Spec
CONSTANTS
  Mosh = TRUE
  AutoReconnect = TRUE
  MaxDone = 3
  MaxSessions = 2
INVARIANTS SshUpIsTrue SideIsRetried ResumeKeyFits KeptIsResumable
CHECK_DEADLOCK FALSE
PROPERTIES OneConnection EndsWhenAsked LostIsRetried
