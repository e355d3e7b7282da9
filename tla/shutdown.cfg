CONSTANTS
  r1 = r1
  c1 = c1
  c2 = c2
  Requests <- OneRequest
  Maintenance = Maintenance
  Closers <- TwoClosers
  Outcomes = {"ok", "failed", "broken"}
  Cancellable <- Everybody
  MaxCancels = 2
SPECIFICATION FairSpec
INVARIANTS TypeOK NoRenewalLeftBehind TransportOutlivesMaintenance OneCancellationSparesRenewal
PROPERTIES CloseForgottenOnFailedRenewalOnly CloseHangsOnRenewalOnly
CHECK_DEADLOCK FALSE
