\* Three senders, an approval with at most one write outstanding, one crash.
CONSTANTS
  v1 = v1
  v2 = v2
  v3 = v3
  Senders = {v1, v2, v3}
  DiskFails = TRUE
  MaxWrites = 1
  MaxOutages = 1
SPECIFICATION RegistrationSpec
INVARIANTS RegistrationTypeOK OnlyApprovedRegistered SerialApprovalsRegister
PROPERTIES SerialApprovalSettles
\* Once both senders are registered nothing is left to do.
CHECK_DEADLOCK FALSE
