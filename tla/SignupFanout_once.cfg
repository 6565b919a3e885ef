\* One email, two accounts in turn, one consumer.
SPECIFICATION FairSpec
CONSTANTS
  Accounts = {a1, a2}
  email = email
  EmailOf <- OneEmail
  AdminEmail = email
  Processes = {p1}
  MaxDeliver = 2
  None = None
INVARIANTS TypeOK AckedMeansProfile
PROPERTIES EditsSurviveRedelivery ImplementsProvisioning Provisioned
CHECK_DEADLOCK FALSE
