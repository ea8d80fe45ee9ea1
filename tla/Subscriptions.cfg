SPECIFICATION Spec
CONSTANTS
  asha = asha
  beko = beko
  kilimo = kilimo
  samaki = samaki
  basic = basic
  premium = premium
  retired = retired
  r1 = r1
  r2 = r2
  r3 = r3
  NoPlan = NoPlan
  NoChama = NoChama
  NoUser = NoUser
  NoCustomer = NoCustomer
  Users <- MCUsers
  Chamas <- MCChamas
  Plans <- MCPlans
  ActivePlans <- MCActivePlans
  Requests <- MCRequests
  Sender <- MCSender
INVARIANTS
  TypeOK
  CustomersApart
  RecordsAgree
  PaymentsBacked
PROPERTY ImplementsSubscription
CHECK_DEADLOCK FALSE
