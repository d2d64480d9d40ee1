SPECIFICATION FairSpec
CONSTANTS
  p1 = p1
  p2 = p2
  p3 = p3
  p4 = p4
  s1 = s1
  h1 = h1
  h2 = h2
  Payments = {p1, p2, p3, p4}
  Satoshis <- MCSatoshis
  MinPayment = 2
  Proven = {p3}
  Foreign = {p2}
  Servers = {s1}
  Handlers = {h1, h2}
  ServerOf <- MCServerOf
  FundBurst = 2
  MaxFaults = 2
  Events = {"sends"}
INVARIANTS
  CreditedOnce
  NoPhantom
  AnswersAreTrue
PROPERTIES
  PaymentSettles
