SPECIFICATION SpendSpec
CONSTANTS
  mia = mia
  cy = cy
  ada = ada
  nobody = nobody
  n1 = n1
  f1 = f1
  f2 = f2
  o1 = o1
  o2 = o2
  v1 = v1
  v2 = v2
  nov = nov
  nof = nof
  a1 = a1
  q1 = q1
  c1 = c1
  d1 = d1
  s1 = s1
  s2 = s2
  s3 = s3
  r1 = r1
  r2 = r2
  i1 = i1
  i2 = i2
  desk = desk
  Users <- Office
  RoleOf <- OfficeRoles
  NoUser = nobody
  DelegationPairs <- NoPairs
  Needs = {n1}
  Tenders = {f1, f2}
  Orders = {o1, o2}
  Suppliers = {v1, v2}
  Prices = {200000, 300000}
  Policies <- CfoFrom200k
  NoSupplier = nov
  NoTender = nof
  Adjustments = {a1}
  Returns = {q1}
  Checks = {c1}
  Deliveries = {d1}
  Delivered <- TwoDelivered
  Opening = 4
  Quantities <- DownAndUp
  Costs = {20000, 30000}
  MaxMoved = 1
  Invoiced = 130
  Lines = {"bolt", "nut"}
  Ordered <- FiveOfEach
  Price <- UnitPrice
  Percents = {0, 2, 20, 25, 60}
  MaxOver = 2
  Sessions = {s1, s2, s3}
  Runs = {r1, r2}
  Invoices = {i1, i2}
  Listed <- Overlapping
  Ops <- NoRecall
  Desk = desk
  Starts = {"need", "tender", "awards", "stock", "match", "sessions"}
INVARIANTS
  NoDoublePayment OwnWorkShown
  SpentOnce AwardStandsUp WriteOffsCountersigned StockExplained BilledForDelivered
PROPERTY
  OrderedAsApproved
SYMMETRY Symmetry
CHECK_DEADLOCK FALSE
