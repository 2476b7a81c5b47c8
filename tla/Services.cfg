SPECIFICATION Spec
CONSTANTS
  AuthReplicas = {a1, a2}
  Merchants = {o1, o2}
  ApiKeys = {o1, o2}
  AccessTTL = 1
  RefreshTTL = 2
  MaxClock = 2
  MaxFaults = 1
  Callers = {a1, a2}
  IdemKeys = {i1}
  Products = {p1}
  Links = {l1}
  Images = {img1}
  Editors = {a1, a2}
  Tokens = {t1}
  ProductAmounts <- MCProductAmounts
  LinkTerms <- MCLinkTerms
  LinkUpdates <- MCLinkUpdates
  MaxNow = 2
  MaxCatalogFaults = 1
  Buyers = {a1, a2}
  Orders = {o1, o2}
  BuyerTokens = {t1, t2}
  Amounts <- MCAmounts
  Lifetimes = {1}
  Fiats <- MCFiats
  Responses <- MCResponses
  PriceUnit = 2
  BaseUnit = 4
  Tolerances <- MCTolerances
  MaxReceived = 90
  Required = 2
  Lists = {"payments", "links", "products", "keys", "cycles"}
  MaxRows = 4
  Limits = {1, 2, 3}
  Ceiling = 2
  DefaultLimit = 1
  Shops = {o1, o2}
  Headers = {i1}
  Calls = {a1, a2}
  MaxRequests = 3
  MaxItems = 3
  MaxRouteFaults = 1
SYMMETRY Symmetry

INVARIANTS
  TypesOK
  AccessIsLimited
  EffectOncePerKey
  ProductsAreWhole
  AdmittedWasOpen
  QuoteIsHonored
  PageIsHonored
  ListIsReadOnce
  RepeatsAreHarmless

PROPERTIES
  CancelsAreCounted
  ArchivedIsOver

CHECK_DEADLOCK FALSE
