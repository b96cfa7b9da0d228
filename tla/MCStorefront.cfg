CONSTANTS
  v1 = v1
  v2 = v2
  v3 = v3
  p1 = p1
  p2 = p2
  a1 = a1
  a2 = a2
  Requests = {r1, r2}
  Variants = {v1, v2, v3}
  Products = {p1, p2}
  ProductOf <- MCProductOf
  Prices = {1, 2}
  RequestedChanges <- MCRequestedChanges
  Images = {i1, i2, i3}
  NoImage = NoImage
  Authors = {a1, a2}
  Voters = {u3}
  Votable = {a1}
  Ratings = {2, 5}
  RequestedReviews <- MCRequestedReviews
  MaxId = 2
  MaxHelpful = 1
  Categories = {c1, c2, c3}
  Names = {n1, n2}
  Users = {u1}
  Sessions = {s1}
  Sources = {direct}
  Hour = 1
  MaxTime = 5
  MaxViews = 2
  Wished = {w1, w2}
  MaxWishlistItems = 2
  MaxPk = 4
  Listed = {1, 2}
  Brands = {b1}
  Sections = {c1}
  Unset = Unset
  ListPrices = {1}
  Filters <- MCFilters
  Edits <- MCEdits
  New <- MCNew
  Staff = {m1}
  Readers = {u1}
  PageSize = 1
  Entities = {1, 2}
  Stores = {1, 2}
  Markets = {1, 2}
  Currencies = {"RUB", "USD"}
  Rubles = "RUB"
  LegacyPrices = {"USD"}
  PaymentChoices <- MCPaymentChoices
  Seeded <- MCSeeded
  MaxChanges = 3
SPECIFICATION Spec
SYMMETRY Symmetry
INVARIANTS
  
  StatsCurrent
  
  MainImageShown
  PathsMatchTree
  
  
  PagesCoverListing
  PreflightTrue
CHECK_DEADLOCK FALSE
