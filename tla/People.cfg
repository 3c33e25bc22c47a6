CONSTANTS
  Accounts = {a1, a2}
  Guests = {g1}
  Emails = {e1}
  p1 = p1
  Passwords = {p1}
  Tokens = {t1, t2, t3}
  Codes = {k1}
  Hashes = {h1, h2}
  PasswordOf <- MCPasswordOf
  Collections = {c1}
  Requests = {r1, r2}
  MaxVersions = 1
  None = None
  Reviews = {a1, a2}
  Authors = {a1, a2}
  AuthorOf <- MCAuthorOf
  Texts = {h1, h2}
  Stars = {s1, s2}
  Moderators = {r1, r2}
  MaxReviews = 3
  NoReview = NoReview
SPECIFICATION PeopleSpec
SYMMETRY Symmetric
CHECK_DEADLOCK FALSE
INVARIANTS
  SessionsMatchPassword
  ErasureIsComplete
  PublicationIsSound
PROPERTIES
  GuestHasOneFate
