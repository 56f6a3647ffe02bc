\* One reader, pages of one article, and articles of three dates.
SPECIFICATION Spec
CONSTANTS
  Readers = {r1}
  LastTime = 3
  Images = 2
  PageSize = 1
  MaxArticles = 3
INVARIANTS
  TypeOK
  NothingSkipped
  OpensAsListed
