SPECIFICATION Spec
CONSTANTS
  RedirectBit = 128
  IDSpace = 256
  DefaultLimit = 2
  PageLimit = 3
  MaxReadContentSize = 5
  BrowseLimit = 3
  MaxRestarts = 1
  Client = {browser, reader}
  Browser = browser
  Shelves <- MCShelves
  Requests <- MCRequests
  SlugSuffix <- MCSlugSuffix
  DateLike <- MCDateLike
INVARIANTS LoadRight AnswersRight PagesRight DrainedOrLate ToolsRight
PROPERTIES Ends
CHECK_DEADLOCK FALSE
