CONSTANTS
  Kinds <- MCKinds
  Ids <- MCIds
  FirstId = 1
  Unmapped <- MCUnmapped
  Others <- MCOthers
  Registered <- MCRegistered
  Feeds <- MCFeeds
  FeedOf <- MCFeedOf
  Rated <- MCRated
  MaxRestarts = 2
SPECIFICATION Spec
INVARIANTS NothingSkipped UnknownReleasesAgain MetadataKept WholeFeeds
PROPERTIES Delivered
