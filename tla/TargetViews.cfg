SPECIFICATION FairViewsSpec
CONSTANTS
  Sessions = {s1}
  Writers = {w1, w2}
  FeedCapacity = 2
  OutboxCapacity = 2
  ViewBound = 4
PROPERTIES
  ClientNeverRegresses
  PublishedViewsArrive
