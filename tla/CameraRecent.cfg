SPECIFICATION FeedSpec
CONSTANTS
    MaxImages = 3
    QueueLimit = 2
PROPERTIES
    MostRecent
CHECK_DEADLOCK FALSE
