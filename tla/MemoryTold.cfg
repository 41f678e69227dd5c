SPECIFICATION FairSpec
PROPERTY SomeCommentHolds
