SPECIFICATION FairSpec
CONSTANTS
  SIZE = 5
  Bytes = {0, 200}
  Ints = {0, 200}
  Numbers = {12}
  Infos <- MCInfos
  TagTypes <- MCTagTypes
PROPERTY SomeCommentHolds
