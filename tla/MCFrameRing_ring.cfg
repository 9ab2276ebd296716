CONSTANTS
  video = video
  audio = audio
  Writers = {video, audio}
  Size = 7
  Slack = 5
  Header = 1
  Longest = 2
  MaxLen <- MCMaxLen
  MaxTotal = 8
  SaveNums = {1, 2}
  NULL = NULL

SPECIFICATION FairSpec

INVARIANTS TypeOK NeverShort  WholeFrames
PROPERTIES Flows
