SPECIFICATION WireSpec
CONSTANTS
  small = small
  large = large
  huge = huge
  short = short
  long = long
  garbage = garbage
  Msg = {small, large, huge}
  Size <- MCSize
  BufSize = 5
  RingMsg <- ShortAndLong
  RingSize <- TwoAndThree
  RingMaxSent = 7
  Capacity = 6
  MaxUnread = 5
  Options <- NameJackMapOrGo
  MaxConnections = 3
  MaxSent = 4
  Music = {0}
  Sample = {0, 1}
  Length <- ThreeAndFour
  Bits = 8
  NChannels = 1
  Block = 2
  NoId = 9
  MaxCalls = 3
CHECK_DEADLOCK FALSE
INVARIANTS
  BufferFits
  OneFrameBehind
  SoundAgrees
PROPERTIES
  InOrder
  Arrives
  RingInOrder
  RemovedOnesLeft
  FrameEnds
  StartIsAnswered
  SoundServersEnd
