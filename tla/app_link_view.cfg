SPECIFICATION Spec
CONSTANTS
  Message <- AllMessages
  Follower <- Followers
  Object <- NxObjects
  MaxObjects = 2
  Packet <- Packets
  MaxEdits = 3
  Frame <- Frames
  FrameToKeep <- FramesToKeep
  FrameLost <- FramesLost
  Rewrite <- Rewrites
  MaxRewrites = 2
  Wild = Wild
  h1 = h1
  h2 = h2
INVARIANTS
  ConsistentView
\* The bounds end every component.
CHECK_DEADLOCK FALSE
