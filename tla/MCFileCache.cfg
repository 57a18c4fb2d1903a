\* Two avatars in two views, and an attachment.
SPECIFICATION Spec
CONSTANTS
  Avatar = {"alice", "bob"}
  File = {"image"}
  Private = {"image"}
  Changing = {"alice"}
  View = {"messages", "users"}
  Shown <- MCShown
  MaxChanges = 1
  MaxJobs = 1
INVARIANTS TypeOK QueueIsServed ChangesReachViews FilesAreFetchedOnce
PROPERTY AvatarsAreFetched
