\* Two overlapping runs of the job over two files.
SPECIFICATION FairSpec
CONSTANTS
  r1 = r1  r2 = r2
  Producer = {r1, r2}
  Name = {1, 2}
  Rows <- MixedRows
  Message <- Messages
  QueueLimit = 1
INVARIANTS TypeOK ProcessedIsPublished ProcessedHasRejects
PROPERTIES FilesAreTransferred EveryFileIsProcessed
