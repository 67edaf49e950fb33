\* Two threads and two resources, three notifications, one SyncRequest, and a
\* caller of wait_for_empty_queue, with and without a timeout.
SPECIFICATION FairSpec
CONSTANTS
  Keys = {k1, k2}
  Producers = {p1, p2}
  NoKey = NoKey
  SyncRequest = SyncRequest
  MaxNotes = 3
  MaxSyncs = 1
  WaitModes <- JoinAndPoll
INVARIANTS TypeOK EntryHasToken SingleToken UnfinishedCount EntriesSummarize
PROPERTIES ReturnLeavesOnlyPuts ImplementsInbox EveryNoteProcessed
\* The notifications of a behaviour are bounded.
CHECK_DEADLOCK FALSE
