SPECIFICATION FairSpec
CONSTANTS
  Machines = {m1, m2}
  m1 = m1
  m2 = m2
  Sessions <- MCSessions
  word = word
  phrase = phrase
  Entries = {word, phrase}
  Elements <- MCElements
  Counts <- MCCounts
  Commits <- MCCommits
  MaxEvents = 3
  MaxFaults = 1
INVARIANTS TypeOK EveryCommitCounts NothingLearnedTwice
PROPERTY SyncConverges
