\* One review; the evaluator asks for a revision and the model flips its side.
SPECIFICATION ReviewSpec
CONSTANTS
  Contexts <- MCContexts
  Candidates <- MCCandidates
  Replies <- MCReplies
  MaxReviews = 1
  ProposalCap = 18
  Slots = 2
  MaxSlips = 1
INVARIANT QueuedClearsEveryGate
