SPECIFICATION FairSpec
CONSTANTS
    Hashes <- MCHashes
    PreimageLen <- MCPreimageLen
    Trees <- MCTrees
    LeavesOf <- MCLeavesOf
    ProofLen <- MCProofLen
    Indices = {0, 1, 99}
    YieldLens = {1, 99}
    MaxYields = 1
    MaxQuestions = 3
INVARIANTS TypeOK ReplyFits CollectedIsAsked ProofsNeverMixed LeavesKnown
PROPERTIES AnswersWhatIsAsked CollectionEnds
