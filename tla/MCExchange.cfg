INIT MCInit
NEXT MCNext
CONSTANTS
    Compounds <- MCCompounds
    Cuttable <- MCCuttable
    Sweepable <- MCSweepable
    Smb1Offers <- MCSmb1Offers
    Blobs <- MCBlobs
    Challenges <- MCChallenges
    Infos <- MCInfos
INVARIANTS
    RequestsAsMeant SignedAsSent AnswersFound EachAnswered AnswersSigned
    ValidateAgrees NamesAgree
CHECK_DEADLOCK FALSE
