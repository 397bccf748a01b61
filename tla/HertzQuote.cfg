CONSTANT Vehicle = {v1, v2, v3}
SPECIFICATION FairSpec
INVARIANTS AccountedForOnce NoSendOnClosed
PROPERTIES ReturnedIsFinal EverythingEnds
