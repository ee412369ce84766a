CONSTANTS
  Task = {t1, t2}
  MaxTokens = 2
SPECIFICATION FairSpec
INVARIANTS AuthenticationsAreShared ExecutedOnce SentAfterCompleteLogin
PROPERTIES CallsEnd
