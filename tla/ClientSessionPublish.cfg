CONSTANTS
  Task = {t1, t2}
  MaxTokens = 3
SPECIFICATION Spec
PROPERTIES PublishesWhatItObtained
