SPECIFICATION Spec
CONSTANTS
  Answers <- MCAnswers
  Configs <- MCConfigs
  Texts <- MCTexts
  None = None
INVARIANTS
  ExtractsTheSelectedRows
  PeriodsPartitionDates
  QueryReadBack
