CONSTANTS
  Types = {A, B, C}
  Absent = Absent
  Vocabularies <- MCVocabularies
  Replies <- SomeReplies
SPECIFICATION Spec
SYMMETRY Names
INVARIANTS
  AnswersRight
  RepliesRight
  EveryIdReplaced
