SPECIFICATION Spec
CONSTANTS
  p1 = p1
  p2 = p2
  Prompts <- MCPrompts
  Questions <- MCQuestions
  MaxForms = 3
  MaxCommands = 2
  MaxUnread = 2
  MaxCrashes = 1
INVARIANTS FormForEveryQuestion AnswersAreTheUsers EveryCommandAnsweredOnce
CHECK_DEADLOCK FALSE
