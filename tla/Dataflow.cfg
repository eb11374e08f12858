SPECIFICATION Spec
CHECK_DEADLOCK FALSE
CONSTANTS
  Threads = {t1, t2, t3}
  Cap = 2
  Calls = 4
  Messages <- SomeMessages
  Sources <- SomeSources
  Tokens <- Alphabets
  MaxText = 5
  Texts <- SomeTexts
  Stages <- SomeStages
  MaxStages = 3
  Programs <- SomePrograms
  Outgoing <- SentAs
  Incoming <- MadeOf
  Slots = 3
  SlotSize = 4
  MetaLen = 1
  Lengths = {4, 6, 9, 10}
  Width = 3
  MaxSends = 4
  Faults = 1
SYMMETRY ThreadSymmetry
INVARIANTS StarvedOnlyByGil MessagesTransferred StagesCompose ExpressionsMeetGrammar RingHoldsTheRest
