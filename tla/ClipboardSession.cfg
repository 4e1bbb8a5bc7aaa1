SPECIFICATION Spec
CONSTANTS
  left = left
  right = right
  first = first
  second = second
  Nodes = {left, right}
  Ends <- OneEnd
  Texts = {first, second}
  NoText = NoText
  LastSequence = 3
INVARIANTS TypeOK NewestGenerationWaits NeverStateInvariant PendingUntilAcknowledged
PROPERTY AppliedInOrder
CHECK_DEADLOCK FALSE
