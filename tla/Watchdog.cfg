SPECIFICATION WdSpec
CONSTANT MaxByHand = 3
INVARIANT
  OnePinger
PROPERTY Restarted
