\* Does every start come up, even after a set_rich write was cut short?
CONSTANT MaxStarts <- MCMaxStarts
SPECIFICATION Spec
INVARIANT EveryStartComesUp
