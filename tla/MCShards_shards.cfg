SPECIFICATION Spec
CONSTANTS
  MaxId = 3
  Types = {1, 2}
  Values = {1, 2}
  Datas <- MCDatas
  Firsts = {0, 1, 2}
  Raises = Raises
INVARIANTS ShardsTypeOK SameAnswers PagingComplete
CHECK_DEADLOCK FALSE
