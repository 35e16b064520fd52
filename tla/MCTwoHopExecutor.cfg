SPECIFICATION ExecSpec
CONSTANT MaxAmount = 3
INVARIANTS ProfitKept OnlyBoughtIsSold
