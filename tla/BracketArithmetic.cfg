SPECIFICATION Spec
CONSTANT MaxEntrants = 105
INVARIANTS LoopsAgree RoundsFit FreeGroupsSitOut
CHECK_DEADLOCK FALSE
