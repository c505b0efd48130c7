CONSTANTS
    Tasks = {t1, t2}
    Handlers <- MCHandlers
SPECIFICATION Spec
INVARIANTS OrderRespected IoUnlocked NoCircularWait
