SPECIFICATION Spec
CONSTANTS
    a = a
    b = b
    c = c
    d = d
    Objects <- FourObjects
    Order <- FourOrder
    EdgeLists <- Star
    OrderPool = {}
    MixedPool = {}
    Goals <- MCGoals
    GoalTypes = {"start"}
INVARIANT
    VerifiedAcyclic
