SPECIFICATION FairSpec
INVARIANTS TypeOK NothingForgotten
PROPERTIES KeepsPromise ShutsDown
