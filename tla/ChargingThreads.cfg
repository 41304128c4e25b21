SPECIFICATION FairSpec
CONSTANTS
  t1 = t1
  t2 = t2
  Thread <- TwoThreads
  Calls <- AllCalls
INVARIANT TypeOK
INVARIANT NeverStranded
INVARIANT RestsWhenQuiet
PROPERTY TransientIsLeft
PROPERTY LegalChanges
PROPERTY ImplementsPromise
