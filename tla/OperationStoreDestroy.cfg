\* A destroy whose one block may be replayed, over two attempts and two builds.
SPECIFICATION Spec
CONSTANTS
  Block <- OneBlock
  OpVerb = "destroy"
  ReplaySafe <- OneBlock
  MaxAttempt = 2
  Build <- MCBuild
INVARIANTS
  RecordedBeforeEffect
  EffectOnce
  NextStartable
  BuildNamed
  RetriedOnce
  MemorySound
PROPERTIES
  ImplementsContract
