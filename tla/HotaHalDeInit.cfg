\* Two values of the metadata.
SPECIFICATION Spec
CONSTANTS
  MetaData = {m1, m2}
  NoMetaData = NoMetaData
INVARIANT DeInitEndsSession
