SPECIFICATION FairSpec
CONSTANT MaxMeta = 1
PROPERTY OrphanEnds
