\* All descriptions and all data of the pools of MCCddlPipeline.
SPECIFICATION Spec
CONSTANTS
    Cases <- TheCases
    Data <- TheData
    MaxQty = 4
    FlagsInByte = 2
INVARIANTS
    ValidatorSound
    DecoderSound
    DecoderComplete
    DecoderAgrees
    BackupsSuffice
    FlagsSuffice
    CountingIsEnough
PROPERTIES
    FlattenKeepsMeaning
CHECK_DEADLOCK FALSE
