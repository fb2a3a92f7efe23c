\* Liveness with four shards; three producers compete for one of them.
SPECIFICATION LiveSpec
CONSTANTS
    NumShards = 4
    ShardSize = 2
    Producers <- ThreeProducers
    Strategy <- TwoRoam
    BatchSizes = {}
    MaxWrites <- OneWriteEach
    StartModulus = 4
PROPERTIES
    EverythingReceived
