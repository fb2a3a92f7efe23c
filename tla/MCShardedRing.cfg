\* Two shards; one producer stays with its shard, the other starts there and roams.
SPECIFICATION Spec
CONSTANTS
    NumShards = 2
    ShardSize = 2
    Producers <- TwoOnOneShard
    Strategy <- OneRoams
    BatchSizes = {3}
    MaxWrites <- RoamerWritesMost
    StartModulus = 2
INVARIANTS
    Inv
    ProducerOrder
    OvertakingBounded
    RotationIsFair
PROPERTIES
    ShortReadIsComplete
    ShardsAreQueues
