SPECIFICATION FairSpec
CONSTANTS
  GpuClass <- MCGpuClass
  Pool <- MCPool
  Model <- MCModel
  TotalGpus = 2
  Headroom = 0
  DefaultQuota <- MCDefaultQuota
  GroupQuota <- MCGroupQuota
  PoolQuota <- MCPoolQuota
  NoClass = NoClass
  NoPool = NoPool
  Unlimited = Unlimited
  NoNode = NoNode
  DefaultGap = 0
  DefaultDuration = 2
  Unknown = Unknown
  Requests <- MCRequests
  Wanted <- MCWanted
  ReplicaOf <- MCReplicaOf
  Leader = "r1"
  Clusters <- MCClusters
  Touch = 0
  Horizon = 4
  Grid = 1
  Nobody = Nobody
  Ops <- MCOps
  MaxTime = 2
INVARIANTS
  TypeOK
  PlacementsAreSound
  
PROPERTIES
  EarlierBookingsStand
  AsapIsBookable
  RequestsAreAnswered
