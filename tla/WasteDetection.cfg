SPECIFICATION FairSpec
CONSTANTS
  vol = vol
  ip = ip
  private = private
  inst = inst
  tenancy = tenancy
  compartment = compartment
  Volumes = {vol}
  PublicIPs = {ip}
  PrivateIPs = {private}
  Instances = {inst}
  Scopes = {tenancy, compartment}
  Root = tenancy
  Home <- MCHome
  Excluded = {}
  Cheap = {ip}
  MaxChanges = 2
  MaxVerdicts = 1
  MaxFaults = 1
INVARIANTS
  TypeOK
  EvaluatesCompleteSync
  NoFalseAlarm
  FindsSteadyWaste
PROPERTY FindingsFollowCloud
