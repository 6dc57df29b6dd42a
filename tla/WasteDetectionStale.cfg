\* An attachment whose compartment goes away between two syncs.
SPECIFICATION Spec
CONSTANTS
  vol = vol
  ip = ip
  private = private
  inst = inst
  tenancy = tenancy
  compartment = compartment
  Volumes = {vol}
  PublicIPs = {}
  PrivateIPs = {}
  Instances = {inst}
  Scopes = {tenancy, compartment}
  Root = tenancy
  Home <- MCHome
  Excluded = {}
  Cheap = {}
  MaxChanges = 2
  MaxVerdicts = 0
  MaxFaults = 0
INVARIANT DetectsDetachedVolumes
