SPECIFICATION Spec
CONSTANTS
  Parts = {"volumes", "hosts", "networks", "health", "compose", "ports", "images", "ecr"}
  Containers = {c, d}
  Clients = {p, q}
  NoClient = NoClient
  Signallers = {}
  Named = {v, g}
  Generated = {g}
  RmApart = TRUE
  Hosts = {h, i, k}
  HostNames = {m, n}
  NoHostName = NoHostName
  OtherNet = {k}
  Networks = {bridge, x, y}
  DefaultNetwork = bridge
  NoSubnet = NoSubnet
  LastSubnet = 2
  Retries = 2
  MaxProbes = 2
  Controllers = {p}
  Services = {"db", "web"}
  Defined = {"db", "web"}
  DependsOn <- MCDependsOn
  Scaled = {}
  OneOff = {"db"}
  Foreground = {p}
  FirstPort = 1
  LastPort = 4
  MaxCount = 2
  MaxFlags = 2
  ImageUsers = {c}
  ImageNames = {s, t}
  Untagged = {t}
  Digests = {e}
  NoDigest = NoDigest
  Registries = {r, z}
  MaxTokens = 2
INVARIANTS
  PartsTypeOK VolumesKept AnonymousGone HostsCurrent SubnetsDistinct StopHolds HealthMatchesLog
  StartOrder NetworkKept PortsApart LoginUsable
PROPERTIES UsedKept
