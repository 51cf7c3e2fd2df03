\* Every pod of two files, with no, too few or enough ports offered.
CONSTANTS
  Services = {"web", "db"}
  Infra = "networkproxy"
  Pods <- MCPods
  Offers <- MCOffers
SPECIFICATION Spec
INVARIANTS
  TypeOK
  PortsSuffice
  HostPortsDistinct
  HostSettingsMoved
  NetworkIsThere
  ExposedPortsWritten
