\* Pods on the host network, one file of which may have no services.
CONSTANTS
  Services = {"web", "db"}
  Infra = "networkproxy"
  Pods <- MCPods
  Offers <- MCOffers
SPECIFICATION Spec
INVARIANT HostPodIsLaunched
