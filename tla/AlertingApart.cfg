SPECIFICATION Spec
CONSTANTS
    Width = 3
    Sanitize <- MCSanitize
    Lower <- MCLower
    Namespace = "virt-observability-controller-system"
    KubeVirtNamespace = "kubevirt"
    PodsOf <- MCPodsOf
    Objects <- MCObjects
    Starts <- MCStarts
    MaxChanges = 2
INVARIANT VirtAPIDownIsTrue
