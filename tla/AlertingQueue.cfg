SPECIFICATION Spec
CONSTANTS
    Width = 3
    Sanitize <- MCSanitize
    Lower <- MCLower
    Namespace = "kubevirt"
    KubeVirtNamespace = "kubevirt"
    PodsOf <- MCPodsOf
    Objects <- MCObjects
    Starts <- MCStarts
    MaxChanges = 2
INVARIANT QueueLengthKnown
