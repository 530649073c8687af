SPECIFICATION Spec
CONSTANTS
    w1 = w1
    w2 = w2
    os = os
    apt = apt
    dpkg = dpkg
    dpkg2 = dpkg2
    extra = extra
    l1 = l1
    l2 = l2
    a1 = a1
    a2 = a2
    f1 = f1
    f2 = f2
    f3 = f3
    f4 = f4
    n1 = n1
    n2 = n2
    v1 = v1
    NoDetector = NoDetector
    NoNamespace = NoNamespace
    NoAncestry = NoAncestry
    Workers = {w1, w2}
    Detectors = {os, dpkg, dpkg2}
    Registered = {os, dpkg, dpkg2}
    Layers = {l1, l2}
    Ancestries = {a1, a2}
    Features = {f1, f2, f3, f4}
    Namespaces = {n1, n2}
    Formats = {v1}
    Requests <- SharedRequests
    Enabled <- SharedEnabled
    LayersOf <- SharedLayersOf
    Format <- MCFormat
    Finds <- SharedFinds

INVARIANT AncestryIsExact
