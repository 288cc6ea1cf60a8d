CONSTANTS
    k1 = k1
    k2 = k2
    k3 = k3
    k4 = k4
    Key = {k1, k2, k3, k4}
    Value = {v1, v2}
    v1 = v1
    v2 = v2
    NULL = NULL
    Entry = {e1, e2, e3}
    Buckets = 2
    djb2 <- MCHash
SPECIFICATION Spec
INVARIANT ChainsIntact
PROPERTIES ImplementsMap IterationsGoOn
