CONSTANTS
    k1 = k1
    k2 = k2
    k3 = k3
    k4 = k4
    Clients = {k1, k2, k3, k4}
    Limit = 2
SPECIFICATION LiveSpec
PROPERTY ImplementsSemaphore
