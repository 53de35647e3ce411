SPECIFICATION LiveSpec
CONSTANTS
    a = a
    b = b
    c = c
    d = d
    Clients = {a, b, c, d}
PROPERTIES NoOvertaking ImplementsLock NoStarvation
