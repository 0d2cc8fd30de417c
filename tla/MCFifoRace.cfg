\* A group of three request modifiers, any of them failing, while another goroutine sets the aggregation flag.
CONSTANTS
    m1 = m1
    m2 = m2
    m3 = m3
    Nil = Nil
    Mods <- MCMods
SPECIFICATION Spec
INVARIANT OnePolicyPerCall
CHECK_DEADLOCK FALSE
