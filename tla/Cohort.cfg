CONSTANTS
    Peers = {p, q, r}
    Self = self
    Drift = 6
    Threshold = 1
    Sustain = 2
    Cooldown = 2
    None = None
SPECIFICATION Spec
PROPERTY OutvotedThroughout
SYMMETRY PeersAlike
