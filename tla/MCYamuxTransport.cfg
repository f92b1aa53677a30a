\* Two streams, one after the other in one slot, with a window of two bytes, a ring of
\* one and a peer that keeps to the protocol until its last frame.  What crosses one
\* reset fits the budget of the session, what crosses two may not.
CONSTANTS
    SlotCount = 1
    Window = 2
    Ring = 1
    ControlSlots = 1
    DiscardLimit = 2
    MaxCredit = 3
    MaxId = 3
    MaxPings = 1
    PingIds = 3
    MaxInFlight = 1
    RogueFrames <- SomeRogueFrames
SPECIFICATION LinkSpec
INVARIANTS
    PeerNeverAccused
    CreditAccounted
    WireOrder
