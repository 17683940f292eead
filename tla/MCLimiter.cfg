SPECIFICATION CancelSpec
CONSTANTS
    Requests = {r1, r2, r3}
    Asked = 0
    DefaultCapacity = 1
INVARIANTS SlotBound WorkConserving ActiveWithinSlots NoSlotLeak Accounting
PROPERTIES FirstComeFirstServed ImplementsSemaphore CancelEnds EveryCallEnds
CHECK_DEADLOCK FALSE
