SPECIFICATION FairSpec
CONSTANTS
    Disk = {d1, d2}
    Slot = {s1, s2}
    Boot = 0
    SCSIControllerLimit = 3
    SCSIControllerDeviceLimit = 2
    SCSIDeviceSlots = 3
    SCSIReservedSlot = 1
    MaxFaults = 3
    Taken <- MCTaken
    None = None
INVARIANTS RefusedOnlyInRaces
PROPERTIES AnswersSound Undisturbed AttachConverges
CHECK_DEADLOCK FALSE
