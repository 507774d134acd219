SPECIFICATION CampaignSpec
CONSTANTS
    r1 = r1
    r2 = r2
    q1 = q1
    q2 = q2
    Nobody = Nobody
    Radars = {r1, r2}
    Payers = {q1, q2}
    ResumeAfter = 2
INVARIANTS CampaignTypeOK OneOperation
PROPERTIES SpendingIsAnswered HardHaltStays CyclesRecordedOnce
SYMMETRY Symmetry
CHECK_DEADLOCK FALSE
