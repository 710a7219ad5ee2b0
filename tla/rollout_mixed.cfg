SPECIFICATION Spec
CONSTANTS
    a = "a"
    b = "b"
    i1 = i1
    Contents <- MCContents
    Inquiries <- MCInquiries
    ChanCap = 2
    MaxUploads = 3
    MaxRestarts = 1
INVARIANT
    OneConfigPerInquiry
CHECK_DEADLOCK FALSE
