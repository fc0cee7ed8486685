CONSTANTS
    p = p
    q = q
    A = A
    B = B
    n1 = n1
    n2 = n2
    n3 = n3
    n4 = n4
    n5 = n5
    n6 = n6
    n7 = n7
    n8 = n8
    n9 = n9
    None = None
    Undefined = Undefined
    Base = 4
    Factories <- TwoFactories
    Types <- TwoTypes
    Names <- NineNames
    Fields <- FieldsOfTypes
    Kind <- KindOfNames
    Serializers <- SerializersOfNames
    Documents <- NewAndUsedDocuments
    Data <- DataOfNames
    Default <- DefaultOfNames
    Receivers <- FirstOrSecondFilters
SPECIFICATION Spec
CHECK_DEADLOCK FALSE
INVARIANTS
    MessagesTypeOK
    SameLayout
    FrameHoldsMessage
    HandledIfPermitted
PROPERTY
    ReadAsSent
