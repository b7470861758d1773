CONSTANTS
    Item = {i1, i2, i3}
    End = end
    MaxValue = 2
    Uses = {"ready", "delayed", "event"}
SPECIFICATION ListFairSpec
INVARIANTS LinksAgree HeadIsFirst
PROPERTIES ImplementsRing EqualShare
