SPECIFICATION Spec
CONSTANTS
    MaxId = 4
    MaxTree = 3
    Absent = Absent
PROPERTIES ChangesAsAnnounced ModelTestPasses
VIEW MCView
