SPECIFICATION ArtifactSpec
CONSTANTS
    w1 = w1  w2 = w2  w3 = w3  c1 = c1  c2 = c2
    NoContent = NoContent
    Writers = {w1, w2, w3}
    Contents = {c1, c2}
    MaxCrashes = 1
    MaxOutages = 1
INVARIANTS
    FinalFilesWhole
    LitterTakesTwoRefusals
    RecordedArtifactsReadable
PROPERTY
    ArtifactsStay
