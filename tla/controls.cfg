SPECIFICATION ControlsSpec
CONSTANTS
    run = run  middle = middle  root = root  unknown = unknown
    ollama = ollama  openai = openai
    NoProfile = NoProfile
    AnyProvider = AnyProvider
    Provider = ollama
    Inputs <- InputsOf
INVARIANTS
    NearestMentionDecides
    DeniedIsInert
    RecordsTellAll
CHECK_DEADLOCK FALSE
