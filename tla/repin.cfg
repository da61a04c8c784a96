CONSTANTS
    Queue <- DshQueue
    KeepsAnchor <- DshKeepsAnchor
    Ids = {"web", "tool-pwsh", "agent-loop"}
    DROP = {"web", "tool-pwsh"}
    MaxLines = 5
SPECIFICATION Spec
INVARIANTS PatchedOrRefused NothingTwice NamesMovedAnchor AdmittedRowsWhole NoPresetWaitsForWeb
CHECK_DEADLOCK FALSE
