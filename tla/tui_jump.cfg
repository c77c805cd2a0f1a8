SPECIFICATION Spec
CONSTANTS
    Files = {1}
    Unrelated = {}
    Incompatible = {}
    Agents = {1}
    Refs = {1, 2}
    Kinds = {"install", "upgrade", "drift", "uninstall", "models", "diagnostics"}
    MaxScreens = 2
    MaxCommands = 3
    MaxPrompt = 2
    MaxEdits = 1
    NotRead = NotRead
CHECK_DEADLOCK FALSE
PROPERTY NothingNavigatesWhileRunning
