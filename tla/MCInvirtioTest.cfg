SPECIFICATION Spec
CONSTANT Commands <- AllCommands
INVARIANTS TypeOK  ChecksHold PromptRemoval
PROPERTIES  CommandsEnd
