\* mcp_answers: a tool call that returns at all returns the answer to itself.
SPECIFICATION McpSpec
CONSTANT MaxIds = 5
INVARIANT AnswersOwnCall
CHECK_DEADLOCK FALSE
