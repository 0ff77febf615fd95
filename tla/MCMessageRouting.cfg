SPECIFICATION RoutingSpec
CONSTANTS codex = codex pi = pi Word = Word NotGiven = NotGiven
          Agents <- MCAgents Profiles <- MCProfiles Mentions <- MCMentions
          MaxAdds = 3 MaxExplicit = 1 MaxTokens = 4
INVARIANTS HandlesUnique PromptedAreAddressed AssignedIsSent
CHECK_DEADLOCK FALSE
